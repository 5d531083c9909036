---------------------------- MODULE MCTLSStream ----------------------------
(* A small instance of TLSStream for TLC. *)
EXTENDS TLSStream

Setter(s, o, u) == [side |-> s, opt |-> o, unit |-> u]
\* a send timeout for the sender, a receive timeout for the receiver
UploadTimeouts == {Setter("client", "snd", "msec"), Setter("server", "rcv", "msec")}
=============================================================================
