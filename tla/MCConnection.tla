--------------------------- MODULE MCConnection ---------------------------
(* Small instances of Connection for TLC. *)
EXTENDS Connection

Both == Sides
OnlyServer == {"server"}
OnlyClient == {"client"}
Nobody == {}

Setter(s, o, u) == [side |-> s, opt |-> o, unit |-> u]
\* those that matter when the client sends and the server receives
UploadTimeouts == {Setter("client", "snd", "msec"), Setter("server", "rcv", "timeval")}
\* the two overloads of CTCPServer::SetSndTimeout
ServerSendTimeouts == {Setter("server", "snd", "msec"), Setter("server", "snd", "timeval")}

=============================================================================
