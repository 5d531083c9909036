---------------------------- MODULE MCTCPClient ----------------------------
(* Two clients and another part of the process, on three descriptors.      *)
EXTENDS TCPClient, TLC

CONSTANTS c1, c2, other

TwoClients == {c1, c2}
OneOther == {other}
Everyone == {c1, c2, other}
=============================================================================
