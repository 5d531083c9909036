---------------------------- MODULE MCTCPServer ----------------------------
(* Two servers constructed with one port. *)
EXTENDS TCPServer, TLC

CONSTANTS v1, v2, q1, q2

TwoServers == {v1, v2}
TwoAndApp == {v1, v2, App}
TwoPorts == {q1, q2}
SamePort == [v \in Servers |-> q1]
=============================================================================
