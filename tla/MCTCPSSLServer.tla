--------------------------- MODULE MCTCPSSLServer ---------------------------
(* A TLS server and two SSLSockets. *)
EXTENDS TCPSSLServer, TLC

CONSTANTS v1, q1

OneServer == {v1}
OneAndApp == {v1, App}
OnePort == {q1}
ThePort == [v \in Servers |-> q1]
=============================================================================
