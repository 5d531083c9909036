--------------------------- MODULE MCTCPSSLClient ---------------------------
(* A plain client, a TLS client and another part of the process.           *)
EXTENDS TCPSSLClient, TLC

CONSTANTS c1, c2, other

TwoClients == {c1, c2}
TLSClient == {c2}
OneOther == {other}
Everyone == {c1, c2, other}
=============================================================================
