---------------------------- MODULE TCPSSLClient ----------------------------
(***************************************************************************)
(* CTCPSSLClient: a CTCPClient that puts a TLS session on its connection.  *)
(* Connect runs the TCP client's, then makes a context, loads the          *)
(* certificate, CA and key files into it, makes a session on the TCP       *)
(* descriptor and shakes hands; each of these may fail, and a failure      *)
(* returns at once, with what was made so far.                             *)
(*                                                                         *)
(* SSLClients are those of Clients that are the m_TCPClient of a           *)
(* CTCPSSLClient; the others are plain.  Every step is a step of TCPClient *)
(* or leaves its variables alone, so what holds of TCPClient holds here.   *)
(***************************************************************************)
EXTENDS TCPClient, SSLSockets

ASSUME SSLClientsAssumption == Slots \subseteq Clients

VARIABLES
  tls,     \* "idle", or the next step of CTCPSSLClient::Connect
  sslRet   \* its last result

SSLClients == Slots
allVars == <<vars, sslVars, tls, sslRet>>

SSLClientInit ==
  /\ Init /\ SSLInit
  /\ tls = [c \in SSLClients |-> "idle"] /\ sslRet = [c \in SSLClients |-> FALSE]

GotoTLS(c, label) == tls' = [tls EXCEPT ![c] = label] /\ UNCHANGED sslRet
ReturnsTLS(c, result) ==
  tls' = [tls EXCEPT ![c] = "idle"] /\ sslRet' = [sslRet EXCEPT ![c] = result]

-----------------------------------------------------------------------------
(* Connect *)

\* a standing TCP connection is closed by the TCP client's Connect; the
\* session on it stays where it is
SSLConnect(c) ==
  /\ tls[c] = "idle" /\ Connect(c) /\ GotoTLS(c, "tcp") /\ UNCHANGED sslVars

\* m_TCPClient.Connect
TCPConnectStep_IgnoresResult(c) ==
  /\ tls[c] = "tcp" /\ ConnectStep(c)
  /\ IF pc'[c] # "idle" THEN UNCHANGED <<tls, sslRet>> ELSE GotoTLS(c, "ctx")
  /\ UNCHANGED sslVars
TCPConnectStep(c) ==
  /\ tls[c] = "tcp" /\ ConnectStep(c)
  /\ IF pc'[c] # "idle" THEN UNCHANGED <<tls, sslRet>>
     ELSE IF ret'[c] THEN GotoTLS(c, "ctx") ELSE ReturnsTLS(c, FALSE)
  /\ UNCHANGED sslVars

SetUpCtxClient(c) ==
  /\ tls[c] = "ctx"
  /\ \/ NewCtx(c) /\ GotoTLS(c, "load")
     \/ NewCtxFails(c) /\ ReturnsTLS(c, FALSE)
  /\ UNCHANGED vars

\* a certificate, CA or key file does not load
LoadFails_GoesOn(c) ==
  /\ tls[c] = "load" /\ ReturnsTLS(c, TRUE) /\ UNCHANGED <<vars, sslVars>>
LoadFails(c) ==
  /\ tls[c] = "load" /\ ReturnsTLS(c, FALSE) /\ UNCHANGED <<vars, sslVars>>

\* SSL_new is taken to succeed: SSL_set_fd would crash on a null pointer
MakeSession(c) ==
  /\ tls[c] = "load" /\ NewSession(c, sock[c]) /\ GotoTLS(c, "handshake")
  /\ UNCHANGED vars

\* SSL_connect; the session and the connection stay when it fails
Handshake(c) ==
  /\ tls[c] = "handshake"
  /\ \E ok \in BOOLEAN : ReturnsTLS(c, ok)
  /\ UNCHANGED <<vars, sslVars>>

-----------------------------------------------------------------------------
(* The other operations *)

SSLDisconnect_TCPOnly(c) ==
  /\ tls[c] = "idle" /\ Disconnect(c) /\ UNCHANGED <<sslVars, tls, sslRet>>
SSLDisconnect(c) ==
  /\ tls[c] = "idle" /\ Disconnect(c)
  /\ IF status[c] = "CONNECTED" THEN ShutdownSSL(c) ELSE UNCHANGED sslVars
  /\ UNCHANGED <<tls, sslRet>>

SSLSetTimeout(c) ==
  tls[c] = "idle" /\ SetTimeout(c) /\ UNCHANGED <<sslVars, tls, sslRet>>

\* ~CTCPSSLClient calls Disconnect, and the pointers are gone
SSLDestroy(c) ==
  /\ tls[c] = "idle" /\ Destroy(c)
  /\ IF status[c] = "CONNECTED" THEN ShutdownSSL(c) ELSE UNCHANGED sslVars
  /\ UNCHANGED <<tls, sslRet>>

SSLCreate(c) ==
  tls[c] = "idle" /\ Create(c) /\ Forget(c) /\ UNCHANGED <<tls, sslRet>>

SSLClientStep(c) ==
  \/ SSLConnect(c) \/ TCPConnectStep(c) \/ SetUpCtxClient(c) \/ LoadFails(c)
  \/ MakeSession(c) \/ Handshake(c)
  \/ SSLDisconnect(c) \/ SSLSetTimeout(c) \/ SSLDestroy(c) \/ SSLCreate(c)

PlainStep ==
  /\ \/ \E c \in Clients \ SSLClients : ClientStep(c)
     \/ \E o \in Others : OtherOpens(o) \/ OtherCloses(o)
  /\ UNCHANGED <<sslVars, tls, sslRet>>

SSLNext == PlainStep \/ \E c \in SSLClients : SSLClientStep(c)

SSLSpec == SSLClientInit /\ [][SSLNext]_allVars

\* SSL_connect may wait for its peer as long as the peer likes
SSLFairSpec == SSLSpec /\ \A c \in Clients : WF_vars(ConnectStep(c))

-----------------------------------------------------------------------------
(* Properties *)

SSLPartTypeOK ==
  /\ SSLTypeOK
  /\ session \in [Ctxs -> FdValue]
  /\ tls \in [SSLClients -> {"idle", "tcp", "ctx", "load", "handshake"}]
  /\ sslRet \in [SSLClients -> BOOLEAN]
  /\ \A c \in SSLClients :
       /\ tls[c] \in {"ctx", "load", "handshake"} => status[c] = "CONNECTED"
       /\ tls[c] # "tcp" => pc[c] \in {"idle", "dead"}

\* Every variable keeps its type, those of the TCP clients included, and the
\* TLS part of Connect runs on a TCP connection that stands.
SSLClientTypeOK == TypeOK /\ SSLPartTypeOK

\* Disconnect closes session k with the connection it is on: a connected
\* client has it, on its own descriptor and with the context it was made from
Accounted(k) ==
  \E c \in SSLClients :
    /\ pSSL[c] = k /\ status[c] = "CONNECTED" /\ tls[c] \in {"idle", "handshake"}
    /\ session[k] = sock[c] /\ sock[c] \in Held(c)
    /\ pCTX[c] = k /\ k \in ctxs

\* "Opening a new connexion. The last one was automatically closed."
\* (TCPClient.cpp:104): no session outlives the connection it is on.  The code
\* does not keep it for the TLS client, which closes the descriptor alone.
SessionsClosed == Sessions \subseteq {k \in Ctxs : Accounted(k)}

\* Connect on a connected object
OpensAgain(c) == SSLConnect(c) /\ status[c] = "CONNECTED"

\* m_pSSL is null or a live session of this client only, and what is freed
\* with it is a live context that no other client would free, or null
NoneFreedTwice ==
  \A c \in SSLClients : pSSL[c] # 0 =>
    /\ pSSL[c] \in Sessions /\ pCTX[c] \in ctxs \cup {0}
    /\ \A d \in SSLClients \ {c} : pSSL[d] # 0 =>
         pSSL[d] # pSSL[c] /\ (pCTX[d] # pCTX[c] \/ pCTX[c] = 0)

\* Sessions are accounted for from SSL_new to SSL_free, whichever step of
\* Connect fails; the one way to leave a session behind is Connect on a
\* connected object, and not even what follows it frees anything twice
\* (TCPSSLClient.cpp:38-153, 244-262, SecureSocket.cpp:150-161).
SessionsAccounted ==
  /\ []NoneFreedTwice
  /\ [][\A k \in Sessions' : ~Accounted(k)' =>
          \/ k \in Sessions /\ ~Accounted(k)
          \/ \E c \in SSLClients : OpensAgain(c) /\ pSSL[c] = k]_allVars

UsableSession ==
  \A c \in SSLClients :
    tls[c] = "idle" /\ sslRet[c] /\ status[c] = "CONNECTED" => pSSL[c] \in Sessions

\* m_eStatus is the only thing Send and Receive look at.  Between calls it is
\* CONNECTED only when the last TCP Connect returned true, whatever failed
\* since; and after a TLS Connect that returned true there is a session behind
\* it: SSL_write never gets a null pointer (TCPClient.cpp:256, 409,
\* TCPSSLClient.cpp:157-169, 215-226).
StatusTruthful == ConnectReport /\ UsableSession

\* a Connect is putting context k to use, or Disconnect frees it
Kept(k) ==
  Accounted(k) \/ \E c \in SSLClients : tls[c] = "load" /\ pCTX[c] = k

\* A context is freed with its session, on every path.  There are two steps
\* that leave one nobody will free: a file that does not load, since
\* ShutdownSSL looks for a session first, and Connect on a connected object
\* (TCPSSLClient.cpp:45-104, SecureSocket.cpp:150-161).
ContextsFreed ==
  [][\A k \in ctxs' : ~Kept(k)' =>
       \/ k \in ctxs /\ ~Kept(k)
       \/ \E c \in SSLClients : pCTX[c] = k /\ (LoadFails(c) \/ OpensAgain(c))]_allVars
=============================================================================
