---------------------------- MODULE TCPSSLServer ----------------------------
(***************************************************************************)
(* CTCPSSLServer: a CTCPServer whose Listen fills an SSLSocket of the      *)
(* application, first its descriptor, by m_TCPServer.Listen, then its      *)
(* context and session.  An SSLSocket owns nothing: copying is disabled,   *)
(* moving empties the source, and the application must call Disconnect.    *)
(*                                                                         *)
(* SSLServers are those of Servers that are the m_TCPServer of a           *)
(* CTCPSSLServer; the descriptors all of them accept are in SSLSockets.    *)
(***************************************************************************)
EXTENDS TCPServer, SSLSockets

CONSTANTS
  CarefulApp,  \* the application fills no SSLSocket that is in use, and
               \* disconnects each exactly once
  NoSlot       \* a server whose Listen has not been called

ASSUME AppAssumption == CarefulApp \in BOOLEAN /\ NoSlot \notin Slots

VARIABLES
  sockFd,   \* sockFd[s]: m_SockFd
  used,     \* history: the slots given to Listen and not yet disconnected
  tls,      \* "idle", or the next step of CTCPSSLServer::Listen
  slot,     \* the SSLSocket Listen was called with
  sslRet    \* its last result

slotVars == <<sslVars, sockFd, used>>
listenVars == <<tls, slot, sslRet>>
allVars == <<vars, slotVars, listenVars>>

SSLServerInit ==
  /\ Init /\ SSLInit
  /\ sockFd = [s \in Slots |-> INVALID_SOCKET] /\ used = {}
  /\ tls = [v \in Servers |-> "idle"] /\ slot = [v \in Servers |-> NoSlot]
  /\ sslRet = [v \in Servers |-> FALSE]

GotoTLS(v, label) == tls' = [tls EXCEPT ![v] = label] /\ UNCHANGED <<slot, sslRet>>
ReturnsTLS(v, result) ==
  /\ tls' = [tls EXCEPT ![v] = "idle"] /\ sslRet' = [sslRet EXCEPT ![v] = result]
  /\ UNCHANGED slot

InListen(s) == \E v \in Servers : tls[v] # "idle" /\ slot[v] = s
SetSockFd(s, f) == sockFd' = [sockFd EXCEPT ![s] = f]

-----------------------------------------------------------------------------
(* Listen *)

SSLListen(v, s) ==
  /\ tls[v] = "idle" /\ ~InListen(s) /\ (CarefulApp => s \notin used)
  /\ Listen(v)
  /\ SetSockFd(s, INVALID_SOCKET) /\ used' = used \cup {s}
  /\ tls' = [tls EXCEPT ![v] = "tcp"] /\ slot' = [slot EXCEPT ![v] = s]
  /\ UNCHANGED <<sslVars, sslRet>>

\* m_TCPServer.Listen, whose output is the descriptor of the SSLSocket
TCPListenStep(v) ==
  /\ tls[v] = "tcp" /\ ListenStep(v)
  /\ SetSockFd(slot[v], ClientSocket'[v])
  /\ IF pc'[v] # "idle" THEN UNCHANGED listenVars
     ELSE IF ret'[v] THEN GotoTLS(v, "ctx") ELSE ReturnsTLS(v, FALSE)
  /\ UNCHANGED <<sslVars, used>>

SetUpCtxServer(v) ==
  /\ tls[v] = "ctx"
  /\ \/ NewCtx(slot[v]) /\ GotoTLS(v, "load")
     \/ NewCtxFails(slot[v]) /\ ReturnsTLS(v, FALSE)
  /\ UNCHANGED <<vars, sockFd, used>>

\* a certificate, CA or key file does not load
LoadFails(v) ==
  /\ tls[v] = "load" /\ ReturnsTLS(v, FALSE) /\ UNCHANGED <<vars, slotVars>>

\* SSL_new is taken to succeed: SSL_set_fd would crash on a null pointer
MakeSession(v) ==
  /\ tls[v] = "load" /\ NewSession(slot[v], sockFd[slot[v]])
  /\ GotoTLS(v, "accept")
  /\ UNCHANGED <<vars, sockFd, used>>

\* SSL_accept
Handshake(v) ==
  tls[v] = "accept" /\ ReturnsTLS(v, TRUE) /\ UNCHANGED <<vars, slotVars>>

\* the session and its context are freed, the descriptor stays open
HandshakeFails(v) ==
  /\ tls[v] = "accept" /\ ShutdownSSL(slot[v]) /\ ReturnsTLS(v, FALSE)
  /\ UNCHANGED <<vars, sockFd, used>>

SSLListenStep(v) ==
  \/ TCPListenStep(v) \/ SetUpCtxServer(v) \/ LoadFails(v) \/ MakeSession(v)
  \/ Handshake(v) \/ HandshakeFails(v)

-----------------------------------------------------------------------------
(* The other operations *)

\* ShutdownSSL, then close() of m_SockFd whatever it is; the number stays
SSLDisconnect_SSLOnly(s) ==
  /\ ~InListen(s) /\ (CarefulApp => s \in used) /\ used' = used \ {s}
  /\ ShutdownSSL(s)
  /\ UNCHANGED <<vars, sockFd, listenVars>>
SSLDisconnect(s) ==
  /\ ~InListen(s) /\ (CarefulApp => s \in used) /\ used' = used \ {s}
  /\ ShutdownSSL(s) /\ CloseFd(sockFd[s])
  /\ UNCHANGED <<pc, listenSocket, callVars, sockFd, listenVars>>

Moved(p, s, t, null) == [p EXCEPT ![t] = p[s], ![s] = null]

\* SSLSocket's move: what t had is overwritten, s is emptied
Move_LeavesSource(s, t) ==
  /\ s # t /\ ~InListen(s) /\ ~InListen(t)
  /\ s \in used /\ (CarefulApp => t \notin used)
  /\ sockFd' = [sockFd EXCEPT ![t] = sockFd[s]]
  /\ pSSL' = [pSSL EXCEPT ![t] = pSSL[s]]
  /\ pCTX' = [pCTX EXCEPT ![t] = pCTX[s]]
  /\ used' = used \cup {t}
  /\ UNCHANGED <<vars, ctxs, session, listenVars>>
Move(s, t) ==
  /\ s # t /\ ~InListen(s) /\ ~InListen(t)
  /\ s \in used /\ (CarefulApp => t \notin used)
  /\ sockFd' = Moved(sockFd, s, t, INVALID_SOCKET)
  /\ pSSL' = Moved(pSSL, s, t, 0) /\ pCTX' = Moved(pCTX, s, t, 0)
  /\ used' = (used \ {s}) \cup {t}
  /\ UNCHANGED <<vars, ctxs, session, listenVars>>

SSLServerStep(v) ==
  \/ \E s \in Slots : SSLListen(v, s)
  \/ SSLListenStep(v)
  \/ tls[v] = "idle" /\ (Destroy(v) \/ Create(v)) /\ UNCHANGED <<slotVars, listenVars>>

SSLNext ==
  \/ \E v \in Servers : SSLServerStep(v)
  \/ \E s \in Slots : SSLDisconnect(s) \/ \E t \in Slots : Move(s, t)
  \/ \E f \in Fds, p \in Peers : PeerConnects(p, f) /\ UNCHANGED <<slotVars, listenVars>>

SSLSpec == SSLServerInit /\ [][SSLNext]_allVars

\* SSL_accept may wait for its peer as long as the peer likes
SSLFairSpec == SSLSpec /\ \A v \in Servers : WF_vars(ListenCanGoOn(v))

-----------------------------------------------------------------------------
(* Properties *)

\* The descriptors accepted and not yet closed are exactly those the used
\* SSLSockets name, each named once: what Listen accepted, a move handed on
\* and Disconnect closed adds up, after every failure of the TLS part too
\* (TCPSSLServer.cpp:40-140, 234-240, SecureSocket.h:51-80).
SlotsAccounted ==
  /\ Held(App) = {sockFd[s] : s \in used} \ {INVALID_SOCKET}
  /\ \A s, t \in used : sockFd[s] = sockFd[t] /\ sockFd[s] # INVALID_SOCKET => s = t

\* Every live session is the session of exactly one used SSLSocket, on the
\* descriptor of that SSLSocket and with its context: none is leaked, freed
\* twice, or sends close_notify on a number that is somebody else's by now.
SessionsAccounted ==
  /\ \A s \in Slots : pSSL[s] # 0 =>
       /\ s \in used /\ session[pSSL[s]] = sockFd[s] /\ sockFd[s] \in Held(App)
       /\ pCTX[s] = pSSL[s] /\ pCTX[s] \in ctxs
  /\ \A k \in Sessions : \E s \in Slots : pSSL[s] = k

\* A Listen that returned true filled its SSLSocket with a session that
\* Receive and Send can use; one that returned false left none behind.
ListenFills ==
  [][\A v \in Servers : tls[v] # "idle" /\ tls'[v] = "idle" =>
       (sslRet'[v] <=> pSSL'[slot[v]] \in Sessions')]_allVars

\* a Listen is putting context k to use, or Disconnect frees it
Kept(k) ==
  \/ \E s \in Slots : pSSL[s] # 0 /\ pCTX[s] = k
  \/ \E v \in Servers : tls[v] = "load" /\ pCTX[slot[v]] = k

\* A context is freed with its session, by the failed SSL_accept or by
\* Disconnect, wherever its SSLSocket was moved to.  One step leaves a context
\* that nobody will free: a file that does not load (TCPSSLServer.cpp:40-140,
\* 234-240, SecureSocket.cpp:150-161).
ContextsFreed ==
  [][\A k \in ctxs' : ~Kept(k)' =>
       \/ k \in ctxs /\ ~Kept(k)
       \/ \E v \in Servers : LoadFails(v) /\ pCTX[slot[v]] = k]_allVars

\* "ASecureSocket::SSLSocket objects must be disconnected with SSL/TLS server's
\* disconnect method to free used OpenSSL context and connection structures.
\* Otherwise, you will have memory leaks." (README.md:160): an application that
\* disconnects each has none left.  The code does not keep it after a Listen
\* whose certificate, CA or key file did not load (TCPSSLServer.cpp:58-104).
NothingLeaked ==
  used = {} /\ (\A v \in Servers : tls[v] = "idle") => ctxs = {} /\ Sessions = {}
=============================================================================
