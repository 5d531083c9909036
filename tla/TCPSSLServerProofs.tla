------------------------- MODULE TCPSSLServerProofs -------------------------
(***************************************************************************)
(* What TLAPS proves of CTCPSSLServer, for every number of servers,        *)
(* SSLSockets, descriptors, peers and contexts, when the application       *)
(* fills no SSLSocket in use and disconnects each once.  SlotInv says      *)
(* besides the invariants of the runs which SSLSocket a running Listen     *)
(* works on: no other has it, and its context has no session before        *)
(* SSL_new.  Under it the TLS server is a TCPServer in every step.         *)
(***************************************************************************)
EXTENDS TCPSSLServer, TCPServerProofs

SlotTypeOK ==
  /\ pSSL \in [Slots -> 0..MaxCtx] /\ pCTX \in [Slots -> 0..MaxCtx]
  /\ ctxs \subseteq Ctxs /\ session \in [Ctxs -> FdValue]
  /\ sockFd \in [Slots -> FdValue] /\ used \subseteq Slots
  /\ tls \in [Servers -> {"idle", "tcp", "ctx", "load", "accept"}]
  /\ slot \in [Servers -> Slots \cup {NoSlot}] /\ sslRet \in [Servers -> BOOLEAN]

\* a session and the SSLSocket that has it
SessionsMatch ==
  /\ \A s \in Slots : pSSL[s] # 0 =>
       /\ s \in used /\ session[pSSL[s]] = sockFd[s] /\ sockFd[s] # INVALID_SOCKET
       /\ pCTX[s] = pSSL[s] /\ pCTX[s] \in ctxs
  /\ \A k \in Sessions : \E s \in Slots : pSSL[s] = k

\* the SSLSocket of a running Listen
ListenSlots ==
  /\ \A v \in Servers :
       /\ tls[v] # "idle" => slot[v] \in used
       /\ tls[v] = "tcp" => pc[v] \notin {"idle", "dead"} /\ sockFd[slot[v]] = INVALID_SOCKET
       /\ tls[v] # "tcp" => pc[v] \in {"idle", "dead"}
       /\ tls[v] \in {"ctx", "load"} => sockFd[slot[v]] # INVALID_SOCKET
       /\ tls[v] \in {"tcp", "ctx", "load"} => pSSL[slot[v]] = 0
       /\ tls[v] = "accept" => pSSL[slot[v]] # 0
  /\ \A v, u \in Servers :
       tls[v] # "idle" /\ tls[u] # "idle" /\ slot[v] = slot[u] => v = u

\* contexts whose session is still to be made
NewCtxsApart ==
  /\ \A v \in Servers : tls[v] = "load" => pCTX[slot[v]] \in ctxs /\ pCTX[slot[v]] \notin Sessions
  /\ \A v, u \in Servers :
       tls[v] = "load" /\ tls[u] = "load" /\ pCTX[slot[v]] = pCTX[slot[u]] => v = u

SlotInv ==
  ServerInv /\ SlotTypeOK /\ SlotsAccounted /\ SessionsMatch /\ ListenSlots /\ NewCtxsApart

-----------------------------------------------------------------------------
(* A TLS server is a TCP server *)

LEMMA SlotNames ==
  /\ MaxCtx \in Nat /\ NoSession = INVALID_SOCKET /\ NoSlot \notin Slots
  /\ 0 \in 0..MaxCtx /\ Ctxs \subseteq 0..MaxCtx /\ 0 \notin Ctxs
  BY CtxAssumption, AppAssumption DEF NoSession, INVALID_SOCKET, Ctxs

\* the descriptor of a used SSLSocket is the application's
LEMMA SlotsDescriptor ==
  ASSUME SlotsAccounted, NEW s \in used, sockFd[s] # INVALID_SOCKET
  PROVE  sockFd[s] \in Fds /\ owner[sockFd[s]] = App
  BY DEF SlotsAccounted, Held

LEMMA TLSStepIsTCPStep ==
  ASSUME SlotInv, CarefulApp, [SSLNext]_allVars
  PROVE  [Next]_vars
  <1>1. ASSUME NEW v \in Servers, SSLServerStep(v) PROVE [Next]_vars
    <2>1. CASE \/ (\E s \in Slots : SSLListen(v, s)) \/ TCPListenStep(v)
               \/ (tls[v] = "idle" /\ (Destroy(v) \/ Create(v)) /\ UNCHANGED <<slotVars, listenVars>>)
      BY <2>1 DEF SSLListen, TCPListenStep, ServerStep, Next
    <2>2. CASE SetUpCtxServer(v) \/ LoadFails(v) \/ MakeSession(v) \/ Handshake(v) \/ HandshakeFails(v)
      BY <2>2 DEF SetUpCtxServer, LoadFails, MakeSession, Handshake, HandshakeFails
    <2> QED BY <1>1, <2>1, <2>2 DEF SSLServerStep, SSLListenStep
  <1>2. ASSUME NEW s \in Slots, SSLDisconnect(s) PROVE [Next]_vars
    <2>1. /\ s \in used /\ CloseFd(sockFd[s]) /\ UNCHANGED <<pc, listenSocket, callVars>>
      BY <1>2 DEF SSLDisconnect
    <2>2. CASE sockFd[s] = INVALID_SOCKET
      <3>1. KernelOK BY TypeParts DEF SlotInv, ServerInv
      <3>2. UNCHANGED kernelVars BY <2>1, <2>2, <3>1, ClosesInvalid
      <3> QED BY <2>1, <3>2 DEF vars
    <2>3. CASE sockFd[s] # INVALID_SOCKET
      <3>1. sockFd[s] \in Fds /\ sockFd[s] \in Held(App)
        BY <2>1, <2>3, SlotsDescriptor DEF SlotInv, Held
      <3>2. Disconnect(sockFd[s]) BY <2>1, <3>1 DEF Disconnect
      <3> QED BY <3>1, <3>2 DEF Next
    <2> QED BY <2>2, <2>3
  <1>3. ASSUME NEW s \in Slots, NEW t \in Slots, Move(s, t) PROVE [Next]_vars
    BY <1>3 DEF Move
  <1>4. ASSUME NEW f \in Fds, NEW p \in Peers, PeerConnects(p, f) PROVE [Next]_vars
    BY <1>4 DEF Next
  <1>5. CASE UNCHANGED allVars BY <1>5 DEF allVars
  <1> QED BY <1>1, <1>2, <1>3, <1>4, <1>5 DEF SSLNext

\* what a step of m_TCPServer.Listen does to the application's descriptors
LEMMA ListenStepHolds ==
  ASSUME ServerInv, NEW v \in Servers, ListenStep(v)
  PROVE  /\ \A u \in Servers \ {v} : pc'[u] = pc[u]
         /\ pc'[v] # "dead"
         /\ \/ /\ Held(App)' = Held(App) /\ ClientSocket'[v] = INVALID_SOCKET
               /\ ~(pc'[v] = "idle" /\ ret'[v])
            \/ /\ pc'[v] = "idle" /\ ret'[v]
               /\ ClientSocket'[v] \in Fds \ Held(App)
               /\ Held(App)' = Held(App) \cup {ClientSocket'[v]}
  <1>1. CallsOK /\ KernelOK /\ ListenState BY TypeParts DEF ServerInv
  <1>2. pc[v] \notin {"dead", "idle"}
    BY DEF ListenStep, MakeSocket, MakeSocketFails, ReuseAddr, ReuseAddrFails, Bind, BindFails,
           StartListening, StartListeningFails, SelectReady, TimesOut, SelectFails, Accept, AcceptFails
  <1>3. ClientSocket[v] = INVALID_SOCKET BY <1>1, <1>2 DEF ListenState
  <1>4. PICK label \in Labels \ {"dead"} : pc' = [pc EXCEPT ![v] = label]
    BY DEF ListenStep, MakeSocket, MakeSocketFails, ReuseAddr, ReuseAddrFails, Bind, BindFails,
           StartListening, StartListeningFails, SelectReady, TimesOut, SelectFails, Accept, AcceptFails,
           Fails, Returns, Goto, Labels
  <1>5. pc'[v] = label /\ \A u \in Servers \ {v} : pc'[u] = pc[u] BY <1>1, <1>4 DEF CallsOK
  <1>6. CASE Accept(v)
    <2>1. PICK f \in Fds : Opens(App, f) /\ ClientSocket' = [ClientSocket EXCEPT ![v] = f]
      BY <1>6 DEF Accept
    <2>2. ret' = [ret EXCEPT ![v] = TRUE] /\ pc' = [pc EXCEPT ![v] = "idle"]
      BY <1>6 DEF Accept, Returns, Goto
    <2>3. pc'[v] = "idle" /\ ret'[v] /\ ClientSocket'[v] = f
      BY <1>1, <2>1, <2>2 DEF CallsOK
    <2>4. Held(App)' = Held(App) \cup {f} /\ f \in Free BY <1>1, <2>1, OpensFree, Names
    <2>5. f \notin Held(App) BY <2>4, Names DEF Free, Held
    <2> QED BY <1>5, <2>3, <2>4, <2>5
  <1>7. CASE ~Accept(v)
    <2>1. ClientSocket'[v] = INVALID_SOCKET
      BY <1>1, <1>3, <1>7
      DEF ListenStep, MakeSocket, MakeSocketFails, ReuseAddr, ReuseAddrFails, Bind, BindFails,
          StartListening, StartListeningFails, SelectReady, TimesOut, SelectFails, AcceptFails,
          Fails, callVars, CallsOK
    <2>2. Held(App)' = Held(App)
      <3>1. CASE MakeSocket(v)
        <4>1. PICK f \in Fds : Opens(v, f) BY <3>1 DEF MakeSocket
        <4> QED BY <1>1, <4>1, OpensFree, Names
      <3>2. CASE ReuseAddrFails(v)
        <4>1. CloseFd(listenSocket[v]) /\ pc[v] = "setsockopt" BY <3>2 DEF ReuseAddrFails
        <4>2. listenSocket[v] \in Fds /\ owner[listenSocket[v]] = v
          BY <1>1, <4>1, OwnsListenSocket DEF ListenState
        <4>3. PICK f \in Fds : f = listenSocket[v] BY <4>2
        <4> QED BY <1>1, <4>1, <4>2, <4>3, ClosesOwn, Names
      <3>3. CASE UNCHANGED owner BY <3>3 DEF Held
      <3> QED BY <1>7, <3>1, <3>2, <3>3
              DEF ListenStep, MakeSocketFails, ReuseAddr, Bind, BindFails, StartListening,
                  StartListeningFails, SelectReady, TimesOut, SelectFails, AcceptFails, kernelVars
    <2>3. ~(pc'[v] = "idle" /\ ret'[v])
      <3> SUFFICES ASSUME pc'[v] = "idle", ret'[v] PROVE FALSE OBVIOUS
      <3>2. CASE MakeSocketFails(v) \/ ReuseAddrFails(v) \/ BindFails(v)
                 \/ StartListeningFails(v) \/ TimesOut(v) \/ SelectFails(v) \/ AcceptFails(v)
        <4>1. ret' = [ret EXCEPT ![v] = FALSE]
          BY <3>2 DEF MakeSocketFails, ReuseAddrFails, BindFails, StartListeningFails, TimesOut,
                      SelectFails, AcceptFails, Fails, Returns
        <4> QED BY <1>1, <4>1 DEF CallsOK
      <3>3. CASE MakeSocket(v) \/ ReuseAddr(v) \/ Bind(v) \/ StartListening(v) \/ SelectReady(v)
        <4>1. PICK next \in {"setsockopt", "bind", "listen", "select", "accept"} :
                pc' = [pc EXCEPT ![v] = next]
          BY <3>3 DEF MakeSocket, ReuseAddr, Bind, StartListening, SelectReady, Goto
        <4>2. pc'[v] = next BY <1>1, <4>1 DEF CallsOK
        <4> QED BY <4>2
      <3> QED BY <1>7, <3>2, <3>3 DEF ListenStep
    <2> QED BY <1>5, <2>1, <2>2, <2>3
  <1> QED BY <1>6, <1>7

-----------------------------------------------------------------------------
(* Steps that make and free no session *)

LEMMA OpenSSLQuiet ==
  ASSUME SlotInv, ServerInv', SlotTypeOK', SlotsAccounted', ListenSlots', UNCHANGED sslVars,
         \A s \in Slots : pSSL[s] # 0 => sockFd'[s] = sockFd[s] /\ s \in used',
         \A v \in Servers : tls'[v] = "load" => tls[v] = "load" /\ slot'[v] = slot[v]
  PROVE  SlotInv'
  <1>1. UNCHANGED <<pSSL, pCTX, ctxs, session, Sessions>> BY DEF sslVars, Sessions
  <1>2. SessionsMatch' BY <1>1 DEF SlotInv, SessionsMatch
  <1>3. NewCtxsApart' BY <1>1 DEF SlotInv, NewCtxsApart
  <1> QED BY <1>2, <1>3 DEF SlotInv

LEMMA SSLListenKeeps ==
  ASSUME SlotInv, ServerInv', CarefulApp, NEW v \in Servers, NEW s \in Slots, SSLListen(v, s)
  PROVE  SlotInv'
  <1>1. /\ tls[v] = "idle" /\ s \notin used /\ Listen(v) /\ UNCHANGED <<sslVars, sslRet>>
        /\ sockFd' = [sockFd EXCEPT ![s] = INVALID_SOCKET] /\ used' = used \cup {s}
        /\ tls' = [tls EXCEPT ![v] = "tcp"] /\ slot' = [slot EXCEPT ![v] = s]
    BY DEF SSLListen, SetSockFd
  <1>2. UNCHANGED <<pSSL, pCTX, ctxs, session>> BY <1>1 DEF sslVars
  <1>3. /\ SlotTypeOK /\ SlotsAccounted /\ SessionsMatch /\ ListenSlots /\ CallsOK
    BY TypeParts DEF SlotInv, ServerInv
  <1>4. pSSL[s] = 0 BY <1>1, <1>3 DEF SessionsMatch
  <1>5. Held(App)' = Held(App) BY <1>1 DEF Listen, kernelVars, Held
  <1>6. /\ pc'[v] \in {"socket", "listen"} /\ \A u \in Servers \ {v} : pc'[u] = pc[u]
    <2>1. PICK label \in {"socket", "listen"} : pc' = [pc EXCEPT ![v] = label]
      BY <1>1 DEF Listen, Goto
    <2> QED BY <1>3, <2>1 DEF CallsOK
  <1>7. SlotTypeOK' BY <1>1, <1>2, <1>3, Names DEF SlotTypeOK
  <1>8. /\ sockFd'[s] = INVALID_SOCKET /\ \A t \in Slots \ {s} : sockFd'[t] = sockFd[t]
        /\ used \subseteq Slots \ {s}
    BY <1>1, <1>3 DEF SlotTypeOK
  <1>9. SlotsAccounted'
    <2>1. {sockFd'[t] : t \in used'} \ {INVALID_SOCKET} = {sockFd[t] : t \in used} \ {INVALID_SOCKET}
      BY <1>1, <1>8
    <2>2. ASSUME NEW t \in used', NEW r \in used', sockFd'[t] = sockFd'[r], sockFd'[t] # INVALID_SOCKET
          PROVE  t = r
      BY <1>1, <1>3, <1>8, <2>2 DEF SlotsAccounted
    <2> QED BY <1>3, <1>5, <2>1, <2>2 DEF SlotsAccounted
  <1>10. ListenSlots'
    <2>1. /\ tls'[v] = "tcp" /\ slot'[v] = s
          /\ \A u \in Servers \ {v} : tls'[u] = tls[u] /\ slot'[u] = slot[u]
      BY <1>1, <1>3 DEF SlotTypeOK
    <2>2. ASSUME NEW u \in Servers \ {v}, tls[u] # "idle"
          PROVE  slot[u] \in used /\ slot[u] # s
      BY <1>1, <1>3, <2>2 DEF ListenSlots
    <2>3. ASSUME NEW u \in Servers
          PROVE  /\ tls'[u] # "idle" => slot'[u] \in used'
                 /\ tls'[u] = "tcp" => pc'[u] \notin {"idle", "dead"} /\ sockFd'[slot'[u]] = INVALID_SOCKET
                 /\ tls'[u] # "tcp" => pc'[u] \in {"idle", "dead"}
                 /\ tls'[u] \in {"ctx", "load"} => sockFd'[slot'[u]] # INVALID_SOCKET
                 /\ tls'[u] \in {"tcp", "ctx", "load"} => pSSL'[slot'[u]] = 0
                 /\ tls'[u] = "accept" => pSSL'[slot'[u]] # 0
      <3>1. CASE u = v BY <1>1, <1>2, <1>4, <1>6, <1>8, <2>1, <3>1
      <3>2. CASE u # v
        <4>1. CASE tls[u] = "idle" BY <1>3, <1>6, <2>1, <3>2, <4>1 DEF ListenSlots
        <4>2. CASE tls[u] # "idle"
          <5>1. slot[u] \in Slots \ {s} BY <1>3, <2>2, <3>2, <4>2 DEF SlotTypeOK
          <5> QED BY <1>1, <1>2, <1>3, <1>6, <1>8, <2>1, <2>2, <3>2, <4>2, <5>1 DEF ListenSlots
        <4> QED BY <4>1, <4>2
      <3> QED BY <3>1, <3>2
    <2>4. ASSUME NEW u \in Servers, NEW w \in Servers,
                 tls'[u] # "idle", tls'[w] # "idle", slot'[u] = slot'[w]
          PROVE  u = w
      BY <1>3, <2>1, <2>2, <2>4 DEF ListenSlots
    <2> QED BY <2>3, <2>4 DEF ListenSlots
  <1>11. \A u \in Servers : tls'[u] = "load" => tls[u] = "load" /\ slot'[u] = slot[u]
    BY <1>1, <1>3 DEF SlotTypeOK
  <1>12. \A t \in Slots : pSSL[t] # 0 => sockFd'[t] = sockFd[t] /\ t \in used'
    BY <1>1, <1>3, <1>4, <1>8 DEF SessionsMatch
  <1> QED BY <1>1, <1>7, <1>9, <1>10, <1>11, <1>12, OpenSSLQuiet

LEMMA TCPListenStepKeeps ==
  ASSUME SlotInv, ServerInv', NEW v \in Servers, TCPListenStep(v)
  PROVE  SlotInv'
  <1>1. /\ tls[v] = "tcp" /\ ListenStep(v) /\ UNCHANGED <<sslVars, used, slot>>
        /\ sockFd' = [sockFd EXCEPT ![slot[v]] = ClientSocket'[v]]
        /\ \/ pc'[v] # "idle" /\ UNCHANGED <<tls, sslRet>>
           \/ pc'[v] = "idle" /\ ret'[v] /\ tls' = [tls EXCEPT ![v] = "ctx"] /\ UNCHANGED sslRet
           \/ pc'[v] = "idle" /\ ~ret'[v] /\ tls' = [tls EXCEPT ![v] = "idle"]
              /\ sslRet' = [sslRet EXCEPT ![v] = FALSE]
    BY DEF TCPListenStep, SetSockFd, listenVars, GotoTLS, ReturnsTLS
  <1>2. UNCHANGED <<pSSL, pCTX, ctxs, session>> BY <1>1 DEF sslVars
  <1>3. /\ SlotTypeOK /\ SlotsAccounted /\ SessionsMatch /\ ListenSlots /\ ServerInv
    BY DEF SlotInv
  <1>4. /\ \A u \in Servers \ {v} : pc'[u] = pc[u]
        /\ pc'[v] # "dead"
        /\ \/ /\ Held(App)' = Held(App) /\ ClientSocket'[v] = INVALID_SOCKET
              /\ ~(pc'[v] = "idle" /\ ret'[v])
           \/ /\ pc'[v] = "idle" /\ ret'[v]
              /\ ClientSocket'[v] \in Fds \ Held(App)
              /\ Held(App)' = Held(App) \cup {ClientSocket'[v]}
    BY <1>1, <1>3, ListenStepHolds
  <1>5. PICK s \in used : s = slot[v] /\ s \in Slots
    BY <1>1, <1>3 DEF ListenSlots, SlotTypeOK
  <1>6. PICK f \in FdValue : f = ClientSocket'[v] BY <1>4, Names
  <1>7. /\ sockFd'[s] = f /\ \A t \in Slots \ {s} : sockFd'[t] = sockFd[t]
        /\ sockFd[s] = INVALID_SOCKET /\ pSSL[s] = 0
    BY <1>1, <1>3, <1>5, <1>6 DEF SlotTypeOK, ListenSlots
  <1>8. SlotTypeOK' BY <1>1, <1>2, <1>3, <1>6 DEF SlotTypeOK
  <1>9. SlotsAccounted'
    <2>1. Held(App)' = Held(App) \cup ({f} \ {INVALID_SOCKET}) /\ f \notin Held(App)
      <3>1. INVALID_SOCKET \notin Held(App) BY Names DEF Held
      <3> QED BY <1>4, <1>6, <3>1, Names
    <2>2. used \subseteq Slots BY <1>3 DEF SlotTypeOK
    <2>3. {sockFd'[t] : t \in used} \ {INVALID_SOCKET}
            = ({sockFd[t] : t \in used} \ {INVALID_SOCKET}) \cup ({f} \ {INVALID_SOCKET})
      BY <1>5, <1>7, <2>2
    <2>4. ASSUME NEW t \in used, NEW r \in used, sockFd'[t] = sockFd'[r], sockFd'[t] # INVALID_SOCKET
          PROVE  t = r
      <3>1. \A q \in used \ {s} : sockFd[q] # INVALID_SOCKET => sockFd[q] \in Held(App)
        BY <1>3 DEF SlotsAccounted
      <3>2. CASE t = s BY <1>7, <2>1, <2>2, <2>4, <3>1, <3>2
      <3>3. CASE r = s BY <1>7, <2>1, <2>2, <2>4, <3>1, <3>3
      <3>4. CASE t # s /\ r # s BY <1>3, <1>7, <2>2, <2>4, <3>4 DEF SlotsAccounted
      <3> QED BY <3>2, <3>3, <3>4
    <2> QED BY <1>1, <1>3, <2>1, <2>3, <2>4 DEF SlotsAccounted
  <1>10. ListenSlots'
    <2>1. \A u \in Servers \ {v} : tls'[u] = tls[u] /\ pc'[u] = pc[u]
      BY <1>1, <1>3, <1>4 DEF SlotTypeOK
    <2>2. \/ tls'[v] = "tcp" /\ pc'[v] \notin {"idle", "dead"} /\ f = INVALID_SOCKET
          \/ tls'[v] = "ctx" /\ pc'[v] = "idle" /\ f # INVALID_SOCKET
          \/ tls'[v] = "idle" /\ pc'[v] = "idle"
      BY <1>1, <1>3, <1>4, <1>6, Names DEF SlotTypeOK
    <2>3. ASSUME NEW u \in Servers
          PROVE  /\ tls'[u] # "idle" => slot'[u] \in used'
                 /\ tls'[u] = "tcp" => pc'[u] \notin {"idle", "dead"} /\ sockFd'[slot'[u]] = INVALID_SOCKET
                 /\ tls'[u] # "tcp" => pc'[u] \in {"idle", "dead"}
                 /\ tls'[u] \in {"ctx", "load"} => sockFd'[slot'[u]] # INVALID_SOCKET
                 /\ tls'[u] \in {"tcp", "ctx", "load"} => pSSL'[slot'[u]] = 0
                 /\ tls'[u] = "accept" => pSSL'[slot'[u]] # 0
      <3>1. CASE u = v BY <1>1, <1>2, <1>5, <1>7, <2>2, <3>1
      <3>2. CASE u # v
        <4>1. CASE tls[u] = "idle" BY <1>1, <1>3, <2>1, <3>2, <4>1 DEF ListenSlots
        <4>2. CASE tls[u] # "idle"
          <5>1. slot[u] \in Slots \ {s}
            BY <1>1, <1>3, <1>5, <3>2, <4>2 DEF SlotTypeOK, ListenSlots
          <5> QED BY <1>1, <1>2, <1>3, <1>7, <2>1, <3>2, <4>2, <5>1 DEF ListenSlots
        <4> QED BY <4>1, <4>2
      <3> QED BY <3>1, <3>2
    <2>4. \A u \in Servers : tls'[u] # "idle" => tls[u] # "idle" BY <1>1, <2>1
    <2> QED BY <1>1, <1>3, <2>3, <2>4 DEF ListenSlots
  <1>11. \A u \in Servers : tls'[u] = "load" => tls[u] = "load" /\ slot'[u] = slot[u]
    BY <1>1, <1>3 DEF SlotTypeOK
  <1>12. \A t \in Slots : pSSL[t] # 0 => sockFd'[t] = sockFd[t] /\ t \in used'
    BY <1>1, <1>3, <1>7 DEF SessionsMatch
  <1> QED BY <1>1, <1>8, <1>9, <1>10, <1>11, <1>12, OpenSSLQuiet

\* a step of the TLS part of Listen that ends it or that only the TCP server
\* and its peers see
LEMMA ListenEnds ==
  ASSUME SlotInv, ServerInv', NEW v \in Servers, NEW label \in {"idle", tls[v]},
         tls' = [tls EXCEPT ![v] = label], sslRet' \in [Servers -> BOOLEAN],
         tls[v] # "tcp",
         UNCHANGED <<sslVars, sockFd, used, slot>>, Held(App)' = Held(App),
         \A u \in Servers : tls[u] # "tcp" => pc'[u] \in {"idle", "dead"},
         \A u \in Servers : tls[u] = "tcp" => pc'[u] = pc[u]
  PROVE  SlotInv'
  <1>1. UNCHANGED <<pSSL, pCTX, ctxs, session>> BY DEF sslVars
  <1>2. SlotTypeOK /\ SlotsAccounted /\ SessionsMatch /\ ListenSlots BY DEF SlotInv
  <1>3. \A u \in Servers : tls'[u] \in {"idle", tls[u]} /\ (tls'[u] = "tcp" <=> tls[u] = "tcp")
    BY <1>2 DEF SlotTypeOK
  <1>4. tls' \in [Servers -> {"idle", "tcp", "ctx", "load", "accept"}]
    BY <1>2 DEF SlotTypeOK
  <1>5. SlotTypeOK' BY <1>1, <1>2, <1>4 DEF SlotTypeOK
  <1>6. SlotsAccounted' BY <1>2 DEF SlotsAccounted
  <1>7. ListenSlots' BY <1>1, <1>2, <1>3 DEF ListenSlots
  <1>8. \A s \in Slots : pSSL[s] # 0 => sockFd'[s] = sockFd[s] /\ s \in used'
    BY <1>2 DEF SessionsMatch
  <1>9. \A u \in Servers : tls'[u] = "load" => tls[u] = "load" /\ slot'[u] = slot[u]
    BY <1>3
  <1> QED BY <1>5, <1>6, <1>7, <1>8, <1>9, OpenSSLQuiet

\* what the lemmas below know of a server
LEMMA SlotFacts ==
  ASSUME SlotInv, NEW v \in Servers
  PROVE  /\ tls \in [Servers -> {"idle", "tcp", "ctx", "load", "accept"}]
         /\ sslRet \in [Servers -> BOOLEAN]
         /\ tls[v] # "tcp" => pc[v] \in {"idle", "dead"}
         /\ tls[v] # "idle" => slot[v] \in used /\ slot[v] \in Slots
         /\ pc \in [Servers -> Labels]
  BY TypeParts DEF SlotInv, SlotTypeOK, ListenSlots, ServerInv, CallsOK

LEMMA LoadFailsKeeps ==
  ASSUME SlotInv, ServerInv', NEW v \in Servers, LoadFails(v) \/ Handshake(v)
  PROVE  SlotInv'
  <1>1. /\ tls[v] # "tcp" /\ UNCHANGED <<vars, slotVars, slot>>
        /\ tls' = [tls EXCEPT ![v] = "idle"]
        /\ \E r \in BOOLEAN : sslRet' = [sslRet EXCEPT ![v] = r]
    BY DEF LoadFails, Handshake, ReturnsTLS
  <1>2. UNCHANGED <<pc, owner, sslVars, sockFd, used>>
    BY <1>1 DEF vars, kernelVars, slotVars
  <1>3. Held(App)' = Held(App) BY <1>2 DEF Held
  <1>4. sslRet' \in [Servers -> BOOLEAN] BY <1>1, SlotFacts
  <1> QED BY <1>1, <1>2, <1>3, <1>4, SlotFacts, ListenEnds

LEMMA TCPQuietKeeps ==
  ASSUME SlotInv, ServerInv', UNCHANGED <<slotVars, listenVars>>, Held(App)' = Held(App),
         \A u \in Servers : tls[u] # "tcp" => pc'[u] \in {"idle", "dead"},
         \A u \in Servers : tls[u] = "tcp" => pc'[u] = pc[u]
  PROVE  SlotInv'
  <1>1. UNCHANGED <<pSSL, pCTX, ctxs, session, sockFd, used, tls, slot, sslRet>>
    BY DEF slotVars, listenVars, sslVars
  <1>2. SlotTypeOK /\ SlotsAccounted /\ SessionsMatch /\ ListenSlots BY DEF SlotInv
  <1>3. SlotTypeOK' BY <1>1, <1>2 DEF SlotTypeOK
  <1>4. SlotsAccounted' BY <1>1, <1>2 DEF SlotsAccounted
  <1>5. ListenSlots' BY <1>1, <1>2 DEF ListenSlots
  <1>6. UNCHANGED sslVars BY DEF slotVars
  <1>7. \A s \in Slots : pSSL[s] # 0 => sockFd'[s] = sockFd[s] /\ s \in used'
    BY <1>1, <1>2 DEF SessionsMatch
  <1> QED BY <1>1, <1>3, <1>4, <1>5, <1>6, <1>7, OpenSSLQuiet

LEMMA ServerLivesAndDies ==
  ASSUME SlotInv, ServerInv', NEW v \in Servers, tls[v] = "idle", Destroy(v) \/ Create(v),
         UNCHANGED <<slotVars, listenVars>>
  PROVE  SlotInv'
  <1>1. \E label \in {"idle", "dead"} : pc' = [pc EXCEPT ![v] = label]
    BY DEF Destroy, Create, Goto
  <1>2. ServerInv /\ KernelOK /\ CallsOK BY TypeParts DEF SlotInv, ServerInv
  <1>3. Held(App)' = Held(App)
    <2>1. CASE Create(v) BY <2>1 DEF Create, kernelVars, Held
    <2>2. CASE Destroy(v)
      <3>1. pc[v] # "dead" /\ CloseFd(listenSocket[v]) BY <2>2 DEF Destroy
      <3>2. CASE listenSocket[v] = INVALID_SOCKET
        BY <1>2, <3>1, <3>2, ClosesInvalid DEF kernelVars, Held
      <3>3. CASE listenSocket[v] # INVALID_SOCKET
        <4>1. PICK f \in Fds : f = listenSocket[v] /\ owner[f] = v
          BY <1>2, <3>1, <3>3, OwnsListenSocket
        <4> QED BY <1>2, <3>1, <4>1, ClosesOwn, Names
      <3> QED BY <3>2, <3>3
    <2> QED BY <2>1, <2>2
  <1>4. \A u \in Servers : tls[u] # "tcp" => pc'[u] \in {"idle", "dead"}
    BY <1>1, SlotFacts
  <1>5. \A u \in Servers : tls[u] = "tcp" => pc'[u] = pc[u]
    BY <1>1, SlotFacts
  <1> QED BY <1>3, <1>4, <1>5, TCPQuietKeeps

-----------------------------------------------------------------------------
(* Contexts and sessions *)

\* no two SSLSockets have the same session
LEMMA SessionsApart ==
  ASSUME SlotInv, NEW s \in Slots, NEW t \in Slots, pSSL[s] # 0, pSSL[s] = pSSL[t]
  PROVE  s = t
  BY DEF SlotInv, SessionsMatch, SlotsAccounted

LEMMA NewCtxKeeps ==
  ASSUME SlotInv, ServerInv', NEW v \in Servers, SetUpCtxServer(v)
  PROVE  SlotInv'
  <1>1. /\ SlotTypeOK /\ SlotsAccounted /\ SessionsMatch /\ ListenSlots /\ NewCtxsApart
    BY DEF SlotInv
  <1>2. PICK s \in used : s = slot[v] /\ s \in Slots /\ pSSL[s] = 0
    BY <1>1 DEF SetUpCtxServer, ListenSlots, SlotTypeOK
  <1>3. /\ tls[v] = "ctx" /\ UNCHANGED <<pSSL, session, sockFd, used, slot, pc>>
        /\ Held(App)' = Held(App) /\ Sessions' = Sessions
    BY DEF SetUpCtxServer, NewCtx, NewCtxFails, GotoTLS, ReturnsTLS, vars, kernelVars, Held, Sessions
  <1>4. SlotsAccounted' BY <1>1, <1>3 DEF SlotsAccounted
  <1>5. \A u \in Servers \ {v} : tls[u] = "load" => slot[u] \in Slots \ {s}
    BY <1>1, <1>2, <1>3 DEF ListenSlots, SlotTypeOK
  <1>6. CASE NewCtx(slot[v]) /\ GotoTLS(v, "load")
    <2>1. PICK k \in Ctxs \ (ctxs \cup Sessions) :
            pCTX' = [pCTX EXCEPT ![s] = k] /\ ctxs' = ctxs \cup {k}
      BY <1>2, <1>6 DEF NewCtx, SetPtr
    <2>2. tls' = [tls EXCEPT ![v] = "load"] /\ sslRet' = sslRet BY <1>6 DEF GotoTLS
    <2>3. SlotTypeOK' BY <1>1, <1>3, <2>1, <2>2, SlotNames DEF SlotTypeOK
    <2>4. SessionsMatch' BY <1>1, <1>2, <1>3, <2>1 DEF SessionsMatch, SlotTypeOK
    <2>5. ListenSlots' BY <1>1, <1>2, <1>3, <2>2 DEF ListenSlots, SlotTypeOK
    <2>6. /\ pCTX'[s] = k /\ tls'[v] = "load"
          /\ \A u \in Servers \ {v} : tls'[u] = tls[u]
          /\ \A t \in Slots \ {s} : pCTX'[t] = pCTX[t]
      BY <1>1, <1>2, <2>1, <2>2 DEF SlotTypeOK
    <2>7. NewCtxsApart' BY <1>1, <1>2, <1>3, <1>5, <2>1, <2>6 DEF NewCtxsApart
    <2> QED BY <1>4, <2>3, <2>4, <2>5, <2>7 DEF SlotInv
  <1>7. CASE NewCtxFails(slot[v]) /\ ReturnsTLS(v, FALSE)
    <2>1. pCTX' = [pCTX EXCEPT ![s] = 0] /\ ctxs' = ctxs BY <1>2, <1>7 DEF NewCtxFails, SetPtr
    <2>2. tls' = [tls EXCEPT ![v] = "idle"] /\ sslRet' = [sslRet EXCEPT ![v] = FALSE]
      BY <1>7 DEF ReturnsTLS
    <2>3. SlotTypeOK' BY <1>1, <1>3, <2>1, <2>2, SlotNames DEF SlotTypeOK
    <2>4. SessionsMatch' BY <1>1, <1>2, <1>3, <2>1 DEF SessionsMatch, SlotTypeOK
    <2>5. ListenSlots' BY <1>1, <1>2, <1>3, <2>2 DEF ListenSlots, SlotTypeOK
    <2>6. NewCtxsApart' BY <1>1, <1>2, <1>3, <1>5, <2>1, <2>2 DEF NewCtxsApart, SlotTypeOK
    <2> QED BY <1>4, <2>3, <2>4, <2>5, <2>6 DEF SlotInv
  <1> QED BY <1>6, <1>7 DEF SetUpCtxServer

LEMMA MakeSessionKeeps ==
  ASSUME SlotInv, ServerInv', NEW v \in Servers, MakeSession(v)
  PROVE  SlotInv'
  <1>1. /\ SlotTypeOK /\ SlotsAccounted /\ SessionsMatch /\ ListenSlots /\ NewCtxsApart
    BY DEF SlotInv
  <1>2. PICK s \in used : s = slot[v] /\ s \in Slots /\ pSSL[s] = 0
    BY <1>1 DEF MakeSession, ListenSlots, SlotTypeOK
  <1>3. PICK k \in Ctxs : k = pCTX[s] /\ k \in ctxs /\ k \notin Sessions
    BY <1>1, <1>2 DEF MakeSession, NewCtxsApart, SlotTypeOK
  <1>4. PICK f \in FdValue : f = sockFd[s] /\ f # INVALID_SOCKET
    BY <1>1, <1>2 DEF MakeSession, ListenSlots, SlotTypeOK
  <1>5. /\ tls[v] = "load" /\ UNCHANGED <<pCTX, ctxs, sockFd, used, slot, pc, sslRet>>
        /\ pSSL' = [pSSL EXCEPT ![s] = k] /\ session' = [session EXCEPT ![k] = f]
        /\ tls' = [tls EXCEPT ![v] = "accept"] /\ Held(App)' = Held(App)
    BY <1>2, <1>3, <1>4 DEF MakeSession, NewSession, SetPtr, GotoTLS, vars, kernelVars, Held
  <1>6. /\ pSSL'[s] = k /\ \A t \in Slots \ {s} : pSSL'[t] = pSSL[t]
        /\ session'[k] = f /\ \A j \in Ctxs \ {k} : session'[j] = session[j]
        /\ tls'[v] = "accept" /\ \A u \in Servers \ {v} : tls'[u] = tls[u]
        /\ k # 0
    BY <1>1, <1>2, <1>3, <1>5, SlotNames DEF SlotTypeOK
  <1>7. Sessions' = Sessions \cup {k} BY <1>3, <1>4, <1>6, SlotNames DEF Sessions
  <1>8. SlotTypeOK' BY <1>1, <1>5, SlotNames DEF SlotTypeOK
  <1>9. SlotsAccounted' BY <1>1, <1>5 DEF SlotsAccounted
  <1>10. SessionsMatch'
    <2>1. ASSUME NEW t \in Slots, pSSL'[t] # 0
          PROVE  /\ t \in used' /\ session'[pSSL'[t]] = sockFd'[t] /\ sockFd'[t] # INVALID_SOCKET
                 /\ pCTX'[t] = pSSL'[t] /\ pCTX'[t] \in ctxs'
      <3>1. CASE t = s BY <1>2, <1>3, <1>4, <1>5, <1>6, <3>1
      <3>2. CASE t # s
        <4>1. pSSL[t] # 0 /\ pSSL[t] \in Ctxs
          BY <1>1, <1>6, <2>1, <3>2 DEF SlotTypeOK, Ctxs
        <4>2. pSSL[t] \in Sessions BY <1>1, <4>1, SlotNames DEF SessionsMatch, Sessions
        <4> QED BY <1>1, <1>3, <1>5, <1>6, <3>2, <4>1, <4>2 DEF SessionsMatch
      <3> QED BY <3>1, <3>2
    <2>2. ASSUME NEW j \in Sessions' PROVE \E t \in Slots : pSSL'[t] = j
      <3>1. CASE j = k BY <1>2, <1>6, <3>1
      <3>2. CASE j # k
        <4>1. PICK t \in Slots : pSSL[t] = j BY <1>1, <1>7, <2>2, <3>2 DEF SessionsMatch
        <4>2. j # 0 BY <2>2, SlotNames DEF Sessions
        <4> QED BY <1>2, <1>6, <4>1, <4>2
      <3> QED BY <3>1, <3>2
    <2> QED BY <2>1, <2>2 DEF SessionsMatch
  <1>11. \A u \in Servers \ {v} : tls[u] # "idle" => slot[u] \in Slots \ {s}
    BY <1>1, <1>2, <1>5 DEF ListenSlots, SlotTypeOK
  <1>12. ListenSlots'
    <2>1. ASSUME NEW u \in Servers
          PROVE  /\ tls'[u] # "idle" => slot'[u] \in used'
                 /\ tls'[u] = "tcp" => pc'[u] \notin {"idle", "dead"} /\ sockFd'[slot'[u]] = INVALID_SOCKET
                 /\ tls'[u] # "tcp" => pc'[u] \in {"idle", "dead"}
                 /\ tls'[u] \in {"ctx", "load"} => sockFd'[slot'[u]] # INVALID_SOCKET
                 /\ tls'[u] \in {"tcp", "ctx", "load"} => pSSL'[slot'[u]] = 0
                 /\ tls'[u] = "accept" => pSSL'[slot'[u]] # 0
      <3>1. CASE u = v BY <1>1, <1>2, <1>5, <1>6, <3>1 DEF ListenSlots
      <3>2. CASE u # v BY <1>1, <1>5, <1>6, <1>11, <3>2 DEF ListenSlots
      <3> QED BY <3>1, <3>2
    <2>2. \A u \in Servers : tls'[u] # "idle" => tls[u] # "idle" BY <1>5, <1>6
    <2> QED BY <1>1, <1>5, <2>1, <2>2 DEF ListenSlots
  <1>13. NewCtxsApart'
    <2>1. \A u \in Servers : tls'[u] = "load" => u # v /\ tls[u] = "load" BY <1>6
    <2>2. \A u \in Servers : tls'[u] = "load" => pCTX[slot[u]] # k
      BY <1>1, <1>2, <1>3, <1>5, <2>1 DEF NewCtxsApart
    <2> QED BY <1>1, <1>5, <1>7, <2>1, <2>2 DEF NewCtxsApart
  <1> QED BY <1>8, <1>9, <1>10, <1>12, <1>13 DEF SlotInv

\* ShutdownSSL takes one session away, with its context
LEMMA SessionFreed ==
  ASSUME SlotInv, NEW s \in Slots, ShutdownSSL(s), UNCHANGED sockFd, used \ {s} \subseteq used'
  PROVE  /\ pSSL' \in [Slots -> 0..MaxCtx] /\ pCTX' = pCTX
         /\ ctxs' \subseteq Ctxs /\ session' \in [Ctxs -> FdValue]
         /\ pSSL'[s] = 0 /\ \A t \in Slots \ {s} : pSSL'[t] = pSSL[t]
         /\ SessionsMatch'
         /\ \A k \in ctxs \ Sessions : k \in ctxs' /\ k \notin Sessions'
  <1>1. SlotTypeOK /\ SessionsMatch BY DEF SlotInv
  <1>2. CASE pSSL[s] = 0
    <2>1. UNCHANGED <<pSSL, pCTX, ctxs, session, Sessions>>
      BY <1>2 DEF ShutdownSSL, sslVars, Sessions
    <2>2. SessionsMatch'
      <3>1. ASSUME NEW t \in Slots, pSSL[t] # 0 PROVE t \in used'
        BY <1>1, <1>2, <3>1 DEF SessionsMatch
      <3> QED BY <1>1, <2>1, <3>1 DEF SessionsMatch
    <2> QED BY <1>1, <1>2, <2>1, <2>2 DEF SlotTypeOK
  <1>3. CASE pSSL[s] # 0
    <2>1. PICK k \in Ctxs : k = pSSL[s] /\ k = pCTX[s]
      BY <1>1, <1>3 DEF SlotTypeOK, SessionsMatch, Ctxs
    <2>2. /\ session' = [session EXCEPT ![k] = NoSession] /\ ctxs' = ctxs \ {k}
          /\ pSSL' = [pSSL EXCEPT ![s] = 0] /\ pCTX' = pCTX
      BY <1>3, <2>1 DEF ShutdownSSL, SetPtr
    <2>3. /\ pSSL'[s] = 0 /\ \A t \in Slots \ {s} : pSSL'[t] = pSSL[t]
          /\ session'[k] = NoSession /\ \A j \in Ctxs \ {k} : session'[j] = session[j]
      BY <1>1, <2>2 DEF SlotTypeOK
    <2>4. Sessions' = Sessions \ {k} BY <2>3 DEF Sessions
    <2>5. ASSUME NEW t \in Slots \ {s}, pSSL[t] # 0 PROVE pSSL[t] \in Ctxs \ {k}
      <3>1. pSSL[t] \in Ctxs BY <1>1, <2>5 DEF SlotTypeOK, Ctxs
      <3>2. pSSL[t] # k BY <1>3, <2>1, <2>5, SessionsApart
      <3> QED BY <3>1, <3>2
    <2>6. SessionsMatch'
      <3>1. ASSUME NEW t \in Slots, pSSL'[t] # 0
            PROVE  /\ t \in used' /\ session'[pSSL'[t]] = sockFd'[t] /\ sockFd'[t] # INVALID_SOCKET
                   /\ pCTX'[t] = pSSL'[t] /\ pCTX'[t] \in ctxs'
        <4>1. t # s /\ pSSL'[t] = pSSL[t] BY <2>3, <3>1
        <4>2. pSSL[t] \in Ctxs \ {k} BY <2>5, <3>1, <4>1
        <4> QED BY <1>1, <2>2, <2>3, <3>1, <4>1, <4>2 DEF SessionsMatch
      <3>2. ASSUME NEW j \in Sessions' PROVE \E t \in Slots : pSSL'[t] = j
        <4>1. j \in Sessions /\ j # k BY <2>4, <3>2
        <4>2. PICK t \in Slots : pSSL[t] = j BY <1>1, <4>1 DEF SessionsMatch
        <4> QED BY <2>1, <2>3, <4>1, <4>2
      <3> QED BY <3>1, <3>2 DEF SessionsMatch
    <2>7. k \in Sessions
      BY <1>1, <1>3, <2>1, SlotNames DEF SessionsMatch, Sessions
    <2>8. pSSL' \in [Slots -> 0..MaxCtx] BY <1>1, <2>2, SlotNames DEF SlotTypeOK
    <2>9. ctxs' \subseteq Ctxs /\ session' \in [Ctxs -> FdValue]
      BY <1>1, <2>2, SlotNames, Names DEF SlotTypeOK
    <2> QED BY <2>2, <2>3, <2>4, <2>6, <2>7, <2>8, <2>9
  <1> QED BY <1>2, <1>3

LEMMA HandshakeFailsKeeps ==
  ASSUME SlotInv, ServerInv', NEW v \in Servers, HandshakeFails(v)
  PROVE  SlotInv'
  <1>1. /\ SlotTypeOK /\ SlotsAccounted /\ ListenSlots /\ NewCtxsApart
    BY DEF SlotInv
  <1>2. PICK s \in used : s = slot[v] /\ s \in Slots
    BY <1>1 DEF HandshakeFails, ListenSlots, SlotTypeOK
  <1>3. /\ tls[v] = "accept" /\ ShutdownSSL(s) /\ UNCHANGED <<sockFd, used, slot, pc>>
        /\ tls' = [tls EXCEPT ![v] = "idle"] /\ sslRet' = [sslRet EXCEPT ![v] = FALSE]
        /\ Held(App)' = Held(App)
    BY <1>2 DEF HandshakeFails, ReturnsTLS, vars, kernelVars, Held
  <1>4. /\ pSSL' \in [Slots -> 0..MaxCtx] /\ pCTX' = pCTX
        /\ ctxs' \subseteq Ctxs /\ session' \in [Ctxs -> FdValue]
        /\ pSSL'[s] = 0 /\ \A t \in Slots \ {s} : pSSL'[t] = pSSL[t]
        /\ SessionsMatch'
        /\ \A k \in ctxs \ Sessions : k \in ctxs' /\ k \notin Sessions'
    <2>1. UNCHANGED sockFd /\ used \ {s} \subseteq used' BY <1>3
    <2> QED BY <1>2, <1>3, <2>1, SessionFreed
  <1>5. SlotTypeOK' BY <1>1, <1>3, <1>4 DEF SlotTypeOK
  <1>6. SlotsAccounted' BY <1>1, <1>3 DEF SlotsAccounted
  <1>7. tls'[v] = "idle" /\ \A u \in Servers \ {v} : tls'[u] = tls[u]
    BY <1>1, <1>3 DEF SlotTypeOK
  <1>8. \A u \in Servers \ {v} : tls[u] # "idle" => slot[u] \in Slots \ {s}
    BY <1>1, <1>2, <1>3 DEF ListenSlots, SlotTypeOK
  <1>9. ListenSlots' BY <1>1, <1>3, <1>4, <1>7, <1>8 DEF ListenSlots
  <1>10. NewCtxsApart' BY <1>1, <1>3, <1>4, <1>7 DEF NewCtxsApart
  <1> QED BY <1>4, <1>5, <1>6, <1>9, <1>10 DEF SlotInv

LEMMA DisconnectSlotKeeps ==
  ASSUME SlotInv, ServerInv', CarefulApp, NEW s \in Slots, SSLDisconnect(s)
  PROVE  SlotInv'
  <1>1. /\ SlotTypeOK /\ SlotsAccounted /\ ListenSlots /\ NewCtxsApart
    BY DEF SlotInv
  <1>2. /\ ~InListen(s) /\ s \in used /\ used' = used \ {s}
        /\ ShutdownSSL(s) /\ CloseFd(sockFd[s])
        /\ UNCHANGED <<pc, sockFd, tls, slot, sslRet>>
    BY DEF SSLDisconnect, listenVars
  <1>3. /\ pSSL' \in [Slots -> 0..MaxCtx] /\ pCTX' = pCTX
        /\ ctxs' \subseteq Ctxs /\ session' \in [Ctxs -> FdValue]
        /\ pSSL'[s] = 0 /\ \A t \in Slots \ {s} : pSSL'[t] = pSSL[t]
        /\ SessionsMatch'
        /\ \A k \in ctxs \ Sessions : k \in ctxs' /\ k \notin Sessions'
    BY <1>2, SessionFreed
  <1>4. SlotTypeOK' BY <1>1, <1>2, <1>3 DEF SlotTypeOK
  <1>5. Held(App)' = Held(App) \ {sockFd[s]}
    <2>1. KernelOK BY TypeParts DEF SlotInv, ServerInv
    <2>2. CASE sockFd[s] = INVALID_SOCKET
      <3>1. Held(App)' = Held(App) BY <1>2, <2>1, <2>2, ClosesInvalid DEF kernelVars, Held
      <3> QED BY <2>2, <3>1, Names DEF Held
    <2>3. CASE sockFd[s] # INVALID_SOCKET
      <3>1. PICK f \in Fds : f = sockFd[s] /\ owner[f] = App
        BY <1>1, <1>2, <2>3, SlotsDescriptor
      <3> QED BY <1>2, <2>1, <3>1, ClosesOwn, Names
    <2> QED BY <2>2, <2>3
  <1>6. SlotsAccounted'
    <2>1. {sockFd[t] : t \in used \ {s}} \ {INVALID_SOCKET}
            = ({sockFd[t] : t \in used} \ {INVALID_SOCKET}) \ {sockFd[s]}
      BY <1>1, <1>2 DEF SlotsAccounted
    <2> QED BY <1>1, <1>2, <1>5, <2>1 DEF SlotsAccounted
  <1>7. \A u \in Servers : tls[u] # "idle" => slot[u] \in Slots \ {s}
    BY <1>1, <1>2 DEF InListen, ListenSlots, SlotTypeOK
  <1>8. ListenSlots' BY <1>1, <1>2, <1>3, <1>7 DEF ListenSlots
  <1>9. NewCtxsApart' BY <1>1, <1>2, <1>3 DEF NewCtxsApart
  <1> QED BY <1>3, <1>4, <1>6, <1>8, <1>9 DEF SlotInv

-----------------------------------------------------------------------------
(* SSLSockets that move *)

LEMMA MoveKeeps ==
  ASSUME SlotInv, ServerInv', CarefulApp, NEW s \in Slots, NEW t \in Slots, Move(s, t)
  PROVE  SlotInv'
  <1>1. /\ SlotTypeOK /\ SlotsAccounted /\ SessionsMatch /\ ListenSlots /\ NewCtxsApart
    BY DEF SlotInv
  <1>2. /\ s # t /\ ~InListen(s) /\ ~InListen(t) /\ s \in used /\ t \notin used
        /\ sockFd' = Moved(sockFd, s, t, INVALID_SOCKET)
        /\ pSSL' = Moved(pSSL, s, t, 0) /\ pCTX' = Moved(pCTX, s, t, 0)
        /\ used' = (used \ {s}) \cup {t}
        /\ UNCHANGED <<pc, ctxs, session, tls, slot, sslRet>>
        /\ Held(App)' = Held(App) /\ Sessions' = Sessions
    BY DEF Move, vars, kernelVars, listenVars, Held, Sessions
  <1>3. /\ sockFd' \in [Slots -> FdValue] /\ sockFd'[t] = sockFd[s]
        /\ \A r \in Slots \ {s, t} : sockFd'[r] = sockFd[r]
    BY <1>1, <1>2, Names DEF SlotTypeOK, Moved
  <1>4. /\ pSSL' \in [Slots -> 0..MaxCtx] /\ pSSL'[s] = 0 /\ pSSL'[t] = pSSL[s]
        /\ \A r \in Slots \ {s, t} : pSSL'[r] = pSSL[r]
    BY <1>1, <1>2, SlotNames DEF SlotTypeOK, Moved
  <1>5. /\ pCTX' \in [Slots -> 0..MaxCtx] /\ pCTX'[t] = pCTX[s]
        /\ \A r \in Slots \ {s, t} : pCTX'[r] = pCTX[r]
    BY <1>1, <1>2, SlotNames DEF SlotTypeOK, Moved
  <1>6. pSSL[t] = 0 BY <1>1, <1>2 DEF SessionsMatch
  <1>7. SlotTypeOK' BY <1>1, <1>2, <1>3, <1>4, <1>5 DEF SlotTypeOK
  <1>8. used \subseteq Slots BY <1>1 DEF SlotTypeOK
  <1>9. SlotsAccounted'
    <2>1. {sockFd'[r] : r \in used'} = {sockFd[r] : r \in used}
      <3>1. \A r \in used' \ {t} : r \in used \ {s} /\ sockFd'[r] = sockFd[r]
        BY <1>2, <1>3, <1>8
      <3>2. \A r \in used \ {s} : r \in used' \ {t} /\ sockFd'[r] = sockFd[r]
        BY <1>2, <1>3, <1>8
      <3>3. s \in used /\ t \in used' /\ sockFd'[t] = sockFd[s] BY <1>2, <1>3
      <3> QED BY <3>1, <3>2, <3>3
    <2>2. ASSUME NEW q \in used', NEW r \in used', sockFd'[q] = sockFd'[r], sockFd'[q] # INVALID_SOCKET
          PROVE  q = r
      <3>1. \A x \in used' \ {t} : x \in used \ {s} /\ sockFd'[x] = sockFd[x]
        BY <1>2, <1>3, <1>8
      <3>2. s \in used /\ sockFd'[t] = sockFd[s] BY <1>2, <1>3
      <3>3. CASE q = t BY <1>1, <2>2, <3>1, <3>2, <3>3 DEF SlotsAccounted
      <3>4. CASE r = t BY <1>1, <2>2, <3>1, <3>2, <3>4 DEF SlotsAccounted
      <3>5. CASE q # t /\ r # t BY <1>1, <2>2, <3>1, <3>5 DEF SlotsAccounted
      <3> QED BY <3>3, <3>4, <3>5
    <2> QED BY <1>1, <1>2, <2>1, <2>2 DEF SlotsAccounted
  <1>10. SessionsMatch'
    <2>1. ASSUME NEW r \in Slots, pSSL'[r] # 0
          PROVE  /\ r \in used' /\ session'[pSSL'[r]] = sockFd'[r] /\ sockFd'[r] # INVALID_SOCKET
                 /\ pCTX'[r] = pSSL'[r] /\ pCTX'[r] \in ctxs'
      <3>1. CASE r = t BY <1>1, <1>2, <1>3, <1>4, <1>5, <2>1, <3>1 DEF SessionsMatch
      <3>2. CASE r # t
        <4>1. r \in Slots \ {s, t} BY <1>4, <2>1, <3>2
        <4> QED BY <1>1, <1>2, <1>3, <1>4, <1>5, <2>1, <4>1 DEF SessionsMatch
      <3> QED BY <3>1, <3>2
    <2>2. ASSUME NEW k \in Sessions' PROVE \E r \in Slots : pSSL'[r] = k
      <3>1. PICK r \in Slots : pSSL[r] = k BY <1>1, <1>2, <2>2 DEF SessionsMatch
      <3>2. k # 0 BY <2>2, SlotNames DEF Sessions
      <3>3. CASE r = s BY <1>4, <3>1, <3>3
      <3>4. CASE r # s BY <1>4, <1>6, <3>1, <3>2, <3>4
      <3> QED BY <3>3, <3>4
    <2> QED BY <2>1, <2>2 DEF SessionsMatch
  <1>11. \A u \in Servers : tls[u] # "idle" => slot[u] \in Slots \ {s, t}
    BY <1>1, <1>2 DEF InListen, ListenSlots, SlotTypeOK
  <1>12. ListenSlots' BY <1>1, <1>2, <1>3, <1>4, <1>11 DEF ListenSlots
  <1>13. NewCtxsApart' BY <1>1, <1>2, <1>5, <1>11 DEF NewCtxsApart
  <1> QED BY <1>7, <1>9, <1>10, <1>12, <1>13 DEF SlotInv

-----------------------------------------------------------------------------
(* The inductive invariant *)

LEMMA SlotInit == SSLServerInit => SlotInv
  <1> SUFFICES ASSUME SSLServerInit PROVE SlotInv OBVIOUS
  <1>1. Init /\ ServerInv BY ServerInit DEF SSLServerInit
  <1>2. SlotTypeOK BY Names, SlotNames DEF SSLServerInit, SSLInit, SlotTypeOK
  <1>3. Held(App) = {} BY <1>1, Names DEF Init, DescriptorsInit, Held
  <1>4. Sessions = {} BY DEF SSLServerInit, SSLInit, Sessions
  <1>5. SlotsAccounted BY <1>3 DEF SSLServerInit, SlotsAccounted
  <1>6. SessionsMatch BY <1>4 DEF SSLServerInit, SSLInit, SessionsMatch
  <1>7. ListenSlots /\ NewCtxsApart
    BY <1>1 DEF SSLServerInit, Init, ListenSlots, NewCtxsApart
  <1> QED BY <1>1, <1>2, <1>5, <1>6, <1>7 DEF SlotInv

LEMMA SlotStep == SlotInv /\ CarefulApp /\ [SSLNext]_allVars => SlotInv'
  <1> SUFFICES ASSUME SlotInv, CarefulApp, [SSLNext]_allVars PROVE SlotInv' OBVIOUS
  <1>1. ServerInv' BY TLSStepIsTCPStep, ServerStepKeeps DEF SlotInv
  <1>2. ASSUME NEW v \in Servers, SSLServerStep(v) PROVE SlotInv'
    <2>1. ASSUME NEW s \in Slots, SSLListen(v, s) PROVE SlotInv' BY <1>1, <2>1, SSLListenKeeps
    <2>2. CASE TCPListenStep(v) BY <1>1, <2>2, TCPListenStepKeeps
    <2>3. CASE SetUpCtxServer(v) BY <1>1, <2>3, NewCtxKeeps
    <2>4. CASE LoadFails(v) \/ Handshake(v) BY <1>1, <2>4, LoadFailsKeeps
    <2>5. CASE MakeSession(v) BY <1>1, <2>5, MakeSessionKeeps
    <2>6. CASE HandshakeFails(v) BY <1>1, <2>6, HandshakeFailsKeeps
    <2>7. CASE tls[v] = "idle" /\ (Destroy(v) \/ Create(v)) /\ UNCHANGED <<slotVars, listenVars>>
      BY <1>1, <2>7, ServerLivesAndDies
    <2> QED BY <1>2, <2>1, <2>2, <2>3, <2>4, <2>5, <2>6, <2>7 DEF SSLServerStep, SSLListenStep
  <1>3. ASSUME NEW s \in Slots, SSLDisconnect(s) \/ \E t \in Slots : Move(s, t) PROVE SlotInv'
    BY <1>1, <1>3, DisconnectSlotKeeps, MoveKeeps
  <1>4. ASSUME NEW f \in Fds, NEW p \in Peers, PeerConnects(p, f), UNCHANGED <<slotVars, listenVars>>
        PROVE  SlotInv'
    <2>1. UNCHANGED <<pc, owner>> BY <1>4 DEF PeerConnects
    <2>2. Held(App)' = Held(App) BY <2>1 DEF Held
    <2> QED BY <1>1, <1>4, <2>1, <2>2, SlotFacts, TCPQuietKeeps
  <1>5. CASE UNCHANGED allVars
    <2>1. UNCHANGED <<slotVars, listenVars>> /\ UNCHANGED <<pc, owner>>
      BY <1>5 DEF allVars, vars, kernelVars
    <2>2. Held(App)' = Held(App) BY <2>1 DEF Held
    <2> QED BY <1>1, <2>1, <2>2, SlotFacts, TCPQuietKeeps
  <1> QED BY <1>2, <1>3, <1>4, <1>5 DEF SSLNext

-----------------------------------------------------------------------------
(* The theorems *)

\* The inductive invariant of the SSLSockets holds in every state, when the
\* application uses them as asked (TCPSSLServer.cpp:40-240).
THEOREM SlotsAlways ==
  ASSUME CarefulApp
  PROVE  SSLSpec => []SlotInv
  BY SlotInit, SlotStep, PTL DEF SSLSpec

\* Whatever fails in the TLS part of Listen, the TCP server in it does what a
\* CTCPServer does, and Disconnect of an SSLSocket closes what it accepted
\* (TCPSSLServer.cpp:40-140, 234-240).
THEOREM TLSServerIsTCPServer ==
  ASSUME CarefulApp
  PROVE  SSLSpec => Spec
  <1>1. SSLServerInit => Init BY DEF SSLServerInit
  <1>2. SlotInv /\ [SSLNext]_allVars => [Next]_vars BY TLSStepIsTCPStep
  <1> QED BY <1>1, <1>2, SlotsAlways, PTL DEF SSLSpec, Spec

\* The descriptors accepted and not yet closed are those the used SSLSockets
\* name, each once (TCPSSLServer.cpp:40-140, 234-240, SecureSocket.h:51-80).
THEOREM TLSServerAccountsForSlots ==
  ASSUME CarefulApp
  PROVE  SSLSpec => []SlotsAccounted
  <1>1. SlotInv => SlotsAccounted BY DEF SlotInv
  <1> QED BY <1>1, SlotsAlways, PTL

\* Every live session is that of one used SSLSocket, on its descriptor and
\* with its context, wherever the SSLSocket was moved to.
THEOREM TLSServerAccountsForSessions ==
  ASSUME CarefulApp
  PROVE  SSLSpec => []SessionsAccounted
  <1>1. SlotInv => SessionsAccounted
    <2> SUFFICES ASSUME SlotInv PROVE SessionsAccounted OBVIOUS
    <2>1. ASSUME NEW s \in Slots, pSSL[s] # 0 PROVE sockFd[s] \in Held(App)
      <3>1. s \in used /\ sockFd[s] # INVALID_SOCKET BY <2>1 DEF SlotInv, SessionsMatch
      <3> QED BY <3>1, SlotsDescriptor DEF SlotInv, Held
    <2> QED BY <2>1 DEF SlotInv, SessionsMatch, SessionsAccounted
  <1> QED BY <1>1, SlotsAlways, PTL

-----------------------------------------------------------------------------
(* What Listen returns and what is freed *)

LEMMA FillsSlot ==
  ASSUME SlotInv, SlotInv', [SSLNext]_allVars,
         NEW v \in Servers, tls[v] # "idle", tls'[v] = "idle"
  PROVE  sslRet'[v] <=> pSSL'[slot[v]] \in Sessions'
  <1>1. SlotTypeOK /\ ListenSlots BY DEF SlotInv
  <1>2. slot[v] \in Slots BY SlotFacts
  <1>3. pSSL'[slot[v]] \in Sessions' <=> pSSL'[slot[v]] # 0
    <2>1. pSSL'[slot[v]] \in 0..MaxCtx BY <1>2 DEF SlotInv, SlotTypeOK
    <2>2. pSSL'[slot[v]] # 0 => session'[pSSL'[slot[v]]] # INVALID_SOCKET
      BY <1>2 DEF SlotInv, SessionsMatch
    <2>3. pSSL'[slot[v]] # 0 => pSSL'[slot[v]] \in Ctxs BY <2>1 DEF Ctxs
    <2> QED BY <2>2, <2>3, SlotNames DEF Sessions
  <1>4. ASSUME UNCHANGED <<tls>> PROVE FALSE BY <1>4
  <1>5. ASSUME NEW u \in Servers, u # v,
               \E label : tls' = [tls EXCEPT ![u] = label]
        PROVE  FALSE
    BY <1>1, <1>5 DEF SlotTypeOK
  <1>6. CASE SSLServerStep(v)
    <2>1. CASE \/ (\E s \in Slots : SSLListen(v, s)) \/ MakeSession(v)
               \/ (tls[v] = "idle" /\ (Destroy(v) \/ Create(v)) /\ UNCHANGED <<slotVars, listenVars>>)
      BY <1>1, <2>1 DEF SSLListen, MakeSession, GotoTLS, SlotTypeOK
    <2>2. CASE TCPListenStep(v)
      <3>1. tls[v] = "tcp" /\ pSSL' = pSSL BY <2>2 DEF TCPListenStep, sslVars
      <3>2. pSSL[slot[v]] = 0 BY <1>1, <3>1 DEF ListenSlots
      <3>3. ~sslRet'[v]
        BY <1>1, <2>2 DEF TCPListenStep, listenVars, GotoTLS, ReturnsTLS, SlotTypeOK
      <3> QED BY <1>3, <3>1, <3>2, <3>3
    <2>3. CASE SetUpCtxServer(v)
      <3>1. tls[v] = "ctx" /\ pSSL' = pSSL BY <2>3 DEF SetUpCtxServer, NewCtx, NewCtxFails
      <3>2. pSSL[slot[v]] = 0 BY <1>1, <3>1 DEF ListenSlots
      <3>3. ~sslRet'[v] BY <1>1, <2>3 DEF SetUpCtxServer, GotoTLS, ReturnsTLS, SlotTypeOK
      <3> QED BY <1>3, <3>1, <3>2, <3>3
    <2>4. CASE LoadFails(v)
      <3>1. tls[v] = "load" /\ pSSL' = pSSL BY <2>4 DEF LoadFails, slotVars, sslVars
      <3>2. pSSL[slot[v]] = 0 BY <1>1, <3>1 DEF ListenSlots
      <3>3. ~sslRet'[v] BY <1>1, <2>4 DEF LoadFails, ReturnsTLS, SlotTypeOK
      <3> QED BY <1>3, <3>1, <3>2, <3>3
    <2>5. CASE Handshake(v)
      <3>1. tls[v] = "accept" /\ pSSL' = pSSL BY <2>5 DEF Handshake, slotVars, sslVars
      <3>2. pSSL[slot[v]] # 0 BY <1>1, <3>1 DEF ListenSlots
      <3>3. sslRet'[v] BY <1>1, <2>5 DEF Handshake, ReturnsTLS, SlotTypeOK
      <3> QED BY <1>3, <3>1, <3>2, <3>3
    <2>6. CASE HandshakeFails(v)
      <3>1. pSSL'[slot[v]] = 0
        BY <1>1, <1>2, <2>6 DEF HandshakeFails, ShutdownSSL, SetPtr, sslVars, SlotTypeOK
      <3>2. ~sslRet'[v] BY <1>1, <2>6 DEF HandshakeFails, ReturnsTLS, SlotTypeOK
      <3> QED BY <1>3, <3>1, <3>2
    <2> QED BY <1>6, <2>1, <2>2, <2>3, <2>4, <2>5, <2>6 DEF SSLServerStep, SSLListenStep
  <1>7. ASSUME NEW u \in Servers, u # v, SSLServerStep(u) PROVE FALSE
    <2>1. tls' = tls \/ \E label : tls' = [tls EXCEPT ![u] = label]
      BY <1>7 DEF SSLServerStep, SSLListenStep, SSLListen, TCPListenStep, SetUpCtxServer, LoadFails,
                  MakeSession, Handshake, HandshakeFails, GotoTLS, ReturnsTLS, listenVars
    <2> QED BY <1>4, <1>5, <1>7, <2>1
  <1>8. ASSUME \/ \E s \in Slots : SSLDisconnect(s) \/ \E t \in Slots : Move(s, t)
               \/ \E f \in Fds, p \in Peers : PeerConnects(p, f) /\ UNCHANGED <<slotVars, listenVars>>
               \/ UNCHANGED allVars
        PROVE  FALSE
    BY <1>4, <1>8 DEF SSLDisconnect, Move, listenVars, allVars
  <1> QED BY <1>6, <1>7, <1>8 DEF SSLNext

\* Listen returns true exactly when its SSLSocket has a session to use
\* (TCPSSLServer.cpp:40-140).
THEOREM TLSListenFills ==
  ASSUME CarefulApp
  PROVE  SSLSpec => ListenFills
  <1>1. SlotInv /\ SlotInv' /\ [SSLNext]_allVars =>
          [\A v \in Servers : tls[v] # "idle" /\ tls'[v] = "idle" =>
             (sslRet'[v] <=> pSSL'[slot[v]] \in Sessions')]_allVars
    BY FillsSlot
  <1> QED BY <1>1, SlotsAlways, PTL DEF SSLSpec, ListenFills

LEMMA ContextKept ==
  ASSUME SlotInv, CarefulApp, [SSLNext]_allVars, NEW s \in Slots, pSSL[s] # 0
  PROVE  pCTX[s] \notin ctxs' \/ \E t \in Slots : pSSL'[t] # 0 /\ pCTX'[t] = pCTX[s]
  <1>1. SlotTypeOK /\ ListenSlots /\ SessionsMatch BY DEF SlotInv
  <1>2. CASE UNCHANGED sslVars BY <1>2 DEF sslVars
  <1>3. ASSUME NEW r \in Slots, ShutdownSSL(r)
        PROVE  pCTX[s] \notin ctxs' \/ (pSSL'[s] # 0 /\ pCTX'[s] = pCTX[s])
    <2>1. CASE r = s BY <1>3, <2>1 DEF ShutdownSSL
    <2>2. CASE r # s BY <1>1, <1>3, <2>2 DEF ShutdownSSL, SetPtr, sslVars, SlotTypeOK
    <2> QED BY <2>1, <2>2
  <1>4. ASSUME NEW v \in Servers, SSLServerStep(v), ~UNCHANGED sslVars
        PROVE  pCTX[s] \notin ctxs' \/ (pSSL'[s] # 0 /\ pCTX'[s] = pCTX[s])
    <2>1. CASE \/ (\E t \in Slots : SSLListen(v, t)) \/ TCPListenStep(v) \/ LoadFails(v)
               \/ Handshake(v)
               \/ (tls[v] = "idle" /\ (Destroy(v) \/ Create(v)) /\ UNCHANGED <<slotVars, listenVars>>)
      BY <1>4, <2>1 DEF SSLListen, TCPListenStep, LoadFails, Handshake, slotVars
    <2>2. CASE SetUpCtxServer(v)
      <3>1. pSSL[slot[v]] = 0 /\ pSSL' = pSSL
        BY <1>1, <2>2 DEF SetUpCtxServer, NewCtx, NewCtxFails, ListenSlots
      <3> QED BY <1>1, <2>2, <3>1 DEF SetUpCtxServer, NewCtx, NewCtxFails, SetPtr, SlotTypeOK
    <2>3. CASE MakeSession(v)
      <3>1. pSSL[slot[v]] = 0 BY <1>1, <2>3 DEF MakeSession, ListenSlots
      <3> QED BY <1>1, <2>3, <3>1 DEF MakeSession, NewSession, SetPtr, SlotTypeOK
    <2>4. CASE HandshakeFails(v)
      <3>1. slot[v] \in Slots /\ ShutdownSSL(slot[v]) BY <2>4, SlotFacts DEF HandshakeFails
      <3> QED BY <1>3, <3>1
    <2> QED BY <1>4, <2>1, <2>2, <2>3, <2>4 DEF SSLServerStep, SSLListenStep
  <1>5. ASSUME NEW r \in Slots, NEW t \in Slots, Move(r, t)
        PROVE  \E q \in Slots : pSSL'[q] # 0 /\ pCTX'[q] = pCTX[s]
    <2>1. r # t /\ t \notin used /\ pSSL' = Moved(pSSL, r, t, 0) /\ pCTX' = Moved(pCTX, r, t, 0)
      BY <1>5 DEF Move
    <2>2. s # t BY <1>1, <2>1 DEF SessionsMatch
    <2>3. CASE s = r
      <3>1. pSSL'[t] = pSSL[s] /\ pCTX'[t] = pCTX[s]
        BY <1>1, <2>1, <2>3 DEF Moved, SlotTypeOK
      <3> QED BY <3>1
    <2>4. CASE s # r
      <3>1. pSSL'[s] = pSSL[s] /\ pCTX'[s] = pCTX[s]
        BY <1>1, <2>1, <2>2, <2>4 DEF Moved, SlotTypeOK
      <3> QED BY <3>1
    <2> QED BY <2>3, <2>4
  <1>6. ASSUME NEW r \in Slots, SSLDisconnect(r)
        PROVE  pCTX[s] \notin ctxs' \/ (pSSL'[s] # 0 /\ pCTX'[s] = pCTX[s])
    BY <1>3, <1>6 DEF SSLDisconnect
  <1>7. CASE \/ \E f \in Fds, p \in Peers : PeerConnects(p, f) /\ UNCHANGED <<slotVars, listenVars>>
             \/ UNCHANGED allVars
    BY <1>2, <1>7 DEF slotVars, allVars
  <1> QED BY <1>2, <1>4, <1>5, <1>6, <1>7 DEF SSLNext

\* A Listen that has a context keeps it till the file loads, or does not.
LEMMA LoadKept ==
  ASSUME SlotInv, CarefulApp, [SSLNext]_allVars, NEW v \in Servers, tls[v] = "load", ~LoadFails(v),
         NEW k, k = pCTX[slot[v]]
  PROVE  Kept(k)'
  <1>1. SlotTypeOK /\ ListenSlots /\ k \in Ctxs /\ slot[v] \in Slots /\ InListen(slot[v])
    BY SlotFacts DEF SlotInv, SlotTypeOK, NewCtxsApart, InListen
  <1>2. ASSUME tls'[v] = tls[v], slot'[v] = slot[v], pCTX'[slot[v]] = pCTX[slot[v]] PROVE Kept(k)'
    BY <1>2 DEF Kept
  <1>3. CASE SSLServerStep(v)
    <2>1. CASE MakeSession(v)
      <3>1. pSSL'[slot[v]] = k /\ pCTX'[slot[v]] = k
        BY <1>1, <2>1 DEF MakeSession, NewSession, SetPtr, SlotTypeOK
      <3> QED BY <1>1, <3>1, SlotNames DEF Kept
    <2> QED BY <1>3, <2>1
        DEF SSLServerStep, SSLListenStep, SSLListen, TCPListenStep, SetUpCtxServer, Handshake,
            HandshakeFails
  <1>4. ASSUME NEW u \in Servers \ {v}, SSLServerStep(u) PROVE Kept(k)'
    <2>1. tls[u] # "idle" => slot[u] \in Slots /\ slot[u] # slot[v]
      BY <1>1, SlotFacts DEF ListenSlots
    <2>2. tls'[v] = tls[v] /\ slot'[v] = slot[v]
      BY <1>1, <1>4
      DEF SlotTypeOK, SSLServerStep, SSLListenStep, SSLListen, TCPListenStep, SetUpCtxServer,
          LoadFails, MakeSession, Handshake, HandshakeFails, GotoTLS, ReturnsTLS, listenVars
    <2>3. CASE pCTX' = pCTX BY <1>2, <2>2, <2>3
    <2>4. CASE SetUpCtxServer(u)
      <3>1. pCTX'[slot[v]] = pCTX[slot[v]]
        BY <1>1, <2>1, <2>4 DEF SetUpCtxServer, NewCtx, NewCtxFails, SetPtr, SlotTypeOK
      <3> QED BY <1>2, <2>2, <3>1
    <2> QED BY <1>4, <2>3, <2>4
        DEF SSLServerStep, SSLListenStep, SSLListen, TCPListenStep, LoadFails, MakeSession,
            NewSession, Handshake, HandshakeFails, ShutdownSSL, slotVars, sslVars
  <1>5. ASSUME NEW s \in Slots, NEW t \in Slots, Move(s, t) PROVE Kept(k)'
    <2>1. slot[v] # s /\ slot[v] # t /\ UNCHANGED <<tls, slot>>
      BY <1>1, <1>5 DEF Move, listenVars
    <2>2. pCTX'[slot[v]] = pCTX[slot[v]]
      BY <1>1, <1>5, <2>1 DEF Move, Moved, SlotTypeOK
    <2> QED BY <1>2, <2>1, <2>2
  <1>6. ASSUME NEW s \in Slots, SSLDisconnect(s) PROVE Kept(k)'
    BY <1>2, <1>6 DEF SSLDisconnect, ShutdownSSL, sslVars, listenVars
  <1>7. CASE \/ \E f \in Fds, p \in Peers : PeerConnects(p, f) /\ UNCHANGED <<slotVars, listenVars>>
             \/ UNCHANGED allVars
    BY <1>2, <1>7 DEF slotVars, sslVars, listenVars, allVars
  <1> QED BY <1>3, <1>4, <1>5, <1>6, <1>7 DEF SSLNext

\* A context that is made is put to use at once.
LEMMA NewCtxKept ==
  ASSUME SlotInv, [SSLNext]_allVars, NEW k \in ctxs' \ ctxs
  PROVE  Kept(k)'
  <1>1. SlotTypeOK BY DEF SlotInv
  <1>2. ASSUME NEW s \in Slots, ShutdownSSL(s) PROVE FALSE BY <1>2 DEF ShutdownSSL, sslVars
  <1>3. ASSUME NEW v \in Servers, SSLServerStep(v) PROVE NewCtx(slot[v]) /\ GotoTLS(v, "load")
    BY <1>2, <1>3, SlotFacts
    DEF SSLServerStep, SSLListenStep, SSLListen, TCPListenStep, SetUpCtxServer, NewCtxFails,
        LoadFails, MakeSession, NewSession, Handshake, HandshakeFails, slotVars, sslVars
  <1>4. ASSUME NEW v \in Servers, SSLServerStep(v) PROVE Kept(k)'
    <2>1. NewCtx(slot[v]) /\ GotoTLS(v, "load") BY <1>3, <1>4
    <2>2. tls[v] # "idle" BY <1>1, <1>4, <2>1, <1>2, SlotFacts
      DEF SSLServerStep, SSLListenStep, SSLListen, TCPListenStep, SetUpCtxServer, LoadFails,
          MakeSession, Handshake, HandshakeFails, slotVars, sslVars
    <2>3. slot[v] \in Slots BY <2>2, SlotFacts
    <2>4. tls'[v] = "load" /\ slot'[v] = slot[v] /\ pCTX'[slot[v]] = k
      BY <1>1, <2>1, <2>3 DEF NewCtx, GotoTLS, SetPtr, SlotTypeOK
    <2> QED BY <2>4 DEF Kept
  <1>5. CASE \/ \E s \in Slots : SSLDisconnect(s) \/ \E t \in Slots : Move(s, t)
             \/ \E f \in Fds, p \in Peers : PeerConnects(p, f) /\ UNCHANGED <<slotVars, listenVars>>
             \/ UNCHANGED allVars
    BY <1>2, <1>5 DEF SSLDisconnect, Move, slotVars, sslVars, allVars
  <1> QED BY <1>4, <1>5 DEF SSLNext

\* A context goes with its session, after the failed SSL_accept and wherever
\* its SSLSocket was moved to; only a file that does not load leaves one behind
\* (TCPSSLServer.cpp:40-140, 234-240, SecureSocket.cpp:150-161).
THEOREM TLSServerFreesContexts ==
  ASSUME CarefulApp
  PROVE  SSLSpec => ContextsFreed
  <1>1. SlotInv /\ [SSLNext]_allVars =>
          [\A k \in ctxs' : ~Kept(k)' =>
             \/ k \in ctxs /\ ~Kept(k)
             \/ \E v \in Servers : LoadFails(v) /\ pCTX[slot[v]] = k]_allVars
    <2> SUFFICES ASSUME SlotInv, [SSLNext]_allVars, NEW k \in ctxs', ~Kept(k)'
                 PROVE  \/ k \in ctxs /\ ~Kept(k)
                        \/ \E v \in Servers : LoadFails(v) /\ pCTX[slot[v]] = k
      OBVIOUS
    <2>1. k \in ctxs BY NewCtxKept
    <2>2. ASSUME NEW s \in Slots, pSSL[s] # 0, pCTX[s] = k PROVE FALSE
      BY <2>2, ContextKept DEF Kept
    <2>3. ASSUME NEW v \in Servers, tls[v] = "load", pCTX[slot[v]] = k PROVE LoadFails(v)
      BY <2>3, LoadKept
    <2> QED BY <2>1, <2>2, <2>3 DEF Kept
  <1> QED BY <1>1, SlotsAlways, PTL DEF SSLSpec, ContextsFreed
=============================================================================
