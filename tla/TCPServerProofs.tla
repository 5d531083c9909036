-------------------------- MODULE TCPServerProofs --------------------------
(***************************************************************************)
(* What the listening side keeps for every number of servers, descriptors, *)
(* ports and peers.  DescriptorsAccounted is inductive with what           *)
(* ListenState adds: in every call of Listen, which of its system calls    *)
(* come next and what m_ListenSocket is agree, and a socket that is still  *)
(* being set up does not listen, so that closing it loses no connection.   *)
(***************************************************************************)
EXTENDS TCPServer, TLAPS

Labels == {"dead", "idle", "socket", "setsockopt", "bind", "listen", "select", "accept"}

ListenState ==
  \A v \in Servers :
    /\ pc[v] = "socket" => listenSocket[v] = INVALID_SOCKET
    /\ pc[v] \in {"setsockopt", "bind", "listen", "select", "accept"}
         => listenSocket[v] # INVALID_SOCKET
    /\ pc[v] \in {"setsockopt", "bind"} => listenSocket[v] \notin listening
    /\ pc[v] \in {"select", "accept"} => listenSocket[v] \in listening
    /\ pc[v] \notin {"dead", "idle"} => ClientSocket[v] = INVALID_SOCKET

ServerInv == TypeOK /\ DescriptorsAccounted /\ ListenState

\* TypeOK in two parts: the calls and the kernel
CallsOK ==
  /\ pc \in [Servers -> Labels]
  /\ listenSocket \in [Servers -> FdValue] /\ ClientSocket \in [Servers -> FdValue]
  /\ msec \in [Servers -> Wait] /\ ret \in [Servers -> BOOLEAN]

KernelOK ==
  /\ owner \in [Fds -> Owners \cup {Nobody}]
  /\ bound \in [Fds -> Ports \cup {NoPort, AnyPort}]
  /\ listening \subseteq Fds
  /\ backlog \in [Fds -> Seq(Peers)]
  /\ peer \in [Fds -> Peers \cup {NoPeer}]
  /\ \A f \in Free : bound[f] = NoPort /\ f \notin listening /\ peer[f] = NoPeer
  /\ \A f \in Fds \ listening : backlog[f] = <<>>

\* the descriptors of connections
Connected == {f \in Fds : peer[f] # NoPeer}

LEMMA TypeParts == TypeOK <=> CallsOK /\ KernelOK
  BY DEF TypeOK, CallsOK, KernelOK, Labels

LEMMA Names ==
  /\ App \in Owners /\ App \notin Servers /\ Servers \subseteq Owners
  /\ Nobody \notin Owners /\ NoPeer \notin Peers /\ NoPort \notin Ports
  /\ INVALID_SOCKET \in FdValue /\ INVALID_SOCKET \notin Fds /\ Fds \subseteq FdValue
  BY ServersAssumption, OwnersAssumption, PeersAssumption, PortsAssumption
  DEF FdValue, Fds, INVALID_SOCKET

-----------------------------------------------------------------------------
(* Descriptors *)

\* The socket of a live server is its own.
LEMMA OwnsListenSocket ==
  ASSUME ServerInv, NEW v \in Servers, pc[v] # "dead", listenSocket[v] # INVALID_SOCKET
  PROVE  listenSocket[v] \in Fds /\ owner[listenSocket[v]] = v
  <1>1. Held(v) = Socket(v) BY DEF ServerInv, DescriptorsAccounted
  <1>2. Socket(v) = {listenSocket[v]} BY DEF Socket
  <1> QED BY <1>1, <1>2 DEF Held

\* so two servers do not share one.
LEMMA SocketsApart ==
  ASSUME ServerInv, NEW v \in Servers, NEW u \in Servers, u # v,
         pc[v] # "dead", listenSocket[v] # INVALID_SOCKET, pc[u] # "dead"
  PROVE  listenSocket[u] # listenSocket[v]
  <1>1. CASE listenSocket[u] = INVALID_SOCKET BY <1>1
  <1>2. CASE listenSocket[u] # INVALID_SOCKET BY <1>2, OwnsListenSocket
  <1> QED BY <1>1, <1>2

LEMMA ClosesOwn ==
  ASSUME KernelOK, NEW o \in Owners, NEW f \in Fds, owner[f] = o, CloseFd(f)
  PROVE  /\ KernelOK'
         /\ Held(o)' = Held(o) \ {f}
         /\ \A d \in Owners \ {o} : Held(d)' = Held(d)
         /\ Connected' = Connected \ {f}
         /\ listening' = listening \ {f}
  <1>1. /\ owner' = [g \in Fds |-> IF g = f THEN Nobody ELSE owner[g]]
        /\ bound' = [g \in Fds |-> IF g = f THEN NoPort ELSE bound[g]]
        /\ listening' = listening \ {f}
        /\ backlog' = [g \in Fds |-> IF g = f THEN <<>> ELSE backlog[g]]
        /\ peer' = [g \in Fds |-> IF g = f THEN NoPeer ELSE peer[g]]
    BY DEF CloseFd, Closes
  <1>2. Held(o)' = Held(o) \ {f} BY <1>1, Names DEF Held
  <1>3. ASSUME NEW d \in Owners \ {o} PROVE Held(d)' = Held(d) BY <1>1, Names DEF Held
  <1>4. Connected' = Connected \ {f} BY <1>1 DEF Connected
  <1>5. Free' \subseteq Free \cup {f} BY <1>1 DEF Free
  <1>6. KernelOK'
    <2>1. <<>> \in Seq(Peers) OBVIOUS
    <2>2. owner' \in [Fds -> Owners \cup {Nobody}] BY <1>1 DEF KernelOK
    <2>3. bound' \in [Fds -> Ports \cup {NoPort, AnyPort}] BY <1>1 DEF KernelOK
    <2>4. backlog' \in [Fds -> Seq(Peers)] BY <1>1, <2>1 DEF KernelOK
    <2>5. peer' \in [Fds -> Peers \cup {NoPeer}] BY <1>1 DEF KernelOK
    <2>6. \A g \in Free' : bound'[g] = NoPort /\ g \notin listening' /\ peer'[g] = NoPeer
      BY <1>1, <1>5 DEF KernelOK, Free
    <2>7. \A g \in Fds \ listening' : backlog'[g] = <<>> BY <1>1 DEF KernelOK
    <2> QED BY <1>1, <2>2, <2>3, <2>4, <2>5, <2>6, <2>7 DEF KernelOK
  <1> QED BY <1>1, <1>2, <1>3, <1>4, <1>6

LEMMA OpensFree ==
  ASSUME KernelOK, NEW o \in Owners, NEW f \in Fds, Opens(o, f)
  PROVE  /\ owner' \in [Fds -> Owners \cup {Nobody}]
         /\ Free' = Free \ {f}
         /\ Held(o)' = Held(o) \cup {f}
         /\ \A d \in Owners \ {o} : Held(d)' = Held(d)
         /\ f \in Free /\ f \notin listening /\ f \notin Connected
  <1>1. owner' = [owner EXCEPT ![f] = o] /\ f \in Free /\ owner[f] = Nobody
    BY DEF Opens, Free
  <1>2. owner \in [Fds -> Owners \cup {Nobody}] BY DEF KernelOK
  <1>3. Held(o)' = Held(o) \cup {f} BY <1>1, <1>2, Names DEF Held
  <1>4. ASSUME NEW d \in Owners \ {o} PROVE Held(d)' = Held(d) BY <1>1, <1>2, Names DEF Held
  <1>5. Free' = Free \ {f} BY <1>1, <1>2, Names DEF Free
  <1>6. f \notin listening /\ f \notin Connected BY <1>1 DEF KernelOK, Connected
  <1> QED BY <1>1, <1>2, <1>3, <1>4, <1>5, <1>6

\* close(INVALID_SOCKET) fails and changes nothing.
LEMMA ClosesInvalid ==
  ASSUME KernelOK, CloseFd(INVALID_SOCKET)
  PROVE  UNCHANGED kernelVars
  <1>1. \A g \in Fds : g # INVALID_SOCKET BY Names
  <1>2. owner' = owner BY <1>1 DEF CloseFd, Closes, KernelOK
  <1>3. bound' = bound BY <1>1 DEF CloseFd, KernelOK
  <1>4. backlog' = backlog BY <1>1 DEF CloseFd, KernelOK
  <1>5. peer' = peer BY <1>1 DEF CloseFd, KernelOK
  <1>6. listening' = listening BY <1>1 DEF CloseFd, KernelOK
  <1> QED BY <1>2, <1>3, <1>4, <1>5, <1>6 DEF kernelVars

-----------------------------------------------------------------------------
(* Two shapes of step *)

\* no descriptor is opened or closed
LEMMA QuietStep ==
  ASSUME ServerInv, UNCHANGED <<owner, peer>>, CallsOK', KernelOK', ListenState',
         \A v \in Servers : Socket(v)' = Socket(v)
  PROVE  ServerInv'
  <1>1. DescriptorsAccounted' BY DEF ServerInv, DescriptorsAccounted, Held
  <1>2. TypeOK'
    <2>1. CallsOK' /\ KernelOK' => TypeOK' BY DEF TypeOK, CallsOK, KernelOK, Labels
    <2> QED BY <2>1
  <1> QED BY <1>1, <1>2 DEF ServerInv

\* a server closes its socket
LEMMA ClosingStep ==
  ASSUME ServerInv, NEW v \in Servers, pc[v] # "dead", listenSocket[v] # INVALID_SOCKET,
         CloseFd(listenSocket[v]), CallsOK', ListenState', Socket(v)' = {},
         \A u \in Servers \ {v} : Socket(u)' = Socket(u)
  PROVE  ServerInv'
  <1> DEFINE f == listenSocket[v]
  <1>1. f \in Fds /\ owner[f] = v BY OwnsListenSocket
  <1>2. KernelOK BY TypeParts DEF ServerInv
  <1>3. v \in Owners /\ v # App BY Names
  <1> HIDE DEF f
  <1>4. CloseFd(f) BY DEF f
  <1>5. /\ KernelOK' /\ Held(v)' = Held(v) \ {f}
        /\ \A d \in Owners \ {v} : Held(d)' = Held(d)
        /\ Connected' = Connected \ {f}
    BY <1>1, <1>2, <1>3, <1>4, ClosesOwn
  <1>6. Held(v) = {f} BY DEF ServerInv, DescriptorsAccounted, Socket, f
  <1>7. \A u \in Servers : Held(u)' = Socket(u)'
    BY <1>5, <1>6, Names DEF ServerInv, DescriptorsAccounted
  <1>8. Held(App) = Connected BY DEF ServerInv, DescriptorsAccounted, Connected
  <1>9. f \notin Connected BY <1>1, <1>3, <1>8 DEF Held
  <1>10. Held(App)' = Connected' BY <1>3, <1>5, <1>8, <1>9, Names
  <1>11. DescriptorsAccounted' BY <1>7, <1>10 DEF DescriptorsAccounted, Connected
  <1>12. CallsOK' /\ KernelOK' => TypeOK' BY DEF TypeOK, CallsOK, KernelOK, Labels
  <1> QED BY <1>5, <1>11, <1>12 DEF ServerInv

-----------------------------------------------------------------------------
(* One lemma per operation *)

LEMMA ListenKeeps ==
  ASSUME ServerInv, NEW v \in Servers, Listen(v)
  PROVE  ServerInv'
  <1>1. PICK w \in Waits : msec' = [msec EXCEPT ![v] = w] BY DEF Listen
  <1>2. /\ pc[v] = "idle" /\ UNCHANGED <<listenSocket, ret, owner, bound, listening, backlog, peer>>
        /\ ClientSocket' = [ClientSocket EXCEPT ![v] = INVALID_SOCKET]
        /\ pc' = [pc EXCEPT ![v] = IF listenSocket[v] = INVALID_SOCKET THEN "socket" ELSE "listen"]
    BY DEF Listen, Goto, kernelVars
  <1>3. CallsOK /\ KernelOK /\ ListenState BY TypeParts DEF ServerInv
  <1>4. w \in Wait BY WaitsAssumption
  <1>5. CallsOK' BY <1>1, <1>2, <1>3, <1>4, Names DEF CallsOK, Labels
  <1>6. KernelOK' BY <1>2, <1>3 DEF KernelOK, Free
  <1>7. ListenState' BY <1>2, <1>3 DEF ListenState, CallsOK
  <1>8. \A u \in Servers : Socket(u)' = Socket(u) BY <1>2, <1>3 DEF Socket, CallsOK
  <1> QED BY <1>2, <1>5, <1>6, <1>7, <1>8, QuietStep

\* the steps of Listen that change nothing but pc and the result
LEMMA GoesOn ==
  ASSUME ServerInv, NEW v \in Servers, NEW label \in Labels \ {"dead"}, pc[v] # "dead",
         pc' = [pc EXCEPT ![v] = label],
         UNCHANGED <<listenSocket, ClientSocket, msec, kernelVars>>,
         ret' \in [Servers -> BOOLEAN],
         \/ label = "idle"
         \/ pc[v] = "setsockopt" /\ label = "bind"
         \/ pc[v] = "select" /\ label = "accept"
  PROVE  ServerInv'
  <1>1. UNCHANGED <<owner, bound, listening, backlog, peer>> BY DEF kernelVars
  <1>2. CallsOK /\ KernelOK /\ ListenState BY TypeParts DEF ServerInv
  <1>3. CallsOK' BY <1>2 DEF CallsOK
  <1>4. KernelOK' BY <1>1, <1>2 DEF KernelOK, Free
  <1>5. ListenState' BY <1>1, <1>2 DEF ListenState, CallsOK
  <1>6. \A u \in Servers : Socket(u)' = Socket(u) BY <1>2 DEF Socket, CallsOK
  <1> QED BY <1>1, <1>3, <1>4, <1>5, <1>6, QuietStep

LEMMA MakeSocketKeeps ==
  ASSUME ServerInv, NEW v \in Servers, MakeSocket(v)
  PROVE  ServerInv'
  <1>1. PICK f \in Fds : Opens(v, f) /\ listenSocket' = [listenSocket EXCEPT ![v] = f]
    BY DEF MakeSocket, SetListenSocket
  <1>2. /\ pc[v] = "socket" /\ pc' = [pc EXCEPT ![v] = "setsockopt"]
        /\ UNCHANGED <<msec, ClientSocket, ret, bound, listening, backlog, peer>>
    BY DEF MakeSocket, Goto, callVars
  <1>3. CallsOK /\ KernelOK /\ ListenState /\ DescriptorsAccounted
    BY TypeParts DEF ServerInv
  <1>4. v \in Owners /\ v # App BY Names
  <1>5. /\ owner' \in [Fds -> Owners \cup {Nobody}] /\ Free' = Free \ {f}
        /\ Held(v)' = Held(v) \cup {f}
        /\ \A d \in Owners \ {v} : Held(d)' = Held(d)
        /\ f \notin listening
    BY <1>1, <1>3, <1>4, OpensFree
  <1>6. listenSocket[v] = INVALID_SOCKET BY <1>2, <1>3 DEF ListenState
  <1>7. CallsOK' BY <1>1, <1>2, <1>3, Names DEF CallsOK, Labels
  <1>8. KernelOK' BY <1>2, <1>3, <1>5 DEF KernelOK
  <1>9. ListenState' BY <1>1, <1>2, <1>3, <1>5, Names DEF ListenState, CallsOK
  <1>10. Socket(v) = {} BY <1>6 DEF Socket
  <1>11. Socket(v)' = {f} BY <1>1, <1>2, <1>3, Names DEF Socket, CallsOK
  <1>12. \A u \in Servers \ {v} : Socket(u)' = Socket(u)
    BY <1>1, <1>2, <1>3 DEF Socket, CallsOK
  <1>13. DescriptorsAccounted'
    <2>1. \A u \in Servers : Held(u)' = Socket(u)'
      BY <1>3, <1>5, <1>10, <1>11, <1>12, Names DEF DescriptorsAccounted
    <2>2. Held(App)' = Held(App) BY <1>4, <1>5, Names
    <2> QED BY <1>2, <1>3, <2>1, <2>2 DEF DescriptorsAccounted
  <1>14. CallsOK' /\ KernelOK' => TypeOK' BY DEF TypeOK, CallsOK, KernelOK, Labels
  <1> QED BY <1>7, <1>8, <1>9, <1>13, <1>14 DEF ServerInv

LEMMA MakeSocketFailsKeeps ==
  ASSUME ServerInv, NEW v \in Servers, MakeSocketFails(v)
  PROVE  ServerInv'
  <1>1. /\ pc[v] = "socket" /\ pc' = [pc EXCEPT ![v] = "idle"]
        /\ ret' = [ret EXCEPT ![v] = FALSE] /\ UNCHANGED <<msec, ClientSocket, kernelVars>>
        /\ listenSocket' = [listenSocket EXCEPT ![v] = INVALID_SOCKET]
    BY DEF MakeSocketFails, Fails, Returns, Goto, SetListenSocket
  <1>2. CallsOK /\ ListenState BY TypeParts DEF ServerInv
  <1>3. listenSocket' = listenSocket BY <1>1, <1>2 DEF CallsOK, ListenState
  <1>4. ret' \in [Servers -> BOOLEAN] BY <1>1, <1>2 DEF CallsOK
  <1> QED BY <1>1, <1>3, <1>4, GoesOn DEF Labels

LEMMA ReuseAddrFailsKeeps ==
  ASSUME ServerInv, NEW v \in Servers, ReuseAddrFails(v)
  PROVE  ServerInv'
  <1>1. /\ pc[v] = "setsockopt" /\ pc' = [pc EXCEPT ![v] = "idle"]
        /\ ret' = [ret EXCEPT ![v] = FALSE] /\ UNCHANGED <<msec, ClientSocket>>
        /\ listenSocket' = [listenSocket EXCEPT ![v] = INVALID_SOCKET]
        /\ CloseFd(listenSocket[v])
    BY DEF ReuseAddrFails, Fails, Returns, Goto, SetListenSocket
  <1>2. CallsOK /\ KernelOK /\ ListenState BY TypeParts DEF ServerInv
  <1>3. listenSocket[v] # INVALID_SOCKET BY <1>1, <1>2 DEF ListenState
  <1>4. CallsOK' BY <1>1, <1>2, Names DEF CallsOK, Labels
  <1>5. listening' = listening \ {listenSocket[v]} BY <1>1 DEF CloseFd
  <1>6. ListenState'
    <2> SUFFICES ASSUME NEW u \in Servers
                 PROVE  /\ pc'[u] = "socket" => listenSocket'[u] = INVALID_SOCKET
                        /\ pc'[u] \in {"setsockopt", "bind", "listen", "select", "accept"}
                             => listenSocket'[u] # INVALID_SOCKET
                        /\ pc'[u] \in {"setsockopt", "bind"} => listenSocket'[u] \notin listening'
                        /\ pc'[u] \in {"select", "accept"} => listenSocket'[u] \in listening'
                        /\ pc'[u] \notin {"dead", "idle"} => ClientSocket'[u] = INVALID_SOCKET
      BY DEF ListenState
    <2>1. CASE u = v BY <1>1, <1>2, <2>1 DEF CallsOK
    <2>2. CASE u # v
      <3>1. pc'[u] = pc[u] /\ listenSocket'[u] = listenSocket[u]
        BY <1>1, <1>2, <2>2 DEF CallsOK
      <3>2. pc[u] # "dead" => listenSocket[u] # listenSocket[v]
        BY <1>1, <1>3, <2>2, SocketsApart
      <3> QED BY <1>1, <1>2, <1>5, <3>1, <3>2 DEF ListenState
    <2> QED BY <2>1, <2>2
  <1>7. Socket(v)' = {} BY <1>1, <1>2 DEF Socket, CallsOK
  <1>8. \A u \in Servers \ {v} : Socket(u)' = Socket(u) BY <1>1, <1>2 DEF Socket, CallsOK
  <1> QED BY <1>1, <1>3, <1>4, <1>6, <1>7, <1>8, ClosingStep

LEMMA BindKeeps ==
  ASSUME ServerInv, NEW v \in Servers, Bind(v)
  PROVE  ServerInv'
  <1>1. /\ pc[v] = "bind" /\ pc' = [pc EXCEPT ![v] = "listen"]
        /\ bound' = [bound EXCEPT ![listenSocket[v]] = Port[v]]
        /\ UNCHANGED <<listenSocket, msec, ClientSocket, ret, owner, listening, backlog, peer>>
    BY DEF Bind, Goto, callVars
  <1>2. CallsOK /\ KernelOK /\ ListenState BY TypeParts DEF ServerInv
  <1>3. listenSocket[v] \in Fds /\ owner[listenSocket[v]] = v
    BY <1>1, <1>2, OwnsListenSocket DEF ListenState
  <1>4. CallsOK' BY <1>1, <1>2 DEF CallsOK, Labels
  <1>5. listenSocket[v] \notin Free BY <1>3, Names DEF Free
  <1>6. KernelOK' BY <1>1, <1>2, <1>5, PortsAssumption DEF KernelOK, Free
  <1>7. ListenState' BY <1>1, <1>2 DEF ListenState, CallsOK
  <1>8. \A u \in Servers : Socket(u)' = Socket(u) BY <1>1, <1>2 DEF Socket, CallsOK
  <1> QED BY <1>1, <1>4, <1>6, <1>7, <1>8, QuietStep

LEMMA StartListeningKeeps ==
  ASSUME ServerInv, NEW v \in Servers, StartListening(v)
  PROVE  ServerInv'
  <1> DEFINE f == listenSocket[v]
  <1>1. /\ pc[v] = "listen"
        /\ bound' = [bound EXCEPT ![f] = IF bound[f] = NoPort THEN AnyPort ELSE bound[f]]
        /\ listening' = listening \cup {f}
        /\ UNCHANGED <<listenSocket, msec, ClientSocket, ret, owner, backlog, peer>>
    BY DEF StartListening, callVars
  <1>2. CallsOK /\ KernelOK /\ ListenState BY TypeParts DEF ServerInv
  <1>3. f \in Fds /\ owner[f] = v /\ f # INVALID_SOCKET
    BY <1>1, <1>2, OwnsListenSocket DEF ListenState
  <1>4. PICK label \in {"select", "accept"} : pc' = [pc EXCEPT ![v] = label]
    BY DEF StartListening, Goto
  <1>5. \A u \in Servers \ {v} : pc[u] # "dead" => listenSocket[u] # f
    BY <1>1, <1>3, SocketsApart
  <1> HIDE DEF f
  <1>6. CallsOK' BY <1>1, <1>2, <1>4 DEF CallsOK, Labels
  <1>7. f \notin Free BY <1>3, Names DEF Free
  <1>8. KernelOK' BY <1>1, <1>2, <1>3, <1>7 DEF KernelOK, Free
  <1>9. ListenState'
    <2>1. /\ pc'[v] \in {"select", "accept"} /\ listenSocket'[v] = f /\ f \in listening'
          /\ ClientSocket'[v] = INVALID_SOCKET
      BY <1>1, <1>2, <1>4 DEF CallsOK, ListenState, f
    <2>2. ASSUME NEW u \in Servers \ {v}
          PROVE  pc'[u] = pc[u] /\ listenSocket'[u] = listenSocket[u]
      BY <1>1, <1>2, <1>4 DEF CallsOK
    <2> QED BY <1>1, <1>2, <1>3, <1>5, <2>1, <2>2 DEF ListenState
  <1>10. \A u \in Servers : Socket(u)' = Socket(u)
    BY <1>1, <1>2, <1>4 DEF Socket, CallsOK
  <1> QED BY <1>1, <1>6, <1>8, <1>9, <1>10, QuietStep

LEMMA AcceptKeeps ==
  ASSUME ServerInv, NEW v \in Servers, Accept(v)
  PROVE  ServerInv'
  <1> DEFINE l == listenSocket[v]
  <1>1. PICK f \in Fds :
          /\ Opens(App, f) /\ peer' = [peer EXCEPT ![f] = Head(backlog[l])]
          /\ ClientSocket' = [ClientSocket EXCEPT ![v] = f]
    BY DEF Accept
  <1>2. /\ pc[v] = "accept" /\ backlog[l] # <<>> /\ pc' = [pc EXCEPT ![v] = "idle"]
        /\ backlog' = [backlog EXCEPT ![l] = Tail(backlog[l])]
        /\ ret' = [ret EXCEPT ![v] = TRUE]
        /\ UNCHANGED <<msec, listenSocket, bound, listening>>
    BY DEF Accept, Returns, Goto
  <1>3. CallsOK /\ KernelOK /\ ListenState /\ DescriptorsAccounted
    BY TypeParts DEF ServerInv
  <1>4. l \in Fds /\ l \in listening /\ l # INVALID_SOCKET
    BY <1>2, <1>3, OwnsListenSocket DEF ListenState
  <1> HIDE DEF l
  <1>5. App \in Owners BY Names
  <1>6. /\ owner' \in [Fds -> Owners \cup {Nobody}] /\ Free' = Free \ {f}
        /\ Held(App)' = Held(App) \cup {f}
        /\ \A d \in Owners \ {App} : Held(d)' = Held(d)
        /\ f \notin listening
    BY <1>1, <1>3, <1>5, OpensFree
  <1>7. backlog[l] \in Seq(Peers) BY <1>3, <1>4 DEF KernelOK
  <1>8. Head(backlog[l]) \in Peers /\ Tail(backlog[l]) \in Seq(Peers) BY <1>2, <1>7
  <1>9. CallsOK'
    BY <1>1, <1>2, <1>3, Names DEF CallsOK, Labels
  <1>10. KernelOK'
    <2>1. peer' \in [Fds -> Peers \cup {NoPeer}] BY <1>1, <1>3, <1>8 DEF KernelOK
    <2>2. backlog' \in [Fds -> Seq(Peers)] BY <1>2, <1>3, <1>8 DEF KernelOK
    <2>3. \A g \in Free' : bound'[g] = NoPort /\ g \notin listening' /\ peer'[g] = NoPeer
      BY <1>1, <1>2, <1>3, <1>6 DEF KernelOK
    <2>4. \A g \in Fds \ listening' : backlog'[g] = <<>>
      BY <1>2, <1>3, <1>4 DEF KernelOK
    <2> QED BY <1>2, <1>3, <1>6, <2>1, <2>2, <2>3, <2>4 DEF KernelOK
  <1>11. ListenState' BY <1>1, <1>2, <1>3 DEF ListenState, CallsOK
  <1>12. \A u \in Servers : Socket(u)' = Socket(u) BY <1>2, <1>3 DEF Socket, CallsOK
  <1>13. Connected' = Connected \cup {f}
    BY <1>1, <1>3, <1>8, Names DEF Connected, KernelOK
  <1>14. DescriptorsAccounted'
    BY <1>3, <1>6, <1>12, <1>13, Names DEF DescriptorsAccounted, Connected
  <1>15. CallsOK' /\ KernelOK' => TypeOK' BY DEF TypeOK, CallsOK, KernelOK, Labels
  <1> QED BY <1>9, <1>10, <1>11, <1>14, <1>15 DEF ServerInv

LEMMA AcceptFailsKeeps ==
  ASSUME ServerInv, NEW v \in Servers, AcceptFails(v)
  PROVE  ServerInv'
  <1>1. /\ pc[v] = "accept" /\ pc' = [pc EXCEPT ![v] = "idle"]
        /\ ret' = [ret EXCEPT ![v] = FALSE]
        /\ ClientSocket' = [ClientSocket EXCEPT ![v] = INVALID_SOCKET]
        /\ UNCHANGED <<msec, listenSocket, kernelVars>>
    BY DEF AcceptFails, Returns, Goto
  <1>2. CallsOK /\ ListenState BY TypeParts DEF ServerInv
  <1>3. ClientSocket' = ClientSocket BY <1>1, <1>2 DEF CallsOK, ListenState
  <1>4. ret' \in [Servers -> BOOLEAN] BY <1>1, <1>2 DEF CallsOK
  <1> QED BY <1>1, <1>3, <1>4, GoesOn DEF Labels

LEMMA ListenStepKeeps ==
  ASSUME ServerInv, NEW v \in Servers, ListenStep(v)
  PROVE  ServerInv'
  <1>1. ret \in [Servers -> BOOLEAN] BY TypeParts DEF ServerInv, CallsOK
  <1>2. CASE BindFails(v) \/ StartListeningFails(v) \/ TimesOut(v) \/ SelectFails(v)
    <2>1. /\ pc[v] # "dead" /\ pc' = [pc EXCEPT ![v] = "idle"]
          /\ ret' = [ret EXCEPT ![v] = FALSE]
          /\ UNCHANGED <<msec, listenSocket, ClientSocket, kernelVars>>
      BY <1>2 DEF BindFails, StartListeningFails, TimesOut, SelectFails, Fails, Returns, Goto
    <2> QED BY <1>1, <2>1, GoesOn DEF Labels
  <1>3. CASE ReuseAddr(v)
    <2>1. /\ pc[v] = "setsockopt" /\ pc' = [pc EXCEPT ![v] = "bind"]
          /\ UNCHANGED <<msec, listenSocket, ClientSocket, ret, kernelVars>>
      BY <1>3 DEF ReuseAddr, Goto, callVars
    <2> QED BY <1>1, <2>1, GoesOn DEF Labels
  <1>4. CASE SelectReady(v)
    <2>1. /\ pc[v] = "select" /\ pc' = [pc EXCEPT ![v] = "accept"]
          /\ UNCHANGED <<msec, listenSocket, ClientSocket, ret, kernelVars>>
      BY <1>4 DEF SelectReady, Goto, callVars
    <2> QED BY <1>1, <2>1, GoesOn DEF Labels
  <1>5. CASE MakeSocket(v) BY <1>5, MakeSocketKeeps
  <1>6. CASE MakeSocketFails(v) BY <1>6, MakeSocketFailsKeeps
  <1>7. CASE ReuseAddrFails(v) BY <1>7, ReuseAddrFailsKeeps
  <1>8. CASE Bind(v) BY <1>8, BindKeeps
  <1>9. CASE StartListening(v) BY <1>9, StartListeningKeeps
  <1>10. CASE Accept(v) BY <1>10, AcceptKeeps
  <1>11. CASE AcceptFails(v) BY <1>11, AcceptFailsKeeps
  <1> QED BY <1>2, <1>3, <1>4, <1>5, <1>6, <1>7, <1>8, <1>9, <1>10, <1>11 DEF ListenStep

LEMMA DestroyKeeps ==
  ASSUME ServerInv, NEW v \in Servers, Destroy(v)
  PROVE  ServerInv'
  <1>1. /\ pc[v] = "idle" /\ pc' = [pc EXCEPT ![v] = "dead"] /\ CloseFd(listenSocket[v])
        /\ UNCHANGED <<listenSocket, msec, ClientSocket, ret>>
    BY DEF Destroy, Goto, callVars
  <1>2. CallsOK /\ KernelOK /\ ListenState BY TypeParts DEF ServerInv
  <1>3. CallsOK' BY <1>1, <1>2 DEF CallsOK, Labels
  <1>4. Socket(v)' = {} BY <1>1, <1>2 DEF Socket, CallsOK
  <1>5. \A u \in Servers \ {v} : Socket(u)' = Socket(u) BY <1>1, <1>2 DEF Socket, CallsOK
  <1>6. CASE listenSocket[v] = INVALID_SOCKET
    <2>1. UNCHANGED <<owner, bound, listening, backlog, peer>>
      BY <1>1, <1>2, <1>6, ClosesInvalid DEF kernelVars
    <2>2. KernelOK' BY <1>2, <2>1 DEF KernelOK, Free
    <2>3. ListenState' BY <1>1, <1>2, <2>1 DEF ListenState, CallsOK
    <2>4. Socket(v) = {} BY <1>6 DEF Socket
    <2> QED BY <1>3, <1>4, <1>5, <2>1, <2>2, <2>3, <2>4, QuietStep
  <1>7. CASE listenSocket[v] # INVALID_SOCKET
    <2>1. listening' = listening \ {listenSocket[v]} BY <1>1 DEF CloseFd
    <2>2. ASSUME NEW u \in Servers \ {v}, pc[u] # "dead"
          PROVE  listenSocket[u] # listenSocket[v]
      BY <1>1, <1>7, <2>2, SocketsApart
    <2>3. ListenState' BY <1>1, <1>2, <2>1, <2>2 DEF ListenState, CallsOK
    <2> QED BY <1>1, <1>3, <1>4, <1>5, <1>7, <2>3, ClosingStep
  <1> QED BY <1>6, <1>7

LEMMA CreateKeeps ==
  ASSUME ServerInv, NEW v \in Servers, Create(v)
  PROVE  ServerInv'
  <1>1. /\ pc[v] = "dead" /\ pc' = [pc EXCEPT ![v] = "idle"]
        /\ listenSocket' = [listenSocket EXCEPT ![v] = INVALID_SOCKET]
        /\ UNCHANGED <<msec, ClientSocket, ret, owner, bound, listening, backlog, peer>>
    BY DEF Create, Goto, SetListenSocket, callVars, kernelVars
  <1>2. CallsOK /\ KernelOK /\ ListenState BY TypeParts DEF ServerInv
  <1>3. CallsOK' BY <1>1, <1>2, Names DEF CallsOK, Labels
  <1>4. KernelOK' BY <1>1, <1>2 DEF KernelOK, Free
  <1>5. ListenState' BY <1>1, <1>2 DEF ListenState, CallsOK
  <1>6. \A u \in Servers : Socket(u)' = Socket(u) BY <1>1, <1>2 DEF Socket, CallsOK
  <1> QED BY <1>1, <1>3, <1>4, <1>5, <1>6, QuietStep

LEMMA DisconnectKeeps ==
  ASSUME ServerInv, NEW f \in Fds, Disconnect(f)
  PROVE  ServerInv'
  <1>1. /\ f \in Held(App) /\ CloseFd(f)
        /\ UNCHANGED <<pc, listenSocket, msec, ClientSocket, ret>>
    BY DEF Disconnect, callVars
  <1>2. CallsOK /\ KernelOK /\ ListenState /\ DescriptorsAccounted
    BY TypeParts DEF ServerInv
  <1>3. owner[f] = App /\ App \in Owners BY <1>1, Names DEF Held
  <1>4. /\ KernelOK' /\ Held(App)' = Held(App) \ {f}
        /\ \A d \in Owners \ {App} : Held(d)' = Held(d)
        /\ Connected' = Connected \ {f} /\ listening' = listening \ {f}
    BY <1>1, <1>2, <1>3, ClosesOwn
  <1>5. CallsOK' BY <1>1, <1>2 DEF CallsOK
  <1>6. \A v \in Servers : Socket(v)' = Socket(v) BY <1>1 DEF Socket
  <1>7. DescriptorsAccounted'
    BY <1>2, <1>4, <1>6, Names DEF DescriptorsAccounted, Connected
  <1>8. ASSUME NEW v \in Servers, pc[v] \in {"select", "accept"} PROVE listenSocket[v] # f
    BY <1>2, <1>3, <1>8, OwnsListenSocket, Names DEF ListenState
  <1>9. ListenState' BY <1>1, <1>2, <1>4, <1>8 DEF ListenState
  <1>10. CallsOK' /\ KernelOK' => TypeOK' BY DEF TypeOK, CallsOK, KernelOK, Labels
  <1> QED BY <1>4, <1>5, <1>7, <1>9, <1>10 DEF ServerInv

LEMMA PeerConnectsKeeps ==
  ASSUME ServerInv, NEW f \in Fds, NEW p \in Peers, PeerConnects(p, f)
  PROVE  ServerInv'
  <1>1. /\ f \in listening /\ backlog' = [backlog EXCEPT ![f] = Append(backlog[f], p)]
        /\ UNCHANGED <<pc, listenSocket, msec, ClientSocket, ret, owner, bound, listening, peer>>
    BY DEF PeerConnects, callVars
  <1>2. CallsOK /\ KernelOK /\ ListenState BY TypeParts DEF ServerInv
  <1>3. Append(backlog[f], p) \in Seq(Peers) BY <1>2 DEF KernelOK
  <1>4. KernelOK' BY <1>1, <1>2, <1>3 DEF KernelOK, Free
  <1>5. CallsOK' BY <1>1, <1>2 DEF CallsOK
  <1>6. ListenState' BY <1>1, <1>2 DEF ListenState
  <1>7. \A v \in Servers : Socket(v)' = Socket(v) BY <1>1 DEF Socket
  <1> QED BY <1>1, <1>4, <1>5, <1>6, <1>7, QuietStep

-----------------------------------------------------------------------------
(* The theorems *)

LEMMA ServerInit == Init => ServerInv
  <1> SUFFICES ASSUME Init PROVE ServerInv OBVIOUS
  <1>1. owner = [f \in Fds |-> Nobody] BY DEF Init, DescriptorsInit
  <1>2. \A o \in Owners : Held(o) = {} BY <1>1, Names DEF Held
  <1>3. \A v \in Servers : Socket(v) = {} BY DEF Init, Socket
  <1>4. CallsOK BY Names DEF Init, CallsOK, Labels, Wait
  <1>5. KernelOK BY <1>1 DEF Init, KernelOK, Free
  <1>6. DescriptorsAccounted BY <1>2, <1>3, Names DEF Init, DescriptorsAccounted
  <1>7. ListenState BY DEF Init, ListenState
  <1> QED BY <1>4, <1>5, <1>6, <1>7, TypeParts DEF ServerInv

LEMMA ServerStepKeeps == ServerInv /\ [Next]_vars => ServerInv'
  <1> SUFFICES ASSUME ServerInv, [Next]_vars PROVE ServerInv' OBVIOUS
  <1>1. ASSUME NEW v \in Servers, ServerStep(v) PROVE ServerInv'
    BY <1>1, ListenKeeps, ListenStepKeeps, DestroyKeeps, CreateKeeps DEF ServerStep
  <1>2. ASSUME NEW f \in Fds, Disconnect(f) \/ \E p \in Peers : PeerConnects(p, f)
        PROVE  ServerInv'
    BY <1>2, DisconnectKeeps, PeerConnectsKeeps
  <1>3. CASE UNCHANGED vars
    <2>1. UNCHANGED <<pc, listenSocket, msec, ClientSocket, ret, owner, bound, listening, backlog, peer>>
      BY <1>3 DEF vars, callVars, kernelVars
    <2> QED BY <2>1 DEF ServerInv, TypeOK, Free, DescriptorsAccounted, Held, Socket, ListenState
  <1> QED BY <1>1, <1>2, <1>3 DEF Next

\* The inductive invariant of the servers holds in every state, on every path
\* of Listen, Disconnect and the destructor (TCPServer.cpp:139-477).
THEOREM ServerAlways == Spec => []ServerInv
  <1> QED BY ServerInit, ServerStepKeeps, PTL DEF Spec

\* Every variable keeps its type; what the kernel knows of a descriptor goes
\* with it when it is closed.
THEOREM ServerTypes == Spec => []TypeOK
  <1>1. ServerInv => TypeOK BY DEF ServerInv
  <1> QED BY <1>1, ServerAlways, PTL

\* No path of Listen and no destructor (TCPServer.cpp:143-365, 447-477) leaks
\* a descriptor or closes one that is not the server's; accepted clients are
\* the application's, and survive their server.
THEOREM ServerAccountsForDescriptors == Spec => []DescriptorsAccounted
  <1>1. ServerInv => DescriptorsAccounted BY DEF ServerInv
  <1> QED BY <1>1, ServerAlways, PTL

-----------------------------------------------------------------------------
(* What Listen returns *)

LEMMA ReportsTruly ==
  ASSUME ServerInv, NEW v \in Servers, ListenStep(v), pc'[v] = "idle"
  PROVE  IF ret'[v]
         THEN /\ owner[ClientSocket'[v]] = Nobody /\ owner'[ClientSocket'[v]] = App
              /\ peer'[ClientSocket'[v]] = Head(backlog[listenSocket[v]])
         ELSE ClientSocket'[v] = INVALID_SOCKET
  <1>1. CallsOK /\ KernelOK /\ ListenState BY TypeParts DEF ServerInv
  <1>2. pc[v] \notin {"dead", "idle"}
    BY DEF ListenStep, MakeSocket, MakeSocketFails, ReuseAddr, ReuseAddrFails, Bind, BindFails,
           StartListening, StartListeningFails, SelectReady, TimesOut, SelectFails, Accept, AcceptFails
  <1>3. ClientSocket[v] = INVALID_SOCKET BY <1>1, <1>2 DEF ListenState
  <1>4. CASE \/ MakeSocketFails(v) \/ ReuseAddrFails(v) \/ BindFails(v)
             \/ StartListeningFails(v) \/ TimesOut(v) \/ SelectFails(v)
    <2>1. ret' = [ret EXCEPT ![v] = FALSE] /\ UNCHANGED ClientSocket
      BY <1>4 DEF MakeSocketFails, ReuseAddrFails, BindFails, StartListeningFails, TimesOut,
                  SelectFails, Fails, Returns
    <2> QED BY <1>1, <1>3, <2>1 DEF CallsOK
  <1>5. CASE AcceptFails(v) BY <1>1, <1>5 DEF AcceptFails, Returns, CallsOK
  <1>6. CASE Accept(v)
    <2>1. PICK f \in Fds :
            /\ Opens(App, f) /\ peer' = [peer EXCEPT ![f] = Head(backlog[listenSocket[v]])]
            /\ ClientSocket' = [ClientSocket EXCEPT ![v] = f]
      BY <1>6 DEF Accept
    <2>2. ret' = [ret EXCEPT ![v] = TRUE] BY <1>6 DEF Accept, Returns
    <2>3. ret'[v] /\ ClientSocket'[v] = f BY <1>1, <2>1, <2>2 DEF CallsOK
    <2>4. owner[f] = Nobody /\ owner'[f] = App
      BY <1>1, <2>1 DEF Opens, Free, KernelOK
    <2>5. peer'[f] = Head(backlog[listenSocket[v]]) BY <1>1, <2>1 DEF KernelOK
    <2> QED BY <2>3, <2>4, <2>5
  <1>7. CASE MakeSocket(v) \/ ReuseAddr(v) \/ Bind(v) \/ StartListening(v) \/ SelectReady(v)
    <2>1. PICK label \in {"setsockopt", "bind", "listen", "select", "accept"} :
            pc' = [pc EXCEPT ![v] = label]
      BY <1>7 DEF MakeSocket, ReuseAddr, Bind, StartListening, SelectReady, Goto
    <2>2. pc'[v] = label BY <1>1, <2>1 DEF CallsOK
    <2> QED BY <2>2
  <1> QED BY <1>4, <1>5, <1>6, <1>7 DEF ListenStep

\* With true Listen gives the application a fresh descriptor that is the
\* connection which waited longest, with false INVALID_SOCKET
\* (TCPServer.cpp:147-149, 311-365).
THEOREM ListenReportsTruly == Spec => ListenReport
  <1>1. ServerInv /\ [Next]_vars =>
          [\A v \in Servers : ListenStep(v) /\ pc'[v] = "idle" =>
             IF ret'[v]
             THEN /\ owner[ClientSocket'[v]] = Nobody /\ owner'[ClientSocket'[v]] = App
                  /\ peer'[ClientSocket'[v]] = Head(backlog[listenSocket[v]])
             ELSE ClientSocket'[v] = INVALID_SOCKET]_vars
    BY ReportsTruly
  <1> QED BY <1>1, ServerAlways, PTL DEF Spec, ListenReport

-----------------------------------------------------------------------------
(* Waiting connections *)

\* what one step of another server, of the application or of a peer may do to
\* a listening socket
LEMMA OthersKeepWaiting ==
  ASSUME ServerInv, NEW f \in listening, NEW p \in Peers, Waiting(p, f),
         \/ UNCHANGED backlog
         \/ \E g \in FdValue \ {f} : CloseFd(g)
         \/ \E g \in FdValue \ {f} : backlog' = [backlog EXCEPT ![g] = Tail(backlog[g])]
         \/ \E g \in Fds, q \in Peers : backlog' = [backlog EXCEPT ![g] = Append(backlog[g], q)]
  PROVE  Waiting(p, f)'
  <1>1. KernelOK BY TypeParts DEF ServerInv
  <1>2. f \in Fds /\ backlog[f] \in Seq(Peers) BY <1>1 DEF KernelOK
  <1>3. CASE backlog'[f] = backlog[f] BY <1>3 DEF Waiting
  <1>4. ASSUME NEW q \in Peers, backlog'[f] = Append(backlog[f], q) PROVE Waiting(p, f)'
    <2>1. PICK i \in 1..Len(backlog[f]) : backlog[f][i] = p BY DEF Waiting
    <2>2. i \in 1..Len(backlog'[f]) /\ backlog'[f][i] = p BY <1>2, <1>4, <2>1
    <2> QED BY <2>2 DEF Waiting
  <1>5. \/ backlog'[f] = backlog[f]
        \/ \E q \in Peers : backlog'[f] = Append(backlog[f], q)
    <2>1. CASE \E g \in FdValue \ {f} : CloseFd(g) BY <1>2, <2>1 DEF CloseFd
    <2>2. ASSUME NEW g \in FdValue \ {f}, backlog' = [backlog EXCEPT ![g] = Tail(backlog[g])]
          PROVE  backlog'[f] = backlog[f]
      BY <1>1, <1>2, <2>2 DEF KernelOK
    <2>3. ASSUME NEW g \in Fds, NEW q \in Peers, backlog' = [backlog EXCEPT ![g] = Append(backlog[g], q)]
          PROVE  backlog'[f] = backlog[f] \/ backlog'[f] = Append(backlog[f], q)
      BY <1>1, <1>2, <2>3 DEF KernelOK
    <2> QED BY <2>1, <2>2, <2>3
  <1> QED BY <1>3, <1>4, <1>5

\* the oldest of a queue is taken: the others wait on
LEMMA TakesOldest ==
  ASSUME NEW s \in Seq(Peers), s # <<>>, NEW i \in 1..Len(s), s[i] # Head(s)
  PROVE  \E j \in 1..Len(Tail(s)) : Tail(s)[j] = s[i]
  <1>1. i # 1
    <2>1. Head(s) = s[1] OBVIOUS
    <2> QED BY <2>1
  <1>2. i - 1 \in 1..Len(Tail(s)) /\ Tail(s)[i - 1] = s[i] BY <1>1
  <1> QED BY <1>2

LEMMA KeepsWaiting ==
  ASSUME ServerInv, [Next]_vars, NEW v \in Servers, NEW p \in Peers,
         listenSocket[v] # INVALID_SOCKET, pc[v] # "dead", Waiting(p, listenSocket[v])
  PROVE  \/ pc'[v] = "dead"
         \/ listenSocket'[v] = listenSocket[v] /\ Waiting(p, listenSocket[v])'
         \/ ret'[v] /\ peer'[ClientSocket'[v]] = p
  <1>1. CallsOK /\ KernelOK /\ ListenState BY TypeParts DEF ServerInv
  <1>2. PICK f \in Fds : f = listenSocket[v] /\ owner[f] = v BY OwnsListenSocket
  <1>3. f \in listening
    <2> SUFFICES ASSUME f \notin listening PROVE FALSE OBVIOUS
    <2>1. backlog[f] = <<>> BY <1>1, <1>2 DEF KernelOK
    <2> QED BY <1>2, <2>1 DEF Waiting
  <1>4. ASSUME NEW u \in Servers \ {v}, pc[u] # "dead"
        PROVE  listenSocket[u] # f /\ listenSocket[u] \in FdValue
    BY <1>1, <1>2, <1>4, SocketsApart DEF CallsOK
  <1>5. ASSUME UNCHANGED listenSocket, Waiting(p, f)'
        PROVE  listenSocket'[v] = listenSocket[v] /\ Waiting(p, listenSocket[v])'
    <2>1. listenSocket'[v] = f BY <1>2, <1>5
    <2> QED BY <1>2, <1>5, <2>1 DEF Waiting
  <1>6. ASSUME NEW u \in Servers,
               \/ Listen(u) \/ ReuseAddr(u) \/ Bind(u) \/ BindFails(u) \/ StartListening(u)
               \/ StartListeningFails(u) \/ SelectReady(u) \/ TimesOut(u) \/ SelectFails(u)
               \/ AcceptFails(u)
        PROVE  UNCHANGED <<listenSocket, backlog>>
    BY <1>6 DEF Listen, ReuseAddr, Bind, BindFails, StartListening, StartListeningFails,
                SelectReady, TimesOut, SelectFails, AcceptFails, kernelVars
  <1>7. CASE ServerStep(v)
    <2>1. CASE Destroy(v) BY <1>1, <2>1 DEF Destroy, Goto, CallsOK
    <2>2. CASE Create(v) BY <2>2 DEF Create
    <2>3. CASE MakeSocket(v) \/ MakeSocketFails(v)
      BY <1>1, <2>3 DEF MakeSocket, MakeSocketFails, ListenState
    <2>4. CASE ReuseAddrFails(v) BY <1>1, <1>2, <1>3, <2>4 DEF ReuseAddrFails, ListenState
    <2>5. CASE Accept(v)
      <3>1. PICK g \in Fds :
              /\ peer' = [peer EXCEPT ![g] = Head(backlog[f])]
              /\ ClientSocket' = [ClientSocket EXCEPT ![v] = g]
        BY <1>2, <2>5 DEF Accept
      <3>2. /\ backlog' = [backlog EXCEPT ![f] = Tail(backlog[f])]
            /\ ret' = [ret EXCEPT ![v] = TRUE] /\ backlog[f] # <<>>
            /\ UNCHANGED listenSocket
        BY <1>2, <2>5 DEF Accept, Returns
      <3>3. backlog[f] \in Seq(Peers) BY <1>1, <1>2 DEF KernelOK
      <3>4. PICK i \in 1..Len(backlog[f]) : backlog[f][i] = p BY <1>2 DEF Waiting
      <3>5. CASE p = Head(backlog[f])
        <4>1. ret'[v] /\ ClientSocket'[v] = g BY <1>1, <3>1, <3>2 DEF CallsOK
        <4>2. peer'[g] = p BY <1>1, <3>1, <3>5 DEF KernelOK
        <4> QED BY <4>1, <4>2
      <3>6. CASE p # Head(backlog[f])
        <4>1. backlog'[f] = Tail(backlog[f]) BY <1>1, <1>2, <3>2 DEF KernelOK
        <4>2. \E j \in 1..Len(Tail(backlog[f])) : Tail(backlog[f])[j] = p
          BY <3>2, <3>3, <3>4, <3>6, TakesOldest
        <4>3. \E j \in 1..Len(backlog'[f]) : backlog'[f][j] = p BY <4>1, <4>2
        <4>4. Waiting(p, f)' BY <4>3 DEF Waiting
        <4> QED BY <1>5, <3>2, <4>4
      <3> QED BY <3>5, <3>6
    <2>6. CASE UNCHANGED <<listenSocket, backlog>>
      BY <1>2, <1>5, <2>6 DEF Waiting
    <2> QED BY <1>6, <1>7, <2>1, <2>2, <2>3, <2>4, <2>5, <2>6 DEF ServerStep, ListenStep
  <1>8. ASSUME NEW u \in Servers \ {v}, ServerStep(u)
        PROVE  listenSocket'[v] = f /\ Waiting(p, f)'
    <2>1. /\ pc[u] # "dead" \/ Create(u)
          /\ listenSocket'[v] = f
      <3>1. \/ UNCHANGED listenSocket \/ \E g : listenSocket' = [listenSocket EXCEPT ![u] = g]
        BY <1>6, <1>8 DEF ServerStep, ListenStep, MakeSocket, MakeSocketFails, ReuseAddrFails,
                          Accept, Destroy, Create, SetListenSocket
      <3>2. pc[u] # "dead" \/ Create(u)
        BY <1>8 DEF ServerStep, ListenStep, Listen, MakeSocket, MakeSocketFails, ReuseAddr,
                    ReuseAddrFails, Bind, BindFails, StartListening, StartListeningFails,
                    SelectReady, TimesOut, SelectFails, Accept, AcceptFails, Destroy
      <3> QED BY <1>1, <1>2, <3>1, <3>2 DEF CallsOK
    <2>2. CASE Destroy(u) \/ ReuseAddrFails(u)
      <3>1. CloseFd(listenSocket[u]) /\ pc[u] # "dead" BY <2>2 DEF Destroy, ReuseAddrFails
      <3>2. listenSocket[u] \in FdValue \ {f} BY <1>4, <3>1
      <3>3. Waiting(p, f) BY <1>2
      <3> QED BY <1>3, <2>1, <3>1, <3>2, <3>3, OthersKeepWaiting
    <2>3. CASE Accept(u)
      <3>1. pc[u] # "dead" /\ backlog' = [backlog EXCEPT ![listenSocket[u]] = Tail(backlog[listenSocket[u]])]
        BY <2>3 DEF Accept
      <3>2. listenSocket[u] \in FdValue \ {f} BY <1>4, <3>1
      <3>3. Waiting(p, f) BY <1>2
      <3> QED BY <1>3, <2>1, <3>1, <3>2, <3>3, OthersKeepWaiting
    <2>4. CASE UNCHANGED backlog
      <3>1. Waiting(p, f) BY <1>2
      <3> QED BY <1>3, <2>1, <2>4, <3>1, OthersKeepWaiting
    <2>5. CASE MakeSocket(u) \/ MakeSocketFails(u) \/ Create(u)
      BY <2>4, <2>5 DEF MakeSocket, MakeSocketFails, Create, kernelVars
    <2> QED BY <1>6, <1>8, <2>2, <2>3, <2>4, <2>5 DEF ServerStep, ListenStep
  <1>9. ASSUME NEW g \in Fds, Disconnect(g) PROVE listenSocket'[v] = f /\ Waiting(p, f)'
    <2>1. g # f /\ CloseFd(g) /\ UNCHANGED listenSocket
      BY <1>2, <1>9, Names DEF Disconnect, Held
    <2>2. g \in FdValue \ {f} BY <2>1, Names
    <2>3. Waiting(p, f) BY <1>2
    <2> QED BY <1>3, <2>1, <2>2, <2>3, <1>2, OthersKeepWaiting
  <1>10. ASSUME NEW g \in Fds, NEW q \in Peers, PeerConnects(q, g)
         PROVE  listenSocket'[v] = f /\ Waiting(p, f)'
    <2>1. backlog' = [backlog EXCEPT ![g] = Append(backlog[g], q)] /\ UNCHANGED listenSocket
      BY <1>10 DEF PeerConnects
    <2>2. Waiting(p, f) BY <1>2
    <2> QED BY <1>3, <2>1, <2>2, <1>2, OthersKeepWaiting
  <1>11. ASSUME listenSocket'[v] = f, Waiting(p, f)'
         PROVE  listenSocket'[v] = listenSocket[v] /\ Waiting(p, listenSocket[v])'
    BY <1>2, <1>11 DEF Waiting
  <1>12. CASE UNCHANGED vars
    BY <1>12 DEF vars, kernelVars, Waiting
  <1> QED BY <1>7, <1>8, <1>9, <1>10, <1>11, <1>12 DEF Next

\* No Listen that times out or fails loses a connection that waits, whatever
\* the other servers do (TCPServer.cpp:143-365).
THEOREM ServerLosesNoConnection == Spec => NoConnectionLost
  <1>1. ServerInv /\ [Next]_vars =>
          [\A v \in Servers, p \in Peers :
             listenSocket[v] # INVALID_SOCKET /\ pc[v] # "dead" =>
               (Waiting(p, listenSocket[v]) =>
                  \/ pc'[v] = "dead"
                  \/ listenSocket'[v] = listenSocket[v] /\ Waiting(p, listenSocket[v])'
                  \/ ret'[v] /\ peer'[ClientSocket'[v]] = p)]_vars
    BY KeepsWaiting
  <1> QED BY <1>1, ServerAlways, PTL DEF Spec, NoConnectionLost

-----------------------------------------------------------------------------
(* Where a server listens *)

\* closing a descriptor leaves the sockets of the servers that do not own it
LEMMA ClosingKeepsPorts ==
  ASSUME ServerInv, NEW f \in FdValue, CloseFd(f), UNCHANGED listenSocket,
         NEW v \in Servers, pc'[v] = pc[v], listenSocket[v] # f \/ pc[v] = "dead",
         ~OffPort(v)
  PROVE  ~OffPort(v)'
  <1>1. \A g \in Fds : g # f => bound'[g] = bound[g] BY DEF CloseFd
  <1>2. CASE pc[v] = "dead" BY <1>2 DEF OffPort
  <1>3. CASE pc[v] # "dead" /\ listenSocket[v] # INVALID_SOCKET
    <2>1. listenSocket[v] \in Fds BY <1>3, OwnsListenSocket
    <2> QED BY <1>1, <1>3, <2>1 DEF OffPort
  <1>4. CASE listenSocket[v] = INVALID_SOCKET BY <1>4 DEF OffPort
  <1> QED BY <1>2, <1>3, <1>4

\* a server's own step
LEMMA OwnStepKeepsPort ==
  ASSUME ServerInv, NEW v \in Servers, ServerStep(v), ~OffPort(v), OffPort(v)'
  PROVE  BindFails(v)
  <1>1. KernelOK /\ CallsOK /\ ListenState BY TypeParts DEF ServerInv
  <1>2. CASE MakeSocket(v)
    BY <1>1, <1>2 DEF MakeSocket, Goto, OffPort, CallsOK
  <1>3. CASE MakeSocketFails(v) \/ ReuseAddrFails(v)
    BY <1>1, <1>3 DEF MakeSocketFails, ReuseAddrFails, SetListenSocket, OffPort, CallsOK
  <1>4. CASE Create(v)
    BY <1>1, <1>4 DEF Create, SetListenSocket, OffPort, CallsOK
  <1>5. CASE Destroy(v) \/ ReuseAddr(v)
    BY <1>1, <1>5 DEF Destroy, ReuseAddr, Goto, OffPort, CallsOK
  <1>6. CASE Bind(v)
    <2>1. listenSocket[v] \in Fds
      BY <1>1, <1>6, OwnsListenSocket DEF Bind, ListenState
    <2> QED BY <1>1, <1>6, <2>1 DEF Bind, OffPort, KernelOK
  <1>7. CASE StartListening(v)
    <2>1. pc[v] = "listen" /\ UNCHANGED listenSocket
          /\ bound' = [bound EXCEPT ![listenSocket[v]] = IF @ = NoPort THEN AnyPort ELSE @]
      BY <1>7 DEF StartListening, callVars
    <2>2. listenSocket[v] # INVALID_SOCKET BY <1>1, <2>1 DEF ListenState
    <2>3. bound[listenSocket[v]] = Port[v] /\ Port[v] # NoPort
      BY <2>1, <2>2, PortsAssumption DEF OffPort
    <2>4. listenSocket[v] \in Fds BY <2>1, <2>2, OwnsListenSocket
    <2> QED BY <1>1, <2>1, <2>3, <2>4 DEF OffPort, KernelOK
  <1>8. CASE \/ Listen(v) \/ StartListeningFails(v) \/ SelectReady(v) \/ TimesOut(v)
             \/ SelectFails(v) \/ Accept(v) \/ AcceptFails(v)
    <2>1. UNCHANGED <<listenSocket, bound>> /\ pc[v] \notin {"dead", "setsockopt", "bind"}
      BY <1>8 DEF Listen, StartListeningFails, SelectReady, TimesOut, SelectFails, Accept,
                  AcceptFails, kernelVars
    <2> QED BY <2>1 DEF OffPort
  <1> QED
    BY <1>2, <1>3, <1>4, <1>5, <1>6, <1>7, <1>8 DEF ServerStep, ListenStep

\* the step of another server
LEMMA OtherStepKeepsPort ==
  ASSUME ServerInv, NEW u \in Servers, ServerStep(u), NEW v \in Servers, v # u, ~OffPort(v)
  PROVE  ~OffPort(v)'
  <1>1. KernelOK /\ CallsOK /\ ListenState BY TypeParts DEF ServerInv
  <1>2. pc'[v] = pc[v] /\ listenSocket'[v] = listenSocket[v]
    BY <1>1
    DEF ServerStep, ListenStep, Listen, MakeSocket, MakeSocketFails, ReuseAddr, ReuseAddrFails,
        Bind, BindFails, StartListening, StartListeningFails, SelectReady, TimesOut, SelectFails,
        Accept, AcceptFails, Destroy, Create, Fails, Returns, Goto, SetListenSocket, CallsOK
  <1>3. CASE pc[v] = "dead" \/ listenSocket[v] = INVALID_SOCKET
    BY <1>2, <1>3 DEF OffPort
  <1>4. CASE pc[v] # "dead" /\ listenSocket[v] # INVALID_SOCKET
    <2>1. listenSocket[v] \in Fds BY <1>4, OwnsListenSocket
    <2>2. pc[u] # "dead" => listenSocket[u] # listenSocket[v] BY <1>4, SocketsApart
    <2>3. CASE Bind(u) \/ StartListening(u)
      BY <1>1, <1>2, <2>1, <2>2, <2>3 DEF Bind, StartListening, OffPort, KernelOK
    <2>4. CASE ReuseAddrFails(u) \/ Destroy(u)
      BY <1>1, <1>2, <2>1, <2>2, <2>4 DEF ReuseAddrFails, Destroy, CloseFd, OffPort
    <2>5. CASE UNCHANGED bound BY <1>2, <2>5 DEF OffPort
    <2> QED
      BY <2>3, <2>4, <2>5
      DEF ServerStep, ListenStep, Listen, MakeSocket, MakeSocketFails, ReuseAddr, BindFails,
          StartListeningFails, SelectReady, TimesOut, SelectFails, Accept, AcceptFails, Create,
          kernelVars
  <1> QED BY <1>3, <1>4

LEMMA StepKeepsPort ==
  ASSUME ServerInv, [Next]_vars, NEW v \in Servers, ~OffPort(v), OffPort(v)'
  PROVE  BindFails(v)
  <1>1. ASSUME NEW u \in Servers, ServerStep(u) PROVE BindFails(v)
    BY <1>1, OwnStepKeepsPort, OtherStepKeepsPort
  <1>2. ASSUME NEW f \in Fds, Disconnect(f) PROVE FALSE
    <2>1. owner[f] = App /\ CloseFd(f) /\ UNCHANGED <<pc, listenSocket>>
      BY <1>2 DEF Disconnect, Held
    <2>2. pc[v] = "dead" \/ listenSocket[v] # f
      BY <1>2, <2>1, OwnsListenSocket, Names
    <2> QED BY <2>1, <2>2, ClosingKeepsPorts, Names
  <1>3. ASSUME NEW f \in Fds, NEW p \in Peers, PeerConnects(p, f) PROVE FALSE
    BY <1>3 DEF PeerConnects, OffPort
  <1>4. CASE UNCHANGED vars
    BY <1>4 DEF vars, kernelVars, OffPort
  <1> QED BY <1>1, <1>2, <1>3, <1>4 DEF Next

\* However the calls of Listen on any number of servers interleave and fail,
\* only a bind() that fails takes a server off its port: after every other
\* failure the socket is forgotten or bound (TCPServer.cpp:143-365).
THEOREM ServerKeepsItsPort == Spec => KeepsItsPort
  <1>1. ServerInv /\ [Next]_vars =>
          [\A v \in Servers : ~OffPort(v) /\ OffPort(v)' => BindFails(v)]_vars
    BY StepKeepsPort
  <1> QED BY <1>1, ServerAlways, PTL DEF Spec, KeepsItsPort
=============================================================================
