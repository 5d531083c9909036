----------------------------- MODULE TCPServer -----------------------------
(***************************************************************************)
(* CTCPServer's listening side: Listen, one step per system call, the      *)
(* Disconnect of an accepted client, construction and destruction, for     *)
(* servers of one process that share its descriptors and may be given the  *)
(* same port.  The kernel's part follows Linux: with SO_REUSEADDR two      *)
(* sockets may be bound to a port but one of them listen, listen() on an   *)
(* unbound socket binds it to a port of the kernel's choice, and accept()  *)
(* returns a waiting connection though its peer has gone meanwhile.        *)
(*                                                                         *)
(* A server is used by one thread at a time (README.md:165).  The data     *)
(* path of an accepted client is in module Connection.                     *)
(***************************************************************************)
EXTENDS Descriptors, Sequences

CONSTANTS
  Servers,  \* the CTCPServer objects
  App,      \* the application, which owns the accepted descriptors
  Ports,    \* TCP ports of the host
  Port,     \* Port[v]: the port v is constructed with
  NoPort,   \* where an unbound socket is bound
  AnyPort,  \* where listen() binds one: a port nobody knows
  Peers,    \* remote hosts, with one connection at a time each
  NoPeer,   \* the other end of a descriptor that is no connection
  Waits     \* the waiting periods Listen is called with

\* ACCEPT_WAIT_INF_DELAY, 0 and any other number of milliseconds
Wait == {"inf", "zero", "finite"}

ASSUME ServersAssumption == Owners = Servers \cup {App} /\ App \notin Servers
ASSUME PortsAssumption ==
  Port \in [Servers -> Ports] /\ NoPort \notin Ports /\ AnyPort \notin Ports \cup {NoPort}
ASSUME PeersAssumption == NoPeer \notin Peers
ASSUME WaitsAssumption == Waits \subseteq Wait

VARIABLES
  pc,            \* "dead", "idle", or the next system call of Listen
  listenSocket,  \* m_ListenSocket
  msec,          \* Listen's waiting period
  ClientSocket,  \* Listen's output
  ret,           \* the last result of Listen
  bound,         \* bound[f]: the port of descriptor f
  listening,     \* the descriptors that listen
  backlog,       \* backlog[f]: the connections accept(f) will return
  peer           \* peer[f]: who is connected to descriptor f

callVars == <<msec, ClientSocket, ret>>
kernelVars == <<owner, bound, listening, backlog, peer>>
vars == <<pc, listenSocket, callVars, kernelVars>>

Init ==
  /\ DescriptorsInit
  /\ pc = [v \in Servers |-> "idle"]
  /\ listenSocket = [v \in Servers |-> INVALID_SOCKET]
  /\ msec = [v \in Servers |-> "inf"]
  /\ ClientSocket = [v \in Servers |-> INVALID_SOCKET]
  /\ ret = [v \in Servers |-> FALSE]
  /\ bound = [f \in Fds |-> NoPort]
  /\ listening = {}
  /\ backlog = [f \in Fds |-> <<>>]
  /\ peer = [f \in Fds |-> NoPeer]

Goto(v, label) == pc' = [pc EXCEPT ![v] = label]
SetListenSocket(v, f) == listenSocket' = [listenSocket EXCEPT ![v] = f]

-----------------------------------------------------------------------------
(* The kernel *)

\* close(f); the connections that waited on f are reset
CloseFd(f) ==
  /\ Closes(f)
  /\ bound' = [g \in Fds |-> IF g = f THEN NoPort ELSE bound[g]]
  /\ listening' = listening \ {f}
  /\ backlog' = [g \in Fds |-> IF g = f THEN <<>> ELSE backlog[g]]
  /\ peer' = [g \in Fds |-> IF g = f THEN NoPeer ELSE peer[g]]

PortInUse(port) == \E f \in listening : bound[f] = port

Waiting(p, f) == \E i \in 1..Len(backlog[f]) : backlog[f][i] = p

\* a peer connects to the port of a listening descriptor
PeerConnects(p, f) ==
  /\ f \in listening /\ bound[f] \in Ports
  /\ \A g \in Fds : ~Waiting(p, g) /\ peer[g] # p
  /\ backlog' = [backlog EXCEPT ![f] = Append(@, p)]
  /\ UNCHANGED <<pc, listenSocket, callVars, owner, bound, listening, peer>>

-----------------------------------------------------------------------------
(* Listen *)

Listen(v) ==
  /\ pc[v] = "idle"
  /\ \E w \in Waits : msec' = [msec EXCEPT ![v] = w]
  /\ ClientSocket' = [ClientSocket EXCEPT ![v] = INVALID_SOCKET]
  /\ Goto(v, IF listenSocket[v] = INVALID_SOCKET THEN "socket" ELSE "listen")
  /\ UNCHANGED <<listenSocket, ret, kernelVars>>

Returns(v, result) ==
  /\ ret' = [ret EXCEPT ![v] = result] /\ Goto(v, "idle") /\ UNCHANGED msec

Fails(v) == Returns(v, FALSE) /\ UNCHANGED ClientSocket

MakeSocket(v) ==
  /\ pc[v] = "socket"
  /\ \E f \in Fds : Opens(v, f) /\ SetListenSocket(v, f)
  /\ Goto(v, "setsockopt")
  /\ UNCHANGED <<callVars, bound, listening, backlog, peer>>

\* as it must when no number is free
MakeSocketFails(v) ==
  /\ pc[v] = "socket" /\ Fails(v)
  /\ SetListenSocket(v, INVALID_SOCKET) /\ UNCHANGED kernelVars

ReuseAddr(v) ==
  /\ pc[v] = "setsockopt" /\ Goto(v, "bind")
  /\ UNCHANGED <<listenSocket, callVars, kernelVars>>

\* the descriptor is closed and forgotten
ReuseAddrFails_NotClosed(v) ==
  /\ pc[v] = "setsockopt" /\ Fails(v)
  /\ SetListenSocket(v, INVALID_SOCKET) /\ UNCHANGED kernelVars
ReuseAddrFails_Kept(v) ==
  /\ pc[v] = "setsockopt" /\ Fails(v)
  /\ UNCHANGED <<listenSocket, kernelVars>>
ReuseAddrFails(v) ==
  /\ pc[v] = "setsockopt" /\ Fails(v)
  /\ CloseFd(listenSocket[v]) /\ SetListenSocket(v, INVALID_SOCKET)

Bind(v) ==
  /\ pc[v] = "bind" /\ ~PortInUse(Port[v])
  /\ bound' = [bound EXCEPT ![listenSocket[v]] = Port[v]]
  /\ Goto(v, "listen")
  /\ UNCHANGED <<listenSocket, callVars, owner, listening, backlog, peer>>

\* EADDRINUSE when a modelled server has the port; another process may have
\* it, or EACCES forbid it.  The descriptor is neither closed nor forgotten
BindFails(v) ==
  /\ pc[v] = "bind" /\ Fails(v)
  /\ UNCHANGED <<listenSocket, kernelVars>>

\* SelectSocket is skipped for ACCEPT_WAIT_INF_DELAY
WaitsInSelect(v) == msec[v] # "inf"

\* listen(); a call on a listening descriptor only sets its backlog anew
StartListening(v) ==
  LET f == listenSocket[v] IN
  /\ pc[v] = "listen"
  /\ f \in listening \/ ~PortInUse(bound[f])
  /\ bound' = [bound EXCEPT ![f] = IF @ = NoPort THEN AnyPort ELSE @]
  /\ listening' = listening \cup {f}
  /\ Goto(v, IF WaitsInSelect(v) THEN "select" ELSE "accept")
  /\ UNCHANGED <<listenSocket, callVars, owner, backlog, peer>>

\* another socket bound to the port was faster
StartListeningFails(v) ==
  LET f == listenSocket[v] IN
  /\ pc[v] = "listen" /\ f \notin listening /\ PortInUse(bound[f]) /\ Fails(v)
  /\ UNCHANGED <<listenSocket, kernelVars>>

SelectReady(v) ==
  /\ pc[v] = "select" /\ backlog[listenSocket[v]] # <<>>
  /\ Goto(v, "accept")
  /\ UNCHANGED <<listenSocket, callVars, kernelVars>>

\* select() gets a timeout unless msec is 0
HasTimeout_Never(v) == FALSE
HasTimeout(v) == msec[v] = "finite"

TimesOut_Closes(v) ==
  /\ pc[v] = "select" /\ HasTimeout(v) /\ backlog[listenSocket[v]] = <<>> /\ Fails(v)
  /\ CloseFd(listenSocket[v]) /\ UNCHANGED listenSocket
TimesOut(v) ==
  /\ pc[v] = "select" /\ HasTimeout(v) /\ backlog[listenSocket[v]] = <<>> /\ Fails(v)
  /\ UNCHANGED <<listenSocket, kernelVars>>

\* EINTR
SelectFails_Closes(v) ==
  /\ pc[v] = "select" /\ Fails(v)
  /\ CloseFd(listenSocket[v]) /\ SetListenSocket(v, INVALID_SOCKET)
SelectFails(v) ==
  /\ pc[v] = "select" /\ Fails(v) /\ UNCHANGED <<listenSocket, kernelVars>>

\* the oldest waiting connection gets a descriptor, which is the application's
Accept_ReturnsListener(v) ==
  /\ pc[v] = "accept" /\ backlog[listenSocket[v]] # <<>>
  /\ \E f \in Fds : Opens(App, f) /\ peer' = [peer EXCEPT ![f] = Head(backlog[listenSocket[v]])]
  /\ ClientSocket' = [ClientSocket EXCEPT ![v] = listenSocket[v]]
  /\ backlog' = [backlog EXCEPT ![listenSocket[v]] = Tail(@)]
  /\ Returns(v, TRUE)
  /\ UNCHANGED <<listenSocket, bound, listening>>
Accept(v) ==
  /\ pc[v] = "accept" /\ backlog[listenSocket[v]] # <<>>
  /\ \E f \in Fds :
       /\ Opens(App, f)
       /\ peer' = [peer EXCEPT ![f] = Head(backlog[listenSocket[v]])]
       /\ ClientSocket' = [ClientSocket EXCEPT ![v] = f]
  /\ backlog' = [backlog EXCEPT ![listenSocket[v]] = Tail(@)]
  /\ Returns(v, TRUE)
  /\ UNCHANGED <<listenSocket, bound, listening>>

\* EINTR, or EMFILE when no number is free; the connection waits on
AcceptFails(v) ==
  /\ pc[v] = "accept" /\ Returns(v, FALSE)
  /\ ClientSocket' = [ClientSocket EXCEPT ![v] = INVALID_SOCKET]
  /\ UNCHANGED <<listenSocket, kernelVars>>

ListenStep(v) ==
  \/ MakeSocket(v) \/ MakeSocketFails(v) \/ ReuseAddr(v) \/ ReuseAddrFails(v)
  \/ Bind(v) \/ BindFails(v) \/ StartListening(v) \/ StartListeningFails(v)
  \/ SelectReady(v) \/ TimesOut(v) \/ SelectFails(v) \/ Accept(v) \/ AcceptFails(v)

-----------------------------------------------------------------------------
(* The other operations *)

\* Disconnect of an accepted client, by whichever thread serves it
Disconnect(f) ==
  /\ f \in Held(App) /\ CloseFd(f)
  /\ UNCHANGED <<pc, listenSocket, callVars>>

\* ~CTCPServer closes m_ListenSocket, valid or not; accepted clients live on
Destroy(v) ==
  /\ pc[v] = "idle" /\ Goto(v, "dead")
  /\ CloseFd(listenSocket[v])
  /\ UNCHANGED <<listenSocket, callVars>>

Create(v) ==
  /\ pc[v] = "dead" /\ Goto(v, "idle")
  /\ SetListenSocket(v, INVALID_SOCKET)
  /\ UNCHANGED <<callVars, kernelVars>>

-----------------------------------------------------------------------------
ServerStep(v) == Listen(v) \/ ListenStep(v) \/ Destroy(v) \/ Create(v)

Next ==
  \/ \E v \in Servers : ServerStep(v)
  \/ \E f \in Fds : Disconnect(f) \/ \E p \in Peers : PeerConnects(p, f)

Spec == Init /\ [][Next]_vars

\* A system call of a running Listen returns once it can.  That it fails for
\* no reason is possible at any time but never due.
ListenCanGoOn(v) ==
  \/ MakeSocket(v) \/ MakeSocketFails(v) \/ ReuseAddr(v) \/ Bind(v)
  \/ (PortInUse(Port[v]) /\ BindFails(v)) \/ StartListening(v) \/ StartListeningFails(v)
  \/ SelectReady(v) \/ TimesOut(v) \/ Accept(v) \/ (Free = {} /\ AcceptFails(v))
FairSpec == Spec /\ \A v \in Servers : WF_vars(ListenCanGoOn(v))

-----------------------------------------------------------------------------
(* Properties *)

\* the server's socket, once Listen has made one
Socket(v) == IF pc[v] = "dead" THEN {} ELSE {listenSocket[v]} \ {INVALID_SOCKET}

\* Every variable keeps its type; what the kernel knows of a descriptor goes
\* with it when it is closed.
TypeOK ==
  /\ owner \in [Fds -> Owners \cup {Nobody}]
  /\ pc \in [Servers -> {"dead", "idle", "socket", "setsockopt", "bind", "listen",
                         "select", "accept"}]
  /\ listenSocket \in [Servers -> FdValue] /\ ClientSocket \in [Servers -> FdValue]
  /\ msec \in [Servers -> Wait] /\ ret \in [Servers -> BOOLEAN]
  /\ bound \in [Fds -> Ports \cup {NoPort, AnyPort}]
  /\ listening \subseteq Fds
  /\ backlog \in [Fds -> Seq(Peers)]
  /\ peer \in [Fds -> Peers \cup {NoPeer}]
  /\ \A f \in Free : bound[f] = NoPort /\ f \notin listening /\ peer[f] = NoPeer
  /\ \A f \in Fds \ listening : backlog[f] = <<>>

\* No descriptor is leaked and none is used that is not the server's own, on
\* any path of Listen, however many calls of it fail and on whatever step: a
\* live server holds exactly its m_ListenSocket, a destroyed one nothing, and
\* the application exactly the descriptors of accepted connections
\* (TCPServer.cpp:143-365, 447-477).
DescriptorsAccounted ==
  /\ \A v \in Servers : Held(v) = Socket(v)
  /\ Held(App) = {f \in Fds : peer[f] # NoPeer}

\* The result of Listen is the truth about ClientSocket: with true it is a
\* descriptor that was free and is now the connection that waited longest on
\* the server's socket, with false it is INVALID_SOCKET (Tests.cpp:537).
ListenReport ==
  [][\A v \in Servers : ListenStep(v) /\ pc'[v] = "idle" =>
       IF ret'[v]
       THEN /\ owner[ClientSocket'[v]] = Nobody /\ owner'[ClientSocket'[v]] = App
            /\ peer'[ClientSocket'[v]] = Head(backlog[listenSocket[v]])
       ELSE ClientSocket'[v] = INVALID_SOCKET]_vars

\* A connection the kernel has completed for a server is not lost by a Listen
\* that times out or fails: it waits on until a Listen returns it, whatever
\* happens to the other servers, unless its server is destroyed.
NoConnectionLost ==
  [][\A v \in Servers, p \in Peers :
       listenSocket[v] # INVALID_SOCKET /\ pc[v] # "dead" =>
         (Waiting(p, listenSocket[v]) =>
            \/ pc'[v] = "dead"
            \/ listenSocket'[v] = listenSocket[v] /\ Waiting(p, listenSocket[v])'
            \/ ret'[v] /\ peer'[ClientSocket'[v]] = p)]_vars

\* A server that waits for clients waits for them on the port it was
\* constructed with ("creates a TCP server to listen on port 12345",
\* README.md:40).  The code does not keep it once a bind() has failed.
ListensOnItsPort ==
  \A v \in Servers : pc[v] \in {"select", "accept"} => bound[listenSocket[v]] = Port[v]

\* m_ListenSocket is past its setup, as Listen takes it to be, and not where
\* the server was told to be
OffPort(v) ==
  /\ pc[v] \notin {"dead", "setsockopt", "bind"} /\ listenSocket[v] # INVALID_SOCKET
  /\ bound[listenSocket[v]] # Port[v]

\* A bind() that fails is the only step that takes a server off its port: no
\* other failure of Listen leaves it a socket it would listen with, and no
\* step of another server moves it (TCPServer.cpp:143, 192-365).
KeepsItsPort == [][\A v \in Servers : ~OffPort(v) /\ OffPort(v)' => BindFails(v)]_vars

\* Listen comes back when it was given a waiting period, and also without one
\* when there is a connection to return.
ListenReturns ==
  \A v \in Servers :
    (/\ pc[v] \notin {"idle", "dead"}
     /\ msec[v] = "finite" \/ (listenSocket[v] \in listening /\ backlog[listenSocket[v]] # <<>>))
    ~> (pc[v] = "idle")
=============================================================================
