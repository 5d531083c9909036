----------------------------- MODULE TCPClient -----------------------------
(***************************************************************************)
(* CTCPClient's connection life cycle: Connect, one step per system call,  *)
(* Disconnect, the timeout setters, construction and destruction, for a    *)
(* set of client objects used by threads of one process, beside other      *)
(* parts of the process that open and close descriptors.                   *)
(*                                                                         *)
(* An object is used by one thread at a time (README.md:165); threads meet *)
(* in the descriptor table.  The data path is in module Connection.        *)
(***************************************************************************)
EXTENDS Descriptors

CONSTANTS
  Clients,        \* the CTCPClient objects
  Others,         \* other holders of descriptors
  MaxAddrs,       \* bound: addresses getaddrinfo returns
  CarefulCaller   \* the application calls the setters only while connected

ASSUME HoldersAssumption ==
  Owners = Clients \cup Others /\ Clients \cap Others = {}
ASSUME AddrsAssumption == MaxAddrs \in Nat \ {0}
ASSUME CallerAssumption == CarefulCaller \in BOOLEAN

VARIABLES
  pc,      \* "dead", "idle", or the next system call of Connect
  status,  \* m_eStatus
  sock,    \* m_ConnectSocket
  info,    \* m_pResultAddrInfo is not null
  addrs,   \* addresses from pResPtr on
  ret,     \* the last result of Connect
  tuned    \* tuned[f]: who set a timeout on the open descriptor f

clientVars == <<pc, status, sock, info, addrs, ret>>
vars == <<owner, tuned, clientVars>>

Init ==
  /\ DescriptorsInit
  /\ tuned = [f \in Fds |-> {}]
  /\ pc = [c \in Clients |-> "idle"]
  /\ status = [c \in Clients |-> "DISCONNECTED"]
  /\ sock = [c \in Clients |-> INVALID_SOCKET]
  /\ info = [c \in Clients |-> FALSE]
  /\ addrs = [c \in Clients |-> 0]
  /\ ret = [c \in Clients |-> FALSE]

\* a number loses its options when it is closed
CloseFd(f) == Closes(f) /\ tuned' = [g \in Fds |-> IF g = f THEN {} ELSE tuned[g]]

Goto(c, label) == pc' = [pc EXCEPT ![c] = label]

-----------------------------------------------------------------------------
(* Connect *)

\* Disconnect: the descriptor is closed and forgotten
Drop_NotRecorded(c) == CloseFd(sock[c]) /\ UNCHANGED <<status, sock>>
Drop(c) ==
  /\ status' = [status EXCEPT ![c] = "DISCONNECTED"]
  /\ sock' = [sock EXCEPT ![c] = INVALID_SOCKET]
  /\ CloseFd(sock[c])

\* an open connection is closed first
Connect(c) ==
  /\ pc[c] = "idle"
  /\ IF status[c] = "CONNECTED" THEN Drop(c) ELSE UNCHANGED <<owner, tuned, status, sock>>
  /\ Goto(c, "getaddrinfo")
  /\ UNCHANGED <<info, addrs, ret>>

\* freeaddrinfo
FreeInfo(c) == info' = [info EXCEPT ![c] = FALSE]

Returns(c, result) == ret' = [ret EXCEPT ![c] = result] /\ Goto(c, "idle")

ResolveFails(c) ==
  /\ pc[c] = "getaddrinfo" /\ FreeInfo(c) /\ Returns(c, FALSE)
  /\ UNCHANGED <<owner, tuned, status, sock, addrs>>

Resolve(c) ==
  /\ pc[c] = "getaddrinfo"
  /\ \E n \in 1..MaxAddrs : addrs' = [addrs EXCEPT ![c] = n]
  /\ info' = [info EXCEPT ![c] = TRUE]
  /\ Goto(c, "socket")
  /\ UNCHANGED <<owner, tuned, status, sock, ret>>

\* pResPtr != nullptr
MoreAddrs(c) == addrs[c] > 0

\* pResPtr = pResPtr->ai_next
NextAddr_Same(c) == UNCHANGED addrs
NextAddr(c) == addrs' = [addrs EXCEPT ![c] = @ - 1]

MakeSocket(c) ==
  /\ pc[c] = "socket" /\ MoreAddrs(c)
  /\ \E f \in Fds : Opens(c, f) /\ sock' = [sock EXCEPT ![c] = f]
  /\ Goto(c, "connect")
  /\ UNCHANGED <<tuned, status, info, addrs, ret>>

\* socket() fails, as it must when no number is free: continue
MakeSocketFails(c) ==
  /\ pc[c] = "socket" /\ MoreAddrs(c)
  /\ sock' = [sock EXCEPT ![c] = INVALID_SOCKET]
  /\ NextAddr(c)
  /\ UNCHANGED <<owner, tuned, pc, status, info, ret>>

ConnectOk(c) ==
  /\ pc[c] = "connect"
  /\ status' = [status EXCEPT ![c] = "CONNECTED"]
  /\ FreeInfo(c) /\ Returns(c, TRUE)
  /\ UNCHANGED <<owner, tuned, sock, addrs>>

Refused(c) ==
  /\ pc[c] = "connect" /\ Goto(c, "close")
  /\ UNCHANGED <<owner, tuned, status, sock, info, addrs, ret>>

\* the descriptor is closed; m_ConnectSocket keeps its number
CloseRefused_Skipped(c) ==
  /\ pc[c] = "close" /\ NextAddr(c) /\ Goto(c, "socket")
  /\ UNCHANGED <<owner, tuned, status, sock, info, ret>>
CloseRefused(c) ==
  /\ pc[c] = "close" /\ CloseFd(sock[c]) /\ NextAddr(c) /\ Goto(c, "socket")
  /\ UNCHANGED <<status, sock, info, ret>>

\* no address succeeded
GiveUp(c) ==
  /\ pc[c] = "socket" /\ addrs[c] = 0
  /\ FreeInfo(c) /\ Returns(c, FALSE)
  /\ UNCHANGED <<owner, tuned, status, sock, addrs>>

ConnectStep(c) ==
  \/ ResolveFails(c) \/ Resolve(c) \/ MakeSocket(c) \/ MakeSocketFails(c)
  \/ ConnectOk(c) \/ Refused(c) \/ CloseRefused(c) \/ GiveUp(c)

-----------------------------------------------------------------------------
(* The other operations *)

Disconnect(c) ==
  /\ pc[c] = "idle"
  /\ IF status[c] = "CONNECTED" THEN Drop(c) ELSE UNCHANGED <<owner, tuned, status, sock>>
  /\ UNCHANGED <<pc, info, addrs, ret>>

\* SetRcvTimeout, SetSndTimeout: setsockopt() on whatever descriptor has the
\* number in m_ConnectSocket, with no look at m_eStatus
SetTimeout(c) ==
  /\ pc[c] = "idle"
  /\ (CarefulCaller => status[c] = "CONNECTED")
  /\ sock[c] \in Fds /\ owner[sock[c]] # Nobody
  /\ tuned' = [tuned EXCEPT ![sock[c]] = @ \cup {c}]
  /\ UNCHANGED <<owner, clientVars>>

\* ~CTCPClient
Destroy(c) ==
  /\ pc[c] = "idle" /\ Goto(c, "dead")
  /\ IF status[c] = "CONNECTED" THEN Drop(c) ELSE UNCHANGED <<owner, tuned, status, sock>>
  /\ UNCHANGED <<info, addrs, ret>>

Create(c) ==
  /\ pc[c] = "dead" /\ Goto(c, "idle")
  /\ status' = [status EXCEPT ![c] = "DISCONNECTED"]
  /\ sock' = [sock EXCEPT ![c] = INVALID_SOCKET]
  /\ info' = [info EXCEPT ![c] = FALSE]
  /\ UNCHANGED <<owner, tuned, addrs, ret>>

ClientStep(c) ==
  Connect(c) \/ ConnectStep(c) \/ Disconnect(c) \/ SetTimeout(c) \/ Destroy(c) \/ Create(c)

\* the rest of the process: a file, a socket of its own
OtherOpens(o) == (\E f \in Fds : Opens(o, f)) /\ UNCHANGED <<tuned, clientVars>>
OtherCloses(o) == (\E f \in Held(o) : CloseFd(f)) /\ UNCHANGED clientVars

-----------------------------------------------------------------------------
Next ==
  \/ \E c \in Clients : ClientStep(c)
  \/ \E o \in Others : OtherOpens(o) \/ OtherCloses(o)

Spec == Init /\ [][Next]_vars

\* a system call of a running Connect returns
FairSpec == Spec /\ \A c \in Clients : WF_vars(ConnectStep(c))

-----------------------------------------------------------------------------
(* Properties *)

\* Every variable keeps its type, and only open descriptors have options.
TypeOK ==
  /\ owner \in [Fds -> Owners \cup {Nobody}]
  /\ tuned \in [Fds -> SUBSET Clients]
  /\ pc \in [Clients -> {"dead", "idle", "getaddrinfo", "socket", "connect", "close"}]
  /\ status \in [Clients -> {"CONNECTED", "DISCONNECTED"}]
  /\ sock \in [Clients -> FdValue]
  /\ info \in [Clients -> BOOLEAN] /\ ret \in [Clients -> BOOLEAN]
  /\ addrs \in [Clients -> 0..MaxAddrs]
  /\ \A f \in Free : tuned[f] = {}

\* the descriptors an object needs in its present state
Needs(c) ==
  IF status[c] = "CONNECTED" \/ pc[c] \in {"connect", "close"} THEN {sock[c]} ELSE {}

\* No descriptor is leaked and none is used that is not the object's own,
\* on any path of Connect: an object holds exactly the one its state names,
\* and none at all when Connect failed, after Disconnect, and once destroyed
\* (TCPClient.cpp:244-280, 386-423).
HoldsWhatItNeeds == \A c \in Clients : Held(c) = Needs(c)

\* The list of getaddrinfo exists exactly while Connect walks it, so that no
\* path leaks it or frees it twice (TCPClient.cpp:230-274).
AddrInfoFreed ==
  \A c \in Clients : info[c] <=> pc[c] \in {"socket", "connect", "close"}

\* What IsConnected says between calls: connected only after a Connect that
\* returned true, and never after one that returned false.
ConnectReport ==
  \A c \in Clients : pc[c] = "idle" /\ status[c] = "CONNECTED" => ret[c]

\* A client never closes a descriptor of somebody else, and never sets a
\* timeout on one ("setting receive timeout. Can be called after Connect",
\* TCPClient.cpp:21).  With CarefulCaller = FALSE the code does not keep it.
OthersUntouched ==
  [][\A c \in Clients : ClientStep(c) =>
       \A f \in Fds : owner[f] \notin {c, Nobody} =>
         owner'[f] = owner[f] /\ tuned'[f] = tuned[f]]_vars

\* Every Connect comes back, whatever fails and however often.
ConnectReturns ==
  \A c \in Clients : (pc[c] \notin {"idle", "dead"}) ~> (pc[c] = "idle")
=============================================================================
