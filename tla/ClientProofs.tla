---------------------------- MODULE ClientProofs ----------------------------
(***************************************************************************)
(* What TLAPS proves of CTCPClient and CTCPSSLClient, for every number of  *)
(* clients, plain or TLS, of other holders, of descriptors, addresses and  *)
(* contexts.  For TCPClient, HoldsWhatItNeeds is inductive with what       *)
(* ConnectState adds: a Connect that runs has dropped its connection, so   *)
(* the descriptor it makes is the only one its object holds.  A            *)
(* TCPSSLClient is a TCPClient in every step, so what is proved there      *)
(* holds here.  And the sessions add up, also when an object is connected  *)
(* again and loses its session: SessionInv says of every structure that    *)
(* its pointers are live or null, and that no other would free the same.   *)
(***************************************************************************)
EXTENDS TCPSSLClient, TLAPS

ConnectState ==
  /\ \A c \in Clients : pc[c] # "idle" => status[c] = "DISCONNECTED"
  /\ \A c \in Clients : pc[c] \in {"connect", "close"} => addrs[c] > 0
  /\ AddrInfoFreed
  /\ ConnectReport

HoldInv == TypeOK /\ HoldsWhatItNeeds /\ ConnectState

Labels == {"dead", "idle", "getaddrinfo", "socket", "connect", "close"}

\* what TypeOK says of the objects, and not of the descriptors
ObjectsOK ==
  /\ pc \in [Clients -> Labels]
  /\ status \in [Clients -> {"CONNECTED", "DISCONNECTED"}]
  /\ sock \in [Clients -> FdValue]
  /\ info \in [Clients -> BOOLEAN] /\ ret \in [Clients -> BOOLEAN]
  /\ addrs \in [Clients -> 0..MaxAddrs]

-----------------------------------------------------------------------------
(* Descriptors *)

\* An object that needs a descriptor owns the one it has in m_ConnectSocket.
LEMMA OwnsItsSocket ==
  ASSUME HoldInv, NEW c \in Clients, Needs(c) # {}
  PROVE  sock[c] \in Fds /\ owner[sock[c]] = c /\ Needs(c) = {sock[c]}
  <1>1. Held(c) = Needs(c) BY DEF HoldInv, HoldsWhatItNeeds
  <1>2. Needs(c) = {sock[c]} BY DEF Needs
  <1> QED BY <1>1, <1>2 DEF Held

\* Closing a descriptor takes it from its owner only.
LEMMA ClosesOwn ==
  ASSUME TypeOK, NEW o \in Owners, NEW f \in Fds, owner[f] = o, CloseFd(f)
  PROVE  /\ Held(o)' = Held(o) \ {f}
         /\ \A d \in Owners \ {o} : Held(d)' = Held(d)
         /\ owner' \in [Fds -> Owners \cup {Nobody}]
         /\ tuned' \in [Fds -> SUBSET Clients]
         /\ \A g \in Free' : tuned'[g] = {}
  <1>1. owner' = [g \in Fds |-> IF g = f THEN Nobody ELSE owner[g]]
    BY DEF CloseFd, Closes
  <1>2. tuned' = [g \in Fds |-> IF g = f THEN {} ELSE tuned[g]] BY DEF CloseFd
  <1>3. Nobody \notin Owners BY OwnersAssumption
  <1>4. Held(o)' = Held(o) \ {f} BY <1>1, <1>3 DEF Held
  <1>5. ASSUME NEW d \in Owners \ {o} PROVE Held(d)' = Held(d)
    BY <1>1, <1>3 DEF Held
  <1>6. \A g \in Free' : tuned'[g] = {} BY <1>1, <1>2 DEF TypeOK, Free
  <1>7. owner' \in [Fds -> Owners \cup {Nobody}] BY <1>1 DEF TypeOK
  <1>8. tuned' \in [Fds -> SUBSET Clients] BY <1>2 DEF TypeOK
  <1> QED BY <1>4, <1>5, <1>6, <1>7, <1>8

\* Opening one gives it to the opener and takes it from nobody.
LEMMA OpensFree ==
  ASSUME TypeOK, NEW o \in Owners, NEW f \in Fds, Opens(o, f), UNCHANGED tuned
  PROVE  /\ Held(o)' = Held(o) \cup {f}
         /\ \A d \in Owners \ {o} : Held(d)' = Held(d)
         /\ owner' \in [Fds -> Owners \cup {Nobody}]
         /\ \A g \in Free' : tuned'[g] = {}
  <1>1. owner' = [owner EXCEPT ![f] = o] /\ owner[f] = Nobody
    BY DEF Opens, Free
  <1>2. Nobody \notin Owners /\ owner \in [Fds -> Owners \cup {Nobody}]
    BY OwnersAssumption DEF TypeOK
  <1>3. Held(o)' = Held(o) \cup {f} BY <1>1, <1>2 DEF Held
  <1>4. ASSUME NEW d \in Owners \ {o} PROVE Held(d)' = Held(d)
    BY <1>1, <1>2 DEF Held
  <1>5. \A g \in Free' : tuned'[g] = {} BY <1>1, <1>2 DEF TypeOK, Free
  <1>6. owner' \in [Fds -> Owners \cup {Nobody}] BY <1>1, <1>2
  <1> QED BY <1>3, <1>4, <1>5, <1>6

\* A client is a holder of descriptors.
LEMMA ClientsAreOwners == Clients \subseteq Owners
  BY HoldersAssumption

-----------------------------------------------------------------------------
(* Three shapes of step: the descriptors alone, one closed, one opened *)

LEMMA QuietStep ==
  ASSUME HoldInv, UNCHANGED <<owner, tuned>>, ObjectsOK', ConnectState',
         \A d \in Clients : Needs(d)' = Needs(d)
  PROVE  HoldInv'
  <1>1. \A o : Held(o)' = Held(o) BY DEF Held
  <1>2. HoldsWhatItNeeds' BY <1>1 DEF HoldInv, HoldsWhatItNeeds
  <1>3. Free' = Free BY DEF Free
  <1>4. TypeOK' BY <1>3 DEF HoldInv, TypeOK, ObjectsOK, Labels
  <1> QED BY <1>2, <1>4 DEF HoldInv

LEMMA ClosingStep ==
  ASSUME HoldInv, NEW c \in Clients, Needs(c) # {}, CloseFd(sock[c]),
         ObjectsOK', ConnectState', Needs(c)' = {},
         \A d \in Clients \ {c} : Needs(d)' = Needs(d)
  PROVE  HoldInv'
  <1>1. sock[c] \in Fds /\ owner[sock[c]] = c /\ Needs(c) = {sock[c]} BY OwnsItsSocket
  <1>2. TypeOK /\ HoldsWhatItNeeds BY DEF HoldInv
  <1>3. c \in Owners BY ClientsAreOwners
  <1>4. /\ Held(c)' = Held(c) \ {sock[c]}
        /\ \A d \in Owners \ {c} : Held(d)' = Held(d)
        /\ owner' \in [Fds -> Owners \cup {Nobody}]
        /\ tuned' \in [Fds -> SUBSET Clients]
        /\ \A g \in Free' : tuned'[g] = {}
    BY <1>1, <1>2, <1>3, ClosesOwn
  <1>5. Held(c)' = Needs(c)' BY <1>1, <1>2, <1>4 DEF HoldsWhatItNeeds
  <1>6. ASSUME NEW d \in Clients \ {c} PROVE Held(d)' = Needs(d)'
    BY <1>2, <1>4, <1>6, ClientsAreOwners DEF HoldsWhatItNeeds
  <1>7. HoldsWhatItNeeds' BY <1>5, <1>6 DEF HoldsWhatItNeeds
  <1>8. TypeOK' BY <1>4 DEF TypeOK, ObjectsOK, Labels
  <1> QED BY <1>7, <1>8 DEF HoldInv

LEMMA OpeningStep ==
  ASSUME HoldInv, NEW c \in Clients, NEW f \in Fds, Needs(c) = {}, Opens(c, f), UNCHANGED tuned,
         ObjectsOK', ConnectState', Needs(c)' = {f},
         \A d \in Clients \ {c} : Needs(d)' = Needs(d)
  PROVE  HoldInv'
  <1>1. TypeOK /\ HoldsWhatItNeeds BY DEF HoldInv
  <1>2. c \in Owners BY ClientsAreOwners
  <1>3. /\ Held(c)' = Held(c) \cup {f}
        /\ \A d \in Owners \ {c} : Held(d)' = Held(d)
        /\ owner' \in [Fds -> Owners \cup {Nobody}]
        /\ \A g \in Free' : tuned'[g] = {}
    BY <1>1, <1>2, OpensFree
  <1>4. Held(c)' = Needs(c)' BY <1>1, <1>3 DEF HoldsWhatItNeeds
  <1>5. ASSUME NEW d \in Clients \ {c} PROVE Held(d)' = Needs(d)'
    BY <1>1, <1>3, <1>5, ClientsAreOwners DEF HoldsWhatItNeeds
  <1>6. HoldsWhatItNeeds' BY <1>4, <1>5 DEF HoldsWhatItNeeds
  <1>7. TypeOK' BY <1>1, <1>3 DEF TypeOK, ObjectsOK, Labels
  <1> QED BY <1>6, <1>7 DEF HoldInv

-----------------------------------------------------------------------------
(* One lemma per operation *)

\* Disconnect, the destructor and a Connect that finds the object connected
LEMMA DropKeeps ==
  ASSUME HoldInv, NEW c \in Clients, pc[c] = "idle", NEW label \in Labels \ {"socket", "connect", "close"},
         pc' = [pc EXCEPT ![c] = label],
         IF status[c] = "CONNECTED" THEN Drop(c) ELSE UNCHANGED <<owner, tuned, status, sock>>,
         UNCHANGED <<info, addrs, ret>>
  PROVE  HoldInv'
  <1>1. TypeOK /\ ConnectState /\ INVALID_SOCKET \in FdValue
    BY DEF HoldInv, FdValue
  <1>2. CASE status[c] = "CONNECTED"
    <2>1. /\ status' = [status EXCEPT ![c] = "DISCONNECTED"]
          /\ sock' = [sock EXCEPT ![c] = INVALID_SOCKET]
          /\ CloseFd(sock[c])
      BY <1>2 DEF Drop
    <2>2. ObjectsOK' BY <1>1, <2>1 DEF TypeOK, ObjectsOK, Labels
    <2>3. ConnectState' BY <1>1, <2>1 DEF ConnectState, AddrInfoFreed, ConnectReport, TypeOK
    <2>4. Needs(c) # {} BY <1>2 DEF Needs
    <2>5. Needs(c)' = {} BY <1>1, <2>1 DEF Needs, TypeOK
    <2>6. \A d \in Clients \ {c} : Needs(d)' = Needs(d) BY <1>1, <2>1 DEF Needs, TypeOK
    <2> QED BY <2>1, <2>2, <2>3, <2>4, <2>5, <2>6, ClosingStep
  <1>3. CASE status[c] # "CONNECTED"
    <2>1. UNCHANGED <<owner, tuned, status, sock>> BY <1>3
    <2>2. ObjectsOK' BY <1>1, <2>1 DEF TypeOK, ObjectsOK, Labels
    <2>3. ConnectState' BY <1>1, <1>3, <2>1 DEF ConnectState, AddrInfoFreed, ConnectReport, TypeOK
    <2>4. \A d \in Clients : Needs(d)' = Needs(d) BY <1>1, <2>1 DEF Needs, TypeOK
    <2> QED BY <2>1, <2>2, <2>3, <2>4, QuietStep
  <1> QED BY <1>2, <1>3

LEMMA ConnectStepKeeps ==
  ASSUME HoldInv, NEW c \in Clients, ConnectStep(c)
  PROVE  HoldInv'
  <1>1. TypeOK /\ ConnectState /\ INVALID_SOCKET \in FdValue /\ Fds \subseteq FdValue
    BY DEF HoldInv, FdValue
  <1>2. pc[c] # "idle" /\ status[c] = "DISCONNECTED"
    BY <1>1 DEF ConnectStep, ConnectState, ResolveFails, Resolve, MakeSocket,
                MakeSocketFails, ConnectOk, Refused, CloseRefused, GiveUp
  <1>3. MaxAddrs \in Nat \ {0} BY AddrsAssumption
  <1> USE DEF Goto, Returns, FreeInfo, Labels
  <1>4. CASE ResolveFails(c) \/ GiveUp(c)
    <2>1. /\ UNCHANGED <<owner, tuned, status, sock, addrs>> /\ pc[c] \in {"getaddrinfo", "socket"}
          /\ pc' = [pc EXCEPT ![c] = "idle"] /\ info' = [info EXCEPT ![c] = FALSE]
          /\ ret' = [ret EXCEPT ![c] = FALSE]
      BY <1>4 DEF ResolveFails, GiveUp
    <2>2. ObjectsOK' BY <1>1, <2>1 DEF TypeOK, ObjectsOK
    <2>3. ConnectState' BY <1>1, <2>1 DEF ConnectState, AddrInfoFreed, ConnectReport, TypeOK
    <2>4. \A d \in Clients : Needs(d)' = Needs(d) BY <1>1, <1>2, <2>1 DEF Needs, TypeOK
    <2> QED BY <2>1, <2>2, <2>3, <2>4, QuietStep
  <1>5. CASE Resolve(c)
    <2>1. /\ UNCHANGED <<owner, tuned, status, sock, ret>> /\ pc[c] = "getaddrinfo"
          /\ pc' = [pc EXCEPT ![c] = "socket"] /\ info' = [info EXCEPT ![c] = TRUE]
          /\ \E n \in 1..MaxAddrs : addrs' = [addrs EXCEPT ![c] = n]
      BY <1>5 DEF Resolve
    <2>2. ObjectsOK' BY <1>1, <1>3, <2>1 DEF TypeOK, ObjectsOK
    <2>3. ConnectState' BY <1>1, <1>2, <2>1 DEF ConnectState, AddrInfoFreed, ConnectReport, TypeOK
    <2>4. \A d \in Clients : Needs(d)' = Needs(d) BY <1>1, <1>2, <2>1 DEF Needs, TypeOK
    <2> QED BY <2>1, <2>2, <2>3, <2>4, QuietStep
  <1>6. CASE MakeSocket(c)
    <2>1. PICK f \in Fds : Opens(c, f) /\ sock' = [sock EXCEPT ![c] = f]
      BY <1>6 DEF MakeSocket
    <2>2. /\ UNCHANGED <<tuned, status, info, addrs, ret>> /\ pc[c] = "socket"
          /\ addrs[c] > 0 /\ pc' = [pc EXCEPT ![c] = "connect"]
      BY <1>6 DEF MakeSocket, MoreAddrs
    <2>3. ObjectsOK' BY <1>1, <2>1, <2>2 DEF TypeOK, ObjectsOK
    <2>4. ConnectState' BY <1>1, <1>2, <2>2 DEF ConnectState, AddrInfoFreed, ConnectReport, TypeOK
    <2>5. Needs(c) = {} BY <1>2, <2>2 DEF Needs
    <2>6. Needs(c)' = {f} BY <1>1, <2>1, <2>2 DEF Needs, TypeOK
    <2>7. \A d \in Clients \ {c} : Needs(d)' = Needs(d)
      BY <1>1, <2>1, <2>2 DEF Needs, TypeOK
    <2> QED BY <2>1, <2>2, <2>3, <2>4, <2>5, <2>6, <2>7, OpeningStep
  <1>7. CASE MakeSocketFails(c)
    <2>1. /\ UNCHANGED <<owner, tuned, pc, status, info, ret>> /\ pc[c] = "socket"
          /\ sock' = [sock EXCEPT ![c] = INVALID_SOCKET]
          /\ addrs[c] > 0 /\ addrs' = [addrs EXCEPT ![c] = @ - 1]
      BY <1>7 DEF MakeSocketFails, MoreAddrs, NextAddr
    <2>2. ObjectsOK' BY <1>1, <1>3, <2>1 DEF TypeOK, ObjectsOK
    <2>3. ConnectState' BY <1>1, <2>1 DEF ConnectState, AddrInfoFreed, ConnectReport
    <2>4. \A d \in Clients : Needs(d)' = Needs(d) BY <1>1, <1>2, <2>1 DEF Needs, TypeOK
    <2> QED BY <2>1, <2>2, <2>3, <2>4, QuietStep
  <1>8. CASE ConnectOk(c)
    <2>1. /\ UNCHANGED <<owner, tuned, sock, addrs>> /\ pc[c] = "connect"
          /\ status' = [status EXCEPT ![c] = "CONNECTED"]
          /\ pc' = [pc EXCEPT ![c] = "idle"] /\ info' = [info EXCEPT ![c] = FALSE]
          /\ ret' = [ret EXCEPT ![c] = TRUE]
      BY <1>8 DEF ConnectOk
    <2>2. ObjectsOK' BY <1>1, <2>1 DEF TypeOK, ObjectsOK
    <2>3. ConnectState' BY <1>1, <2>1 DEF ConnectState, AddrInfoFreed, ConnectReport, TypeOK
    <2>4. \A d \in Clients : Needs(d)' = Needs(d) BY <1>1, <2>1 DEF Needs, TypeOK
    <2> QED BY <2>1, <2>2, <2>3, <2>4, QuietStep
  <1>9. CASE Refused(c)
    <2>1. /\ UNCHANGED <<owner, tuned, status, sock, info, addrs, ret>> /\ pc[c] = "connect"
          /\ pc' = [pc EXCEPT ![c] = "close"]
      BY <1>9 DEF Refused
    <2>2. ObjectsOK' BY <1>1, <2>1 DEF TypeOK, ObjectsOK
    <2>3. ConnectState' BY <1>1, <1>2, <2>1 DEF ConnectState, AddrInfoFreed, ConnectReport, TypeOK
    <2>4. \A d \in Clients : Needs(d)' = Needs(d) BY <1>1, <2>1 DEF Needs, TypeOK
    <2> QED BY <2>1, <2>2, <2>3, <2>4, QuietStep
  <1>10. CASE CloseRefused(c)
    <2>1. /\ UNCHANGED <<status, sock, info, ret>> /\ pc[c] = "close" /\ CloseFd(sock[c])
          /\ pc' = [pc EXCEPT ![c] = "socket"] /\ addrs' = [addrs EXCEPT ![c] = @ - 1]
      BY <1>10 DEF CloseRefused, NextAddr
    <2>2. ObjectsOK' BY <1>1, <1>3, <2>1 DEF TypeOK, ObjectsOK, ConnectState
    <2>3. ConnectState' BY <1>1, <1>2, <2>1 DEF ConnectState, AddrInfoFreed, ConnectReport, TypeOK
    <2>4. Needs(c) # {} BY <2>1 DEF Needs
    <2>5. Needs(c)' = {} BY <1>1, <1>2, <2>1 DEF Needs, TypeOK
    <2>6. \A d \in Clients \ {c} : Needs(d)' = Needs(d) BY <1>1, <2>1 DEF Needs, TypeOK
    <2> QED BY <2>1, <2>2, <2>3, <2>4, <2>5, <2>6, ClosingStep
  <1> QED BY <1>4, <1>5, <1>6, <1>7, <1>8, <1>9, <1>10 DEF ConnectStep

\* The setters open and close nothing, and an application that calls them on
\* a connected object only reaches a descriptor of that object.
LEMMA SetTimeoutKeeps ==
  ASSUME HoldInv, NEW c \in Clients, SetTimeout(c)
  PROVE  HoldInv'
  <1>1. /\ UNCHANGED <<owner, pc, status, sock, info, addrs, ret>>
        /\ sock[c] \in Fds /\ owner[sock[c]] # Nobody
        /\ tuned' = [tuned EXCEPT ![sock[c]] = @ \cup {c}]
    BY DEF SetTimeout, clientVars
  <1>2. HoldsWhatItNeeds' BY <1>1 DEF HoldInv, HoldsWhatItNeeds, Held, Needs
  <1>3. ConnectState' BY <1>1 DEF HoldInv, ConnectState, AddrInfoFreed, ConnectReport
  <1>4. tuned' \in [Fds -> SUBSET Clients] BY <1>1 DEF HoldInv, TypeOK
  <1>5. \A f \in Free' : tuned'[f] = {} BY <1>1 DEF HoldInv, TypeOK, Free
  <1>6. TypeOK' BY <1>1, <1>4, <1>5 DEF HoldInv, TypeOK
  <1> QED BY <1>2, <1>3, <1>6 DEF HoldInv

LEMMA CreateKeeps ==
  ASSUME HoldInv, NEW c \in Clients, Create(c)
  PROVE  HoldInv'
  <1>1. /\ UNCHANGED <<owner, tuned, addrs, ret>> /\ pc[c] = "dead"
        /\ pc' = [pc EXCEPT ![c] = "idle"]
        /\ status' = [status EXCEPT ![c] = "DISCONNECTED"]
        /\ sock' = [sock EXCEPT ![c] = INVALID_SOCKET]
        /\ info' = [info EXCEPT ![c] = FALSE]
    BY DEF Create, Goto
  <1>2. TypeOK /\ ConnectState /\ INVALID_SOCKET \in FdValue BY DEF HoldInv, FdValue
  <1>3. ObjectsOK' BY <1>1, <1>2 DEF TypeOK, ObjectsOK, Labels
  <1>4. ConnectState' BY <1>1, <1>2 DEF ConnectState, AddrInfoFreed, ConnectReport, TypeOK
  <1>5. \A d \in Clients : Needs(d)' = Needs(d)
    BY <1>1, <1>2 DEF Needs, TypeOK, ConnectState
  <1> QED BY <1>1, <1>3, <1>4, <1>5, QuietStep

LEMMA OtherStepKeeps ==
  ASSUME HoldInv, NEW o \in Others, OtherOpens(o) \/ OtherCloses(o)
  PROVE  HoldInv'
  <1>1. UNCHANGED clientVars BY DEF OtherOpens, OtherCloses
  <1>2. UNCHANGED <<pc, status, sock, info, addrs, ret>> BY <1>1 DEF clientVars
  <1>3. o \in Owners /\ \A d \in Clients : d \in Owners \ {o} BY HoldersAssumption
  <1>4. TypeOK /\ HoldsWhatItNeeds /\ ConnectState BY DEF HoldInv
  <1>5. /\ \A d \in Owners \ {o} : Held(d)' = Held(d)
        /\ owner' \in [Fds -> Owners \cup {Nobody}]
        /\ tuned' \in [Fds -> SUBSET Clients]
        /\ \A f \in Free' : tuned'[f] = {}
    <2>1. CASE OtherOpens(o)
      <3>1. PICK f \in Fds : Opens(o, f) BY <2>1 DEF OtherOpens
      <3>2. UNCHANGED tuned BY <2>1 DEF OtherOpens
      <3>3. tuned' \in [Fds -> SUBSET Clients] BY <1>4, <3>2 DEF TypeOK
      <3> QED BY <1>3, <1>4, <3>1, <3>2, <3>3, OpensFree
    <2>2. CASE OtherCloses(o)
      <3>1. PICK f \in Held(o) : CloseFd(f) BY <2>2 DEF OtherCloses
      <3>2. f \in Fds /\ owner[f] = o BY <3>1 DEF Held
      <3> QED BY <1>3, <1>4, <3>1, <3>2, ClosesOwn
    <2> QED BY <2>1, <2>2
  <1>6. HoldsWhatItNeeds'
    <2> SUFFICES ASSUME NEW d \in Clients PROVE Held(d)' = Needs(d)'
      BY DEF HoldsWhatItNeeds
    <2>1. Held(d)' = Held(d) BY <1>3, <1>5
    <2>2. Needs(d)' = Needs(d) BY <1>2 DEF Needs
    <2> QED BY <1>4, <2>1, <2>2 DEF HoldsWhatItNeeds
  <1>7. TypeOK' BY <1>2, <1>4, <1>5 DEF TypeOK
  <1>8. ConnectState' BY <1>2, <1>4 DEF ConnectState, AddrInfoFreed, ConnectReport
  <1> QED BY <1>6, <1>7, <1>8 DEF HoldInv

-----------------------------------------------------------------------------
(* The theorems *)

LEMMA HoldInit == Init => HoldInv
  <1> SUFFICES ASSUME Init PROVE HoldInv OBVIOUS
  <1>1. owner = [f \in Fds |-> Nobody] BY DEF Init, DescriptorsInit
  <1>2. \A c \in Clients : Held(c) = {} BY <1>1, HoldersAssumption, OwnersAssumption DEF Held
  <1>3. \A c \in Clients : Needs(c) = {} BY DEF Init, Needs
  <1>4. INVALID_SOCKET \in FdValue BY DEF FdValue
  <1>5. 0 \in 0..MaxAddrs BY AddrsAssumption
  <1>6. TypeOK BY <1>1, <1>4, <1>5 DEF Init, TypeOK, Free
  <1>7. ConnectState BY DEF Init, ConnectState, AddrInfoFreed, ConnectReport
  <1> QED BY <1>2, <1>3, <1>6, <1>7 DEF HoldInv, HoldsWhatItNeeds

LEMMA HoldStep == HoldInv /\ [Next]_vars => HoldInv'
  <1> SUFFICES ASSUME HoldInv, [Next]_vars PROVE HoldInv' OBVIOUS
  <1>1. ASSUME NEW c \in Clients, ClientStep(c) PROVE HoldInv'
    <2>1. pc \in [Clients -> Labels] BY DEF HoldInv, TypeOK, Labels
    <2>2. CASE Connect(c)
      BY <2>2, DropKeeps DEF Connect, Goto, Labels
    <2>3. CASE ConnectStep(c) BY <2>3, ConnectStepKeeps
    <2>4. CASE Disconnect(c)
      <3>1. pc[c] = "idle" /\ pc' = [pc EXCEPT ![c] = "idle"] BY <2>1, <2>4 DEF Disconnect
      <3> QED BY <2>4, <3>1, DropKeeps DEF Disconnect, Labels
    <2>5. CASE SetTimeout(c) BY <2>5, SetTimeoutKeeps
    <2>6. CASE Destroy(c)
      BY <2>6, DropKeeps DEF Destroy, Goto, Labels
    <2>7. CASE Create(c) BY <2>7, CreateKeeps
    <2> QED BY <1>1, <2>2, <2>3, <2>4, <2>5, <2>6, <2>7 DEF ClientStep
  <1>2. ASSUME NEW o \in Others, OtherOpens(o) \/ OtherCloses(o) PROVE HoldInv'
    BY <1>2, OtherStepKeeps
  <1>3. CASE UNCHANGED vars
    <2>1. UNCHANGED <<owner, tuned, pc, status, sock, info, addrs, ret>>
      BY <1>3 DEF vars, clientVars
    <2> QED BY <2>1 DEF HoldInv, TypeOK, Free, HoldsWhatItNeeds, Held, Needs,
                        ConnectState, AddrInfoFreed, ConnectReport
  <1> QED BY <1>1, <1>2, <1>3 DEF Next

\* The inductive invariant holds in every state of the clients, on every path of
\* Connect, Disconnect and the destructor (TCPClient.cpp:98-423).
THEOREM HoldAlways == Spec => []HoldInv
  <1> QED BY HoldInit, HoldStep, PTL DEF Spec

\* Every variable keeps its type and a closed descriptor has no options.
THEOREM ClientTypes == Spec => []TypeOK
  <1>1. HoldInv => TypeOK BY DEF HoldInv
  <1> QED BY <1>1, HoldAlways, PTL

\* No path of Connect, Disconnect or the destructor (TCPClient.cpp:244-280,
\* 386-423) leaks a descriptor or keeps one that is not the object's own.
THEOREM ClientHoldsItsOwn == Spec => []HoldsWhatItNeeds
  <1>1. HoldInv => HoldsWhatItNeeds BY DEF HoldInv
  <1> QED BY <1>1, HoldAlways, PTL

\* No path of Connect leaks the list of getaddrinfo or frees it twice.
THEOREM ClientFreesAddrInfo == Spec => []AddrInfoFreed
  <1>1. HoldInv => AddrInfoFreed BY DEF HoldInv, ConnectState
  <1> QED BY <1>1, HoldAlways, PTL

\* An object says it is connected only when its last Connect returned true.
THEOREM ClientReportsTruly == Spec => []ConnectReport
  <1>1. HoldInv => ConnectReport BY DEF HoldInv, ConnectState
  <1> QED BY <1>1, HoldAlways, PTL

-----------------------------------------------------------------------------
(* A client and the descriptors of others *)

LEMMA ClientKeepsOff ==
  ASSUME HoldInv, CarefulCaller, NEW c \in Clients, ClientStep(c),
         NEW f \in Fds, owner[f] \notin {c, Nobody}
  PROVE  owner'[f] = owner[f] /\ tuned'[f] = tuned[f]
  <1>1. owner \in [Fds -> Owners \cup {Nobody}] /\ tuned \in [Fds -> SUBSET Clients]
    BY DEF HoldInv, TypeOK
  <1>2. status[c] = "CONNECTED" \/ pc[c] = "close" => sock[c] # f
    <2> SUFFICES ASSUME status[c] = "CONNECTED" \/ pc[c] = "close" PROVE sock[c] # f
      OBVIOUS
    <2>1. Needs(c) # {} BY DEF Needs
    <2> QED BY <2>1, OwnsItsSocket
  <1>3. CASE UNCHANGED <<owner, tuned>> BY <1>3
  <1>4. CASE CloseFd(sock[c]) /\ sock[c] # f
    BY <1>1, <1>4 DEF CloseFd, Closes
  <1>5. CASE SetTimeout(c)
    BY <1>1, <1>2, <1>5 DEF SetTimeout
  <1>6. CASE MakeSocket(c)
    BY <1>1, <1>6 DEF MakeSocket, Opens, Free
  <1>7. CASE Connect(c) \/ Disconnect(c) \/ Destroy(c)
    BY <1>2, <1>3, <1>4, <1>7 DEF Connect, Disconnect, Destroy, Drop
  <1>8. CASE CloseRefused(c)
    BY <1>2, <1>4, <1>8 DEF CloseRefused
  <1>9. CASE \/ ResolveFails(c) \/ Resolve(c) \/ MakeSocketFails(c) \/ ConnectOk(c)
             \/ Refused(c) \/ GiveUp(c) \/ Create(c)
    BY <1>3, <1>9 DEF ResolveFails, Resolve, MakeSocketFails, ConnectOk, Refused, GiveUp, Create
  <1> QED BY <1>5, <1>6, <1>7, <1>8, <1>9 DEF ClientStep, ConnectStep

\* A client closes no descriptor of another holder and sets no timeout on
\* one, as long as the application calls the setters on connected objects.
THEOREM ClientLeavesOthersAlone ==
  ASSUME CarefulCaller
  PROVE  Spec => OthersUntouched
  <1>1. HoldInv /\ [Next]_vars =>
          [\A c \in Clients : ClientStep(c) =>
             \A f \in Fds : owner[f] \notin {c, Nobody} =>
               owner'[f] = owner[f] /\ tuned'[f] = tuned[f]]_vars
    BY ClientKeepsOff
  <1> QED BY <1>1, HoldAlways, PTL DEF Spec, OthersUntouched

-----------------------------------------------------------------------------
(* A TLS client is a TCP client *)

LEMMA TLSStepIsTCPStep == [SSLNext]_allVars => [Next]_vars
  <1> SUFFICES ASSUME [SSLNext]_allVars PROVE [Next]_vars OBVIOUS
  <1>1. ASSUME NEW c \in SSLClients, SSLClientStep(c) PROVE [Next]_vars
    <2>1. c \in Clients BY SSLClientsAssumption DEF SSLClients
    <2>2. CASE \/ SSLConnect(c) \/ TCPConnectStep(c) \/ SSLDisconnect(c) \/ SSLSetTimeout(c)
               \/ SSLDestroy(c) \/ SSLCreate(c)
      <3>1. ClientStep(c)
        BY <2>2
        DEF SSLConnect, TCPConnectStep, SSLDisconnect, SSLSetTimeout, SSLDestroy, SSLCreate, ClientStep
      <3> QED BY <2>1, <3>1 DEF Next
    <2>3. CASE SetUpCtxClient(c) \/ LoadFails(c) \/ MakeSession(c) \/ Handshake(c)
      BY <2>3 DEF SetUpCtxClient, LoadFails, MakeSession, Handshake
    <2> QED BY <1>1, <2>2, <2>3 DEF SSLClientStep
  <1>2. CASE PlainStep BY <1>2 DEF PlainStep, Next
  <1>3. CASE UNCHANGED allVars BY <1>3 DEF allVars
  <1> QED BY <1>1, <1>2, <1>3 DEF SSLNext

\* Whatever the TLS part of Connect does and wherever it fails, the m_TCPClient
\* in it only ever does what a CTCPClient does (TCPSSLClient.cpp:38-153).
THEOREM TLSClientIsTCPClient == SSLSpec => Spec
  <1>1. SSLClientInit => Init BY DEF SSLClientInit
  <1> QED BY <1>1, TLSStepIsTCPStep, PTL DEF SSLSpec, Spec

\* So no path of the TLS Connect leaks a descriptor either, or keeps one that
\* is not the object's own.
THEOREM TLSClientHoldsItsOwn == SSLSpec => []HoldsWhatItNeeds
  BY TLSClientIsTCPClient, ClientHoldsItsOwn, PTL

\* Nor does it touch the descriptors of others.
THEOREM TLSClientLeavesOthersAlone ==
  ASSUME CarefulCaller
  PROVE  SSLSpec => OthersUntouched
  BY TLSClientIsTCPClient, ClientLeavesOthersAlone, PTL

-----------------------------------------------------------------------------
(* The inductive invariant *)

\* Disconnect or the rest of Connect would free m_pCTXSSL
MayFree(c) == pSSL[c] # 0 \/ tls[c] = "load"

\* the pointers of one structure
Sound(c) ==
  /\ pSSL[c] # 0 => pSSL[c] \in Sessions /\ pCTX[c] \in ctxs \cup {0}
  /\ tls[c] = "load" => pCTX[c] \in ctxs \ Sessions

\* two structures share no session, and no context both would free
Apart(c, d) ==
  /\ pSSL[c] # 0 /\ pSSL[d] # 0 => pSSL[c] # pSSL[d]
  /\ MayFree(c) /\ MayFree(d) => pCTX[c] # pCTX[d] \/ pCTX[c] = 0

PtrsOK ==
  \A c \in SSLClients : Sound(c) /\ \A d \in SSLClients \ {c} : Apart(c, d)

\* a Connect that made its session has it
HasMade(c) ==
  tls[c] = "handshake" \/ (tls[c] = "idle" /\ sslRet[c] /\ status[c] = "CONNECTED")
    => pSSL[c] # 0

SessionInv ==
  HoldInv /\ SSLPartTypeOK /\ PtrsOK /\ \A c \in SSLClients : HasMade(c)

TLSLabels == {"idle", "tcp", "ctx", "load", "handshake"}

\* where the TLS part of one Connect may stand
StandsOK(c) ==
  /\ tls[c] \in {"ctx", "load", "handshake"} => status[c] = "CONNECTED"
  /\ tls[c] # "tcp" => pc[c] \in {"idle", "dead"}

LEMMA SessionInit == SSLClientInit => SessionInv
  <1> SUFFICES ASSUME SSLClientInit PROVE SessionInv OBVIOUS
  <1>1. HoldInv BY HoldInit DEF SSLClientInit
  <1>2. Slots \subseteq Clients /\ MaxCtx \in Nat /\ NoSession \in FdValue
    BY SSLClientsAssumption, CtxAssumption DEF NoSession, FdValue, INVALID_SOCKET
  <1>3. SSLPartTypeOK
    BY <1>2 DEF SSLClientInit, SSLInit, Init, SSLPartTypeOK, SSLTypeOK, SSLClients, Ctxs
  <1>4. \A c \in SSLClients : pSSL[c] = 0 /\ tls[c] = "idle" /\ sslRet[c] = FALSE
    BY DEF SSLClientInit, SSLInit, SSLClients
  <1>5. PtrsOK BY <1>4 DEF PtrsOK, Sound, Apart, MayFree
  <1> QED BY <1>1, <1>3, <1>4, <1>5 DEF SessionInv, HasMade

\* what the lemmas below know of a client and its structure
LEMMA SessionFacts ==
  ASSUME SessionInv, NEW c \in SSLClients
  PROVE  /\ c \in Clients
         /\ pSSL \in [SSLClients -> 0..MaxCtx] /\ pCTX \in [SSLClients -> 0..MaxCtx]
         /\ ctxs \subseteq Ctxs /\ session \in [Ctxs -> FdValue]
         /\ tls \in [SSLClients -> TLSLabels] /\ sslRet \in [SSLClients -> BOOLEAN]
         /\ status \in [Clients -> {"CONNECTED", "DISCONNECTED"}]
         /\ sock \in [Clients -> FdValue] /\ pc \in [Clients -> Labels]
         /\ ret \in [Clients -> BOOLEAN]
         /\ StandsOK(c) /\ Sound(c) /\ HasMade(c)
         /\ pc[c] # "idle" => status[c] = "DISCONNECTED"
  BY SSLClientsAssumption
  DEF SessionInv, SSLPartTypeOK, SSLTypeOK, SSLClients, HoldInv, TypeOK, Labels, ConnectState,
      PtrsOK, StandsOK, TLSLabels

\* A connected client holds its descriptor.
LEMMA HoldsItsSocket ==
  ASSUME HoldInv, NEW c \in SSLClients, status[c] = "CONNECTED"
  PROVE  sock[c] \in Held(c) /\ sock[c] \in Fds
  <1>1. c \in Clients /\ Needs(c) # {} BY SSLClientsAssumption DEF SSLClients, Needs
  <1> QED BY <1>1, OwnsItsSocket DEF Held

\* A step of one client is seen by no other.
LEMMA OneClientMoves ==
  ASSUME HoldInv, NEW c \in Clients, ClientStep(c), NEW d \in Clients, d # c
  PROVE  status'[d] = status[d] /\ sock'[d] = sock[d] /\ pc'[d] = pc[d]
  <1>1. HoldInv => /\ status \in [Clients -> {"CONNECTED", "DISCONNECTED"}]
                   /\ sock \in [Clients -> FdValue] /\ pc \in [Clients -> Labels]
    BY DEF HoldInv, TypeOK, Labels
  <1>2. CASE ConnectStep(c)
    BY <1>1, <1>2
    DEF ConnectStep, ResolveFails, Resolve, MakeSocket, MakeSocketFails, ConnectOk, Refused,
        CloseRefused, GiveUp, Returns, Goto
  <1>3. CASE Connect(c) \/ Disconnect(c) \/ SetTimeout(c) \/ Destroy(c) \/ Create(c)
    BY <1>1, <1>3 DEF Connect, Disconnect, SetTimeout, Destroy, Create, Drop, Goto, clientVars
  <1> QED BY <1>2, <1>3 DEF ClientStep

\* the same of the TLS part
Stays(d) ==
  /\ tls'[d] = tls[d] /\ sslRet'[d] = sslRet[d]
  /\ pSSL'[d] = pSSL[d] /\ pCTX'[d] = pCTX[d]
  /\ status'[d] = status[d] /\ sock'[d] = sock[d] /\ pc'[d] = pc[d]

LEMMA OthersStay ==
  ASSUME SessionInv, NEW c \in SSLClients, SSLClientStep(c), NEW d \in SSLClients, d # c
  PROVE  Stays(d)
  <1>1. c \in Clients /\ d \in Clients BY SessionFacts
  <1>2. pSSL'[d] = pSSL[d] /\ pCTX'[d] = pCTX[d]
    <2>1. CASE UNCHANGED sslVars BY <2>1 DEF sslVars
    <2>2. CASE NewCtx(c) \/ NewCtxFails(c) \/ Forget(c) \/ ShutdownSSL(c)
      BY <2>2, SessionFacts DEF NewCtx, NewCtxFails, Forget, ShutdownSSL, SetPtr, sslVars
    <2>3. CASE NewSession(c, sock[c]) BY <2>3, SessionFacts DEF NewSession, SetPtr
    <2> QED BY <2>1, <2>2, <2>3
        DEF SSLClientStep, SSLConnect, TCPConnectStep, SetUpCtxClient, LoadFails, MakeSession,
            Handshake, SSLDisconnect, SSLSetTimeout, SSLDestroy, SSLCreate
  <1>3. tls'[d] = tls[d] /\ sslRet'[d] = sslRet[d]
    <2>1. CASE UNCHANGED <<tls, sslRet>> BY <2>1
    <2>2. ASSUME NEW label, GotoTLS(c, label) PROVE tls'[d] = tls[d] /\ sslRet'[d] = sslRet[d]
      BY <2>2, SessionFacts DEF GotoTLS
    <2>3. ASSUME NEW result, ReturnsTLS(c, result)
          PROVE  tls'[d] = tls[d] /\ sslRet'[d] = sslRet[d]
      BY <2>3, SessionFacts DEF ReturnsTLS
    <2> QED BY <2>1, <2>2, <2>3
        DEF SSLClientStep, SSLConnect, TCPConnectStep, SetUpCtxClient, LoadFails, MakeSession,
            Handshake, SSLDisconnect, SSLSetTimeout, SSLDestroy, SSLCreate
  <1>4. status'[d] = status[d] /\ sock'[d] = sock[d] /\ pc'[d] = pc[d]
    <2>1. CASE UNCHANGED vars BY <2>1 DEF vars, clientVars
    <2>2. CASE ClientStep(c) BY <1>1, <2>2, OneClientMoves DEF SessionInv
    <2> QED BY <2>1, <2>2
        DEF SSLClientStep, SSLConnect, TCPConnectStep, SetUpCtxClient, LoadFails, MakeSession,
            Handshake, SSLDisconnect, SSLSetTimeout, SSLDestroy, SSLCreate, ClientStep
  <1> QED BY <1>2, <1>3, <1>4 DEF Stays

\* A step outside the TLS clients leaves them and OpenSSL alone.
LEMMA PlainStays ==
  ASSUME SessionInv, PlainStep \/ UNCHANGED allVars
  PROVE  UNCHANGED <<pSSL, pCTX, ctxs, session, tls, sslRet>> /\ \A d \in SSLClients : Stays(d)
  <1>1. UNCHANGED <<pSSL, pCTX, ctxs, session, tls, sslRet>>
    BY DEF PlainStep, sslVars, allVars
  <1>2. ASSUME NEW c \in Clients \ SSLClients, ClientStep(c), NEW d \in SSLClients
        PROVE  status'[d] = status[d] /\ sock'[d] = sock[d] /\ pc'[d] = pc[d]
    BY <1>2, OneClientMoves, SSLClientsAssumption DEF SessionInv, SSLClients
  <1>3. ASSUME NEW o \in Others, OtherOpens(o) \/ OtherCloses(o)
        PROVE  UNCHANGED <<status, sock, pc>>
    BY <1>3 DEF OtherOpens, OtherCloses, clientVars
  <1>4. UNCHANGED allVars => UNCHANGED <<status, sock, pc>> BY DEF allVars, vars, clientVars
  <1>5. \A d \in SSLClients : status'[d] = status[d] /\ sock'[d] = sock[d] /\ pc'[d] = pc[d]
    BY <1>2, <1>3, <1>4 DEF PlainStep
  <1> QED BY <1>1, <1>5 DEF Stays

-----------------------------------------------------------------------------
(* Types and labels *)

\* SSL_set_fd is given a number, and the OpenSSL heap keeps its types.
LEMMA OpenSSLTypes ==
  ASSUME SessionInv, NEW c \in SSLClients, SSLClientStep(c)
  PROVE  /\ pSSL' \in [SSLClients -> 0..MaxCtx] /\ pCTX' \in [SSLClients -> 0..MaxCtx]
         /\ ctxs' \subseteq Ctxs /\ session' \in [Ctxs -> FdValue]
  <1>1. MaxCtx \in Nat /\ NoSession \in FdValue /\ sock[c] \in FdValue
    BY CtxAssumption, SessionFacts DEF NoSession, FdValue, INVALID_SOCKET
  <1>2. CASE UNCHANGED sslVars BY <1>2, SessionFacts DEF sslVars
  <1>3. CASE NewCtx(c)
    <2>1. PICK k \in Ctxs : pCTX' = [pCTX EXCEPT ![c] = k] /\ ctxs' = ctxs \cup {k}
      BY <1>3 DEF NewCtx, SetPtr
    <2>2. k \in 0..MaxCtx BY <1>1 DEF Ctxs
    <2>3. UNCHANGED <<pSSL, session>> BY <1>3 DEF NewCtx
    <2> QED BY <2>1, <2>2, <2>3, SessionFacts
  <1>4. CASE NewCtxFails(c) \/ Forget(c) \/ ShutdownSSL(c)
    BY <1>1, <1>4, SessionFacts DEF NewCtxFails, Forget, ShutdownSSL, SetPtr, sslVars
  <1>5. CASE NewSession(c, sock[c])
    BY <1>1, <1>5, SessionFacts DEF NewSession, SetPtr
  <1> QED BY <1>2, <1>3, <1>4, <1>5
      DEF SSLClientStep, SSLConnect, TCPConnectStep, SetUpCtxClient, LoadFails, MakeSession,
          Handshake, SSLDisconnect, SSLSetTimeout, SSLDestroy, SSLCreate

\* The TLS part goes on only when the TCP client's Connect returned true.
LEMMA TCPConnected ==
  ASSUME SessionInv, NEW c \in SSLClients, ConnectStep(c), pc[c] # "idle", pc'[c] = "idle", ret'[c]
  PROVE  status'[c] = "CONNECTED"
  <1>1. c \in Clients /\ pc \in [Clients -> Labels] /\ ret \in [Clients -> BOOLEAN]
        /\ status \in [Clients -> {"CONNECTED", "DISCONNECTED"}]
    BY SessionFacts
  <1>2. CASE ConnectOk(c) BY <1>1, <1>2 DEF ConnectOk
  <1>3. CASE ResolveFails(c) \/ GiveUp(c)
    BY <1>1, <1>3 DEF ResolveFails, GiveUp, Returns
  <1>4. CASE Resolve(c) \/ MakeSocket(c) \/ Refused(c) \/ CloseRefused(c)
    BY <1>1, <1>4 DEF Resolve, MakeSocket, Refused, CloseRefused, Goto
  <1>5. CASE MakeSocketFails(c) BY <1>1, <1>5 DEF MakeSocketFails
  <1> QED BY <1>2, <1>3, <1>4, <1>5 DEF ConnectStep

LEMMA LabelsStep ==
  ASSUME SessionInv, NEW c \in SSLClients, SSLClientStep(c)
  PROVE  /\ tls' \in [SSLClients -> TLSLabels] /\ sslRet' \in [SSLClients -> BOOLEAN]
         /\ StandsOK(c)' /\ HasMade(c)'
  <1> USE SessionFacts
  <1>1. CASE SSLConnect(c)
    BY <1>1 DEF SSLConnect, GotoTLS, TLSLabels, StandsOK, HasMade
  <1>2. CASE TCPConnectStep(c)
    <2>1. tls[c] = "tcp" /\ pc[c] # "idle" /\ ConnectStep(c) /\ UNCHANGED pSSL
      BY <1>2
      DEF TCPConnectStep, sslVars, ConnectStep, ResolveFails, Resolve, MakeSocket,
          MakeSocketFails, ConnectOk, Refused, CloseRefused, GiveUp
    <2>2. CASE pc'[c] # "idle"
      BY <1>2, <2>1, <2>2 DEF TCPConnectStep, StandsOK, HasMade
    <2>3. CASE pc'[c] = "idle" /\ ret'[c]
      BY <1>2, <2>1, <2>3, TCPConnected DEF TCPConnectStep, GotoTLS, TLSLabels, StandsOK, HasMade
    <2>4. CASE pc'[c] = "idle" /\ ~ret'[c]
      BY <1>2, <2>1, <2>4 DEF TCPConnectStep, ReturnsTLS, TLSLabels, StandsOK, HasMade
    <2> QED BY <2>2, <2>3, <2>4
  <1>3. CASE SetUpCtxClient(c)
    BY <1>3 DEF SetUpCtxClient, GotoTLS, ReturnsTLS, TLSLabels, StandsOK, HasMade, vars, clientVars
  <1>4. CASE LoadFails(c)
    BY <1>4 DEF LoadFails, ReturnsTLS, TLSLabels, StandsOK, HasMade, vars, clientVars
  <1>5. CASE MakeSession(c)
    <2>1. pSSL'[c] = pCTX[c] /\ pCTX[c] \in ctxs
      BY <1>5 DEF MakeSession, NewSession, SetPtr, Sound
    <2>2. pSSL'[c] # 0 BY <2>1, CtxAssumption DEF Ctxs
    <2> QED BY <1>5, <2>2 DEF MakeSession, GotoTLS, TLSLabels, StandsOK, HasMade, vars, clientVars
  <1>6. CASE Handshake(c)
    BY <1>6
    DEF Handshake, ReturnsTLS, TLSLabels, StandsOK, HasMade, vars, clientVars, sslVars
  <1>7. CASE SSLDisconnect(c) \/ SSLDestroy(c)
    <2>1. tls[c] = "idle" /\ UNCHANGED <<tls, sslRet>> /\ status'[c] = "DISCONNECTED"
          /\ pc'[c] \in {"idle", "dead"}
      BY <1>7 DEF SSLDisconnect, SSLDestroy, Disconnect, Destroy, Drop, Goto
    <2> QED BY <2>1 DEF StandsOK, HasMade
  <1>8. CASE SSLSetTimeout(c)
    BY <1>8 DEF SSLSetTimeout, SetTimeout, StandsOK, HasMade, clientVars, sslVars
  <1>9. CASE SSLCreate(c)
    BY <1>9 DEF SSLCreate, Create, Goto, StandsOK, HasMade
  <1> QED BY <1>1, <1>2, <1>3, <1>4, <1>5, <1>6, <1>7, <1>8, <1>9 DEF SSLClientStep

LEMMA TypesStep ==
  ASSUME SessionInv, [SSLNext]_allVars
  PROVE  SSLPartTypeOK' /\ \A c \in SSLClients : HasMade(c)'
  <1>1. ASSUME NEW c \in SSLClients, SSLClientStep(c)
        PROVE  SSLPartTypeOK' /\ \A d \in SSLClients : HasMade(d)'
    <2>1. ASSUME NEW d \in SSLClients \ {c} PROVE StandsOK(d)' /\ HasMade(d)'
      <3>1. Stays(d) BY <1>1, OthersStay
      <3> QED BY <3>1, SessionFacts DEF Stays, StandsOK, HasMade
    <2>2. \A d \in SSLClients : StandsOK(d)' /\ HasMade(d)'
      BY <1>1, <2>1, LabelsStep
    <2> QED BY <1>1, <2>2, LabelsStep, OpenSSLTypes
        DEF SSLPartTypeOK, SSLTypeOK, StandsOK, TLSLabels, SSLClients
  <1>2. CASE PlainStep \/ UNCHANGED allVars
    <2>1. UNCHANGED <<pSSL, pCTX, ctxs, session, tls, sslRet>> /\ \A d \in SSLClients : Stays(d)
      BY <1>2, PlainStays
    <2> QED BY <2>1 DEF SessionInv, SSLPartTypeOK, SSLTypeOK, HasMade, Stays
  <1> QED BY <1>1, <1>2 DEF SSLNext

-----------------------------------------------------------------------------
(* The pointers *)

\* The structure of one client changes: what the others are to find.
LEMMA OneStructure ==
  ASSUME PtrsOK, NEW c \in SSLClients, Sound(c)',
         \A d \in SSLClients \ {c} : Stays(d) /\ Sound(d)' /\ Apart(c, d)'
  PROVE  PtrsOK'
  <1>1. ASSUME NEW d \in SSLClients \ {c}, NEW e \in SSLClients \ {d} PROVE Apart(d, e)'
    <2>1. CASE e = c
      <3>1. Apart(c, d)' OBVIOUS
      <3> QED BY <2>1, <3>1 DEF Apart
    <2>2. CASE e # c
      <3>1. Apart(d, e) /\ Stays(d) /\ Stays(e) BY <2>2 DEF PtrsOK
      <3> QED BY <3>1 DEF Apart, MayFree, Stays
    <2> QED BY <2>1, <2>2
  <1> QED BY <1>1 DEF PtrsOK

\* a step that makes and frees nothing
LEMMA QuietPtrs ==
  ASSUME SessionInv, NEW c \in SSLClients, SSLClientStep(c),
         UNCHANGED <<pSSL, pCTX, ctxs, session>>, tls'[c] = "load" => tls[c] = "load"
  PROVE  PtrsOK'
  <1>1. Sessions' = Sessions BY DEF Sessions
  <1>2. \A d \in SSLClients \ {c} : Stays(d) BY OthersStay
  <1>3. Sound(c)' BY <1>1, SessionFacts DEF Sound
  <1>4. ASSUME NEW d \in SSLClients \ {c} PROVE Sound(d)' /\ Apart(c, d)'
    <2>1. Stays(d) /\ Sound(d) /\ Apart(c, d) BY <1>2, SessionFacts DEF SessionInv, PtrsOK
    <2> QED BY <1>1, <2>1 DEF Sound, Apart, MayFree, Stays
  <1> QED BY <1>2, <1>3, <1>4, OneStructure DEF SessionInv

LEMMA NewCtxPtrs ==
  ASSUME SessionInv, NEW c \in SSLClients, SetUpCtxClient(c)
  PROVE  PtrsOK'
  <1>1. \A d \in SSLClients \ {c} : Stays(d) BY OthersStay DEF SSLClientStep
  <1>2. UNCHANGED <<pSSL, session>> /\ Sessions' = Sessions
    BY DEF SetUpCtxClient, NewCtx, NewCtxFails, Sessions
  <1>3. CASE NewCtx(c) /\ GotoTLS(c, "load")
    <2>1. PICK k \in Ctxs \ (ctxs \cup Sessions) :
            pCTX' = [pCTX EXCEPT ![c] = k] /\ ctxs' = ctxs \cup {k}
      BY <1>3 DEF NewCtx, SetPtr
    <2>2. pCTX'[c] = k BY <2>1, SessionFacts
    <2>3. Sound(c)' BY <1>2, <2>1, <2>2, SessionFacts DEF Sound
    <2>4. ASSUME NEW d \in SSLClients \ {c} PROVE Sound(d)' /\ Apart(c, d)'
      <3>1. Stays(d) /\ Sound(d) /\ Apart(c, d) BY <1>1, SessionFacts DEF SessionInv, PtrsOK
      <3>2. Sound(d)' BY <1>2, <2>1, <3>1 DEF Sound, Stays
      <3>3. MayFree(d) => pCTX[d] # k
        BY <2>1, <3>1, CtxAssumption DEF Sound, MayFree, Ctxs
      <3>4. Apart(c, d)' BY <1>2, <2>2, <3>1, <3>3 DEF Apart, MayFree, Stays
      <3> QED BY <3>2, <3>4
    <2> QED BY <1>1, <2>3, <2>4, OneStructure DEF SessionInv
  <1>4. CASE NewCtxFails(c) /\ ReturnsTLS(c, FALSE)
    <2>1. tls'[c] = "idle" /\ pCTX'[c] = 0 /\ ctxs' = ctxs
      BY <1>4, SessionFacts DEF NewCtxFails, ReturnsTLS, SetPtr
    <2>2. Sound(c)' BY <1>2, <2>1, SessionFacts DEF Sound
    <2>3. ASSUME NEW d \in SSLClients \ {c} PROVE Sound(d)' /\ Apart(c, d)'
      <3>1. Stays(d) /\ Sound(d) /\ Apart(c, d) BY <1>1, SessionFacts DEF SessionInv, PtrsOK
      <3> QED BY <1>2, <2>1, <3>1 DEF Sound, Apart, MayFree, Stays
    <2> QED BY <1>1, <2>2, <2>3, OneStructure DEF SessionInv
  <1> QED BY <1>3, <1>4 DEF SetUpCtxClient

\* SSL_new and SSL_set_fd make the session of a new context, of nobody else's
LEMMA SessionMadeOf ==
  ASSUME SessionInv, NEW c \in SSLClients, MakeSession(c)
  PROVE  /\ pCTX[c] \in ctxs \ Sessions /\ pCTX[c] \in Ctxs /\ pCTX[c] # 0
         /\ pSSL'[c] = pCTX[c] /\ UNCHANGED <<pCTX, ctxs>> /\ tls'[c] = "handshake"
         /\ session' = [session EXCEPT ![pCTX[c]] = sock[c]] /\ sock[c] \in Held(c)
         /\ Sessions' = Sessions \cup {pCTX[c]}
  <1>1. tls[c] = "load" /\ status[c] = "CONNECTED"
    BY SessionFacts DEF MakeSession, StandsOK
  <1>2. sock[c] \in Held(c) /\ sock[c] \in Fds BY <1>1, HoldsItsSocket DEF SessionInv
  <1>3. pCTX[c] \in ctxs \ Sessions /\ pCTX[c] \in Ctxs /\ pCTX[c] # 0
    BY <1>1, SessionFacts, CtxAssumption DEF Sound, Ctxs
  <1>4. /\ pSSL'[c] = pCTX[c] /\ UNCHANGED <<pCTX, ctxs>> /\ tls'[c] = "handshake"
        /\ session' = [session EXCEPT ![pCTX[c]] = sock[c]]
    BY SessionFacts DEF MakeSession, NewSession, SetPtr, GotoTLS
  <1>5. sock[c] # NoSession BY <1>2 DEF Fds, NoSession
  <1>6. Sessions' = Sessions \cup {pCTX[c]}
    BY <1>3, <1>4, <1>5, SessionFacts DEF Sessions
  <1> QED BY <1>2, <1>3, <1>4, <1>6

LEMMA MakeSessionPtrs ==
  ASSUME SessionInv, NEW c \in SSLClients, MakeSession(c)
  PROVE  PtrsOK'
  <1>1. \A d \in SSLClients \ {c} : Stays(d) BY OthersStay DEF SSLClientStep
  <1>2. tls[c] = "load" BY DEF MakeSession
  <1>3. Sound(c)' BY SessionMadeOf DEF Sound
  <1>4. ASSUME NEW d \in SSLClients \ {c} PROVE Sound(d)' /\ Apart(c, d)'
    <2>1. Stays(d) /\ Sound(d) /\ Apart(c, d) BY <1>1, SessionFacts DEF SessionInv, PtrsOK
    <2>2. MayFree(d) => pCTX[d] # pCTX[c]
      BY <1>2, <2>1, SessionMadeOf DEF Apart, MayFree
    <2>3. Sound(d)' BY <2>1, <2>2, SessionMadeOf DEF Sound, MayFree, Stays
    <2>4. pSSL[d] # 0 => pSSL[d] # pCTX[c] BY <2>1, SessionMadeOf DEF Sound
    <2> QED BY <2>1, <2>2, <2>3, <2>4, SessionMadeOf DEF Apart, MayFree, Stays
  <1> QED BY <1>1, <1>3, <1>4, OneStructure DEF SessionInv

\* what Disconnect and the destructor do to OpenSSL's heap
LEMMA Closed ==
  ASSUME SessionInv, NEW c \in SSLClients, SSLDisconnect(c) \/ SSLDestroy(c),
         ~UNCHANGED sslVars
  PROVE  /\ tls[c] = "idle" /\ UNCHANGED <<tls, pCTX>> /\ status[c] = "CONNECTED"
         /\ pSSL[c] # 0 /\ pSSL'[c] = 0
         /\ Sessions' = Sessions \ {pSSL[c]} /\ ctxs' = ctxs \ {pCTX[c]}
         /\ \A k \in Ctxs \ {pSSL[c]} : session'[k] = session[k]
  <1>1. tls[c] = "idle" /\ UNCHANGED tls /\ status[c] = "CONNECTED" /\ ShutdownSSL(c)
    BY DEF SSLDisconnect, SSLDestroy
  <1>2. pSSL[c] # 0 /\ pSSL' = SetPtr(pSSL, c, 0) /\ ctxs' = ctxs \ {pCTX[c]} /\ UNCHANGED pCTX
        /\ session' = [session EXCEPT ![pSSL[c]] = NoSession]
    BY <1>1 DEF ShutdownSSL
  <1>3. pSSL'[c] = 0 BY <1>2, SessionFacts DEF SetPtr
  <1>4. pSSL[c] \in Ctxs BY <1>2, SessionFacts DEF Sound, Sessions
  <1>5. Sessions' = Sessions \ {pSSL[c]} /\ \A k \in Ctxs \ {pSSL[c]} : session'[k] = session[k]
    BY <1>2, <1>4, SessionFacts DEF Sessions
  <1> QED BY <1>1, <1>2, <1>3, <1>5

LEMMA ClosingPtrs ==
  ASSUME SessionInv, NEW c \in SSLClients, SSLDisconnect(c) \/ SSLDestroy(c)
  PROVE  PtrsOK'
  <1>1. SSLClientStep(c) BY DEF SSLClientStep
  <1>2. CASE UNCHANGED sslVars
    <2>1. UNCHANGED tls BY DEF SSLDisconnect, SSLDestroy
    <2> QED BY <1>1, <1>2, <2>1, QuietPtrs DEF sslVars
  <1>3. CASE ~UNCHANGED sslVars
    <2>1. Sound(c)' BY <1>3, Closed DEF Sound
    <2>2. \A d \in SSLClients \ {c} : Stays(d) BY <1>1, OthersStay
    <2>3. ASSUME NEW d \in SSLClients \ {c} PROVE Sound(d)' /\ Apart(c, d)'
      <3>1. Stays(d) /\ Sound(d) /\ Apart(c, d) BY <2>2, SessionFacts DEF SessionInv, PtrsOK
      <3>2. MayFree(d) => pCTX[d] # pCTX[c] \/ pCTX[d] = 0
        BY <1>3, <3>1, Closed DEF Apart, MayFree
      <3>3. 0 \notin ctxs BY SessionFacts, CtxAssumption DEF Ctxs
      <3>4. Sound(d)'
        BY <1>3, <3>1, <3>2, <3>3, Closed DEF Sound, Apart, MayFree, Stays
      <3>5. ~MayFree(c)' BY <1>3, Closed DEF MayFree
      <3>6. Apart(c, d)' BY <1>3, <3>5, Closed DEF Apart
      <3> QED BY <3>4, <3>6
    <2> QED BY <2>1, <2>2, <2>3, OneStructure DEF SessionInv
  <1> QED BY <1>2, <1>3

LEMMA CreatePtrs ==
  ASSUME SessionInv, NEW c \in SSLClients, SSLCreate(c)
  PROVE  PtrsOK'
  <1>1. /\ tls[c] = "idle" /\ UNCHANGED <<tls, ctxs, session>> /\ pSSL'[c] = 0
    BY SessionFacts DEF SSLCreate, Forget, SetPtr
  <1>2. Sessions' = Sessions BY <1>1 DEF Sessions
  <1>3. ~MayFree(c)' /\ Sound(c)' BY <1>1 DEF MayFree, Sound
  <1>4. \A d \in SSLClients \ {c} : Stays(d) BY OthersStay DEF SSLClientStep
  <1>5. ASSUME NEW d \in SSLClients \ {c} PROVE Sound(d)' /\ Apart(c, d)'
    <2>1. Stays(d) /\ Sound(d) BY <1>4, SessionFacts
    <2> QED BY <1>1, <1>2, <1>3, <2>1 DEF Sound, Apart, Stays
  <1> QED BY <1>3, <1>4, <1>5, OneStructure DEF SessionInv

LEMMA PtrsStep == SessionInv /\ [SSLNext]_allVars => PtrsOK'
  <1> SUFFICES ASSUME SessionInv, [SSLNext]_allVars PROVE PtrsOK' OBVIOUS
  <1>1. ASSUME NEW c \in SSLClients, SSLClientStep(c) PROVE PtrsOK'
    <2>1. CASE \/ SSLConnect(c) \/ TCPConnectStep(c) \/ LoadFails(c) \/ Handshake(c)
               \/ SSLSetTimeout(c)
      <3>1. UNCHANGED <<pSSL, pCTX, ctxs, session>>
        BY <2>1
        DEF SSLConnect, TCPConnectStep, LoadFails, Handshake, SSLSetTimeout, sslVars
      <3>2. tls'[c] = "load" => tls[c] = "load"
        BY <2>1, SessionFacts
        DEF SSLConnect, TCPConnectStep, LoadFails, Handshake, SSLSetTimeout, GotoTLS, ReturnsTLS
      <3> QED BY <1>1, <3>1, <3>2, QuietPtrs
    <2> QED BY <1>1, <2>1, NewCtxPtrs, MakeSessionPtrs, ClosingPtrs, CreatePtrs DEF SSLClientStep
  <1>2. CASE PlainStep \/ UNCHANGED allVars
    <2>1. UNCHANGED <<pSSL, pCTX, ctxs, session, tls, sslRet>> BY <1>2, PlainStays
    <2>2. Sessions' = Sessions BY <2>1 DEF Sessions
    <2> QED BY <2>1, <2>2 DEF SessionInv, PtrsOK, Sound, Apart, MayFree
  <1> QED BY <1>1, <1>2 DEF SSLNext

LEMMA SessionStep == SessionInv /\ [SSLNext]_allVars => SessionInv'
  BY TLSStepIsTCPStep, HoldStep, TypesStep, PtrsStep DEF SessionInv

-----------------------------------------------------------------------------
(* Who accounts for a session *)

\* client c has session k still
Same(c, k) ==
  /\ status'[c] = "CONNECTED" /\ pSSL'[c] = k /\ pCTX'[c] = k /\ sock'[c] = sock[c]
  /\ tls'[c] \in {"idle", "handshake"} /\ session'[k] = session[k] /\ k \in ctxs'

LEMMA SameHolds ==
  ASSUME SessionInv', NEW c \in SSLClients, NEW k, Same(c, k)
  PROVE  sock'[c] \in Held(c)'
  <1>1. c \in Clients /\ sock'[c] \in Needs(c)'
    BY SSLClientsAssumption DEF Same, SSLClients, Needs
  <1> QED BY <1>1 DEF SessionInv, HoldInv, HoldsWhatItNeeds

\* The client whose Disconnect closes session k stays so, until it frees it
\* or connects again.
LEMMA AccountedStays ==
  ASSUME SessionInv, [SSLNext]_allVars, NEW k \in Ctxs, NEW c \in SSLClients,
         pSSL[c] = k, status[c] = "CONNECTED", tls[c] \in {"idle", "handshake"},
         session[k] = sock[c], pCTX[c] = k, k \in ctxs
  PROVE  Accounted(k)' \/ OpensAgain(c) \/ (k \notin Sessions' /\ k \notin ctxs')
  <1>1. SessionInv' BY SessionStep
  <1>2. k # 0 BY CtxAssumption DEF Ctxs
  <1>3. Same(c, k) \/ OpensAgain(c) \/ (k \notin Sessions' /\ k \notin ctxs')
    <2>1. ASSUME NEW d \in SSLClients \ {c}, SSLClientStep(d)
          PROVE  session'[k] = session[k] /\ k \in ctxs'
      <3>1. CASE UNCHANGED <<ctxs, session>> BY <3>1
      <3>2. CASE SetUpCtxClient(d) BY <3>2 DEF SetUpCtxClient, NewCtx, NewCtxFails
      <3>3. CASE MakeSession(d)
        <4>1. k \in Sessions BY <1>2, SessionFacts DEF Sound
        <4> QED BY <3>3, <4>1, SessionMadeOf, SessionFacts
      <3>4. CASE (SSLDisconnect(d) \/ SSLDestroy(d)) /\ ~UNCHANGED sslVars
        <4>1. Apart(c, d) BY DEF SessionInv, PtrsOK
        <4> QED BY <1>2, <3>4, <4>1, Closed DEF Apart, MayFree
      <3> QED BY <2>1, <3>1, <3>2, <3>3, <3>4
          DEF SSLClientStep, SSLConnect, TCPConnectStep, LoadFails, Handshake, SSLDisconnect,
              SSLSetTimeout, SSLDestroy, SSLCreate, Forget, sslVars
    <2>2. ASSUME NEW d \in SSLClients \ {c}, SSLClientStep(d) PROVE Stays(c)
      BY <2>2, OthersStay
    <2>3. CASE PlainStep \/ UNCHANGED allVars BY <2>3, PlainStays DEF Stays, Same
    <2>4. CASE SSLClientStep(c)
      <3>1. CASE SSLConnect(c) BY <3>1 DEF OpensAgain
      <3>2. CASE TCPConnectStep(c) \/ SetUpCtxClient(c) \/ LoadFails(c) \/ MakeSession(c)
        BY <3>2 DEF TCPConnectStep, SetUpCtxClient, LoadFails, MakeSession
      <3>3. CASE Handshake(c)
        BY <3>3, SessionFacts DEF Handshake, ReturnsTLS, vars, clientVars, sslVars, Same
      <3>4. CASE SSLDisconnect(c) \/ SSLDestroy(c)
        <4>1. ~UNCHANGED sslVars
          <5>1. ShutdownSSL(c) BY <3>4 DEF SSLDisconnect, SSLDestroy
          <5>2. pSSL'[c] = 0 BY <1>2, <5>1, SessionFacts DEF ShutdownSSL, SetPtr
          <5> QED BY <1>2, <5>2 DEF sslVars
        <4> QED BY <3>4, <4>1, Closed
      <3>5. CASE SSLSetTimeout(c)
        BY <3>5 DEF SSLSetTimeout, SetTimeout, clientVars, sslVars, Same
      <3>6. CASE SSLCreate(c) BY <3>6, SessionFacts DEF SSLCreate, Create
      <3> QED BY <2>4, <3>1, <3>2, <3>3, <3>4, <3>5, <3>6 DEF SSLClientStep
    <2> QED BY <2>1, <2>2, <2>3, <2>4 DEF SSLNext, Stays, Same
  <1>4. Same(c, k) => sock'[c] \in Held(c)' BY <1>1, SameHolds
  <1>5. Same(c, k) => Accounted(k)'
    <2>1. Same(c, k) => session'[k] = sock'[c] BY DEF Same
    <2> QED BY <1>4, <2>1 DEF Accounted, Same
  <1> QED BY <1>3, <1>5

\* A session that is made is accounted for at once.
LEMMA AccountedWhenMade ==
  ASSUME SessionInv, NEW c \in SSLClients, MakeSession(c), NEW k, k = pCTX[c]
  PROVE  Accounted(k)' /\ Sessions' = Sessions \cup {k}
  <1>1. status[c] = "CONNECTED" BY SessionFacts DEF MakeSession, StandsOK
  <1>2. UNCHANGED <<status, sock, owner>> BY DEF MakeSession, vars, clientVars
  <1>3. /\ pSSL'[c] = pCTX[c] /\ pCTX'[c] = pCTX[c] /\ pCTX[c] \in ctxs'
        /\ tls'[c] = "handshake" /\ session'[pCTX[c]] = sock[c] /\ sock'[c] \in Held(c)'
        /\ Sessions' = Sessions \cup {pCTX[c]}
    BY <1>2, SessionMadeOf, SessionFacts DEF Held
  <1> QED BY <1>1, <1>2, <1>3 DEF Accounted

\* No other step makes one.
LEMMA OthersMakeNone ==
  ASSUME SessionInv, [SSLNext]_allVars, \A c \in SSLClients : ~MakeSession(c)
  PROVE  Sessions' \subseteq Sessions
  <1>1. CASE UNCHANGED session BY <1>1 DEF Sessions
  <1>2. ASSUME NEW c \in SSLClients, SSLDisconnect(c) \/ SSLDestroy(c), ~UNCHANGED sslVars
        PROVE  Sessions' \subseteq Sessions
    BY <1>2, Closed
  <1>3. ASSUME NEW c \in SSLClients, SSLClientStep(c) PROVE Sessions' \subseteq Sessions
    BY <1>1, <1>2, <1>3
    DEF SSLClientStep, SSLConnect, TCPConnectStep, SetUpCtxClient, NewCtx, NewCtxFails, LoadFails,
        Handshake, SSLDisconnect, SSLSetTimeout, SSLDestroy, SSLCreate, Forget, sslVars
  <1>4. CASE PlainStep \/ UNCHANGED allVars BY <1>1, <1>4, PlainStays
  <1> QED BY <1>3, <1>4 DEF SSLNext

LEMMA SessionsStep ==
  ASSUME SessionInv, [SSLNext]_allVars, NEW k \in Sessions', ~Accounted(k)'
  PROVE  \/ k \in Sessions /\ ~Accounted(k)
         \/ \E c \in SSLClients : OpensAgain(c) /\ pSSL[c] = k
  <1>1. k \in Sessions
    <2>1. CASE \E c \in SSLClients : MakeSession(c) BY <2>1, AccountedWhenMade
    <2>2. CASE \A c \in SSLClients : ~MakeSession(c) BY <2>2, OthersMakeNone
    <2> QED BY <2>1, <2>2
  <1>2. k \in Ctxs BY <1>1 DEF Sessions
  <1>3. ASSUME Accounted(k) PROVE \E c \in SSLClients : OpensAgain(c) /\ pSSL[c] = k
    BY <1>2, <1>3, AccountedStays DEF Accounted
  <1> QED BY <1>1, <1>3

LEMMA ContextsStep ==
  ASSUME SessionInv, [SSLNext]_allVars, NEW k \in ctxs', ~Kept(k)', Kept(k) \/ k \notin ctxs
  PROVE  \E c \in SSLClients : pCTX[c] = k /\ (LoadFails(c) \/ OpensAgain(c))
  <1>1. k \in ctxs
    <2>1. ASSUME NEW c \in SSLClients, NewCtx(c), GotoTLS(c, "load"), k \notin ctxs PROVE FALSE
      <3>1. tls'[c] = "load" /\ pCTX'[c] = k
        BY <2>1, SessionFacts DEF NewCtx, GotoTLS, SetPtr
      <3> QED BY <3>1 DEF Kept
    <2>2. CASE ctxs' \subseteq ctxs BY <2>2
    <2>3. ASSUME NEW c \in SSLClients, ShutdownSSL(c) PROVE ctxs' \subseteq ctxs
      BY <2>3 DEF ShutdownSSL, sslVars
    <2>4. CASE PlainStep \/ UNCHANGED allVars BY <2>2, <2>4, PlainStays
    <2>5. ASSUME NEW c \in SSLClients, SSLClientStep(c) PROVE k \in ctxs
      BY <2>1, <2>2, <2>3, <2>5
      DEF SSLClientStep, SSLConnect, TCPConnectStep, SetUpCtxClient, NewCtxFails, LoadFails,
          MakeSession, NewSession, Handshake, SSLDisconnect, SSLSetTimeout, SSLDestroy, SSLCreate,
          Forget, sslVars
    <2> QED BY <2>4, <2>5 DEF SSLNext
  <1>2. k \in Ctxs
    <2>1. SessionInv' BY SessionStep
    <2> QED BY <2>1 DEF SessionInv, SSLPartTypeOK, SSLTypeOK
  <1>3. ~Accounted(k)' BY DEF Kept
  <1>4. CASE Accounted(k)
    BY <1>2, <1>3, <1>4, AccountedStays DEF Accounted
  <1>5. ASSUME NEW c \in SSLClients, tls[c] = "load", pCTX[c] = k PROVE LoadFails(c)
    <2>1. ASSUME Stays(c) PROVE FALSE BY <1>5, <2>1 DEF Stays, Kept
    <2>2. CASE SSLClientStep(c)
      <3>1. ~MakeSession(c) BY <1>3, <1>5, AccountedWhenMade
      <3> QED BY <1>5, <2>2, <3>1
          DEF SSLClientStep, SSLConnect, TCPConnectStep, SetUpCtxClient, Handshake, SSLDisconnect,
              SSLSetTimeout, SSLDestroy, SSLCreate
    <2> QED BY <2>1, <2>2, OthersStay, PlainStays DEF SSLNext
  <1> QED BY <1>1, <1>4, <1>5 DEF Kept

-----------------------------------------------------------------------------
(* Theorems *)

\* The inductive invariant of sessions and contexts holds in every state, also
\* of objects that are connected again and again (TCPSSLClient.cpp:38-262).
THEOREM SessionAlways == SSLSpec => []SessionInv
  BY SessionInit, SessionStep, PTL DEF SSLSpec

\* Every variable keeps its type; the TLS part of Connect runs on a connection
\* that stands (TCPSSLClient.cpp:38-153).
THEOREM TLSClientTypes == SSLSpec => []SSLClientTypeOK
  <1>1. SessionInv => SSLClientTypeOK BY DEF SessionInv, HoldInv, SSLClientTypeOK
  <1> QED BY <1>1, SessionAlways, PTL

\* A session is closed with its connection unless Connect is called on a
\* connected object, and nothing is ever freed twice, not even after that
\* (TCPSSLClient.cpp:38-153, 244-262, SecureSocket.cpp:150-161).
THEOREM TLSClientAccountsForSessions == SSLSpec => SessionsAccounted
  <1>1. SessionInv => NoneFreedTwice
    <2> SUFFICES ASSUME SessionInv, NEW c \in SSLClients, pSSL[c] # 0
                 PROVE  /\ pSSL[c] \in Sessions /\ pCTX[c] \in ctxs \cup {0}
                        /\ \A d \in SSLClients \ {c} : pSSL[d] # 0 =>
                             pSSL[d] # pSSL[c] /\ (pCTX[d] # pCTX[c] \/ pCTX[c] = 0)
      BY DEF NoneFreedTwice
    <2>1. Sound(c) /\ \A d \in SSLClients \ {c} : Apart(c, d) BY DEF SessionInv, PtrsOK
    <2> QED BY <2>1 DEF Sound, Apart, MayFree
  <1>2. SessionInv /\ [SSLNext]_allVars =>
          [\A k \in Sessions' : ~Accounted(k)' =>
             \/ k \in Sessions /\ ~Accounted(k)
             \/ \E c \in SSLClients : OpensAgain(c) /\ pSSL[c] = k]_allVars
    BY SessionsStep
  <1> QED BY <1>1, <1>2, SessionAlways, PTL DEF SSLSpec, SessionsAccounted

\* m_eStatus tells the truth: it is CONNECTED between calls only when the last
\* TCP Connect returned true, and Send and Receive never pass OpenSSL a null
\* session after a TLS Connect that did (TCPSSLClient.cpp:157-169, 215-226).
THEOREM TLSClientStatusTruthful == SSLSpec => []StatusTruthful
  <1>1. SessionInv => UsableSession
    BY SessionFacts DEF UsableSession, HasMade, Sound
  <1>2. SessionInv => StatusTruthful
    BY <1>1 DEF SessionInv, HoldInv, ConnectState, StatusTruthful
  <1> QED BY <1>2, SessionAlways, PTL

\* A context goes when its session does, on every path; only a file that does
\* not load and a Connect on a connected object leave one behind
\* (TCPSSLClient.cpp:45-104, SecureSocket.cpp:150-161).
THEOREM TLSClientFreesContexts == SSLSpec => ContextsFreed
  <1>1. SessionInv /\ [SSLNext]_allVars =>
          [\A k \in ctxs' : ~Kept(k)' =>
             \/ k \in ctxs /\ ~Kept(k)
             \/ \E c \in SSLClients : pCTX[c] = k /\ (LoadFails(c) \/ OpensAgain(c))]_allVars
    BY ContextsStep
  <1> QED BY <1>1, SessionAlways, PTL DEF SSLSpec, ContextsFreed
=============================================================================
