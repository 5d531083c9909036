--------------------------- MODULE TLSStreamProofs ---------------------------
(***************************************************************************)
(* What TLAPS proves of TLSStream, for all sizes, windows and limits.      *)
(*                                                                         *)
(* One inductive invariant serves the invariants.  Its core, FlowOK,       *)
(* says that the plaintext of a direction is never out of place: the bytes *)
(* the receiver's session has opened, those of its unfinished record, the  *)
(* units on the connection and those of an interrupted SSL_write follow    *)
(* each other in the order they were sent.  PipeInv adds how much of it a  *)
(* session can hold, from which TLSStream implements BytePipe.             *)
(***************************************************************************)
EXTENDS TLSStream, SequenceTheorems, TLAPS

-----------------------------------------------------------------------------
(* The int num of SSL_write and SSL_read *)

LEMMA ToIntAtMost ==
  ASSUME NEW n \in Nat
  PROVE  ToInt(n) \in Int /\ ToInt(n) <= n
<1> DEFINE k == 2 * IntMax + 2
           x == n + IntMax + 1
<1>1. k \in Nat \ {0} /\ x \in Nat
  BY LimitsAssumption
<1> HIDE DEF k, x
<1>2. x % k \in 0..(k - 1)
  BY <1>1
<1>3. x % k <= x
  <2>1. CASE x < k
    BY <1>1, <2>1
  <2>2. CASE x >= k
    BY <1>1, <1>2, <2>2
  <2>. QED
    BY <1>1, <2>1, <2>2
<1>. QED
  BY <1>1, <1>2, <1>3, LimitsAssumption DEF ToInt, k, x

LEMMA ModOfMultiple ==
  ASSUME NEW k \in Nat \ {0}, NEW j \in Int, NEW c \in 0..(k - 1)
  PROVE  (k * j + c) % k = c
<1> DEFINE x == k * j + c
           d == x \div k
           r == x % k
<1>1. x \in Int
  OBVIOUS
<1> HIDE DEF x
<1>2. d \in Int /\ r \in 0..(k - 1) /\ x = k * d + r
  BY <1>1
<1> HIDE DEF d, r
<1>3. k * (j - d) = r - c
  BY <1>2 DEF x
<1>4. j - d = 0
  <2>1. k * (j - d) < k /\ k * (j - d) > -k
    BY <1>2, <1>3
  <2>2. CASE j - d >= 1
    <3>1. k * (j - d) >= k * 1
      BY <1>2, <2>2
    <3>. QED
      BY <1>2, <2>1, <3>1
  <2>3. CASE j - d <= -1
    <3>1. k * (j - d) <= k * (-1)
      BY <1>2, <2>3
    <3>. QED
      BY <1>2, <2>1, <3>1
  <2>. QED
    BY <1>2, <2>2, <2>3
<1>. QED
  BY <1>2, <1>3, <1>4 DEF r, x

\* when a first SSL_write did not take all of uSize, the rest is a multiple
\* of 2 * INT_MAX + 2, and the second one gets 0
LEMMA RestIsZero ==
  ASSUME NEW n \in Nat, ToInt(n) < n
  PROVE  ToInt(n - ToInt(n)) = 0
<1> DEFINE k == 2 * IntMax + 2
           x == n + IntMax + 1
           d == x \div k
<1>0. IntMax + 1 \in 0..(k - 1)
  BY LimitsAssumption
<1>1. k \in Nat \ {0} /\ x \in Int
  BY LimitsAssumption
<1> HIDE DEF k, x
<1>2. d \in Int /\ x % k \in 0..(k - 1) /\ x = k * d + (x % k)
  BY <1>1
<1> HIDE DEF d
<1>3. k * d \in Int
  BY <1>1, <1>2
<1>4. n - ToInt(n) = k * d
  BY <1>2, <1>3, LimitsAssumption DEF ToInt, x, k
<1>5. (k * d + (IntMax + 1)) % k = IntMax + 1
  BY <1>0, <1>1, <1>2, ModOfMultiple
<1>. QED
  BY <1>3, <1>4, <1>5, LimitsAssumption DEF ToInt, k

LEMMA PeerSide ==
  ASSUME NEW s \in Sides
  PROVE  Peer(s) \in Sides /\ Peer(s) # s /\ Peer(Peer(s)) = s
BY DEF Sides, Peer

-----------------------------------------------------------------------------
(* The inductive invariant *)

\* units of plaintext on the connection to s
DataUnits(s) ==
  IF queue[s] # <<>> /\ queue[s][Len(queue[s])] = Alert THEN Len(queue[s]) - 1
  ELSE Len(queue[s])

\* the bytes of the sessions and the connection to s are in their places, and
\* none is missing until a reset has dropped some
Opened(s) == taken[s] + Len(plain[s])
Arrived(s) == Opened(s) + Len(inRec[s])
FlowOK(s) ==
  LET p == Peer(s) IN
  /\ \A i \in 1..Len(plain[s]) : plain[s][i] = taken[s] + i
  /\ \A i \in 1..Len(inRec[s]) : inRec[s][i] = Opened(s) + i
  /\ \A i \in 1..Len(queue[s]) :
       \/ queue[s][i].byte = Arrived(s) + i
       \/ queue[s][i] = Alert /\ i = Len(queue[s]) /\ closed[p]
  /\ \A i \in 1..Len(out[p]) : out[p][i].byte = written[p] - Len(out[p]) + i
  /\ Len(out[p]) <= written[p]
  /\ link[s] # "up" => closed[p]
  /\ link[s] = "up" => Arrived(s) + DataUnits(s) = written[p] - Len(out[p])

Running == {"send", "write", "recv"}
CallOK(s) ==
  /\ pc[s] \in Running \union {"shutdown"} => ~closed[s]
  /\ pc[s] \in Running => ret[s].op = "none" /\ total[s] < call[s].size

\* an SSL_write to be finished is the first of its Send
SendOK(s) ==
  /\ out[s] # <<>> => /\ ToInt(owed[s].size) > 0
                      /\ owed[s].base + ToInt(owed[s].size) = written[s]
  /\ pc[s] = "send" =>
       IF out[s] # <<>> THEN total[s] = 0 /\ call[s] = owed[s]
       ELSE /\ call[s].base + total[s] = written[s]
            /\ total[s] # 0 => Num(s) <= 0
  /\ pc[s] = "write" => out[s] # <<>> /\ total[s] = 0 /\ call[s] = owed[s]
  /\ ret[s] = [op |-> "send", val |-> 1] =>
       out[s] = <<>> /\ written[s] = call[s].base + call[s].size

Filled(s, n) == \A i \in 1..n : buf[s][i] = call[s].base + i
RecvOK(s) ==
  /\ pc[s] = "recv" => /\ taken[s] = call[s].base + total[s]
                       /\ buf[s] \in [1..call[s].size -> Nat]
                       /\ Filled(s, total[s])
  /\ ret[s].op = "recv" => /\ ret[s].val = -1 => closed[s]
                           /\ ret[s].val # -1 => ret[s].val = taken[s] - call[s].base
                           /\ Filled(s, ret[s].val)

TLSInv ==
  TypesOK /\ \A s \in Sides : FlowOK(s) /\ CallOK(s) /\ SendOK(s) /\ RecvOK(s)

LEMMA InvInit == Init => TLSInv
BY PeerSide
DEF Init, TLSInv, TypesOK, FlowOK, Opened, Arrived, DataUnits, CallOK, Running, SendOK,
    RecvOK, Filled, Each, NoRet, NoCall, Call, Unit, Option

\* the units of a direction stay when its variables do; its sender may close
LEMMA FlowKept ==
  ASSUME NEW s \in Sides, FlowOK(s),
         queue'[s] = queue[s], plain'[s] = plain[s], inRec'[s] = inRec[s],
         taken'[s] = taken[s], out'[Peer(s)] = out[Peer(s)],
         written'[Peer(s)] = written[Peer(s)],
         link'[s] = "up" <=> link[s] = "up", closed[Peer(s)] => closed'[Peer(s)]
  PROVE  FlowOK(s)'
BY DEF FlowOK, Opened, Arrived, DataUnits

\* so do the loops of a side
LEMMA LoopsKept ==
  ASSUME NEW s \in Sides, CallOK(s), SendOK(s), RecvOK(s),
         pc'[s] = pc[s], call'[s] = call[s], total'[s] = total[s], buf'[s] = buf[s],
         ret'[s] = ret[s], closed'[s] = closed[s], out'[s] = out[s],
         owed'[s] = owed[s], written'[s] = written[s], taken'[s] = taken[s]
  PROVE  CallOK(s)' /\ SendOK(s)' /\ RecvOK(s)'
BY DEF CallOK, Running, SendOK, RecvOK, Filled, Num

\* a step of s that leaves the flows alone
LEMMA StepOf ==
  ASSUME TLSInv, NEW s \in Sides, TypesOK',
         UNCHANGED <<queue, outVars, inVars>>,
         \A q \in Sides : link'[q] = "up" <=> link[q] = "up",
         \A q \in Sides : closed[q] => closed'[q],
         \A q \in Sides \ {s} :
           /\ pc'[q] = pc[q] /\ call'[q] = call[q] /\ total'[q] = total[q]
           /\ buf'[q] = buf[q] /\ ret'[q] = ret[q] /\ closed'[q] = closed[q],
         CallOK(s)' /\ SendOK(s)' /\ RecvOK(s)'
  PROVE  TLSInv'
<1>1. ASSUME NEW q \in Sides  PROVE FlowOK(q)'
  BY FlowKept, PeerSide DEF TLSInv, outVars, inVars
<1>2. ASSUME NEW q \in Sides, q # s  PROVE CallOK(q)' /\ SendOK(q)' /\ RecvOK(q)'
  BY <1>2, LoopsKept DEF TLSInv, outVars, inVars
<1>. QED
  BY <1>1, <1>2 DEF TLSInv

LEMMA ReturnsType ==
  ASSUME TypesOK, NEW s \in Sides, NEW op \in {"send", "recv"}, NEW val \in Int,
         Returns(s, op, val)
  PROVE  /\ pc' \in [Sides -> {"idle", "send", "write", "recv", "shutdown", "killed"}]
         /\ ret' \in [Sides -> [op : {"none", "send", "recv"}, val : Int]]
         /\ pc'[s] = "idle" /\ ret'[s] = [op |-> op, val |-> val]
         /\ \A q \in Sides \ {s} : pc'[q] = pc[q] /\ ret'[q] = ret[q]
BY DEF TypesOK, Returns, Goto

LEMMA ConsumeType ==
  ASSUME TypesOK, NEW s \in Sides, Consume(s)
  PROVE  /\ link' \in [Sides -> {"up", "reset", "dead"}]
         /\ \A q \in Sides : link'[q] = "up" <=> link[q] = "up"
BY DEF TypesOK, Consume

-----------------------------------------------------------------------------
(* Steps that move no unit *)

LEMMA KeepsCallSend ==
  ASSUME TLSInv, NEW s \in Sides, CallSend(s)  PROVE TLSInv'
<1>1. /\ pc[s] = "idle" /\ ~closed[s] /\ pc' = [pc EXCEPT ![s] = "send"]
      /\ total' = [total EXCEPT ![s] = 0]
      /\ ret' = [ret EXCEPT ![s] = [op |-> "none", val |-> 0]]
      /\ UNCHANGED <<queue, closed, link, outVars, inVars, timeo, asked, buf>>
  BY DEF CallSend, Goto, NoRet, netVars, optVars
<1>2. PICK c \in Call :
        /\ call' = [call EXCEPT ![s] = c]
        /\ out[s] # <<>> => c = owed[s]
        /\ out[s] = <<>> => c.base = written[s] /\ c.size > 0
  <2>1. CASE out[s] # <<>>
    BY <2>1 DEF CallSend, TLSInv, TypesOK
  <2>2. CASE out[s] = <<>>
    <3>1. PICK n \in Sizes :
            call' = [call EXCEPT ![s] = [size |-> n, fully |-> TRUE, base |-> written[s]]]
      BY <2>2 DEF CallSend
    <3>2. n \in Nat \ {0} /\ written[s] \in Nat
      BY CallsAssumption DEF TLSInv, TypesOK
    <3> DEFINE c == [size |-> n, fully |-> TRUE, base |-> written[s]]
    <3>3. c \in Call /\ c.base = written[s] /\ c.size > 0
      BY <3>2 DEF Call
    <3> HIDE DEF c
    <3>. QED
      BY <2>2, <3>1, <3>3 DEF c
  <2>. QED
    BY <2>1, <2>2
<1>3. TypesOK'
  BY <1>1, <1>2 DEF TLSInv, TypesOK, outVars, inVars
<1>4. c.size > 0
  <2>1. CASE out[s] # <<>>
    BY <1>2, <2>1, ToIntAtMost DEF TLSInv, SendOK, Call
  <2>. QED
    BY <1>2, <2>1
<1>5. CallOK(s)' /\ SendOK(s)' /\ RecvOK(s)'
  <2>1. /\ pc'[s] = "send" /\ total'[s] = 0 /\ ret'[s] = [op |-> "none", val |-> 0]
        /\ call'[s] = c
    BY <1>1, <1>2 DEF TLSInv, TypesOK
  <2>2. c.base \in Nat /\ SendOK(s)
    BY <1>2 DEF TLSInv, Call
  <2>. QED
    BY <1>1, <1>2, <1>4, <2>1, <2>2
    DEF CallOK, Running, SendOK, RecvOK, outVars
<1>. QED
  BY <1>1, <1>2, <1>3, <1>5, StepOf DEF TLSInv, TypesOK

\* a call that returns at once, or a Send that ends without a byte taken
LEMMA KeepsReturns ==
  ASSUME TLSInv, NEW s \in Sides,
         \/ Returns(s, "send", 0)
         \/ Returns(s, "recv", -1) /\ closed[s]
         \/ Returns(s, "recv", total[s]) /\ pc[s] = "recv",
         Consume(s) \/ UNCHANGED link,
         UNCHANGED <<queue, closed, outVars, inVars, optVars, call, total, buf>>
  PROVE  TLSInv'
<1>1. PICK op \in {"send", "recv"}, val \in Int :
        /\ Returns(s, op, val)
        /\ op = "send" => val = 0
        /\ op = "recv" => \/ val = -1 /\ closed[s]
                          \/ val = total[s] /\ pc[s] = "recv"
  BY DEF TLSInv, TypesOK
<1>2. /\ pc' \in [Sides -> {"idle", "send", "write", "recv", "shutdown", "killed"}]
      /\ ret' \in [Sides -> [op : {"none", "send", "recv"}, val : Int]]
      /\ pc'[s] = "idle" /\ ret'[s] = [op |-> op, val |-> val]
      /\ \A q \in Sides \ {s} : pc'[q] = pc[q] /\ ret'[q] = ret[q]
  BY <1>1, ReturnsType DEF TLSInv
<1>3. /\ link' \in [Sides -> {"up", "reset", "dead"}]
      /\ \A q \in Sides : link'[q] = "up" <=> link[q] = "up"
  BY ConsumeType DEF TLSInv, TypesOK
<1>4. TypesOK'
  BY <1>2, <1>3 DEF TLSInv, TypesOK, outVars, inVars, optVars
<1>5. CallOK(s)' /\ SendOK(s)'
  BY <1>1, <1>2 DEF TLSInv, CallOK, Running, SendOK, outVars
<1>6. RecvOK(s)'
  <2>1. CASE op = "send"
    BY <1>2, <2>1 DEF RecvOK
  <2>2. CASE op = "recv" /\ val = -1 /\ closed[s]
    BY <1>2, <2>2 DEF RecvOK, Filled
  <2>3. CASE op = "recv" /\ val = total[s] /\ pc[s] = "recv"
    <3>1. /\ taken[s] = call[s].base + total[s] /\ Filled(s, total[s])
          /\ total[s] \in Nat /\ call[s].base \in Nat
      BY <2>3 DEF TLSInv, TypesOK, RecvOK, Call
    <3>2. Filled(s, val)' /\ taken' = taken /\ call' = call
      BY <2>3, <3>1 DEF Filled, inVars
    <3>. QED
      BY <1>2, <2>3, <3>1, <3>2 DEF RecvOK
  <2>. QED
    BY <1>1, <2>1, <2>2, <2>3
<1>. QED
  BY <1>2, <1>3, <1>4, <1>5, <1>6, StepOf DEF TLSInv

LEMMA KeepsCallReceive ==
  ASSUME TLSInv, NEW s \in Sides, CallReceive(s)  PROVE TLSInv'
<1>1. PICK n \in Sizes, fully \in Modes :
        /\ call' = [call EXCEPT ![s] = [size |-> n, fully |-> fully, base |-> taken[s]]]
        /\ buf' = [buf EXCEPT ![s] = [i \in 1..n |-> 0]]
  BY DEF CallReceive
<1>2. /\ ~closed[s] /\ pc' = [pc EXCEPT ![s] = "recv"]
      /\ total' = [total EXCEPT ![s] = 0]
      /\ ret' = [ret EXCEPT ![s] = [op |-> "none", val |-> 0]]
      /\ UNCHANGED <<queue, closed, link, outVars, inVars, timeo, asked>>
  BY DEF CallReceive, Goto, NoRet, netVars, optVars
<1>3. n \in Nat \ {0} /\ fully \in BOOLEAN /\ taken[s] \in Nat
  BY CallsAssumption DEF TLSInv, TypesOK
<1>4. /\ [i \in 1..n |-> 0] \in Seq(Nat)
      /\ [size |-> n, fully |-> fully, base |-> taken[s]] \in Call
  BY <1>3 DEF Call
<1>5. TypesOK'
  <2>1. call' \in [Sides -> Call] /\ buf' \in [Sides -> Seq(Nat)]
    BY <1>1, <1>4 DEF TLSInv, TypesOK
  <2>2. /\ pc' \in [Sides -> {"idle", "send", "write", "recv", "shutdown", "killed"}]
        /\ ret' \in [Sides -> [op : {"none", "send", "recv"}, val : Int]]
        /\ total' \in [Sides -> Nat]
    BY <1>2 DEF TLSInv, TypesOK
  <2>. QED
    BY <1>2, <2>1, <2>2 DEF TLSInv, TypesOK, outVars, inVars
<1>6. /\ pc'[s] = "recv" /\ total'[s] = 0 /\ ret'[s] = [op |-> "none", val |-> 0]
      /\ call'[s] = [size |-> n, fully |-> fully, base |-> taken[s]]
      /\ buf'[s] = [i \in 1..n |-> 0]
  BY <1>1, <1>2 DEF TLSInv, TypesOK
<1>7. CallOK(s)' /\ SendOK(s)' /\ RecvOK(s)'
  BY <1>2, <1>3, <1>6
  DEF TLSInv, CallOK, Running, SendOK, RecvOK, Filled, outVars, inVars
<1>. QED
  BY <1>1, <1>2, <1>5, <1>7, StepOf DEF TLSInv, TypesOK

LEMMA KeepsDies ==
  ASSUME TLSInv, NEW s \in Sides, Dies(s)  PROVE TLSInv'
<1>1. /\ pc' = [pc EXCEPT ![s] = "killed"] /\ closed' = [closed EXCEPT ![s] = TRUE]
      /\ UNCHANGED <<queue, link, outVars, inVars, timeo, asked, call, total, buf, ret>>
  BY DEF Dies, Goto, optVars
<1>2. TypesOK'
  BY <1>1 DEF TLSInv, TypesOK, outVars, inVars
<1>3. pc'[s] = "killed" /\ closed'[s]
  BY <1>1 DEF TLSInv, TypesOK
<1>4. CallOK(s)' /\ SendOK(s)' /\ RecvOK(s)'
  BY <1>1, <1>3 DEF TLSInv, CallOK, Running, SendOK, RecvOK, Filled, outVars, inVars
<1>. QED
  BY <1>1, <1>2, <1>4, StepOf DEF TLSInv, TypesOK

LEMMA KeepsCallDisconnect ==
  ASSUME TLSInv, NEW s \in Sides, CallDisconnect(s)  PROVE TLSInv'
<1>1. /\ ~closed[s] /\ pc[s] = "idle" /\ pc' = [pc EXCEPT ![s] = "shutdown"]
      /\ UNCHANGED <<queue, closed, link, outVars, inVars, timeo, asked, call, total, buf, ret>>
  BY DEF CallDisconnect, Goto, netVars, optVars
<1>2. TypesOK' /\ pc'[s] = "shutdown"
  BY <1>1 DEF TLSInv, TypesOK, outVars, inVars
<1>3. CallOK(s)' /\ SendOK(s)' /\ RecvOK(s)'
  BY <1>1, <1>2 DEF TLSInv, CallOK, Running, SendOK, RecvOK, Filled, outVars, inVars
<1>. QED
  BY <1>1, <1>2, <1>3, StepOf DEF TLSInv, TypesOK

LEMMA KeepsSetTimeout ==
  ASSUME TLSInv, NEW c \in TimeoutCalls, SetTimeout(c)  PROVE TLSInv'
<1>1. UNCHANGED <<queue, closed, link, outVars, inVars, pc, call, total, buf, ret>>
  BY DEF SetTimeout, netVars, loopVars
<1>2. c.side \in Sides /\ c.opt \in {"rcv", "snd"} /\ OptionSet(c) \in {"rcv", "snd"}
  BY CallsAssumption DEF OptionSet
<1>3. timeo' \in [Sides -> Option] /\ asked' \in [Sides -> Option]
  BY <1>2 DEF SetTimeout, TLSInv, TypesOK, Option
<1>4. TypesOK'
  BY <1>1, <1>3 DEF TLSInv, TypesOK, outVars, inVars
<1>5. CallOK(c.side)' /\ SendOK(c.side)' /\ RecvOK(c.side)'
  BY <1>1, <1>2, LoopsKept DEF TLSInv, outVars, inVars
<1>. QED
  BY <1>1, <1>2, <1>4, <1>5, StepOf

-----------------------------------------------------------------------------
(* Sending *)

\* the other side's loops, and the flow to s, when s works on the flow from it
LEMMA SenderStep ==
  ASSUME TLSInv, NEW s \in Sides, TypesOK',
         UNCHANGED <<closed, link, inVars, call, buf>>,
         queue'[s] = queue[s],
         \A q \in Sides \ {s} :
           /\ pc'[q] = pc[q] /\ total'[q] = total[q] /\ ret'[q] = ret[q]
           /\ out'[q] = out[q] /\ owed'[q] = owed[q] /\ written'[q] = written[q],
         FlowOK(Peer(s))', CallOK(s)' /\ SendOK(s)' /\ RecvOK(s)'
  PROVE  TLSInv'
<1>1. FlowOK(s)'
  BY FlowKept, PeerSide DEF TLSInv, inVars
<1>2. Sides = {s, Peer(s)}
  BY DEF Sides, Peer
<1>3. CallOK(Peer(s))' /\ SendOK(Peer(s))' /\ RecvOK(Peer(s))'
  BY LoopsKept, PeerSide DEF TLSInv, inVars
<1>. QED
  BY <1>1, <1>2, <1>3 DEF TLSInv

LEMMA RecordsSeq ==
  ASSUME NEW b \in Nat, NEW n \in Nat
  PROVE  /\ Records(b, n) \in Seq(Unit) /\ Len(Records(b, n)) = n
         /\ \A i \in 1..n : Records(b, n)[i].byte = b + i
<1>1. \A i \in 1..n : [byte |-> b + i, last |-> i = n \/ i % MaxRecord = 0] \in Unit
  BY DEF Unit
<1>. QED
  BY <1>1 DEF Records

LEMMA KeepsEnterWrite ==
  ASSUME TLSInv, NEW s \in Sides, EnterWrite(s)  PROVE TLSInv'
<1> DEFINE n == Num(s)
           r == Peer(s)
<1>1. /\ pc[s] = "send" /\ n > 0 /\ pc' = [pc EXCEPT ![s] = "write"]
      /\ UNCHANGED <<queue, closed, link, inVars, timeo, asked, call, total, buf, ret>>
  BY DEF EnterWrite, Goto, netVars, optVars
<1>2. /\ total[s] = 0 /\ call[s] \in Call /\ n = ToInt(call[s].size)
      /\ n \in Nat \ {0} /\ n <= call[s].size /\ total[s] < call[s].size
  <2>1. /\ call[s] \in Call /\ total[s] \in Nat
        /\ call[s].size - total[s] \in Nat /\ call[s].size \in Nat
    BY <1>1 DEF TLSInv, TypesOK, CallOK, Running, Call
  <2>2. n \in Int
    BY <2>1, ToIntAtMost DEF Num
  <2>3. total[s] = 0
    BY <1>1, <2>1, <2>2 DEF TLSInv, SendOK
  <2>. QED
    BY <1>1, <2>1, <2>2, <2>3, ToIntAtMost DEF Num
<1>3. /\ pc' \in [Sides -> {"idle", "send", "write", "recv", "shutdown", "killed"}]
      /\ pc'[s] = "write" /\ \A q \in Sides \ {s} : pc'[q] = pc[q]
  BY <1>1 DEF TLSInv, TypesOK
<1>4. CallOK(s)'
  BY <1>1, <1>3 DEF TLSInv, CallOK, Running
<1>5. RecvOK(s)'
  BY <1>1, <1>3 DEF TLSInv, RecvOK, Filled, inVars, CallOK, Running
<1>6. CASE out[s] # <<>>
  <2>1. UNCHANGED outVars
    BY <1>6 DEF EnterWrite
  <2>2. TypesOK'
    BY <1>1, <1>3, <2>1 DEF TLSInv, TypesOK, outVars, inVars
  <2>3. SendOK(s)'
    BY <1>1, <1>2, <1>3, <1>6, <2>1 DEF TLSInv, SendOK, outVars, CallOK, Running
  <2>. QED
    BY <1>1, <1>3, <1>4, <1>5, <2>1, <2>2, <2>3, StepOf
<1>7. CASE out[s] = <<>>
  <2>1. /\ out' = [out EXCEPT ![s] = Records(call[s].base + total[s], n)]
        /\ owed' = [owed EXCEPT ![s] = call[s]]
        /\ written' = [written EXCEPT ![s] = @ + n]
    BY <1>7 DEF EnterWrite
  <2>2. call[s].base \in Nat /\ call[s].base = written[s] /\ call[s].base + total[s] = written[s]
    BY <1>1, <1>2, <1>7 DEF TLSInv, SendOK, Call
  <2> HIDE DEF n, r
  <2>3. /\ out'[s] \in Seq(Unit) /\ Len(out'[s]) = n /\ out'[s] # <<>>
        /\ \A i \in 1..n : out'[s][i].byte = written[s] + i
        /\ owed'[s] = call[s] /\ written'[s] = written[s] + n
        /\ out' \in [Sides -> Seq(Unit)] /\ owed' \in [Sides -> Call]
        /\ written' \in [Sides -> Nat]
        /\ \A q \in Sides \ {s} : /\ out'[q] = out[q] /\ owed'[q] = owed[q]
                                 /\ written'[q] = written[q]
    <3>1. /\ Records(written[s], n) \in Seq(Unit) /\ Len(Records(written[s], n)) = n
          /\ \A i \in 1..n : Records(written[s], n)[i].byte = written[s] + i
      BY <1>2, <2>2, RecordsSeq
    <3>2. out' = [out EXCEPT ![s] = Records(written[s], n)]
      BY <2>1, <2>2
    <3>3. out'[s] = Records(written[s], n) /\ out' \in [Sides -> Seq(Unit)]
          /\ \A q \in Sides \ {s} : out'[q] = out[q]
      BY <3>1, <3>2 DEF TLSInv, TypesOK
    <3>4. /\ owed'[s] = call[s] /\ written'[s] = written[s] + n
          /\ owed' \in [Sides -> Call] /\ written' \in [Sides -> Nat]
          /\ \A q \in Sides \ {s} : owed'[q] = owed[q] /\ written'[q] = written[q]
      BY <1>2, <2>1 DEF TLSInv, TypesOK
    <3>5. out'[s] # <<>>
      BY <1>2, <3>1, <3>3
    <3>. QED
      BY <3>1, <3>3, <3>4, <3>5
  <2>4. TypesOK'
    BY <1>1, <1>3, <2>3 DEF TLSInv, TypesOK, inVars
  <2>5. SendOK(s)'
    BY <1>1, <1>2, <1>3, <2>2, <2>3 DEF TLSInv, SendOK, CallOK, Running
  <2>6. FlowOK(r)'
    <3>1. r \in Sides /\ Peer(r) = s /\ FlowOK(r)
      BY PeerSide DEF r, TLSInv
    <3>2. Len(out'[s]) <= written'[s] /\ written'[s] - Len(out'[s]) = written[s]
          /\ written[s] - Len(out[s]) = written[s]
      BY <1>2, <1>7, <2>2, <2>3
    <3>3. \A i \in 1..Len(out'[s]) : out'[s][i].byte = written'[s] - Len(out'[s]) + i
      BY <2>3, <3>2
    <3>. QED
      BY <1>1, <3>1, <3>2, <3>3 DEF FlowOK, Opened, Arrived, DataUnits, inVars
  <2>. QED
    BY <1>1, <1>3, <1>4, <1>5, <2>3, <2>4, <2>5, <2>6, SenderStep DEF r
<1>. QED
  BY <1>6, <1>7

\* while its sender is open, a direction carries plaintext only
LEMMA OnlyPlain ==
  ASSUME TLSInv, NEW s \in Sides, ~closed[s]
  PROVE  /\ link[Peer(s)] = "up"
         /\ DataUnits(Peer(s)) = Len(queue[Peer(s)])
         /\ Arrived(Peer(s)) \in Nat
         /\ \A i \in 1..Len(queue[Peer(s)]) :
              queue[Peer(s)][i].byte = Arrived(Peer(s)) + i
<1> DEFINE r == Peer(s)
<1>1. r \in Sides /\ Peer(r) = s /\ FlowOK(r) /\ queue[r] \in Seq(Unit)
  BY PeerSide DEF TLSInv, TypesOK
<1>2. Arrived(r) \in Nat
  <2>1. taken[r] \in Nat /\ Len(plain[r]) \in Nat /\ Len(inRec[r]) \in Nat
    BY <1>1, LenProperties DEF TLSInv, TypesOK
  <2>. QED
    BY <2>1 DEF Arrived, Opened
<1>3. \A i \in 1..Len(queue[r]) : queue[r][i].byte = Arrived(r) + i
  BY <1>1 DEF FlowOK
<1>4. \A i \in 1..Len(queue[r]) : queue[r][i] # Alert
  BY <1>2, <1>3 DEF Alert
<1>5. DataUnits(r) = Len(queue[r])
  BY <1>1, <1>4 DEF DataUnits
<1>. QED
  BY <1>1, <1>2, <1>3, <1>5 DEF FlowOK

\* the count of a unit that leaves the session and joins the connection
LEMMA UnitMoves ==
  ASSUME NEW a \in Int, NEW q \in Int, NEW w \in Int, NEW l \in Int, a + q = w - l
  PROVE  a + (q + 1) = w - (l - 1)
OBVIOUS

LEMMA KeepsWriteUnit ==
  ASSUME TLSInv, NEW s \in Sides, WriteUnit(s)  PROVE TLSInv'
<1>0. PICK r \in Sides : r = Peer(s) /\ r # s /\ Peer(r) = s
  BY PeerSide
<1> DEFINE u == Head(out[s])
           n == Num(s)
           rest == Tail(out[s])
           more == Append(queue[r], u)
<1>1. /\ pc[s] = "write" /\ out' = [out EXCEPT ![s] = rest]
      /\ queue' = [queue EXCEPT ![r] = more]
      /\ UNCHANGED <<closed, link, owed, written, inVars, timeo, asked, call, buf>>
  BY <1>0 DEF WriteUnit, Transmit, optVars
<1>2. /\ out[s] \in Seq(Unit) /\ out[s] # <<>> /\ total[s] = 0 /\ call[s] = owed[s]
      /\ call[s] \in Call /\ ~closed[s] /\ total[s] < call[s].size
      /\ ret[s].op = "none"
      /\ ToInt(call[s].size) > 0 /\ call[s].base + ToInt(call[s].size) = written[s]
  BY <1>1 DEF TLSInv, TypesOK, SendOK, CallOK, Running
<1>3. /\ n = ToInt(call[s].size) /\ n \in Nat \ {0} /\ n <= call[s].size
      /\ total[s] + n = n /\ call[s].size \in Nat /\ call[s].base \in Nat
      /\ call[s].base + n = written[s]
  BY <1>2, ToIntAtMost DEF Num, Call
<1>4. /\ u \in Unit /\ u = out[s][1] /\ rest \in Seq(Unit)
      /\ Len(out[s]) \in Nat \ {0} /\ Len(rest) = Len(out[s]) - 1
      /\ \A i \in 1..Len(rest) : rest[i] = out[s][i + 1]
  BY <1>2, HeadTailProperties, EmptySeq
<1>5. FlowOK(r) /\ queue[r] \in Seq(Unit)
  BY DEF TLSInv, TypesOK
<1>6. /\ more \in Seq(Unit)
      /\ Len(more) = Len(queue[r]) + 1 /\ more # <<>>
      /\ \A i \in 1..Len(queue[r]) : more[i] = queue[r][i]
      /\ more[Len(queue[r]) + 1] = u
  BY <1>4, <1>5, AppendProperties
<1> HIDE DEF u, n, rest, more
<1>7. /\ queue'[r] = more /\ queue'[s] = queue[s]
      /\ queue' \in [Sides -> Seq(Unit)]
      /\ out'[s] = rest /\ out' \in [Sides -> Seq(Unit)]
      /\ \A q \in Sides \ {s} : out'[q] = out[q]
  BY <1>0, <1>1, <1>4, <1>5, <1>6 DEF TLSInv, TypesOK
<1>8. FlowOK(r)'
  <2>1. /\ link[r] = "up" /\ DataUnits(r) = Len(queue[r]) /\ Arrived(r) \in Nat
        /\ \A i \in 1..Len(queue[r]) : queue[r][i].byte = Arrived(r) + i
    BY <1>0, <1>2, OnlyPlain
  <2>2. Arrived(r)' = Arrived(r) /\ Opened(r)' = Opened(r)
    BY <1>1 DEF Arrived, Opened, inVars
  <2>3. /\ Len(out[s]) <= written[s] /\ written[s] \in Nat /\ Len(queue[r]) \in Nat
        /\ Arrived(r) + Len(queue[r]) = written[s] - Len(out[s])
        /\ \A i \in 1..Len(out[s]) : out[s][i].byte = written[s] - Len(out[s]) + i
    BY <1>0, <1>3, <1>5, <2>1 DEF FlowOK
  <2>4. u.byte = Arrived(r) + Len(queue[r]) + 1
    BY <1>4, <2>3
  <2>5. ASSUME NEW i \in 1..Len(queue'[r])
        PROVE  queue'[r][i].byte = Arrived(r)' + i
    <3>1. CASE i <= Len(queue[r])
      <4>1. i \in 1..Len(queue[r]) /\ queue'[r][i] = queue[r][i]
        BY <1>6, <1>7, <2>3, <3>1
      <4>. QED
        BY <2>1, <2>2, <4>1
    <3>2. CASE i = Len(queue[r]) + 1
      BY <1>6, <1>7, <2>1, <2>2, <2>3, <2>4, <3>2
    <3>. QED
      BY <1>6, <1>7, <2>3, <3>1, <3>2
  <2>6. DataUnits(r)' = Len(queue'[r])
    <3>1. queue'[r][Len(queue'[r])] # Alert
      BY <1>6, <1>7, <2>1, <2>3, <2>4 DEF Alert
    <3>. QED
      BY <3>1 DEF DataUnits
  <2>7. /\ Len(out'[s]) = Len(out[s]) - 1 /\ Len(out'[s]) <= written[s]
        /\ \A i \in 1..Len(out'[s]) : out'[s][i].byte = written[s] - Len(out'[s]) + i
    <3>1. Len(out'[s]) = Len(out[s]) - 1 /\ Len(out'[s]) <= written[s]
      BY <1>4, <1>7, <2>3
    <3>2. ASSUME NEW i \in 1..Len(out'[s])
          PROVE  out'[s][i].byte = written[s] - Len(out'[s]) + i
      <4>1. i + 1 \in 1..Len(out[s]) /\ out'[s][i] = out[s][i + 1]
        BY <1>4, <1>7, <3>1
      <4>2. out[s][i + 1].byte = written[s] - Len(out[s]) + (i + 1)
        BY <2>3, <4>1
      <4>3. /\ Len(out'[s]) = Len(out[s]) - 1 /\ Len(out[s]) \in Int
            /\ written[s] \in Int /\ i \in Int /\ Len(out'[s]) \in Int
        BY <1>4, <2>3, <3>1
      <4> DEFINE l == Len(out[s])
                 k == Len(out'[s])
                 w == written[s]
      <4>4. /\ out'[s][i].byte = w - l + (i + 1)
            /\ k = l - 1 /\ l \in Int /\ w \in Int /\ i \in Int
        BY <4>1, <4>2, <4>3
      <4> HIDE DEF l, k, w
      <4>5. out'[s][i].byte = w - k + i
        BY <4>4
      <4>. QED
        BY <4>5 DEF k, w
    <3>. QED
      BY <3>1, <3>2
  <2>8. Arrived(r)' + DataUnits(r)' = written[s] - Len(out'[s])
    <3>1. Len(queue'[r]) = Len(queue[r]) + 1 /\ Len(out'[s]) = Len(out[s]) - 1
          /\ Len(queue'[r]) \in Int /\ Len(out'[s]) \in Int
      BY <1>4, <1>6, <1>7, <2>3, <2>7
    <3>2. /\ Arrived(r) \in Int /\ Len(queue[r]) \in Int /\ Len(out[s]) \in Int
          /\ written[s] \in Int /\ Arrived(r) + Len(queue[r]) = written[s] - Len(out[s])
      BY <1>4, <2>1, <2>3
    <3>3. Arrived(r) + (Len(queue[r]) + 1) = written[s] - (Len(out[s]) - 1)
      BY <3>2, UnitMoves
    <3>. QED
      BY <2>2, <2>6, <3>1, <3>3, Zenon
  <2>9. /\ \A i \in 1..Len(plain[r]) : plain[r][i] = taken[r] + i
        /\ \A i \in 1..Len(inRec[r]) : inRec[r][i] = Opened(r) + i
    BY <1>5 DEF FlowOK
  <2>. QED
    BY <1>0, <1>1, <1>5, <2>1, <2>2, <2>5, <2>7, <2>8, <2>9 DEF FlowOK, inVars
<1>9. CASE Len(out[s]) > 1
  <2>1. UNCHANGED <<pc, total, ret>>
    BY <1>9 DEF WriteUnit
  <2>2. out'[s] # <<>>
    BY <1>4, <1>7, <1>9
  <2>3. TypesOK'
    BY <1>1, <1>7, <2>1 DEF TLSInv, TypesOK, inVars
  <2>4. CallOK(s)' /\ RecvOK(s)'
    BY <1>1, <2>1 DEF TLSInv, CallOK, Running, RecvOK, Filled, inVars
  <2>5. SendOK(s)'
    BY <1>1, <1>2, <2>1, <2>2 DEF TLSInv, SendOK
  <2>. QED
    BY <1>0, <1>1, <1>7, <1>8, <2>1, <2>3, <2>4, <2>5, SenderStep
<1>10. CASE ~(Len(out[s]) > 1)
  <2>1. /\ total' = [total EXCEPT ![s] = n]
        /\ IF n < call[s].size THEN pc' = [pc EXCEPT ![s] = "send"] /\ UNCHANGED ret
           ELSE Returns(s, "send", 1)
    BY <1>3, <1>10 DEF WriteUnit, Goto, n
  <2>2. out'[s] = <<>>
    BY <1>4, <1>7, <1>10
  <2>3. total' \in [Sides -> Nat] /\ total'[s] = n
        /\ \A q \in Sides \ {s} : total'[q] = total[q]
    BY <1>3, <2>1 DEF TLSInv, TypesOK
  <2>4. /\ pc' \in [Sides -> {"idle", "send", "write", "recv", "shutdown", "killed"}]
        /\ ret' \in [Sides -> [op : {"none", "send", "recv"}, val : Int]]
        /\ \A q \in Sides \ {s} : pc'[q] = pc[q] /\ ret'[q] = ret[q]
        /\ n < call[s].size => pc'[s] = "send" /\ ret'[s] = ret[s]
        /\ ~(n < call[s].size) => pc'[s] = "idle" /\ ret'[s] = [op |-> "send", val |-> 1]
    <3>1. CASE n < call[s].size
      BY <2>1, <3>1 DEF TLSInv, TypesOK
    <3>2. CASE ~(n < call[s].size)
      BY <2>1, <3>2, ReturnsType DEF TLSInv
    <3>. QED
      BY <3>1, <3>2
  <2>5. TypesOK'
    BY <1>1, <1>7, <2>3, <2>4 DEF TLSInv, TypesOK, inVars
  <2>6. CallOK(s)' /\ RecvOK(s)'
    BY <1>1, <1>2, <1>3, <2>3, <2>4 DEF TLSInv, CallOK, Running, RecvOK
  <2>7. SendOK(s)'
    <3>1. CASE n < call[s].size
      <4>1. Num(s)' = 0
        BY <1>1, <1>3, <2>3, <3>1, RestIsZero DEF Num
      <4>. QED
        BY <1>1, <1>2, <1>3, <2>2, <2>3, <2>4, <3>1, <4>1 DEF SendOK
    <3>2. CASE ~(n < call[s].size)
      BY <1>1, <1>3, <2>2, <2>4, <3>2 DEF SendOK
    <3>. QED
      BY <3>1, <3>2
  <2>. QED
    BY <1>0, <1>1, <1>7, <1>8, <2>3, <2>4, <2>5, <2>6, <2>7, SenderStep
<1>. QED
  BY <1>9, <1>10

-----------------------------------------------------------------------------
(* Receiving *)

\* the other side, and the flow to it, when s works on what arrives at it
LEMMA ReceiverStep ==
  ASSUME TLSInv, NEW s \in Sides, TypesOK',
         UNCHANGED <<outVars, call>>,
         queue'[Peer(s)] = queue[Peer(s)],
         \A q \in Sides \ {s} :
           /\ pc'[q] = pc[q] /\ total'[q] = total[q] /\ ret'[q] = ret[q]
           /\ buf'[q] = buf[q] /\ taken'[q] = taken[q]
           /\ inRec'[q] = inRec[q] /\ plain'[q] = plain[q]
           /\ closed'[q] = closed[q] /\ link'[q] = link[q],
         closed[s] => closed'[s],
         FlowOK(s)', CallOK(s)' /\ SendOK(s)' /\ RecvOK(s)'
  PROVE  TLSInv'
<1>1. PICK r \in Sides : r = Peer(s) /\ r # s /\ Peer(r) = s /\ Sides = {s, r}
  BY PeerSide DEF Sides, Peer
<1>2. FlowOK(r)'
  BY <1>1, FlowKept DEF TLSInv, outVars
<1>3. CallOK(r)' /\ SendOK(r)' /\ RecvOK(r)'
  BY <1>1, LoopsKept DEF TLSInv, outVars
<1>. QED
  BY <1>1, <1>2, <1>3 DEF TLSInv

LEMMA KeepsReadUnit ==
  ASSUME TLSInv, NEW s \in Sides, ReadUnit(s)  PROVE TLSInv'
<1> DEFINE rest == Tail(queue[s])
           u == queue[s][1]
           bytes == Append(inRec[s], u.byte)
           a == Arrived(s)
           len == Len(queue[s])
<1>0. queue[s] \in Seq(Unit) /\ queue[s] # <<>>
  BY DEF ReadUnit, TLSInv, TypesOK
<1>1. /\ plain[s] = <<>> /\ queue' = [queue EXCEPT ![s] = rest]
      /\ IF u = Alert
         THEN notified' = [notified EXCEPT ![s] = TRUE] /\ UNCHANGED <<inRec, plain>>
         ELSE /\ inRec' = [inRec EXCEPT ![s] = IF u.last THEN <<>> ELSE bytes]
              /\ plain' = [plain EXCEPT ![s] = IF u.last THEN bytes ELSE <<>>]
              /\ UNCHANGED notified
      /\ UNCHANGED <<closed, link, out, owed, written, taken, pc, call, total, buf, ret,
                     timeo, asked>>
  BY <1>0 DEF ReadUnit, outVars, loopVars, optVars
<1>2. /\ u \in Unit /\ u.byte \in Nat /\ u.last \in BOOLEAN
      /\ rest \in Seq(Unit) /\ len \in Nat \ {0}
      /\ Len(rest) = len - 1 /\ \A i \in 1..Len(rest) : rest[i] = queue[s][i + 1]
  <2>1. len \in Nat \ {0}
    BY <1>0, EmptySeq
  <2>2. u \in Unit
    BY <1>0, <2>1, ElementOfSeq
  <2>3. /\ rest \in Seq(Unit) /\ Len(rest) = len - 1
        /\ \A i \in 1..Len(rest) : rest[i] = queue[s][i + 1]
    BY <1>0, HeadTailProperties
  <2>. QED
    BY <2>1, <2>2, <2>3 DEF Unit
<1>3. /\ taken[s] \in Nat /\ inRec[s] \in Seq(Nat) /\ Len(inRec[s]) \in Nat
      /\ Len(plain[s]) = 0 /\ Opened(s) = taken[s] /\ a = taken[s] + Len(inRec[s])
  BY <1>1 DEF TLSInv, TypesOK, Opened, Arrived
<1>4. /\ bytes \in Seq(Nat) /\ Len(bytes) = Len(inRec[s]) + 1
      /\ \A i \in 1..Len(inRec[s]) : bytes[i] = inRec[s][i]
      /\ bytes[Len(inRec[s]) + 1] = u.byte
  BY <1>2, <1>3, AppendProperties
<1>5. FlowOK(s)
  BY DEF TLSInv
<1>6. /\ queue'[s] = rest /\ queue'[Peer(s)] = queue[Peer(s)]
      /\ queue' \in [Sides -> Seq(Unit)]
  BY <1>1, <1>2, PeerSide DEF TLSInv, TypesOK
<1>7. /\ \A i \in 1..len : \/ queue[s][i].byte = a + i
                           \/ queue[s][i] = Alert /\ i = len /\ closed[Peer(s)]
      /\ \A i \in 1..Len(inRec[s]) : inRec[s][i] = taken[s] + i
  BY <1>3, <1>5 DEF FlowOK
<1> HIDE DEF rest, u, bytes, a, len
<1>8. CASE u = Alert
  <2>1. len = 1
    <3>1. 1 \in 1..len /\ queue[s][1].byte = 0 /\ a + 1 # 0
      BY <1>2, <1>3, <1>8 DEF u, Alert
    <3>. QED
      BY <1>7, <3>1
  <2>2. UNCHANGED <<inRec, plain>> /\ notified' \in [Sides -> BOOLEAN]
    BY <1>1, <1>8 DEF TLSInv, TypesOK
  <2>3. TypesOK'
    BY <1>1, <1>6, <2>2 DEF TLSInv, TypesOK
  <2>4. Len(queue'[s]) = 0 /\ queue'[s] = <<>>
    BY <1>2, <1>6, <2>1, EmptySeq
  <2>5. DataUnits(s) = 0 /\ DataUnits(s)' = 0
    BY <1>0, <1>8, <2>1, <2>4 DEF DataUnits, len, u
  <2>6. FlowOK(s)'
    BY <1>1, <1>5, <2>2, <2>4, <2>5 DEF FlowOK, Opened, Arrived
  <2>7. CallOK(s)' /\ SendOK(s)' /\ RecvOK(s)'
    BY <1>1, LoopsKept DEF TLSInv
  <2>. QED
    BY <1>1, <1>6, <2>2, <2>3, <2>6, <2>7, ReceiverStep DEF outVars
<1>9. CASE u # Alert
  <2>1. u.byte = a + 1
    BY <1>2, <1>7, <1>9 DEF u
  <2>2. \A i \in 1..Len(bytes) : bytes[i] = taken[s] + i
    <3>1. ASSUME NEW i \in 1..Len(bytes)  PROVE bytes[i] = taken[s] + i
      <4>1. CASE i \in 1..Len(inRec[s])
        BY <1>4, <1>7, <4>1
      <4>2. CASE i = Len(inRec[s]) + 1
        <5> DEFINE n == Len(inRec[s])
                   t == taken[s]
        <5>1. bytes[i] = a + 1 /\ a = t + n /\ i = n + 1 /\ t \in Int /\ n \in Int
          BY <1>3, <1>4, <2>1, <4>2
        <5> HIDE DEF n, t
        <5>2. bytes[i] = t + i
          BY <5>1
        <5>. QED
          BY <5>2 DEF t
      <4>. QED
        BY <1>3, <1>4, <4>1, <4>2
    <3>. QED
      BY <3>1
  <2>3. /\ notified' = notified
        /\ inRec'[s] = IF u.last THEN <<>> ELSE bytes
        /\ plain'[s] = IF u.last THEN bytes ELSE <<>>
        /\ inRec' \in [Sides -> Seq(Nat)] /\ plain' \in [Sides -> Seq(Nat)]
        /\ \A q \in Sides \ {s} : inRec'[q] = inRec[q] /\ plain'[q] = plain[q]
    <3>1. /\ inRec' = [inRec EXCEPT ![s] = IF u.last THEN <<>> ELSE bytes]
          /\ plain' = [plain EXCEPT ![s] = IF u.last THEN bytes ELSE <<>>]
          /\ notified' = notified
      BY <1>1, <1>9
    <3>2. <<>> \in Seq(Nat)
      BY EmptySeq
    <3>3. /\ (IF u.last THEN <<>> ELSE bytes) \in Seq(Nat)
          /\ (IF u.last THEN bytes ELSE <<>>) \in Seq(Nat)
      BY <1>4, <3>2
    <3>. QED
      BY <3>1, <3>3 DEF TLSInv, TypesOK
  <2>4. TypesOK'
    BY <1>1, <1>6, <2>3 DEF TLSInv, TypesOK
  <2>5. /\ Arrived(s)' = a + 1
        /\ \A i \in 1..Len(plain'[s]) : plain'[s][i] = taken[s] + i
        /\ \A i \in 1..Len(inRec'[s]) : inRec'[s][i] = Opened(s)' + i
    <3>1. CASE u.last
      <4>1. inRec'[s] = <<>> /\ plain'[s] = bytes /\ Len(inRec'[s]) = 0
        BY <2>3, <3>1
      <4>2. Opened(s)' = taken[s] + Len(bytes) /\ Arrived(s)' = Opened(s)' + 0
        BY <1>1, <4>1 DEF Arrived, Opened
      <4> DEFINE n == Len(inRec[s])
                 t == taken[s]
      <4>3. /\ Len(bytes) = n + 1 /\ a = t + n /\ t \in Int /\ n \in Int
            /\ Opened(s)' = t + Len(bytes)
        BY <1>3, <1>4, <4>2
      <4> HIDE DEF n, t
      <4>4. Opened(s)' = a + 1 /\ a + 1 \in Int
        BY <4>3
      <4>. QED
        BY <2>2, <4>1, <4>2, <4>4
    <3>2. CASE ~u.last
      <4>1. inRec'[s] = bytes /\ plain'[s] = <<>> /\ Len(plain'[s]) = 0
        BY <2>3, <3>2
      <4>2. Opened(s)' = taken[s]
        BY <1>1, <1>3, <4>1 DEF Opened
      <4>. QED
        BY <1>1, <1>3, <1>4, <2>2, <4>1, <4>2 DEF Arrived
    <3>. QED
      BY <3>1, <3>2
  <2>6. ASSUME NEW i \in 1..Len(rest)
        PROVE  \/ rest[i].byte = (a + 1) + i
               \/ rest[i] = Alert /\ i = Len(rest) /\ closed[Peer(s)]
    <3>1. i + 1 \in 1..len /\ rest[i] = queue[s][i + 1] /\ i \in Int /\ a \in Int
          /\ (i + 1 = len => i = Len(rest))
      BY <1>2, <1>3
    <3>. QED
      BY <1>7, <3>1
  <2>7. DataUnits(s) = DataUnits(s)' + 1 /\ DataUnits(s)' \in Int
    <3>1. CASE len = 1
      <4>1. queue'[s] = <<>> /\ Len(queue'[s]) = 0 /\ queue[s][len] # Alert
        BY <1>2, <1>6, <1>9, <3>1, EmptySeq DEF u
      <4>. QED
        BY <3>1, <4>1 DEF DataUnits, len
    <3>2. CASE len # 1
      <4>1. /\ rest # <<>> /\ Len(rest) = len - 1 /\ len \in Int
            /\ rest[Len(rest)] = queue[s][len]
        BY <1>2, <3>2
      <4>. QED
        BY <1>0, <1>6, <4>1 DEF DataUnits, len
    <3>. QED
      BY <3>1, <3>2
  <2>8. link[s] = "up" => (a + 1) + DataUnits(s)' = written[Peer(s)] - Len(out[Peer(s)])
    <3>1. link[s] = "up" => a + DataUnits(s) = written[Peer(s)] - Len(out[Peer(s)])
      BY <1>5 DEF FlowOK, a
    <3>2. a \in Int
      BY <1>3
    <3>. QED
      BY <2>7, <3>1, <3>2
  <2>9. FlowOK(s)'
    BY <1>1, <1>5, <1>6, <2>5, <2>6, <2>8 DEF FlowOK
  <2>10. CallOK(s)' /\ SendOK(s)' /\ RecvOK(s)'
    BY <1>1, LoopsKept DEF TLSInv
  <2>. QED
    BY <1>1, <1>6, <2>3, <2>4, <2>9, <2>10, ReceiverStep DEF outVars
<1>. QED
  BY <1>8, <1>9

LEMMA KeepsReadPlain ==
  ASSUME TLSInv, NEW s \in Sides, ReadPlain(s)  PROVE TLSInv'
<1>1. /\ pc[s] = "recv" /\ Num(s) > 0 /\ Len(plain[s]) > 0
      /\ UNCHANGED <<queue, closed, link, out, owed, written, timeo, asked, inRec, notified,
                     call>>
  BY DEF ReadPlain, PendingBytes, netVars, outVars, optVars
<1>2. PICK t \in Nat, k \in Nat, b \in Nat, size \in Nat, p \in Nat :
        /\ t = total[s] /\ k = taken[s] /\ b = call[s].base /\ size = call[s].size
        /\ p = Len(plain[s])
  BY LenProperties DEF TLSInv, TypesOK, Call
<1>3. /\ t < size /\ k = b + t /\ p > 0 /\ call[s] \in Call
      /\ buf[s] \in [1..size -> Nat] /\ \A i \in 1..t : buf[s][i] = b + i
      /\ plain[s] \in Seq(Nat) /\ ret[s].op = "none" /\ ~closed[s]
      /\ Num(s) = ToInt(size - t)
  BY <1>1, <1>2 DEF TLSInv, TypesOK, CallOK, Running, RecvOK, Filled, Num
<1>3a. PICK n :
        /\ n = IF Num(s) < p THEN Num(s) ELSE p
        /\ buf' = [buf EXCEPT ![s] = [i \in DOMAIN buf[s] |->
             IF i \in (t + 1)..(t + n) THEN plain[s][i - t] ELSE buf[s][i]]]
        /\ plain' = [plain EXCEPT ![s] = SubSeq(plain[s], n + 1, p)]
        /\ taken' = [taken EXCEPT ![s] = k + n]
        /\ Continue(s, t + n)
  BY <1>2 DEF ReadPlain, PendingBytes
<1> DEFINE rest == SubSeq(plain[s], n + 1, p)
           new == [i \in DOMAIN buf[s] |->
             IF i \in (t + 1)..(t + n) THEN plain[s][i - t] ELSE buf[s][i]]
<1>4. /\ p \in Nat \ {0}
      /\ \A i \in 1..p : plain[s][i] \in Nat /\ plain[s][i] = k + i
  <2>1. \A i \in 1..p : plain[s][i] \in Nat
    BY <1>2, <1>3, ElementOfSeq
  <2>2. \A i \in 1..Len(plain[s]) : plain[s][i] = taken[s] + i
    BY DEF TLSInv, FlowOK
  <2>. QED
    BY <1>2, <1>3, <2>1, <2>2
<1>5. n \in Nat \ {0} /\ n <= p /\ t + n <= size
  <2>1. Num(s) \in Int /\ Num(s) <= size - t
    <3>1. size - t \in Nat
      BY <1>3
    <3>. QED
      BY <1>3, <3>1, ToIntAtMost
  <2>2. PICK m \in Int : m = Num(s)
    BY <2>1
  <2>3. m > 0 /\ m <= size - t /\ n = IF m < p THEN m ELSE p
    BY <1>3a, <1>1, <2>1, <2>2
  <2>. QED
    BY <1>4, <2>3
<1>6. /\ rest \in Seq(Nat) /\ Len(rest) = p - n
      /\ \A i \in 1..(p - n) : rest[i] = plain[s][n + i]
  <2>1. n + 1 \in Int /\ p \in Int /\ \A i \in (n + 1)..p : plain[s][i] \in Nat
    BY <1>4, <1>5
  <2>2. /\ rest \in Seq(Nat)
        /\ Len(rest) = IF n + 1 <= p THEN p - (n + 1) + 1 ELSE 0
        /\ \A i \in 1..(p - (n + 1) + 1) : rest[i] = plain[s][(n + 1) + i - 1]
    BY <2>1, SubSeqProperties
  <2>3. p - (n + 1) + 1 = p - n /\ \A i \in 1..(p - n) : (n + 1) + i - 1 = n + i
    BY <1>4, <1>5
  <2>4. Len(rest) = p - n
    BY <1>4, <1>5, <2>2
  <2>. QED
    BY <2>2, <2>3, <2>4
<1>7. /\ new \in [1..size -> Nat] /\ new \in Seq(Nat)
      /\ \A i \in 1..(t + n) : new[i] = b + i
  <2>1. DOMAIN buf[s] = 1..size /\ \A i \in 1..size : buf[s][i] \in Nat
    BY <1>3
  <2>2. ASSUME NEW i \in 1..size, i \in (t + 1)..(t + n)
        PROVE  plain[s][i - t] \in Nat /\ plain[s][i - t] = b + i
    <3>1. i - t \in 1..p
      BY <1>3, <1>4, <1>5, <2>2
    <3>2. plain[s][i - t] \in Nat /\ plain[s][i - t] = k + (i - t)
      BY <1>4, <3>1
    <3>. QED
      BY <1>3, <3>2
  <2>3. new \in [1..size -> Nat]
    BY <2>1, <2>2
  <2> HIDE DEF new
  <2>4. new \in Seq(Nat)
    BY <2>3
  <2>5. ASSUME NEW i \in 1..(t + n)  PROVE new[i] = b + i
    <3>1. i \in 1..size /\ (i \in 1..t \/ i \in (t + 1)..(t + n))
          /\ ~(i \in 1..t /\ i \in (t + 1)..(t + n))
      BY <1>3, <1>5
    <3>2. new[i] = IF i \in (t + 1)..(t + n) THEN plain[s][i - t] ELSE buf[s][i]
      BY <2>1, <3>1 DEF new
    <3>3. CASE i \in (t + 1)..(t + n)
      BY <2>2, <3>1, <3>2, <3>3
    <3>4. CASE i \in 1..t
      BY <1>3, <3>1, <3>2, <3>4
    <3>. QED
      BY <3>1, <3>3, <3>4
  <2>. QED
    BY <2>3, <2>4, <2>5
<1> HIDE DEF rest, new
<1>8. /\ buf'[s] = new /\ plain'[s] = rest /\ taken'[s] = k + n /\ total'[s] = t + n
      /\ buf' \in [Sides -> Seq(Nat)] /\ plain' \in [Sides -> Seq(Nat)]
      /\ taken' \in [Sides -> Nat] /\ total' \in [Sides -> Nat]
      /\ \A q \in Sides \ {s} : /\ buf'[q] = buf[q] /\ plain'[q] = plain[q]
                               /\ taken'[q] = taken[q] /\ total'[q] = total[q]
  <2>1. buf' = [buf EXCEPT ![s] = new]
    BY <1>3a DEF new
  <2>2. plain' = [plain EXCEPT ![s] = rest] /\ total' = [total EXCEPT ![s] = t + n]
    BY <1>3a DEF rest, Continue
  <2>3. k + n \in Nat /\ t + n \in Nat
    BY <1>3, <1>5
  <2>4. /\ buf'[s] = new /\ buf' \in [Sides -> Seq(Nat)]
        /\ plain'[s] = rest /\ plain' \in [Sides -> Seq(Nat)]
        /\ \A q \in Sides \ {s} : buf'[q] = buf[q] /\ plain'[q] = plain[q]
    BY <1>6, <1>7, <2>1, <2>2 DEF TLSInv, TypesOK
  <2>5. /\ taken'[s] = k + n /\ taken' \in [Sides -> Nat]
        /\ total'[s] = t + n /\ total' \in [Sides -> Nat]
        /\ \A q \in Sides \ {s} : taken'[q] = taken[q] /\ total'[q] = total[q]
    BY <1>3a, <2>2, <2>3 DEF TLSInv, TypesOK
  <2>. QED
    BY <2>4, <2>5
<1>9. /\ pc' \in [Sides -> {"idle", "send", "write", "recv", "shutdown", "killed"}]
      /\ ret' \in [Sides -> [op : {"none", "send", "recv"}, val : Int]]
      /\ \A q \in Sides \ {s} : pc'[q] = pc[q] /\ ret'[q] = ret[q]
      /\ \/ pc'[s] = "recv" /\ ret'[s] = ret[s] /\ t + n < size
         \/ pc'[s] = "idle" /\ ret'[s] = [op |-> "recv", val |-> t + n]
  <2>1. CASE call[s].fully /\ t + n < size
    BY <1>3a, <1>1, <1>2, <2>1 DEF Continue, TLSInv, TypesOK
  <2>2. CASE ~(call[s].fully /\ t + n < size)
    <3>1. Returns(s, "recv", t + n) /\ t + n \in Int
      BY <1>3a, <1>2, <1>3, <1>5, <2>2 DEF Continue
    <3>. QED
      BY <3>1, ReturnsType DEF TLSInv
  <2>. QED
    BY <2>1, <2>2
<1>10. TypesOK'
  BY <1>1, <1>8, <1>9 DEF TLSInv, TypesOK
<1>11. k + n = b + (t + n)
  BY <1>3, <1>5
<1>12. FlowOK(s)'
  <2>1. FlowOK(s) /\ Len(inRec[s]) \in Nat
    BY LenProperties DEF TLSInv, TypesOK
  <2>2. (k + n) + (p - n) = k + p
    BY <1>3, <1>4, <1>5
  <2>3. Opened(s)' = Opened(s) /\ Arrived(s)' = Arrived(s)
    BY <1>1, <1>2, <1>6, <1>8, <2>2 DEF Opened, Arrived
  <2>4. ASSUME NEW i \in 1..Len(rest)  PROVE rest[i] = (k + n) + i
    <3>1. n + i \in 1..p /\ rest[i] = plain[s][n + i] /\ i \in Int
      BY <1>4, <1>5, <1>6
    <3>. QED
      BY <1>3, <1>4, <1>5, <3>1
  <2>. QED
    BY <1>1, <1>8, <2>1, <2>3, <2>4 DEF FlowOK, DataUnits
<1>13. CallOK(s)' /\ SendOK(s)'
  <2>1. CallOK(s)'
    BY <1>1, <1>2, <1>3, <1>8, <1>9 DEF CallOK, Running
  <2>2. /\ pc'[s] \notin {"send", "write"} /\ ret'[s].op # "send"
        /\ out'[s] = out[s] /\ owed'[s] = owed[s] /\ written'[s] = written[s]
    BY <1>1, <1>3, <1>9
  <2>3. SendOK(s)'
    BY <2>2 DEF TLSInv, SendOK
  <2>. QED
    BY <2>1, <2>3
<1>14. RecvOK(s)'
  <2>1. Filled(s, t + n)'
    BY <1>1, <1>2, <1>7, <1>8 DEF Filled
  <2>2. CASE pc'[s] = "recv" /\ ret'[s] = ret[s]
    BY <1>1, <1>2, <1>3, <1>7, <1>8, <1>11, <2>1, <2>2 DEF RecvOK
  <2>3. CASE pc'[s] = "idle" /\ ret'[s] = [op |-> "recv", val |-> t + n]
    <3>1. t + n # -1 /\ t + n = (k + n) - b
      BY <1>3, <1>5, <1>11
    <3>. QED
      BY <1>1, <1>2, <1>8, <2>1, <2>3, <3>1 DEF RecvOK
  <2>. QED
    BY <1>9, <2>2, <2>3
<1>. QED
  BY <1>1, <1>8, <1>9, <1>10, <1>12, <1>13, <1>14, PeerSide, ReceiverStep DEF outVars

-----------------------------------------------------------------------------
(* The end of a connection *)

LEMMA KeepsShutdown ==
  ASSUME TLSInv, NEW s \in Sides, Shutdown(s)  PROVE TLSInv'
<1>1. /\ pc[s] = "shutdown" /\ ~closed[s]
      /\ closed' = [closed EXCEPT ![s] = TRUE] /\ pc' = [pc EXCEPT ![s] = "idle"]
      /\ UNCHANGED <<link, outVars, inVars, timeo, asked, call, total, buf, ret>>
  BY DEF Shutdown, Goto, optVars, TLSInv, CallOK
<1>2. PICK r \in Sides : r = Peer(s) /\ r # s /\ Peer(r) = s /\ Sides = {s, r}
  BY PeerSide DEF Sides, Peer
<1>3. /\ pc' \in [Sides -> {"idle", "send", "write", "recv", "shutdown", "killed"}]
      /\ pc'[s] = "idle" /\ pc'[r] = pc[r]
      /\ closed' \in [Sides -> BOOLEAN] /\ closed'[s] /\ closed'[r] = closed[r]
  BY <1>1, <1>2 DEF TLSInv, TypesOK
<1>4. CallOK(s)' /\ SendOK(s)' /\ RecvOK(s)'
  BY <1>1, <1>3 DEF TLSInv, CallOK, Running, SendOK, RecvOK, Filled, outVars, inVars
<1>5. CASE queue' = queue
  <2>1. TypesOK'
    BY <1>1, <1>3, <1>5 DEF TLSInv, TypesOK, outVars, inVars
  <2>. QED
    BY <1>1, <1>2, <1>3, <1>4, <1>5, <2>1, StepOf
<1>6. CASE queue' # queue
  <2> DEFINE more == Append(queue[r], Alert)
  <2>1. /\ queue' = [queue EXCEPT ![r] = more] /\ queue[r] \in Seq(Unit)
    BY <1>2, <1>6 DEF Shutdown, Transmit, TLSInv, TypesOK
  <2>2. PICK len \in Nat : len = Len(queue[r])
    BY <2>1, LenProperties
  <2>3. /\ more \in Seq(Unit) /\ Len(more) = len + 1 /\ more # <<>>
        /\ \A i \in 1..len : more[i] = queue[r][i]
        /\ more[len + 1] = Alert
    <3>1. Alert \in Unit
      BY DEF Alert, Unit
    <3>. QED
      BY <2>1, <2>2, <3>1, AppendProperties
  <2> HIDE DEF more
  <2>4. /\ queue' \in [Sides -> Seq(Unit)] /\ queue'[r] = more /\ queue'[s] = queue[s]
    BY <1>2, <2>1, <2>3 DEF TLSInv, TypesOK
  <2>5. TypesOK'
    BY <1>1, <1>3, <2>4 DEF TLSInv, TypesOK, outVars, inVars
  <2>6. /\ FlowOK(r) /\ DataUnits(r) = len
        /\ \A i \in 1..len : queue[r][i].byte = Arrived(r) + i
    BY <1>1, <1>2, <2>2, OnlyPlain DEF TLSInv
  <2>7. Arrived(r)' = Arrived(r) /\ Opened(r)' = Opened(r)
    BY <1>1 DEF Arrived, Opened, inVars
  <2>8. DataUnits(r)' = len
    <3>1. queue'[r] # <<>> /\ Len(queue'[r]) = len + 1 /\ queue'[r][len + 1] = Alert
      BY <2>3, <2>4
    <3>. QED
      BY <3>1 DEF DataUnits
  <2>9. ASSUME NEW i \in 1..Len(more)
        PROVE  \/ more[i].byte = Arrived(r) + i
               \/ more[i] = Alert /\ i = Len(more)
    <3>1. i \in 1..len \/ i = len + 1
      BY <2>3
    <3>. QED
      BY <2>3, <2>6, <3>1
  <2>10. FlowOK(r)'
    BY <1>1, <1>2, <1>3, <2>4, <2>6, <2>7, <2>8, <2>9 DEF FlowOK, outVars, inVars
  <2>11. FlowOK(s)'
    BY <1>1, <1>2, <1>3, <2>4, FlowKept DEF TLSInv, outVars, inVars
  <2>12. CallOK(r)' /\ SendOK(r)' /\ RecvOK(r)'
    BY <1>1, <1>2, <1>3, LoopsKept DEF TLSInv, outVars, inVars
  <2>. QED
    BY <1>2, <1>4, <2>5, <2>10, <2>11, <2>12 DEF TLSInv
<1>. QED
  BY <1>5, <1>6

LEMMA KeepsBreaks ==
  ASSUME TLSInv, NEW s \in Sides, Breaks(s)  PROVE TLSInv'
<1>1. PICK b \in {"reset", "dead"}, n \in 0..Len(queue[s]) :
        /\ closed[Peer(s)] /\ link' = [link EXCEPT ![s] = b]
        /\ queue' = [queue EXCEPT ![s] = SubSeq(queue[s], 1, n)]
        /\ UNCHANGED <<closed, out, owed, written, inRec, plain, notified, taken, pc, call,
                       total, buf, ret, timeo, asked>>
  BY DEF Breaks, outVars, inVars, loopVars, optVars
<1>2. PICK len \in Nat : len = Len(queue[s])
  BY LenProperties DEF TLSInv, TypesOK
<1> DEFINE kept == SubSeq(queue[s], 1, n)
<1>3. /\ kept \in Seq(Unit) /\ Len(kept) = n /\ n \in 0..len
      /\ \A i \in 1..n : kept[i] = queue[s][i]
  <2>1. n \in 0..len /\ \A i \in 1..n : queue[s][i] \in Unit
    BY <1>1, <1>2, ElementOfSeq DEF TLSInv, TypesOK
  <2>2. /\ kept \in Seq(Unit) /\ Len(kept) = IF 1 <= n THEN n - 1 + 1 ELSE 0
        /\ \A i \in 1..(n - 1 + 1) : kept[i] = queue[s][1 + i - 1]
    BY <2>1, SubSeqProperties
  <2>3. n - 1 + 1 = n /\ \A i \in 1..n : 1 + i - 1 = i
    BY <2>1
  <2>4. Len(kept) = n
    BY <2>1, <2>2
  <2>. QED
    BY <2>1, <2>2, <2>3, <2>4
<1> HIDE DEF kept
<1>4. /\ queue'[s] = kept /\ queue' \in [Sides -> Seq(Unit)]
      /\ link'[s] # "up" /\ link' \in [Sides -> {"up", "reset", "dead"}]
      /\ \A q \in Sides \ {s} : queue'[q] = queue[q] /\ link'[q] = link[q]
  <2>1. queue' = [queue EXCEPT ![s] = kept]
    BY <1>1 DEF kept
  <2>2. /\ queue'[s] = kept /\ queue' \in [Sides -> Seq(Unit)]
        /\ \A q \in Sides \ {s} : queue'[q] = queue[q]
    BY <1>3, <2>1 DEF TLSInv, TypesOK
  <2>3. /\ link'[s] = b /\ link' \in [Sides -> {"up", "reset", "dead"}]
        /\ \A q \in Sides \ {s} : link'[q] = link[q]
    BY <1>1 DEF TLSInv, TypesOK
  <2>. QED
    BY <2>2, <2>3
<1>5. TypesOK'
  BY <1>1, <1>4 DEF TLSInv, TypesOK
<1>6. FlowOK(s)'
  <2>1. FlowOK(s) /\ Opened(s)' = Opened(s) /\ Arrived(s)' = Arrived(s)
    BY <1>1 DEF TLSInv, Opened, Arrived
  <2>2. ASSUME NEW i \in 1..n
        PROVE  \/ kept[i].byte = Arrived(s) + i
               \/ kept[i] = Alert /\ i = n /\ closed[Peer(s)]
    BY <1>2, <1>3, <2>1 DEF FlowOK
  <2>. QED
    BY <1>1, <1>3, <1>4, <2>1, <2>2 DEF FlowOK
<1>7. ASSUME NEW q \in Sides, q # s  PROVE FlowOK(q)'
  BY <1>1, <1>4, <1>7, FlowKept DEF TLSInv
<1>8. ASSUME NEW q \in Sides  PROVE CallOK(q)' /\ SendOK(q)' /\ RecvOK(q)'
  BY <1>1, LoopsKept DEF TLSInv
<1>. QED
  BY <1>5, <1>6, <1>7, <1>8 DEF TLSInv

-----------------------------------------------------------------------------
LEMMA InvStep == TLSInv /\ [Next]_vars => TLSInv'
<1> SUFFICES ASSUME TLSInv, [Next]_vars  PROVE TLSInv'
  OBVIOUS
<1>1. ASSUME NEW s \in Sides, SendStep(s)  PROVE TLSInv'
  <2>1. CASE EnterWrite(s) \/ WriteUnit(s)
    BY <2>1, KeepsEnterWrite, KeepsWriteUnit
  <2>2. CASE BadCount(s)
    BY <2>2, KeepsReturns DEF BadCount, netVars
  <2>3. CASE WriteFails(s)
    BY <2>3, KeepsReturns DEF WriteFails
  <2>4. CASE WriteKilled(s)
    BY <2>4, KeepsDies DEF WriteKilled
  <2>. QED
    BY <1>1, <2>1, <2>2, <2>3, <2>4 DEF SendStep
<1>2. ASSUME NEW s \in Sides, RecvStep(s)  PROVE TLSInv'
  <2>1. CASE ReadPlain(s) \/ ReadUnit(s)
    BY <2>1, KeepsReadPlain, KeepsReadUnit
  <2>2. CASE ReadFails(s)
    BY <2>2, KeepsReturns DEF ReadFails
  <2>. QED
    BY <1>2, <2>1, <2>2 DEF RecvStep
<1>3. ASSUME NEW s \in Sides, ShutdownStep(s) \/ Crash(s)  PROVE TLSInv'
  BY <1>3, KeepsShutdown, KeepsDies DEF ShutdownStep, ShutdownKilled, Crash
<1>4. ASSUME NEW s \in Sides, RejectSend(s) \/ RejectReceive(s)  PROVE TLSInv'
  BY <1>4, KeepsReturns DEF RejectSend, RejectReceive, Rejects, netVars
<1>5. CASE UNCHANGED vars
  <2>1. UNCHANGED <<queue, closed, link, out, owed, inRec, plain, notified, written, taken,
                    pc, call, total, buf, timeo, asked, ret>>
    BY <1>5 DEF vars, netVars, outVars, inVars, loopVars, optVars
  <2>2. TypesOK'
    BY <2>1 DEF TLSInv, TypesOK
  <2>3. ASSUME NEW s \in Sides  PROVE FlowOK(s)' /\ CallOK(s)' /\ SendOK(s)' /\ RecvOK(s)'
    BY <2>1, FlowKept, LoopsKept DEF TLSInv
  <2>. QED
    BY <2>2, <2>3 DEF TLSInv
<1>. QED
  BY <1>1, <1>2, <1>3, <1>4, <1>5, KeepsCallSend, KeepsCallReceive, KeepsCallDisconnect,
     KeepsBreaks, KeepsSetTimeout
  DEF Next

LEMMA InvHolds == TLSSpec => []TLSInv
BY InvInit, InvStep, PTL DEF TLSSpec

\* Every variable keeps its type, and SSL_write and SSL_read stay inside the
\* caller's buffer, for every uSize and every INT_MAX; a repeated SSL_write
\* has its first arguments (TCPSSLClient.cpp:169, 226).
THEOREM TLSBuffersSafe == TLSSpec => []TLSTypeOK
<1>1. TLSInv => TLSTypeOK
  <2> SUFFICES ASSUME TLSInv, NEW s \in Sides
               PROVE  /\ pc[s] \in {"send", "write", "recv"} =>
                           /\ total[s] < call[s].size
                           /\ total[s] + Num(s) <= call[s].size
                      /\ pc[s] = "write" => out[s] # <<>> /\ call[s] = owed[s]
    BY DEF TLSInv, TLSTypeOK
  <2>1. CASE pc[s] \in {"send", "write", "recv"}
    <3>1. PICK t \in Nat, size \in Nat : t = total[s] /\ size = call[s].size
      BY DEF TLSInv, TypesOK, Call
    <3>2. t < size /\ Num(s) = ToInt(size - t)
      BY <2>1, <3>1 DEF TLSInv, CallOK, Running, Num
    <3>3. size - t \in Nat
      BY <3>2
    <3>4. ToInt(size - t) \in Int /\ ToInt(size - t) <= size - t
      BY <3>3, ToIntAtMost
    <3>5. t + Num(s) <= size
      BY <3>2, <3>4
    <3>. QED
      BY <3>1, <3>2, <3>5 DEF TLSInv, SendOK
  <2>. QED
    BY <2>1
<1>. QED
  BY <1>1, InvHolds, PTL

\* What Receive returns is the number of bytes it took from the session, and
\* they are the peer's bytes, in order, each once, whatever fails or times out
\* on either side (TCPSSLClient.cpp:223-241, TCPSSLServer.cpp:160-214).
THEOREM TLSReceiveReportsTruly == TLSSpec => []TLSReceiveReport
<1>1. TLSInv => TLSReceiveReport
  BY DEF TLSInv, RecvOK, Filled, TLSReceiveReport
<1>. QED
  BY <1>1, InvHolds, PTL

\* Nothing in the kernel and HasPending false means that every byte of a Send
\* that returned true has been received (TCPSSLServer.cpp:142-158).
THEOREM QuietIsCaughtUp == TLSSpec => []QuietMeansCaughtUp
<1>1. TLSInv => QuietMeansCaughtUp
  <2> SUFFICES ASSUME TLSInv, NEW s \in Sides, link[s] = "up", queue[s] = <<>>,
                      ~HasPending(s), ret[Peer(s)] = [op |-> "send", val |-> 1]
               PROVE  taken[s] = call[Peer(s)].base + call[Peer(s)].size
    BY DEF QuietMeansCaughtUp
  <2>1. PICK p \in Sides : p = Peer(s)
    BY PeerSide
  <2>2. out[p] = <<>> /\ written[p] = call[p].base + call[p].size /\ written[p] \in Nat
    BY <2>1 DEF TLSInv, TypesOK, SendOK
  <2>3. Arrived(s) + DataUnits(s) = written[p] - Len(out[p])
    BY <2>1 DEF TLSInv, FlowOK
  <2>4. Arrived(s) = taken[s] /\ DataUnits(s) = 0 /\ Len(out[p]) = 0 /\ taken[s] \in Nat
    <3>1. plain[s] = <<>> /\ inRec[s] = <<>>
      BY DEF HasPending
    <3>2. Len(plain[s]) = 0 /\ Len(inRec[s]) = 0 /\ Len(queue[s]) = 0 /\ taken[s] \in Nat
      BY <3>1 DEF TLSInv, TypesOK
    <3>. QED
      BY <2>2, <3>2 DEF Arrived, Opened, DataUnits
  <2>. QED
    BY <2>1, <2>2, <2>3, <2>4
<1>. QED
  BY <1>1, InvHolds, PTL

-----------------------------------------------------------------------------
(* TLS over a pipe is a pipe: what the sessions hold is bounded, since no  *)
(* record is longer than MaxRecord                                         *)

\* the units U that follow a units of a record are cut into records
InRecords(U, a) ==
  LET n == Len(U) IN
  /\ IF n = 0 THEN a = 0 ELSE U[n].last
  /\ \A j \in (-a)..(n - MaxRecord) : \E k \in 1..n :
       j < k /\ k <= j + MaxRecord /\ U[k].last

\* a multiple of MaxRecord among MaxRecord numbers
LEMMA SomeMultiple ==
  ASSUME NEW i \in Nat
  PROVE  \E k \in Nat : i < k /\ k <= i + MaxRecord /\ k % MaxRecord = 0
<1> DEFINE x == i + MaxRecord
           d == x \div MaxRecord
           c == x % MaxRecord
<1>1. MaxRecord \in Nat \ {0} /\ x \in Nat
  BY LimitsAssumption
<1>2. d \in Int /\ c \in 0..(MaxRecord - 1) /\ x = MaxRecord * d + c
  BY <1>1
<1> HIDE DEF d, c
<1>3. MaxRecord * d \in Int
  BY <1>1, <1>2
<1>4. (MaxRecord * d + 0) % MaxRecord = 0
  <2>1. 0 \in 0..(MaxRecord - 1)
    BY <1>1
  <2>. QED
    BY <1>1, <1>2, <2>1, ModOfMultiple
<1>5. x - c = MaxRecord * d
  BY <1>1, <1>2, <1>3
<1>6. x - c \in Nat /\ i < x - c /\ x - c <= i + MaxRecord
  BY <1>1, <1>2
<1>7. (x - c) % MaxRecord = 0
  BY <1>3, <1>4, <1>5
<1>. QED
  BY <1>6, <1>7

\* the records of an SSL_write behind those of the others
LEMMA RecordsFollow ==
  ASSUME NEW U \in Seq(Unit), NEW a \in Nat, InRecords(U, a), NEW b \in Nat, NEW m \in Nat \ {0}
  PROVE  InRecords(U \o Records(b, m), a)
<1> DEFINE R == Records(b, m)
           V == U \o R
           n == Len(U)
<1>0. MaxRecord \in Nat \ {0}
  BY LimitsAssumption
<1>1. R \in Seq(Unit) /\ Len(R) = m /\ \A i \in 1..m : R[i].last = (i = m \/ i % MaxRecord = 0)
  BY RecordsSeq DEF Records
<1> HIDE DEF R
<1>2. /\ n \in Nat /\ V \in Seq(Unit) /\ Len(V) = n + m
      /\ \A i \in 1..n : V[i] = U[i]
      /\ \A i \in 1..m : V[n + i] = R[i]
  <2>1. V \in Seq(Unit) /\ Len(V) = n + m /\ n \in Nat
    BY <1>1, ConcatProperties, LenProperties
  <2>2. \A i \in 1..n + m : V[i] = IF i <= n THEN U[i] ELSE R[i - n]
    BY <1>1, ConcatProperties
  <2>3. \A i \in 1..n : i \in 1..n + m /\ i <= n
    BY <2>1
  <2>4. \A i \in 1..m : n + i \in 1..n + m /\ ~(n + i <= n) /\ (n + i) - n = i
    BY <2>1
  <2>. QED
    BY <2>1, <2>2, <2>3, <2>4
<1> HIDE DEF R, V, n
<1>3. IF n = 0 THEN a = 0 ELSE U[n].last
  BY DEF InRecords, n
<1>4. V[n + m].last
  <2>1. m \in 1..m
    OBVIOUS
  <2>. QED
    BY <1>1, <1>2, <2>1
<1> DEFINE l == n + m
<1> HIDE DEF l
<1>5. ASSUME NEW j \in (-a)..(l - MaxRecord)
      PROVE  \E k \in 1..l : j < k /\ k <= j + MaxRecord /\ V[k].last
  <2>0. l = n + m
    BY DEF l
  <2>1. CASE j <= n - MaxRecord
    <3>1. PICK k \in 1..n : j < k /\ k <= j + MaxRecord /\ U[k].last
      BY <1>0, <1>2, <2>0, <2>1 DEF InRecords, n
    <3>. QED
      BY <1>2, <2>0, <3>1
  <2>2. CASE j > n - MaxRecord /\ j < n
    <3>1. n # 0
      BY <1>2, <1>3, <2>2
    <3>2. n \in 1..l /\ j < n /\ n <= j + MaxRecord /\ V[n] = U[n]
      BY <1>0, <1>2, <2>0, <2>2, <3>1
    <3>. QED
      BY <1>3, <3>1, <3>2
  <2>3. CASE j >= n
    <3>1. j - n \in Nat /\ j - n + MaxRecord <= m
      BY <1>0, <1>2, <2>0, <2>3
    <3>2. PICK i \in Nat : j - n < i /\ i <= j - n + MaxRecord /\ i % MaxRecord = 0
      BY <3>1, SomeMultiple
    <3>3. i \in 1..m
      BY <1>0, <3>1, <3>2
    <3>4. n + i \in 1..l /\ j < n + i /\ n + i <= j + MaxRecord
      BY <1>0, <1>2, <2>0, <3>2, <3>3
    <3>. QED
      BY <1>1, <1>2, <3>2, <3>3, <3>4
  <2>. QED
    BY <1>0, <1>2, <2>0, <2>1, <2>2, <2>3
<1>6. Len(V) # 0
  BY <1>2
<1>. QED
  <2>1. InRecords(V, a)
    <3>1. Len(V) = l /\ l # 0 /\ V[l].last
      BY <1>2, <1>4, <1>6 DEF l
    <3>. QED
      BY <1>5, <3>1 DEF InRecords
  <2>. QED
    BY <2>1 DEF V, R

\* the records without their first unit
LEMMA RecordsWithoutFirst ==
  ASSUME NEW U \in Seq(Unit), U # <<>>, NEW a \in Nat, InRecords(U, a)
  PROVE  /\ a < MaxRecord
         /\ InRecords(Tail(U), IF U[1].last THEN 0 ELSE a + 1)
<1> DEFINE T == Tail(U)
           n == Len(U)
           e == IF U[1].last THEN 0 ELSE a + 1
<1>0. MaxRecord \in Nat \ {0}
  BY LimitsAssumption
<1>1. /\ T \in Seq(Unit) /\ n \in Nat \ {0} /\ Len(T) = n - 1
      /\ \A i \in 1..n - 1 : T[i] = U[i + 1]
  BY HeadTailProperties, EmptySeq
<1> HIDE DEF T, n
<1>2. /\ U[n].last
      /\ \A j \in (-a)..(n - MaxRecord) : \E k \in 1..n :
           j < k /\ k <= j + MaxRecord /\ U[k].last
  BY <1>1 DEF InRecords, n
<1>3. a < MaxRecord
  <2> SUFFICES ASSUME a >= MaxRecord PROVE FALSE
    BY <1>0
  <2>1. -a \in (-a)..(n - MaxRecord)
    BY <1>0, <1>1
  <2>. QED
    BY <1>0, <1>2, <2>1
<1>4. IF n - 1 = 0 THEN e = 0 ELSE T[n - 1].last
  <2>1. CASE n = 1
    BY <1>2, <2>1
  <2>2. CASE n # 1
    <3>1. n - 1 \in 1..n - 1 /\ (n - 1) + 1 = n /\ n - 1 # 0
      BY <1>1, <2>2
    <3>. QED
      BY <1>1, <1>2, <3>1
  <2>. QED
    BY <2>1, <2>2
<1>5. ASSUME NEW j \in (-e)..((n - 1) - MaxRecord)
      PROVE  \E k \in 1..n - 1 : j < k /\ k <= j + MaxRecord /\ T[k].last
  <2>1. j + 1 \in (-a)..(n - MaxRecord)
    BY <1>0, <1>1
  <2>2. PICK k \in 1..n : j + 1 < k /\ k <= j + 1 + MaxRecord /\ U[k].last
    BY <1>2, <2>1
  <2>3. k # 1
    BY <1>0, <1>1, <2>1, <2>2
  <2>4. k - 1 \in 1..n - 1 /\ T[k - 1] = U[k] /\ j < k - 1 /\ k - 1 <= j + MaxRecord
    <3>1. k - 1 \in 1..n - 1 /\ (k - 1) + 1 = k /\ j < k - 1 /\ k - 1 <= j + MaxRecord
      BY <1>0, <1>1, <2>1, <2>2, <2>3
    <3>. QED
      BY <1>1, <3>1
  <2>. QED
    BY <2>2, <2>4
<1>. QED
  BY <1>1, <1>3, <1>4, <1>5 DEF InRecords, T

\* the units that the session of s has still to read, on the connection to s or
\* in the peer's session
Coming(s) == queue[s] \o out[Peer(s)]

\* While the peer may still send, they are cut into records; and a session
\* never has more than was sent, even when a reset has dropped units.
RecordOK(s) ==
  ~closed[Peer(s)] => /\ plain[s] # <<>> => inRec[s] = <<>> /\ Len(plain[s]) <= MaxRecord
                      /\ InRecords(Coming(s), Len(inRec[s]))
SentOK(s) == Arrived(s) + DataUnits(s) <= written[Peer(s)] - Len(out[Peer(s)])

PipeInv == TLSInv /\ \A s \in Sides : RecordOK(s) /\ SentOK(s)

LEMMA PipeInvInit == Init => PipeInv
<1> SUFFICES ASSUME Init, NEW s \in Sides PROVE RecordOK(s) /\ SentOK(s)
  BY InvInit DEF PipeInv
<1>1. /\ queue[s] = <<>> /\ plain[s] = <<>> /\ inRec[s] = <<>> /\ taken[s] = 0
      /\ out[Peer(s)] = <<>> /\ written[Peer(s)] = 0
  BY PeerSide DEF Init, Each
<1>2. SentOK(s)
  BY <1>1 DEF SentOK, Arrived, Opened, DataUnits
<1>3. RecordOK(s)
  <2>1. Coming(s) = <<>>
    BY <1>1 DEF Coming
  <2>2. MaxRecord \in Nat \ {0} /\ Len(Coming(s)) = 0 /\ Len(inRec[s]) = 0
    BY <1>1, <2>1, LimitsAssumption
  <2>. QED
    BY <1>1, <2>2 DEF RecordOK, InRecords
<1>. QED
  BY <1>2, <1>3

\* a direction that a step leaves alone, but for its sender, who may close
LEMMA RecordsKept ==
  ASSUME NEW s \in Sides, RecordOK(s), SentOK(s),
         queue'[s] = queue[s], plain'[s] = plain[s], inRec'[s] = inRec[s],
         taken'[s] = taken[s], out'[Peer(s)] = out[Peer(s)],
         written'[Peer(s)] = written[Peer(s)], closed[Peer(s)] => closed'[Peer(s)]
  PROVE  RecordOK(s)' /\ SentOK(s)'
<1>1. Coming(s)' = Coming(s)
  BY DEF Coming
<1>2. RecordOK(s)'
  BY <1>1 DEF RecordOK
<1>3. SentOK(s)'
  BY DEF SentOK, Arrived, Opened, DataUnits
<1>. QED
  BY <1>2, <1>3

\* of one whose sender has not closed, nothing is missing
LEMMA NoneMissing ==
  ASSUME TLSInv, NEW s \in Sides, ~closed[Peer(s)]  PROVE SentOK(s)
<1>1. /\ FlowOK(s) /\ Peer(s) \in Sides
      /\ Arrived(s) + DataUnits(s) = written[Peer(s)] - Len(out[Peer(s)])
  BY PeerSide DEF TLSInv, FlowOK
<1>2. written[Peer(s)] - Len(out[Peer(s)]) \in Int
  BY <1>1 DEF TLSInv, TypesOK
<1>. QED
  BY <1>1, <1>2 DEF SentOK

\* the next unit of an SSL_write joins those on the connection
LEMMA UnitJoins ==
  ASSUME NEW q \in Seq(Unit), NEW o \in Seq(Unit), o # <<>>
  PROVE  Append(q, Head(o)) \o Tail(o) = q \o o
<1> DEFINE h == <<Head(o)>>
           t == Tail(o)
<1>1. /\ h \in Seq(Unit) /\ t \in Seq(Unit) /\ o = h \o t /\ Append(q, Head(o)) = q \o h
  BY HeadTailProperties, AppendProperties, ConcatProperties
<1> HIDE DEF h, t
<1>2. (q \o h) \o t = q \o (h \o t)
  BY <1>1, ConcatAssociative
<1>. QED
  BY <1>1, <1>2 DEF t

LEMMA NoneMissingNext == TLSInv' => \A s \in Sides : ~closed'[Peer(s)] => SentOK(s)'
<1>1. TLSInv => \A s \in Sides : ~closed[Peer(s)] => SentOK(s)
  BY NoneMissing
<1>2. (TLSInv => \A s \in Sides : ~closed[Peer(s)] => SentOK(s))'
  BY <1>1, PTL
<1>. QED
  BY <1>2

\* SSL_write makes records for bytes, or has some to finish
LEMMA RecordsEnter ==
  ASSUME PipeInv, TLSInv', NEW s \in Sides, EnterWrite(s), NEW q \in Sides
  PROVE  RecordOK(q)' /\ SentOK(q)'
<1>1. PICK r \in Sides : r = Peer(s) /\ r # s /\ Peer(r) = s /\ Sides = {s, r}
  BY PeerSide DEF Sides, Peer
<1>2. /\ pc[s] = "send" /\ Num(s) > 0
      /\ UNCHANGED <<queue, closed, link, inRec, plain, notified, taken, call, total, buf, ret>>
  BY DEF EnterWrite, inVars, optVars, netVars
<1>3. ~closed[s] /\ ~closed'[s]
  BY <1>2 DEF PipeInv, TLSInv, CallOK, Running
<1>4. /\ written \in [Sides -> Nat] /\ out \in [Sides -> Seq(Unit)]
      /\ \A p \in Sides \ {s} : out'[p] = out[p] /\ written'[p] = written[p]
  <2>1. written \in [Sides -> Nat] /\ out \in [Sides -> Seq(Unit)]
    BY DEF PipeInv, TLSInv, TypesOK
  <2>2. CASE out[s] # <<>>
    BY <2>1, <2>2 DEF EnterWrite, outVars
  <2>3. CASE out[s] = <<>>
    BY <2>1, <2>3 DEF EnterWrite
  <2>. QED
    BY <2>1, <2>2, <2>3
<1>5. CASE q = s
  <2>1. out'[Peer(s)] = out[Peer(s)] /\ written'[Peer(s)] = written[Peer(s)]
    BY <1>1, <1>4
  <2>. QED
    BY <1>2, <1>5, <2>1, RecordsKept DEF PipeInv
<1>6. CASE q = r
  <2>1. SentOK(r)'
    BY <1>1, <1>3, NoneMissingNext
  <2>2. RecordOK(r)
    BY DEF PipeInv
  <2>3. /\ plain[r] # <<>> => inRec[r] = <<>> /\ Len(plain[r]) <= MaxRecord
        /\ InRecords(Coming(r), Len(inRec[r]))
    BY <1>1, <1>3, <2>2 DEF RecordOK
  <2>4. InRecords(Coming(r)', Len(inRec[r]))
    <3>1. CASE out[s] # <<>>
      <4>1. Coming(r)' = Coming(r)
        BY <1>1, <1>2, <3>1 DEF EnterWrite, outVars, Coming
      <4>. QED
        BY <2>3, <4>1
    <3>2. CASE out[s] = <<>>
      <4> DEFINE b == call[s].base + total[s]
                 m == Num(s)
      <4>1. out'[s] = Records(b, m)
        BY <1>4, <3>2 DEF EnterWrite
      <4>2. b \in Nat /\ m \in Nat \ {0}
        <5>1. call[s] \in Call /\ total[s] \in Nat /\ total[s] < call[s].size
          BY <1>2 DEF PipeInv, TLSInv, TypesOK, CallOK, Running
        <5>2. call[s].size - total[s] \in Nat /\ call[s].base \in Nat
          BY <5>1 DEF Call
        <5>3. m \in Int
          BY <5>2, ToIntAtMost DEF Num
        <5>. QED
          BY <1>2, <5>1, <5>2, <5>3
      <4>3. queue[r] \in Seq(Unit) /\ Len(inRec[r]) \in Nat
        BY DEF PipeInv, TLSInv, TypesOK
      <4>4. Coming(r) = queue[r] /\ Coming(r)' = queue[r] \o Records(b, m)
        BY <1>1, <1>2, <3>2, <4>1, <4>3, ConcatEmptySeq DEF Coming
      <4> HIDE DEF b, m
      <4>5. InRecords(queue[r], Len(inRec[r]))
        BY <2>3, <4>4
      <4>6. InRecords(queue[r] \o Records(b, m), Len(inRec[r]))
        BY <4>2, <4>3, <4>5, RecordsFollow
      <4>. QED
        BY <4>4, <4>6
    <3>. QED
      BY <3>1, <3>2
  <2>5. RecordOK(r)'
    BY <1>2, <2>3, <2>4 DEF RecordOK
  <2>. QED
    BY <1>6, <2>1, <2>5
<1>. QED
  BY <1>1, <1>5, <1>6

\* the kernel takes a unit: it is still to be read
LEMMA RecordsWrite ==
  ASSUME PipeInv, TLSInv', NEW s \in Sides, WriteUnit(s), NEW q \in Sides
  PROVE  RecordOK(q)' /\ SentOK(q)'
<1>1. PICK r \in Sides : r = Peer(s) /\ r # s /\ Peer(r) = s /\ Sides = {s, r}
  BY PeerSide DEF Sides, Peer
<1>2. /\ pc[s] = "write" /\ queue \in [Sides -> Seq(Unit)] /\ out \in [Sides -> Seq(Unit)]
      /\ queue' = [queue EXCEPT ![r] = Append(@, Head(out[s]))]
      /\ out' = [out EXCEPT ![s] = Tail(@)]
      /\ UNCHANGED <<closed, link, written, inRec, plain, notified, taken>>
  BY <1>1 DEF WriteUnit, Transmit, inVars, PipeInv, TLSInv, TypesOK
<1>3. ~closed[s] /\ ~closed'[s] /\ out[s] # <<>>
  BY <1>2 DEF PipeInv, TLSInv, CallOK, Running, SendOK
<1>4. CASE q = s
  BY <1>1, <1>2, <1>4, RecordsKept DEF PipeInv
<1>5. CASE q = r
  <2>1. SentOK(r)'
    BY <1>1, <1>3, NoneMissingNext
  <2>2. Coming(r)' = Coming(r)
    <3>1. Coming(r)' = Append(queue[r], Head(out[s])) \o Tail(out[s])
      BY <1>1, <1>2 DEF Coming
    <3>2. queue[r] \in Seq(Unit) /\ out[s] \in Seq(Unit)
      BY <1>2
    <3>. QED
      BY <1>1, <1>3, <3>1, <3>2, UnitJoins DEF Coming
  <2>3. RecordOK(r)'
    BY <1>2, <2>2 DEF PipeInv, RecordOK
  <2>. QED
    BY <1>5, <2>1, <2>3
<1>. QED
  BY <1>1, <1>4, <1>5

\* the first unit on the connection is the first to be read
LEMMA FirstComing ==
  ASSUME NEW q \in Seq(Unit), NEW o \in Seq(Unit), q # <<>>
  PROVE  /\ q \o o \in Seq(Unit) /\ q \o o # <<>> /\ (q \o o)[1] = q[1]
         /\ Tail(q \o o) = Tail(q) \o o
<1> DEFINE c == q \o o
           t == Tail(q) \o o
<1>1. /\ Len(q) \in Nat \ {0} /\ Len(o) \in Nat /\ c \in Seq(Unit) /\ Len(c) = Len(q) + Len(o)
      /\ \A i \in 1..Len(q) + Len(o) : c[i] = IF i <= Len(q) THEN q[i] ELSE o[i - Len(q)]
  BY ConcatProperties, EmptySeq
<1>2. /\ Tail(q) \in Seq(Unit) /\ Len(Tail(q)) = Len(q) - 1
      /\ \A i \in 1..Len(q) - 1 : Tail(q)[i] = q[i + 1]
  BY HeadTailProperties
<1>3. /\ t \in Seq(Unit) /\ Len(t) = Len(q) - 1 + Len(o)
      /\ \A i \in 1..Len(q) - 1 + Len(o) :
           t[i] = IF i <= Len(q) - 1 THEN Tail(q)[i] ELSE o[i - (Len(q) - 1)]
  BY <1>2, ConcatProperties
<1> HIDE DEF c, t
<1>4. c # <<>>
  BY <1>1
<1>5. c[1] = q[1]
  BY <1>1
<1>6. /\ Tail(c) \in Seq(Unit) /\ Len(Tail(c)) = Len(q) + Len(o) - 1
      /\ \A i \in 1..Len(q) + Len(o) - 1 : Tail(c)[i] = c[i + 1]
  BY <1>1, <1>4, HeadTailProperties
<1>7. ASSUME NEW i \in 1..Len(q) + Len(o) - 1  PROVE Tail(c)[i] = t[i]
  <2>1. i + 1 \in 1..Len(q) + Len(o) /\ i \in 1..Len(q) - 1 + Len(o)
    BY <1>1
  <2>2. CASE i <= Len(q) - 1
    <3>1. i \in 1..Len(q) - 1 /\ i + 1 <= Len(q)
      BY <1>1, <2>2
    <3>. QED
      BY <1>1, <1>2, <1>3, <1>6, <2>1, <2>2, <3>1
  <2>3. CASE ~(i <= Len(q) - 1)
    <3>1. ~(i + 1 <= Len(q)) /\ i + 1 - Len(q) = i - (Len(q) - 1)
      BY <1>1, <2>3
    <3>2. Tail(c)[i] = o[i + 1 - Len(q)]
      BY <1>1, <1>6, <2>1, <3>1
    <3>3. t[i] = o[i - (Len(q) - 1)]
      BY <1>3, <2>1, <2>3
    <3>. QED
      BY <3>1, <3>2, <3>3
  <2>. QED
    BY <2>2, <2>3
<1>8. Tail(c) = t
  <2>1. Len(Tail(c)) = Len(t) /\ \A i \in 1..Len(Tail(c)) : Tail(c)[i] = t[i]
    BY <1>1, <1>3, <1>6, <1>7
  <2>. QED
    BY <1>3, <1>6, <2>1, SeqEqual
<1>. QED
  BY <1>1, <1>4, <1>5, <1>8 DEF c, t


\* SSL_read takes a unit off the connection, and opens the record it ends
LEMMA RecordsReadUnit ==
  ASSUME PipeInv, TLSInv', NEW s \in Sides, ReadUnit(s), NEW q \in Sides
  PROVE  RecordOK(q)' /\ SentOK(q)'
<1>1. PICK r \in Sides : r = Peer(s) /\ r # s /\ Peer(r) = s /\ Sides = {s, r}
  BY PeerSide DEF Sides, Peer
<1> DEFINE u == queue[s][1]
           bytes == Append(inRec[s], u.byte)
           len == Len(queue[s])
<1>2. /\ plain[s] = <<>> /\ queue[s] # <<>> /\ queue' = [queue EXCEPT ![s] = Tail(@)]
      /\ UNCHANGED <<closed, link, out, written, taken>>
  BY DEF ReadUnit, outVars
<1>3. /\ queue \in [Sides -> Seq(Unit)] /\ out \in [Sides -> Seq(Unit)]
      /\ inRec \in [Sides -> Seq(Nat)] /\ plain \in [Sides -> Seq(Nat)]
      /\ taken \in [Sides -> Nat] /\ written \in [Sides -> Nat]
  BY DEF PipeInv, TLSInv, TypesOK
<1>4. /\ u \in Unit /\ u.byte \in Nat /\ u.last \in BOOLEAN /\ len \in Nat \ {0}
      /\ queue'[s] = Tail(queue[s]) /\ queue'[s] \in Seq(Unit) /\ Len(queue'[s]) = len - 1
      /\ \A i \in 1..len - 1 : queue'[s][i] = queue[s][i + 1]
  <2>1. queue[s] \in Seq(Unit) /\ len \in Nat \ {0}
    BY <1>2, <1>3, EmptySeq
  <2>2. u \in Unit
    BY <2>1, ElementOfSeq
  <2>3. queue'[s] = Tail(queue[s])
    BY <1>2, <1>3
  <2>4. /\ Tail(queue[s]) \in Seq(Unit) /\ Len(Tail(queue[s])) = len - 1
        /\ \A i \in 1..len - 1 : Tail(queue[s])[i] = queue[s][i + 1]
    BY <1>2, <2>1, HeadTailProperties
  <2>. QED
    BY <2>1, <2>2, <2>3, <2>4 DEF Unit
<1>5. /\ bytes \in Seq(Nat) /\ Len(bytes) = Len(inRec[s]) + 1 /\ Len(inRec[s]) \in Nat
  BY <1>3, <1>4, AppendProperties
<1>6. /\ u = Alert => inRec' = inRec /\ plain' = plain
      /\ u # Alert => /\ inRec' = [inRec EXCEPT ![s] = IF u.last THEN <<>> ELSE bytes]
                      /\ plain' = [plain EXCEPT ![s] = IF u.last THEN bytes ELSE <<>>]
  <2>1. IF u = Alert
        THEN UNCHANGED <<inRec, plain>>
        ELSE /\ inRec' = [inRec EXCEPT ![s] = IF u.last THEN <<>> ELSE bytes]
             /\ plain' = [plain EXCEPT ![s] = IF u.last THEN bytes ELSE <<>>]
    <3>1. queue[s] \in Seq(Unit)
      BY <1>3
    <3>. QED
      BY <1>2, <3>1 DEF ReadUnit, u, bytes
  <2>. QED
    BY <2>1
<1> HIDE DEF u, bytes, len
<1>7. CASE q = r
  <2>1. /\ queue'[r] = queue[r] /\ plain'[r] = plain[r] /\ inRec'[r] = inRec[r]
    BY <1>1, <1>2, <1>3, <1>6
  <2>. QED
    BY <1>2, <1>7, <2>1, RecordsKept DEF PipeInv
<1>8. CASE q = s
  <2>1. SentOK(s)'
    <3>1. SentOK(s) /\ FlowOK(s)
      BY DEF PipeInv, TLSInv
    <3>2. CASE u = Alert
      <4>1. len = 1
        <5>0. taken[s] \in Nat /\ Len(plain[s]) \in Nat /\ Len(inRec[s]) \in Nat
          BY <1>3
        <5>1. 1 \in 1..len /\ queue[s][1] = Alert /\ Arrived(s) \in Nat
          BY <1>4, <3>2, <5>0 DEF u, Arrived, Opened
        <5>2. Arrived(s) + 1 # 0 /\ Alert.byte = 0
          BY <5>1 DEF Alert
        <5>. QED
          BY <3>1, <5>1, <5>2 DEF FlowOK, len
      <4>2. DataUnits(s) = 0 /\ DataUnits(s)' = 0
        BY <1>2, <1>4, <3>2, <4>1 DEF DataUnits, len, u
      <4>3. Arrived(s)' = Arrived(s)
        BY <1>2, <1>6, <3>2 DEF Arrived, Opened
      <4>. QED
        BY <1>2, <3>1, <4>2, <4>3 DEF SentOK
    <3>3. CASE u # Alert
      <4>1. Arrived(s) = taken[s] + Len(inRec[s]) /\ Arrived(s)' = Arrived(s) + 1
        <5>1. Arrived(s) = taken[s] + Len(inRec[s])
          BY <1>2, <1>3 DEF Arrived, Opened
        <5>2. Len(plain'[s]) + Len(inRec'[s]) = Len(inRec[s]) + 1
          <6>1. CASE u.last
            BY <1>3, <1>5, <1>6, <3>3, <6>1
          <6>2. CASE ~u.last
            BY <1>3, <1>5, <1>6, <3>3, <6>2
          <6>. QED
            BY <6>1, <6>2
        <5>3. taken'[s] = taken[s] /\ taken[s] \in Nat
          BY <1>2, <1>3
        <5>4. Len(plain'[s]) \in Nat /\ Len(inRec'[s]) \in Nat
          <6>1. plain' \in [Sides -> Seq(Nat)] /\ inRec' \in [Sides -> Seq(Nat)]
            BY DEF TLSInv, TypesOK
          <6>. QED
            BY <6>1
        <5>5. Arrived(s)' = taken'[s] + Len(plain'[s]) + Len(inRec'[s])
          BY DEF Arrived, Opened
        <5>. QED
          <6>1. taken'[s] + Len(plain'[s]) + Len(inRec'[s]) = taken[s] + (Len(inRec[s]) + 1)
            <7>1. PICK t \in Nat, p \in Nat, b \in Nat, l \in Nat :
                    /\ t = taken[s] /\ p = Len(plain'[s]) /\ b = Len(inRec'[s])
                    /\ l = Len(inRec[s])
              BY <1>5, <5>3, <5>4
            <7>2. p + b = l + 1
              BY <5>2, <7>1
            <7>3. t + p + b = t + (l + 1)
              BY <7>2
            <7>. QED
              BY <5>3, <7>1, <7>3
          <6>2. taken[s] + (Len(inRec[s]) + 1) = (taken[s] + Len(inRec[s])) + 1
            BY <1>5, <5>3
          <6>. QED
            BY <5>1, <5>5, <6>1, <6>2
      <4>2. DataUnits(s)' = DataUnits(s) - 1 /\ DataUnits(s) \in Nat
        <5>1. CASE len = 1
          BY <1>2, <1>4, <3>3, <5>1 DEF DataUnits, len, u
        <5>2. CASE len # 1
          <6>1. len - 1 \in 1..len - 1 /\ queue'[s][len - 1] = queue[s][len] /\ queue'[s] # <<>>
            <7>1. len - 1 \in 1..len - 1 /\ (len - 1) + 1 = len
              BY <1>4, <5>2
            <7>2. queue'[s][len - 1] = queue[s][len]
              BY <1>4, <7>1
            <7>3. queue'[s] # <<>>
              BY <1>4, <5>2
            <7>. QED
              BY <7>1, <7>2, <7>3
          <6>. QED
            BY <1>2, <1>4, <6>1 DEF DataUnits, len
        <5>. QED
          BY <5>1, <5>2
      <4>3. Arrived(s)' + DataUnits(s)' = Arrived(s) + DataUnits(s)
        <5>1. Arrived(s) \in Nat
          <6>1. taken[s] \in Nat
            BY <1>3
          <6>2. taken[s] + Len(inRec[s]) \in Nat
            BY <1>5, <6>1
          <6>. QED
            BY <4>1, <6>2
        <5>. QED
          BY <4>1, <4>2, <5>1
      <4>. QED
        BY <1>2, <3>1, <4>3 DEF SentOK
    <3>. QED
      BY <3>2, <3>3
  <2>2. ASSUME ~closed[r]
        PROVE  /\ plain'[s] # <<>> => inRec'[s] = <<>> /\ Len(plain'[s]) <= MaxRecord
               /\ InRecords(Coming(s)', Len(inRec'[s]))
    <3>1. InRecords(Coming(s), Len(inRec[s]))
      BY <1>1, <2>2 DEF PipeInv, RecordOK
    <3>2. /\ Coming(s) \in Seq(Unit) /\ Coming(s) # <<>> /\ Coming(s)[1] = u
          /\ Coming(s)' = Tail(Coming(s))
      <4>1. Coming(s)' = Tail(queue[s]) \o out[r]
        BY <1>1, <1>2, <1>4 DEF Coming
      <4>2. queue[s] \in Seq(Unit) /\ out[r] \in Seq(Unit)
        BY <1>3
      <4>. QED
        BY <1>1, <1>2, <4>1, <4>2, FirstComing DEF Coming, u
    <3>3. /\ Len(inRec[s]) < MaxRecord
          /\ InRecords(Coming(s)', IF u.last THEN 0 ELSE Len(inRec[s]) + 1)
      BY <1>5, <3>1, <3>2, RecordsWithoutFirst
    <3>4. u # Alert
      <4>1. queue[s][1].byte = Arrived(s) + 1 /\ Arrived(s) \in Nat
        <5>1. 1 \in 1..len
          BY <1>4
        <5>2. Peer(r) = s
          BY <1>1
        <5>. QED
          BY <2>2, <5>1, <5>2, OnlyPlain DEF PipeInv, len
      <4>. QED
        BY <4>1 DEF Alert, u
    <3>5. CASE u.last
      BY <1>3, <1>5, <1>6, <3>3, <3>4, <3>5, LimitsAssumption
    <3>6. CASE ~u.last
      BY <1>3, <1>5, <1>6, <3>3, <3>4, <3>6
    <3>. QED
      BY <3>5, <3>6
  <2>3. RecordOK(s)'
    BY <1>1, <1>2, <2>2 DEF RecordOK
  <2>. QED
    BY <1>8, <2>1, <2>3
<1>. QED
  BY <1>1, <1>7, <1>8

\* SSL_read returns bytes of the record it has open
LEMMA RecordsReadPlain ==
  ASSUME PipeInv, TLSInv', NEW s \in Sides, ReadPlain(s), NEW q \in Sides
  PROVE  RecordOK(q)' /\ SentOK(q)'
<1>1. PICK r \in Sides : r = Peer(s) /\ r # s /\ Peer(r) = s /\ Sides = {s, r}
  BY PeerSide DEF Sides, Peer
<1> DEFINE n == IF Num(s) < PendingBytes(s) THEN Num(s) ELSE PendingBytes(s)
<1>2. /\ Num(s) > 0 /\ PendingBytes(s) > 0
      /\ plain' = [plain EXCEPT ![s] = SubSeq(@, n + 1, Len(@))]
      /\ taken' = [taken EXCEPT ![s] = @ + n]
      /\ UNCHANGED <<queue, closed, link, out, owed, written, inRec, notified>>
  BY DEF ReadPlain, netVars, outVars
<1>3. /\ inRec \in [Sides -> Seq(Nat)] /\ plain \in [Sides -> Seq(Nat)]
      /\ taken \in [Sides -> Nat]
  BY DEF PipeInv, TLSInv, TypesOK
<1>4. PICK k \in Nat : k = Len(plain[s])
  BY <1>3
<1>5. n \in 1..k
  <2>1. Num(s) \in Int
    <3>1. call[s] \in Call /\ total[s] \in Nat /\ pc[s] = "recv"
      BY DEF PipeInv, TLSInv, TypesOK, ReadPlain
    <3>2. total[s] < call[s].size /\ call[s].size \in Nat
      BY <3>1 DEF PipeInv, TLSInv, CallOK, Running, Call
    <3>3. call[s].size - total[s] \in Nat
      BY <3>1, <3>2
    <3>. QED
      BY <3>3, ToIntAtMost DEF Num
  <2>. QED
    BY <1>2, <1>4, <2>1 DEF PendingBytes
<1> HIDE DEF n
<1>6. plain'[s] = SubSeq(plain[s], n + 1, k) /\ taken'[s] = taken[s] + n
  BY <1>2, <1>3, <1>4
<1>7. Len(plain'[s]) = k - n
  <2>1. \A i \in n + 1..k : plain[s][i] \in Nat
    BY <1>3, <1>4, <1>5, ElementOfSeq
  <2>2. Len(SubSeq(plain[s], n + 1, k)) = IF n + 1 <= k THEN k - (n + 1) + 1 ELSE 0
    BY <1>4, <1>5, <2>1, SubSeqProperties
  <2>. QED
    BY <1>4, <1>5, <1>6, <2>2
<1>8. CASE q = r
  BY <1>1, <1>2, <1>3, <1>8, RecordsKept DEF PipeInv
<1>9. CASE q = s
  <2>1. Arrived(s)' = Arrived(s)
    <3>1. PICK t \in Nat : t = taken[s]
      BY <1>3
    <3>2. t + n + (k - n) = t + k
      BY <1>4, <1>5, <3>1
    <3>3. Opened(s)' = Opened(s)
      BY <1>4, <1>6, <1>7, <3>1, <3>2 DEF Opened
    <3>. QED
      BY <1>2, <3>3 DEF Arrived
  <2>2. SentOK(s)'
    BY <1>2, <2>1 DEF PipeInv, SentOK, DataUnits
  <2>3. plain[s] # <<>> /\ Len(plain'[s]) <= Len(plain[s])
    BY <1>4, <1>5, <1>7
  <2>4. MaxRecord \in Nat /\ Len(plain'[s]) \in Nat
    BY <1>4, <1>5, <1>7, LimitsAssumption
  <2>5. Coming(s)' = Coming(s)
    BY <1>2 DEF Coming
  <2>6. RecordOK(s)'
    <3>1. ASSUME ~closed[Peer(s)]
          PROVE  /\ plain'[s] # <<>> => inRec[s] = <<>> /\ Len(plain'[s]) <= MaxRecord
                 /\ InRecords(Coming(s), Len(inRec[s]))
      <4>1. /\ inRec[s] = <<>> /\ Len(plain[s]) <= MaxRecord
            /\ InRecords(Coming(s), Len(inRec[s]))
        BY <2>3, <3>1 DEF PipeInv, RecordOK
      <4>2. Len(plain'[s]) <= MaxRecord
        BY <1>4, <2>3, <2>4, <4>1
      <4>. QED
        BY <4>1, <4>2
    <3>. QED
      BY <1>2, <2>5, <3>1 DEF RecordOK
  <2>. QED
    BY <1>9, <2>2, <2>6
<1>. QED
  BY <1>1, <1>8, <1>9

\* the side that ends writes close_notify, if it can
LEMMA RecordsShutdown ==
  ASSUME PipeInv, TLSInv', NEW s \in Sides, Shutdown(s), NEW q \in Sides
  PROVE  RecordOK(q)' /\ SentOK(q)'
<1>1. PICK r \in Sides : r = Peer(s) /\ r # s /\ Peer(r) = s /\ Sides = {s, r}
  BY PeerSide DEF Sides, Peer
<1>2. /\ pc[s] = "shutdown" /\ closed' = [closed EXCEPT ![s] = TRUE]
      /\ queue' = queue \/ queue' = [queue EXCEPT ![r] = Append(@, Alert)]
      /\ UNCHANGED <<out, written, inRec, plain, taken>>
  BY <1>1 DEF Shutdown, Transmit, outVars, inVars
<1>3. ~closed[s] /\ closed'[s] /\ \A p \in Sides : closed[p] => closed'[p]
  BY <1>2 DEF PipeInv, TLSInv, TypesOK, CallOK
<1>4. queue \in [Sides -> Seq(Unit)]
  BY DEF PipeInv, TLSInv, TypesOK
<1>5. CASE q = s
  <2>1. queue'[s] = queue[s]
    BY <1>1, <1>2, <1>4
  <2>. QED
    BY <1>1, <1>2, <1>3, <1>5, <2>1, RecordsKept DEF PipeInv
<1>6. CASE q = r
  <2>1. RecordOK(r)'
    BY <1>1, <1>3 DEF RecordOK
  <2>2. DataUnits(r)' = DataUnits(r)
    <3>1. CASE queue' = queue
      BY <3>1 DEF DataUnits
    <3>2. CASE queue' = [queue EXCEPT ![r] = Append(@, Alert)]
      <4>1. DataUnits(r) = Len(queue[r])
        BY <1>1, <1>3, OnlyPlain DEF PipeInv
      <4>2. queue'[r] = Append(queue[r], Alert) /\ queue[r] \in Seq(Unit) /\ Alert \in Unit
        BY <1>4, <3>2 DEF Alert, Unit
      <4>3. PICK len \in Nat : len = Len(queue[r])
        BY <4>2
      <4>4. Len(queue'[r]) = len + 1 /\ queue'[r][len + 1] = Alert /\ queue'[r] # <<>>
        BY <4>2, <4>3, AppendProperties
      <4>. QED
        BY <4>1, <4>3, <4>4 DEF DataUnits
    <3>. QED
      BY <1>2, <3>1, <3>2
  <2>3. SentOK(r)'
    BY <1>2, <2>2 DEF PipeInv, SentOK, Arrived, Opened
  <2>. QED
    BY <1>6, <2>1, <2>3
<1>. QED
  BY <1>1, <1>5, <1>6

\* a reset drops units, of a side that is closed
LEMMA RecordsBreak ==
  ASSUME PipeInv, TLSInv', NEW s \in Sides, Breaks(s), NEW q \in Sides
  PROVE  RecordOK(q)' /\ SentOK(q)'
<1>1. PICK r \in Sides : r = Peer(s) /\ r # s /\ Peer(r) = s /\ Sides = {s, r}
  BY PeerSide DEF Sides, Peer
<1>2. PICK n \in 0..Len(queue[s]) : queue' = [queue EXCEPT ![s] = SubSeq(queue[s], 1, n)]
  BY DEF Breaks
<1>3. closed[r] /\ UNCHANGED <<closed, out, written, inRec, plain, taken>>
  BY <1>1 DEF Breaks, outVars, inVars
<1>4. queue \in [Sides -> Seq(Unit)]
  BY DEF PipeInv, TLSInv, TypesOK
<1>5. CASE q = r
  <2>1. queue'[r] = queue[r]
    BY <1>1, <1>2, <1>4
  <2>. QED
    BY <1>3, <1>5, <2>1, RecordsKept DEF PipeInv
<1>6. CASE q = s
  <2>1. RecordOK(s)'
    BY <1>1, <1>3 DEF RecordOK
  <2>2. PICK len \in Nat : len = Len(queue[s])
    BY <1>4
  <2>3. queue'[s] = SubSeq(queue[s], 1, n) /\ queue[s] \in Seq(Unit) /\ n \in 0..len
    BY <1>2, <1>4, <2>2
  <2>4. /\ Len(queue'[s]) = n /\ \A i \in 1..n : queue'[s][i] = queue[s][i]
        /\ queue'[s] \in Seq(Unit)
    <3>1. \A i \in 1..n : queue[s][i] \in Unit
      BY <2>2, <2>3, ElementOfSeq
    <3>2. /\ queue'[s] \in Seq(Unit)
          /\ Len(queue'[s]) = IF 1 <= n THEN n - 1 + 1 ELSE 0
          /\ \A i \in 1..(n - 1 + 1) : queue'[s][i] = queue[s][1 + i - 1]
      BY <2>3, <3>1, SubSeqProperties
    <3>3. n - 1 + 1 = n /\ \A i \in 1..n : 1 + i - 1 = i
      BY <2>3
    <3>4. Len(queue'[s]) = n
      BY <2>3, <3>2
    <3>. QED
      BY <3>2, <3>3, <3>4
  <2>5. DataUnits(s)' <= DataUnits(s) /\ DataUnits(s)' \in Int /\ DataUnits(s) \in Int
    <3>1. CASE n = len
      <4>1. queue'[s] = queue[s]
        BY <2>2, <2>3, <2>4, <3>1, SeqEqual
      <4>. QED
        BY <2>2, <4>1 DEF DataUnits
    <3>2. CASE n # len
      <4>1. DataUnits(s) \in Int /\ DataUnits(s) >= len - 1
        BY <2>2 DEF DataUnits
      <4>2. DataUnits(s)' \in Int /\ DataUnits(s)' <= n
        BY <2>3, <2>4 DEF DataUnits
      <4>. QED
        BY <2>2, <2>3, <3>2, <4>1, <4>2
    <3>. QED
      BY <3>1, <3>2
  <2>6. Arrived(s)' = Arrived(s)
    BY <1>3 DEF Arrived, Opened
  <2>7. Arrived(s) \in Int /\ written[r] - Len(out[r]) \in Int
    <3>1. /\ taken[s] \in Nat /\ Len(plain[s]) \in Nat /\ Len(inRec[s]) \in Nat
          /\ written[r] \in Nat /\ Len(out[r]) \in Nat
      <4>1. /\ taken \in [Sides -> Nat] /\ plain \in [Sides -> Seq(Nat)]
            /\ inRec \in [Sides -> Seq(Nat)] /\ written \in [Sides -> Nat]
            /\ out \in [Sides -> Seq(Unit)]
        BY DEF PipeInv, TLSInv, TypesOK
      <4>. QED
        BY <4>1
    <3>. QED
      BY <3>1 DEF Arrived, Opened
  <2>8. Arrived(s) + DataUnits(s) <= written[r] - Len(out[r])
    BY <1>1 DEF PipeInv, SentOK
  <2>9. SentOK(s)'
    BY <1>1, <1>3, <2>5, <2>6, <2>7, <2>8 DEF SentOK
  <2>. QED
    BY <1>6, <2>1, <2>9
<1>. QED
  BY <1>1, <1>5, <1>6

LEMMA PipeInvStep == PipeInv /\ [Next]_vars => PipeInv'
<1> SUFFICES ASSUME PipeInv, [Next]_vars PROVE PipeInv'
  OBVIOUS
<1>1. TLSInv'
  BY InvStep DEF PipeInv
<1> SUFFICES ASSUME NEW q \in Sides PROVE RecordOK(q)' /\ SentOK(q)'
  BY <1>1 DEF PipeInv
<1>2. closed \in [Sides -> BOOLEAN] /\ Peer(q) \in Sides
  BY PeerSide DEF PipeInv, TLSInv, TypesOK
<1>3. ASSUME UNCHANGED <<queue, out, written, inRec, plain, taken>>,
             \A p \in Sides : closed[p] => closed'[p]
      PROVE  RecordOK(q)' /\ SentOK(q)'
  BY <1>2, <1>3, RecordsKept DEF PipeInv
<1>4. ASSUME UNCHANGED <<queue, closed, out, written, inRec, plain, taken>>
      PROVE  RecordOK(q)' /\ SentOK(q)'
  BY <1>3, <1>4
<1>5. ASSUME NEW s \in Sides, Dies(s) PROVE RecordOK(q)' /\ SentOK(q)'
  <2>1. \A p \in Sides : closed[p] => closed'[p]
    BY <1>2, <1>5 DEF Dies
  <2>. QED
    BY <1>3, <1>5, <2>1 DEF Dies, outVars, inVars
<1>6. ASSUME NEW s \in Sides, SendStep(s) PROVE RecordOK(q)' /\ SentOK(q)'
  <2>1. CASE EnterWrite(s) \/ WriteUnit(s)
    BY <1>1, <2>1, RecordsEnter, RecordsWrite
  <2>2. CASE BadCount(s) \/ WriteFails(s)
    BY <1>4, <2>2 DEF BadCount, WriteFails, netVars, outVars, inVars
  <2>3. CASE WriteKilled(s)
    BY <1>5, <2>3 DEF WriteKilled
  <2>. QED
    BY <1>6, <2>1, <2>2, <2>3 DEF SendStep
<1>7. ASSUME NEW s \in Sides, RecvStep(s) PROVE RecordOK(q)' /\ SentOK(q)'
  <2>1. CASE ReadPlain(s) \/ ReadUnit(s)
    BY <1>1, <2>1, RecordsReadPlain, RecordsReadUnit
  <2>2. CASE ReadFails(s)
    BY <1>4, <2>2 DEF ReadFails, outVars, inVars
  <2>. QED
    BY <1>7, <2>1, <2>2 DEF RecvStep
<1>8. ASSUME NEW s \in Sides, ShutdownStep(s) \/ Crash(s) PROVE RecordOK(q)' /\ SentOK(q)'
  BY <1>1, <1>5, <1>8, RecordsShutdown DEF ShutdownStep, ShutdownKilled, Crash
<1>9. ASSUME NEW s \in Sides,
             \/ CallSend(s) \/ RejectSend(s) \/ CallReceive(s) \/ RejectReceive(s)
             \/ CallDisconnect(s)
      PROVE  RecordOK(q)' /\ SentOK(q)'
  BY <1>4, <1>9
  DEF CallSend, RejectSend, CallReceive, RejectReceive, CallDisconnect, netVars, outVars, inVars
<1>10. ASSUME NEW c \in TimeoutCalls, SetTimeout(c) PROVE RecordOK(q)' /\ SentOK(q)'
  BY <1>4, <1>10 DEF SetTimeout, netVars, outVars, inVars
<1>11. CASE UNCHANGED vars
  BY <1>4, <1>11 DEF vars, netVars, outVars, inVars
<1>. QED
  BY <1>1, <1>6, <1>7, <1>8, <1>9, <1>10, <1>11, RecordsBreak DEF Next

-----------------------------------------------------------------------------
(* The refinement of BytePipe *)

Moved(s) == written[s] - Len(out[s])

LEMMA PipeSides ==
  /\ Pipe!Sides = Sides /\ \A s \in Sides : Pipe!Peer(s) = Peer(s)
BY DEF Pipe!Sides, Pipe!Peer, Sides, Peer

\* what the connection has taken from the sessions
LEMMA MovedIs ==
  ASSUME TLSInv, NEW s \in Sides
  PROVE  /\ Moved(s) \in Nat /\ Len([i \in 1..Moved(s) |-> i]) = Moved(s)
         /\ [i \in 1..Moved(s) |-> i] \in Seq(Nat)
<1>1. FlowOK(Peer(s)) /\ Peer(Peer(s)) = s
  BY PeerSide DEF TLSInv
<1>2. written \in [Sides -> Nat] /\ out \in [Sides -> Seq(Unit)]
  BY DEF TLSInv, TypesOK
<1>3. Len(out[s]) <= written[s] /\ written[s] \in Nat /\ Len(out[s]) \in Nat
  BY <1>1, <1>2 DEF FlowOK
<1>4. Moved(s) \in Nat
  BY <1>3 DEF Moved
<1>. QED
  BY <1>4

LEMMA PipeStarts == Init => Pipe!PipeInit
<1> SUFFICES ASSUME Init PROVE Pipe!PipeInit
  OBVIOUS
<1>1. /\ taken = [s \in Sides |-> 0] /\ closed = [s \in Sides |-> FALSE]
      /\ \A s \in Sides : written[s] = 0 /\ out[s] = <<>>
  BY DEF Init, Each
<1>2. \A s \in Sides : [i \in 1..(written[s] - Len(out[s])) |-> i] = <<>>
  BY <1>1
<1>3. [s \in Sides |-> [i \in 1..(written[s] - Len(out[s])) |-> i]] = [s \in Sides |-> <<>>]
  BY <1>2
<1>. QED
  BY <1>1, <1>3, PipeSides DEF Pipe!PipeInit

\* a step that moves no byte and closes nothing is not seen
LEMMA PipeStutters ==
  ASSUME UNCHANGED <<closed, taken>>, \A s \in Sides : Moved(s)' = Moved(s)
  PROVE  UNCHANGED Pipe!pipeVars
<1>1. [s \in Sides |-> [i \in 1..(written[s] - Len(out[s])) |-> i]]'
        = [s \in Sides |-> [i \in 1..(written[s] - Len(out[s])) |-> i]]
  BY DEF Moved
<1>. QED
  BY <1>1 DEF Pipe!pipeVars

\* an SSL_write that has something to send moves nothing yet
LEMMA PipeWaits ==
  ASSUME TLSInv, NEW s \in Sides, EnterWrite(s)  PROVE UNCHANGED Pipe!pipeVars
<1>1. UNCHANGED <<closed, taken>>
  BY DEF EnterWrite, netVars, inVars
<1>2. written \in [Sides -> Nat] /\ out \in [Sides -> Seq(Unit)]
  BY DEF TLSInv, TypesOK
<1>3. CASE out[s] # <<>>
  BY <1>1, <1>3, PipeStutters DEF EnterWrite, outVars, Moved
<1>4. CASE out[s] = <<>>
  <2> DEFINE b == call[s].base + total[s]
             m == Num(s)
  <2>1. /\ out' = [out EXCEPT ![s] = Records(b, m)] /\ written' = [written EXCEPT ![s] = @ + m]
        /\ m > 0 /\ pc[s] = "send"
    BY <1>4 DEF EnterWrite
  <2>2. b \in Nat /\ m \in Nat
    <3>1. call[s] \in Call /\ total[s] \in Nat /\ total[s] < call[s].size
      BY <2>1 DEF TLSInv, TypesOK, CallOK, Running
    <3>2. call[s].size - total[s] \in Nat /\ call[s].base \in Nat
      BY <3>1 DEF Call
    <3>3. m \in Int
      BY <3>2, ToIntAtMost DEF Num
    <3>. QED
      BY <2>1, <3>1, <3>2, <3>3
  <2> HIDE DEF b, m
  <2>3. Len(Records(b, m)) = m
    BY <2>2, RecordsSeq
  <2>4. Moved(s)' = Moved(s)
    <3>1. out'[s] = Records(b, m) /\ written'[s] = written[s] + m /\ written[s] \in Nat
      BY <1>2, <2>1
    <3>2. Len(out[s]) = 0
      BY <1>4
    <3>3. written[s] + m - m = written[s] - 0
      BY <2>2, <3>1
    <3>. QED
      BY <2>3, <3>1, <3>2, <3>3 DEF Moved
  <2>5. ASSUME NEW q \in Sides, q # s  PROVE Moved(q)' = Moved(q)
    BY <1>2, <2>1, <2>5 DEF Moved
  <2>. QED
    BY <1>1, <2>4, <2>5, PipeStutters
<1>. QED
  BY <1>3, <1>4

LEMMA PipeWrites ==
  ASSUME PipeInv, NEW s \in Sides, WriteUnit(s)  PROVE Pipe!Write(s)
<1>1. PICK r \in Sides : r = Peer(s) /\ r # s /\ Peer(r) = s /\ Sides = {s, r}
  BY PeerSide DEF Sides, Peer
<1>2. /\ pc[s] = "write" /\ ~Full(s) /\ out' = [out EXCEPT ![s] = Tail(@)]
      /\ UNCHANGED <<closed, written, taken>>
  BY DEF WriteUnit, inVars
<1>3. ~closed[s] /\ out[s] # <<>>
  BY <1>2 DEF PipeInv, TLSInv, CallOK, Running, SendOK
<1>4. /\ out \in [Sides -> Seq(Unit)] /\ written \in [Sides -> Nat]
      /\ taken \in [Sides -> Nat] /\ queue \in [Sides -> Seq(Unit)]
      /\ plain \in [Sides -> Seq(Nat)] /\ inRec \in [Sides -> Seq(Nat)]
  BY DEF PipeInv, TLSInv, TypesOK
<1>5. PICK l \in Nat : l = Len(out[s]) /\ Len(Tail(out[s])) = l - 1 /\ out'[s] = Tail(out[s])
  <2>1. out[s] \in Seq(Unit) /\ out'[s] = Tail(out[s])
    BY <1>2, <1>4
  <2>. QED
    BY <1>3, <2>1, HeadTailProperties
<1>6. PICK w \in Nat : w = written[s]
  BY <1>4
<1>7. PICK t \in Nat, o \in Nat, a \in Nat, n \in Nat :
        t = taken[r] /\ o = Len(plain[r]) /\ a = Len(inRec[r]) /\ n = Len(queue[r])
  BY <1>4
<1>8. w - l = t + o + a + n
  <2>1. link[r] = "up" /\ DataUnits(r) = n
    BY <1>1, <1>3, <1>7, OnlyPlain DEF PipeInv
  <2>2. Arrived(r) = t + o + a
    BY <1>7 DEF Arrived, Opened
  <2>. QED
    BY <1>1, <1>5, <1>6, <2>1, <2>2 DEF PipeInv, TLSInv, FlowOK
<1>9. o + a <= MaxRecord
  <2>1. RecordOK(r) /\ ~closed[Peer(r)]
    BY <1>1, <1>3 DEF PipeInv
  <2>2. plain[r] # <<>> => a = 0 /\ o <= MaxRecord
    BY <1>7, <2>1 DEF RecordOK
  <2>3. a < MaxRecord
    <3>1. Coming(r) \in Seq(Unit) /\ Coming(r) # <<>>
      <4>1. queue[r] \in Seq(Unit) /\ out[s] \in Seq(Unit) /\ Coming(r) = queue[r] \o out[s]
        BY <1>1, <1>4 DEF Coming
      <4>2. Coming(r) \in Seq(Unit) /\ Len(Coming(r)) = Len(queue[r]) + Len(out[s])
        BY <4>1, ConcatProperties
      <4>3. Len(out[s]) # 0
        BY <1>3, <4>1, EmptySeq
      <4>4. Len(Coming(r)) = n + l /\ l # 0
        BY <1>5, <1>7, <4>2, <4>3
      <4>5. n + l # 0
        BY <4>4
      <4>6. Coming(r) # <<>>
        BY <4>2, <4>4, <4>5, EmptySeq
      <4>. QED
        BY <4>2, <4>6
    <3>2. InRecords(Coming(r), a)
      BY <1>7, <2>1 DEF RecordOK
    <3>. QED
      BY <3>1, <3>2, RecordsWithoutFirst
  <2>4. CASE plain[r] # <<>>
    BY <2>2, <2>4, LimitsAssumption
  <2>5. CASE plain[r] = <<>>
    BY <1>7, <2>3, <2>5, LimitsAssumption
  <2>. QED
    BY <2>4, <2>5
<1>10. n < Window
  BY <1>1, <1>2, <1>7, LimitsAssumption DEF Full
<1>11. Moved(s) = w - l /\ Moved(s)' = Moved(s) + 1
  <2>1. Moved(s) = w - l /\ Moved(s)' = w - (l - 1)
    BY <1>2, <1>5, <1>6 DEF Moved
  <2>. QED
    BY <2>1
<1>12. Moved(s) \in Nat
  BY MovedIs DEF PipeInv
<1> DEFINE bytes(q) == [i \in 1..Moved(q) |-> i]
           sent == [q \in Sides |-> bytes(q)]
<1>13. /\ Len(sent[s]) = Moved(s) /\ sent[s] = bytes(s)
       /\ bytes(s)' = bytes(s) \o [i \in 1..1 |-> Moved(s) + i]
  <2>1. bytes(s)' = [i \in 1..Moved(s) + 1 |-> i]
    BY <1>11
  <2>2. [i \in 1..Moved(s) + 1 |-> i] = bytes(s) \o [i \in 1..1 |-> Moved(s) + i]
    BY <1>12
  <2>3. Len(bytes(s)) = Moved(s)
    BY MovedIs DEF PipeInv
  <2>. QED
    BY <2>1, <2>2, <2>3
<1>14. ASSUME NEW q \in Sides, q # s  PROVE bytes(q)' = bytes(q)
  BY <1>2, <1>4, <1>14 DEF Moved
<1>15. sent' = [sent EXCEPT ![s] = @ \o [i \in 1..1 |-> Len(sent[s]) + i]]
  <2>1. sent' = [q \in Sides |-> bytes(q)']
    OBVIOUS
  <2> HIDE DEF bytes
  <2>. QED
    BY <1>13, <1>14, <2>1
<1>16. /\ Len(sent[s]) + 1 <= taken[r] + (Window + MaxRecord)
       /\ 1 \in 1..(Window + MaxRecord)
  <2>1. Window \in Nat /\ MaxRecord \in Nat \ {0}
    BY LimitsAssumption
  <2>2. t + o + a + n + 1 <= t + (Window + MaxRecord) /\ 1 \in 1..(Window + MaxRecord)
    BY <1>9, <1>10, <2>1
  <2>3. Len(sent[s]) = t + o + a + n
    BY <1>8, <1>11, <1>13
  <2>. QED
    BY <1>7, <2>2, <2>3
<1> HIDE DEF sent
<1>17. \E n1 \in 1..(Window + MaxRecord) :
         /\ Len(sent[s]) + n1 <= taken[Peer(s)] + (Window + MaxRecord)
         /\ sent' = [sent EXCEPT ![s] = @ \o [i \in 1..n1 |-> Len(sent[s]) + i]]
  BY <1>1, <1>15, <1>16
<1>. QED
  BY <1>2, <1>3, <1>17, PipeSides DEF Pipe!Write, sent, bytes, Moved

LEMMA PipeReads ==
  ASSUME PipeInv, NEW s \in Sides, ReadPlain(s)  PROVE Pipe!Read(s)
<1>1. PICK r \in Sides : r = Peer(s) /\ r # s /\ Peer(r) = s
  BY PeerSide
<1> DEFINE n == IF Num(s) < PendingBytes(s) THEN Num(s) ELSE PendingBytes(s)
<1>2. /\ Num(s) > 0 /\ PendingBytes(s) > 0 /\ pc[s] = "recv"
      /\ taken' = [taken EXCEPT ![s] = @ + n]
      /\ UNCHANGED <<closed, out, written>>
  BY DEF ReadPlain, netVars, outVars
<1>3. /\ call[s] \in Call /\ total[s] \in Nat /\ total[s] < call[s].size /\ ~closed[s]
  BY <1>2 DEF PipeInv, TLSInv, TypesOK, CallOK, Running
<1>4. Num(s) \in Int
  <2>1. call[s].size - total[s] \in Nat
    BY <1>3 DEF Call
  <2>. QED
    BY <2>1, ToIntAtMost DEF Num
<1>5. PICK t \in Nat, o \in Nat, a \in Nat, l \in Nat :
        t = taken[s] /\ o = Len(plain[s]) /\ a = Len(inRec[s]) /\ l = Len(queue[s])
  <2>1. /\ taken \in [Sides -> Nat] /\ queue \in [Sides -> Seq(Unit)]
        /\ plain \in [Sides -> Seq(Nat)] /\ inRec \in [Sides -> Seq(Nat)]
    BY DEF PipeInv, TLSInv, TypesOK
  <2>. QED
    BY <2>1
<1>6. n \in Nat /\ 1 <= n /\ n <= o
  BY <1>2, <1>4, <1>5 DEF PendingBytes
<1> HIDE DEF n
<1>7. PICK d \in Nat : d = DataUnits(s)
  <2>1. queue[s] # <<>> => l # 0
    <3>1. queue[s] \in Seq(Unit)
      BY DEF PipeInv, TLSInv, TypesOK
    <3>. QED
      BY <1>5, <3>1, EmptySeq
  <2>. QED
    BY <1>5, <2>1 DEF DataUnits
<1>8. PICK m \in Nat : m = Moved(r) /\ m = Len([i \in 1..Moved(r) |-> i])
  BY MovedIs DEF PipeInv
<1>9. t + o + a + d <= m
  BY <1>1, <1>5, <1>7, <1>8 DEF PipeInv, SentOK, Arrived, Opened, Moved
<1>10. n \in 1..(m - t)
  BY <1>6, <1>9
<1> DEFINE sent == [q \in Sides |-> [i \in 1..Moved(q) |-> i]]
<1>11. Len(sent[Peer(s)]) = m
  BY <1>1, <1>8
<1>12. sent' = sent
  BY <1>2 DEF Moved
<1> HIDE DEF sent
<1>13. \E k \in 1..(Len(sent[Peer(s)]) - taken[s]) : taken' = [taken EXCEPT ![s] = @ + k]
  BY <1>2, <1>5, <1>10, <1>11
<1>. QED
  BY <1>2, <1>3, <1>12, <1>13, PipeSides DEF Pipe!Read, sent, Moved

LEMMA PipeCloses ==
  ASSUME NEW s \in Sides, ~closed[s], closed' = [closed EXCEPT ![s] = TRUE],
         UNCHANGED <<out, written, taken>>
  PROVE  Pipe!Close(s)
BY DEF Pipe!Close

\* every step is a step of the pipe or does nothing to it
LEMMA PipeStep == PipeInv /\ [Next]_vars => [Pipe!PipeNext]_(Pipe!pipeVars)
<1> SUFFICES ASSUME PipeInv, [Next]_vars PROVE [Pipe!PipeNext]_(Pipe!pipeVars)
  OBVIOUS
<1>1. ASSUME UNCHANGED <<closed, out, written, taken>>
      PROVE  UNCHANGED Pipe!pipeVars
  BY <1>1, PipeStutters DEF Moved
<1>2. ASSUME NEW s \in Sides, SendStep(s)  PROVE [Pipe!PipeNext]_(Pipe!pipeVars)
  <2>1. CASE EnterWrite(s)
    BY <2>1, PipeWaits DEF PipeInv
  <2>2. CASE WriteUnit(s)
    BY <2>2, PipeWrites, PipeSides DEF Pipe!PipeNext
  <2>3. CASE BadCount(s) \/ WriteFails(s)
    BY <1>1, <2>3 DEF BadCount, WriteFails, netVars, outVars, inVars
  <2>4. CASE WriteKilled(s)
    <3>1. ~closed[s]
      BY <2>4 DEF WriteKilled, PipeInv, TLSInv, CallOK, Running
    <3>. QED
      BY <2>4, <3>1, PipeCloses, PipeSides
      DEF WriteKilled, Dies, outVars, inVars, Pipe!PipeNext
  <2>. QED
    BY <1>2, <2>1, <2>2, <2>3, <2>4 DEF SendStep
<1>3. ASSUME NEW s \in Sides, RecvStep(s)  PROVE [Pipe!PipeNext]_(Pipe!pipeVars)
  <2>1. CASE ReadPlain(s)
    BY <2>1, PipeReads, PipeSides DEF Pipe!PipeNext
  <2>2. CASE ReadUnit(s) \/ ReadFails(s)
    BY <1>1, <2>2 DEF ReadUnit, ReadFails, outVars, inVars
  <2>. QED
    BY <1>3, <2>1, <2>2 DEF RecvStep
<1>4. ASSUME NEW s \in Sides, ShutdownStep(s) \/ Crash(s)
      PROVE  [Pipe!PipeNext]_(Pipe!pipeVars)
  <2>1. ~closed[s]
    BY <1>4
    DEF ShutdownStep, Shutdown, ShutdownKilled, Crash, PipeInv, TLSInv, CallOK
  <2>2. closed' = [closed EXCEPT ![s] = TRUE] /\ UNCHANGED <<out, written, taken>>
    BY <1>4 DEF ShutdownStep, Shutdown, ShutdownKilled, Crash, Dies, outVars, inVars
  <2>. QED
    BY <2>1, <2>2, PipeCloses, PipeSides DEF Pipe!PipeNext
<1>5. ASSUME NEW s \in Sides,
             \/ CallSend(s) \/ RejectSend(s) \/ CallReceive(s) \/ RejectReceive(s)
             \/ CallDisconnect(s) \/ Breaks(s)
      PROVE  UNCHANGED <<closed, out, written, taken>>
  BY <1>5
  DEF CallSend, RejectSend, CallReceive, RejectReceive, CallDisconnect, Breaks,
      netVars, outVars, inVars
<1>6. ASSUME NEW c \in TimeoutCalls, SetTimeout(c)
      PROVE  UNCHANGED <<closed, out, written, taken>>
  BY <1>6 DEF SetTimeout, netVars, outVars, inVars
<1>7. CASE UNCHANGED vars
  BY <1>1, <1>7 DEF vars, netVars, outVars, inVars
<1>. QED
  BY <1>1, <1>2, <1>3, <1>4, <1>5, <1>6, <1>7 DEF Next

\* TLS on both ends of a pipe of bytes is again such a pipe, of one record
\* more, for all sizes, windows, records and limits: whatever fails, is repeated
\* or is cut off, the loops of Send and Receive move plaintext from open ends to
\* open ends and never more than was sent (TCPSSLClient.cpp:165-183, 223-242).
THEOREM TLSStreamIsPipe == TLSSpec => TLSPipeKept
<1>1. Init /\ [][Next]_vars => []PipeInv
  BY PipeInvInit, PipeInvStep, PTL
<1>. QED
  BY <1>1, PipeStarts, PipeStep, PTL DEF TLSSpec, TLSPipeKept, Pipe!PipeSpec
=============================================================================
