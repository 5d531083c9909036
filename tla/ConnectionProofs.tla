-------------------------- MODULE ConnectionProofs --------------------------
(***************************************************************************)
(* What TLAPS proves of Connection, for all sizes, windows and limits:     *)
(* types and buffers, which bytes Send hands to the kernel and reports,    *)
(* and how the bytes Receive returns and the number it reports relate to   *)
(* the bytes it took from the connection.                                  *)
(***************************************************************************)
EXTENDS Connection, SequenceTheorems, TLAPS

-----------------------------------------------------------------------------
(* The arithmetic *)

LEMMA SumWide ==
  ASSUME NEW t \in Int, NEW n \in 1..MaxRW
  PROVE  \A u \in IntSum(t, n) : u \in Int /\ (u = t + n \/ u < 0)
BY LimitsAssumption DEF IntSum

LEMMA SumExact ==
  ASSUME NEW t \in Int, NEW n \in Nat, t + n <= IntMax
  PROVE  IntSum(t, n) = {t + n}
BY LimitsAssumption DEF IntSum

LEMMA ToIntFits ==
  ASSUME NEW t \in Int
  PROVE  ToInt(t) \in Int32 /\ (t \in Int32 => ToInt(t) = t)
<1>1. IntMax \in Nat \ {0}
  BY LimitsAssumption
<1>2. (t + IntMax + 1) % (2 * IntMax + 2) \in 0..(2 * IntMax + 1)
  BY <1>1, SMT
<1>. QED
  BY <1>1, <1>2 DEF ToInt, Int32

LEMMA PeerSide ==
  ASSUME NEW s \in Sides
  PROVE  Peer(s) \in Sides /\ Peer(s) # s /\ Peer(Peer(s)) = s
BY DEF Sides, Peer

LEMMA ChunkSeq ==
  ASSUME NEW s \in Sides, NEW n \in Nat, call[s].base \in Nat, total[s] \in Nat
  PROVE  /\ Chunk(s, n) \in Seq(Nat) /\ Len(Chunk(s, n)) = n
         /\ \A i \in 1..n : Chunk(s, n)[i] = call[s].base + total[s] + i
BY DEF Chunk

-----------------------------------------------------------------------------
(* The first inductive invariant: types, and the loops' bookkeeping *)

QueueOK ==
  \A s \in Sides : rd[s] <= arr[s] /\ arr[s] <= Len(stream[Peer(s)])

LoopOK(s) ==
  /\ pc[s] = "send" => /\ total[s] \in 0..(call[s].size - 1)
                       /\ Len(stream[s]) = call[s].base + total[s]
  /\ pc[s] = "recv" => /\ total[s] \in 0..(call[s].size - 1)
                       /\ buf[s] \in [1..call[s].size -> Nat]

LoopInv == TypeOK /\ QueueOK /\ \A s \in Sides : LoopOK(s)

LEMMA LoopInit == Init => LoopInv
BY LimitsAssumption
DEF Init, LoopInv, TypeOK, NetTypeOK, LoopTypeOK, OptTypeOK, QueueOK, LoopOK,
    Sides, Peer, NoRet, NoCall, Options, Calls, Results, Int32

LEMMA ReturnsType ==
  ASSUME LoopTypeOK, NEW s \in Sides, NEW op \in {"send", "recv"}, NEW val \in Int32,
         Returns(s, op, val)
  PROVE  /\ pc' \in [Sides -> {"idle", "send", "recv", "killed"}]
         /\ ret' \in [Sides -> Results]
BY DEF LoopTypeOK, Returns, Results

LEMMA LoopCallSend ==
  ASSUME LoopInv, NEW s \in Sides, CallSend(s)  PROVE LoopInv'
<1>1. PICK n \in Sizes \ {0} :
        call' = [call EXCEPT ![s] =
                   [size |-> n, fully |-> TRUE, base |-> Len(stream[s])]]
  BY DEF CallSend
<1>2. n \in Nat \ {0} /\ Len(stream[s]) \in Nat
  BY SizesAssumption DEF LoopInv, TypeOK, NetTypeOK
<1>3. call' \in [Sides -> Calls]
  BY <1>1, <1>2 DEF LoopInv, TypeOK, LoopTypeOK, Calls
<1>4. ret' \in [Sides -> Results]
  BY LimitsAssumption DEF LoopInv, TypeOK, LoopTypeOK, CallSend, NoRet, Results, Int32
<1>5. UNCHANGED <<ends, link, stream, arr, rd, timeo, asked, buf, failed, polled>>
  BY DEF CallSend, netVars, optVars
<1>6. LoopTypeOK'
  BY <1>3, <1>4, <1>5 DEF LoopInv, TypeOK, LoopTypeOK, CallSend
<1>7. NetTypeOK' /\ OptTypeOK' /\ QueueOK'
  BY <1>5 DEF LoopInv, TypeOK, NetTypeOK, OptTypeOK, QueueOK
<1>8. ASSUME NEW q \in Sides  PROVE LoopOK(q)'
  <2>1. CASE q = s
    BY <1>1, <1>2, <1>5, <2>1 DEF LoopInv, TypeOK, LoopTypeOK, LoopOK, CallSend
  <2>2. CASE q # s
    BY <1>1, <1>5, <2>2 DEF LoopInv, TypeOK, LoopTypeOK, LoopOK, CallSend
  <2>. QED
    BY <2>1, <2>2
<1>. QED
  BY <1>6, <1>7, <1>8 DEF LoopInv, TypeOK

LEMMA LoopRejectSend ==
  ASSUME LoopInv, NEW s \in Sides, RejectSend(s)  PROVE LoopInv'
<1>1. PICK n \in Sizes :
        call' = [call EXCEPT ![s] =
                   [size |-> n, fully |-> TRUE, base |-> Len(stream[s])]]
  BY DEF RejectSend
<1>2. n \in Nat /\ Len(stream[s]) \in Nat
  BY SizesAssumption DEF LoopInv, TypeOK, NetTypeOK
<1>3. call' \in [Sides -> Calls]
  BY <1>1, <1>2 DEF LoopInv, TypeOK, LoopTypeOK, Calls
<1>4. /\ Returns(s, "send", 0) /\ pc[s] = "idle"
      /\ UNCHANGED <<ends, link, stream, arr, rd, timeo, asked, total, buf, failed, polled>>
  BY DEF RejectSend, netVars, optVars
<1>5. /\ pc' \in [Sides -> {"idle", "send", "recv", "killed"}]
      /\ ret' \in [Sides -> Results]
  BY <1>4, ReturnsType, LimitsAssumption DEF LoopInv, TypeOK, Int32
<1>6. TypeOK' /\ QueueOK'
  BY <1>3, <1>4, <1>5 DEF LoopInv, TypeOK, NetTypeOK, LoopTypeOK, OptTypeOK, QueueOK
<1>7. ASSUME NEW q \in Sides  PROVE LoopOK(q)'
  BY <1>1, <1>4 DEF LoopInv, TypeOK, LoopTypeOK, LoopOK, Returns
<1>. QED
  BY <1>6, <1>7 DEF LoopInv

\* the step of SendSome in which send() took n bytes
SendOf(s, n) ==
  /\ n <= call[s].size - total[s]
  /\ stream' = [stream EXCEPT ![s] = @ \o Chunk(s, n)]
  /\ \E t \in IntSum(total[s], n) :
       /\ total' = [total EXCEPT ![s] = t]
       /\ IF SizeLess(t, call[s].size)
          THEN UNCHANGED <<pc, ret>> ELSE Returns(s, "send", 1)

LEMMA LoopSendSome ==
  ASSUME LoopInv, NEW s \in Sides, SendSome(s)  PROVE LoopInv'
<1>0. PICK n \in 1..MaxRW : SendOf(s, n)
  BY DEF SendSome, SendOf
<1>1. PICK t \in IntSum(total[s], n) :
        /\ n <= call[s].size - total[s]
        /\ stream' = [stream EXCEPT ![s] = @ \o Chunk(s, n)]
        /\ total' = [total EXCEPT ![s] = t]
        /\ IF SizeLess(t, call[s].size)
           THEN UNCHANGED <<pc, ret>> ELSE Returns(s, "send", 1)
  BY <1>0 DEF SendOf
<1>2. /\ pc[s] = "send"
      /\ UNCHANGED <<ends, link, arr, rd, timeo, asked, call, buf, failed, polled>>
  BY DEF SendSome, optVars
<1>3. /\ n \in Nat /\ total[s] \in Nat /\ call[s] \in Calls
      /\ Len(stream[s]) = call[s].base + total[s]
  BY <1>2, LimitsAssumption DEF LoopInv, TypeOK, LoopTypeOK, LoopOK, Calls
<1>4. t \in Int /\ (t = total[s] + n \/ t < 0)
  BY <1>3, SumWide
<1>5. /\ stream'[s] \in Seq(Nat) /\ Len(stream'[s]) = Len(stream[s]) + n
      /\ \A q \in Sides : q # s => stream'[q] = stream[q]
      /\ stream' \in [Sides -> Seq(Nat)]
  <2>1. Chunk(s, n) \in Seq(Nat) /\ Len(Chunk(s, n)) = n
    BY <1>3, ChunkSeq DEF Calls
  <2>2. stream \in [Sides -> Seq(Nat)]
    BY DEF LoopInv, TypeOK, NetTypeOK
  <2>. QED
    BY <1>1, <2>1, <2>2, ConcatProperties
<1>6. NetTypeOK' /\ OptTypeOK'
  BY <1>2, <1>5 DEF LoopInv, TypeOK, NetTypeOK, OptTypeOK
<1>7. LoopTypeOK'
  <2>1. total' \in [Sides -> Int]
    BY <1>1, <1>4 DEF LoopInv, TypeOK, LoopTypeOK
  <2>2. /\ pc' \in [Sides -> {"idle", "send", "recv", "killed"}]
        /\ ret' \in [Sides -> Results]
    BY <1>1, ReturnsType, LimitsAssumption DEF LoopInv, TypeOK, LoopTypeOK, Int32
  <2>. QED
    BY <1>2, <2>1, <2>2 DEF LoopInv, TypeOK, LoopTypeOK
<1>8. QueueOK'
  <2>1. \A q \in Sides : Len(stream[q]) \in Nat /\ Len(stream'[q]) \in Nat
                         /\ Len(stream[q]) <= Len(stream'[q])
    <3>1. \A q \in Sides : stream[q] \in Seq(Nat) /\ stream'[q] \in Seq(Nat)
      BY <1>5 DEF LoopInv, TypeOK, NetTypeOK
    <3>2. \A q \in Sides : Len(stream[q]) \in Nat /\ Len(stream'[q]) \in Nat
      BY <3>1
    <3>3. Len(stream[s]) <= Len(stream'[s])
      <4>1. Len(stream[s]) \in Nat
        BY <3>2
      <4>2. Len(stream'[s]) = Len(stream[s]) + n /\ n \in Nat
        BY <1>3, <1>5
      <4>. QED
        BY <4>1, <4>2
    <3>4. \A q \in Sides : q # s => Len(stream[q]) <= Len(stream'[q])
      BY <1>5, <3>2
    <3>. QED
      BY <3>2, <3>3, <3>4
  <2>2. arr \in [Sides -> Nat] /\ arr' = arr /\ rd' = rd
    BY <1>2 DEF LoopInv, TypeOK, NetTypeOK
  <2>. QED
    BY <2>1, <2>2, PeerSide DEF LoopInv, QueueOK
<1>9. ASSUME NEW q \in Sides  PROVE LoopOK(q)'
  <2>1. CASE q = s
    <3>1. /\ total'[s] = t /\ call'[s] = call[s]
          /\ SizeLess(t, call[s].size) => pc'[s] = "send"
          /\ ~SizeLess(t, call[s].size) => pc'[s] = "idle"
      BY <1>1, <1>2 DEF LoopInv, TypeOK, LoopTypeOK, Returns
    <3>2. SizeLess(t, call[s].size) =>
            t \in 0..(call[s].size - 1) /\ t = total[s] + n
      BY <1>3, <1>4 DEF SizeLess, Calls
    <3>3. t = total[s] + n => Len(stream'[s]) = call[s].base + t
      BY <1>3, <1>5 DEF Calls
    <3>. QED
      BY <3>1, <3>2, <3>3, <2>1 DEF LoopOK
  <2>2. CASE q # s
    BY <1>1, <1>2, <1>5, <2>2 DEF LoopInv, TypeOK, LoopTypeOK, LoopOK, Returns
  <2>. QED
    BY <2>1, <2>2
<1>. QED
  BY <1>6, <1>7, <1>8, <1>9 DEF LoopInv, TypeOK

LEMMA LoopSendFail ==
  ASSUME LoopInv, NEW s \in Sides, SendFail(s)  PROVE LoopInv'
<1>1. /\ Returns(s, "send", 0)
      /\ UNCHANGED <<ends, stream, arr, rd, timeo, asked, call, total, buf, failed, polled>>
  BY DEF SendFail, optVars
<1>2. link' \in [Sides -> {"up", "rst", "reset", "dead"}]
  BY DEF SendFail, LoopInv, TypeOK, NetTypeOK
<1>3. /\ pc' \in [Sides -> {"idle", "send", "recv", "killed"}]
      /\ ret' \in [Sides -> Results]
  BY <1>1, ReturnsType, LimitsAssumption DEF LoopInv, TypeOK, Int32
<1>4. TypeOK' /\ QueueOK'
  BY <1>1, <1>2, <1>3 DEF LoopInv, TypeOK, NetTypeOK, LoopTypeOK, OptTypeOK, QueueOK
<1>5. ASSUME NEW q \in Sides  PROVE LoopOK(q)'
  BY <1>1 DEF LoopInv, TypeOK, LoopTypeOK, LoopOK, Returns
<1>. QED
  BY <1>4, <1>5 DEF LoopInv

\* closing a descriptor touches neither the streams nor the loops
LEMMA HangupType ==
  ASSUME NetTypeOK, NEW s \in Sides, Hangup(s)
  PROVE  NetTypeOK' /\ UNCHANGED <<stream, arr, rd>>
BY PeerSide DEF NetTypeOK, Hangup

LEMMA LoopStops ==
  ASSUME LoopInv, NEW s \in Sides, Hangup(s),
         pc' = [pc EXCEPT ![s] = "killed"] \/ pc' = pc,
         UNCHANGED <<timeo, asked, call, total, buf, failed, ret, polled>>
  PROVE  LoopInv'
<1>1. NetTypeOK' /\ UNCHANGED <<stream, arr, rd>>
  BY HangupType DEF LoopInv, TypeOK
<1>2. LoopTypeOK' /\ OptTypeOK' /\ QueueOK'
  BY <1>1 DEF LoopInv, TypeOK, LoopTypeOK, OptTypeOK, QueueOK
<1>3. ASSUME NEW q \in Sides  PROVE LoopOK(q)'
  BY <1>1 DEF LoopInv, TypeOK, LoopTypeOK, LoopOK
<1>. QED
  BY <1>1, <1>2, <1>3 DEF LoopInv, TypeOK

LEMMA LoopSendKilled ==
  ASSUME LoopInv, NEW s \in Sides, SendKilled(s)  PROVE LoopInv'
BY LoopStops DEF SendKilled, optVars

LEMMA LoopDisconnect ==
  ASSUME LoopInv, NEW s \in Sides, Disconnect(s)  PROVE LoopInv'
BY LoopStops DEF Disconnect, optVars, loopVars

LEMMA LoopCrash ==
  ASSUME LoopInv, NEW s \in Sides, Crash(s)  PROVE LoopInv'
BY LoopStops DEF Crash, optVars

LEMMA LoopPoll ==
  ASSUME LoopInv, NEW s \in Sides, Poll(s)  PROVE LoopInv'
<1>1. UNCHANGED <<ends, link, stream, arr, rd, timeo, asked, pc, call, total, buf, failed>>
  BY DEF Poll, netVars, optVars
<1>2. ret' \in [Sides -> Results] /\ polled' \in [Sides -> BOOLEAN]
  BY LimitsAssumption DEF Poll, LoopInv, TypeOK, LoopTypeOK, Results, Int32
<1>. QED
  BY <1>1, <1>2
  DEF LoopInv, TypeOK, NetTypeOK, LoopTypeOK, OptTypeOK, QueueOK, LoopOK

LEMMA LoopSetTimeout ==
  ASSUME LoopInv, NEW c \in TimeoutCall, NEW on \in BOOLEAN, SetTimeout(c, on)
  PROVE  LoopInv'
<1>1. UNCHANGED <<ends, link, stream, arr, rd, pc, call, total, buf, failed, ret, polled>>
  BY DEF SetTimeout, netVars, loopVars
<1>2. c.side \in Sides /\ c.opt \in {"rcv", "snd"} /\ OptionSet(c) \in {"rcv", "snd"}
  BY DEF TimeoutCall, OptionSet
<1>3. OptTypeOK'
  BY <1>2 DEF SetTimeout, LoopInv, TypeOK, OptTypeOK, Options
<1>. QED
  BY <1>1, <1>3 DEF LoopInv, TypeOK, NetTypeOK, LoopTypeOK, QueueOK, LoopOK

LEMMA LoopNetStep ==
  ASSUME LoopInv, NEW s \in Sides, NetStep(s)  PROVE LoopInv'
<1>1. UNCHANGED <<ends, stream, rd, timeo, asked, pc, call, total, buf, failed, ret, polled>>
  BY DEF NetStep, Arrive, Refuse, ResetArrives, loopVars, optVars
<1>2. link' \in [Sides -> {"up", "rst", "reset", "dead"}]
  BY PeerSide
  DEF NetStep, Arrive, Refuse, ResetArrives, LoopInv, TypeOK, NetTypeOK
<1>3. arr' \in [Sides -> Nat] /\ QueueOK'
  <2>1. CASE Arrive(s)
    BY <1>1, <2>1, PeerSide DEF Arrive, LoopInv, TypeOK, NetTypeOK, QueueOK
  <2>2. CASE ~Arrive(s)
    BY <1>1, <2>2 DEF NetStep, Refuse, ResetArrives, LoopInv, TypeOK, NetTypeOK, QueueOK
  <2>. QED
    BY <2>1, <2>2
<1>. QED
  BY <1>1, <1>2, <1>3
  DEF LoopInv, TypeOK, NetTypeOK, LoopTypeOK, OptTypeOK, LoopOK

LEMMA LoopCallReceive ==
  ASSUME LoopInv, NEW s \in Sides, CallReceive(s)  PROVE LoopInv'
<1>1. PICK n \in Sizes \ {0}, fully \in Modes :
        /\ call' = [call EXCEPT ![s] = [size |-> n, fully |-> fully, base |-> rd[s]]]
        /\ buf' = [buf EXCEPT ![s] = [i \in 1..n |-> 0]]
  BY DEF CallReceive
<1>2. n \in Nat \ {0} /\ fully \in BOOLEAN /\ rd[s] \in Nat
  BY SizesAssumption, ModesAssumption DEF LoopInv, TypeOK, NetTypeOK
<1>3. /\ call' \in [Sides -> Calls] /\ buf' \in [Sides -> Seq(Nat)]
      /\ buf'[s] \in [1..n -> Nat]
  BY <1>1, <1>2 DEF LoopInv, TypeOK, LoopTypeOK, Calls
<1>4. ret' \in [Sides -> Results]
  BY LimitsAssumption DEF LoopInv, TypeOK, LoopTypeOK, CallReceive, NoRet, Results, Int32
<1>5. UNCHANGED <<ends, link, stream, arr, rd, timeo, asked, polled>>
  BY DEF CallReceive, netVars, optVars
<1>6. LoopTypeOK'
  BY <1>3, <1>4, <1>5 DEF LoopInv, TypeOK, LoopTypeOK, CallReceive
<1>7. NetTypeOK' /\ OptTypeOK' /\ QueueOK'
  BY <1>5 DEF LoopInv, TypeOK, NetTypeOK, OptTypeOK, QueueOK
<1>8. ASSUME NEW q \in Sides  PROVE LoopOK(q)'
  <2>1. CASE q = s
    BY <1>1, <1>2, <1>3, <2>1 DEF LoopInv, TypeOK, LoopTypeOK, LoopOK, CallReceive
  <2>2. CASE q # s
    BY <1>1, <1>5, <2>2 DEF LoopInv, TypeOK, LoopTypeOK, LoopOK, CallReceive
  <2>. QED
    BY <2>1, <2>2
<1>. QED
  BY <1>6, <1>7, <1>8 DEF LoopInv, TypeOK

LEMMA LoopRejectReceive ==
  ASSUME LoopInv, NEW s \in Sides, RejectReceive(s)  PROVE LoopInv'
<1>1. PICK n \in Sizes, fully \in Modes :
        /\ call' = [call EXCEPT ![s] = [size |-> n, fully |-> fully, base |-> rd[s]]]
        /\ Returns(s, "recv", IF n = 0 THEN BadArgument(s) ELSE -1)
  BY DEF RejectReceive
<1>2. n \in Nat /\ fully \in BOOLEAN /\ rd[s] \in Nat
  BY SizesAssumption, ModesAssumption DEF LoopInv, TypeOK, NetTypeOK
<1>3. call' \in [Sides -> Calls]
  BY <1>1, <1>2 DEF LoopInv, TypeOK, LoopTypeOK, Calls
<1>4. /\ pc' \in [Sides -> {"idle", "send", "recv", "killed"}]
      /\ ret' \in [Sides -> Results]
  <2>1. (IF n = 0 THEN BadArgument(s) ELSE -1) \in Int32
    BY LimitsAssumption DEF BadArgument, Int32
  <2>. QED
    BY <1>1, <2>1, ReturnsType DEF LoopInv, TypeOK
<1>5. /\ UNCHANGED <<ends, link, stream, arr, rd, timeo, asked, total, buf, polled>>
      /\ failed' = [failed EXCEPT ![s] = 0]
  BY DEF RejectReceive, netVars, optVars
<1>6. TypeOK' /\ QueueOK'
  BY <1>3, <1>4, <1>5 DEF LoopInv, TypeOK, NetTypeOK, LoopTypeOK, OptTypeOK, QueueOK
<1>7. ASSUME NEW q \in Sides  PROVE LoopOK(q)'
  BY <1>1, <1>5 DEF LoopInv, TypeOK, LoopTypeOK, LoopOK, Returns
<1>. QED
  BY <1>6, <1>7 DEF LoopInv

\* what the loop condition of Receive does with the new total
LEMMA ContinueType ==
  ASSUME LoopTypeOK, NEW s \in Sides, NEW t \in Int, Continue(s, t)
  PROVE  /\ total' \in [Sides -> Int] /\ total'[s] = t
         /\ pc' \in [Sides -> {"idle", "send", "recv", "killed"}]
         /\ ret' \in [Sides -> Results] /\ polled' \in [Sides -> BOOLEAN]
         /\ pc'[s] \in {"idle", pc[s]}
         /\ pc'[s] # "idle" => call[s].fully /\ SizeLess(t, call[s].size)
         /\ \A q \in Sides \ {s} : /\ total'[q] = total[q] /\ pc'[q] = pc[q]
                                  /\ ret'[q] = ret[q]
<1>1. ToInt(t) \in Int32
  BY ToIntFits
<1>2. total' = [total EXCEPT ![s] = t]
  BY DEF Continue
<1>3. CASE call[s].fully /\ SizeLess(t, call[s].size)
  BY <1>2, <1>3 DEF Continue, LoopTypeOK
<1>4. CASE ~(call[s].fully /\ SizeLess(t, call[s].size))
  <2>1. Returns(s, "recv", ToInt(t)) /\ polled' = [polled EXCEPT ![s] = FALSE]
    BY <1>4 DEF Continue
  <2>. QED
    BY <1>1, <1>2, <2>1 DEF LoopTypeOK, Returns, Results
<1>. QED
  BY <1>3, <1>4

LEMMA LoopRecvEof ==
  ASSUME LoopInv, NEW s \in Sides, RecvEof(s)  PROVE LoopInv'
<1>1. /\ Returns(s, "recv", ToInt(total[s])) /\ polled' = [polled EXCEPT ![s] = FALSE]
      /\ UNCHANGED <<ends, link, stream, arr, rd, timeo, asked, call, total, buf, failed>>
  BY DEF RecvEof, netVars, optVars
<1>2. /\ pc' \in [Sides -> {"idle", "send", "recv", "killed"}]
      /\ ret' \in [Sides -> Results] /\ polled' \in [Sides -> BOOLEAN]
  BY <1>1, ToIntFits, ReturnsType DEF LoopInv, TypeOK, LoopTypeOK
<1>3. TypeOK' /\ QueueOK'
  BY <1>1, <1>2 DEF LoopInv, TypeOK, NetTypeOK, LoopTypeOK, OptTypeOK, QueueOK
<1>4. ASSUME NEW q \in Sides  PROVE LoopOK(q)'
  BY <1>1 DEF LoopInv, TypeOK, LoopTypeOK, LoopOK, Returns
<1>. QED
  BY <1>3, <1>4 DEF LoopInv

LEMMA LoopRecvError ==
  ASSUME LoopInv, NEW s \in Sides, RecvError(s)  PROVE LoopInv'
<1>1. /\ pc[s] = "recv" /\ Continue(s, total[s] - 1)
      /\ failed' = [failed EXCEPT ![s] = @ + 1]
      /\ UNCHANGED <<ends, stream, arr, rd, timeo, asked, call, buf>>
  BY DEF RecvError, optVars
<1>2. link' \in [Sides -> {"up", "rst", "reset", "dead"}]
  BY DEF RecvError, LoopInv, TypeOK, NetTypeOK
<1>3. total[s] - 1 \in Int
  BY DEF LoopInv, TypeOK, LoopTypeOK
<1>4. TypeOK' /\ QueueOK'
  <2>1. failed' \in [Sides -> Nat]
    BY <1>1 DEF LoopInv, TypeOK, LoopTypeOK
  <2>2. LoopTypeOK'
    BY <1>1, <1>3, <2>1, ContinueType DEF LoopInv, TypeOK, LoopTypeOK
  <2>. QED
    BY <1>1, <1>2, <2>2 DEF LoopInv, TypeOK, NetTypeOK, OptTypeOK, QueueOK
<1>5. ASSUME NEW q \in Sides  PROVE LoopOK(q)'
  <2>1. CASE q = s
    BY <1>1, <1>3, <2>1, ContinueType
    DEF LoopInv, TypeOK, LoopTypeOK, LoopOK, SizeLess, Calls
  <2>2. CASE q # s
    BY <1>1, <1>3, <2>2, ContinueType DEF LoopInv, TypeOK, LoopOK
  <2>. QED
    BY <2>1, <2>2
<1>. QED
  BY <1>4, <1>5 DEF LoopInv

LEMMA RecvCountFits ==
  ASSUME LoopInv, NEW s \in Sides, pc[s] = "recv", Unread(s) > 0
  PROVE  /\ RecvCount(s) \in 1..MaxRW
         /\ RecvCount(s) <= call[s].size - total[s] /\ RecvCount(s) <= arr[s] - rd[s]
<1>1. /\ call[s].size - total[s] \in Nat \ {0} /\ arr[s] - rd[s] \in Nat \ {0}
      /\ MaxRW \in Nat \ {0}
  <2>1. call[s] \in Calls /\ total[s] \in 0..(call[s].size - 1)
    BY DEF LoopInv, TypeOK, LoopTypeOK, LoopOK
  <2>2. arr[s] \in Nat /\ rd[s] \in Nat /\ arr[s] - rd[s] > 0
    BY DEF LoopInv, TypeOK, NetTypeOK, Unread
  <2>. QED
    BY <2>1, <2>2, LimitsAssumption DEF Calls
<1>. QED
  BY <1>1 DEF RecvCount, Smaller, Unread

LEMMA ShiftIndex ==
  ASSUME NEW from \in Nat, NEW to \in Nat, NEW n \in Nat, NEW len \in Nat,
         from + n <= len, NEW i \in (to + 1)..(to + n)
  PROVE  from + i - to \in 1..len
OBVIOUS

LEMMA FilledType ==
  ASSUME LoopInv, NEW s \in Sides, pc[s] = "recv", NEW n \in Nat,
         n <= call[s].size - total[s], n <= arr[s] - rd[s]
  PROVE  Filled(s, n) \in [1..call[s].size -> Nat]
<1>1. /\ buf[s] \in [1..call[s].size -> Nat] /\ total[s] \in Nat
      /\ call[s].size \in Nat /\ rd[s] \in Nat
  BY DEF LoopInv, TypeOK, NetTypeOK, LoopTypeOK, LoopOK, Calls
<1>2. /\ stream[Peer(s)] \in Seq(Nat) /\ Len(stream[Peer(s)]) \in Nat
      /\ rd[s] + n <= Len(stream[Peer(s)])
  <2>1. Peer(s) \in Sides
    BY PeerSide
  <2>2. stream[Peer(s)] \in Seq(Nat) /\ Len(stream[Peer(s)]) \in Nat /\ arr[s] \in Nat
    BY <2>1 DEF LoopInv, TypeOK, NetTypeOK
  <2>3. arr[s] <= Len(stream[Peer(s)])
    BY DEF LoopInv, QueueOK
  <2>. QED
    BY <1>1, <2>2, <2>3
<1>3. ASSUME NEW i \in 1..call[s].size, i \in (total[s] + 1)..(total[s] + n)
      PROVE  stream[Peer(s)][rd[s] + i - total[s]] \in Nat
  <2>1. rd[s] + i - total[s] \in 1..Len(stream[Peer(s)])
    BY <1>1, <1>2, <1>3, ShiftIndex
  <2>. QED
    BY <1>2, <2>1, ElementOfSeq
<1>. QED
  BY <1>1, <1>3 DEF Filled

LEMMA LoopRecvSome ==
  ASSUME LoopInv, NEW s \in Sides, RecvSome(s)  PROVE LoopInv'
<1> DEFINE n == RecvCount(s)
<1>1. /\ pc[s] = "recv" /\ Unread(s) > 0
      /\ rd' = [rd EXCEPT ![s] = @ + n]
      /\ buf' = [buf EXCEPT ![s] = Filled(s, n)]
      /\ UNCHANGED <<ends, link, stream, arr, timeo, asked, call, failed>>
  BY DEF RecvSome, optVars
<1>2. PICK t \in IntSum(total[s], n) : Continue(s, t)
  BY DEF RecvSome
<1>3. /\ n \in 1..MaxRW /\ n \in Nat
      /\ n <= call[s].size - total[s] /\ n <= arr[s] - rd[s]
  BY <1>1, RecvCountFits, LimitsAssumption
<1>4. /\ total[s] \in Nat /\ call[s].size \in Nat /\ call[s].fully \in BOOLEAN
      /\ rd[s] \in Nat /\ arr[s] \in Nat
  BY <1>1 DEF LoopInv, TypeOK, NetTypeOK, LoopTypeOK, LoopOK, Calls
<1> HIDE DEF n
<1>5. t \in Int /\ (t = total[s] + n \/ t < 0)
  BY <1>3, <1>4, SumWide
<1>6. /\ Filled(s, n) \in [1..call[s].size -> Nat] /\ Filled(s, n) \in Seq(Nat)
      /\ buf' \in [Sides -> Seq(Nat)] /\ buf'[s] = Filled(s, n)
  <2>1. Filled(s, n) \in [1..call[s].size -> Nat]
    BY <1>1, <1>3, FilledType
  <2>2. Filled(s, n) \in Seq(Nat)
    BY <1>4, <2>1
  <2>. QED
    BY <1>1, <2>1, <2>2 DEF LoopInv, TypeOK, LoopTypeOK
<1>7. NetTypeOK' /\ OptTypeOK' /\ QueueOK'
  BY <1>1, <1>3, <1>4 DEF LoopInv, TypeOK, NetTypeOK, OptTypeOK, QueueOK
<1>8. LoopTypeOK'
  BY <1>1, <1>2, <1>5, <1>6, ContinueType DEF LoopInv, TypeOK, LoopTypeOK
<1>9. ASSUME NEW q \in Sides  PROVE LoopOK(q)'
  <2>1. CASE q = s
    <3>1. pc'[s] \in {"idle", "recv"} /\ total'[s] = t /\ call'[s] = call[s]
          /\ (pc'[s] = "recv" => SizeLess(t, call[s].size))
      BY <1>1, <1>2, <1>5, ContinueType DEF LoopInv, TypeOK
    <3>2. SizeLess(t, call[s].size) => t \in 0..(call[s].size - 1)
      BY <1>4, <1>5 DEF SizeLess
    <3>. QED
      BY <1>6, <2>1, <3>1, <3>2 DEF LoopOK
  <2>2. CASE q # s
    BY <1>1, <1>2, <1>5, <2>2, ContinueType DEF LoopInv, TypeOK, LoopTypeOK, LoopOK
  <2>. QED
    BY <2>1, <2>2
<1>. QED
  BY <1>7, <1>8, <1>9 DEF LoopInv, TypeOK

LEMMA LoopStep == LoopInv /\ [Next]_vars => LoopInv'
<1> SUFFICES ASSUME LoopInv, [Next]_vars  PROVE LoopInv'
  OBVIOUS
<1>1. ASSUME NEW s \in Sides, SendStep(s)  PROVE LoopInv'
  BY <1>1, LoopSendSome, LoopSendFail, LoopSendKilled DEF SendStep
<1>2. ASSUME NEW s \in Sides, RecvStep(s)  PROVE LoopInv'
  BY <1>2, LoopRecvSome, LoopRecvEof, LoopRecvError DEF RecvStep
<1>3. CASE UNCHANGED vars
  BY <1>3
  DEF LoopInv, TypeOK, NetTypeOK, LoopTypeOK, OptTypeOK, QueueOK, LoopOK,
      vars, netVars, loopVars, optVars
<1>. QED
  BY <1>1, <1>2, <1>3, LoopCallSend, LoopRejectSend, LoopCallReceive,
     LoopRejectReceive, LoopPoll, LoopSetTimeout, LoopDisconnect, LoopCrash, LoopNetStep
  DEF Next

\* Every variable keeps its type, for every value of the constants; what
\* Receive returns fits its int, however often total overflowed.
THEOREM TypeCorrect == Spec => []TypeOK
<1>1. LoopInv => TypeOK
  BY DEF LoopInv
<1>. QED
  BY <1>1, LoopInit, LoopStep, PTL DEF Spec

\* Whatever the kernel answers, the loops of Send and Receive
\* (TCPClient.cpp:298-314, 350-381) stay inside the caller's buffer, and every
\* variable keeps its type.
THEOREM BuffersSafe == Spec => []BufferInBounds
<1>1. LoopInv => BufferInBounds
  BY DEF LoopInv, LoopOK, BufferInBounds
<1>. QED
  BY <1>1, LoopInit, LoopStep, PTL DEF Spec


-----------------------------------------------------------------------------
(* Send *)

\* no result is left from an earlier call while a loop runs
NoStaleResult == \A s \in Sides : pc[s] \in {"send", "recv"} => ret[s].op = "none"

SendInv == LoopInv /\ StreamInOrder /\ NoStaleResult /\ SendReport

LEMMA SendInit == Init => SendInv
BY LoopInit DEF Init, SendInv, StreamInOrder, NoStaleResult, SendReport, Sides, NoRet

\* the bytes one send() takes are the next ones of the message
LEMMA StreamGrows ==
  ASSUME LoopInv, StreamInOrder, NEW s \in Sides, SendSome(s)
  PROVE  /\ StreamInOrder'
         /\ \A q \in Sides : q # s => stream'[q] = stream[q]
<1>0. PICK n \in 1..MaxRW : stream' = [stream EXCEPT ![s] = @ \o Chunk(s, n)]
  BY DEF SendSome
<1>1. /\ n \in Nat /\ total[s] \in Nat /\ call[s].base \in Nat
      /\ Len(stream[s]) = call[s].base + total[s]
  BY LimitsAssumption DEF SendSome, LoopInv, TypeOK, LoopTypeOK, LoopOK, Calls
<1>2. stream \in [Sides -> Seq(Nat)]
  BY DEF LoopInv, TypeOK, NetTypeOK
<1>3. /\ Chunk(s, n) \in Seq(Nat) /\ Len(Chunk(s, n)) = n
      /\ \A i \in 1..n : Chunk(s, n)[i] = Len(stream[s]) + i
  <2>1. /\ Chunk(s, n) \in Seq(Nat) /\ Len(Chunk(s, n)) = n
        /\ \A i \in 1..n : Chunk(s, n)[i] = call[s].base + total[s] + i
    BY <1>1, ChunkSeq
  <2>. QED
    BY <1>1, <2>1
<1>4. /\ stream'[s] = stream[s] \o Chunk(s, n)
      /\ \A q \in Sides : q # s => stream'[q] = stream[q]
  BY <1>0, <1>2
<1>5. ASSUME NEW k \in DOMAIN stream'[s]  PROVE stream'[s][k] = k
  <2>1. stream[s] \in Seq(Nat) /\ Len(stream[s]) \in Nat
    BY <1>2
  <2>2. /\ k \in 1..(Len(stream[s]) + n)
        /\ stream'[s][k] = IF k <= Len(stream[s]) THEN stream[s][k]
                           ELSE Chunk(s, n)[k - Len(stream[s])]
    BY <1>3, <1>4, <2>1, ConcatProperties
  <2>3. CASE k <= Len(stream[s])
    BY <2>1, <2>2, <2>3 DEF StreamInOrder
  <2>4. CASE k > Len(stream[s])
    <3>1. k - Len(stream[s]) \in 1..n
      BY <1>1, <2>1, <2>2, <2>4
    <3>. QED
      BY <1>3, <2>1, <2>2, <2>4, <3>1
  <2>. QED
    BY <2>1, <2>2, <2>3, <2>4
<1>. QED
  BY <1>4, <1>5 DEF StreamInOrder

LEMMA SendSomeReports ==
  ASSUME SendInv, NEW s \in Sides, SendSome(s)  PROVE SendInv'
<1>1. LoopInv' /\ StreamInOrder'
  BY LoopSendSome, StreamGrows DEF SendInv
<1>2. PICK n \in 1..MaxRW : SendOf(s, n)
  BY DEF SendSome, SendOf
<1>3. PICK t \in IntSum(total[s], n) :
        IF SizeLess(t, call[s].size) THEN UNCHANGED <<pc, ret>> ELSE Returns(s, "send", 1)
  BY <1>2 DEF SendOf
<1>4. /\ pc[s] = "send" /\ call' = call
      /\ n \in Nat \ {0} /\ n <= call[s].size - total[s]
      /\ stream' = [stream EXCEPT ![s] = @ \o Chunk(s, n)]
  <2>1. pc[s] = "send" /\ call' = call
    BY DEF SendSome, optVars
  <2>2. n \in Nat \ {0}
    BY LimitsAssumption
  <2>. QED
    BY <1>2, <2>1, <2>2 DEF SendOf
<1>5. /\ total[s] \in Nat /\ call[s] \in Calls
      /\ Len(stream[s]) = call[s].base + total[s]
  BY <1>4 DEF SendInv, LoopInv, TypeOK, LoopTypeOK, LoopOK, Calls
<1>6. Len(stream'[s]) = Len(stream[s]) + n
  <2>1. Chunk(s, n) \in Seq(Nat) /\ Len(Chunk(s, n)) = n
    BY <1>4, <1>5, ChunkSeq DEF Calls
  <2>2. stream[s] \in Seq(Nat) /\ stream'[s] = stream[s] \o Chunk(s, n)
    BY <1>4 DEF SendInv, LoopInv, TypeOK, NetTypeOK
  <2>. QED
    BY <2>1, <2>2, ConcatProperties
<1>7. ASSUME NEW q \in Sides
      PROVE  /\ pc'[q] \in {"send", "recv"} => ret'[q].op = "none"
             /\ ret'[q].op = "send" /\ call'[q].size \in 1..IntMax =>
                  (ret'[q].val = 1 <=> Len(stream'[q]) = call'[q].base + call'[q].size)
  <2>1. CASE q = s
    <3>1. CASE SizeLess(t, call[s].size)
      BY <1>3, <1>4, <2>1, <3>1 DEF SendInv, NoStaleResult
    <3>2. CASE ~SizeLess(t, call[s].size)
      <4>1. pc'[s] = "idle" /\ ret'[s] = [op |-> "send", val |-> 1]
        BY <1>3, <3>2 DEF Returns, SendInv, LoopInv, TypeOK, LoopTypeOK
      <4>2. call[s].size \in 1..IntMax => total[s] + n = call[s].size
        <5>1. SUFFICES ASSUME call[s].size \in 1..IntMax
                       PROVE  total[s] + n = call[s].size
          OBVIOUS
        <5>2. t = total[s] + n
          BY <1>4, <1>5, <5>1, SumExact, LimitsAssumption
        <5>. QED
          BY <1>4, <1>5, <3>2, <5>1, <5>2 DEF SizeLess
      <4>. QED
        BY <1>4, <1>5, <1>6, <2>1, <4>1, <4>2 DEF Calls
    <3>. QED
      BY <3>1, <3>2
  <2>2. CASE q # s
    <3>1. /\ pc'[q] = pc[q] /\ ret'[q] = ret[q] /\ stream'[q] = stream[q]
      BY <1>3, <1>4, <2>2 DEF Returns, SendInv, LoopInv, TypeOK, LoopTypeOK, NetTypeOK
    <3>. QED
      BY <1>4, <3>1 DEF SendInv, NoStaleResult, SendReport
  <2>. QED
    BY <2>1, <2>2
<1>. QED
  BY <1>1, <1>7 DEF SendInv, NoStaleResult, SendReport

\* a call that ends, or never starts, with false leaves the message cut short
LEMMA SendFalseReports ==
  ASSUME SendInv, NEW s \in Sides, LoopInv', UNCHANGED stream,
         Returns(s, "send", 0), \A q \in Sides : q # s => call'[q] = call[q],
         call'[s].size \in 1..IntMax =>
           Len(stream[s]) # call'[s].base + call'[s].size
  PROVE  SendInv'
<1>1. StreamInOrder'
  BY DEF SendInv, StreamInOrder
<1>2. /\ pc'[s] = "idle" /\ ret'[s] = [op |-> "send", val |-> 0]
      /\ \A q \in Sides : q # s => pc'[q] = pc[q] /\ ret'[q] = ret[q]
  BY DEF Returns, SendInv, LoopInv, TypeOK, LoopTypeOK
<1>3. NoStaleResult'
  BY <1>2 DEF SendInv, NoStaleResult
<1>4. SendReport'
  BY <1>2 DEF SendInv, SendReport
<1>. QED
  BY <1>1, <1>3, <1>4 DEF SendInv

\* a step that leaves the streams alone, and of a side only loses a result
\* or brings one of another kind
LEMMA SendUntouched ==
  ASSUME SendInv, LoopInv', UNCHANGED stream,
         \A q \in Sides :
           /\ pc'[q] \in {"send", "recv"} => ret'[q].op = "none"
           /\ ret'[q].op = "send" => ret'[q] = ret[q] /\ call'[q] = call[q]
  PROVE  SendInv'
BY DEF SendInv, StreamInOrder, NoStaleResult, SendReport

LEMMA SendStepReports == SendInv /\ [Next]_vars => SendInv'
<1> SUFFICES ASSUME SendInv, [Next]_vars  PROVE SendInv'
  OBVIOUS
<1>1. LoopInv /\ LoopInv' /\ NoStaleResult
  BY LoopStep DEF SendInv
<1>2. ASSUME NEW s \in Sides, RejectSend(s) \/ SendFail(s)  PROVE SendInv'
  <2>1. Returns(s, "send", 0) /\ UNCHANGED stream
    BY <1>2 DEF RejectSend, SendFail, netVars
  <2>2. CASE RejectSend(s)
    <3>1. PICK n \in Sizes :
            call' = [call EXCEPT ![s] =
                       [size |-> n, fully |-> TRUE, base |-> Len(stream[s])]]
      BY <2>2 DEF RejectSend
    <3>2. Len(stream[s]) \in Nat
      BY <1>1 DEF LoopInv, TypeOK, NetTypeOK
    <3>3. call'[s].size = n /\ call'[s].base = Len(stream[s])
          /\ \A q \in Sides : q # s => call'[q] = call[q]
      BY <1>1, <3>1 DEF LoopInv, TypeOK, LoopTypeOK
    <3>4. call'[s].size \in 1..IntMax => Len(stream[s]) # call'[s].base + call'[s].size
      BY <3>2, <3>3, LimitsAssumption
    <3>. QED
      BY <1>1, <2>1, <3>3, <3>4, SendFalseReports
  <2>3. CASE SendFail(s)
    <3>1. call' = call /\ pc[s] = "send"
      BY <2>3 DEF SendFail
    <3>2. /\ call[s] \in Calls /\ total[s] \in 0..(call[s].size - 1)
          /\ Len(stream[s]) = call[s].base + total[s]
      BY <1>1, <3>1 DEF LoopInv, TypeOK, LoopTypeOK, LoopOK
    <3>3. Len(stream[s]) # call'[s].base + call'[s].size
      BY <3>1, <3>2 DEF Calls
    <3>. QED
      BY <1>1, <2>1, <3>1, <3>3, SendFalseReports
  <2>. QED
    BY <1>2, <2>2, <2>3
<1>3. ASSUME NEW s \in Sides, CallSend(s) \/ CallReceive(s)  PROVE SendInv'
  <2>1. /\ UNCHANGED stream /\ ret' = [ret EXCEPT ![s] = NoRet]
        /\ \A q \in Sides : q # s => pc'[q] = pc[q] /\ call'[q] = call[q]
    BY <1>1, <1>3 DEF CallSend, CallReceive, netVars, LoopInv, TypeOK, LoopTypeOK
  <2>2. /\ ret'[s].op = "none" /\ \A q \in Sides : q # s => ret'[q] = ret[q]
    BY <1>1, <2>1 DEF LoopInv, TypeOK, LoopTypeOK, NoRet
  <2>. QED
    BY <1>1, <2>1, <2>2, SendUntouched DEF NoStaleResult
<1>4. ASSUME NEW s \in Sides, RejectReceive(s)  PROVE SendInv'
  <2>1. PICK val \in Int : Returns(s, "recv", val)
    BY <1>4 DEF RejectReceive, BadArgument
  <2>2. /\ UNCHANGED stream
        /\ \A q \in Sides : q # s => call'[q] = call[q]
    BY <1>1, <1>4 DEF RejectReceive, netVars, LoopInv, TypeOK, LoopTypeOK
  <2>3. /\ pc'[s] = "idle" /\ ret'[s].op = "recv"
        /\ \A q \in Sides : q # s => pc'[q] = pc[q] /\ ret'[q] = ret[q]
    BY <1>1, <2>1 DEF Returns, LoopInv, TypeOK, LoopTypeOK
  <2>. QED
    BY <1>1, <2>2, <2>3, SendUntouched DEF NoStaleResult
<1>5. ASSUME NEW s \in Sides, RecvStep(s)  PROVE SendInv'
  <2>1. UNCHANGED <<stream, call>> /\ pc[s] = "recv"
    BY <1>5 DEF RecvStep, RecvSome, RecvEof, RecvError, netVars
  <2>2. \/ UNCHANGED <<pc, ret>>
        \/ \E val : Returns(s, "recv", val)
    BY <1>5 DEF RecvStep, RecvSome, RecvEof, RecvError, Continue
  <2>3. CASE UNCHANGED <<pc, ret>>
    BY <1>1, <2>1, <2>3, SendUntouched DEF NoStaleResult
  <2>4. CASE \E val : Returns(s, "recv", val)
    <3>1. /\ pc'[s] = "idle" /\ ret'[s].op = "recv"
          /\ \A q \in Sides : q # s => pc'[q] = pc[q] /\ ret'[q] = ret[q]
      BY <1>1, <2>4 DEF Returns, LoopInv, TypeOK, LoopTypeOK
    <3>. QED
      BY <1>1, <2>1, <3>1, SendUntouched DEF NoStaleResult
  <2>. QED
    BY <2>2, <2>3, <2>4
<1>6. ASSUME NEW s \in Sides, Poll(s)  PROVE SendInv'
  <2>1. UNCHANGED <<stream, pc, call>> /\ pc[s] = "idle"
    BY <1>6 DEF Poll, netVars
  <2>2. ret'[s].op = "poll" /\ \A q \in Sides : q # s => ret'[q] = ret[q]
    BY <1>1, <1>6 DEF Poll, LoopInv, TypeOK, LoopTypeOK
  <2>. QED
    BY <1>1, <2>1, <2>2, SendUntouched DEF NoStaleResult
<1>7. ASSUME NEW s \in Sides, SendKilled(s) \/ Crash(s)  PROVE SendInv'
  <2>1. /\ UNCHANGED <<stream, ret, call>>
        /\ pc' = [pc EXCEPT ![s] = "killed"]
    BY <1>7 DEF SendKilled, Crash, Hangup
  <2>2. \A q \in Sides : pc'[q] \in {pc[q], "killed"}
    BY <1>1, <2>1 DEF LoopInv, TypeOK, LoopTypeOK
  <2>. QED
    BY <1>1, <2>1, <2>2, SendUntouched DEF NoStaleResult
<1>8. CASE UNCHANGED <<stream, pc, ret, call>>
  BY <1>1, <1>8, SendUntouched DEF NoStaleResult
<1>9. ASSUME NEW s \in Sides, Disconnect(s) \/ NetStep(s)
      PROVE  UNCHANGED <<stream, pc, ret, call>>
  BY <1>9 DEF Disconnect, Hangup, NetStep, Arrive, Refuse, ResetArrives, loopVars
<1>10. ASSUME NEW c, NEW on, SetTimeout(c, on)
       PROVE  UNCHANGED <<stream, pc, ret, call>>
  BY <1>10 DEF SetTimeout, netVars, loopVars
<1>11. CASE UNCHANGED vars
  BY <1>8, <1>11 DEF vars, netVars, loopVars
<1>12. ASSUME NEW s \in Sides, SendSome(s)  PROVE SendInv'
  BY <1>12, SendSomeReports
<1>. QED
  BY <1>2, <1>3, <1>4, <1>5, <1>6, <1>7, <1>8, <1>9, <1>10, <1>11, <1>12
  DEF Next, SendStep

\* The kernel is handed exactly what the application asked to send, in order,
\* across partial sends and failed calls (pData + total, TCPClient.cpp:304).
THEOREM SendInOrder == Spec => []StreamInOrder
<1>1. SendInv => StreamInOrder
  BY DEF SendInv
<1>. QED
  BY <1>1, SendInit, SendStepReports, PTL DEF Spec

\* For a uSize of at most INT_MAX, Send returns true exactly when every byte
\* was taken (TCPClient.cpp:306-316), however send() splits the message.
THEOREM SendReportsTruly == Spec => []SendReport
<1>1. SendInv => SendReport
  BY DEF SendInv
<1>. QED
  BY <1>1, SendInit, SendStepReports, PTL DEF Spec

-----------------------------------------------------------------------------
(* The connection as a whole implements BytePipe.  LoopInv gives what a    *)
(* step needs: a sending side's stream is exactly total bytes longer than  *)
(* at the entry, and nothing is read that was not sent.                    *)

LEMMA PipeSides ==
  Pipe!Sides = Sides /\ \A s \in Sides : Pipe!Peer(s) = Peer(s)
BY DEF Pipe!Sides, Pipe!Peer, Sides, Peer

LEMMA PipeStarts == Init => Pipe!PipeInit
<1> SUFFICES ASSUME Init  PROVE Pipe!PipeInit
  OBVIOUS
<1>1. /\ stream = [s \in Sides |-> <<>>] /\ rd = [s \in Sides |-> 0]
      /\ \A s \in Sides : ends[s] = "open"
  BY DEF Init
<1>2. [s \in Sides |-> ends[s] # "open"] = [s \in Sides |-> FALSE]
  BY <1>1
<1>. QED
  BY <1>1, <1>2, PipeSides DEF Pipe!PipeInit

\* a step that moves no byte and closes nothing is not seen
LEMMA PipeStutters ==
  ASSUME UNCHANGED <<ends, stream, rd>>
  PROVE  UNCHANGED Pipe!pipeVars
BY DEF Pipe!pipeVars

LEMMA PipeWrites ==
  ASSUME LoopInv, NEW s \in Sides, SendSome(s)  PROVE Pipe!Write(s)
<1>1. PICK n \in 1..MaxRW :
        /\ n <= Room(s) /\ stream' = [stream EXCEPT ![s] = @ \o Chunk(s, n)]
  BY DEF SendSome
<1>2. /\ pc[s] = "send" /\ ends[s] = "open" /\ UNCHANGED <<ends, rd>>
  BY DEF SendSome
<1>3. /\ n \in Nat \ {0} /\ Window \in Nat
      /\ Len(stream[s]) \in Nat /\ rd[Peer(s)] \in Nat
      /\ Len(stream[s]) = call[s].base + total[s]
      /\ rd[Peer(s)] <= Len(stream[s])
  <2>1. n \in Nat \ {0} /\ Window \in Nat
    BY LimitsAssumption
  <2>2. Len(stream[s]) \in Nat /\ Len(stream[s]) = call[s].base + total[s]
    BY <1>2 DEF LoopInv, TypeOK, NetTypeOK, LoopOK
  <2>3. /\ Peer(s) \in Sides /\ Peer(Peer(s)) = s
        /\ arr[Peer(s)] \in Nat /\ rd[Peer(s)] \in Nat
    BY PeerSide DEF LoopInv, TypeOK, NetTypeOK
  <2>4. rd[Peer(s)] <= arr[Peer(s)] /\ arr[Peer(s)] <= Len(stream[s])
    BY <2>3 DEF LoopInv, QueueOK
  <2>. QED
    BY <2>1, <2>2, <2>3, <2>4
<1>4. n \in 1..Window /\ Len(stream[s]) + n <= rd[Peer(s)] + Window
  BY <1>1, <1>3 DEF Room
<1>5. Chunk(s, n) = [i \in 1..n |-> Len(stream[s]) + i]
  BY <1>3 DEF Chunk
<1>6. stream' = [stream EXCEPT ![s] = @ \o [i \in 1..n |-> Len(stream[s]) + i]]
  BY <1>1, <1>5
<1>. QED
  BY <1>2, <1>4, <1>6, PipeSides DEF Pipe!Write

LEMMA PipeReads ==
  ASSUME LoopInv, NEW s \in Sides, RecvSome(s)  PROVE Pipe!Read(s)
<1> DEFINE n == RecvCount(s)
<1>1. /\ pc[s] = "recv" /\ ends[s] = "open" /\ Unread(s) > 0
      /\ rd' = [rd EXCEPT ![s] = @ + n] /\ UNCHANGED <<ends, stream>>
  BY DEF RecvSome
<1>2. n \in Nat \ {0} /\ n <= arr[s] - rd[s]
  BY <1>1, RecvCountFits, LimitsAssumption
<1> HIDE DEF n
<1>3. /\ Peer(s) \in Sides /\ rd[s] \in Nat /\ arr[s] \in Nat
      /\ Len(stream[Peer(s)]) \in Nat /\ arr[s] <= Len(stream[Peer(s)])
  BY PeerSide DEF LoopInv, TypeOK, NetTypeOK, QueueOK
<1>4. n \in 1..(Len(stream[Peer(s)]) - rd[s])
  BY <1>2, <1>3
<1>. QED
  BY <1>1, <1>4, PipeSides DEF Pipe!Read

LEMMA PipeCloses ==
  ASSUME LoopInv, NEW s \in Sides, ends[s] = "open", Hangup(s)  PROVE Pipe!Close(s)
<1>1. /\ ends' = [ends EXCEPT ![s] = IF Unread(s) > 0 THEN "rst" ELSE "fin"]
      /\ UNCHANGED <<stream, rd>>
  BY DEF Hangup
<1>2. ends \in [Sides -> {"open", "fin", "rst"}]
  BY DEF LoopInv, TypeOK, NetTypeOK
<1>3. [q \in Sides |-> ends'[q] # "open"]
        = [[q \in Sides |-> ends[q] # "open"] EXCEPT ![s] = TRUE]
  BY <1>1, <1>2
<1>. QED
  BY <1>1, <1>3 DEF Pipe!Close

\* every step is a step of the pipe or does nothing to it
LEMMA PipeStep == LoopInv /\ [Next]_vars => [Pipe!PipeNext]_(Pipe!pipeVars)
<1> SUFFICES ASSUME LoopInv, [Next]_vars  PROVE [Pipe!PipeNext]_(Pipe!pipeVars)
  OBVIOUS
<1>1. ASSUME NEW s \in Sides, SendStep(s)  PROVE [Pipe!PipeNext]_(Pipe!pipeVars)
  <2>1. CASE SendSome(s)
    BY <2>1, PipeWrites, PipeSides DEF Pipe!PipeNext
  <2>2. CASE SendFail(s)
    BY <2>2, PipeStutters DEF SendFail
  <2>3. CASE SendKilled(s)
    BY <2>3, PipeCloses, PipeSides DEF SendKilled, Pipe!PipeNext
  <2>. QED
    BY <1>1, <2>1, <2>2, <2>3 DEF SendStep
<1>2. ASSUME NEW s \in Sides, RecvStep(s)  PROVE [Pipe!PipeNext]_(Pipe!pipeVars)
  <2>1. CASE RecvSome(s)
    BY <2>1, PipeReads, PipeSides DEF Pipe!PipeNext
  <2>2. CASE RecvEof(s) \/ RecvError(s)
    BY <2>2, PipeStutters DEF RecvEof, RecvError, netVars
  <2>. QED
    BY <1>2, <2>1, <2>2 DEF RecvStep
<1>3. ASSUME NEW s \in Sides, Disconnect(s) \/ Crash(s)
      PROVE  [Pipe!PipeNext]_(Pipe!pipeVars)
  BY <1>3, PipeCloses, PipeSides DEF Disconnect, Crash, Pipe!PipeNext
<1>4. ASSUME NEW s \in Sides,
             \/ CallSend(s) \/ RejectSend(s) \/ CallReceive(s) \/ RejectReceive(s)
             \/ Poll(s) \/ NetStep(s)
      PROVE  UNCHANGED <<ends, stream, rd>>
  BY <1>4
  DEF CallSend, RejectSend, CallReceive, RejectReceive, Poll, NetStep, Arrive, Refuse,
      ResetArrives, netVars
<1>5. ASSUME NEW c \in TimeoutCall, NEW on \in BOOLEAN, SetTimeout(c, on)
      PROVE  UNCHANGED <<ends, stream, rd>>
  BY <1>5 DEF SetTimeout, netVars
<1>6. CASE UNCHANGED vars
  BY <1>6, PipeStutters DEF vars, netVars
<1>. QED
  BY <1>1, <1>2, <1>3, <1>4, <1>5, <1>6, PipeStutters DEF Next

\* Whatever the sizes of messages, buffers and windows, the loops of Send and
\* Receive with the kernels between them are a pipe of bytes in each direction
\* (TCPClient.cpp:298-317, 350-384).
THEOREM ConnectionIsPipe == Spec => PipeKept
<1>1. Init /\ [][Next]_vars => []LoopInv
  BY LoopInit, LoopStep, PTL
<1>. QED
  BY <1>1, PipeStarts, PipeStep, PTL DEF Spec, PipeKept, Pipe!PipeSpec

-----------------------------------------------------------------------------
(* Receive: the inductive invariant *)

\* the first k bytes of the buffer are the next k of the connection ...
Exact(s, k) == \A i \in 1..k : buf[s][i] = call[s].base + i

\* ... or at least bytes of this call, in order
Ordered(s, k) ==
  \A i \in 1..k : /\ buf[s][i] \in Nat
                  /\ call[s].base < buf[s][i] /\ buf[s][i] <= rd[s]
                  /\ i > 1 => buf[s][i - 1] < buf[s][i]

InLoop(s) ==
  pc[s] = "recv" /\ call[s].size <= IntMax =>
    /\ rd[s] - call[s].base = total[s] + failed[s]
    /\ Ordered(s, total[s])
    /\ failed[s] = 0 => Exact(s, total[s])
    /\ ~call[s].fully => failed[s] = 0 /\ total[s] = 0

AtReturn(s) ==
  ReceiveReturned(s) =>
    /\ rd[s] > call[s].base \/ ret[s].val >= 0 =>
         rd[s] - call[s].base = ret[s].val + failed[s]
    /\ Ordered(s, ret[s].val)
    /\ ret[s].val > 0 /\ (failed[s] = 0 \/ ~call[s].fully) =>
         failed[s] = 0 /\ Exact(s, ret[s].val)

ReceiveInv == SendInv /\ \A s \in Sides : InLoop(s) /\ AtReturn(s)

LEMMA ReceiveInit == Init => ReceiveInv
BY SendInit DEF Init, ReceiveInv, InLoop, AtReturn, ReceiveReturned, Sides, NoRet

-----------------------------------------------------------------------------
(* Steps that leave a side's Receive alone *)

LEMMA ReceiveKept ==
  ASSUME NEW q \in Sides, InLoop(q), AtReturn(q),
         pc'[q] = "recv" => pc[q] = "recv",
         ret'[q].op = "recv" => ret'[q] = ret[q],
         pc'[q] = "recv" \/ ret'[q].op = "recv" =>
           /\ call'[q] = call[q] /\ total'[q] = total[q] /\ buf'[q] = buf[q]
           /\ failed'[q] = failed[q] /\ rd'[q] = rd[q]
  PROVE  InLoop(q)' /\ AtReturn(q)'
BY DEF InLoop, AtReturn, ReceiveReturned, Ordered, Exact

LEMMA ReceiveOther ==
  ASSUME NEW q \in Sides, InLoop(q), AtReturn(q),
         pc'[q] = pc[q], ret'[q] = ret[q], call'[q] = call[q], total'[q] = total[q],
         buf'[q] = buf[q], failed'[q] = failed[q], rd'[q] = rd[q]
  PROVE  InLoop(q)' /\ AtReturn(q)'
BY ReceiveKept

-----------------------------------------------------------------------------
(* The calls *)

LEMMA CallReceiveStep ==
  ASSUME ReceiveInv, NEW s \in Sides, CallReceive(s)
  PROVE  \A q \in Sides : InLoop(q)' /\ AtReturn(q)'
<1>1. PICK n \in Sizes \ {0}, fully \in Modes :
        /\ call' = [call EXCEPT ![s] = [size |-> n, fully |-> fully, base |-> rd[s]]]
        /\ buf' = [buf EXCEPT ![s] = [i \in 1..n |-> 0]]
  BY DEF CallReceive
<1>2. /\ total' = [total EXCEPT ![s] = 0] /\ failed' = [failed EXCEPT ![s] = 0]
      /\ ret' = [ret EXCEPT ![s] = NoRet] /\ pc' = [pc EXCEPT ![s] = "recv"]
      /\ UNCHANGED rd
  BY DEF CallReceive, netVars
<1>3. LoopTypeOK /\ rd[s] \in Nat
  BY DEF ReceiveInv, SendInv, LoopInv, TypeOK, NetTypeOK
<1>4. ASSUME NEW q \in Sides  PROVE InLoop(q)' /\ AtReturn(q)'
  <2>1. CASE q = s
    <3>1. /\ total'[s] = 0 /\ failed'[s] = 0 /\ ret'[s].op = "none"
          /\ call'[s].base = rd'[s]
      BY <1>1, <1>2, <1>3 DEF LoopTypeOK, NoRet
    <3>. QED
      BY <1>2, <1>3, <2>1, <3>1 DEF InLoop, AtReturn, ReceiveReturned, Ordered, Exact
  <2>2. CASE q # s
    BY <1>1, <1>2, <1>3, <2>2, ReceiveOther DEF ReceiveInv, LoopTypeOK
  <2>. QED
    BY <2>1, <2>2
<1>. QED
  BY <1>4

LEMMA RejectReceiveStep ==
  ASSUME ReceiveInv, NEW s \in Sides, RejectReceive(s)
  PROVE  \A q \in Sides : InLoop(q)' /\ AtReturn(q)'
<1>1. PICK n \in Sizes, fully \in Modes :
        /\ call' = [call EXCEPT ![s] = [size |-> n, fully |-> fully, base |-> rd[s]]]
        /\ Returns(s, "recv", IF n = 0 THEN BadArgument(s) ELSE -1)
  BY DEF RejectReceive
<1>2. failed' = [failed EXCEPT ![s] = 0] /\ UNCHANGED <<total, buf, rd>>
  BY DEF RejectReceive, netVars
<1>3. LoopTypeOK /\ rd[s] \in Nat
  BY DEF ReceiveInv, SendInv, LoopInv, TypeOK, NetTypeOK
<1>4. ASSUME NEW q \in Sides  PROVE InLoop(q)' /\ AtReturn(q)'
  <2>1. CASE q = s
    <3>1. /\ pc'[s] = "idle" /\ ret'[s].val \in {-2, -1}
          /\ call'[s].base = rd[s] /\ rd'[s] = rd[s]
      BY <1>1, <1>2, <1>3 DEF LoopTypeOK, Returns, BadArgument
    <3>2. InLoop(s)'
      BY <3>1 DEF InLoop
    <3>3. Ordered(s, ret[s].val)'
      BY <3>1 DEF Ordered
    <3>4. AtReturn(s)'
      BY <1>3, <3>1, <3>3 DEF AtReturn
    <3>. QED
      BY <2>1, <3>2, <3>4
  <2>2. CASE q # s
    BY <1>1, <1>2, <1>3, <2>2, ReceiveOther DEF ReceiveInv, LoopTypeOK, Returns
  <2>. QED
    BY <2>1, <2>2
<1>. QED
  BY <1>4

\* what a Receive with at most INT_MAX bytes to read does with the new total
LEMMA ContinueKeeps ==
  ASSUME LoopTypeOK, NEW s \in Sides, NEW t \in Int, Continue(s, t),
         t <= call[s].size, t >= -1, call' = call, ret[s].op = "none",
         call[s].size <= IntMax =>
           /\ rd'[s] - call[s].base = t + failed'[s]
           /\ Ordered(s, t)'
           /\ failed'[s] = 0 => Exact(s, t)'
           /\ ~call[s].fully /\ t > 0 => failed'[s] = 0
  PROVE  InLoop(s)' /\ AtReturn(s)'
<1>1. call[s] \in Calls /\ call'[s] = call[s]
  BY DEF LoopTypeOK
<1>2. total'[s] = t
  BY DEF Continue, LoopTypeOK
<1>3. CASE call[s].fully /\ SizeLess(t, call[s].size)
  <2>1. UNCHANGED <<pc, ret>>
    BY <1>3 DEF Continue
  <2>2. InLoop(s)'
    BY <1>1, <1>2, <1>3, <2>1 DEF InLoop
  <2>3. ret'[s].op # "recv"
    BY <2>1
  <2>. QED
    BY <2>2, <2>3 DEF AtReturn, ReceiveReturned
<1>4. CASE ~(call[s].fully /\ SizeLess(t, call[s].size))
  <2>1. Returns(s, "recv", ToInt(t))
    BY <1>4 DEF Continue
  <2>2. pc'[s] = "idle" /\ ret'[s] = [op |-> "recv", val |-> ToInt(t)]
    BY <2>1 DEF Returns, LoopTypeOK
  <2>3. call[s].size \in 1..IntMax => ToInt(t) = t
    BY <1>1, ToIntFits, LimitsAssumption DEF Calls, Int32
  <2>4. InLoop(s)'
    BY <2>2 DEF InLoop
  <2>5. AtReturn(s)'
    BY <1>1, <2>2, <2>3 DEF AtReturn, ReceiveReturned, Calls
  <2>. QED
    BY <2>4, <2>5
<1>. QED
  BY <1>3, <1>4

LEMMA OrderedPrefix ==
  ASSUME NEW s \in Sides, NEW k \in Int, NEW j \in Int, j <= k, Ordered(s, k)
  PROVE  Ordered(s, j)
BY DEF Ordered

LEMMA RecvErrorStep ==
  ASSUME ReceiveInv, NEW s \in Sides, RecvError(s)
  PROVE  \A q \in Sides : InLoop(q)' /\ AtReturn(q)'
<1>1. LoopTypeOK /\ pc[s] = "recv" /\ ret[s].op = "none" /\ InLoop(s)
  BY DEF RecvError, ReceiveInv, SendInv, LoopInv, TypeOK, NoStaleResult
<1>2. PICK t \in Int : t = total[s] - 1
  BY <1>1 DEF LoopTypeOK
<1>3. /\ Continue(s, t) /\ UNCHANGED <<rd, call, buf>>
      /\ failed' = [failed EXCEPT ![s] = @ + 1]
  BY <1>2 DEF RecvError
<1>4. /\ total[s] \in 0..(call[s].size - 1) /\ call[s] \in Calls
      /\ failed[s] \in Nat /\ failed'[s] = failed[s] + 1 /\ rd[s] \in Nat
  BY <1>1, <1>3 DEF ReceiveInv, SendInv, LoopInv, TypeOK, NetTypeOK, LoopTypeOK, LoopOK
<1>5. ASSUME NEW q \in Sides  PROVE InLoop(q)' /\ AtReturn(q)'
  <2>1. CASE q = s
    <3>1. t <= call[s].size /\ t >= -1 /\ t <= total[s]
      BY <1>2, <1>4 DEF Calls
    <3>2. ASSUME call[s].size <= IntMax
          PROVE  /\ rd'[s] - call[s].base = t + failed'[s]
                 /\ Ordered(s, t)'
                 /\ failed'[s] # 0
                 /\ ~call[s].fully => ~(t > 0)
      <4>1. /\ rd[s] - call[s].base = total[s] + failed[s]
            /\ Ordered(s, total[s])
            /\ ~call[s].fully => total[s] = 0
        BY <1>1, <3>2 DEF InLoop
      <4>2. Ordered(s, t)'
        <5>1. Ordered(s, t)
          BY <1>4, <3>1, <4>1, OrderedPrefix
        <5>. QED
          BY <1>3, <5>1 DEF Ordered
      <4>. QED
        BY <1>2, <1>3, <1>4, <4>1, <4>2 DEF Calls
    <3>. QED
      BY <1>1, <1>3, <2>1, <3>1, <3>2, ContinueKeeps
  <2>2. CASE q # s
    BY <1>1, <1>3, <2>2, ReceiveOther, ContinueType DEF ReceiveInv, LoopTypeOK
  <2>. QED
    BY <2>1, <2>2
<1>. QED
  BY <1>5

LEMMA RecvEofStep ==
  ASSUME ReceiveInv, NEW s \in Sides, RecvEof(s)
  PROVE  \A q \in Sides : InLoop(q)' /\ AtReturn(q)'
<1>1. /\ LoopTypeOK /\ pc[s] = "recv" /\ InLoop(s)
      /\ total[s] \in 0..(call[s].size - 1) /\ call[s] \in Calls
  BY DEF RecvEof, ReceiveInv, SendInv, LoopInv, TypeOK, LoopTypeOK, LoopOK
<1>2. /\ Returns(s, "recv", ToInt(total[s]))
      /\ UNCHANGED <<rd, call, total, buf, failed>>
  BY DEF RecvEof, netVars
<1>3. ASSUME NEW q \in Sides  PROVE InLoop(q)' /\ AtReturn(q)'
  <2>1. CASE q = s
    <3>1. pc'[s] = "idle" /\ ret'[s] = [op |-> "recv", val |-> ToInt(total[s])]
      BY <1>1, <1>2 DEF Returns, LoopTypeOK
    <3>2. call[s].size \in 1..IntMax => ToInt(total[s]) = total[s]
      BY <1>1, ToIntFits, LimitsAssumption DEF Calls, Int32
    <3>3. InLoop(s)'
      BY <3>1 DEF InLoop
    <3>4. AtReturn(s)'
      BY <1>1, <1>2, <3>1, <3>2
      DEF InLoop, AtReturn, ReceiveReturned, Ordered, Exact
    <3>. QED
      BY <2>1, <3>3, <3>4
  <2>2. CASE q # s
    BY <1>1, <1>2, <2>2, ReceiveOther DEF ReceiveInv, LoopTypeOK, Returns
  <2>. QED
    BY <2>1, <2>2
<1>. QED
  BY <1>3

\* the buffer after recv() returned n bytes
LEMMA FilledBytes ==
  ASSUME ReceiveInv, NEW s \in Sides, pc[s] = "recv", NEW n \in Nat,
         n <= call[s].size - total[s], n <= arr[s] - rd[s],
         NEW i \in 1..(total[s] + n)
  PROVE  Filled(s, n)[i] = IF i <= total[s] THEN buf[s][i] ELSE rd[s] + i - total[s]
<1>1. /\ total[s] \in Nat /\ call[s].size \in Nat /\ rd[s] \in Nat
      /\ DOMAIN buf[s] = 1..call[s].size /\ total[s] + n <= call[s].size
  BY DEF ReceiveInv, SendInv, LoopInv, TypeOK, NetTypeOK, LoopTypeOK, LoopOK, Calls
<1>2. i \in DOMAIN buf[s]
  BY <1>1
<1>3. CASE i <= total[s]
  BY <1>1, <1>2, <1>3 DEF Filled
<1>4. CASE i > total[s]
  <2>1. i \in (total[s] + 1)..(total[s] + n)
    BY <1>1, <1>4
  <2>2. /\ stream[Peer(s)] \in Seq(Nat) /\ Len(stream[Peer(s)]) \in Nat
        /\ rd[s] + n <= Len(stream[Peer(s)]) /\ Peer(s) \in Sides
    <3>1. Peer(s) \in Sides
      BY PeerSide
    <3>2. stream[Peer(s)] \in Seq(Nat) /\ Len(stream[Peer(s)]) \in Nat /\ arr[s] \in Nat
      BY <3>1 DEF ReceiveInv, SendInv, LoopInv, TypeOK, NetTypeOK
    <3>3. arr[s] <= Len(stream[Peer(s)])
      BY DEF ReceiveInv, SendInv, LoopInv, QueueOK
    <3>. QED
      BY <1>1, <3>1, <3>2, <3>3
  <2>3. rd[s] + i - total[s] \in 1..Len(stream[Peer(s)])
    BY <1>1, <2>1, <2>2, ShiftIndex
  <2>4. stream[Peer(s)][rd[s] + i - total[s]] = rd[s] + i - total[s]
    BY <2>2, <2>3 DEF ReceiveInv, SendInv, StreamInOrder
  <2>. QED
    BY <1>1, <1>2, <1>4, <2>1, <2>4 DEF Filled
<1>. QED
  BY <1>1, <1>3, <1>4

LEMMA RecvSomeStep ==
  ASSUME ReceiveInv, NEW s \in Sides, RecvSome(s)
  PROVE  \A q \in Sides : InLoop(q)' /\ AtReturn(q)'
<1>1. /\ LoopInv /\ LoopTypeOK /\ pc[s] = "recv" /\ ret[s].op = "none"
      /\ InLoop(s) /\ Unread(s) > 0
  BY DEF RecvSome, ReceiveInv, SendInv, LoopInv, TypeOK, NoStaleResult
<1>2. PICK n \in Nat : n = RecvCount(s)
  BY <1>1, RecvCountFits, LimitsAssumption
<1>3. /\ n \in 1..MaxRW /\ n <= call[s].size - total[s] /\ n <= arr[s] - rd[s]
  BY <1>1, <1>2, RecvCountFits
<1>4. /\ rd' = [rd EXCEPT ![s] = @ + n] /\ buf' = [buf EXCEPT ![s] = Filled(s, n)]
      /\ UNCHANGED <<call, failed>>
  BY <1>2 DEF RecvSome
<1>5. PICK t \in IntSum(total[s], n) : Continue(s, t)
  BY <1>2 DEF RecvSome
<1>6. /\ total[s] \in 0..(call[s].size - 1) /\ call[s] \in Calls
      /\ failed[s] \in Nat /\ failed'[s] = failed[s]
      /\ rd[s] \in Nat /\ rd'[s] = rd[s] + n /\ buf'[s] = Filled(s, n)
      /\ call'[s] = call[s] /\ total[s] \in Int
  BY <1>1, <1>4 DEF LoopInv, TypeOK, NetTypeOK, LoopTypeOK, LoopOK
<1>7. t \in Int /\ (t = total[s] + n \/ t < 0)
  BY <1>3, <1>6, SumWide
<1>8. ASSUME NEW q \in Sides  PROVE InLoop(q)' /\ AtReturn(q)'
  <2>1. CASE q = s /\ call[s].size <= IntMax
    <3>1. t = total[s] + n /\ t <= call[s].size /\ t >= -1
      <4>1. total[s] + n <= IntMax
        BY <1>3, <1>6, <2>1, LimitsAssumption DEF Calls
      <4>2. t = total[s] + n
        BY <1>6, <4>1, SumExact
      <4>. QED
        BY <1>3, <1>6, <4>2 DEF Calls
    <3>2. /\ rd[s] - call[s].base = total[s] + failed[s]
          /\ Ordered(s, total[s])
          /\ failed[s] = 0 => Exact(s, total[s])
          /\ ~call[s].fully => failed[s] = 0
      BY <1>1, <2>1 DEF InLoop
    <3>3. \A i \in 1..t :
            buf'[s][i] = IF i <= total[s] THEN buf[s][i] ELSE rd[s] + i - total[s]
      BY <1>1, <1>3, <1>6, <3>1, FilledBytes
    <3>4. ASSUME NEW i \in 1..t
          PROVE  /\ buf'[s][i] \in Nat
                 /\ call[s].base < buf'[s][i] /\ buf'[s][i] <= rd[s] + n
                 /\ i > 1 => buf'[s][i - 1] < buf'[s][i]
      <4>0. /\ call[s].base \in Nat /\ call[s].base <= rd[s] /\ total[s] \in Nat
            /\ i > 1 => i - 1 \in 1..t
        BY <1>6, <1>7, <3>2, <3>4 DEF Calls
      <4>1. CASE i <= total[s]
        <5>1. /\ buf'[s][i] = buf[s][i]
              /\ i > 1 => buf'[s][i - 1] = buf[s][i - 1]
          <6>1. i > 1 => i - 1 <= total[s]
            BY <4>0, <4>1
          <6>. QED
            BY <3>3, <4>0, <4>1, <6>1
        <5>2. /\ buf[s][i] \in Nat /\ call[s].base < buf[s][i] /\ buf[s][i] <= rd[s]
              /\ i > 1 => buf[s][i - 1] < buf[s][i]
          BY <3>2, <4>0, <4>1 DEF Ordered
        <5>. QED
          BY <1>6, <5>1, <5>2
      <4>2. CASE i > total[s]
        <5>1. buf'[s][i] = rd[s] + i - total[s]
          BY <3>3, <4>0, <4>2
        <5>2. CASE i - 1 > total[s]
          BY <1>6, <3>1, <3>3, <4>0, <4>2, <5>1, <5>2
        <5>3. CASE i - 1 = total[s] /\ i > 1
          <6>1. i - 1 \in 1..total[s] /\ i - 1 \in 1..t
            BY <4>0, <5>3
          <6>2. buf'[s][i - 1] = buf[s][i - 1]
            BY <3>3, <4>0, <6>1
          <6>3. buf[s][i - 1] <= rd[s] /\ buf[s][i - 1] \in Nat
            BY <3>2, <6>1 DEF Ordered
          <6>. QED
            BY <1>6, <3>1, <4>0, <5>1, <5>3, <6>2, <6>3
        <5>4. CASE i = 1
          BY <1>6, <3>1, <4>0, <4>2, <5>1, <5>4
        <5>. QED
          BY <4>0, <4>2, <5>2, <5>3, <5>4
      <4>. QED
        BY <4>0, <4>1, <4>2
    <3>5. Ordered(s, t)'
      BY <1>6, <3>4 DEF Ordered
    <3>6. failed[s] = 0 => Exact(s, t)'
      <4>1. ASSUME failed[s] = 0, NEW i \in 1..t
            PROVE  buf'[s][i] = call[s].base + i
        <5>1. rd[s] = call[s].base + total[s]
          BY <1>6, <3>2, <4>1 DEF Calls
        <5>. QED
          BY <1>6, <3>2, <3>3, <4>1, <5>1 DEF Exact, Calls
      <4>. QED
        BY <1>6, <4>1 DEF Exact
    <3>7. rd'[s] - call[s].base = t + failed'[s]
      BY <1>6, <3>1, <3>2 DEF Calls
    <3>. QED
      BY <1>1, <1>4, <1>5, <1>6, <1>7, <2>1, <3>1, <3>2, <3>5, <3>6, <3>7, ContinueKeeps
  <2>2. CASE q = s /\ ~(call[s].size <= IntMax)
    BY <1>6, <2>2, LimitsAssumption DEF InLoop, AtReturn, ReceiveReturned, Calls
  <2>3. CASE q # s
    BY <1>1, <1>4, <1>5, <1>7, <2>3, ReceiveOther, ContinueType DEF ReceiveInv, LoopTypeOK
  <2>. QED
    BY <2>1, <2>2, <2>3
<1>. QED
  BY <1>8

-----------------------------------------------------------------------------
(* The theorems *)

LEMMA ReceiveStep == ReceiveInv /\ [Next]_vars => ReceiveInv'
<1> SUFFICES ASSUME ReceiveInv, [Next]_vars
             PROVE  \A q \in Sides : InLoop(q)' /\ AtReturn(q)'
  BY SendStepReports DEF ReceiveInv
<1>1. LoopTypeOK /\ NetTypeOK /\ \A q \in Sides : InLoop(q) /\ AtReturn(q)
  BY DEF ReceiveInv, SendInv, LoopInv, TypeOK
<1>2. ASSUME NEW s \in Sides, CallSend(s) \/ RejectSend(s) \/ SendStep(s)
      PROVE  \A q \in Sides : InLoop(q)' /\ AtReturn(q)'
  <2>1. /\ UNCHANGED <<rd, buf, failed>> /\ pc[s] # "recv"
        /\ \A q \in Sides : q # s =>
             pc'[q] = pc[q] /\ ret'[q] = ret[q] /\ call'[q] = call[q] /\ total'[q] = total[q]
    <3>1. CASE CallSend(s)
      BY <1>1, <3>1 DEF CallSend, netVars, LoopTypeOK
    <3>2. CASE RejectSend(s)
      BY <1>1, <3>2 DEF RejectSend, Returns, netVars, LoopTypeOK
    <3>3. CASE SendSome(s)
      <4>1. UNCHANGED <<rd, buf, failed, call>> /\ pc[s] = "send"
        BY <3>3 DEF SendSome
      <4>2. PICK n \in 1..MaxRW : SendOf(s, n)
        BY <3>3 DEF SendSome, SendOf
      <4>3. PICK t : /\ total' = [total EXCEPT ![s] = t]
                     /\ UNCHANGED <<pc, ret>> \/ Returns(s, "send", 1)
        BY <4>2 DEF SendOf
      <4>4. \A q \in Sides : q # s =>
              pc'[q] = pc[q] /\ ret'[q] = ret[q] /\ total'[q] = total[q]
        <5>1. \A q \in Sides : q # s => total'[q] = total[q]
          BY <1>1, <4>3 DEF LoopTypeOK
        <5>2. CASE UNCHANGED <<pc, ret>>
          BY <5>1, <5>2
        <5>3. CASE Returns(s, "send", 1)
          BY <1>1, <5>1, <5>3 DEF Returns, LoopTypeOK
        <5>. QED
          BY <4>3, <5>2, <5>3
      <4>. QED
        BY <4>1, <4>4
    <3>4. CASE SendFail(s)
      BY <1>1, <3>4 DEF SendFail, Returns, LoopTypeOK
    <3>5. CASE SendKilled(s)
      BY <1>1, <3>5 DEF SendKilled, Hangup, LoopTypeOK
    <3>. QED
      BY <1>2, <3>1, <3>2, <3>3, <3>4, <3>5 DEF SendStep
  <2>2. pc'[s] # "recv" /\ ret'[s].op # "recv"
    <3>1. CASE CallSend(s)
      BY <1>1, <3>1 DEF CallSend, LoopTypeOK, NoRet
    <3>2. CASE RejectSend(s) \/ SendFail(s)
      BY <1>1, <3>2 DEF RejectSend, SendFail, Returns, LoopTypeOK
    <3>3. CASE SendSome(s)
      <4>1. pc[s] = "send" /\ ret[s].op = "none"
        BY <3>3 DEF SendSome, ReceiveInv, SendInv, NoStaleResult
      <4>2. UNCHANGED <<pc, ret>> \/ Returns(s, "send", 1)
        BY <3>3 DEF SendSome
      <4>. QED
        BY <1>1, <4>1, <4>2 DEF Returns, LoopTypeOK
    <3>4. CASE SendKilled(s)
      BY <1>1, <3>4 DEF SendKilled, LoopTypeOK, ReceiveInv, SendInv, NoStaleResult
    <3>. QED
      BY <1>2, <3>1, <3>2, <3>3, <3>4 DEF SendStep
  <2>3. ASSUME NEW q \in Sides  PROVE InLoop(q)' /\ AtReturn(q)'
    <3>1. CASE q = s
      BY <2>2, <3>1 DEF InLoop, AtReturn, ReceiveReturned
    <3>2. CASE q # s
      BY <1>1, <2>1, <3>2, ReceiveOther
    <3>. QED
      BY <3>1, <3>2
  <2>. QED
    BY <2>3
<1>3. ASSUME NEW s \in Sides, CallReceive(s) \/ RejectReceive(s) \/ RecvStep(s)
      PROVE  \A q \in Sides : InLoop(q)' /\ AtReturn(q)'
  BY <1>3, CallReceiveStep, RejectReceiveStep, RecvSomeStep, RecvEofStep, RecvErrorStep
  DEF RecvStep
<1>4. ASSUME NEW s \in Sides, Poll(s) \/ Crash(s)
      PROVE  \A q \in Sides : InLoop(q)' /\ AtReturn(q)'
  <2>1. /\ UNCHANGED <<rd, call, total, buf, failed>>
        /\ \A q \in Sides : pc'[q] \in {pc[q], "killed"}
    BY <1>1, <1>4 DEF Poll, Crash, Hangup, netVars, LoopTypeOK
  <2>2. \A q \in Sides : ret'[q].op = "recv" => ret'[q] = ret[q]
    BY <1>1, <1>4 DEF Poll, Crash, LoopTypeOK
  <2>. QED
    BY <1>1, <2>1, <2>2, ReceiveKept
<1>5. ASSUME NEW s \in Sides, Disconnect(s) \/ NetStep(s)
      PROVE  UNCHANGED <<rd, loopVars>>
  BY <1>5 DEF Disconnect, Hangup, NetStep, Arrive, Refuse, ResetArrives
<1>6. ASSUME NEW c, NEW on, SetTimeout(c, on)  PROVE UNCHANGED <<rd, loopVars>>
  BY <1>6 DEF SetTimeout, netVars
<1>7. CASE UNCHANGED <<rd, loopVars>>
  BY <1>1, <1>7, ReceiveOther DEF loopVars
<1>8. CASE UNCHANGED vars
  BY <1>7, <1>8 DEF vars, netVars
<1>. QED
  BY <1>2, <1>3, <1>4, <1>5, <1>6, <1>7, <1>8 DEF Next

\* Each failed recv() costs exactly one byte of the count Receive reports
\* (the -1 added to total, TCPClient.cpp:379), and nothing else does.
THEOREM LossIsAccounted == Spec => []LossAccounting
<1>1. ReceiveInv => LossAccounting
  BY DEF ReceiveInv, InLoop, AtReturn, LossAccounting
<1>. QED
  BY <1>1, ReceiveInit, ReceiveStep, PTL DEF Spec

\* The bytes Receive reports are bytes of the peer's stream, of this call
\* and in order, whatever failed meanwhile.
THEOREM OrderIsKept == Spec => []ReceivedInOrder
<1>1. ReceiveInv => ReceivedInOrder
  BY DEF ReceiveInv, AtReturn, Ordered, ReceivedInOrder
<1>. QED
  BY <1>1, ReceiveInit, ReceiveStep, PTL DEF Spec

\* Without a failed recv(), and always when bReadFully is false, a positive
\* result is what TCPClient.cpp:329 promises.
THEOREM ReportIsTrue == Spec => []ReportUnlessInterrupted
<1>1. ReceiveInv => ReportUnlessInterrupted
  <2> SUFFICES ASSUME ReceiveInv, NEW s \in Sides, ReceiveReturned(s), ret[s].val > 0,
                      failed[s] = 0 \/ ~call[s].fully
               PROVE  ReportsWhatItRead(s)
    BY DEF ReportUnlessInterrupted
  <2>1. /\ failed[s] = 0 /\ Exact(s, ret[s].val)
        /\ rd[s] - call[s].base = ret[s].val + failed[s]
    BY DEF ReceiveInv, AtReturn, SendInv, LoopInv, TypeOK, LoopTypeOK, Results, Int32
  <2>2. /\ ret[s].val \in Nat /\ call[s].base \in Nat /\ rd[s] \in Nat
    BY LimitsAssumption
    DEF ReceiveInv, SendInv, LoopInv, TypeOK, NetTypeOK, LoopTypeOK, Results, Int32, Calls
  <2>3. rd[s] <= Len(stream[Peer(s)]) /\ Len(stream[Peer(s)]) \in Nat /\ Peer(s) \in Sides
    BY PeerSide DEF ReceiveInv, SendInv, LoopInv, QueueOK, TypeOK, NetTypeOK
  <2>4. ASSUME NEW i \in 1..ret[s].val
        PROVE  buf[s][i] = stream[Peer(s)][call[s].base + i]
    <3>1. call[s].base + i \in 1..Len(stream[Peer(s)])
      BY <2>1, <2>2, <2>3
    <3>2. stream[Peer(s)] \in Seq(Nat)
      BY <2>3 DEF ReceiveInv, SendInv, LoopInv, TypeOK, NetTypeOK
    <3>. QED
      BY <2>1, <2>3, <3>1, <3>2 DEF ReceiveInv, SendInv, StreamInOrder, Exact
  <2>. QED
    BY <2>1, <2>2, <2>4 DEF ReportsWhatItRead
<1>. QED
  BY <1>1, ReceiveInit, ReceiveStep, PTL DEF Spec

-----------------------------------------------------------------------------
(* What a short result says of the peer *)

\* s got less than it asked for, with no failed recv() in between ...
Short(s) ==
  /\ ReceiveReturned(s)
  /\ \/ ret[s].val = 0
     \/ call[s].fully /\ failed[s] = 0 /\ ret[s].val \in 0..(call[s].size - 1)

\* ... and there is nothing more to get
Gone(s) ==
  /\ ends[Peer(s)] # "open"
  /\ ends[Peer(s)] = "fin" /\ link[s] = "up" => rd[s] = Len(stream[Peer(s)])

ResetMeansClosed(s) == link[s] # "up" => ends[Peer(s)] # "open"

GoneInv == ReceiveInv /\ \A s \in Sides : ResetMeansClosed(s) /\ (Short(s) => Gone(s))

LEMMA GoneInit == Init => GoneInv
BY ReceiveInit
DEF Init, GoneInv, ResetMeansClosed, Short, ReceiveReturned, Sides, Peer, NoRet

\* a closed end stays as it was closed and sends nothing more, and a
\* connection that was reset does not recover
LEMMA EndsForGood ==
  ASSUME GoneInv, [Next]_vars, NEW s \in Sides
  PROVE  /\ ends[s] # "open" => ends'[s] = ends[s] /\ stream'[s] = stream[s]
         /\ link'[s] = "up" => link[s] = "up"
         /\ link'[s] # "up" => link[s] # "up" \/ ends'[Peer(s)] # "open"
<1>1. LoopInv /\ NetTypeOK /\ Peer(s) \in Sides /\ Peer(s) # s /\ Peer(Peer(s)) = s
  BY PeerSide DEF GoneInv, ReceiveInv, SendInv, LoopInv, TypeOK
<1> DEFINE Goal == /\ ends[s] # "open" => ends'[s] = ends[s] /\ stream'[s] = stream[s]
                   /\ link'[s] = "up" => link[s] = "up"
                   /\ link'[s] # "up" => link[s] # "up" \/ ends'[Peer(s)] # "open"
<1>2. ASSUME NEW q \in Sides, ends[q] = "open", Hangup(q)  PROVE Goal
  <2>1. /\ ends' = [ends EXCEPT ![q] = IF Unread(q) > 0 THEN "rst" ELSE "fin"]
        /\ \/ link' = link
           \/ link' = [link EXCEPT ![Peer(q)] = "rst"]
        /\ UNCHANGED stream
    BY <1>2 DEF Hangup
  <2>2. CASE q = s
    BY <1>1, <1>2, <2>1, <2>2 DEF NetTypeOK
  <2>3. CASE q = Peer(s)
    BY <1>1, <1>2, <2>1, <2>3 DEF NetTypeOK
  <2>. QED
    BY <2>2, <2>3 DEF Sides, Peer
<1>3. ASSUME NEW q \in Sides, SendStep(q)  PROVE Goal
  <2>1. CASE SendSome(q)
    <3>1. ends[q] = "open" /\ UNCHANGED <<ends, link>>
      BY <2>1 DEF SendSome
    <3>2. \A r \in Sides : r # q => stream'[r] = stream[r]
      <4>1. PICK n \in 1..MaxRW : stream' = [stream EXCEPT ![q] = @ \o Chunk(q, n)]
        BY <2>1 DEF SendSome
      <4>. QED
        BY <1>1, <4>1 DEF NetTypeOK
    <3>. QED
      BY <3>1, <3>2
  <2>2. CASE SendFail(q)
    BY <1>1, <2>2 DEF SendFail, NetTypeOK
  <2>3. CASE SendKilled(q)
    BY <1>2, <2>3 DEF SendKilled
  <2>. QED
    BY <1>3, <2>1, <2>2, <2>3 DEF SendStep
<1>4. ASSUME NEW q \in Sides, RecvStep(q)  PROVE Goal
  BY <1>1, <1>4 DEF RecvStep, RecvSome, RecvEof, RecvError, netVars, NetTypeOK
<1>5. ASSUME NEW q \in Sides, Disconnect(q) \/ Crash(q)  PROVE Goal
  BY <1>2, <1>5 DEF Disconnect, Crash
<1>6. ASSUME NEW q \in Sides, NetStep(q)  PROVE Goal
  <2>1. CASE Arrive(q)
    BY <2>1 DEF Arrive
  <2>2. CASE Refuse(q)
    BY <1>1, <2>2 DEF Refuse, NetTypeOK, Sides, Peer
  <2>3. CASE ResetArrives(q)
    BY <1>1, <2>3 DEF ResetArrives, NetTypeOK
  <2>. QED
    BY <1>6, <2>1, <2>2, <2>3 DEF NetStep
<1>7. CASE UNCHANGED netVars
  BY <1>7 DEF netVars
<1>8. ASSUME NEW q \in Sides,
             CallSend(q) \/ RejectSend(q) \/ CallReceive(q) \/ RejectReceive(q) \/ Poll(q)
      PROVE  UNCHANGED netVars
  BY <1>8 DEF CallSend, RejectSend, CallReceive, RejectReceive, Poll
<1>9. ASSUME NEW c, NEW on, SetTimeout(c, on)  PROVE UNCHANGED netVars
  BY <1>9 DEF SetTimeout
<1>10. CASE UNCHANGED vars
  BY <1>7, <1>10 DEF vars
<1>. QED
  BY <1>3, <1>4, <1>5, <1>6, <1>7, <1>8, <1>9, <1>10 DEF Next

\* a short result is an old one, or comes from a recv() that returned 0
LEMMA ShortComesFromEof ==
  ASSUME GoneInv, [Next]_vars, NEW s \in Sides, Short(s)'
  PROVE  (Short(s) /\ rd'[s] = rd[s]) \/ RecvEof(s)
<1>1. /\ ReceiveInv /\ LoopTypeOK /\ InLoop(s) /\ NoStaleResult
      /\ pc[s] = "recv" => total[s] \in 0..(call[s].size - 1)
      /\ call[s] \in Calls /\ call[s].size \in Nat
  BY DEF GoneInv, ReceiveInv, SendInv, LoopInv, LoopOK, TypeOK, LoopTypeOK, Calls
<1>2. ASSUME ret'[s] = ret[s], call'[s] = call[s], failed'[s] = failed[s], rd'[s] = rd[s]
      PROVE  Short(s) /\ rd'[s] = rd[s]
  BY <1>2 DEF Short, ReceiveReturned
<1>3. ASSUME ret'[s].op # "recv"  PROVE FALSE
  BY <1>3 DEF Short, ReceiveReturned
<1>4. ASSUME pc[s] = "recv", NEW t \in Int, Continue(s, t), call'[s] = call[s],
             call[s].size <= IntMax => t \in -1..call[s].size /\ (~call[s].fully => t # 0)
      PROVE  FALSE
  <2>1. ret[s].op # "recv"
    BY <1>1, <1>4 DEF NoStaleResult
  <2>2. ~(call[s].fully /\ SizeLess(t, call[s].size)) /\ Returns(s, "recv", ToInt(t))
    BY <1>3, <1>4, <2>1 DEF Continue
  <2>3. ret'[s] = [op |-> "recv", val |-> ToInt(t)]
    BY <1>1, <2>2 DEF Returns, LoopTypeOK
  <2>4. call[s].size \in 1..IntMax
    BY <1>4 DEF Short, ReceiveReturned
  <2>5. t \in -1..call[s].size /\ t # 0 /\ ToInt(t) = t /\ (call[s].fully => ~(t \in 0..(call[s].size - 1)))
    BY <1>1, <1>4, <2>2, <2>4, ToIntFits, LimitsAssumption DEF Int32, SizeLess
  <2>. QED
    BY <1>1, <1>4, <2>3, <2>5 DEF Short
<1>5. CASE RecvSome(s)
  <2>1. PICK n \in Nat : n = RecvCount(s)
    BY <1>1, <1>5, RecvCountFits, LimitsAssumption DEF RecvSome, ReceiveInv, SendInv
  <2>2. /\ n \in 1..MaxRW /\ n <= call[s].size - total[s]
        /\ pc[s] = "recv" /\ UNCHANGED call
    BY <1>1, <1>5, <2>1, RecvCountFits DEF RecvSome, ReceiveInv, SendInv
  <2>3. PICK t \in IntSum(total[s], n) : Continue(s, t)
    BY <1>5, <2>1 DEF RecvSome
  <2>4. t \in Int
    BY <1>1, <2>2, <2>3, SumWide
  <2>5. call[s].size <= IntMax => t = total[s] + n
    BY <1>1, <2>2, <2>3, SumExact, LimitsAssumption
  <2>. QED
    BY <1>1, <1>4, <2>2, <2>3, <2>4, <2>5, LimitsAssumption
<1>6. CASE RecvError(s)
  <2>1. pc[s] = "recv" /\ UNCHANGED call /\ Continue(s, total[s] - 1)
    BY <1>6 DEF RecvError
  <2>2. total[s] - 1 \in -1..call[s].size /\ (call[s].size <= IntMax /\ ~call[s].fully => total[s] - 1 # 0)
    BY <1>1, <2>1 DEF InLoop
  <2>. QED
    BY <1>1, <1>4, <2>1, <2>2
<1>7. CASE CallSend(s) \/ CallReceive(s)
  BY <1>1, <1>3, <1>7 DEF CallSend, CallReceive, LoopTypeOK, NoRet
<1>8. CASE RejectSend(s) \/ SendFail(s)
  BY <1>1, <1>3, <1>8 DEF RejectSend, SendFail, Returns, LoopTypeOK
<1>9. CASE SendSome(s)
  <2>1. UNCHANGED <<rd, call, failed>> /\ (UNCHANGED <<pc, ret>> \/ Returns(s, "send", 1))
    BY <1>9 DEF SendSome
  <2>. QED
    BY <1>1, <1>2, <1>3, <2>1 DEF Returns, LoopTypeOK
<1>10. CASE RejectReceive(s)
  <2>1. PICK n \in Sizes : Returns(s, "recv", IF n = 0 THEN BadArgument(s) ELSE -1)
    BY <1>10 DEF RejectReceive
  <2>2. ret'[s].val \in {-2, -1}
    BY <1>1, <2>1 DEF Returns, BadArgument, LoopTypeOK
  <2>3. call'[s].size \in Nat
    BY <1>1, <1>10, SizesAssumption DEF RejectReceive, LoopTypeOK
  <2>. QED
    BY <2>2, <2>3 DEF Short
<1>11. ASSUME NEW q \in Sides, q # s,
              \/ CallSend(q) \/ RejectSend(q) \/ SendStep(q)
              \/ CallReceive(q) \/ RejectReceive(q) \/ RecvStep(q) \/ Poll(q)
       PROVE  Short(s) /\ rd'[s] = rd[s]
  <2>1. /\ ret' = ret \/ \E r : ret' = [ret EXCEPT ![q] = r]
        /\ call' = call \/ \E c : call' = [call EXCEPT ![q] = c]
        /\ failed' = failed \/ \E n : failed' = [failed EXCEPT ![q] = n]
        /\ rd' = rd \/ \E n : rd' = [rd EXCEPT ![q] = n]
    BY <1>11 DEF CallSend, RejectSend, SendStep, SendSome, SendFail, SendKilled, Hangup, CallReceive,
                 RejectReceive, RecvStep, RecvSome, RecvEof, RecvError, Continue, Poll, Returns, netVars
  <2>. QED
    BY <1>1, <1>2, <1>11, <2>1 DEF LoopTypeOK, GoneInv, ReceiveInv, SendInv, LoopInv, TypeOK, NetTypeOK
<1>12. CASE Poll(s)
  BY <1>1, <1>3, <1>12 DEF Poll, LoopTypeOK
<1>13. ASSUME NEW q \in Sides, SendKilled(q) \/ Crash(q) \/ Disconnect(q) \/ NetStep(q)
       PROVE  UNCHANGED <<rd, call, failed, ret>>
  BY <1>13 DEF SendKilled, Crash, Disconnect, NetStep, Arrive, Refuse, ResetArrives, Hangup, loopVars
<1>14. ASSUME NEW c, NEW on, SetTimeout(c, on)  PROVE UNCHANGED <<rd, call, failed, ret>>
  BY <1>14 DEF SetTimeout, netVars, loopVars
<1>15. CASE UNCHANGED vars
  BY <1>2, <1>15 DEF vars, netVars, loopVars
<1>. QED
  BY <1>2, <1>5, <1>6, <1>7, <1>8, <1>9, <1>10, <1>11, <1>12, <1>13, <1>14, <1>15
  DEF Next, SendStep, RecvStep

LEMMA GoneStep == GoneInv /\ [Next]_vars => GoneInv'
<1> SUFFICES ASSUME GoneInv, [Next]_vars, NEW s \in Sides
             PROVE  ResetMeansClosed(s)' /\ (Short(s)' => Gone(s)')
  BY ReceiveStep DEF GoneInv
<1>1. Peer(s) \in Sides /\ ResetMeansClosed(s)
  BY PeerSide DEF GoneInv
<1>2. ResetMeansClosed(s)'
  BY <1>1, EndsForGood DEF ResetMeansClosed
<1>3. ASSUME Short(s), rd'[s] = rd[s]  PROVE Gone(s)'
  BY <1>1, <1>3, EndsForGood DEF GoneInv, Gone
<1>4. ASSUME RecvEof(s)  PROVE Gone(s)'
  <2>1. AtEof(s) /\ UNCHANGED netVars /\ rd[s] \in Nat /\ arr[s] \in Nat
    BY <1>4 DEF RecvEof, GoneInv, ReceiveInv, SendInv, LoopInv, TypeOK, NetTypeOK
  <2>. QED
    BY <1>1, <2>1 DEF AtEof, FinArrived, Unread, Gone, ResetMeansClosed, netVars
<1>. QED
  BY <1>2, <1>3, <1>4, ShortComesFromEof

\* A Receive that comes back empty, or short with no failed recv() when it was
\* to read fully, means that the peer is gone (TCPClient.cpp:330, 353-383).
THEOREM ShortIsTheEnd == Spec => []ShortMeansClosed
<1>1. GoneInv => ShortMeansClosed
  BY DEF GoneInv, Short, Gone, ShortMeansClosed
<1>. QED
  BY <1>1, GoneInit, GoneStep, PTL DEF Spec

=============================================================================
