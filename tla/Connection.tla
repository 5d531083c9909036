----------------------------- MODULE Connection -----------------------------
(***************************************************************************)
(* One TCP connection between a CTCPClient and a socket accepted by a      *)
(* CTCPServer: the Send and Receive loops of both classes, Disconnect, the *)
(* timeout setters and the poll (ASocket::SelectSocket), over the kernel's *)
(* socket buffers and the network between them.                            *)
(*                                                                         *)
(* The two classes hold the same loops, so an endpoint is a side and the   *)
(* few differences are the operators Usable, BadArgument and OptionSet.    *)
(* An endpoint is used by one thread at a time (README.md:165): pc[s] is   *)
(* that thread's position.  One step is one system call of the loop.       *)
(*                                                                         *)
(* A byte is identified by the place it has in what its sender was asked   *)
(* to send: the byte at offset o of a Send entered after b bytes is b+o+1. *)
(* An operator Name_Variant is Name with a plausible mistake; no action     *)
(* uses it, and the runs show that a property notices the difference.      *)
(***************************************************************************)
EXTENDS Integers, Sequences

CONSTANTS
  Sizes,         \* the values of uSize the application passes
  Modes,         \* the values of bReadFully it passes
  Senders,       \* the sides that call Send
  Receivers,     \* the sides that call Receive
  Closers,       \* the sides that disconnect, or whose process may die
  TimeoutCalls,  \* the timeout setters it calls: [side, opt, unit]
  Window,        \* bytes the kernels hold per direction, sent and not read
  MaxRW,         \* most bytes one system call moves (MAX_RW_COUNT)
  IntMax,        \* INT_MAX
  MaxStream      \* bound: bytes a side is asked to send in a behaviour

Sides == {"client", "server"}
Peer(s) == IF s = "client" THEN "server" ELSE "client"
TimeoutCall == [side : Sides, opt : {"rcv", "snd"}, unit : {"msec", "timeval"}]

ASSUME SizesAssumption == Sizes \subseteq Nat
ASSUME ModesAssumption == Modes \subseteq BOOLEAN
ASSUME CallersAssumption ==
  /\ Senders \subseteq Sides /\ Receivers \subseteq Sides /\ Closers \subseteq Sides
  /\ TimeoutCalls \subseteq TimeoutCall
ASSUME LimitsAssumption ==
  /\ IntMax \in Nat \ {0} /\ MaxRW \in 1..IntMax /\ Window \in Nat \ {0}
  /\ MaxStream \in Nat

VARIABLES
  ends,     \* ends[s]: "open", or how s's descriptor was closed: "fin", "rst"
  link,     \* what s's kernel knows: "up", "rst" (a reset is on its way to s),
            \* "reset" (arrived, ECONNRESET pending), "dead" (error consumed)
  stream,   \* bytes s's kernel accepted from send(), in order
  arr,      \* bytes of the peer's stream in s's receive queue so far
  rd,       \* bytes of the peer's stream recv() returned to s so far
  pc,       \* "idle", "send", "recv" (inside the loop), "killed"
  call,     \* the running or last call: uSize, bReadFully, stream offset at entry
  total,    \* the loop's int total
  buf,      \* Receive's pData, 0 where nothing was written
  failed,   \* recv() calls of this Receive that returned -1
  timeo,    \* the kernel's SO_RCVTIMEO and SO_SNDTIMEO: set or not
  asked,    \* the timeouts the application asked for
  polled,   \* SelectSocket returned 1 since the last Receive
  ret       \* result of the last call that returned

netVars == <<ends, link, stream, arr, rd>>
loopVars == <<pc, call, total, buf, failed, ret, polled>>
optVars == <<timeo, asked>>
vars == <<netVars, loopVars, optVars>>

NoRet == [op |-> "none", val |-> 0]
Options == [rcv : BOOLEAN, snd : BOOLEAN]
NoCall == [size |-> 0, fully |-> TRUE, base |-> 0]

Init ==
  /\ ends = [s \in Sides |-> "open"] /\ link = [s \in Sides |-> "up"]
  /\ stream = [s \in Sides |-> <<>>]
  /\ arr = [s \in Sides |-> 0] /\ rd = [s \in Sides |-> 0]
  /\ pc = [s \in Sides |-> "idle"] /\ call = [s \in Sides |-> NoCall]
  /\ total = [s \in Sides |-> 0] /\ buf = [s \in Sides |-> <<>>]
  /\ failed = [s \in Sides |-> 0]
  /\ timeo = [s \in Sides |-> [rcv |-> FALSE, snd |-> FALSE]]
  /\ asked = [s \in Sides |-> [rcv |-> FALSE, snd |-> FALSE]]
  /\ polled = [s \in Sides |-> FALSE] /\ ret = [s \in Sides |-> NoRet]

-----------------------------------------------------------------------------
(* The C arithmetic of the loops *)

Int32 == (-IntMax - 1)..IntMax

\* a wide integer stored in an int (two's complement)
ToInt_Wide(t) == t
ToInt(t) == IF t \in Int32 THEN t
            ELSE ((t + IntMax + 1) % (2 * IntMax + 2)) - IntMax - 1

\* total += n on an int.  Overflow is undefined: the build wraps, or it keeps
\* total in a 64-bit register beside the pointer, and goes on doing so.
IntSum_NotAccumulated(t, n) == {n}
IntSum(t, n) == {t + n} \cup
  IF t <= IntMax /\ t + n > IntMax THEN {t + n - 2 * (IntMax + 1)} ELSE {}

\* total < uSize: the int is converted to size_t, so a negative one is huge
SizeLess_Signed(t, size) == t < size
SizeLess(t, size) == t >= 0 /\ t < size

-----------------------------------------------------------------------------
(* The kernel's view of a side *)

Unread(s) == arr[s] - rd[s]
Room(s) == Window - (Len(stream[s]) - rd[Peer(s)])
Reachable(s) == link[s] \in {"up", "rst"}

\* the peer closed in order, and its FIN was received behind all its bytes
FinArrived(s) == ends[Peer(s)] = "fin" /\ arr[s] = Len(stream[Peer(s)])

\* recv() would return 0
AtEof(s) == Unread(s) = 0 /\ (link[s] = "dead" \/ FinArrived(s))

\* recv() would return at once: the condition select() waits for
Readable(s) == Unread(s) > 0 \/ AtEof(s) \/ link[s] = "reset"

\* close(), by Disconnect or by the exit of the process: a socket with
\* unread bytes is reset, otherwise it is finished in order
Hangup(s) ==
  /\ ends' = [ends EXCEPT ![s] = IF Unread(s) > 0 THEN "rst" ELSE "fin"]
  /\ link' = IF Unread(s) > 0 /\ link[Peer(s)] = "up"
             THEN [link EXCEPT ![Peer(s)] = "rst"] ELSE link
  /\ UNCHANGED <<stream, arr, rd>>

-----------------------------------------------------------------------------
(* What differs between the client and the server class *)

\* CTCPClient checks m_eStatus; CTCPServer's functions get a descriptor by
\* value, which stays non-negative after Disconnect
Usable(s) == s = "server" \/ ends[s] = "open"

\* Receive's result for a null buffer or uSize = 0
BadArgument(s) == IF s = "client" THEN -2 ELSE -1

\* the socket option a setter writes: the msec overload of
\* CTCPServer::SetSndTimeout calls SetRcvTimeout
OptionSet_MsecSetsReceive(c) == IF c.unit = "msec" THEN "rcv" ELSE c.opt
OptionSet(c) ==
  IF c = [side |-> "server", opt |-> "snd", unit |-> "msec"] THEN "rcv" ELSE c.opt

Returns(s, op, val) ==
  /\ pc' = [pc EXCEPT ![s] = "idle"]
  /\ ret' = [ret EXCEPT ![s] = [op |-> op, val |-> val]]

-----------------------------------------------------------------------------
(* Send *)

\* the call enters the loop
CallSend(s) ==
  /\ s \in Senders /\ pc[s] = "idle" /\ Usable(s)
  /\ \E n \in Sizes \ {0} :
       /\ Len(stream[s]) + n <= MaxStream
       /\ call' = [call EXCEPT ![s] =
                     [size |-> n, fully |-> TRUE, base |-> Len(stream[s])]]
  /\ pc' = [pc EXCEPT ![s] = "send"]
  /\ total' = [total EXCEPT ![s] = 0]
  /\ ret' = [ret EXCEPT ![s] = NoRet]
  /\ UNCHANGED <<netVars, optVars, buf, failed, polled>>

\* !pData || !uSize, or the client is not connected
RejectSend(s) ==
  /\ s \in Senders /\ pc[s] = "idle"
  /\ \E n \in Sizes :
       /\ n = 0 \/ ~Usable(s)
       /\ call' = [call EXCEPT ![s] =
                     [size |-> n, fully |-> TRUE, base |-> Len(stream[s])]]
  /\ Returns(s, "send", 0)
  /\ UNCHANGED <<netVars, optVars, total, buf, failed, polled>>

\* the n bytes at pData + total
Chunk_NotAdvanced(s, n) == [i \in 1..n |-> call[s].base + i]
Chunk(s, n) == [i \in 1..n |-> call[s].base + total[s] + i]

\* send() accepts n bytes; the loop goes on while total < uSize
SendSome(s) ==
  /\ pc[s] = "send" /\ ends[s] = "open" /\ Reachable(s)
  /\ \E n \in 1..MaxRW :
       /\ n <= call[s].size - total[s] /\ n <= Room(s)
       /\ stream' = [stream EXCEPT ![s] = @ \o Chunk(s, n)]
       /\ \E t \in IntSum(total[s], n) :
            /\ total' = [total EXCEPT ![s] = t]
            /\ IF SizeLess(t, call[s].size)
               THEN UNCHANGED <<pc, ret>>
               ELSE Returns(s, "send", 1)
  /\ UNCHANGED <<ends, link, arr, rd, optVars, call, buf, failed, polled>>

\* send() returns -1: SO_SNDTIMEO ran out on a full window, a reset is
\* pending, or the descriptor is closed.  The bytes already sent stay sent.
SendFail(s) ==
  /\ pc[s] = "send"
  /\ \/ ends[s] # "open" /\ UNCHANGED link
     \/ /\ ends[s] = "open" /\ link[s] = "reset"
        /\ link' = [link EXCEPT ![s] = "dead"]
     \/ /\ ends[s] = "open" /\ Reachable(s)
        /\ timeo[s].snd /\ Room(s) = 0 /\ UNCHANGED link
  /\ Returns(s, "send", 0)
  /\ UNCHANGED <<ends, stream, arr, rd, optVars, call, total, buf, failed, polled>>

\* send() with flags = 0 on a connection known to be over raises SIGPIPE,
\* whose default action ends the process
SendKilled(s) ==
  /\ pc[s] = "send" /\ ends[s] = "open" /\ link[s] = "dead"
  /\ pc' = [pc EXCEPT ![s] = "killed"]
  /\ Hangup(s)
  /\ UNCHANGED <<optVars, call, total, buf, failed, ret, polled>>

SendStep(s) == SendSome(s) \/ SendFail(s) \/ SendKilled(s)

-----------------------------------------------------------------------------
(* Receive *)

CallReceive(s) ==
  /\ s \in Receivers /\ pc[s] = "idle" /\ Usable(s)
  /\ \E n \in Sizes \ {0}, fully \in Modes :
       /\ call' = [call EXCEPT ![s] = [size |-> n, fully |-> fully, base |-> rd[s]]]
       /\ buf' = [buf EXCEPT ![s] = [i \in 1..n |-> 0]]
  /\ pc' = [pc EXCEPT ![s] = "recv"]
  /\ total' = [total EXCEPT ![s] = 0]
  /\ failed' = [failed EXCEPT ![s] = 0]
  /\ ret' = [ret EXCEPT ![s] = NoRet]
  /\ UNCHANGED <<netVars, optVars, polled>>

RejectReceive(s) ==
  /\ s \in Receivers /\ pc[s] = "idle"
  /\ \E n \in Sizes, fully \in Modes :
       /\ n = 0 \/ ~Usable(s)
       /\ call' = [call EXCEPT ![s] = [size |-> n, fully |-> fully, base |-> rd[s]]]
       /\ Returns(s, "recv", IF n = 0 THEN BadArgument(s) ELSE -1)
  /\ failed' = [failed EXCEPT ![s] = 0]
  /\ UNCHANGED <<netVars, optVars, total, buf, polled>>

Smaller(a, b) == IF a < b THEN a ELSE b

\* what recv(fd, pData + total, uSize - total, 0) returns when bytes are queued
RecvCount(s) == Smaller(MaxRW, Smaller(call[s].size - total[s], Unread(s)))

\* ... and the buffer after it
Filled_NotAdvanced(s, n) ==
  [i \in DOMAIN buf[s] |->
     IF i \in 1..n THEN stream[Peer(s)][rd[s] + i] ELSE buf[s][i]]
Filled(s, n) ==
  [i \in DOMAIN buf[s] |->
     IF i \in (total[s] + 1)..(total[s] + n)
     THEN stream[Peer(s)][rd[s] + i - total[s]] ELSE buf[s][i]]

\* while (bReadFully && total < uSize)
Continue_ModeInverted(s, t) ==
  /\ total' = [total EXCEPT ![s] = t]
  /\ IF ~call[s].fully /\ SizeLess(t, call[s].size)
     THEN UNCHANGED <<pc, ret, polled>>
     ELSE /\ Returns(s, "recv", ToInt(t))
          /\ polled' = [polled EXCEPT ![s] = FALSE]
Continue(s, t) ==
  /\ total' = [total EXCEPT ![s] = t]
  /\ IF call[s].fully /\ SizeLess(t, call[s].size)
     THEN UNCHANGED <<pc, ret, polled>>
     ELSE /\ Returns(s, "recv", ToInt(t))
          /\ polled' = [polled EXCEPT ![s] = FALSE]

\* recv() returns a positive count
RecvSome(s) ==
  /\ pc[s] = "recv" /\ ends[s] = "open" /\ Unread(s) > 0
  /\ LET n == RecvCount(s) IN
       /\ rd' = [rd EXCEPT ![s] = @ + n]
       /\ buf' = [buf EXCEPT ![s] = Filled(s, n)]
       /\ \E t \in IntSum(total[s], n) : Continue(s, t)
  /\ UNCHANGED <<ends, link, stream, arr, optVars, call, failed>>

\* recv() returns 0: break
RecvEof_AddedAsCount(s) ==
  /\ pc[s] = "recv" /\ ends[s] = "open" /\ AtEof(s)
  /\ Continue(s, total[s])
  /\ UNCHANGED <<netVars, optVars, call, buf, failed>>
RecvEof(s) ==
  /\ pc[s] = "recv" /\ ends[s] = "open" /\ AtEof(s)
  /\ Returns(s, "recv", ToInt(total[s]))
  /\ polled' = [polled EXCEPT ![s] = FALSE]
  /\ UNCHANGED <<netVars, optVars, call, total, buf, failed>>

\* recv() returns -1 (SO_RCVTIMEO ran out, a reset is pending, or the
\* descriptor is closed) and the -1 is added to total like a count
RecvError(s) ==
  /\ pc[s] = "recv"
  /\ \/ ends[s] # "open" /\ UNCHANGED link
     \/ /\ ends[s] = "open" /\ link[s] = "reset" /\ Unread(s) = 0
        /\ link' = [link EXCEPT ![s] = "dead"]
     \/ /\ ends[s] = "open" /\ Reachable(s) /\ timeo[s].rcv /\ ~Readable(s)
        /\ UNCHANGED link
  /\ failed' = [failed EXCEPT ![s] = @ + 1]
  /\ Continue(s, total[s] - 1)
  /\ UNCHANGED <<ends, stream, arr, rd, optVars, call, buf>>

RecvStep(s) == RecvSome(s) \/ RecvEof(s) \/ RecvError(s)

-----------------------------------------------------------------------------
(* The other calls of the application *)

\* SelectSocket: 1 readable, 0 timed out, -1 on a closed descriptor
Poll_TimeoutIsReady(s) ==
  /\ s \in Receivers /\ pc[s] = "idle"
  /\ polled' = [polled EXCEPT ![s] = ends[s] = "open"]
  /\ ret' = [ret EXCEPT ![s] = [op |-> "poll", val |-> IF ends[s] = "open" THEN 1 ELSE -1]]
  /\ UNCHANGED <<netVars, optVars, pc, call, total, buf, failed>>
Poll(s) ==
  /\ s \in Receivers /\ pc[s] = "idle"
  /\ polled' = [polled EXCEPT ![s] = ends[s] = "open" /\ Readable(s)]
  /\ ret' = [ret EXCEPT ![s] = [op |-> "poll",
       val |-> IF ends[s] # "open" THEN -1 ELSE IF Readable(s) THEN 1 ELSE 0]]
  /\ UNCHANGED <<netVars, optVars, pc, call, total, buf, failed>>

\* a timeout setter; on = FALSE is a value of 0, which means no timeout
SetTimeout(c, on) ==
  /\ c \in TimeoutCalls /\ pc[c.side] = "idle" /\ ends[c.side] = "open"
  /\ timeo' = [timeo EXCEPT ![c.side] = [@ EXCEPT ![OptionSet(c)] = on]]
  /\ asked' = [asked EXCEPT ![c.side] = [@ EXCEPT ![c.opt] = on]]
  /\ UNCHANGED <<netVars, loopVars>>

\* CTCPClient::Disconnect, CTCPServer::Disconnect
Disconnect(s) ==
  /\ s \in Closers /\ pc[s] = "idle" /\ ends[s] = "open"
  /\ Hangup(s)
  /\ UNCHANGED <<loopVars, optVars>>

\* the process of s dies anywhere, even inside a loop
Crash(s) ==
  /\ s \in Closers /\ pc[s] # "killed" /\ ends[s] = "open"
  /\ pc' = [pc EXCEPT ![s] = "killed"]
  /\ Hangup(s)
  /\ UNCHANGED <<optVars, call, total, buf, failed, ret, polled>>

-----------------------------------------------------------------------------
(* The network *)

\* the next byte on its way to s reaches s's receive queue
Arrive(s) ==
  /\ ends[s] = "open" /\ Reachable(s) /\ arr[s] < Len(stream[Peer(s)])
  /\ arr' = [arr EXCEPT ![s] = @ + 1]
  /\ UNCHANGED <<ends, link, stream, rd, loopVars, optVars>>

\* a byte on its way to a closed socket is answered with a reset
Refuse(s) ==
  /\ ends[s] # "open" /\ arr[s] < Len(stream[Peer(s)]) /\ link[Peer(s)] = "up"
  /\ link' = [link EXCEPT ![Peer(s)] = "rst"]
  /\ UNCHANGED <<ends, stream, arr, rd, loopVars, optVars>>

\* the reset reaches s.  Behind a FIN it leaves no error for recv() and a
\* broken pipe for send(); bytes not yet arrived are lost
ResetArrives(s) ==
  /\ link[s] = "rst"
  /\ link' = [link EXCEPT ![s] = IF FinArrived(s) THEN "dead" ELSE "reset"]
  /\ UNCHANGED <<ends, stream, arr, rd, loopVars, optVars>>

NetStep(s) == Arrive(s) \/ Refuse(s) \/ ResetArrives(s)

-----------------------------------------------------------------------------
Next ==
  \/ \E s \in Sides :
       \/ CallSend(s) \/ RejectSend(s) \/ SendStep(s)
       \/ CallReceive(s) \/ RejectReceive(s) \/ RecvStep(s)
       \/ Poll(s) \/ Disconnect(s) \/ Crash(s)
       \/ NetStep(s)
  \/ \E c \in TimeoutCall, on \in BOOLEAN : SetTimeout(c, on)

Spec == Init /\ [][Next]_vars

\* a thread inside a loop whose system call can return goes on, and the
\* network delivers; nothing makes the application call
Fairness == \A s \in Sides : WF_vars(SendStep(s)) /\ WF_vars(RecvStep(s))
                             /\ WF_vars(NetStep(s))
FairSpec == Spec /\ Fairness
-----------------------------------------------------------------------------
(* Properties *)

Calls == [size : Nat, fully : BOOLEAN, base : Nat]
Results == [op : {"none", "send", "recv", "poll"}, val : Int32]

NetTypeOK ==
  /\ ends \in [Sides -> {"open", "fin", "rst"}]
  /\ link \in [Sides -> {"up", "rst", "reset", "dead"}]
  /\ stream \in [Sides -> Seq(Nat)]
  /\ arr \in [Sides -> Nat] /\ rd \in [Sides -> Nat]

LoopTypeOK ==
  /\ pc \in [Sides -> {"idle", "send", "recv", "killed"}]
  /\ call \in [Sides -> Calls] /\ ret \in [Sides -> Results]
  /\ total \in [Sides -> Int] /\ failed \in [Sides -> Nat]
  /\ buf \in [Sides -> Seq(Nat)] /\ polled \in [Sides -> BOOLEAN]

OptTypeOK == timeo \in [Sides -> Options] /\ asked \in [Sides -> Options]

\* Every variable keeps its type; what Receive returns fits the int it is
\* declared to return, whatever became of total (TCPClient.cpp:333, 383).
TypeOK == NetTypeOK /\ LoopTypeOK /\ OptTypeOK

\* The types, and with them what the loops live by: whatever send() and recv()
\* return, the next one gets a pointer inside the caller's buffer and a count
\* that stays inside it: uSize - total neither is 0 nor wraps, although total
\* goes down by one with every failed recv() and may overflow
\* (TCPClient.cpp:304, 353).
BufferInBounds ==
  /\ TypeOK
  /\ \A s \in Sides :
       /\ pc[s] \in {"send", "recv"} => total[s] \in 0..(call[s].size - 1)
       /\ pc[s] = "recv" => DOMAIN buf[s] = 1..call[s].size

\* What the kernel was handed is what the application asked for, in order,
\* with no byte twice and none left out, across partial sends, failed Sends
\* and the next Send after them.
StreamInOrder == \A s \in Sides : \A k \in DOMAIN stream[s] : stream[s][k] = k

\* Send returns true exactly when the kernel took every byte; after a false
\* the stream ends inside the message (TCPClient.cpp:306-316).  A uSize above
\* INT_MAX has no such guarantee: total overflows and the loop ends early.
SendReport ==
  \A s \in Sides :
    /\ ret[s].op = "send" /\ call[s].size \in 1..IntMax
    => (ret[s].val = 1 <=> Len(stream[s]) = call[s].base + call[s].size)

\* what Receive's header comment promises: a positive result is the number
\* of bytes taken from the connection, and they are in the buffer
ReportsWhatItRead(s) ==
  /\ ret[s].val = rd[s] - call[s].base
  /\ \A i \in 1..ret[s].val : buf[s][i] = stream[Peer(s)][call[s].base + i]

ReceiveReturned(s) == ret[s].op = "recv" /\ call[s].size \in 1..IntMax

\* Receive keeps its promise ("ret > 0 : bytes received", TCPClient.cpp:329)
\* as long as no recv() inside the call failed, and always when bReadFully
\* is false.
ReportUnlessInterrupted ==
  \A s \in Sides :
    ReceiveReturned(s) /\ ret[s].val > 0 /\ (failed[s] = 0 \/ ~call[s].fully)
      => ReportsWhatItRead(s)

\* The same promise with no condition: the code does not keep it.
ReceiveReport ==
  \A s \in Sides :
    ReceiveReturned(s) /\ ret[s].val > 0 => ReportsWhatItRead(s)

\* Each failed recv() costs exactly one byte of the count: in the loop and
\* at the return, bytes taken = total + failed calls.  So a Receive that
\* fails late may report fewer bytes than it consumed, and never more.
LossAccounting ==
  \A s \in Sides :
    /\ pc[s] = "recv" /\ call[s].size <= IntMax
         => rd[s] - call[s].base = total[s] + failed[s]
    /\ ReceiveReturned(s) /\ (rd[s] > call[s].base \/ ret[s].val >= 0)
         => rd[s] - call[s].base = ret[s].val + failed[s]

\* Even then the bytes reported are bytes of the peer's stream in the order
\* they were sent, none of them twice and none older than the call.
ReceivedInOrder ==
  \A s \in Sides :
    ReceiveReturned(s) => \A i \in 1..ret[s].val :
      /\ call[s].base < buf[s][i] /\ buf[s][i] <= rd[s]
      /\ i > 1 => buf[s][i - 1] < buf[s][i]

\* "ret == 0 : connection closed" (TCPClient.cpp:330): a Receive that comes
\* back empty, or short with no failed recv() when it was to read fully,
\* means the peer is gone; and when the peer closed in order and no reset
\* followed, every byte it sent has been read.
ShortMeansClosed ==
  \A s \in Sides :
    /\ ReceiveReturned(s)
    /\ \/ ret[s].val = 0
       \/ call[s].fully /\ failed[s] = 0 /\ ret[s].val \in 0..(call[s].size - 1)
    => /\ ends[Peer(s)] # "open"
       /\ ends[Peer(s)] = "fin" /\ link[s] = "up" => rd[s] = Len(stream[Peer(s)])

Pipe ==
  INSTANCE BytePipe WITH
    sent <- stream, taken <- rd, closed <- [s \in Sides |-> ends[s] # "open"]

\* The loops, the two kernels and the network between them are a pipe of bytes
\* in each direction: partial sends and receives, timeouts, resets, and the
\* death of a process add, lose and reorder nothing on the way, nothing moves
\* through a closed end, and a sender waits for its reader
\* (TCPClient.cpp:298-317, 350-384).
PipeKept == Pipe!PipeSpec

\* A Send for which the application asked a timeout comes back
\* (README.md:120), whatever the peer does.
TimedSendReturns ==
  \A s \in Sides : (pc[s] = "send" /\ asked[s].snd) ~> pc[s] # "send"

\* With no receive timeout, a Receive comes back once the peer's kernel has
\* taken as many bytes as it wants, or once the peer is gone - in order, by a
\* reset that loses bytes, or by the death of its process.
ReceiveReturns ==
  \A s \in Sides :
    /\ pc[s] = "recv"
    /\ \/ Len(stream[Peer(s)]) - call[s].base >= call[s].size
       \/ ends[Peer(s)] # "open"
    ~> pc[s] # "recv"

\* "A client socket can be polled to ensure that a receive operation won't
\* block indefinitely if a timeout has not been defined" (README.md:104): a
\* Receive that follows a poll which found something to read comes back.  The
\* code does not keep it for bReadFully = true, the default and the README's
\* example: the first recv() returns and the next one waits (TCPClient.cpp:381).
PolledReceiveReturns ==
  \A s \in Sides : (pc[s] = "recv" /\ polled[s]) ~> pc[s] # "recv"

\* What is left of it: with bReadFully = false there is one recv(), nobody
\* reads between the poll and it, and neither a reset nor a peer that dies
\* takes away that it can return.
PolledPartialReceiveReturns ==
  \A s \in Sides :
    (pc[s] = "recv" /\ polled[s] /\ ~call[s].fully) ~> pc[s] # "recv"

\* The two ways the library names to keep a call from blocking for good, a poll
\* before a Receive and a timeout ("Or you can define a recevive (or send) timeout
\* value", README.md:104-122).  The code keeps the promise for neither.
BoundedCallsReturn == TimedSendReturns /\ PolledReceiveReturns
=============================================================================
