------------------------------ MODULE TLSStream ------------------------------
(***************************************************************************)
(* The data path of the TLS classes: Send, Receive and Disconnect of       *)
(* CTCPSSLClient and CTCPSSLServer over SSL_write, SSL_read and            *)
(* SSL_shutdown, from the end of the handshake on.                         *)
(*                                                                         *)
(* Below is a connection that behaves as BytePipe says: queue[s] is what   *)
(* travels to s or waits in its kernel.  It carries units of ciphertext;   *)
(* a byte of plaintext is one unit, known by its place in what its sender  *)
(* was asked to send, and a record can be opened when its last unit is     *)
(* there.  The close_notify alert is a record of one unit.                 *)
(* What TLS makes of the pipe is a pipe again (TLSPipeKept).               *)
(*                                                                         *)
(* The two classes hold the same loops, so an endpoint is a side; only the *)
(* client looks at m_eStatus.  The application keeps to the comments at    *)
(* TCPSSLServer.cpp:160 and 190: it passes at least a byte, and an         *)
(* interrupted Send is repeated with the same arguments, or refused.       *)
(***************************************************************************)
EXTENDS Integers, Sequences

CONSTANTS
  Sizes,         \* the values of uSize the application passes
  Modes,         \* the values of bReadFully it passes
  Senders,       \* the sides that call Send
  Receivers,     \* the sides that call Receive
  Closers,       \* the sides that disconnect, or whose process may die
  TimeoutCalls,  \* the timeout setters it calls: [side, opt, unit]
  Window,        \* units the kernels hold per direction
  MaxRecord,     \* most bytes of a record
  IntMax,        \* INT_MAX
  MaxStream      \* bound: bytes a side sends in a behaviour

Sides == {"client", "server"}
Peer(s) == IF s = "client" THEN "server" ELSE "client"

ASSUME CallsAssumption ==
  /\ Sizes \subseteq Nat \ {0} /\ Modes \subseteq BOOLEAN
  /\ Senders \subseteq Sides /\ Receivers \subseteq Sides /\ Closers \subseteq Sides
  /\ TimeoutCalls \subseteq [side : Sides, opt : {"rcv", "snd"}, unit : {"msec", "timeval"}]
ASSUME LimitsAssumption ==
  /\ Window \in Nat \ {0} /\ MaxRecord \in Nat \ {0} /\ IntMax \in Nat \ {0}
  /\ MaxStream \in Nat

VARIABLES
  queue,     \* queue[s]: the units on the connection to s
  closed,    \* closed[s]: s's descriptor was closed
  link,      \* what s's kernel knows: "up", "reset" (ECONNRESET pending), "dead"
  out,       \* s's SSL: units of an SSL_write the kernel has not taken yet
  owed,      \* ... and the Send it belongs to
  inRec,     \* s's SSL: the bytes of a record that is not complete
  plain,     \* s's SSL: bytes of an opened record that SSL_read has not returned
  notified,  \* s's SSL has read the peer's close_notify
  written,   \* bytes SSL_write took from s
  taken,     \* bytes SSL_read returned to s
  pc,        \* "idle", "send" (before an SSL_write), "write" (in it), "recv",
             \* "shutdown" (in SSL_shutdown), "killed"
  call,      \* the call in the loop, or the last: uSize, bReadFully, bytes so far
  total,     \* the loop's int total
  buf,       \* Receive's pData, 0 where nothing was written
  timeo,     \* the kernel's SO_RCVTIMEO and SO_SNDTIMEO: set or not
  asked,     \* the timeouts the application asked for
  ret        \* result of the last call that returned

netVars == <<queue, closed, link>>
outVars == <<out, owed, written>>
inVars == <<inRec, plain, notified, taken>>
loopVars == <<pc, call, total, buf, ret>>
optVars == <<timeo, asked>>
vars == <<netVars, outVars, inVars, loopVars, optVars>>

NoRet == [op |-> "none", val |-> 0]
NoCall == [size |-> 0, fully |-> TRUE, base |-> 0]
Each(x) == [s \in Sides |-> x]

Init ==
  /\ queue = Each(<<>>) /\ closed = Each(FALSE) /\ link = Each("up")
  /\ out = Each(<<>>) /\ owed = Each(NoCall) /\ written = Each(0)
  /\ inRec = Each(<<>>) /\ plain = Each(<<>>) /\ notified = Each(FALSE)
  /\ taken = Each(0)
  /\ pc = Each("idle") /\ call = Each(NoCall) /\ total = Each(0)
  /\ buf = Each(<<>>) /\ ret = Each(NoRet)
  /\ timeo = Each([rcv |-> FALSE, snd |-> FALSE])
  /\ asked = Each([rcv |-> FALSE, snd |-> FALSE])

-----------------------------------------------------------------------------
\* the int num of SSL_write and SSL_read from uSize - total, a size_t
ToInt(n) == ((n + IntMax + 1) % (2 * IntMax + 2)) - IntMax - 1
Num(s) == ToInt(call[s].size - total[s])

Alert == [byte |-> 0, last |-> TRUE]
\* n bytes after the first b, cut into records
Records(b, n) ==
  [i \in 1..n |-> [byte |-> b + i, last |-> i = n \/ i % MaxRecord = 0]]

Full(s) == Len(queue[Peer(s)]) >= Window
Transmit(s, u) == queue' = [queue EXCEPT ![Peer(s)] = Append(@, u)]
Goto(s, label) == pc' = [pc EXCEPT ![s] = label]
Returns(s, op, val) ==
  Goto(s, "idle") /\ ret' = [ret EXCEPT ![s] = [op |-> op, val |-> val]]

\* an error of a system call: a pending reset is reported once
Consume(s) == link' = IF link[s] = "reset" THEN [link EXCEPT ![s] = "dead"] ELSE link

\* CTCPSSLClient checks m_eStatus; an SSLSocket is not used after Disconnect
Rejects(s) == s = "client" /\ closed[s]

\* the setters are those of the TCP classes (TCPServer.cpp:90)
OptionSet_MsecSetsReceive(c) == IF c.unit = "msec" THEN "rcv" ELSE c.opt
OptionSet(c) ==
  IF c = [side |-> "server", opt |-> "snd", unit |-> "msec"] THEN "rcv" ELSE c.opt

-----------------------------------------------------------------------------
(* Send *)

CallSend_Unconnected(s) ==
  /\ s \in Senders /\ pc[s] = "idle" /\ out[s] = <<>>
  /\ \E n \in Sizes :
       /\ written[s] + ToInt(n) <= MaxStream
       /\ call' = [call EXCEPT ![s] = [size |-> n, fully |-> TRUE, base |-> written[s]]]
  /\ Goto(s, "send") /\ total' = [total EXCEPT ![s] = 0] /\ ret' = [ret EXCEPT ![s] = NoRet]
  /\ UNCHANGED <<netVars, outVars, inVars, optVars, buf>>
\* a new Send, or the interrupted one once more
CallSend(s) ==
  /\ s \in Senders /\ pc[s] = "idle" /\ ~closed[s]
  /\ IF out[s] # <<>> THEN call' = [call EXCEPT ![s] = owed[s]]
     ELSE \E n \in Sizes :
            /\ written[s] + ToInt(n) <= MaxStream
            /\ call' = [call EXCEPT ![s] =
                          [size |-> n, fully |-> TRUE, base |-> written[s]]]
  /\ Goto(s, "send") /\ total' = [total EXCEPT ![s] = 0] /\ ret' = [ret EXCEPT ![s] = NoRet]
  /\ UNCHANGED <<netVars, outVars, inVars, optVars, buf>>

\* not connected; or SSL_write gets other arguments than it has to finish
\* ("bad write retry") and the loop returns false
RejectSend(s) ==
  /\ s \in Senders /\ pc[s] = "idle" /\ (Rejects(s) \/ (~closed[s] /\ out[s] # <<>>))
  /\ Returns(s, "send", 0)
  /\ UNCHANGED <<netVars, outVars, inVars, optVars, call, total, buf>>

\* SSL_write(m_pSSL, pData + total, uSize - total) makes its records, unless
\* it has some to finish
EnterWrite(s) ==
  /\ pc[s] = "send" /\ Num(s) > 0 /\ Goto(s, "write")
  /\ IF out[s] # <<>> THEN UNCHANGED outVars
     ELSE /\ out' = [out EXCEPT ![s] = Records(call[s].base + total[s], Num(s))]
          /\ owed' = [owed EXCEPT ![s] = call[s]]
          /\ written' = [written EXCEPT ![s] = @ + Num(s)]
  /\ UNCHANGED <<netVars, inVars, optVars, call, total, buf, ret>>

\* a count that is negative or zero as an int: SSL_write returns at once
BadCount(s) ==
  /\ pc[s] = "send" /\ Num(s) <= 0 /\ Returns(s, "send", 0)
  /\ UNCHANGED <<netVars, outVars, inVars, optVars, call, total, buf>>

\* the kernel takes a unit; SSL_write returns when it took the last one
WriteUnit(s) ==
  /\ pc[s] = "write" /\ link[s] = "up" /\ ~Full(s)
  /\ Transmit(s, Head(out[s])) /\ out' = [out EXCEPT ![s] = Tail(@)]
  /\ IF Len(out[s]) > 1 THEN UNCHANGED <<pc, total, ret>>
     ELSE LET t == total[s] + Num(s) IN
          /\ total' = [total EXCEPT ![s] = t]
          /\ IF t < call[s].size THEN Goto(s, "send") /\ UNCHANGED ret
             ELSE Returns(s, "send", 1)
  /\ UNCHANGED <<closed, link, owed, written, inVars, optVars, call, buf>>

\* SSL_write returns -1: SO_SNDTIMEO ran out on a full window, or a reset is
\* pending.  What it did not write stays to be finished.
WriteFails(s) ==
  /\ pc[s] = "write"
  /\ \/ link[s] = "reset"
     \/ link[s] = "up" /\ Full(s) /\ timeo[s].snd
  /\ Consume(s) /\ Returns(s, "send", 0)
  /\ UNCHANGED <<queue, closed, outVars, inVars, optVars, call, total, buf>>

\* SIGPIPE
Dies(s) ==
  /\ Goto(s, "killed") /\ closed' = [closed EXCEPT ![s] = TRUE]
  /\ UNCHANGED <<queue, link, outVars, inVars, optVars, call, total, buf, ret>>
WriteKilled(s) == pc[s] = "write" /\ link[s] = "dead" /\ Dies(s)

SendStep(s) ==
  EnterWrite(s) \/ BadCount(s) \/ WriteUnit(s) \/ WriteFails(s) \/ WriteKilled(s)

-----------------------------------------------------------------------------
(* Receive *)

CallReceive(s) ==
  /\ s \in Receivers /\ pc[s] = "idle" /\ ~closed[s]
  /\ \E n \in Sizes, fully \in Modes :
       /\ call' = [call EXCEPT ![s] = [size |-> n, fully |-> fully, base |-> taken[s]]]
       /\ buf' = [buf EXCEPT ![s] = [i \in 1..n |-> 0]]
  /\ Goto(s, "recv") /\ total' = [total EXCEPT ![s] = 0] /\ ret' = [ret EXCEPT ![s] = NoRet]
  /\ UNCHANGED <<netVars, outVars, inVars, optVars>>

RejectReceive(s) ==
  /\ pc[s] = "idle" /\ Rejects(s) /\ Returns(s, "recv", -1)
  /\ UNCHANGED <<netVars, outVars, inVars, optVars, call, total, buf>>

\* while (bReadFully && total < uSize)
Continue_ToTheEnd(s, t) ==
  /\ total' = [total EXCEPT ![s] = t]
  /\ IF call[s].fully /\ t <= call[s].size THEN UNCHANGED <<pc, ret>>
     ELSE Returns(s, "recv", t)
Continue(s, t) ==
  /\ total' = [total EXCEPT ![s] = t]
  /\ IF call[s].fully /\ t < call[s].size THEN UNCHANGED <<pc, ret>>
     ELSE Returns(s, "recv", t)

\* SSL_pending and SSL_has_pending
PendingBytes(s) == Len(plain[s])
HasPending_Never(s) == FALSE
HasPending(s) == plain[s] # <<>> \/ inRec[s] # <<>>

\* SSL_read returns bytes of the record it has open, and of no other
ReadPlain(s) ==
  /\ pc[s] = "recv" /\ Num(s) > 0 /\ PendingBytes(s) > 0
  /\ LET n == IF Num(s) < PendingBytes(s) THEN Num(s) ELSE PendingBytes(s) IN
       /\ buf' = [buf EXCEPT ![s] = [i \in DOMAIN @ |->
            IF i \in (total[s] + 1)..(total[s] + n) THEN plain[s][i - total[s]] ELSE @[i]]]
       /\ plain' = [plain EXCEPT ![s] = SubSeq(@, n + 1, Len(@))]
       /\ taken' = [taken EXCEPT ![s] = @ + n]
       /\ Continue(s, total[s] + n)
  /\ UNCHANGED <<netVars, outVars, optVars, inRec, notified, call>>

\* inside SSL_read: a unit more of the next record, which is opened when it
\* is complete
ReadUnit(s) ==
  /\ pc[s] = "recv" /\ Num(s) > 0 /\ plain[s] = <<>> /\ ~notified[s] /\ queue[s] # <<>>
  /\ queue' = [queue EXCEPT ![s] = Tail(@)]
  /\ LET u == Head(queue[s])
         bytes == Append(inRec[s], u.byte)
     IN IF u = Alert
        THEN notified' = [notified EXCEPT ![s] = TRUE] /\ UNCHANGED <<inRec, plain>>
        ELSE /\ inRec' = [inRec EXCEPT ![s] = IF u.last THEN <<>> ELSE bytes]
             /\ plain' = [plain EXCEPT ![s] = IF u.last THEN bytes ELSE <<>>]
             /\ UNCHANGED notified
  /\ UNCHANGED <<closed, link, outVars, taken, loopVars, optVars>>

\* SSL_read returns 0 or less: a bad count, close_notify, the end of the
\* connection, a reset, or SO_RCVTIMEO in the middle of a record.  break
NothingToRead(s) ==
  \/ Num(s) <= 0
  \/ /\ plain[s] = <<>>
     /\ \/ notified[s]
        \/ queue[s] = <<>> /\ (closed[Peer(s)] \/ link[s] # "up" \/ timeo[s].rcv)
ReadFails_Counted(s) ==
  /\ pc[s] = "recv" /\ NothingToRead(s) /\ Consume(s)
  /\ Continue(s, total[s] - 1)
  /\ UNCHANGED <<queue, closed, outVars, inVars, optVars, call, buf>>
ReadFails_OnlyNegative(s) ==
  /\ pc[s] = "recv" /\ NothingToRead(s) /\ ~notified[s] /\ Consume(s)
  /\ Returns(s, "recv", total[s])
  /\ UNCHANGED <<queue, closed, outVars, inVars, optVars, call, total, buf>>
ReadFails(s) ==
  /\ pc[s] = "recv" /\ NothingToRead(s) /\ Consume(s)
  /\ Returns(s, "recv", total[s])
  /\ UNCHANGED <<queue, closed, outVars, inVars, optVars, call, total, buf>>

RecvStep(s) == ReadPlain(s) \/ ReadUnit(s) \/ ReadFails(s)

-----------------------------------------------------------------------------
(* Disconnect and the timeouts *)

CallDisconnect(s) ==
  /\ s \in Closers /\ pc[s] = "idle" /\ ~closed[s] /\ Goto(s, "shutdown")
  /\ UNCHANGED <<netVars, outVars, inVars, optVars, call, total, buf, ret>>

\* ShutdownSSL, then close().  SSL_shutdown writes close_notify, unless an
\* SSL_write is unfinished, the connection is over, or SO_SNDTIMEO runs out;
\* on a connection known to be over it may raise SIGPIPE, as the version of
\* OpenSSL has it
Shutdown(s) ==
  /\ pc[s] = "shutdown"
  /\ \/ out[s] # <<>> \/ link[s] # "up" \/ ~Full(s) \/ timeo[s].snd
  /\ IF out[s] = <<>> /\ link[s] = "up" /\ ~Full(s)
     THEN Transmit(s, Alert) ELSE UNCHANGED queue
  /\ closed' = [closed EXCEPT ![s] = TRUE] /\ Goto(s, "idle")
  /\ UNCHANGED <<link, outVars, inVars, optVars, call, total, buf, ret>>
ShutdownKilled(s) == pc[s] = "shutdown" /\ out[s] = <<>> /\ link[s] = "dead" /\ Dies(s)

ShutdownStep(s) == Shutdown(s) \/ ShutdownKilled(s)

SetTimeout(c) ==
  /\ c \in TimeoutCalls /\ pc[c.side] = "idle" /\ ~closed[c.side]
  /\ timeo' = [timeo EXCEPT ![c.side] = [@ EXCEPT ![OptionSet(c)] = TRUE]]
  /\ asked' = [asked EXCEPT ![c.side] = [@ EXCEPT ![c.opt] = TRUE]]
  /\ UNCHANGED <<netVars, outVars, inVars, loopVars>>

\* the process of s dies anywhere
Crash(s) == s \in Closers /\ pc[s] # "killed" /\ ~closed[s] /\ Dies(s)

\* what was sent to a closed end is answered with a reset, which may overtake
\* units on their way to s
Breaks(s) ==
  /\ closed[Peer(s)] /\ queue[Peer(s)] # <<>> /\ link[s] = "up"
  /\ \E b \in {"reset", "dead"} : link' = [link EXCEPT ![s] = b]
  /\ \E n \in 0..Len(queue[s]) : queue' = [queue EXCEPT ![s] = SubSeq(@, 1, n)]
  /\ UNCHANGED <<closed, outVars, inVars, loopVars, optVars>>

-----------------------------------------------------------------------------
Next ==
  \/ \E s \in Sides :
       \/ CallSend(s) \/ RejectSend(s) \/ SendStep(s)
       \/ CallReceive(s) \/ RejectReceive(s) \/ RecvStep(s)
       \/ CallDisconnect(s) \/ ShutdownStep(s) \/ Crash(s) \/ Breaks(s)
  \/ \E c \in TimeoutCalls : SetTimeout(c)

TLSSpec == Init /\ [][Next]_vars

\* as in Connection: a system call that can return does, and resets arrive
TLSFairSpec ==
  TLSSpec /\ \A s \in Sides : /\ WF_vars(SendStep(s)) /\ WF_vars(RecvStep(s))
                              /\ WF_vars(ShutdownStep(s)) /\ WF_vars(Breaks(s))
-----------------------------------------------------------------------------
(* Properties *)

Call == [size : Nat, fully : BOOLEAN, base : Nat]
Unit == [byte : Nat, last : BOOLEAN]
Option == [rcv : BOOLEAN, snd : BOOLEAN]

TypesOK ==
  /\ queue \in [Sides -> Seq(Unit)] /\ closed \in [Sides -> BOOLEAN]
  /\ link \in [Sides -> {"up", "reset", "dead"}]
  /\ out \in [Sides -> Seq(Unit)] /\ owed \in [Sides -> Call] /\ written \in [Sides -> Nat]
  /\ inRec \in [Sides -> Seq(Nat)] /\ plain \in [Sides -> Seq(Nat)]
  /\ notified \in [Sides -> BOOLEAN] /\ taken \in [Sides -> Nat]
  /\ pc \in [Sides -> {"idle", "send", "write", "recv", "shutdown", "killed"}]
  /\ call \in [Sides -> Call] /\ total \in [Sides -> Nat] /\ buf \in [Sides -> Seq(Nat)]
  /\ ret \in [Sides -> [op : {"none", "send", "recv"}, val : Int]]
  /\ timeo \in [Sides -> Option] /\ asked \in [Sides -> Option]

\* Every variable keeps its type, and SSL_write and SSL_read get a pointer and
\* a count inside the caller's buffer, for a uSize above INT_MAX too, and a
\* repeated SSL_write its first arguments (TCPSSLClient.cpp:169, 226).
TLSTypeOK ==
  /\ TypesOK
  /\ \A s \in Sides :
       /\ pc[s] \in {"send", "write", "recv"} =>
            total[s] < call[s].size /\ total[s] + Num(s) <= call[s].size
       /\ pc[s] = "write" => out[s] # <<>> /\ call[s] = owed[s]

\* What Receive returns is the number of bytes it took from the session, and
\* they are in the buffer: the peer's bytes in order, each exactly once.
\* Unlike the TCP loop it loses none to a timeout in the middle of a record,
\* and a Send that timed out and was repeated delivers once
\* (TCPSSLClient.cpp:223-241, TCPSSLServer.cpp:160-214).
TLSReceiveReport ==
  \A s \in Sides : ret[s].op = "recv" =>
    /\ ret[s].val = -1 => closed[s]
    /\ ret[s].val # -1 => ret[s].val = taken[s] - call[s].base
    /\ \A i \in 1..ret[s].val : buf[s][i] = call[s].base + i

\* An application that polls has to ask the session too: when nothing waits in
\* the kernel and HasPending is false, every byte of the peer's Sends has been
\* received, the last of them included if it returned true
\* (TCPSSLServer.cpp:142-158).
QuietMeansCaughtUp ==
  \A s \in Sides :
    /\ ~closed[s] /\ link[s] = "up" /\ queue[s] = <<>> /\ ~HasPending(s)
    /\ ret[Peer(s)] = [op |-> "send", val |-> 1]
    => taken[s] = call[Peer(s)].base + call[Peer(s)].size

Pipe ==
  INSTANCE BytePipe WITH
    Window <- Window + MaxRecord,
    sent <- [s \in Sides |-> [i \in 1..(written[s] - Len(out[s])) |-> i]]

\* TLS on both ends of a pipe of bytes is again such a pipe, which holds one
\* record more: whatever fails, is repeated, or is cut off by a reset, plaintext
\* is added by open ends and read by open ends, none that was not sent, and a
\* sender is never further ahead of the reader than the window and a record
\* (TCPSSLClient.cpp:165-183, 223-242, TCPSSLServer.cpp:228-245).
TLSPipeKept == Pipe!PipeSpec

\* A Receive comes back once the peer's kernel has the records it needs, or
\* the peer is gone, or has said so by close_notify.
TLSReceiveReturns ==
  \A s \in Sides :
    /\ pc[s] = "recv"
    /\ \/ out[Peer(s)] = <<>> /\ written[Peer(s)] - call[s].base >= call[s].size
       \/ closed[Peer(s)]
    ~> pc[s] # "recv"

\* Disconnect writes close_notify, and on a full window waits for the peer to
\* read; with a send timeout it comes back whatever the peer does, as does a
\* Send (SecureSocket.cpp:155, TCPSSLServer.cpp:234-240).
TLSDisconnectReturns ==
  \A s \in Sides :
    (pc[s] \in {"write", "shutdown"} /\ asked[s].snd) ~> pc[s] \notin {"write", "shutdown"}
=============================================================================
