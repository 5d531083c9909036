------------------------------ MODULE BytePipe ------------------------------
(***************************************************************************)
(* What a connection promises its two ends: a bounded pipe of bytes in     *)
(* each direction.  An end writes the next bytes while there is room, and  *)
(* reads what the other has written and it has not read yet.  Bytes are    *)
(* numbered as their sender wrote them.  An end that is closed does        *)
(* neither, for good; what it had written may still be read, or may not.   *)
(***************************************************************************)
EXTENDS Integers, Sequences

CONSTANT Window  \* bytes a direction holds

VARIABLES
  sent,   \* sent[s]: what s has written
  taken,  \* taken[s]: how many bytes of the other end s has read
  closed  \* closed[s]: s has been closed

pipeVars == <<sent, taken, closed>>

Sides == {"client", "server"}
Peer(s) == IF s = "client" THEN "server" ELSE "client"

PipeInit ==
  /\ sent = [s \in Sides |-> <<>>] /\ taken = [s \in Sides |-> 0]
  /\ closed = [s \in Sides |-> FALSE]

Write(s) ==
  /\ ~closed[s]
  /\ \E n \in 1..Window :
       /\ Len(sent[s]) + n <= taken[Peer(s)] + Window
       /\ sent' = [sent EXCEPT ![s] = @ \o [i \in 1..n |-> Len(sent[s]) + i]]
  /\ UNCHANGED <<taken, closed>>

Read(s) ==
  /\ ~closed[s]
  /\ \E n \in 1..(Len(sent[Peer(s)]) - taken[s]) : taken' = [taken EXCEPT ![s] = @ + n]
  /\ UNCHANGED <<sent, closed>>

Close(s) ==
  /\ ~closed[s] /\ closed' = [closed EXCEPT ![s] = TRUE]
  /\ UNCHANGED <<sent, taken>>

PipeNext == \E s \in Sides : Write(s) \/ Read(s) \/ Close(s)

PipeSpec == PipeInit /\ [][PipeNext]_pipeVars
=============================================================================
