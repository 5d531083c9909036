---------------------------- MODULE Descriptors ----------------------------
(***************************************************************************)
(* The process's table of file descriptors, which the kernel keeps and all *)
(* its threads share: a number is given to whoever asks for a descriptor,  *)
(* and close() frees it whoever calls it.  External to src/.               *)
(***************************************************************************)
EXTENDS Integers

CONSTANTS
  MaxFd,    \* bound: the descriptors the process may have are 0..MaxFd
  Owners,   \* who may hold one
  Nobody    \* the owner of a free number

ASSUME FdsAssumption == MaxFd \in Nat
ASSUME OwnersAssumption == Nobody \notin Owners

VARIABLE owner   \* owner[f]: on whose behalf f was last opened

INVALID_SOCKET == -1
Fds == 0..MaxFd
FdValue == Fds \cup {INVALID_SOCKET}

DescriptorsInit == owner = [f \in Fds |-> Nobody]

Free == {f \in Fds : owner[f] = Nobody}
Held(o) == {f \in Fds : owner[f] = o}

\* POSIX gives out the lowest free number, so a closed one comes back soon
Opens(o, f) ==
  /\ f \in Free /\ \A g \in Free : f <= g
  /\ owner' = [owner EXCEPT ![f] = o]

\* close(f); EBADF when f is not an open descriptor
Closes(f) == owner' = [g \in Fds |-> IF g = f THEN Nobody ELSE owner[g]]
=============================================================================
