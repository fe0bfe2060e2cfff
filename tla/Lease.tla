------------------------------- MODULE Lease -------------------------------
(***************************************************************************)
(* What cronjobs/locking/distributedLock.ts promises its callers: a lock   *)
(* one process holds at a time.  A process enters only while nobody is     *)
(* inside, and leaves on its own or by dying.                              *)
(***************************************************************************)
CONSTANT Client

VARIABLE holders    \* the processes inside

Init == holders = {}

Enter(c) == holders = {} /\ holders' = {c}

Leave(c) == c \in holders /\ holders' = holders \ {c}

Next == \E c \in Client : Enter(c) \/ Leave(c)

Spec == Init /\ [][Next]_holders
=============================================================================
