-------------------------- MODULE MCEventDelivery --------------------------
(***************************************************************************)
(* Small instances of EventDelivery for TLC.                               *)
(***************************************************************************)
EXTENDS EventDelivery

CONSTANTS e1, c1

None0 == [actors |-> Event \union Consumer, sends |-> 0, failures |-> 0, crashes |-> 0,
          moves |-> 0, replays |-> 0, resends |-> 0]

\* Redelivery under crashes and rebalances; a replay whose sends fail or whose letters come
\* back, one that crashes; two replays that overlap while what one sent back fails again.
MCBudgets == {[None0 EXCEPT !.sends = 1, !.failures = 2, !.crashes = 1],
              [None0 EXCEPT !.failures = 2, !.moves = 2],
              [None0 EXCEPT !.actors = Event \union {c1}, !.resends = 1, !.failures = 4, !.replays = 1],
              [None0 EXCEPT !.actors = Event \union {c1}, !.failures = 2, !.crashes = 1, !.replays = 1],
              [None0 EXCEPT !.actors = {e1, c1}, !.failures = 4, !.replays = 2]}
=============================================================================
