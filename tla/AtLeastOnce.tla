---------------------------- MODULE AtLeastOnce ----------------------------
(***************************************************************************)
(* What event delivery promises: an event that was accepted stays owed     *)
(* until somebody has handled it or it is parked as a dead letter, where   *)
(* it stays until it is owed again.  How often it is handled is left open, *)
(* and one step of a reader may settle several events.                     *)
(***************************************************************************)
CONSTANT Event

VARIABLE status

Init == status = [e \in Event |-> "new"]

Moves == {<<"new", "owed">>, <<"owed", "parked">>, <<"parked", "owed">>}
             \union ({"new", "owed", "parked"} \X {"handled"})

Next ==
    \E settled \in [Event -> {"new", "owed", "parked", "handled"}] :
        /\ \A e \in Event : settled[e] = status[e] \/ <<status[e], settled[e]>> \in Moves
        /\ status' = settled

\* Nobody owes an event for ever.
Spec == Init /\ [][Next]_status /\ \A e \in Event : (status[e] = "owed") ~> (status[e] # "owed")
=============================================================================
