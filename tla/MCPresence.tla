----------------------------- MODULE MCPresence -----------------------------
(***************************************************************************)
(* A small instance of Presence for TLC: one user with two connections     *)
(* that may overlap or follow each other.                                  *)
(***************************************************************************)
EXTENDS Presence

CONSTANTS u1

OneUser == [c \in Conn |-> u1]

\* Three room operations of one connection; two connections with a stop, a fault and a
\* revocation, or with an operation; an operation that meets a revocation; three
\* connections one after the other.
MCBudgets == {[conns |-> 1, ops |-> 3, stops |-> 0, faults |-> 0, revocations |-> 0],
              [conns |-> 2, ops |-> 0, stops |-> 1, faults |-> 1, revocations |-> 1],
              [conns |-> 2, ops |-> 1, stops |-> 0, faults |-> 0, revocations |-> 0],
              [conns |-> 1, ops |-> 1, stops |-> 0, faults |-> 0, revocations |-> 1],
              [conns |-> 3, ops |-> 0, stops |-> 0, faults |-> 1, revocations |-> 0]}
=============================================================================
