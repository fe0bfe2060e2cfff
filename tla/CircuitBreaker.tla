--------------------------- MODULE CircuitBreaker ---------------------------
(***************************************************************************)
(* The circuit breaker of modules/core/utilities/circuitBreaker.ts, shared *)
(* by every caller of one external dependency (Redis, Kafka, the WebSocket *)
(* server, Telegram).                                                      *)
(*                                                                         *)
(* JavaScript runs `execute` without interruption up to its `await`, so a  *)
(* call is two steps: Execute, which decides whether the call goes         *)
(* through, and one of Succeed and Fail, when the awaited promise settles. *)
(* Between the two, other calls start and settle and may move the breaker  *)
(* through any of its states.  A call slower than callTimeout settles as a *)
(* failure and its late answer is ignored, so it is one of the Fail steps. *)
(*                                                                         *)
(* The code compares clock readings with each other and with nothing else, *)
(* so a reading is kept as its age, and an age stops growing once every    *)
(* comparison it takes part in has settled.  That keeps the model finite   *)
(* without a horizon, which the liveness property needs.                   *)
(***************************************************************************)
EXTENDS Integers

CONSTANTS
    Call,               \* the calls that may be in flight at once
    FailureThreshold,   \* failures within one window that open the circuit
    FailureWindow,      \* length of that window
    ResetTimeout,       \* time after a failure before a trial is let through
    SuccessThreshold,   \* successes in HALF_OPEN that close the circuit
    FailureBudget       \* bound: failures the dependency may still produce

ASSUME ConfigAssumption ==
    /\ FailureThreshold \in Nat \ {0}
    /\ FailureWindow \in Nat
    /\ ResetTimeout \in Nat
    /\ SuccessThreshold \in Nat \ {0}
    /\ FailureBudget \in Nat

\* The age of a moment that is not on record: `undefined` in the code.
None == -1

VARIABLES
    state,          \* CLOSED, OPEN or HALF_OPEN
    failures,       \* failures counted in the current window
    successes,      \* successes counted in HALF_OPEN
    windowAge,      \* age of failureWindowStart, or None
    failureAge,     \* age of lastFailureTime, or None
    trialInFlight,  \* the flag guarding the single trial call
    call,           \* per call: idle, plain (let through in CLOSED) or trial
    recent,         \* history: recent[k] is the age of the k-th latest failure
                    \* of this CLOSED period, None once outside the window
    budget          \* failures the dependency may still produce

vars == <<state, failures, successes, windowAge, failureAge, trialInFlight,
          call, recent, budget>>

CircuitState == {"CLOSED", "OPEN", "HALF_OPEN"}

NoFailures == [k \in 1..FailureThreshold |-> None]

TypeOK ==
    /\ state \in CircuitState
    /\ failures \in 0..FailureThreshold
    /\ successes \in 0..(SuccessThreshold - 1)
    /\ windowAge \in 0..(FailureWindow + 1) \cup {None}
    /\ failureAge \in 0..ResetTimeout \cup {None}
    /\ trialInFlight \in BOOLEAN
    /\ call \in [Call -> {"idle", "plain", "trial"}]
    /\ recent \in [1..FailureThreshold -> 0..FailureWindow \cup {None}]
    /\ budget \in 0..FailureBudget

Init ==
    /\ state = "CLOSED"
    /\ failures = 0
    /\ successes = 0
    /\ windowAge = None
    /\ failureAge = None
    /\ trialInFlight = FALSE
    /\ call = [c \in Call |-> "idle"]
    /\ recent = NoFailures
    /\ budget = FailureBudget

-----------------------------------------------------------------------------

\* No failure on record counts as elapsed (`Infinity` in the code).
ResetTimeoutElapsed == failureAge = None \/ failureAge = ResetTimeout

FailureWindowExpired == windowAge # None /\ windowAge = FailureWindow + 1

(***************************************************************************)
(* `execute` up to its await.  Finding the circuit OPEN with the reset     *)
(* timeout elapsed moves it to HALF_OPEN before the trial flag is looked   *)
(* at, so the transition stands even when this very call then fails fast   *)
(* because an older trial is still in flight.                              *)
(***************************************************************************)
HalfOpened == IF state = "OPEN" THEN "HALF_OPEN" ELSE state

\* Mutant: The trial flag is never looked at.
MutExecute(c) ==
    /\ call[c] = "idle"
    /\ state = "OPEN" => ResetTimeoutElapsed
    /\ state' = HalfOpened
    /\ successes' = IF state = "OPEN" THEN 0 ELSE successes
    /\ trialInFlight' = (trialInFlight \/ state # "CLOSED")
    /\ call' = [call EXCEPT ![c] = IF state = "CLOSED" THEN "plain" ELSE "trial"]
    /\ UNCHANGED <<failures, windowAge, failureAge, recent, budget>>

Execute(c) ==
    /\ call[c] = "idle"
    /\ state = "OPEN" => ResetTimeoutElapsed
    /\ state' = HalfOpened
    /\ successes' = IF state = "OPEN" THEN 0 ELSE successes
    /\ \/ /\ state = "CLOSED"
          /\ call' = [call EXCEPT ![c] = "plain"]
          /\ UNCHANGED trialInFlight
       \/ /\ state # "CLOSED"
          /\ ~trialInFlight
          /\ trialInFlight' = TRUE
          /\ call' = [call EXCEPT ![c] = "trial"]
       \/ /\ state # "CLOSED"
          /\ trialInFlight
          /\ UNCHANGED <<trialInFlight, call>>
    /\ UNCHANGED <<failures, windowAge, failureAge, recent, budget>>

\* Mutant: A trial does not lower the flag.
MutSettle(c) ==
    /\ call[c] # "idle"
    /\ call' = [call EXCEPT ![c] = "idle"]
    /\ UNCHANGED trialInFlight

\* The `finally` of execute: only a trial lowers the flag.
Settle(c) ==
    /\ call[c] # "idle"
    /\ call' = [call EXCEPT ![c] = "idle"]
    /\ trialInFlight' = (trialInFlight /\ call[c] # "trial")

\* Mutant: closing the circuit does not look at the success threshold first.
MutOnSuccess ==
    /\ successes' = IF state = "HALF_OPEN" THEN successes + 1 ELSE successes
    /\ UNCHANGED <<state, failures, windowAge, recent>>

\* onSuccess: it looks at the state now, not at the one the call started in.
OnSuccess ==
    \/ /\ state = "HALF_OPEN"
       /\ successes + 1 < SuccessThreshold
       /\ successes' = successes + 1
       /\ UNCHANGED <<state, failures, windowAge, recent>>
    \/ /\ state = "HALF_OPEN"
       /\ successes + 1 >= SuccessThreshold
       /\ state' = "CLOSED"
       /\ failures' = 0
       /\ successes' = 0
       /\ windowAge' = None
       /\ recent' = NoFailures
    \/ /\ state = "CLOSED"
       /\ failures' = IF FailureWindowExpired THEN 0 ELSE failures
       /\ windowAge' = IF FailureWindowExpired THEN None ELSE windowAge
       /\ UNCHANGED <<state, successes, recent>>
    \/ /\ state = "OPEN"
       /\ UNCHANGED <<state, failures, successes, windowAge, recent>>

Succeed(c) ==
    /\ Settle(c)
    /\ OnSuccess
    /\ UNCHANGED <<failureAge, budget>>

\* Mutant: An expired window does not start the count over.
MutCountedFailures == failures + 1

\* The failure count once this failure is in, and the window it is counted in.
CountedFailures ==
    IF windowAge = None \/ FailureWindowExpired THEN 1 ELSE failures + 1

OnFailure ==
    \/ /\ state = "HALF_OPEN"
       /\ state' = "OPEN"
       /\ successes' = 0
       /\ UNCHANGED <<failures, windowAge, recent>>
    \/ /\ state = "CLOSED"
       /\ failures' = CountedFailures
       /\ windowAge' = IF windowAge = None \/ FailureWindowExpired
                       THEN 0 ELSE windowAge
       /\ state' = IF CountedFailures >= FailureThreshold THEN "OPEN" ELSE state
       /\ recent' = [k \in 1..FailureThreshold |->
                       IF k = 1 THEN 0 ELSE recent[k - 1]]
       /\ UNCHANGED successes
    \/ /\ state = "OPEN"
       /\ UNCHANGED <<state, failures, successes, windowAge, recent>>

Fail(c) ==
    /\ budget > 0
    /\ budget' = budget - 1
    /\ Settle(c)
    /\ failureAge' = 0
    /\ OnFailure

\* The operator's manual reset.  It leaves trialInFlight alone: a trial that
\* is in flight lowers the flag itself.
Reset ==
    /\ state # "CLOSED" \/ failures # 0 \/ failureAge # None
    /\ state' = "CLOSED"
    /\ failures' = 0
    /\ successes' = 0
    /\ windowAge' = None
    /\ failureAge' = None
    /\ recent' = NoFailures
    /\ UNCHANGED <<trialInFlight, call, budget>>

Older(age, cap) == IF age = None \/ age = cap THEN age ELSE age + 1

\* Time passes.  A failure older than the window leaves the history.
Tick ==
    /\ windowAge' = Older(windowAge, FailureWindow + 1)
    /\ failureAge' = Older(failureAge, ResetTimeout)
    /\ recent' = [k \in 1..FailureThreshold |->
                    IF recent[k] = FailureWindow THEN None
                    ELSE Older(recent[k], FailureWindow)]
    /\ UNCHANGED <<state, failures, successes, trialInFlight, call, budget>>

Next ==
    \/ \E c \in Call : Execute(c) \/ Succeed(c) \/ Fail(c)
    \/ Reset
    \/ Tick

Spec == Init /\ [][Next]_vars

\* Time passes, callers keep calling, and a call in flight settles: its own
\* client times it out (callTimeout, or the request timeout of kafkajs).
Fairness ==
    /\ WF_vars(Tick)
    /\ \A c \in Call : WF_vars(Execute(c)) /\ WF_vars(Succeed(c) \/ Fail(c))

FairSpec == Spec /\ Fairness

-----------------------------------------------------------------------------

(***************************************************************************)
(* "HALF_OPEN: lets one trial request through at a time."  The flag is     *)
(* raised exactly while a trial is in flight, and no two trials ever are,  *)
(* however calls of older states settle and whatever Reset does between.   *)
(***************************************************************************)
OneTrialAtATime ==
    /\ trialInFlight <=> \E c \in Call : call[c] = "trial"
    /\ \A c, d \in Call : call[c] = "trial" /\ call[d] = "trial" => c = d

(***************************************************************************)
(* The circuit opens from CLOSED only on a real burst: at least            *)
(* FailureThreshold failures of this CLOSED period, all within one         *)
(* FailureWindow of each other.  Failures of an earlier period, or older   *)
(* than the window, never contribute.  The converse does not hold: the     *)
(* code counts in consecutive windows, and a burst that straddles the end  *)
(* of one is split.                                                        *)
(***************************************************************************)
OpensOnlyOnBurst ==
    [][state = "CLOSED" /\ state' = "OPEN"
        => recent'[FailureThreshold] # None]_vars

(***************************************************************************)
(* The inductive invariant behind OpensOnlyOnBurst: a CLOSED circuit is    *)
(* below its threshold, and while its window lasts every failure it counts *)
(* is in the history and no older than the window.                         *)
(***************************************************************************)
BelowThreshold == state = "CLOSED" => failures < FailureThreshold

WindowCovers ==
    state = "CLOSED" /\ windowAge \in 0..FailureWindow =>
        \A k \in 1..failures : recent[k] \in 0..windowAge

CountInv == TypeOK /\ BelowThreshold /\ WindowCovers

(***************************************************************************)
(* A dependency that stops failing gets its circuit closed again: the      *)
(* trial flag cannot stay raised for good and HALF_OPEN cannot be stuck.   *)
(***************************************************************************)
Recovers == <>[](state = "CLOSED")
=============================================================================
