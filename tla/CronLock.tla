------------------------------ MODULE CronLock ------------------------------
(***************************************************************************)
(* The lock one cron job is run under: cronjobs/locking/distributedLock.ts *)
(* on top of redisTryAcquireOrRenewLock and redisReleaseLock of            *)
(* connections/connectToRedis.ts, as jobRunner.ts uses it.                 *)
(*                                                                         *)
(* A client is a scheduler process that wants the lock of one job.  It     *)
(* picks Redis or Mongo when it acquires, keeps the lock alive from a      *)
(* timer while the handler runs, and releases it.  Every store operation   *)
(* is a call in flight: it takes effect at some moment after it was sent,  *)
(* its answer arrives at some later moment, either may be lost, and a      *)
(* Redis call the circuit breaker has given up on may still take effect.   *)
(*                                                                         *)
(* Time is discrete and relative: a store knows how long its lock has      *)
(* left, a call how long ago it was sent.  `late` counts the ticks that    *)
(* break the timing the lock is built on: a renewal timer that fires late, *)
(* a call slower than CallTimeout, two lost renewals in a row.             *)
(***************************************************************************)
EXTENDS Integers, FiniteSets

CONSTANTS
    Client,         \* the scheduler processes
    Serial,         \* what tells the tokens of one client apart
    Ttl,            \* lifetime of the lock (CRON.LOCK_TTL_MS)
    RenewEvery,     \* the renewal interval, a third of the TTL
    CallTimeout,    \* a call is answered, or given up on, within this time
    LateBudget,     \* bound: breaches of the timing assumptions
    FlipBudget,     \* bound: changes of isRedisConnected
    FaultBudget     \* bound: lost calls, lost answers, crashes and flips together

ASSUME TimingAssumption ==
    /\ {Ttl, RenewEvery, CallTimeout} \subseteq Nat \ {0}
    /\ CallTimeout < RenewEvery
    /\ 2 * RenewEvery + 2 * CallTimeout < Ttl

ASSUME BudgetAssumption == {LateBudget, FlipBudget, FaultBudget} \subseteq Nat

\* randomUUID() always has a value to give.
ASSUME SerialAssumption == Serial # {}

Store == {"redis", "mongo"}
Token == Client \X Serial       \* randomUUID(): never shared by two clients
None == <<>>                    \* no lock: the key or the document is absent

VARIABLES
    lock,       \* per store: the token of the lock and the time it has left
    connected,  \* per client: isRedisConnected()
    pc,         \* per client: idle, acquiring, held or releasing
    handle,     \* per client: the CronLockHandle of its latest acquire
    renewIn,    \* per client: time until the renewal timer fires
    missed,     \* per client: the latest renewal did not go through
    calls,      \* the store calls in flight
    late, flips, faults     \* how much of each budget is used

vars == <<lock, connected, pc, handle, renewIn, missed, calls, late, flips, faults>>

\* The oldest age that matters: later, a call is merely late.
MaxAge == CallTimeout + LateBudget

Handle == [store : Store, token : Token]
Call == [by : Client, store : Store, token : Token, age : 0..MaxAge, awaited : BOOLEAN,
         kind : {"acquire", "create", "renew", "release", "granted", "refused"}]

TypeOK ==
    /\ lock \in [Store -> [token : Token \cup {None}, left : (-MaxAge)..Ttl]]
    /\ connected \in [Client -> BOOLEAN]
    /\ pc \in [Client -> {"idle", "acquiring", "held", "releasing"}]
    /\ handle \in [Client -> Handle]
    /\ renewIn \in [Client -> 0..RenewEvery]
    /\ missed \in [Client -> BOOLEAN]
    /\ calls \subseteq Call
    /\ late \in 0..LateBudget
    /\ flips \in 0..FlipBudget
    /\ faults \in 0..FaultBudget

Absent == [token |-> None, left |-> 0]

Init ==
    /\ lock = [s \in Store |-> Absent]
    /\ connected \in {[c \in Client |-> up] : up \in BOOLEAN}
    /\ pc = [c \in Client |-> "idle"]
    /\ handle = [c \in Client |->
                    [store |-> "redis", token |-> <<c, CHOOSE n \in Serial : TRUE>>]]
    /\ renewIn = [c \in Client |-> 0]
    /\ missed = [c \in Client |-> FALSE]
    /\ calls = {}
    /\ late = 0 /\ flips = 0 /\ faults = 0

-----------------------------------------------------------------------------
(* The client: runOnce of the job runner around the lock's functions.      *)

Sent(c, h, kind) == [by |-> c, store |-> h.store, token |-> h.token, kind |-> kind,
                     age |-> 0, awaited |-> TRUE]

Unused(t) == /\ \A s \in Store : lock[s].token # t
             /\ \A m \in calls : m.token # t

\* acquireCronLock up to its first call.
Acquire(c) ==
    /\ pc[c] = "idle"
    /\ \E t \in {c} \X Serial :
          LET h == [store |-> IF connected[c] THEN "redis" ELSE "mongo", token |-> t]
          IN /\ Unused(t)
             /\ handle' = [handle EXCEPT ![c] = h]
             /\ calls' = calls \cup {Sent(c, h, "acquire")}
    /\ pc' = [pc EXCEPT ![c] = "acquiring"]
    /\ UNCHANGED <<lock, connected, renewIn, missed, late, flips, faults>>

\* The answer to the acquire: the handler starts, and the keep-alive timer.
Acquired(c) ==
    \E m \in calls :
        /\ m.by = c /\ m.kind \in {"granted", "refused"}
        /\ calls' = calls \ {m}
        /\ pc' = [pc EXCEPT ![c] = IF m.kind = "granted" THEN "held" ELSE "idle"]
        /\ renewIn' = [renewIn EXCEPT ![c] = RenewEvery]
        /\ missed' = [missed EXCEPT ![c] = FALSE]
        /\ UNCHANGED <<lock, connected, handle, late, flips, faults>>

\* A renewal that does not go through is logged and nothing else happens; the
\* second one in a row breaks the timing the TTL was chosen for.
Miss(c) ==
    /\ missed' = [missed EXCEPT ![c] = TRUE]
    /\ late' = IF missed[c] THEN late + 1 ELSE late
    /\ late' <= LateBudget

\* The timer of keepCronLockAlive.  Redis is not even called while the client
\* believes it is disconnected.
RenewTimer(c) ==
    /\ pc[c] = "held"
    /\ renewIn[c] = 0
    /\ renewIn' = [renewIn EXCEPT ![c] = RenewEvery]
    /\ \/ /\ handle[c].store = "redis" /\ ~connected[c]
          /\ Miss(c)
          /\ UNCHANGED calls
       \/ /\ handle[c].store = "redis" => connected[c]
          /\ calls' = calls \cup {Sent(c, handle[c], "renew")}
          /\ UNCHANGED <<missed, late>>
    /\ UNCHANGED <<lock, connected, pc, handle, flips, faults>>

\* Nobody waits any more for the calls of c.
Abandoned(c) == {IF m.by = c THEN [m EXCEPT !.awaited = FALSE] ELSE m : m \in calls}

\* The run is over: the timer stops and the lock is released.
Finish(c) ==
    /\ pc[c] = "held"
    /\ \/ /\ handle[c].store = "redis" /\ ~connected[c]
          /\ calls' = Abandoned(c)
          /\ pc' = [pc EXCEPT ![c] = "idle"]
       \/ /\ handle[c].store = "redis" => connected[c]
          /\ calls' = Abandoned(c) \cup {Sent(c, handle[c], "release")}
          /\ pc' = [pc EXCEPT ![c] = "releasing"]
    /\ UNCHANGED <<lock, connected, handle, renewIn, missed, late, flips, faults>>

-----------------------------------------------------------------------------
(* The stores.                                                             *)

Locked(m, left) == lock' = [lock EXCEPT ![m.store] = [token |-> m.token, left |-> left]]
Unlocked(s) == lock' = [lock EXCEPT ![s] = Absent]

\* What the call m reports to a client that still waits for it.
Answer(m, won) ==
    LET reply == [m EXCEPT !.kind = IF won THEN "granted" ELSE "refused"]
        first == m.kind \in {"acquire", "create"}
    IN /\ calls' = (calls \ {m}) \cup (IF first /\ m.awaited THEN {reply} ELSE {})
       /\ IF m.kind = "renew" /\ m.awaited
          THEN IF won THEN missed' = [missed EXCEPT ![m.by] = FALSE] /\ UNCHANGED late
               ELSE Miss(m.by)
          ELSE UNCHANGED <<missed, late>>
       /\ pc' = IF m.kind = "release" /\ m.awaited
                THEN [pc EXCEPT ![m.by] = "idle"] ELSE pc

\* Redis executes the calls of one connection in the order they were sent in.
InOrder(m) ==
    ~\E n \in calls :
        /\ n.by = m.by /\ n.store = "redis" /\ n.kind \in {"acquire", "renew", "release"}
        /\ \/ n.age > m.age
           \/ n.age = m.age /\ n.token = m.token /\ n.kind = "renew" /\ m.kind = "release"

\* Mutant: a plain SET, which overwrites the lock of another.
MutRedisSet(m) ==
    /\ m.store = "redis" /\ m.kind \in {"acquire", "renew"}
    /\ InOrder(m)
    /\ Locked(m, Ttl)
    /\ Answer(m, TRUE)

\* The Lua script shared by acquire and renew: set if unset or our own.
RedisSet(m) ==
    /\ m.store = "redis" /\ m.kind \in {"acquire", "renew"}
    /\ InOrder(m)
    /\ LET won == lock["redis"].token \in {None, m.token}
       IN /\ IF won THEN Locked(m, Ttl) ELSE UNCHANGED lock
          /\ Answer(m, won)

\* Mutant: the release does not compare the token.
MutRedisDel(m) ==
    /\ m.store = "redis" /\ m.kind = "release"
    /\ InOrder(m)
    /\ Unlocked("redis")
    /\ Answer(m, TRUE)

\* The Lua script of the release: delete if our own.
RedisDel(m) ==
    /\ m.store = "redis" /\ m.kind = "release"
    /\ InOrder(m)
    /\ IF lock["redis"].token = m.token THEN Unlocked("redis") ELSE UNCHANGED lock
    /\ Answer(m, TRUE)

\* Mutant: the cleanup does not look at expiresAt.
MutMongoPurge(m) ==
    /\ m.store = "mongo" /\ m.kind = "acquire"
    /\ Unlocked("mongo")
    /\ calls' = (calls \ {m}) \cup
                    (IF m.awaited THEN {[m EXCEPT !.kind = "create"]} ELSE {})
    /\ UNCHANGED <<pc, missed, late>>

\* Mutant: expired locks are left to the TTL index.
MutMongoPurgeNone(m) ==
    /\ m.store = "mongo" /\ m.kind = "acquire"
    /\ UNCHANGED lock
    /\ calls' = (calls \ {m}) \cup
                    (IF m.awaited THEN {[m EXCEPT !.kind = "create"]} ELSE {})
    /\ UNCHANGED <<pc, missed, late>>

\* The deleteMany: it removes a lock that had expired when the call was sent.
\* The client that waits for it goes on to the insert, with the same `now`.
MongoPurge(m) ==
    /\ m.store = "mongo" /\ m.kind = "acquire"
    /\ IF lock["mongo"].left + m.age <= 0 THEN Unlocked("mongo") ELSE UNCHANGED lock
    /\ calls' = (calls \ {m}) \cup
                    (IF m.awaited THEN {[m EXCEPT !.kind = "create"]} ELSE {})
    /\ UNCHANGED <<pc, missed, late>>

\* The insert, refused by the unique index while the key has a document.
\* Its expiry counts from the `now` read before the deleteMany.
MongoCreate(m) ==
    /\ m.kind = "create"
    /\ LET won == lock["mongo"].token = None
       IN /\ IF won THEN Locked(m, Ttl - m.age) ELSE UNCHANGED lock
          /\ Answer(m, won)

\* The updateOne of a renewal: it finds its document even when expired.
MongoTouch(m) ==
    /\ m.store = "mongo" /\ m.kind = "renew"
    /\ LET won == lock["mongo"].token = m.token
       IN /\ IF won THEN Locked(m, Ttl - m.age) ELSE UNCHANGED lock
          /\ Answer(m, won)

MongoDelete(m) ==
    /\ m.store = "mongo" /\ m.kind = "release"
    /\ IF lock["mongo"].token = m.token THEN Unlocked("mongo") ELSE UNCHANGED lock
    /\ Answer(m, TRUE)

Serve(c) ==
    /\ \E m \in calls :
          /\ m.by = c
          /\ \/ RedisSet(m) \/ RedisDel(m)
             \/ MongoPurge(m) \/ MongoCreate(m) \/ MongoTouch(m) \/ MongoDelete(m)
    /\ UNCHANGED <<connected, handle, renewIn, flips, faults>>

\* The TTL index of the collection removes an expired document at some point.
MongoExpire ==
    /\ lock["mongo"].token # None /\ lock["mongo"].left <= 0
    /\ Unlocked("mongo")
    /\ UNCHANGED <<connected, pc, handle, renewIn, missed, calls, late, flips, faults>>

-----------------------------------------------------------------------------
(* What goes wrong.                                                        *)

\* What a client does when the call it waits for fails: an acquire is taken
\* as refused, a renewal is only logged, a release is left to the TTL.
Failed(m) ==
    IF m.kind = "renew" THEN Miss(m.by) /\ UNCHANGED pc
    ELSE pc' = [pc EXCEPT ![m.by] = "idle"] /\ UNCHANGED <<missed, late>>

\* The connection breaks: the call never takes effect, or its answer is lost.
Lose(m) ==
    /\ calls' = calls \ {m}
    /\ IF m.awaited THEN faults' = faults + 1 /\ Failed(m)
                    ELSE UNCHANGED <<faults, pc, missed, late>>

\* The circuit breaker gives up on a slow Redis call, which may still be served.
GiveUp(m) ==
    /\ m.store = "redis" /\ m.awaited /\ m.age >= CallTimeout
    /\ calls' = (calls \ {m}) \cup (IF m.kind \in {"granted", "refused"} THEN {}
                                   ELSE {[m EXCEPT !.awaited = FALSE]})
    /\ faults' = faults + 1
    /\ Failed(m)

CallFails ==
    /\ \E m \in calls : Lose(m) \/ GiveUp(m)
    /\ faults' <= FaultBudget
    /\ UNCHANGED <<lock, connected, handle, renewIn, flips>>

\* The process dies and restarts; what it had sent may still take effect.
Crash(c) ==
    /\ pc[c] # "idle"
    /\ faults < FaultBudget
    /\ faults' = faults + 1
    /\ pc' = [pc EXCEPT ![c] = "idle"]
    /\ calls' = {m \in Abandoned(c) : m.awaited \/ m.kind \notin {"granted", "refused"}}
    /\ UNCHANGED <<lock, connected, handle, renewIn, missed, late, flips>>

\* The Redis connection of one client goes away or comes back.
Flip(c) ==
    /\ flips < FlipBudget /\ faults < FaultBudget
    /\ flips' = flips + 1 /\ faults' = faults + 1
    /\ connected' = [connected EXCEPT ![c] = ~@]
    /\ UNCHANGED <<lock, pc, handle, renewIn, missed, calls, late>>

\* No timer is overdue and no call has used up its time.
OnTime ==
    /\ \A c \in Client : pc[c] = "held" => renewIn[c] > 0
    /\ \A m \in calls : m.awaited => m.age < CallTimeout

\* An expired Redis key is gone; an expired document stays until removed.
Elapsed(s) ==
    IF lock[s].token = None \/ (s = "redis" /\ lock[s].left = 1) THEN Absent
    ELSE IF lock[s].left = -MaxAge THEN lock[s]
    ELSE [lock[s] EXCEPT !.left = @ - 1]

Tick ==
    /\ late' = IF OnTime THEN late ELSE late + 1
    /\ late' <= LateBudget
    /\ lock' = [s \in Store |-> Elapsed(s)]
    /\ renewIn' = [c \in Client |-> IF renewIn[c] = 0 THEN 0 ELSE renewIn[c] - 1]
    /\ calls' = {[m EXCEPT !.age = IF @ = MaxAge THEN @ ELSE @ + 1] : m \in calls}
    /\ UNCHANGED <<connected, pc, handle, missed, flips, faults>>

Next ==
    \/ \E c \in Client : \/ Acquire(c) \/ Acquired(c) \/ RenewTimer(c) \/ Finish(c)
                         \/ Serve(c) \/ Crash(c) \/ Flip(c)
    \/ MongoExpire
    \/ CallFails
    \/ Tick

Spec == Init /\ [][Next]_vars

\* Clients keep trying, timers fire, stores serve and time passes.  Nothing is
\* asked of the TTL index, which removes documents only once a minute.
Fairness ==
    /\ WF_vars(Tick)
    /\ \A c \in Client : /\ WF_vars(Acquire(c)) /\ WF_vars(Acquired(c))
                         /\ WF_vars(RenewTimer(c)) /\ WF_vars(Serve(c))

FairSpec == Spec /\ Fairness

-----------------------------------------------------------------------------

Holders == {c \in Client : pc[c] = "held"}

(***************************************************************************)
(* "A refusal from Redis means another instance holds the lock", and so    *)
(* does one from Mongo: while the timing assumptions hold no two processes *)
(* run the job at once, whatever calls and answers were lost, delayed or   *)
(* left over from a crash.  A client that changes stores can only lose     *)
(* this towards clients that use the other store.                          *)
(***************************************************************************)
Exclusive ==
    late = 0 => \A c, d \in Holders :
                   c = d \/ (flips > 0 /\ handle[c].store # handle[d].store)

\* The same, on states of the right type only.
SafelyHeld == TypeOK /\ Exclusive

(***************************************************************************)
(* Without such breaches (LateBudget and FlipBudget 0) the lock is the     *)
(* lease its callers rely on: a process enters only while nobody is inside.*)
(***************************************************************************)
Promise == INSTANCE Lease WITH holders <- Holders

ImplementsLease == Promise!Spec

(***************************************************************************)
(* A lock that has not expired is never taken from a process that still    *)
(* holds it, even after others have lapsed: a late release, renewal or     *)
(* cleanup of theirs finds a token that is not its own.                    *)
(***************************************************************************)
NeverTaken ==
    [][\A c \in Client :
          LET s == handle[c].store IN
          /\ pc[c] = "held" /\ pc'[c] = "held"
          /\ lock[s].token = handle[c].token /\ lock[s].left > 1
          => lock'[s].token = handle[c].token]_vars

(***************************************************************************)
(* The lock is never lost for good: whatever crashed or went unanswered,   *)
(* some process gets it again.                                             *)
(***************************************************************************)
Available == []<>(Holders # {})
=============================================================================
