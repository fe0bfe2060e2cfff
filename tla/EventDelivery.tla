--------------------------- MODULE EventDelivery ---------------------------
(***************************************************************************)
(* How an event travels: the caller publishes it or, failing that, handles *)
(* it itself; a consumer group handles it, retries it and gives it up to   *)
(* the dead-letter topic; a replay sends dead letters back.                *)
(*                                                                         *)
(* One topic with one partition, one group, and the dead-letter topic of   *)
(* the topic.  A send may fail before or after the broker has stored the   *)
(* message, and nobody can tell.  The breaker around each send is the one  *)
(* CircuitBreaker models: here it may be open after any failed send.       *)
(* Timers have no clock: a pause ends, a time-out strikes, at some time.   *)
(* The broker and the client library are external: a group's committed     *)
(* offset says where a new member starts, and a member fetches on from     *)
(* what it has resolved, whatever it has committed.                        *)
(***************************************************************************)
EXTENDS Naturals, Sequences

CONSTANTS
    Event,
    Consumer,       \* the processes of the consumer group
    Replayer,       \* the replays, numbered in the order in which they take the lock
    None,
    MaxSends,       \* KAFKA.PRODUCER_MAX_RETRIES
    MaxTries,       \* KAFKA.CONSUMER_MAX_RETRIES
    BatchSize,      \* how many dead letters a fetch returns
    FirstCommit,    \* the offset the group has committed at the start; None for a new group
    MaxLog,         \* a replay fetches no batch once the topic is as long as this
    Budgets         \* who takes part in a behaviour, and how much of each kind of trouble it may hold

ASSUME ReplayerAssumption == Replayer \subseteq Nat
ASSUME LimitsAssumption ==
    MaxSends \in Nat \ {0} /\ MaxTries \in Nat \ {0} /\ BatchSize \in Nat \ {0} /\ MaxLog \in Nat
ASSUME GroupAssumption == FirstCommit \in {0, None} /\ None \notin Nat \union Consumer
ASSUME BudgetAssumption ==
    Budgets \subseteq [actors : SUBSET (Event \union Consumer),
                       sends : Nat, failures : Nat, crashes : Nat, moves : Nat, replays : Nat, resends : Nat]

VARIABLES
    log,        \* the topic: the events stored, an event's offset is its place less one
    dlq,        \* the dead-letter topic: for each letter, the offset of the message
    sends,      \* failed sends of the publish under way, of a caller, consumer or replayer
    caller,     \* how far the caller of each event is
    owner,      \* the member the partition is assigned to
    position,   \* the offset each member fetches next
    work,       \* what each member is doing with the message at its position
    attempts,   \* failed attempts by offset, in the memory of each member
    resolved,   \* members that have resolved an offset and not committed it
    paused,     \* members that have paused the partition
    committed,  \* the committed offset of the group
    handled,    \* events somebody has handled
    failed,     \* how often an offset has failed, by all members together
    replay,     \* how far each replay is
    lock,       \* the Redis lock of the replay
    member,     \* the replayer that is in the replay group
    replayed,   \* the committed offset of the replay group
    budget

topics == <<log, dlq, sends>>
group == <<owner, position, resolved, work, attempts, paused, committed>>
replaying == <<replay, lock, member, replayed>>
vars == <<topics, caller, group, handled, failed, replaying, budget>>

Sender == Event \union Consumer \union Replayer
Idle == [phase |-> "idle", dry |-> FALSE, over |-> FALSE, end |-> 0, from |-> 0, last |-> 0, next |-> 0]

Init ==
    /\ log = <<>> /\ dlq = <<>> /\ sends = [s \in Sender |-> 0]
    /\ caller = [e \in Event |-> "new"]
    /\ owner = None /\ position = [c \in Consumer |-> 0]
    /\ work = [c \in Consumer |-> "idle"] /\ resolved = {} /\ paused = {}
    /\ attempts = [c \in Consumer |-> <<>>]
    /\ committed = FirstCommit
    /\ handled = {} /\ failed = <<>>
    /\ replay = [r \in Replayer |-> [Idle EXCEPT !.phase = "new"]] /\ lock = None /\ member = None /\ replayed = 0
    /\ budget \in Budgets

\* One more trouble of a kind.
Spend(kind) == budget[kind] > 0 /\ budget' = [budget EXCEPT ![kind] = @ - 1]

\* A count by offset, 0 where nothing is counted.
Count(counts, offset) == IF offset \in DOMAIN counts THEN counts[offset] ELSE 0
Counted(counts, offset, n) ==
    [o \in DOMAIN counts \union {offset} |-> IF o = offset THEN n ELSE counts[o]]
Cleared(counts, offset) == [o \in DOMAIN counts \ {offset} |-> counts[o]]

-----------------------------------------------------------------------------
(* publishWithRetry, one attempt at a time.                                *)

\* The send is acknowledged.
SendOk(s) == sends' = [sends EXCEPT ![s] = 0] /\ UNCHANGED budget

\* The send fails, and is tried again or given up: after the last attempt, or because the
\* breaker is open.
SendFails(s, givesUp) ==
    /\ Spend(IF s \in Replayer THEN "resends" ELSE "sends")
    /\ sends[s] + 1 >= MaxSends => givesUp
    /\ sends' = [sends EXCEPT ![s] = IF givesUp THEN 0 ELSE @ + 1]

\* Whether a failed send has reached the broker.
Reaches(topic, message) == topic' = Append(topic, message) \/ UNCHANGED topic

-----------------------------------------------------------------------------
(* The caller of publishEvent.                                             *)

Reach(e, phase) == caller' = [caller EXCEPT ![e] = phase]

\* Kafka is disabled or disconnected.
CannotPublish(e) ==
    /\ caller[e] = "new" /\ e \in budget.actors
    /\ Reach(e, "direct")
    /\ UNCHANGED <<topics, group, handled, failed, replaying, budget>>

PublishEvent(e) ==
    /\ caller[e] \in {"new", "sending"} /\ e \in budget.actors
    /\ \/ SendOk(e) /\ log' = Append(log, e) /\ Reach(e, "published")
       \/ \E givesUp \in BOOLEAN :
             /\ SendFails(e, givesUp) /\ Reaches(log, e)
             /\ Reach(e, IF givesUp THEN "direct" ELSE "sending")
    /\ UNCHANGED <<dlq, group, handled, failed, replaying>>

\* Told false, the caller handles the event itself, once.
HandleDirectly(e) ==
    /\ caller[e] = "direct"
    /\ Reach(e, "done")
    /\ \/ handled' = handled \union {e} /\ UNCHANGED budget
       \/ Spend("failures") /\ UNCHANGED handled
    /\ UNCHANGED <<topics, group, failed, replaying>>

CallerCrashes(e) ==
    /\ caller[e] \in {"sending", "direct"} /\ Spend("crashes")
    /\ Reach(e, "done")
    /\ UNCHANGED <<topics, group, handled, failed, replaying>>

-----------------------------------------------------------------------------
(* The consumer group.                                                     *)

\* `${partition}:${message.offset}`
AttemptKey(c) == position[c]

\* The group assigns the partition to c; a member that is handling a message joins later.
GroupJoin(c) ==
    /\ owner # c /\ work[c] = "idle" /\ c \in budget.actors
    /\ IF owner = None THEN UNCHANGED budget ELSE Spend("moves")
    /\ owner' = c
    /\ position' = [position EXCEPT ![c] = IF committed = None THEN Len(log) ELSE committed]
    /\ resolved' = resolved \ {c}
    /\ UNCHANGED <<topics, caller, work, attempts, paused, committed, handled, failed, replaying>>

Deliver(c) ==
    /\ owner = c /\ c \notin paused
    /\ work[c] = "idle" /\ position[c] < Len(log)
    /\ work' = [work EXCEPT ![c] = "executing"]
    /\ UNCHANGED <<topics, caller, owner, position, resolved, attempts, paused, committed, handled,
                   failed, replaying, budget>>

\* The handler returns: the offset is resolved.  A member that has lost the partition
\* resolves it for nothing.
Resolve(c) ==
    /\ attempts' = [attempts EXCEPT ![c] = Cleared(@, AttemptKey(c))]
    /\ work' = [work EXCEPT ![c] = "idle"]
    /\ position' = [position EXCEPT ![c] = @ + 1]
    /\ resolved' = resolved \union {c}
    /\ UNCHANGED <<owner, paused, committed>>

\* The handler throws: the partition pauses and the offset is delivered again.
Rethrow(c, attempt) ==
    /\ attempts' = [attempts EXCEPT ![c] = Counted(@, AttemptKey(c), attempt)]
    /\ work' = [work EXCEPT ![c] = "idle"]
    /\ paused' = paused \union {c}
    /\ UNCHANGED <<owner, position, resolved, committed>>

ExecuteSucceeds(c) ==
    /\ work[c] = "executing"
    /\ handled' = handled \union {log[position[c] + 1]}
    /\ Resolve(c)
    /\ UNCHANGED <<topics, caller, failed, replaying, budget>>

ExecuteFails(c) ==
    LET attempt == Count(attempts[c], AttemptKey(c)) + 1
    IN /\ work[c] = "executing" /\ Spend("failures")
       /\ failed' = Counted(failed, position[c], Count(failed, position[c]) + 1)
       /\ IF attempt >= MaxTries
          THEN work' = [work EXCEPT ![c] = "lettering"]
               /\ UNCHANGED <<owner, position, resolved, attempts, paused, committed>>
          ELSE Rethrow(c, attempt)
       /\ UNCHANGED <<topics, caller, handled, replaying>>

\* MUTANT: the message counts as done though the dead-letter topic could not be reached.
MutLetterUnsent(c) == Resolve(c)

\* The dead-letter topic cannot be reached.
LetterUnsent(c) == Rethrow(c, Count(attempts[c], AttemptKey(c)) + 1)

SendToDeadLetterQueue(c) ==
    /\ work[c] = "lettering"
    /\ \/ SendOk(c) /\ dlq' = Append(dlq, position[c]) /\ Resolve(c)
       \/ \E givesUp \in BOOLEAN :
             /\ SendFails(c, givesUp) /\ Reaches(dlq, position[c])
             /\ IF givesUp THEN LetterUnsent(c) ELSE UNCHANGED group
    /\ UNCHANGED <<log, caller, handled, failed, replaying>>

Resume(c) ==
    /\ c \in paused
    /\ paused' = paused \ {c}
    /\ UNCHANGED <<topics, caller, owner, position, resolved, work, attempts, committed, handled,
                   failed, replaying, budget>>

\* What is resolved is committed some time later.
AutoCommit(c) ==
    /\ owner = c /\ c \in resolved
    /\ committed' = position[c] /\ resolved' = resolved \ {c}
    /\ UNCHANGED <<topics, caller, owner, position, work, attempts, paused, handled, failed,
                   replaying, budget>>

\* The process of a member is gone, and its memory with it.
ConsumerCrashes(c) ==
    /\ owner = c \/ work[c] # "idle" \/ attempts[c] # <<>>
    /\ Spend("crashes")
    /\ owner' = IF owner = c THEN None ELSE owner
    /\ work' = [work EXCEPT ![c] = "idle"]
    /\ attempts' = [attempts EXCEPT ![c] = <<>>]
    /\ paused' = paused \ {c} /\ resolved' = resolved \ {c}
    /\ sends' = [sends EXCEPT ![c] = 0]
    /\ UNCHANGED <<log, dlq, caller, position, committed, handled, failed, replaying>>

-----------------------------------------------------------------------------
(* replayDeadLetters                                                       *)

Update(r, state) == replay' = [replay EXCEPT ![r] = state]

\* redisTryAcquireOrRenewLock
AcquireLock(r) ==
    /\ replay[r].phase = "new" /\ \A q \in Replayer : q < r => replay[q].phase # "new"
    /\ lock = None /\ Spend("replays")
    /\ lock' = r
    /\ \E dry \in BOOLEAN : Update(r, [Idle EXCEPT !.phase = "locked", !.dry = dry])
    /\ UNCHANGED <<topics, caller, group, handled, failed, member, replayed>>

\* The end of the replay: the group is left and the lock released, unless Redis is gone.
Release(r) ==
    /\ Update(r, Idle)
    /\ \/ lock' = (IF lock = r THEN None ELSE lock) /\ UNCHANGED budget
       \/ lock = r /\ UNCHANGED lock /\ Spend("crashes")
    /\ member' = IF member = r THEN None ELSE member

\* The end of the dead-letter topic when the replay starts.
End == Len(dlq)

\* Nothing pending, or a range that is fixed from here on.
GetPendingRanges(r) ==
    /\ replay[r].phase = "locked"
    /\ IF replayed >= Len(dlq) THEN Release(r)
       ELSE Update(r, [replay[r] EXCEPT !.phase = "joining", !.end = End]) /\ UNCHANGED <<lock, member, budget>>
    /\ UNCHANGED <<topics, caller, group, handled, failed, replayed>>

\* The replay group has one member with a say: the one that joined last.
JoinReplayGroup(r) ==
    /\ replay[r].phase = "joining" /\ ~replay[r].over
    /\ Update(r, [replay[r] EXCEPT !.phase = "fetching", !.from = replayed])
    /\ member' = r
    /\ UNCHANGED <<topics, caller, group, handled, failed, lock, replayed, budget>>

\* A batch starts at the first letter not resolved.  The replay resolves none, so it is
\* the one it started with.
FetchBatch(r) ==
    LET s == replay[r]
        last == IF s.from + BatchSize < Len(dlq) THEN s.from + BatchSize ELSE Len(dlq)
    IN /\ s.phase = "fetching" /\ ~s.over /\ s.from < s.end
       /\ Len(log) < MaxLog
       /\ Update(r, [s EXCEPT !.phase = "batch", !.next = s.from,
                              !.last = IF last < s.end THEN last ELSE s.end])
       /\ UNCHANGED <<topics, caller, group, handled, failed, lock, member, replayed, budget>>

\* A letter of the batch is sent back, or only listed.
Resend(r) ==
    LET s == replay[r]
        done == [s EXCEPT !.next = @ + 1]
        message == log[dlq[s.next + 1] + 1]
    IN /\ s.phase = "batch" /\ s.next < s.last
       /\ \/ s.dry /\ Update(r, done) /\ UNCHANGED <<log, sends, budget>>
          \/ ~s.dry /\ SendOk(r) /\ log' = Append(log, message) /\ Update(r, done)
          \/ \E givesUp \in BOOLEAN :
                /\ ~s.dry /\ SendFails(r, givesUp) /\ Reaches(log, message)
                /\ Update(r, IF givesUp THEN [s EXCEPT !.phase = "committing", !.over = TRUE] ELSE s)
       /\ UNCHANGED <<dlq, caller, group, handled, failed, lock, member, replayed>>

\* MUTANT: the whole batch is committed.
MutLastReplayed(r) == replay[r].last

\* The offset after the last letter that was sent back.
LastReplayed(r) == replay[r].next

\* The finally block: what was sent back is committed, and the replay ends, or goes on
\* with another batch.  A commit that is refused takes the member back to the group.
CommitReplayed(r) ==
    LET s == replay[r]
        refused == [s EXCEPT !.phase = "joining"]
        complete == s.over \/ s.next >= s.end
    IN /\ s.phase = "committing" \/ (s.phase = "batch" /\ s.next = s.last)
       /\ \/ /\ s.dry \/ s.next = s.from
             /\ Update(r, [s EXCEPT !.phase = "fetching", !.over = complete])
             /\ UNCHANGED <<replayed, budget>>
          \/ /\ ~s.dry /\ s.next > s.from /\ member = r
             /\ replayed' = LastReplayed(r)
             /\ Update(r, [s EXCEPT !.phase = "fetching", !.over = complete])
             /\ UNCHANGED budget
          \/ /\ ~s.dry /\ s.next > s.from
             /\ IF member = r THEN Spend("resends") ELSE UNCHANGED budget
             /\ Update(r, refused) /\ UNCHANGED replayed
       /\ UNCHANGED <<topics, caller, group, handled, failed, lock, member>>

\* MUTANT: the replay has no time-out.
MutTimeOut(r) == FALSE /\ UNCHANGED vars

\* The time-out rejects the replay; a batch it is working on goes on.
TimeOut(r) ==
    /\ replay[r].phase \in {"joining", "fetching", "batch", "committing"} /\ ~replay[r].over
    /\ Update(r, [replay[r] EXCEPT !.over = TRUE])
    /\ UNCHANGED <<topics, caller, group, handled, failed, lock, member, replayed, budget>>

\* The consumer is released once its batch is through.
FinishReplay(r) ==
    /\ replay[r].over /\ replay[r].phase \in {"joining", "fetching"}
    /\ Release(r)
    /\ UNCHANGED <<topics, caller, group, handled, failed, replayed>>

\* The TTL of the lock counts from when it was taken and is never renewed, the time-out from
\* when the consumer runs: the lock may expire under a replay, whatever that is doing.
LockExpires(r) ==
    /\ lock = r
    /\ lock' = None
    /\ UNCHANGED <<topics, caller, group, handled, failed, replay, member, replayed, budget>>

ReplayCrashes(r) ==
    /\ replay[r].phase \notin {"new", "idle"} /\ Spend("crashes")
    /\ Update(r, Idle)
    /\ member' = IF member = r THEN None ELSE member
    /\ sends' = [sends EXCEPT ![r] = 0]
    /\ UNCHANGED <<log, dlq, caller, group, handled, failed, lock, replayed>>

-----------------------------------------------------------------------------

CallerStep(e) == CannotPublish(e) \/ PublishEvent(e) \/ HandleDirectly(e)

ConsumerStep(c) ==
    \/ Deliver(c) \/ ExecuteSucceeds(c) \/ ExecuteFails(c) \/ SendToDeadLetterQueue(c)
    \/ Resume(c)

ReplayStep(r) ==
    \/ GetPendingRanges(r) \/ JoinReplayGroup(r) \/ FetchBatch(r) \/ Resend(r)
    \/ CommitReplayed(r) \/ FinishReplay(r)

Next ==
    \/ \E e \in Event : CallerStep(e) \/ CallerCrashes(e)
    \/ \E c \in Consumer : \/ ConsumerStep(c) \/ GroupJoin(c) \/ AutoCommit(c) \/ ConsumerCrashes(c)
    \/ \E r \in Replayer : \/ ReplayStep(r) \/ AcquireLock(r) \/ TimeOut(r) \/ LockExpires(r)
                           \/ ReplayCrashes(r)

Spec == Init /\ [][Next]_vars

\* Members run, rejoin and commit, timers strike, and what a replay asks of the broker or
\* of Redis is answered.  Nobody has to publish or replay, and a replay may wait for its
\* group or for a batch for ever.
FairSpec ==
    /\ Spec
    /\ WF_vars(\E c \in Consumer : owner = None /\ GroupJoin(c))
    /\ \A c \in Consumer : WF_vars(ConsumerStep(c)) /\ WF_vars(AutoCommit(c))
    /\ \A r \in Replayer :
          /\ WF_vars(GetPendingRanges(r) \/ Resend(r) \/ CommitReplayed(r) \/ FinishReplay(r))
          /\ WF_vars(TimeOut(r)) /\ WF_vars(LockExpires(r))

-----------------------------------------------------------------------------
(* Properties.                                                             *)

Offset == 0 .. Len(log)

TypeOK ==
    /\ \A i \in DOMAIN log : log[i] \in Event
    /\ \A j \in DOMAIN dlq : dlq[j] + 1 \in DOMAIN log
    /\ sends \in [Sender -> 0 .. MaxSends - 1]
    /\ caller \in [Event -> {"new", "sending", "published", "direct", "done"}]
    /\ owner \in Consumer \union {None} /\ position \in [Consumer -> Offset]
    /\ work \in [Consumer -> {"idle", "executing", "lettering"}] /\ paused \subseteq Consumer /\ resolved \subseteq Consumer
    /\ \A c \in Consumer : DOMAIN attempts[c] \subseteq Offset
    /\ committed \in Offset \union {None} /\ handled \subseteq Event
    /\ lock \in Replayer \union {None} /\ member \in Replayer \union {None}
    /\ replayed \in 0 .. Len(dlq)
    /\ \A r \in Replayer : replay[r].next <= replay[r].end /\ replay[r].end <= Len(dlq)

\* A message still to be delivered, and a letter still to be replayed.
Pending(e) == \E i \in DOMAIN log : log[i] = e /\ (committed = None \/ i > committed)
Parked(e) == \E j \in DOMAIN dlq : log[dlq[j] + 1] = e /\ j > replayed

\* An event that Kafka has and nobody has handled is in a topic, ahead of what its readers
\* have committed: no retry, rebalance, crash, full dead-letter topic or replay loses it.
NothingLost ==
    \A i \in DOMAIN log : log[i] \in handled \/ Pending(log[i]) \/ Parked(log[i])

\* A message is given up only after it has failed as often as it may, whatever the
\* rebalances between: they grant further attempts and never take one away.
LettersEarned == \A j \in DOMAIN dlq : Count(failed, dlq[j]) >= MaxTries

\* Every event Kafka has is accounted for, and only what has failed is parked.
Accounted == TypeOK /\ NothingLost /\ LettersEarned

\* A replay that has started ends and leaves no lock behind, though its group may never take
\* it in, its batches may never come and its commits may be refused: the time-out of
\* replayDeadLetters ends it, and the batch it is working on is the last.
Running(r) == replay[r].phase \notin {"new", "idle"}
ReplayEnds == \A r \in Replayer : Running(r) ~> (~Running(r) /\ lock # r)

\* What the callers rely on: at least once, or parked.
Status(e) ==
    IF e \in handled THEN "handled"
    ELSE IF Pending(e) THEN "owed"
    ELSE IF Parked(e) THEN "parked"
    ELSE IF \E i \in DOMAIN log : log[i] = e THEN "lost"
    ELSE "new"

Promise == INSTANCE AtLeastOnce WITH status <- [e \in Event |-> Status(e)]
Promised == Promise!Spec
=============================================================================
