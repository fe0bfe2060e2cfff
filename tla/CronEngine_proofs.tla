------------------------- MODULE CronEngine_proofs -------------------------
(***************************************************************************)
(* Proofs about CronEngine, for any number of processes, jobs, companies   *)
(* and units of time: the types, the limits on concurrency, the lock that  *)
(* a run holds and the bound on attempts.  As long as the closing writes   *)
(* of a run are no slower than its retry: no occurrence of a schedule is   *)
(* claimed twice, none is forgotten, and a paused job is not claimed.  As  *)
(* long as they are no slower than the grace of self-heal: the outcome of  *)
(* an execution is final.                                                  *)
(***************************************************************************)
EXTENDS CronEngine, FiniteSetTheorems, SequenceTheorems, TLAPS

-----------------------------------------------------------------------------
(* The schedule.                                                           *)

\* A period divides time: every moment is in exactly one period.
LEMMA Division ==
    ASSUME NEW p \in Nat \ {0}, NEW t \in Nat
    PROVE  /\ t \div p \in Nat
           /\ p * (t \div p) <= t
           /\ t < p * (t \div p) + p
           /\ t % p = t - p * (t \div p)
OBVIOUS

\* A larger factor makes a larger product.
LEMMA Products ==
    ASSUME NEW p \in Nat, NEW a \in Nat, NEW b \in Nat, a <= b
    PROVE  p * a <= p * b
OBVIOUS

NextVal == [at : Nat, src : {"none", "schedule", "retry", "manual"}]

\* computeNextRunAt: the next occurrence is later than t, and no occurrence is between them.
LEMMA NextOccurrence ==
    ASSUME NEW j \in Job, NEW t \in Nat
    PROVE  /\ NextRunAt(j, t) \in NextVal
           /\ NextRunAt(j, t) # NoNext
           /\ NextRunAt(j, t).src = "schedule"
           /\ NextRunAt(j, t).at > t
           /\ \A o \in Nat : o % Period[j] = 0 /\ o < NextRunAt(j, t).at => o <= t
<1> DEFINE p == Period[j]
           n == NextRunAt(j, t).at
<1>1. p \in Nat \ {0} BY ScheduleAssumption
<1> HIDE DEF p
<1>2. n = (t \div p + 1) * p BY DEF NextRunAt, p
<1> HIDE DEF n
<1>3. t \div p \in Nat /\ p * (t \div p) <= t /\ t < p * (t \div p) + p BY <1>1, Division
<1>4. n = p * (t \div p) + p BY <1>1, <1>2, <1>3
<1>5. n \in Nat /\ n > t BY <1>1, <1>3, <1>4
<1>6. ASSUME NEW o \in Nat, o % p = 0, o < n PROVE o <= t
  <2>1. o \div p \in Nat /\ o = p * (o \div p)
    <3>1. o \div p \in Nat /\ o % p = o - p * (o \div p) BY <1>1, Division
    <3> DEFINE q == p * (o \div p)
    <3>2. q \in Nat BY <1>1, <3>1
    <3>3. o % p = o - q BY <3>1
    <3> HIDE DEF q
    <3>4. o = q BY <3>2, <3>3, <1>6
    <3> QED BY <3>1, <3>4 DEF q
  <2>2. o \div p <= t \div p
    <3> SUFFICES ASSUME t \div p + 1 <= o \div p PROVE FALSE BY <1>3, <2>1
    <3>1. p * (t \div p + 1) <= p * (o \div p) BY <1>1, <1>3, <2>1, Products
    <3>2. p * (t \div p + 1) = n BY <1>1, <1>2, <1>3
    <3> QED BY <3>1, <3>2, <2>1, <1>5, <1>6
  <2>3. p * (o \div p) <= p * (t \div p) BY <1>1, <1>3, <2>1, <2>2, Products
  <2> QED BY <2>1, <2>3, <1>1, <1>3
<1>7. NextRunAt(j, t) = [at |-> n, src |-> "schedule"] BY DEF NextRunAt, n
<1> QED BY <1>5, <1>6, <1>7 DEF NextVal, NoNext, n, p

-----------------------------------------------------------------------------
(* The types.                                                              *)

JobRow == [active : BOOLEAN, timeout : Nat, next : NextVal]

\* A due row as the scheduler read it.
RowRec == [job : Job, priority : Nat, next : NextVal, timeout : Nat]

Pcs == {"idle", "acquire", "find", "claim", "start", "stuck", "close", "bare", "reschedule"}

EngRec == [pc : Pcs, leader : BOOLEAN, at : Nat, batch : SUBSET RowRec,
           picked : RowRec \cup {NoPick}, owed : 0..CatchUpMax, lastHeal : Int,
           stuck : SUBSET (Job \X (1..MaxExecs)), bare : SUBSET Job]

Phases == {"none", "lock", "read", "create", "handler", "record", "update", "release"}

RunRec == [phase : Phases, left : Nat, attempt : Nat, exec : Nat,
           outcome : {"none", "success", "failed", "timeout"},
           deadline : Nat, retryAt : NextVal, timeout : Nat]

Holder == Server \cup {Nobody, Dead}

JobTypes == /\ now \in Time
            /\ job \in [Job -> JobRow]
            /\ asked \subseteq Job
            /\ claims \in [Job -> [Time -> Nat]]

ServerTypes == /\ server \in [Server -> {"up", "stopping", "released", "down"}]
               /\ leaderLock \in Holder
               /\ jobLock \in [Job -> Holder]

EngTypes == eng \in [Server -> EngRec]

RunTypes == /\ run \in [Server -> [Job -> RunRec]]
            /\ perCompany \in [Server -> [Company -> Nat]]

ExecTypes == execs \in [Job -> Seq(Exec)]

Types == JobTypes /\ ServerTypes /\ EngTypes /\ RunTypes /\ ExecTypes

\* The engine of s becomes e, and no other engine moves.
EngPut(s, e) == /\ eng' \in [Server -> EngRec]
                /\ eng'[s] = e
                /\ \A r \in Server : r # s => eng'[r] = eng[r]

\* The run of j in s becomes t, and no other run moves.
RunPut(s, j, t) == /\ run' \in [Server -> [Job -> RunRec]]
                   /\ run'[s][j] = t
                   /\ \A r \in Server, i \in Job : r # s \/ i # j => run'[r][i] = run[r][i]

\* A run in another phase is otherwise the run it was.
LEMMA OtherPhase ==
    ASSUME NEW r \in RunRec, NEW p \in Phases
    PROVE  LET t == [r EXCEPT !.phase = p]
           IN /\ t \in RunRec /\ t.phase = p
              /\ t.left = r.left /\ t.attempt = r.attempt /\ t.exec = r.exec
              /\ t.outcome = r.outcome /\ t.deadline = r.deadline
              /\ t.retryAt = r.retryAt /\ t.timeout = r.timeout
BY DEF RunRec

\* Writing a record over an engine.
LEMMA PuttingEng ==
    ASSUME EngTypes, NEW s \in Server, NEW e \in EngRec, eng' = [eng EXCEPT ![s] = e]
    PROVE  EngPut(s, e)
BY DEF EngTypes, EngPut

\* Moving an engine on.
LEMMA PuttingPc ==
    ASSUME EngTypes, NEW s \in Server, NEW pc \in Pcs, eng' = [eng EXCEPT ![s].pc = pc]
    PROVE  EngPut(s, [eng[s] EXCEPT !.pc = pc])
<1> DEFINE e == [eng[s] EXCEPT !.pc = pc]
<1>1. e \in EngRec BY DEF EngTypes, EngRec
<1>2. eng'[s] = e BY DEF EngTypes
<1> QED BY <1>1, <1>2 DEF EngTypes, EngPut

\* Writing a record over a run.
LEMMA PuttingRun ==
    ASSUME RunTypes, NEW s \in Server, NEW j \in Job, NEW t \in RunRec,
           run' = [run EXCEPT ![s][j] = t]
    PROVE  RunPut(s, j, t)
BY DEF RunTypes, RunPut

\* Moving a run on.
LEMMA PuttingPhase ==
    ASSUME RunTypes, NEW s \in Server, NEW j \in Job, NEW p \in Phases,
           run' = [run EXCEPT ![s][j].phase = p]
    PROVE  RunPut(s, j, [run[s][j] EXCEPT !.phase = p])
<1> DEFINE t == [run[s][j] EXCEPT !.phase = p]
<1>1. t \in RunRec
  <2>1. run[s][j] \in RunRec BY DEF RunTypes
  <2> QED BY <2>1, OtherPhase
<1>2. run'[s][j] = t BY DEF RunTypes
<1> QED BY <1>1, <1>2 DEF RunTypes, RunPut

-----------------------------------------------------------------------------
(* The engine of a process.                                                *)

IsEng(e, pc, at, batch, picked, stuck, bare) ==
    /\ e \in EngRec
    /\ e.pc = pc /\ e.at = at /\ e.batch = batch
    /\ e.picked = picked /\ e.stuck = stuck /\ e.bare = bare

\* An engine that has just started has nothing in hand.
LEMMA IdleEngine == IsEng(Idle, "idle", 0, {}, NoPick, {}, {})
BY BoundAssumption, LimitAssumption DEF IsEng, EngRec, Idle, Pcs

\* Leadership and the time of the last heal leave the rest of an engine alone.
LEMMA LeaderAndHealOfEngine ==
    ASSUME NEW e \in EngRec, NEW l \in BOOLEAN, NEW h \in Int
    PROVE  IsEng([e EXCEPT !.leader = l, !.lastHeal = h],
                 e.pc, e.at, e.batch, e.picked, e.stuck, e.bare)
BY DEF IsEng, EngRec

\* A tick that fails leaves nothing in hand.
LEMMA FailedEngine ==
    ASSUME NEW l \in BOOLEAN, NEW h \in Int
    PROVE  IsEng([Idle EXCEPT !.leader = l, !.lastHeal = h], "idle", 0, {}, NoPick, {}, {})
<1>1. /\ Idle \in EngRec /\ Idle.pc = "idle" /\ Idle.at = 0 /\ Idle.batch = {}
      /\ Idle.picked = NoPick /\ Idle.stuck = {} /\ Idle.bare = {}
  BY IdleEngine DEF IsEng
<1>2. IsEng([Idle EXCEPT !.leader = l, !.lastHeal = h],
            Idle.pc, Idle.at, Idle.batch, Idle.picked, Idle.stuck, Idle.bare)
  BY <1>1, LeaderAndHealOfEngine
<1> QED BY <1>1, <1>2

\* An engine that moves on keeps what it has in hand.
LEMMA PcOfEngine ==
    ASSUME NEW e \in EngRec, NEW pc \in Pcs
    PROVE  IsEng([e EXCEPT !.pc = pc], pc, e.at, e.batch, e.picked, e.stuck, e.bare)
BY DEF IsEng, EngRec

\* Leadership leaves the rest of an engine alone.
LEMMA LeaderOfEngine ==
    ASSUME NEW e \in EngRec, NEW l \in BOOLEAN
    PROVE  IsEng([e EXCEPT !.leader = l], e.pc, e.at, e.batch, e.picked, e.stuck, e.bare)
BY DEF IsEng, EngRec

\* So does leadership when the engine moves on with it.
LEMMA LeaderAndPcOfEngine ==
    ASSUME NEW e \in EngRec, NEW l \in BOOLEAN, NEW pc \in Pcs
    PROVE  IsEng([e EXCEPT !.leader = l, !.pc = pc], pc, e.at, e.batch, e.picked, e.stuck, e.bare)
BY DEF IsEng, EngRec

\* An engine that has found the due jobs.
LEMMA FoundBatch ==
    ASSUME NEW e \in EngRec, NEW t \in Nat, NEW batch \in SUBSET RowRec
    PROVE  IsEng([e EXCEPT !.pc = "claim", !.at = t, !.batch = batch],
                 "claim", t, batch, e.picked, e.stuck, e.bare)
BY DEF IsEng, EngRec, Pcs

\* An engine that passes over a job of its batch.
LEMMA BatchOfEngine ==
    ASSUME NEW e \in EngRec, NEW batch \in SUBSET RowRec
    PROVE  IsEng([e EXCEPT !.batch = batch], e.pc, e.at, batch, e.picked, e.stuck, e.bare)
BY DEF IsEng, EngRec

\* An engine that has claimed a job of its batch.
LEMMA ClaimingEngine ==
    ASSUME NEW e \in EngRec, NEW batch \in SUBSET RowRec, NEW pc \in Pcs,
           NEW b \in RowRec \cup {NoPick}, NEW owed \in 0..CatchUpMax
    PROVE  IsEng([e EXCEPT !.batch = batch, !.pc = pc, !.picked = b, !.owed = owed],
                 pc, e.at, batch, b, e.stuck, e.bare)
BY DEF IsEng, EngRec

\* An engine that has started what it claimed.
LEMMA StartingEngine ==
    ASSUME NEW e \in EngRec
    PROVE  IsEng([e EXCEPT !.pc = "claim", !.picked = NoPick, !.owed = 0],
                 "claim", e.at, e.batch, NoPick, e.stuck, e.bare)
<1>1. ASSUME NEW pc \in Pcs, NEW b \in RowRec \cup {NoPick}, NEW owed \in 0..CatchUpMax
      PROVE  IsEng([e EXCEPT !.pc = pc, !.picked = b, !.owed = owed],
                   pc, e.at, e.batch, b, e.stuck, e.bare)
  BY <1>1 DEF IsEng, EngRec
<1>2. 0 \in 0..CatchUpMax /\ "claim" \in Pcs /\ NoPick \in RowRec \cup {NoPick}
  BY LimitAssumption DEF Pcs
<1> QED BY <1>1, <1>2

\* An engine that turns to self-heal.
LEMMA HealingEngine ==
    ASSUME NEW e \in EngRec, NEW h \in Int
    PROVE  IsEng([e EXCEPT !.pc = "stuck", !.at = 0, !.lastHeal = h],
                 "stuck", 0, e.batch, e.picked, e.stuck, e.bare)
BY DEF IsEng, EngRec, Pcs

\* An engine at the end of its tick.
LEMMA FinishedEngine ==
    ASSUME NEW e \in EngRec
    PROVE  IsEng([e EXCEPT !.pc = "idle", !.at = 0],
                 "idle", 0, e.batch, e.picked, e.stuck, e.bare)
BY DEF IsEng, EngRec, Pcs

\* An engine that has found, or closed, the stuck executions.
LEMMA StuckOfEngine ==
    ASSUME NEW e \in EngRec, NEW stuck \in SUBSET (Job \X (1..MaxExecs)), NEW pc \in Pcs
    PROVE  /\ IsEng([e EXCEPT !.stuck = stuck, !.pc = pc],
                    pc, e.at, e.batch, e.picked, stuck, e.bare)
           /\ IsEng([e EXCEPT !.pc = pc, !.stuck = stuck],
                    pc, e.at, e.batch, e.picked, stuck, e.bare)
BY DEF IsEng, EngRec

\* An engine that has found, or rescheduled, the jobs without nextRunAt.
LEMMA BareOfEngine ==
    ASSUME NEW e \in EngRec, NEW bare \in SUBSET Job, NEW pc \in Pcs
    PROVE  IsEng([e EXCEPT !.bare = bare, !.pc = pc],
                 pc, e.at, e.batch, e.picked, e.stuck, bare)
BY DEF IsEng, EngRec

\* The row picked to start is new, for a job that has a place, or the one picked before.
Chosen(s, pc, picked) ==
    pc = "start" => \/ eng[s].pc = "start" /\ picked = eng[s].picked
                    \/ /\ picked \in eng[s].batch /\ HasCapacity(s, picked.job)
                       /\ UNCHANGED <<run, perCompany>>

\* Only rows of active jobs, as they are now, are new in the batch.
Found(s, batch) ==
    \A b \in batch : b \in eng[s].batch \/ (b = Row(b.job) /\ job[b.job].active)

\* A batch holds what was due when it was read.
WasDue(batch, at) == \A b \in batch : b.next # NoNext /\ b.next.at <= at

\* Only rows that are overdue now are new among the stuck ones.
Stuck(s, stuck) ==
    \A r \in stuck : \/ r \in eng[s].stuck
                     \/ /\ r[2] \in DOMAIN execs[r[1]]
                        /\ Overdue(r[1], execs[r[1]][r[2]])

\* Only jobs that are unscheduled now are new among the bare ones.
Bare(s, bare) == \A j \in bare : j \in eng[s].bare \/ job[j].next = NoNext

EngStep(s, e) ==
    /\ EngPut(s, e)
    /\ e.at <= now
    /\ WasDue(e.batch, e.at)
    /\ Found(s, e.batch)
    /\ Chosen(s, e.pc, e.picked)
    /\ Stuck(s, e.stuck)
    /\ Bare(s, e.bare)

Engines == \/ UNCHANGED eng
           \/ \E s \in Server, e \in EngRec : EngStep(s, e)

EngInv == \A s \in Server : eng[s].at <= now /\ WasDue(eng[s].batch, eng[s].at)

\* An engine whose new record is as described takes one of the steps of Engines.
LEMMA Stepping ==
    ASSUME EngTypes, NEW s \in Server, NEW e, NEW pc, NEW at, NEW batch, NEW picked,
           NEW stuck, NEW bare, IsEng(e, pc, at, batch, picked, stuck, bare),
           eng' = [eng EXCEPT ![s] = e],
           at <= now, WasDue(batch, at), Found(s, batch), Chosen(s, pc, picked), Stuck(s, stuck), Bare(s, bare)
    PROVE  Engines
<1>1. e \in EngRec /\ EngPut(s, e) BY PuttingEng DEF IsEng
<1>2. EngStep(s, e) BY <1>1 DEF IsEng, EngStep
<1> QED BY <1>1, <1>2 DEF Engines

\* A step that only drops rows, and picks none.
LEMMA PlainStepping ==
    ASSUME EngTypes, EngInv, NEW s \in Server, NEW e, NEW pc, NEW batch, NEW picked,
           NEW stuck, NEW bare, IsEng(e, pc, eng[s].at, batch, picked, stuck, bare),
           eng' = [eng EXCEPT ![s] = e],
           batch \subseteq eng[s].batch, pc # "start",
           stuck \subseteq eng[s].stuck, bare \subseteq eng[s].bare
    PROVE  Engines
<1>1. eng[s].at <= now /\ WasDue(batch, eng[s].at) BY DEF EngInv, WasDue
<1>2. Chosen(s, pc, picked) /\ Stuck(s, stuck) /\ Bare(s, bare) /\ Found(s, batch)
  BY DEF Chosen, Stuck, Bare, Found
<1> QED BY <1>1, <1>2, Stepping

\* The fields of an engine.
LEMMA EngFields ==
    ASSUME EngTypes, NEW s \in Server
    PROVE  /\ eng[s] \in EngRec
           /\ eng[s].pc \in Pcs /\ eng[s].at \in Nat /\ eng[s].batch \in SUBSET RowRec
           /\ eng[s].picked \in RowRec \cup {NoPick} /\ eng[s].leader \in BOOLEAN
           /\ eng[s].lastHeal \in Int /\ eng[s].owed \in 0..CatchUpMax
           /\ eng[s].stuck \in SUBSET (Job \X (1..MaxExecs)) /\ eng[s].bare \in SUBSET Job
BY DEF EngTypes, EngRec

\* The fields of a row read from the database.
LEMMA RowFields ==
    ASSUME NEW b \in RowRec
    PROVE  b.job \in Job /\ b.next \in NextVal /\ b.next.at \in Nat /\ b.timeout \in Nat
BY DEF RowRec, NextVal

\* The fields of a job.
LEMMA JobFields ==
    ASSUME JobTypes, NEW j \in Job
    PROVE  /\ job[j] \in JobRow /\ job[j].active \in BOOLEAN /\ job[j].timeout \in Nat
           /\ job[j].next \in NextVal /\ job[j].next.at \in Nat
BY DEF JobTypes, JobRow, NextVal

\* Time is a number.
LEMMA Clock ==
    ASSUME JobTypes
    PROVE  now \in Nat
BY BoundAssumption DEF JobTypes, Time

\* selectRunCount and countDueOccurrences: between 0 and CATCH_UP_MAX runs are owed.
LEMMA OwedRuns ==
    ASSUME NEW j \in Job, NEW n \in NextVal, NEW t \in Nat
    PROVE  SelectRunCount(Policy[j], CountDueOccurrences(j, n, t)) \in 0..CatchUpMax
<1> DEFINE D == {o \in (n.at + 1)..t : o % Period[j] = 0}
           due == CountDueOccurrences(j, n, t)
<1>1. n.at + 1 \in Int BY DEF NextVal
<1>2. IsFiniteSet((n.at + 1)..t) BY <1>1, FS_Interval
<1>3. IsFiniteSet(D) BY <1>2, FS_Subset
<1>4. Cardinality(D) \in Nat BY <1>3, FS_CardinalityType
<1>5. due = Capped(1 + Cardinality(D)) BY DEF CountDueOccurrences
<1> HIDE DEF D
<1>6. due \in 1..CatchUpMax BY <1>4, <1>5, LimitAssumption DEF Capped
<1> HIDE DEF due
<1>7. Policy[j] \in {"skip", "run_once", "catch_up"} BY ScheduleAssumption
<1> QED BY <1>6, <1>7, LimitAssumption DEF SelectRunCount, due

\* What is read of a job is its row.
LEMMA ReadingRow ==
    ASSUME JobTypes, NEW j \in Job
    PROVE  Row(j) \in RowRec /\ Row(j).job = j /\ Row(j).next = job[j].next
BY ScheduleAssumption, JobFields DEF Row, RowRec

\* What a tick, and the steps around it, do to the engines.
LEMMA TickMovesEngines ==
    ASSUME Types, EngInv, NEW s \in Server, Tick(s)
    PROVE  Engines
<1> USE DEF Types
<1> DEFINE e == eng[s]
<1>0. /\ e \in EngRec /\ e.at <= now /\ WasDue(e.batch, e.at)
  BY EngFields DEF EngInv
<1>f. /\ e.batch \in SUBSET RowRec /\ e.stuck \in SUBSET (Job \X (1..MaxExecs))
      /\ e.bare \in SUBSET Job /\ now \in Nat
  BY EngFields, Clock
<1> HIDE DEF e
<1>1. CASE Renew(s)
  <2> DEFINE pc == IF leaderLock \in {s, Nobody} THEN "find" ELSE "acquire"
             n == [e EXCEPT !.pc = pc]
  <2>1. pc \in Pcs /\ pc # "start" BY DEF Pcs
  <2>2. eng' = [eng EXCEPT ![s].pc = pc] BY <1>1 DEF Renew
  <2> HIDE DEF pc
  <2>3. EngPut(s, n) BY <2>1, <2>2, PuttingPc DEF e
  <2>4. IsEng(n, pc, e.at, e.batch, e.picked, e.stuck, e.bare) BY <1>0, <2>1, PcOfEngine
  <2>5. EngStep(s, n)
    BY <2>1, <2>3, <2>4, <1>0 DEF IsEng, EngStep, Chosen, Stuck, Bare, Found, e
  <2> QED BY <2>4, <2>5 DEF Engines, IsEng
<1>2. CASE AcquireLeader(s)
  <2> DEFINE won == leaderLock = Nobody
             pc == IF won THEN "find" ELSE "idle"
             n == [e EXCEPT !.leader = won, !.pc = pc]
  <2>1. pc \in Pcs /\ pc # "start" /\ won \in BOOLEAN BY DEF Pcs
  <2>2. eng' = [eng EXCEPT ![s] = n] BY <1>2 DEF AcquireLeader, e
  <2> HIDE DEF pc, won
  <2>3. IsEng(n, pc, e.at, e.batch, e.picked, e.stuck, e.bare) BY <1>0, <2>1, LeaderAndPcOfEngine
  <2> HIDE DEF n
  <2> QED BY <2>1, <2>2, <2>3, PlainStepping DEF e
<1>3. CASE FindDueJobs(s)
  <2> DEFINE due == {Row(j) : j \in {i \in Job : Due(i) /\ now <= LastStart}}
  <2>1. PICK batch \in SUBSET due :
           eng' = [eng EXCEPT ![s] = [e EXCEPT !.pc = "claim", !.at = now, !.batch = batch]]
    BY <1>3 DEF FindDueJobs, e
  <2>2. \A b \in due : b \in RowRec /\ b.next # NoNext /\ b.next.at <= now /\ b = Row(b.job)
                       /\ job[b.job].active
    BY ReadingRow DEF Due
  <2> HIDE DEF due
  <2> DEFINE n == [e EXCEPT !.pc = "claim", !.at = now, !.batch = batch]
  <2>3. batch \in SUBSET RowRec /\ WasDue(batch, now) /\ Found(s, batch)
    BY <2>1, <2>2 DEF WasDue, Found
  <2>4. IsEng(n, "claim", now, batch, e.picked, e.stuck, e.bare) BY <1>0, <1>f, <2>3, FoundBatch
  <2>5. eng' = [eng EXCEPT ![s] = n] BY <2>1
  <2>6. Chosen(s, "claim", e.picked) /\ Stuck(s, e.stuck) /\ Bare(s, e.bare)
    BY DEF Chosen, Stuck, Bare, e
  <2>7. now <= now BY <1>f
  <2> HIDE DEF n
  <2> QED BY <2>3, <2>4, <2>5, <2>6, <2>7, Stepping
<1>4. CASE PassOver(s)
  <2>1. PICK b \in First(e.batch) :
           eng' = [eng EXCEPT ![s].batch = IF server[s] = "up" THEN e.batch \ {b} ELSE {}]
    BY <1>4 DEF PassOver, e
  <2> DEFINE batch == IF server[s] = "up" THEN e.batch \ {b} ELSE {}
             n == [e EXCEPT !.batch = batch]
  <2>2. batch \in SUBSET RowRec /\ batch \subseteq e.batch BY <1>f
  <2>3. eng' = [eng EXCEPT ![s].batch = batch] BY <2>1
  <2>p. e.pc = "claim" BY <1>4 DEF PassOver, e
  <2> HIDE DEF batch
  <2>4. IsEng(n, e.pc, e.at, batch, e.picked, e.stuck, e.bare) BY <1>0, <2>2, BatchOfEngine
  <2>5. eng' = [eng EXCEPT ![s] = n] BY <2>3 DEF EngTypes, e
  <2> HIDE DEF n
  <2> QED BY <2>2, <2>4, <2>5, <2>p, PlainStepping DEF e
<1>5. CASE Claim(s)
  <2>1. PICK b \in First(eng[s].batch) :
          /\ HasCapacity(s, b.job)
          /\ eng' = [eng EXCEPT ![s] =
                 [eng[s] EXCEPT !.batch = eng[s].batch \ {b},
                           !.pc = IF AsRead(b) THEN "start" ELSE "claim",
                           !.picked = IF AsRead(b) THEN b ELSE NoPick,
                           !.owed = IF AsRead(b)
                                    THEN SelectRunCount(Policy[b.job],
                                             CountDueOccurrences(b.job, b.next, eng[s].at))
                                    ELSE 0]]
    BY <1>5 DEF Claim
  <2> DEFINE batch == e.batch \ {b}
             pc == IF AsRead(b) THEN "start" ELSE "claim"
             picked == IF AsRead(b) THEN b ELSE NoPick
             owed == IF AsRead(b)
                     THEN SelectRunCount(Policy[b.job], CountDueOccurrences(b.job, b.next, e.at))
                     ELSE 0
             n == [e EXCEPT !.batch = batch, !.pc = pc, !.picked = picked, !.owed = owed]
  <2>2. b \in RowRec /\ b \in e.batch BY <2>1, <1>f DEF First, e
  <2>3. owed \in 0..CatchUpMax
    BY <2>2, <1>0, EngFields, RowFields, OwedRuns, LimitAssumption DEF e
  <2>4. batch \in SUBSET RowRec /\ batch \subseteq e.batch BY <1>f
  <2>5. pc \in Pcs /\ picked \in RowRec \cup {NoPick} BY <2>2 DEF Pcs
  <2>6. Chosen(s, pc, picked)
    <3>1. HasCapacity(s, b.job) BY <2>1
    <3>2. UNCHANGED <<run, perCompany>> BY <1>5 DEF Claim
    <3> QED BY <3>1, <3>2, <2>2 DEF Chosen, e
  <2>7. eng' = [eng EXCEPT ![s] = n] BY <2>1 DEF e
  <2> HIDE DEF batch, pc, picked, owed
  <2>8. IsEng(n, pc, e.at, batch, picked, e.stuck, e.bare)
    BY <1>0, <2>3, <2>4, <2>5, ClaimingEngine
  <2>9. WasDue(batch, e.at) /\ Stuck(s, e.stuck) /\ Bare(s, e.bare) /\ Found(s, batch)
    BY <1>0, <2>4 DEF WasDue, Stuck, Bare, Found, e
  <2> HIDE DEF n
  <2> QED BY <1>0, <2>6, <2>7, <2>8, <2>9, Stepping
<1>6. CASE Start(s)
  <2> DEFINE n == [e EXCEPT !.pc = "claim", !.picked = NoPick, !.owed = 0]
  <2>1. eng' = [eng EXCEPT ![s] = n] BY <1>6 DEF Start, e
  <2>2. IsEng(n, "claim", e.at, e.batch, NoPick, e.stuck, e.bare) BY <1>0, StartingEngine
  <2> HIDE DEF n
  <2> QED BY <2>1, <2>2, PlainStepping DEF e
<1>7. CASE EndBatch(s)
  <2> DEFINE m == [e EXCEPT !.pc = "stuck", !.at = 0, !.lastHeal = now]
             n == [e EXCEPT !.pc = "idle", !.at = 0]
  <2>1. /\ eng' = [eng EXCEPT ![s] = m] \/ eng' = [eng EXCEPT ![s] = n]
        /\ e.batch = {}
    <3>1. CASE HealDue(s) BY <3>1, <1>7 DEF EndBatch, e
    <3>2. CASE ~HealDue(s) BY <3>2, <1>7 DEF EndBatch, e
    <3> QED BY <3>1, <3>2
  <2>h. now \in Int BY <1>f
  <2>2. IsEng(m, "stuck", 0, e.batch, e.picked, e.stuck, e.bare) BY <1>0, <2>h, HealingEngine
  <2>3. IsEng(n, "idle", 0, e.batch, e.picked, e.stuck, e.bare) BY <1>0, FinishedEngine
  <2>4. /\ WasDue(e.batch, 0) /\ Stuck(s, e.stuck) /\ Bare(s, e.bare)
        /\ Chosen(s, "stuck", e.picked) /\ Chosen(s, "idle", e.picked) /\ Found(s, e.batch)
    BY <2>1 DEF WasDue, Stuck, Bare, Chosen, Found, e
  <2>5. 0 <= now BY <1>f
  <2> HIDE DEF m, n
  <2> QED BY <2>1, <2>2, <2>3, <2>4, <2>5, Stepping
<1>8. CASE FindStuck(s)
  <2> DEFINE stuck == {x \in Job \X (1..MaxExecs) :
                          /\ x[2] \in DOMAIN execs[x[1]]
                          /\ execs[x[1]][x[2]].status = "running"
                          /\ Overdue(x[1], execs[x[1]][x[2]])}
             pc == IF stuck = {} THEN "bare" ELSE "close"
             n == [e EXCEPT !.stuck = stuck, !.pc = pc]
  <2>1. eng' = [eng EXCEPT ![s] = n] BY <1>8 DEF FindStuck, e
  <2>2. stuck \in SUBSET (Job \X (1..MaxExecs)) OBVIOUS
  <2>3. pc \in Pcs /\ pc # "start" BY DEF Pcs
  <2>4. Stuck(s, stuck) BY DEF Stuck
  <2> HIDE DEF stuck, pc
  <2>5. IsEng(n, pc, e.at, e.batch, e.picked, stuck, e.bare) BY <1>0, <2>2, <2>3, StuckOfEngine
  <2>6. Chosen(s, pc, e.picked) /\ Bare(s, e.bare) /\ Found(s, e.batch)
    BY <2>3 DEF Chosen, Bare, Found, e
  <2> HIDE DEF n
  <2> QED BY <1>0, <2>1, <2>4, <2>5, <2>6, Stepping
<1>9. CASE CloseStuck(s)
  <2> DEFINE none == {}
             n == [e EXCEPT !.pc = "bare", !.stuck = none]
  <2>1. eng' = [eng EXCEPT ![s] = n] BY <1>9 DEF CloseStuck, e
  <2>2. none \in SUBSET (Job \X (1..MaxExecs)) /\ "bare" \in Pcs /\ none \subseteq e.stuck
    BY DEF Pcs
  <2> HIDE DEF none
  <2>3. IsEng(n, "bare", e.at, e.batch, e.picked, none, e.bare) BY <1>0, <2>2, StuckOfEngine
  <2> HIDE DEF n
  <2> QED BY <2>1, <2>2, <2>3, PlainStepping DEF e
<1>10. CASE FindUnscheduled(s)
  <2> DEFINE bare == {j \in Job : job[j].active /\ job[j].next = NoNext}
             pc == IF bare = {} THEN "idle" ELSE "reschedule"
             n == [e EXCEPT !.bare = bare, !.pc = pc]
  <2>1. eng' = [eng EXCEPT ![s] = n] BY <1>10 DEF FindUnscheduled, e
  <2>2. bare \in SUBSET Job OBVIOUS
  <2>3. pc \in Pcs /\ pc # "start" BY DEF Pcs
  <2>4. Bare(s, bare) BY DEF Bare
  <2> HIDE DEF bare, pc
  <2>5. IsEng(n, pc, e.at, e.batch, e.picked, e.stuck, bare) BY <1>0, <2>2, <2>3, BareOfEngine
  <2>6. Chosen(s, pc, e.picked) /\ Stuck(s, e.stuck) /\ Found(s, e.batch)
    BY <2>3 DEF Chosen, Stuck, Found, e
  <2> HIDE DEF n
  <2> QED BY <1>0, <2>1, <2>4, <2>5, <2>6, Stepping
<1>11. CASE Reschedule(s)
  <2>1. PICK j \in eng[s].bare :
           eng' = [eng EXCEPT ![s] =
              [eng[s] EXCEPT !.bare = eng[s].bare \ {j},
                             !.pc = IF eng[s].bare = {j} THEN "idle" ELSE "reschedule"]]
    BY <1>11 DEF Reschedule
  <2> DEFINE bare == e.bare \ {j}
             pc == IF e.bare = {j} THEN "idle" ELSE "reschedule"
             n == [e EXCEPT !.bare = bare, !.pc = pc]
  <2>2. bare \in SUBSET Job /\ bare \subseteq e.bare BY <1>f
  <2>3. pc \in Pcs /\ pc # "start" BY DEF Pcs
  <2>4. eng' = [eng EXCEPT ![s] = n] BY <2>1 DEF e
  <2> HIDE DEF bare, pc
  <2>5. IsEng(n, pc, e.at, e.batch, e.picked, e.stuck, bare) BY <1>0, <2>2, <2>3, BareOfEngine
  <2> HIDE DEF n
  <2> QED BY <2>2, <2>3, <2>4, <2>5, PlainStepping DEF e
<1> QED BY <1>1, <1>2, <1>3, <1>4, <1>5, <1>6, <1>7, <1>8, <1>9, <1>10, <1>11 DEF Tick

\* A process that is gone leaves an idle engine.
LEMMA GoneEngine ==
    ASSUME Types, EngInv, NEW s \in Server, Gone(s)
    PROVE  Engines
<1>1. eng' = [eng EXCEPT ![s] = Idle] BY DEF Gone
<1>2. now \in Nat BY Clock DEF Types
<1> DEFINE none == {}
<1>3. /\ WasDue(none, 0) /\ Chosen(s, "idle", NoPick) /\ Stuck(s, none) /\ Bare(s, none)
      /\ 0 <= now /\ Found(s, none)
  BY <1>2 DEF WasDue, Chosen, Stuck, Bare, Found
<1>4. IsEng(Idle, "idle", 0, none, NoPick, none, none) BY IdleEngine
<1> HIDE DEF none
<1> QED BY <1>1, <1>3, <1>4, Stepping DEF Types

\* Every step moves at most one engine, and as Engines says.
LEMMA EnginesMove ==
    ASSUME Types, EngInv, Next
    PROVE  Engines
<1>1. ASSUME NEW s \in Server, Tick(s) PROVE Engines BY <1>1, TickMovesEngines
<1>2. ASSUME NEW s \in Server, TickFails(s) PROVE Engines
  <2> DEFINE n == [Idle EXCEPT !.leader = eng[s].leader, !.lastHeal = eng[s].lastHeal]
             none == {}
  <2>1. eng' = [eng EXCEPT ![s] = n] BY <1>2 DEF TickFails
  <2>2. now \in Nat BY Clock DEF Types
  <2>3. /\ WasDue(none, 0) /\ Chosen(s, "idle", NoPick) /\ Stuck(s, none) /\ Bare(s, none)
        /\ 0 <= now /\ Found(s, none)
    BY <2>2 DEF WasDue, Chosen, Stuck, Bare, Found
  <2>4. IsEng(n, "idle", 0, none, NoPick, none, none)
    BY <1>2, FailedEngine, EngFields DEF Types
  <2> HIDE DEF none, n
  <2> QED BY <1>2, <2>1, <2>3, <2>4, Stepping DEF Types
<1>3. ASSUME NEW s \in Server, Crash(s) \/ Exit(s) PROVE Engines
  BY <1>3, GoneEngine DEF Crash, Exit
<1>4. ASSUME NEW s \in Server, ReleaseLeader(s) PROVE Engines
  <2> DEFINE e == eng[s]
             n == [e EXCEPT !.leader = FALSE]
  <2>1. eng' = [eng EXCEPT ![s].leader = FALSE] BY <1>4 DEF ReleaseLeader
  <2>2. eng' = [eng EXCEPT ![s] = n] BY <1>4, <2>1 DEF Types, EngTypes
  <2>3. IsEng(n, e.pc, e.at, e.batch, e.picked, e.stuck, e.bare)
    BY <1>4, EngFields, LeaderOfEngine DEF Types
  <2>4. /\ e.at <= now /\ WasDue(e.batch, e.at) /\ Chosen(s, e.pc, e.picked)
        /\ Stuck(s, e.stuck) /\ Bare(s, e.bare) /\ Found(s, e.batch)
    BY <1>4 DEF EngInv, Chosen, Stuck, Bare, Found
  <2> HIDE DEF n, e
  <2> QED BY <1>4, <2>2, <2>3, <2>4, Stepping DEF Types
<1>5. ASSUME NEW s \in Server, Restart(s) \/ Stop(s) PROVE Engines
  BY <1>5 DEF Engines, Restart, Stop
<1>6. ASSUME NEW s \in Server, NEW j \in Job, RunStep(s, j) \/ Settle(s, j) \/ OperationFails(s, j)
      PROVE  Engines
  BY <1>6 DEF Engines, RunStep, Settle, Settled, OperationFails, LockJob, ReadLast, Create, TimeOut,
              Record, UpdateJob, Release, RunnerOnly
<1>7. ASSUME NEW j \in Job, UserOp(j) \/ JobLockExpires(j) PROVE Engines
  BY <1>7 DEF Engines, UserOp, UserStep, Pause, Resume, AskRun, RunNow, EditSchedule, EditTimeout,
              JobLockExpires
<1>8. CASE LeaderLockExpires \/ Advance
  BY <1>8 DEF Engines, LeaderLockExpires, Advance
<1> QED BY <1>1, <1>2, <1>3, <1>4, <1>5, <1>6, <1>7, <1>8 DEF Next

-----------------------------------------------------------------------------
(* The runs of a process.                                                  *)

LEMMA RunFields ==
    ASSUME RunTypes, NEW s \in Server, NEW j \in Job
    PROVE  /\ run[s][j] \in RunRec
           /\ run[s][j].phase \in Phases /\ run[s][j].left \in Nat /\ run[s][j].attempt \in Nat
           /\ run[s][j].exec \in Nat /\ run[s][j].deadline \in Nat
           /\ run[s][j].retryAt \in NextVal /\ run[s][j].timeout \in Nat
           /\ run[s][j].outcome \in {"none", "success", "failed", "timeout"}
<1>1. run[s][j] \in RunRec BY DEF RunTypes
<1> QED BY <1>1 DEF RunRec

\* The absence of a run is a run record.
LEMMA NoRunAtAll == NoRun \in RunRec /\ NoRun.phase = "none"
BY DEF NoRun, RunRec, Phases, NextVal, NoNext

\* A run at the beginning of a round, and one that only has to give its lock back.
LEMMA FreshRun ==
    ASSUME NEW p \in Phases, NEW l \in Nat, NEW o \in Nat
    PROVE  LET t == [NoRun EXCEPT !.phase = p, !.left = l, !.timeout = o]
           IN t \in RunRec /\ t.phase = p
<1>1. ASSUME NEW r \in RunRec
      PROVE  LET t == [r EXCEPT !.phase = p, !.left = l, !.timeout = o]
             IN t \in RunRec /\ t.phase = p
  BY DEF RunRec
<1> QED BY <1>1, NoRunAtAll

\* A run that has nothing to do but release.
LEMMA DroppedRun ==
    ASSUME NEW r \in RunRec
    PROVE  LET t == [r EXCEPT !.phase = "release", !.left = 1]
           IN t \in RunRec /\ t.phase = "release"
BY DEF RunRec, Phases

\* A run that has read the last execution.
LEMMA ReadingRun ==
    ASSUME NEW r \in RunRec, NEW a \in Nat
    PROVE  LET t == [r EXCEPT !.phase = "create", !.attempt = a]
           IN t \in RunRec /\ t.phase = "create" /\ t.attempt = a /\ t.timeout = r.timeout
BY DEF RunRec, Phases

IsHandling(t, r, x, d) ==
    /\ t \in RunRec /\ t.phase = "handler" /\ t.exec = x /\ t.deadline = d
    /\ t.attempt = r.attempt /\ t.timeout = r.timeout

\* A run that has created its execution.
LEMMA CreatingRun ==
    ASSUME NEW r \in RunRec, NEW x \in Nat, NEW d \in Nat
    PROVE  IsHandling([r EXCEPT !.phase = "handler", !.exec = x, !.deadline = d], r, x, d)
BY DEF RunRec, Phases, IsHandling

IsSettled(t, r, o, d, n) ==
    /\ t \in RunRec /\ t.phase = "record" /\ t.outcome = o /\ t.deadline = d
    /\ t.retryAt = n /\ t.exec = r.exec /\ t.attempt = r.attempt /\ t.timeout = r.timeout

\* A run whose handler is over.
LEMMA SettlingRun ==
    ASSUME NEW r \in RunRec, NEW o \in {"success", "failed", "timeout"}, NEW d \in Nat,
           NEW n \in NextVal
    PROVE  IsSettled([r EXCEPT !.phase = "record", !.outcome = o, !.deadline = d, !.retryAt = n],
                     r, o, d, n)
BY DEF RunRec, Phases, IsSettled

\* What a step does to the place of a run: it takes it, keeps it or gives it back.
Begins(s, j, t) ==
    /\ eng[s].pc = "start" /\ j = eng[s].picked.job /\ eng'[s].pc # "start"
    /\ t.phase = "lock" /\ t.timeout = eng[s].picked.timeout
    /\ perCompany' = [perCompany EXCEPT ![s][CompanyOf[j]] = @ + 1]

Goes(s, j, t) ==
    /\ run[s][j].phase # "none" /\ t.phase # "none" /\ t.timeout = run[s][j].timeout
    /\ UNCHANGED perCompany

Ends(s, j, t) ==
    /\ run[s][j].phase # "none" /\ t = NoRun
    /\ perCompany' = [perCompany EXCEPT ![s][CompanyOf[j]] = IF @ > 1 THEN @ - 1 ELSE 0]

Places(s, j, t) == Begins(s, j, t) \/ Goes(s, j, t) \/ Ends(s, j, t)

\* ... to its lock ...
Holds(s, j, t) ==
    /\ jobLock' \in [Job -> Holder]
    /\ \A i \in Job : i # j => jobLock'[i] = jobLock[i]
    /\ \A r \in Server : r # s => (jobLock'[j] = r <=> jobLock[j] = r)
    /\ jobLock'[j] = s <=> t.phase \notin {"none", "lock"}

\* ... and to its execution.
Reads(s, j, t) ==
    /\ run[s][j].phase = "read" /\ t.phase = "create"
    /\ t.attempt = ResolveRunAttempt(execs[j])
    /\ UNCHANGED execs

Creates(s, j, t) ==
    /\ run[s][j].phase = "create" /\ t.phase = "handler"
    /\ t.attempt = run[s][j].attempt
    /\ t.exec = Len(execs[j]) + 1 /\ t.deadline = now + run[s][j].timeout
    /\ Len(execs[j]) < MaxExecs
    /\ execs' = [execs EXCEPT ![j] = Append(@, [status |-> "running", attempt |-> t.attempt,
                                                retry |-> FALSE, at |-> now])]

Settles(s, j, t) ==
    /\ run[s][j].phase = "handler" /\ t.phase = "record"
    /\ t.attempt = run[s][j].attempt /\ t.exec = run[s][j].exec
    /\ t.outcome \in {"success", "failed", "timeout"}
    /\ t.deadline = now + ClosingTime
    /\ \/ t.retryAt = NoNext
       \/ /\ t.attempt <= MaxRetries[j]
          /\ t.retryAt = [at |-> now + RetryDelay[j], src |-> "retry"]
    /\ UNCHANGED execs

Records(s, j, t) ==
    /\ run[s][j].phase = "record" /\ t.phase = "update"
    /\ t.deadline = run[s][j].deadline /\ t.retryAt = run[s][j].retryAt
    /\ execs' = [execs EXCEPT ![j][run[s][j].exec] =
                    [execs[j][run[s][j].exec] EXCEPT
                        !.status = run[s][j].outcome,
                        !.retry = \/ execs[j][run[s][j].exec].retry
                                  \/ run[s][j].retryAt # NoNext]]

Stays(t) == t.phase \in {"none", "lock", "read", "release"} /\ UNCHANGED execs

Closes(s, j, t) == \/ Reads(s, j, t) \/ Creates(s, j, t) \/ Settles(s, j, t) \/ Records(s, j, t)
                   \/ Stays(t)

RunMoves(s, j, t) ==
    t \in RunRec /\ RunPut(s, j, t) /\ Places(s, j, t) /\ Holds(s, j, t) /\ Closes(s, j, t)

Runs == \E s \in Server, j \in Job, t \in RunRec : RunMoves(s, j, t)

\* A handed-on round of the loop, or its end.
LEMMA NextRound ==
    ASSUME Types, NEW s \in Server, NEW j \in Job, NextRun(s, j), run[s][j].phase # "none",
           UNCHANGED execs,
           \A t \in RunRec : t.phase \in {"none", "lock"} => Holds(s, j, t)
    PROVE  Runs
<1> USE DEF Types
<1> DEFINE r == run[s][j]
<1>1. CASE r.left > 1
  <2> DEFINE l == r.left - 1
             o == r.timeout
             t == [NoRun EXCEPT !.phase = "lock", !.left = l, !.timeout = o]
  <2>0. r.left \in Nat /\ r.timeout \in Nat BY RunFields
  <2>1. l \in Nat /\ o \in Nat /\ "lock" \in Phases BY <1>1, <2>0 DEF Phases
  <2>2. t \in RunRec /\ t.phase = "lock"
    <3> HIDE DEF l, o
    <3> QED BY <2>1, FreshRun
  <2>3. t.timeout = r.timeout BY DEF NoRun
  <2>4. run' = [run EXCEPT ![s][j] = t] /\ UNCHANGED perCompany BY <1>1 DEF NextRun
  <2>5. RunPut(s, j, t) BY <2>2, <2>4, PuttingRun
  <2>6. Goes(s, j, t) BY <2>2, <2>3, <2>4 DEF Goes
  <2>7. Stays(t) BY <2>2 DEF Stays
  <2> HIDE DEF t
  <2>8. RunMoves(s, j, t) BY <2>2, <2>5, <2>6, <2>7 DEF RunMoves, Places, Closes
  <2> QED BY <2>2, <2>8 DEF Runs
<1>2. CASE ~(r.left > 1)
  <2>1. Ended(s, j) BY <1>2 DEF NextRun
  <2>2. RunPut(s, j, NoRun) BY <2>1, PuttingRun, NoRunAtAll DEF Ended
  <2>3. Ends(s, j, NoRun) BY <2>1 DEF Ends, Ended
  <2>4. Stays(NoRun) BY NoRunAtAll DEF Stays
  <2>5. RunMoves(s, j, NoRun) BY <2>2, <2>3, <2>4, NoRunAtAll DEF RunMoves, Places, Closes
  <2> QED BY <2>5, NoRunAtAll DEF Runs
<1> QED BY <1>1, <1>2

\* What a step of a run, of its handler or of a failing operation does.
LEMMA RunStepMoves ==
    ASSUME Types, LockFollowsRun, NEW s \in Server, NEW j \in Job,
           RunStep(s, j) \/ Settle(s, j) \/ OperationFails(s, j)
    PROVE  Runs
<1> USE DEF Types
<1> DEFINE r == run[s][j]
<1>0. /\ r \in RunRec /\ r.left \in Nat /\ r.attempt \in Nat /\ r.timeout \in Nat
      /\ r.retryAt \in NextVal /\ r.exec \in Nat
  BY RunFields
<1>s. s # Nobody /\ s # Dead /\ \A x \in Server : x # Nobody /\ x # Dead BY ServerAssumption
<1>h. jobLock[j] = s <=> r.phase \notin {"none", "lock"} BY DEF LockFollowsRun
<1>l. jobLock \in [Job -> Holder] BY DEF ServerTypes
\* The lock is kept...
<1>k. ASSUME NEW t \in RunRec, UNCHANGED jobLock,
             t.phase \in {"none", "lock"} <=> r.phase \in {"none", "lock"}
      PROVE  Holds(s, j, t)
  BY <1>k, <1>h, <1>l DEF Holds
\* ... or given back.
<1>g. ASSUME NEW t \in RunRec, NEW n \in {Nobody, Dead}, t.phase \in {"none", "lock"},
             jobLock' = [jobLock EXCEPT ![j] = IF @ = s THEN n ELSE @]
      PROVE  Holds(s, j, t)
  BY <1>g, <1>s, <1>l DEF Holds, Holder
<1>1. CASE LockJob(s, j)
  <2>1. r.phase = "lock" BY <1>1 DEF LockJob, Phase
  <2>2. CASE jobLock[j] = Nobody
    <3> DEFINE t == [r EXCEPT !.phase = "read"]
    <3>1. /\ run' = [run EXCEPT ![s][j].phase = "read"] /\ jobLock' = [jobLock EXCEPT ![j] = s]
          /\ UNCHANGED <<perCompany, execs>>
      BY <1>1, <2>2 DEF LockJob, RunnerOnly
    <3>2. "read" \in Phases BY DEF Phases
    <3>3. t \in RunRec /\ t.phase = "read" /\ t.timeout = r.timeout BY <1>0, <3>2, OtherPhase
    <3>4. RunPut(s, j, t) BY <3>1, <3>2, PuttingPhase
    <3> HIDE DEF t
    <3>5. Goes(s, j, t) BY <2>1, <3>1, <3>3 DEF Goes
    <3>6. Holds(s, j, t) BY <2>2, <3>1, <3>3, <1>s, <1>l DEF Holds, Holder
    <3>7. Stays(t) BY <3>1, <3>3 DEF Stays
    <3> QED BY <3>3, <3>4, <3>5, <3>6, <3>7 DEF Runs, RunMoves, Places, Closes
  <2>3. CASE jobLock[j] # Nobody
    <3>1. NextRun(s, j) /\ UNCHANGED jobLock /\ UNCHANGED execs
      BY <1>1, <2>3 DEF LockJob, RunnerOnly
    <3>2. \A t \in RunRec : t.phase \in {"none", "lock"} => Holds(s, j, t)
      BY <1>k, <2>1, <3>1
    <3> QED BY <2>1, <3>1, <3>2, NextRound
  <2> QED BY <2>2, <2>3
<1>2. CASE ReadLast(s, j)
  <2> DEFINE a == ResolveRunAttempt(execs[j])
             t == [r EXCEPT !.phase = "create", !.attempt = a]
  <2>1. r.phase = "read" BY <1>2 DEF ReadLast, Phase
  <2>2. run' = [run EXCEPT ![s][j] = t] /\ UNCHANGED <<perCompany, execs, jobLock>>
    BY <1>2 DEF ReadLast, RunnerOnly
  <2>3. a \in Nat
    <3>1. execs[j] \in Seq(Exec) BY DEF ExecTypes
    <3>2. execs[j] # <<>> => execs[j][Len(execs[j])] \in Exec BY <3>1
    <3>3. execs[j] # <<>> => execs[j][Len(execs[j])].attempt \in Nat BY <3>2 DEF Exec
    <3> QED BY <3>3 DEF ResolveRunAttempt
  <2> HIDE DEF a
  <2>4. t \in RunRec /\ t.phase = "create" /\ t.attempt = a /\ t.timeout = r.timeout
    BY <1>0, <2>3, ReadingRun
  <2> HIDE DEF t
  <2>5. RunPut(s, j, t) BY <2>2, <2>4, PuttingRun
  <2>6. Goes(s, j, t) BY <2>1, <2>2, <2>4 DEF Goes
  <2>7. Holds(s, j, t) BY <1>k, <2>1, <2>2, <2>4
  <2>8. Reads(s, j, t) BY <2>1, <2>2, <2>4 DEF Reads, a
  <2> QED BY <2>4, <2>5, <2>6, <2>7, <2>8 DEF Runs, RunMoves, Places, Closes
<1>3. CASE Create(s, j)
  <2> DEFINE x == Len(execs[j]) + 1
             d == now + r.timeout
             t == [r EXCEPT !.phase = "handler", !.exec = x, !.deadline = d]
  <2>1. r.phase = "create" BY <1>3 DEF Create, Phase
  <2>2. run' = [run EXCEPT ![s][j] = t] /\ UNCHANGED <<perCompany, jobLock>>
    BY <1>3 DEF Create, RunnerOnly
  <2>3. x \in Nat /\ d \in Nat
    <3>1. execs[j] \in Seq(Exec) BY DEF ExecTypes
    <3>2. Len(execs[j]) \in Nat BY <3>1
    <3> QED BY <1>0, <3>2, Clock
  <2>e. /\ Len(execs[j]) < MaxExecs
        /\ execs' = [execs EXCEPT ![j] = Append(execs[j],
                       [status |-> "running", attempt |-> r.attempt, retry |-> FALSE, at |-> now])]
    BY <1>3 DEF Create
  <2>q. IsHandling(t, r, x, d)
    <3>1. r \in RunRec BY <1>0
    <3> HIDE DEF x, d, r
    <3> QED BY <3>1, <2>3, CreatingRun
  <2>4. /\ t \in RunRec /\ t.phase = "handler" /\ t.exec = x /\ t.deadline = d
        /\ t.attempt = r.attempt /\ t.timeout = r.timeout
    <3> HIDE DEF x, d, r, t
    <3> QED BY <2>q DEF IsHandling
  <2> HIDE DEF t
  <2>5. RunPut(s, j, t) BY <2>2, <2>4, PuttingRun
  <2>6. Goes(s, j, t) BY <2>1, <2>2, <2>4 DEF Goes
  <2>7. Holds(s, j, t) BY <1>k, <2>1, <2>2, <2>4
  <2>8. Creates(s, j, t) BY <2>1, <2>e, <2>4 DEF Creates
  <2> QED BY <2>4, <2>5, <2>6, <2>7, <2>8 DEF Runs, RunMoves, Places, Closes
<1>4. ASSUME NEW o \in {"success", "failed", "timeout"}, Settled(s, j, o) PROVE Runs
  <2> DEFINE retries == o # "success" /\ ShouldRetry(r.attempt, MaxRetries[j])
             d == now + ClosingTime
             n == IF retries THEN [at |-> now + RetryDelay[j], src |-> "retry"] ELSE NoNext
             t == [r EXCEPT !.phase = "record", !.outcome = o, !.deadline = d, !.retryAt = n]
  <2>1. r.phase = "handler" BY <1>4 DEF Settled, Phase
  <2>2. run' = [run EXCEPT ![s][j] = t] /\ UNCHANGED <<perCompany, jobLock, execs>>
    BY <1>4 DEF Settled, RunnerOnly
  <2>3. d \in Nat /\ n \in NextVal
    <3>1. now \in Nat BY Clock
    <3>2. RetryDelay[j] \in Nat BY ScheduleAssumption
    <3> QED BY <3>1, <3>2, BoundAssumption DEF NextVal, NoNext
  <2>n. n = NoNext \/ /\ r.attempt <= MaxRetries[j]
                      /\ n = [at |-> now + RetryDelay[j], src |-> "retry"]
    BY DEF ShouldRetry
  <2>q. IsSettled(t, r, o, d, n)
    <3>1. r \in RunRec BY <1>0
    <3>2. o \in {"success", "failed", "timeout"} BY <1>4
    <3> HIDE DEF n, d, r
    <3> QED BY <3>1, <3>2, <2>3, SettlingRun
  <2>4. /\ t \in RunRec /\ t.phase = "record" /\ t.outcome = o /\ t.deadline = d
        /\ t.retryAt = n /\ t.exec = r.exec /\ t.attempt = r.attempt
        /\ t.timeout = r.timeout
    <3> HIDE DEF n, d, r, t
    <3> QED BY <2>q DEF IsSettled
  <2> HIDE DEF t, n
  <2>5. RunPut(s, j, t) BY <2>2, <2>4, PuttingRun
  <2>6. Goes(s, j, t) BY <2>1, <2>2, <2>4 DEF Goes
  <2>7. Holds(s, j, t) BY <1>k, <2>1, <2>2, <2>4
  <2>8. Settles(s, j, t) BY <1>4, <2>1, <2>2, <2>4, <2>n DEF Settles
  <2> QED BY <2>4, <2>5, <2>6, <2>7, <2>8 DEF Runs, RunMoves, Places, Closes
<1>5. CASE Settle(s, j) BY <1>4, <1>5 DEF Settle
<1>6. CASE TimeOut(s, j) BY <1>4, <1>6 DEF TimeOut
<1>7. CASE Record(s, j)
  <2> DEFINE t == [r EXCEPT !.phase = "update"]
  <2>1. r.phase = "record" BY <1>7 DEF Record, Phase
  <2>2. run' = [run EXCEPT ![s][j].phase = "update"] /\ UNCHANGED <<perCompany, jobLock>>
    BY <1>7 DEF Record, RunnerOnly
  <2>3. "update" \in Phases BY DEF Phases
  <2>4. /\ t \in RunRec /\ t.phase = "update" /\ t.timeout = r.timeout
        /\ t.retryAt = r.retryAt /\ t.deadline = r.deadline
    BY <1>0, <2>3, OtherPhase
  <2>5. RunPut(s, j, t) BY <2>2, <2>3, PuttingPhase
  <2> HIDE DEF t
  <2>6. Goes(s, j, t) BY <2>1, <2>2, <2>4 DEF Goes
  <2>7. Holds(s, j, t) BY <1>k, <2>1, <2>2, <2>4
  <2>8. Records(s, j, t) BY <1>7, <2>1, <2>4 DEF Records, Record
  <2> QED BY <2>4, <2>5, <2>6, <2>7, <2>8 DEF Runs, RunMoves, Places, Closes
<1>8. CASE UpdateJob(s, j)
  <2> DEFINE l == r.left
             o == r.timeout
             t == [NoRun EXCEPT !.phase = "release", !.left = l, !.timeout = o]
  <2>1. r.phase = "update" BY <1>8 DEF UpdateJob, Phase
  <2>2. run' = [run EXCEPT ![s][j] = t] /\ UNCHANGED <<perCompany, jobLock, execs>>
    BY <1>8 DEF UpdateJob, RunnerOnly
  <2>3. "release" \in Phases /\ l \in Nat /\ o \in Nat BY <1>0 DEF Phases
  <2>4. t \in RunRec /\ t.phase = "release"
    <3> HIDE DEF l, o
    <3> QED BY <2>3, FreshRun
  <2>t. t.timeout = r.timeout BY DEF NoRun
  <2> HIDE DEF t
  <2>5. RunPut(s, j, t) BY <2>2, <2>4, PuttingRun
  <2>6. Goes(s, j, t) BY <2>1, <2>2, <2>4, <2>t DEF Goes
  <2>7. Holds(s, j, t) BY <1>k, <2>1, <2>2, <2>4
  <2>8. Stays(t) BY <2>2, <2>4 DEF Stays
  <2> QED BY <2>4, <2>5, <2>6, <2>7, <2>8 DEF Runs, RunMoves, Places, Closes
<1>9. CASE Release(s, j)
  <2>1. r.phase = "release" BY <1>9 DEF Release, Phase
  <2>2. /\ NextRun(s, j) /\ UNCHANGED execs
        /\ jobLock' = [jobLock EXCEPT ![j] = IF @ = s THEN Nobody ELSE @]
    BY <1>9 DEF Release, RunnerOnly
  <2>3. \A t \in RunRec : t.phase \in {"none", "lock"} => Holds(s, j, t) BY <1>g, <2>2
  <2> QED BY <2>1, <2>2, <2>3, NextRound
<1>10. CASE OperationFails(s, j)
  <2>1. UNCHANGED execs BY <1>10 DEF OperationFails, RunnerOnly
  <2>e. ASSUME Ended(s, j), r.phase # "none", Holds(s, j, NoRun) PROVE Runs
    <3>1. RunPut(s, j, NoRun) BY <2>e, PuttingRun, NoRunAtAll DEF Ended
    <3>2. Ends(s, j, NoRun) BY <2>e DEF Ends, Ended
    <3>3. Stays(NoRun) BY <2>1, NoRunAtAll DEF Stays
    <3> QED BY <2>e, <3>1, <3>2, <3>3, NoRunAtAll DEF Runs, RunMoves, Places, Closes
  <2>2. CASE r.phase = "lock"
    <3>1. Ended(s, j) /\ UNCHANGED jobLock BY <1>10, <2>2 DEF OperationFails
    <3>2. Holds(s, j, NoRun) BY <1>k, <2>2, <3>1, NoRunAtAll
    <3> QED BY <2>e, <2>2, <3>1, <3>2
  <2>3. CASE r.phase \in {"read", "create", "record", "update"}
    <3> DEFINE t == [r EXCEPT !.phase = "release", !.left = 1]
    <3>1. run' = [run EXCEPT ![s][j] = t] /\ UNCHANGED <<perCompany, jobLock>>
      BY <1>10, <2>3 DEF OperationFails
    <3>2. t \in RunRec /\ t.phase = "release" BY <1>0, DroppedRun
    <3>t. t.timeout = r.timeout BY <1>0 DEF RunRec
    <3> HIDE DEF t
    <3>3. RunPut(s, j, t) BY <3>1, <3>2, PuttingRun
    <3>4. Goes(s, j, t) BY <2>3, <3>1, <3>2, <3>t DEF Goes
    <3>5. Holds(s, j, t) BY <1>k, <2>3, <3>1, <3>2
    <3>6. Stays(t) BY <2>1, <3>2 DEF Stays
    <3> QED BY <3>2, <3>3, <3>4, <3>5, <3>6 DEF Runs, RunMoves, Places, Closes
  <2>4. CASE r.phase = "release"
    <3>1. Ended(s, j) /\ jobLock' = [jobLock EXCEPT ![j] = IF @ = s THEN Dead ELSE @]
      BY <1>10, <2>4 DEF OperationFails
    <3>2. Holds(s, j, NoRun) BY <1>g, <3>1, NoRunAtAll
    <3> QED BY <2>e, <2>4, <3>1, <3>2
  <2> QED BY <1>10, <2>2, <2>3, <2>4 DEF OperationFails
<1> QED BY <1>1, <1>2, <1>3, <1>5, <1>6, <1>7, <1>8, <1>9, <1>10 DEF RunStep

\* What is about to start has been read as due, and has a place.
PickInv == \A s \in Server : eng[s].pc = "start" =>
              eng[s].picked \in RowRec /\ HasCapacity(s, eng[s].picked.job)

\* A start begins the runs as Runs says, or none.
LEMMA StartMoves ==
    ASSUME Types, LockFollowsRun, PickInv, NEW s \in Server, Start(s)
    PROVE  Runs \/ UNCHANGED <<run, perCompany>>
<1> USE DEF Types
<1> DEFINE e == eng[s]
           j == e.picked.job
           l == e.owed
           o == e.picked.timeout
           t == [NoRun EXCEPT !.phase = "lock", !.left = l, !.timeout = o]
<1> SUFFICES ASSUME e.owed > 0 PROVE Runs BY DEF Start
<1>1. e.pc = "start" /\ e.picked \in RowRec /\ HasCapacity(s, j) BY DEF Start, PickInv
<1>2. /\ run' = [run EXCEPT ![s][j] = t]
      /\ perCompany' = [perCompany EXCEPT ![s][CompanyOf[j]] = @ + 1]
      /\ UNCHANGED <<jobLock, execs>>
  BY DEF Start, SchedulerOnly
<1>3. j \in Job /\ o \in Nat /\ l \in Nat /\ "lock" \in Phases
  <2>1. l \in 0..CatchUpMax BY EngFields
  <2> QED BY <1>1, <2>1, RowFields, LimitAssumption DEF Phases
<1>4. t \in RunRec /\ t.phase = "lock"
  <2> HIDE DEF l, o
  <2> QED BY <1>3, FreshRun
<1>5. t.timeout = o BY DEF NoRun
<1>6. run[s][j].phase = "none" BY <1>1, <1>3 DEF HasCapacity, Running
<1>7. eng'[s].pc # "start"
  <2>1. eng' = [eng EXCEPT ![s] = [eng[s] EXCEPT !.pc = "claim", !.picked = NoPick, !.owed = 0]]
    BY DEF Start
  <2> DEFINE n == [eng[s] EXCEPT !.pc = "claim", !.picked = NoPick, !.owed = 0]
  <2>2. n.pc = "claim" BY EngFields, StartingEngine DEF IsEng
  <2> HIDE DEF n
  <2> QED BY <2>1, <2>2 DEF EngTypes, n
<1> HIDE DEF t, j
<1>8. RunPut(s, j, t) BY <1>2, <1>3, <1>4, PuttingRun
<1>9. Begins(s, j, t) BY <1>1, <1>2, <1>4, <1>5, <1>7 DEF Begins, j
<1>10. Holds(s, j, t) BY <1>2, <1>3, <1>4, <1>6 DEF Holds, LockFollowsRun, ServerTypes
<1>11. Stays(t) BY <1>2, <1>4 DEF Stays
<1> QED BY <1>3, <1>4, <1>8, <1>9, <1>10, <1>11 DEF Runs, RunMoves, Places, Closes

LocksStay == /\ jobLock' \in [Job -> Holder]
             /\ \A s \in Server, j \in Job : jobLock'[j] = s <=> jobLock[j] = s

\* A step in which no run moves: only self-heal closes executions then.
Quiet == /\ UNCHANGED <<run, perCompany>>
         /\ LocksStay
         /\ UNCHANGED execs \/ \E s \in Server : CloseStuck(s)

\* Every step moves at most one run, or loses all of a process.
LEMMA RunsMove ==
    ASSUME Types, LockFollowsRun, PickInv, Next
    PROVE  Runs \/ Quiet \/ \E s \in Server : Gone(s)
<1> USE DEF Types
<1>l. jobLock \in [Job -> Holder] BY DEF ServerTypes
<1>s. \A x \in Server : x # Nobody /\ x # Dead BY ServerAssumption
<1>k. UNCHANGED jobLock => LocksStay BY <1>l DEF LocksStay
<1>1. ASSUME NEW s \in Server, Tick(s) PROVE Runs \/ Quiet
  <2>1. CASE Start(s)
    <3>1. UNCHANGED jobLock /\ UNCHANGED execs BY <2>1 DEF Start, SchedulerOnly
    <3> QED BY <1>1, <2>1, <3>1, <1>k, StartMoves DEF Quiet
  <2>2. CASE CloseStuck(s)
    <3>1. UNCHANGED <<run, perCompany, jobLock>> BY <2>2 DEF CloseStuck
    <3> QED BY <1>1, <2>2, <3>1, <1>k DEF Quiet
  <2>3. CASE \/ Renew(s) \/ AcquireLeader(s) \/ FindDueJobs(s) \/ PassOver(s) \/ Claim(s)
             \/ EndBatch(s) \/ FindStuck(s) \/ FindUnscheduled(s) \/ Reschedule(s)
    <3>1. UNCHANGED <<run, perCompany, jobLock, execs>>
      BY <2>3 DEF Renew, AcquireLeader, FindDueJobs, PassOver, Claim, EndBatch, FindStuck,
                  FindUnscheduled, Reschedule, SchedulerOnly
    <3> QED BY <3>1, <1>k DEF Quiet
  <2> QED BY <1>1, <2>1, <2>2, <2>3 DEF Tick
<1>2. ASSUME NEW s \in Server, TickFails(s) \/ Restart(s) \/ Stop(s) \/ ReleaseLeader(s) PROVE Quiet
  <2>1. UNCHANGED <<run, perCompany, jobLock, execs>>
    BY <1>2 DEF TickFails, Restart, Stop, ReleaseLeader
  <2> QED BY <2>1, <1>k DEF Quiet
<1>3. ASSUME NEW s \in Server, Crash(s) \/ Exit(s) PROVE Gone(s)
  BY <1>3 DEF Crash, Exit
<1>4. ASSUME NEW s \in Server, NEW j \in Job, RunStep(s, j) \/ Settle(s, j) \/ OperationFails(s, j)
      PROVE  Runs
  BY <1>4, RunStepMoves
<1>5. ASSUME NEW j \in Job, UserOp(j) PROVE Quiet
  <2>1. UNCHANGED <<run, perCompany, jobLock, execs>>
    BY <1>5 DEF UserOp, UserStep, Pause, Resume, AskRun, RunNow, EditSchedule, EditTimeout
  <2> QED BY <2>1, <1>k DEF Quiet
<1>6. ASSUME NEW j \in Job, JobLockExpires(j) PROVE Quiet
  <2>1. UNCHANGED <<run, perCompany, execs>> BY <1>6 DEF JobLockExpires
  <2>2. jobLock[j] = Dead /\ jobLock' = [jobLock EXCEPT ![j] = Nobody] BY <1>6 DEF JobLockExpires
  <2>3. LocksStay BY <1>6, <2>2, <1>l, <1>s DEF LocksStay, Holder
  <2> QED BY <2>1, <2>3 DEF Quiet
<1>7. CASE LeaderLockExpires \/ Advance
  <2>1. UNCHANGED <<run, perCompany, jobLock, execs>> BY <1>7 DEF LeaderLockExpires, Advance
  <2> QED BY <2>1, <1>k DEF Quiet
<1> QED BY <1>1, <1>2, <1>3, <1>4, <1>5, <1>6, <1>7 DEF Next

-----------------------------------------------------------------------------
(* The lock of a run.                                                      *)

LEMMA LockStep ==
    ASSUME Types, LockFollowsRun, PickInv, Next
    PROVE  LockFollowsRun'
<1> USE DEF Types
<1>1. CASE Runs
  <2>1. PICK s \in Server, j \in Job, t \in RunRec : RunPut(s, j, t) /\ Holds(s, j, t)
    BY <1>1 DEF Runs, RunMoves
  <2>2. ASSUME NEW r \in Server, NEW i \in Job
        PROVE  jobLock'[i] = r <=> run'[r][i].phase \notin {"none", "lock"}
    <3>1. CASE r = s /\ i = j BY <3>1, <2>1 DEF RunPut, Holds
    <3>2. CASE r # s \/ i # j
      <4>1. run'[r][i] = run[r][i] BY <2>1, <2>2, <3>2 DEF RunPut
      <4>2. jobLock'[i] = r <=> jobLock[i] = r BY <2>1, <2>2, <3>2 DEF Holds
      <4> QED BY <2>2, <4>1, <4>2 DEF LockFollowsRun
    <3> QED BY <3>1, <3>2
  <2> QED BY <2>2 DEF LockFollowsRun
<1>2. CASE Quiet BY <1>2 DEF Quiet, LocksStay, LockFollowsRun
<1>3. ASSUME NEW s \in Server, Gone(s) PROVE LockFollowsRun'
  <2>1. /\ jobLock' = [j \in Job |-> IF jobLock[j] = s THEN Dead ELSE jobLock[j]]
        /\ run' = [run EXCEPT ![s] = [j \in Job |-> NoRun]]
    BY <1>3 DEF Gone
  <2>2. ASSUME NEW r \in Server, NEW j \in Job
        PROVE  jobLock'[j] = r <=> run'[r][j].phase \notin {"none", "lock"}
    <3>0. r # Dead BY <2>2, ServerAssumption
    <3>1. CASE r = s
      <4>1. run'[r][j] = NoRun BY <1>3, <2>1, <2>2, <3>1 DEF RunTypes
      <4>2. jobLock'[j] # r BY <2>1, <2>2, <3>0, <3>1
      <4> QED BY <4>1, <4>2, NoRunAtAll
    <3>2. CASE r # s
      <4>1. run'[r][j] = run[r][j] BY <1>3, <2>1, <2>2, <3>2 DEF RunTypes
      <4>2. jobLock'[j] = r <=> jobLock[j] = r BY <2>1, <2>2, <3>0, <3>2
      <4> QED BY <2>2, <4>1, <4>2 DEF LockFollowsRun
    <3> QED BY <3>1, <3>2
  <2> QED BY <2>2 DEF LockFollowsRun
<1> QED BY <1>1, <1>2, <1>3, RunsMove

-----------------------------------------------------------------------------
(* The places of the runs.                                                 *)

\* The runs of a company in a process.
Of(s, c) == {j \in Running(s) : CompanyOf[j] = c}

CountOf(s) ==
    /\ IsFiniteSet(Running(s))
    /\ Cardinality(Running(s)) <= MaxConcurrentGlobal
    /\ \A c \in Company : /\ Cardinality(Of(s, c)) <= MaxConcurrentPerCompany
                          /\ perCompany[s][c] = Cardinality(Of(s, c))

CountInv == \A s \in Server : CountOf(s)

\* What is running after a run has moved.
LEMMA RunningMoves ==
    ASSUME NEW s \in Server, NEW j \in Job, NEW t, RunPut(s, j, t)
    PROVE  /\ \A r \in Server : r # s => Running(r)' = Running(r)
           /\ t.phase = "none" => Running(s)' = Running(s) \ {j}
           /\ t.phase # "none" => Running(s)' = Running(s) \cup {j}
BY DEF RunPut, Running

\* One run more, or one less, of one company.
LEMMA OneMore ==
    ASSUME NEW R, IsFiniteSet(R), NEW j, j \notin R
    PROVE  IsFiniteSet(R \cup {j}) /\ Cardinality(R \cup {j}) = Cardinality(R) + 1
BY FS_AddElement

\* Taking one member out of a finite set takes one off its cardinality.
LEMMA OneLess ==
    ASSUME NEW R, IsFiniteSet(R), NEW j \in R
    PROVE  /\ IsFiniteSet(R \ {j}) /\ Cardinality(R \ {j}) = Cardinality(R) - 1
           /\ Cardinality(R) \in Nat /\ Cardinality(R) >= 1
<1>1. IsFiniteSet(R \ {j}) /\ Cardinality(R \ {j}) = Cardinality(R) - 1 BY FS_RemoveElement
<1>2. Cardinality(R) \in Nat /\ Cardinality(R \ {j}) \in Nat BY <1>1, FS_CardinalityType
<1> QED BY <1>1, <1>2

\* A process whose runs and counters stand still keeps its counts.
LEMMA CountStands ==
    ASSUME NEW s \in Server, CountOf(s), Running(s)' = Running(s), perCompany'[s] = perCompany[s]
    PROVE  CountOf(s)'
<1>1. \A c \in Company : Of(s, c)' = Of(s, c) BY DEF Of
<1> QED BY <1>1 DEF CountOf

\* The counter of a company is right after a run has begun.
LEMMA CountBegins ==
    ASSUME Types, PickInv, NEW s \in Server, CountOf(s), NEW j \in Job, NEW t,
           RunPut(s, j, t), Begins(s, j, t)
    PROVE  CountOf(s)'
<1> USE DEF Types
<1> DEFINE d == CompanyOf[j]
<1>0. d \in Company BY ScheduleAssumption
<1>1. /\ j \notin Running(s) /\ Cardinality(Running(s)) < MaxConcurrentGlobal
      /\ perCompany[s][d] < MaxConcurrentPerCompany
  BY DEF Begins, PickInv, HasCapacity
<1>2. Running(s)' = Running(s) \cup {j} BY RunningMoves DEF Begins
<1>3. IsFiniteSet(Running(s)) /\ Cardinality(Running(s)) \in Nat
  BY FS_CardinalityType DEF CountOf
<1>4. /\ IsFiniteSet(Running(s)') /\ Cardinality(Running(s)') = Cardinality(Running(s)) + 1
  BY <1>1, <1>2, <1>3, OneMore
<1>5. MaxConcurrentGlobal \in Nat /\ MaxConcurrentPerCompany \in Nat BY LimitAssumption
<1>6. Cardinality(Running(s)') <= MaxConcurrentGlobal BY <1>1, <1>3, <1>4, <1>5
<1>7. ASSUME NEW c \in Company
      PROVE  /\ Cardinality(Of(s, c)') <= MaxConcurrentPerCompany
             /\ perCompany'[s][c] = Cardinality(Of(s, c)')
  <2>1. IsFiniteSet(Of(s, c)) /\ Cardinality(Of(s, c)) \in Nat
    <3>1. IsFiniteSet(Of(s, c)) BY <1>3, FS_Subset DEF Of
    <3> QED BY <3>1, FS_CardinalityType
  <2>2. CASE c = d
    <3>1. Of(s, c)' = Of(s, c) \cup {j} /\ j \notin Of(s, c) BY <1>1, <1>2, <2>2 DEF Of
    <3>2. Cardinality(Of(s, c)') = Cardinality(Of(s, c)) + 1 BY <2>1, <3>1, OneMore
    <3>3. perCompany'[s][c] = perCompany[s][c] + 1 BY <1>7, <2>2 DEF Begins, RunTypes
    <3>4. perCompany[s][c] = Cardinality(Of(s, c)) BY <1>7 DEF CountOf
    <3> QED BY <1>1, <1>5, <2>1, <2>2, <3>2, <3>3, <3>4
  <2>3. CASE c # d
    <3>1. Of(s, c)' = Of(s, c) BY <1>2, <2>3 DEF Of
    <3>2. perCompany'[s][c] = perCompany[s][c] BY <1>7, <2>3 DEF Begins, RunTypes
    <3> QED BY <1>7, <3>1, <3>2 DEF CountOf
  <2> QED BY <2>2, <2>3
<1> QED BY <1>4, <1>6, <1>7 DEF CountOf

\* The counter of a company is right after a run has ended.
LEMMA CountEnds ==
    ASSUME Types, NEW s \in Server, CountOf(s), NEW j \in Job, NEW t,
           RunPut(s, j, t), Ends(s, j, t)
    PROVE  CountOf(s)'
<1> USE DEF Types
<1> DEFINE d == CompanyOf[j]
<1>0. d \in Company BY ScheduleAssumption
<1>1. j \in Running(s) BY DEF Ends, Running
<1>2. Running(s)' = Running(s) \ {j} BY RunningMoves, NoRunAtAll DEF Ends
<1>3. IsFiniteSet(Running(s)) BY DEF CountOf
<1>4. /\ IsFiniteSet(Running(s)') /\ Cardinality(Running(s)') = Cardinality(Running(s)) - 1
      /\ Cardinality(Running(s)) \in Nat
  BY <1>1, <1>2, <1>3, OneLess
<1>5. MaxConcurrentGlobal \in Nat /\ MaxConcurrentPerCompany \in Nat BY LimitAssumption
<1>6. Cardinality(Running(s)') <= MaxConcurrentGlobal BY <1>4, <1>5 DEF CountOf
<1>7. ASSUME NEW c \in Company
      PROVE  /\ Cardinality(Of(s, c)') <= MaxConcurrentPerCompany
             /\ perCompany'[s][c] = Cardinality(Of(s, c)')
  <2>1. IsFiniteSet(Of(s, c)) BY <1>3, FS_Subset DEF Of
  <2>4. /\ perCompany[s][c] = Cardinality(Of(s, c))
        /\ Cardinality(Of(s, c)) <= MaxConcurrentPerCompany
    BY <1>7 DEF CountOf
  <2>2. CASE c = d
    <3>1. Of(s, c)' = Of(s, c) \ {j} /\ j \in Of(s, c) BY <1>1, <1>2, <2>2 DEF Of
    <3>2. /\ Cardinality(Of(s, c)') = Cardinality(Of(s, c)) - 1
          /\ Cardinality(Of(s, c)) \in Nat /\ Cardinality(Of(s, c)) >= 1
      BY <2>1, <3>1, OneLess
    <3>3. perCompany'[s][c] = IF perCompany[s][c] > 1 THEN perCompany[s][c] - 1 ELSE 0
      BY <1>7, <2>2 DEF Ends, RunTypes
    <3> QED BY <1>5, <2>4, <3>2, <3>3
  <2>3. CASE c # d
    <3>1. Of(s, c)' = Of(s, c) BY <1>2, <2>3 DEF Of
    <3>2. perCompany'[s][c] = perCompany[s][c] BY <1>7, <2>3 DEF Ends, RunTypes
    <3> QED BY <2>4, <3>1, <3>2
  <2> QED BY <2>2, <2>3
<1> QED BY <1>4, <1>6, <1>7 DEF CountOf

\* The counters are right in a process that has lost everything.
LEMMA NothingRuns ==
    ASSUME Types, NEW s \in Server, Gone(s)
    PROVE  CountOf(s)'
<1> USE DEF Types
<1>1. run'[s] = [j \in Job |-> NoRun] /\ perCompany'[s] = [c \in Company |-> 0]
  BY DEF Gone, RunTypes
<1>2. Running(s)' = {} BY <1>1, NoRunAtAll DEF Running
<1>3. \A c \in Company : Of(s, c)' = {} BY <1>2 DEF Of
<1>4. IsFiniteSet({}) /\ Cardinality({}) = 0 BY FS_EmptySet
<1>5. MaxConcurrentGlobal \in Nat /\ MaxConcurrentPerCompany \in Nat BY LimitAssumption
<1> QED BY <1>1, <1>2, <1>3, <1>4, <1>5 DEF CountOf

\* The runs of a process that a step leaves alone.
LEMMA OthersGone ==
    ASSUME Types, NEW s \in Server, Gone(s), NEW r \in Server, r # s
    PROVE  Running(r)' = Running(r) /\ perCompany'[r] = perCompany[r]
<1>1. run'[r] = run[r] /\ perCompany'[r] = perCompany[r] BY DEF Gone, Types, RunTypes
<1> QED BY <1>1 DEF Running

\* The counters per company are inductive.
LEMMA CountStep ==
    ASSUME Types, LockFollowsRun, PickInv, CountInv, Next
    PROVE  CountInv'
<1>1. CASE Runs
  <2>1. PICK s \in Server, j \in Job, t \in RunRec : RunPut(s, j, t) /\ Places(s, j, t)
    BY <1>1 DEF Runs, RunMoves
  <2>2. ASSUME NEW r \in Server PROVE CountOf(r)'
    <3>0. CountOf(r) BY <2>2 DEF CountInv
    <3>1. CASE r = s /\ Begins(s, j, t) BY <2>1, <3>0, <3>1, CountBegins
    <3>2. CASE r = s /\ Ends(s, j, t) BY <2>1, <3>0, <3>2, CountEnds
    <3>3. CASE r = s /\ Goes(s, j, t)
      <4>1. Running(s)' = Running(s) \cup {j} BY <2>1, <3>3, RunningMoves DEF Goes
      <4>2. j \in Running(s) BY <3>3 DEF Goes, Running
      <4>3. Running(s)' = Running(s) BY <4>1, <4>2
      <4>4. perCompany'[s] = perCompany[s] BY <3>3 DEF Goes
      <4> QED BY <3>0, <3>3, <4>3, <4>4, CountStands
    <3>4. CASE r # s
      <4>1. Running(r)' = Running(r) BY <2>1, <2>2, <3>4, RunningMoves
      <4>2. perCompany'[r] = perCompany[r]
        BY <2>1, <2>2, <3>4 DEF Places, Begins, Goes, Ends, Types, RunTypes
      <4> QED BY <2>2, <3>0, <4>1, <4>2, CountStands
    <3> QED BY <2>1, <3>1, <3>2, <3>3, <3>4 DEF Places
  <2> QED BY <2>2 DEF CountInv
<1>2. CASE Quiet
  <2>1. \A r \in Server : Running(r)' = Running(r) /\ perCompany'[r] = perCompany[r]
    BY <1>2 DEF Quiet, Running
  <2> QED BY <2>1, CountStands DEF CountInv
<1>3. ASSUME NEW s \in Server, Gone(s) PROVE CountInv'
  <2>1. \A r \in Server : r # s => CountOf(r)' BY <1>3, OthersGone, CountStands DEF CountInv
  <2>2. CountOf(s)' BY <1>3, NothingRuns
  <2> QED BY <2>1, <2>2 DEF CountInv
<1> QED BY <1>1, <1>2, <1>3, RunsMove

\* A place stays free while nothing is started.
LEMMA CapacityStands ==
    ASSUME NEW s \in Server, NEW j \in Job, CountOf(s), CountOf(s)', HasCapacity(s, j),
           Running(s)' \subseteq Running(s)
    PROVE  HasCapacity(s, j)'
<1> DEFINE c == CompanyOf[j]
<1>0. c \in Company BY ScheduleAssumption
<1>1. IsFiniteSet(Running(s)) BY DEF CountOf
<1>2. /\ Cardinality(Running(s)') <= Cardinality(Running(s))
      /\ Cardinality(Running(s)') \in Nat /\ Cardinality(Running(s)) \in Nat
  BY <1>1, FS_Subset, FS_CardinalityType
<1>3. Of(s, c)' \subseteq Of(s, c) /\ IsFiniteSet(Of(s, c)) BY <1>1, FS_Subset DEF Of
<1>4. /\ Cardinality(Of(s, c)') <= Cardinality(Of(s, c))
      /\ Cardinality(Of(s, c)') \in Nat /\ Cardinality(Of(s, c)) \in Nat
  BY <1>3, FS_Subset, FS_CardinalityType
<1>5. perCompany[s][c] = Cardinality(Of(s, c)) /\ perCompany'[s][c] = Cardinality(Of(s, c)')
  BY <1>0 DEF CountOf
<1>6. MaxConcurrentGlobal \in Nat /\ MaxConcurrentPerCompany \in Nat BY LimitAssumption
<1>7. /\ j \notin Running(s)' /\ Cardinality(Running(s)') < MaxConcurrentGlobal
  BY <1>2, <1>6 DEF HasCapacity
<1>8. perCompany'[s][c] < MaxConcurrentPerCompany BY <1>4, <1>5, <1>6 DEF HasCapacity
<1> QED BY <1>7, <1>8 DEF HasCapacity

\* What the engine of s has picked after a step.
LEMMA PicksMove ==
    ASSUME Types, EngInv, Next, NEW s \in Server, eng'[s].pc = "start"
    PROVE  \/ eng[s].pc = "start" /\ eng'[s].picked = eng[s].picked
           \/ /\ eng'[s].picked \in eng[s].batch /\ HasCapacity(s, eng'[s].picked.job)
              /\ UNCHANGED <<run, perCompany>>
BY EnginesMove DEF Engines, EngStep, EngPut, Chosen

\* No run begins in a step that leaves a job picked and not yet started.
LEMMA RunningShrinks ==
    ASSUME Types, LockFollowsRun, PickInv, Next, NEW s \in Server, eng'[s].pc = "start"
    PROVE  Running(s)' \subseteq Running(s)
<1>1. CASE Runs
  <2>1. PICK r \in Server, j \in Job, t \in RunRec : RunPut(r, j, t) /\ Places(r, j, t)
    BY <1>1 DEF Runs, RunMoves
  <2>2. CASE r # s BY <2>1, <2>2, RunningMoves
  <2>3. CASE r = s
    <3>1. CASE Begins(s, j, t) BY <3>1 DEF Begins
    <3>2. CASE Goes(s, j, t)
      <4>1. Running(s)' = Running(s) \cup {j} BY <2>1, <2>3, <3>2, RunningMoves DEF Goes
      <4>2. j \in Running(s) BY <3>2 DEF Goes, Running
      <4> QED BY <4>1, <4>2
    <3>3. CASE Ends(s, j, t) BY <2>1, <2>3, <3>3, RunningMoves, NoRunAtAll DEF Ends
    <3> QED BY <2>1, <2>3, <3>1, <3>2, <3>3 DEF Places
  <2> QED BY <2>2, <2>3
<1>2. CASE Quiet BY <1>2 DEF Quiet, Running
<1>3. ASSUME NEW r \in Server, Gone(r) PROVE Running(s)' \subseteq Running(s)
  <2>1. CASE r = s
    <3>1. eng'[s] = Idle BY <1>3, <2>1 DEF Gone, Types, EngTypes
    <3> QED BY <3>1, IdleEngine DEF IsEng
  <2>2. CASE r # s BY <1>3, <2>2, OthersGone
  <2> QED BY <2>1, <2>2
<1> QED BY <1>1, <1>2, <1>3, RunsMove

\* What was picked still fits under the limits when it is started.
LEMMA PickStep ==
    ASSUME Types, EngInv, LockFollowsRun, PickInv, CountInv, Next
    PROVE  PickInv'
<1> SUFFICES ASSUME NEW s \in Server, eng'[s].pc = "start"
             PROVE  eng'[s].picked \in RowRec /\ HasCapacity(s, eng[s].picked.job)'
  BY DEF PickInv
<1>1. CASE eng[s].pc = "start" /\ eng'[s].picked = eng[s].picked
  <2>1. eng[s].picked \in RowRec /\ HasCapacity(s, eng[s].picked.job) BY <1>1 DEF PickInv
  <2>2. CountOf(s) /\ CountOf(s)' BY CountStep DEF CountInv
  <2> DEFINE j == eng[s].picked.job
  <2>3. j \in Job BY <2>1, RowFields
  <2>4. Running(s)' \subseteq Running(s) BY RunningShrinks
  <2> HIDE DEF j
  <2>5. \A i \in Job : HasCapacity(s, i) => HasCapacity(s, i)' BY <2>2, <2>4, CapacityStands
  <2> QED BY <1>1, <2>1, <2>3, <2>5 DEF j, HasCapacity
<1>2. CASE /\ eng'[s].picked \in eng[s].batch /\ HasCapacity(s, eng'[s].picked.job)
           /\ UNCHANGED <<run, perCompany>>
  <2>1. eng'[s].picked \in RowRec BY <1>2, EngFields DEF Types
  <2>2. HasCapacity(s, eng[s].picked.job)' BY <1>2 DEF HasCapacity, Running
  <2> QED BY <2>1, <2>2
<1> QED BY <1>1, <1>2, PicksMove

-----------------------------------------------------------------------------
(* The jobs and their schedules.                                           *)

\* The nextRunAt of j becomes n, and that of no other job moves.
NextTo(j, n) == /\ job'[j].next = n
                /\ \A i \in Job : i # j => job'[i].next = job[i].next

\* Where a nextRunAt comes from that no claim has written: a pause, a resumed, edited or
\* unscheduled job, a manual run or a retry.
Fresh(j, n) ==
    \/ n = NoNext /\ "pause" \in UserOps
    \/ /\ n = NextRunAt(j, now)
       /\ {"resume", "schedule"} \cap UserOps # {} \/ \E s \in Server : j \in eng[s].bare
    \/ n = [at |-> now, src |-> "manual"] /\ j \in asked /\ NewReading(j)
    \/ /\ n # NoNext /\ Earlier(n, job[j].next)
       /\ \E s \in Server : run[s][j].phase = "update" /\ n = run[s][j].retryAt

Claims(s, b) ==
    /\ b \in eng[s].batch /\ AsRead(b)
    /\ NextTo(b.job, NextRunAt(b.job, eng[s].at))
    /\ claims' = [claims EXCEPT ![b.job] = [t \in Time |->
                     IF t \in Covered(b.job, b.next, eng[s].at) THEN @[t] + 1 ELSE @[t]]]
    /\ UNCHANGED now

Punctual == \A s \in Server, j \in Job :
               run[s][j].phase \in {"handler", "record", "update"} => now < run[s][j].deadline

Unscheduled == \A j \in Job : job'[j].next = job[j].next

JobsMove ==
    \/ UNCHANGED <<now, claims>> /\ Unscheduled
    \/ \E s \in Server, b \in RowRec : Claims(s, b)
    \/ UNCHANGED <<now, claims>> /\ \E j \in Job, n \in NextVal : NextTo(j, n) /\ Fresh(j, n)
    \/ now' = now + 1 /\ now < MaxTime /\ Punctual /\ UNCHANGED claims /\ Unscheduled

\* A job that is paused is unscheduled with it.
Pauses == \A j \in Job : job[j].active /\ ~job'[j].active => job'[j].next = NoNext

JobsKept == /\ job' \in [Job -> JobRow]
            /\ Pauses
            /\ "timeout" \notin UserOps => \A j \in Job : job'[j].timeout = job[j].timeout
            /\ asked' \subseteq Job
            /\ "run" \notin UserOps => asked' \subseteq asked

Jobs == JobsMove /\ JobsKept

\* What a job is once its fields are written.
LEMMA JobShapes ==
    ASSUME NEW r \in JobRow, NEW n \in NextVal
    PROVE  /\ [r EXCEPT !.next = n] \in JobRow
           /\ [r EXCEPT !.next = n].next = n
           /\ [r EXCEPT !.next = n].timeout = r.timeout
           /\ [r EXCEPT !.next = n].active = r.active
           /\ [r EXCEPT !.active = TRUE, !.next = n] \in JobRow
           /\ [r EXCEPT !.active = TRUE, !.next = n].next = n
           /\ [r EXCEPT !.active = TRUE, !.next = n].timeout = r.timeout
           /\ [r EXCEPT !.active = TRUE, !.next = n].active
           /\ [r EXCEPT !.active = FALSE, !.next = n] \in JobRow
           /\ [r EXCEPT !.active = FALSE, !.next = n].next = n
           /\ [r EXCEPT !.active = FALSE, !.next = n].timeout = r.timeout
BY DEF JobRow

\* A row put in the place of another.
LEMMA PuttingJob ==
    ASSUME JobTypes, NEW j \in Job, NEW r \in JobRow, job' = [job EXCEPT ![j] = r],
           r.timeout = job[j].timeout,
           r.active \/ ~job[j].active \/ r.next = NoNext
    PROVE  /\ NextTo(j, r.next)
           /\ job' \in [Job -> JobRow]
           /\ Pauses
           /\ \A i \in Job : job'[i].timeout = job[i].timeout
BY DEF JobTypes, NextTo, Pauses

\* Writing nextRunAt leaves the timeout and the pause of a job alone.
LEMMA PuttingNext ==
    ASSUME JobTypes, NEW j \in Job, NEW n \in NextVal, job' = [job EXCEPT ![j].next = n]
    PROVE  /\ NextTo(j, n)
           /\ job' \in [Job -> JobRow]
           /\ Pauses
           /\ \A i \in Job : job'[i].timeout = job[i].timeout
<1> DEFINE r == [job[j] EXCEPT !.next = n]
<1>1. job[j] \in JobRow BY JobFields
<1>2. r \in JobRow /\ r.next = n /\ r.timeout = job[j].timeout /\ r.active = job[j].active
  BY <1>1, JobShapes
<1>3. job' = [job EXCEPT ![j] = r] BY DEF JobTypes
<1> HIDE DEF r
<1> QED BY <1>2, <1>3, PuttingJob

\* A step that leaves the rows alone keeps all of Jobs.
LEMMA JobsStill ==
    ASSUME JobTypes, UNCHANGED job, asked' \subseteq asked
    PROVE  JobsKept /\ Unscheduled
BY DEF JobTypes, JobsKept, Pauses, Unscheduled

\* A claim of the scheduler: won or lost.
LEMMA ClaimMoves ==
    ASSUME Types, NEW s \in Server, Claim(s)
    PROVE  Jobs
<1> USE DEF Types
<1>1. PICK b \in First(eng[s].batch) :
        /\ job' = IF AsRead(b) THEN [job EXCEPT ![b.job].next = NextRunAt(b.job, eng[s].at)] ELSE job
        /\ claims' = [claims EXCEPT ![b.job] = [t \in Time |->
               IF AsRead(b) /\ t \in Covered(b.job, b.next, eng[s].at) THEN @[t] + 1 ELSE @[t]]]
  BY DEF Claim
<1>2. b \in eng[s].batch /\ b \in RowRec /\ b.job \in Job BY <1>1, EngFields, RowFields DEF First
<1>3. UNCHANGED <<now, asked>> BY DEF Claim, SchedulerOnly
<1>4. CASE AsRead(b)
  <2> DEFINE n == NextRunAt(b.job, eng[s].at)
  <2>1. n \in NextVal BY <1>2, EngFields, NextOccurrence
  <2>2. job' = [job EXCEPT ![b.job].next = n] BY <1>1, <1>4
  <2>3. NextTo(b.job, n) /\ JobsKept
    <3> HIDE DEF n
    <3> QED BY <1>2, <1>3, <2>1, <2>2, PuttingNext DEF JobsKept, JobTypes
  <2>4. claims' = [claims EXCEPT ![b.job] = [t \in Time |->
               IF t \in Covered(b.job, b.next, eng[s].at) THEN @[t] + 1 ELSE @[t]]]
    BY <1>1, <1>4
  <2> QED BY <1>2, <1>3, <1>4, <2>3, <2>4 DEF Claims, Jobs, JobsMove
<1>5. CASE ~AsRead(b)
  <2>1. claims' = [claims EXCEPT ![b.job] = [t \in Time |-> @[t]]] BY <1>1, <1>5
  <2>2. claims' = claims BY <1>2, <2>1 DEF JobTypes
  <2>3. job' = job BY <1>1, <1>5
  <2> QED BY <1>3, <2>2, <2>3, JobsStill DEF Jobs, JobsMove
<1> QED BY <1>4, <1>5

\* Every step moves the rows as Jobs says.
LEMMA JobsMoveOn ==
    ASSUME Types, Next
    PROVE  Jobs
<1> USE DEF Types
<1>n. now \in Nat BY Clock
<1>u. UNCHANGED <<now, job, claims, asked>> => Jobs BY JobsStill DEF Jobs, JobsMove
\* A fresh nextRunAt.
<1>f. ASSUME NEW j \in Job, NEW n \in NextVal, Fresh(j, n), NextTo(j, n), JobsKept,
             UNCHANGED <<now, claims>>
      PROVE  Jobs
  BY <1>f DEF Jobs, JobsMove
<1>r. \A j \in Job : NextRunAt(j, now) \in NextVal BY <1>n, NextOccurrence
<1>1. ASSUME NEW s \in Server, Tick(s) PROVE Jobs
  <2>1. CASE Claim(s) BY <1>1, <2>1, ClaimMoves
  <2>2. CASE Reschedule(s)
    <3>1. PICK j \in eng[s].bare : job' = [job EXCEPT ![j].next = NextRunAt(j, now)]
      BY <2>2 DEF Reschedule
    <3>2. j \in Job BY <1>1, <3>1, EngFields
    <3>3. UNCHANGED <<now, claims, asked>> BY <2>2 DEF Reschedule, SchedulerOnly
    <3> DEFINE n == NextRunAt(j, now)
    <3>4. n \in NextVal BY <1>r, <3>2
    <3>5. Fresh(j, n) BY <1>1, <3>1 DEF Fresh
    <3> HIDE DEF n
    <3>6. NextTo(j, n) /\ JobsKept
      BY <3>1, <3>2, <3>3, <3>4, PuttingNext DEF JobsKept, JobTypes, n
    <3> QED BY <1>f, <3>2, <3>3, <3>4, <3>5, <3>6
  <2>3. CASE \/ Renew(s) \/ AcquireLeader(s) \/ FindDueJobs(s) \/ PassOver(s) \/ Start(s)
             \/ EndBatch(s) \/ FindStuck(s) \/ CloseStuck(s) \/ FindUnscheduled(s)
    BY <2>3, <1>u DEF Renew, AcquireLeader, FindDueJobs, PassOver, Start, EndBatch, FindStuck,
                      CloseStuck, FindUnscheduled, SchedulerOnly
  <2> QED BY <1>1, <2>1, <2>2, <2>3 DEF Tick
<1>2. ASSUME NEW s \in Server,
             TickFails(s) \/ Restart(s) \/ Stop(s) \/ ReleaseLeader(s) \/ Crash(s) \/ Exit(s)
      PROVE  Jobs
  BY <1>2, <1>u DEF TickFails, Restart, Stop, ReleaseLeader, Crash, Exit, Gone
<1>3. ASSUME NEW s \in Server, NEW j \in Job, UpdateJob(s, j) PROVE Jobs
  <2> DEFINE n == run[s][j].retryAt
  <2>1. n \in NextVal BY <1>3, RunFields
  <2>2. UNCHANGED <<now, claims, asked>> BY <1>3 DEF UpdateJob, RunnerOnly
  <2>3. CASE n # NoNext /\ Earlier(n, job[j].next)
    <3>1. job' = [job EXCEPT ![j].next = n] BY <1>3, <2>3 DEF UpdateJob
    <3>2. Fresh(j, n) BY <1>3, <2>3 DEF Fresh, UpdateJob, Phase
    <3> HIDE DEF n
    <3>3. NextTo(j, n) /\ JobsKept
      BY <1>3, <2>1, <2>2, <3>1, PuttingNext DEF JobsKept, JobTypes
    <3> QED BY <1>3, <1>f, <2>1, <2>2, <3>2, <3>3
  <2>4. CASE ~(n # NoNext /\ Earlier(n, job[j].next))
    <3>1. UNCHANGED job BY <1>3, <2>4 DEF UpdateJob
    <3> QED BY <1>u, <2>2, <3>1
  <2> QED BY <2>3, <2>4
<1>4. ASSUME NEW s \in Server, NEW j \in Job,
             \/ LockJob(s, j) \/ ReadLast(s, j) \/ Create(s, j) \/ TimeOut(s, j) \/ Record(s, j)
             \/ Release(s, j) \/ Settle(s, j) \/ OperationFails(s, j)
      PROVE  Jobs
  BY <1>4, <1>u DEF LockJob, ReadLast, Create, TimeOut, Record, Release, Settle, Settled,
                    OperationFails, RunnerOnly
<1>5. ASSUME NEW j \in Job, UserOp(j) PROVE Jobs
  <2>c. UNCHANGED <<now, claims>>
    BY <1>5 DEF UserOp, UserStep, Pause, Resume, AskRun, RunNow, EditSchedule, EditTimeout
  <2>j. job[j] \in JobRow BY <1>5, JobFields
  <2>1. CASE Pause(j)
    <3> DEFINE n == NoNext
               r == [job[j] EXCEPT !.active = FALSE, !.next = n]
    <3>1. n \in NextVal BY DEF NextVal, NoNext
    <3>2. job' = [job EXCEPT ![j] = r] /\ UNCHANGED asked /\ "pause" \in UserOps
      BY <2>1 DEF Pause, UserStep
    <3>3. Fresh(j, n) /\ n = NoNext BY <3>2 DEF Fresh
    <3> HIDE DEF n
    <3>4. r \in JobRow /\ r.next = n /\ r.timeout = job[j].timeout BY <2>j, <3>1, JobShapes
    <3> HIDE DEF r
    <3>5. NextTo(j, n) /\ JobsKept
      BY <1>5, <3>2, <3>3, <3>4, PuttingJob DEF JobsKept, JobTypes
    <3> QED BY <1>5, <1>f, <2>c, <3>1, <3>3, <3>5
  <2>2. CASE Resume(j)
    <3> DEFINE n == NextRunAt(j, now)
               r == [job[j] EXCEPT !.active = TRUE, !.next = n]
    <3>1. n \in NextVal BY <1>5, <1>r
    <3>2. job' = [job EXCEPT ![j] = r] /\ UNCHANGED asked /\ "resume" \in UserOps
      BY <2>2 DEF Resume, UserStep
    <3>3. Fresh(j, n) BY <3>2 DEF Fresh
    <3> HIDE DEF n
    <3>4. r \in JobRow /\ r.next = n /\ r.timeout = job[j].timeout /\ r.active
      BY <2>j, <3>1, JobShapes
    <3> HIDE DEF r
    <3>5. NextTo(j, n) /\ JobsKept
      BY <1>5, <3>2, <3>4, PuttingJob DEF JobsKept, JobTypes
    <3> QED BY <1>5, <1>f, <2>c, <3>1, <3>3, <3>5
  <2>3. CASE AskRun(j)
    <3>1. UNCHANGED job /\ asked' = asked \cup {j} /\ "run" \in UserOps
      BY <2>3 DEF AskRun, UserStep
    <3> QED BY <1>5, <2>c, <3>1 DEF Jobs, JobsMove, JobsKept, Pauses, JobTypes, Unscheduled
  <2>4. CASE RunNow(j)
    <3> DEFINE n == [at |-> now, src |-> "manual"]
    <3>1. n \in NextVal BY <1>n DEF NextVal
    <3>2. /\ job' = [job EXCEPT ![j].next = n] /\ asked' \subseteq asked
          /\ j \in asked /\ NewReading(j)
      BY <2>4 DEF RunNow
    <3>3. Fresh(j, n) BY <3>2 DEF Fresh
    <3> HIDE DEF n
    <3>4. NextTo(j, n) /\ JobsKept
      BY <1>5, <3>1, <3>2, PuttingNext DEF JobsKept, JobTypes
    <3> QED BY <1>5, <1>f, <2>c, <3>1, <3>3, <3>4
  <2>5. CASE EditSchedule(j)
    <3>1. CASE job[j].active
      <4> DEFINE n == NextRunAt(j, now)
      <4>1. n \in NextVal BY <1>5, <1>r
      <4>2. job' = [job EXCEPT ![j].next = n] /\ UNCHANGED asked /\ "schedule" \in UserOps
        BY <2>5, <3>1 DEF EditSchedule, UserStep
      <4>3. Fresh(j, n) BY <4>2 DEF Fresh
      <4> HIDE DEF n
      <4>4. NextTo(j, n) /\ JobsKept
        BY <1>5, <4>1, <4>2, PuttingNext DEF JobsKept, JobTypes
      <4> QED BY <1>5, <1>f, <2>c, <4>1, <4>3, <4>4
    <3>2. CASE ~job[j].active
      <4>1. UNCHANGED <<job, asked>> BY <2>5, <3>2 DEF EditSchedule
      <4> QED BY <1>u, <2>c, <4>1
    <3> QED BY <3>1, <3>2
  <2>6. CASE EditTimeout(j)
    <3>1. PICK t \in 1..Timeout[j] : job' = [job EXCEPT ![j].timeout = t] BY <2>6 DEF EditTimeout
    <3>2. UNCHANGED asked /\ "timeout" \in UserOps BY <2>6 DEF EditTimeout, UserStep
    <3>3. t \in Nat BY <1>5, <3>1, ScheduleAssumption
    <3> DEFINE r == [job[j] EXCEPT !.timeout = t]
    <3>4. r \in JobRow /\ r.next = job[j].next /\ r.active = job[j].active
      BY <2>j, <3>3 DEF JobRow
    <3>5. job' = [job EXCEPT ![j] = r] BY <1>5, <3>1 DEF JobTypes
    <3> HIDE DEF r
    <3>6. job' \in [Job -> JobRow] /\ Unscheduled /\ Pauses
      BY <1>5, <3>4, <3>5 DEF JobTypes, Unscheduled, Pauses
    <3> QED BY <2>c, <3>2, <3>6 DEF Jobs, JobsMove, JobsKept, JobTypes
  <2> QED BY <1>5, <2>1, <2>2, <2>3, <2>4, <2>5, <2>6 DEF UserOp
<1>6. ASSUME NEW j \in Job, JobLockExpires(j) PROVE Jobs
  BY <1>6, <1>u DEF JobLockExpires
<1>7. CASE LeaderLockExpires BY <1>7, <1>u DEF LeaderLockExpires
<1>8. CASE Advance
  <2>1. now' = now + 1 /\ now < MaxTime /\ Punctual /\ UNCHANGED <<job, claims, asked>>
    BY <1>8 DEF Advance, Punctual
  <2> QED BY <2>1, JobsStill DEF Jobs, JobsMove
<1> QED BY <1>1, <1>2, <1>3, <1>4, <1>5, <1>6, <1>7, <1>8 DEF Next, RunStep

-----------------------------------------------------------------------------
(* The executions and their attempts.                                      *)

\* An execution of a job with m retries: only one that may be retried says so.
RowOK(x, m) == x \in Exec /\ x.attempt <= m + 1 /\ (x.retry => x.attempt <= m)

RowsInv ==
    \A j \in Job : /\ Len(execs[j]) <= MaxExecs
                   /\ \A i \in 1..Len(execs[j]) : RowOK(execs[j][i], MaxRetries[j])

\* A run and the executions x of its job.
Sound(r, x, m) ==
    /\ r.phase \in {"create", "handler", "record"} => r.attempt \in 1..(m + 1)
    /\ r.phase \in {"handler", "record"} =>
          r.exec \in 1..Len(x) /\ x[r.exec].attempt = r.attempt
    /\ r.phase = "record" => /\ r.outcome \in {"success", "failed", "timeout"}
                             /\ r.retryAt # NoNext => r.attempt <= m

RunsInv == \A s \in Server, j \in Job : Sound(run[s][j], execs[j], MaxRetries[j])

\* Executions are never removed, and keep their attempt and their time.
Extends(x, y) == /\ Len(x) <= Len(y)
                 /\ \A i \in 1..Len(x) : y[i].attempt = x[i].attempt /\ y[i].at = x[i].at

\* The executions of a job are a sequence of executions.
LEMMA ExecsOf ==
    ASSUME ExecTypes, NEW j \in Job
    PROVE  /\ execs[j] \in Seq(Exec) /\ Len(execs[j]) \in Nat
           /\ DOMAIN execs[j] = 1..Len(execs[j])
           /\ \A i \in 1..Len(execs[j]) : execs[j][i] \in Exec
<1>1. execs[j] \in Seq(Exec) BY DEF ExecTypes
<1> QED BY <1>1, LenProperties, ElementOfSeq

\* An execution that self-heal closes keeps its attempt.
LEMMA ClosedRow ==
    ASSUME NEW x, NEW m, RowOK(x, m)
    PROVE  LET y == [x EXCEPT !.status = "timeout"]
           IN RowOK(y, m) /\ y.attempt = x.attempt /\ y.at = x.at
BY DEF RowOK, Exec

\* An execution that its runner records keeps its attempt.
LEMMA RecordedRow ==
    ASSUME NEW x, NEW m, RowOK(x, m), NEW o \in {"success", "failed", "timeout"}, NEW b \in BOOLEAN,
           b => x.attempt <= m
    PROVE  LET y == [x EXCEPT !.status = o, !.retry = b]
           IN RowOK(y, m) /\ y.attempt = x.attempt /\ y.at = x.at
BY DEF RowOK, Exec

\* What a run knows of its execution outlives the growth of the log.
LEMMA SoundStays ==
    ASSUME NEW r, NEW x \in Seq(Exec), NEW y \in Seq(Exec), NEW m \in Nat,
           Sound(r, x, m), Extends(x, y)
    PROVE  Sound(r, y, m)
<1>1. Len(x) \in Nat /\ Len(y) \in Nat BY LenProperties
<1> QED BY <1>1 DEF Sound, Extends

\* What every step that writes an execution leaves behind.
Written == /\ execs' \in [Job -> Seq(Exec)]
           /\ \A j \in Job : /\ Len(execs'[j]) <= MaxExecs
                             /\ \A i \in 1..Len(execs'[j]) : RowOK(execs'[j][i], MaxRetries[j])
                             /\ Extends(execs[j], execs'[j])

\* A step that leaves the executions alone.
LEMMA WrittenNothing ==
    ASSUME Types, RowsInv, UNCHANGED execs
    PROVE  Written
<1>1. \A j \in Job : Len(execs[j]) \in Nat BY ExecsOf DEF Types
<1> QED BY <1>1 DEF Types, ExecTypes, RowsInv, Written, Extends

\* The executions of one job are replaced.
LEMMA WrittenOne ==
    ASSUME Types, RowsInv, NEW j \in Job, NEW x \in Seq(Exec),
           execs' = [execs EXCEPT ![j] = x], Len(x) <= MaxExecs,
           \A i \in 1..Len(x) : RowOK(x[i], MaxRetries[j]), Extends(execs[j], x)
    PROVE  Written
<1>1. \A i \in Job : Len(execs[i]) \in Nat BY ExecsOf DEF Types
<1>2. execs'[j] = x /\ \A i \in Job : i # j => execs'[i] = execs[i] BY DEF Types, ExecTypes
<1>3. execs' \in [Job -> Seq(Exec)] BY DEF Types, ExecTypes
<1>4. ASSUME NEW i \in Job
      PROVE  /\ Len(execs'[i]) <= MaxExecs
             /\ \A k \in 1..Len(execs'[i]) : RowOK(execs'[i][k], MaxRetries[i])
             /\ Extends(execs[i], execs'[i])
  <2>1. CASE i = j BY <2>1, <1>2
  <2>2. CASE i # j BY <1>1, <1>2, <1>4, <2>2 DEF RowsInv, Extends
  <2> QED BY <2>1, <2>2
<1> QED BY <1>3, <1>4 DEF Written

\* What a run writes when it creates its execution.
LEMMA WrittenByCreate ==
    ASSUME Types, RowsInv, RunsInv, NEW s \in Server, NEW j \in Job, NEW t \in RunRec,
           Creates(s, j, t)
    PROVE  /\ Written
           /\ execs'[j][t.exec].attempt = t.attempt /\ t.exec \in 1..Len(execs'[j])
           /\ t.exec = Len(execs[j]) + 1
           /\ execs'[j][t.exec].status = "running" /\ execs'[j][t.exec].at = now
<1> DEFINE row == [status |-> "running", attempt |-> t.attempt, retry |-> FALSE, at |-> now]
           x == Append(execs[j], row)
<1>m. MaxRetries[j] \in Nat BY ScheduleAssumption
<1>1. t.attempt \in 1..(MaxRetries[j] + 1) BY DEF Creates, RunsInv, Sound
<1>2. row \in Exec BY <1>1, <1>m DEF Exec, Types, JobTypes
<1>3. RowOK(row, MaxRetries[j]) BY <1>1, <1>2, <1>m DEF RowOK
<1>4. execs[j] \in Seq(Exec) /\ Len(execs[j]) \in Nat BY ExecsOf DEF Types
<1>5. /\ row.attempt = t.attempt /\ row.status = "running" /\ row.at = now OBVIOUS
<1>6. execs' = [execs EXCEPT ![j] = x] /\ t.exec = Len(execs[j]) + 1 /\ Len(execs[j]) < MaxExecs
  BY DEF Creates
<1> HIDE DEF row
<1>7. /\ x \in Seq(Exec) /\ Len(x) = Len(execs[j]) + 1
      /\ x[Len(execs[j]) + 1] = row
      /\ \A i \in 1..Len(execs[j]) : x[i] = execs[j][i]
  BY <1>2, <1>4, AppendProperties
<1> HIDE DEF x
<1>8. Len(x) <= MaxExecs BY <1>4, <1>6, <1>7, BoundAssumption
<1>9. \A i \in 1..Len(x) : RowOK(x[i], MaxRetries[j]) BY <1>3, <1>4, <1>7 DEF RowsInv
<1>10. Extends(execs[j], x) BY <1>4, <1>7 DEF Extends
<1>11. Written BY <1>6, <1>7, <1>8, <1>9, <1>10, WrittenOne
<1>12. execs'[j] = x BY <1>6 DEF Types, ExecTypes
<1> QED BY <1>4, <1>5, <1>6, <1>7, <1>11, <1>12

\* What a run writes when it records an outcome: its own execution only.
LEMMA WrittenByRecord ==
    ASSUME Types, RowsInv, RunsInv, NEW s \in Server, NEW j \in Job, NEW t \in RunRec,
           Records(s, j, t)
    PROVE  /\ Written
           /\ \A i \in 1..Len(execs[j]) : i # run[s][j].exec => execs'[j][i] = execs[j][i]
           /\ \A i \in Job : i # j => execs'[i] = execs[i]
<1> DEFINE k == run[s][j].exec
           o == run[s][j].outcome
           b == execs[j][k].retry \/ run[s][j].retryAt # NoNext
           row == [execs[j][k] EXCEPT !.status = o, !.retry = b]
           x == [execs[j] EXCEPT ![k] = row]
<1>m. MaxRetries[j] \in Nat BY ScheduleAssumption
<1>1. /\ k \in 1..Len(execs[j]) /\ execs[j][k].attempt = run[s][j].attempt
      /\ o \in {"success", "failed", "timeout"}
      /\ run[s][j].retryAt # NoNext => run[s][j].attempt <= MaxRetries[j]
  BY DEF Records, RunsInv, Sound
<1>2. RowOK(execs[j][k], MaxRetries[j]) BY <1>1 DEF RowsInv
<1>3. b \in BOOLEAN /\ (b => execs[j][k].attempt <= MaxRetries[j]) BY <1>1, <1>2 DEF RowOK
<1>4. execs[j] \in Seq(Exec) /\ Len(execs[j]) \in Nat BY ExecsOf DEF Types
<1>5. execs' = [execs EXCEPT ![j] = x]
  <2>1. execs' = [execs EXCEPT ![j][k] = row] BY DEF Records
  <2> HIDE DEF row, k
  <2> QED BY <2>1 DEF Types, ExecTypes
<1> HIDE DEF b, o, k
<1>6. /\ RowOK(row, MaxRetries[j]) /\ row.attempt = execs[j][k].attempt /\ row.at = execs[j][k].at
  BY <1>1, <1>2, <1>3, RecordedRow
<1>7. row \in Exec BY <1>6 DEF RowOK
<1> HIDE DEF row
<1>8. /\ x \in Seq(Exec) /\ Len(x) = Len(execs[j])
      /\ \A i \in 1..Len(execs[j]) : x[i] = IF i = k THEN row ELSE execs[j][i]
  BY <1>1, <1>4, <1>7, ExceptSeq
<1> HIDE DEF x
<1>9. Len(x) <= MaxExecs /\ \A i \in 1..Len(x) : RowOK(x[i], MaxRetries[j])
  BY <1>6, <1>8 DEF RowsInv
<1>10. Extends(execs[j], x) BY <1>4, <1>6, <1>8 DEF Extends
<1>11. Written BY <1>5, <1>8, <1>9, <1>10, WrittenOne
<1>12. execs'[j] = x /\ \A i \in Job : i # j => execs'[i] = execs[i]
  BY <1>5 DEF Types, ExecTypes
<1> QED BY <1>8, <1>11, <1>12 DEF k

\* What self-heal writes: executions that were found stuck and still run.
LEMMA WrittenByClose ==
    ASSUME Types, RowsInv, NEW s \in Server, CloseStuck(s)
    PROVE  /\ Written
           /\ \A j \in Job : /\ Len(execs'[j]) = Len(execs[j])
                             /\ \A i \in 1..Len(execs[j]) :
                                   \/ execs'[j][i] = execs[j][i]
                                   \/ <<j, i>> \in eng[s].stuck /\ execs[j][i].status = "running"
<1>1. execs' = [j \in Job |-> [i \in DOMAIN execs[j] |->
                    IF <<j, i>> \in eng[s].stuck /\ execs[j][i].status = "running"
                    THEN [execs[j][i] EXCEPT !.status = "timeout"]
                    ELSE execs[j][i]]]
  BY DEF CloseStuck
<1>2. ASSUME NEW j \in Job
      PROVE  /\ execs'[j] \in Seq(Exec) /\ Len(execs'[j]) = Len(execs[j])
             /\ \A i \in 1..Len(execs[j]) :
                   /\ RowOK(execs'[j][i], MaxRetries[j])
                   /\ execs'[j][i].attempt = execs[j][i].attempt
                   /\ execs'[j][i].at = execs[j][i].at
                   /\ \/ execs'[j][i] = execs[j][i]
                      \/ <<j, i>> \in eng[s].stuck /\ execs[j][i].status = "running"
  <2> DEFINE n == Len(execs[j])
             row(i) == IF <<j, i>> \in eng[s].stuck /\ execs[j][i].status = "running"
                       THEN [execs[j][i] EXCEPT !.status = "timeout"]
                       ELSE execs[j][i]
  <2>1. execs[j] \in Seq(Exec) /\ n \in Nat /\ DOMAIN execs[j] = 1..n BY <1>2, ExecsOf DEF Types
  <2>2. execs'[j] = [i \in 1..n |-> row(i)] BY <1>1, <1>2, <2>1
  <2>3. ASSUME NEW i \in 1..n
        PROVE  /\ RowOK(row(i), MaxRetries[j]) /\ row(i).attempt = execs[j][i].attempt
               /\ row(i).at = execs[j][i].at
               /\ \/ row(i) = execs[j][i]
                  \/ <<j, i>> \in eng[s].stuck /\ execs[j][i].status = "running"
    <3>1. RowOK(execs[j][i], MaxRetries[j]) BY <1>2, <2>3 DEF RowsInv
    <3> QED BY <3>1, ClosedRow
  <2> HIDE DEF row
  <2>4. \A i \in 1..n : row(i) \in Exec BY <2>3 DEF RowOK
  <2>5. execs'[j] \in [1..n -> Exec] BY <2>2, <2>4
  <2>6. execs'[j] \in Seq(Exec) BY <2>1, <2>5, SeqDef
  <2>7. Len(execs'[j]) = n
    <3>1. DOMAIN execs'[j] = 1..n BY <2>5
    <3>2. DOMAIN execs'[j] = 1..Len(execs'[j]) /\ Len(execs'[j]) \in Nat BY <2>6, LenProperties
    <3> QED BY <2>1, <3>1, <3>2
  <2>8. \A i \in 1..n : execs'[j][i] = row(i) BY <2>2
  <2> QED BY <2>3, <2>6, <2>7, <2>8
<1>3. execs' \in [Job -> Seq(Exec)] BY <1>1, <1>2
<1>4. \A j \in Job : Len(execs[j]) \in Nat BY ExecsOf DEF Types
<1>5. ASSUME NEW j \in Job
      PROVE  /\ Len(execs'[j]) <= MaxExecs
             /\ \A i \in 1..Len(execs'[j]) : RowOK(execs'[j][i], MaxRetries[j])
             /\ Extends(execs[j], execs'[j])
  <2>1. Len(execs'[j]) = Len(execs[j]) /\ Len(execs[j]) \in Nat BY <1>2, <1>4, <1>5
  <2>2. Len(execs[j]) <= MaxExecs BY <1>5 DEF RowsInv
  <2>3. \A i \in 1..Len(execs'[j]) : RowOK(execs'[j][i], MaxRetries[j]) BY <1>2, <1>5, <2>1
  <2>4. \A i \in 1..Len(execs[j]) : /\ execs'[j][i].attempt = execs[j][i].attempt
                                    /\ execs'[j][i].at = execs[j][i].at
    BY <1>2, <1>5
  <2> QED BY <2>1, <2>2, <2>3, <2>4 DEF Extends
<1>6. Written BY <1>3, <1>5 DEF Written
<1> QED BY <1>2, <1>6

\* Every step writes the executions as Written says.
LEMMA ExecsStep ==
    ASSUME Types, LockFollowsRun, PickInv, RowsInv, RunsInv, Next
    PROVE  Written
<1>1. CASE Runs
  <2>1. PICK s \in Server, j \in Job, t \in RunRec : Closes(s, j, t) BY <1>1 DEF Runs, RunMoves
  <2>2. CASE Creates(s, j, t) BY <2>2, WrittenByCreate
  <2>3. CASE Records(s, j, t) BY <2>3, WrittenByRecord
  <2>4. CASE Reads(s, j, t) \/ Settles(s, j, t) \/ Stays(t)
    BY <2>4, WrittenNothing DEF Reads, Settles, Stays
  <2> QED BY <2>1, <2>2, <2>3, <2>4 DEF Closes
<1>2. CASE Quiet BY <1>2, WrittenNothing, WrittenByClose DEF Quiet
<1>3. ASSUME NEW s \in Server, Gone(s) PROVE Written BY <1>3, WrittenNothing DEF Gone
<1> QED BY <1>1, <1>2, <1>3, RunsMove

\* Types and bounds of the executions follow from what is written.
LEMMA RowsStep ==
    ASSUME Written
    PROVE  ExecTypes' /\ RowsInv'
BY DEF Written, ExecTypes, RowsInv

\* A run that a step leaves alone stays sound.
LEMMA SoundRun ==
    ASSUME Types, Written, NEW j \in Job, NEW r, Sound(r, execs[j], MaxRetries[j])
    PROVE  Sound(r, execs'[j], MaxRetries[j])
<1>1. execs[j] \in Seq(Exec) BY ExecsOf DEF Types
<1>2. execs'[j] \in Seq(Exec) /\ Extends(execs[j], execs'[j]) BY DEF Written
<1>3. MaxRetries[j] \in Nat BY ScheduleAssumption
<1> QED BY <1>1, <1>2, <1>3, SoundStays

\* The attempt of the latest execution decides.
LEMMA NextAttempt ==
    ASSUME Types, RowsInv, NEW j \in Job
    PROVE  ResolveRunAttempt(execs[j]) \in 1..(MaxRetries[j] + 1)
<1> DEFINE x == execs[j]
           row == x[Len(x)]
<1>1. x \in Seq(Exec) /\ Len(x) \in Nat BY ExecsOf DEF Types
<1>m. MaxRetries[j] \in Nat BY ScheduleAssumption
<1>2. CASE /\ x # <<>> /\ row.status \in {"failed", "timeout"}
           /\ row.retry
  <2>1. Len(x) \in 1..Len(x) BY <1>1, <1>2, EmptySeq
  <2>2. RowOK(row, MaxRetries[j]) BY <2>1 DEF RowsInv
  <2>3. row.attempt \in Nat \ {0} /\ row.attempt <= MaxRetries[j] BY <1>2, <2>2 DEF RowOK, Exec
  <2>4. ResolveRunAttempt(x) = row.attempt + 1 BY <1>2 DEF ResolveRunAttempt
  <2> QED BY <1>m, <2>3, <2>4
<1>3. CASE ~(/\ x # <<>> /\ row.status \in {"failed", "timeout"}
             /\ row.retry)
  <2>1. ResolveRunAttempt(x) = 1 BY <1>3 DEF ResolveRunAttempt
  <2> QED BY <1>m, <2>1
<1> QED BY <1>2, <1>3

\* What the runs know of their executions stays true.
LEMMA RunsStep ==
    ASSUME Types, LockFollowsRun, PickInv, RowsInv, RunsInv, Next
    PROVE  RunsInv'
<1>w. Written BY ExecsStep
<1>o. ASSUME NEW r \in Server, NEW i \in Job, run'[r][i] = run[r][i]
      PROVE  Sound(run'[r][i], execs'[i], MaxRetries[i])
  <2>1. Sound(run[r][i], execs[i], MaxRetries[i]) BY <1>o DEF RunsInv
  <2> QED BY <1>o, <1>w, <2>1, SoundRun
<1>1. CASE Runs
  <2>1. PICK s \in Server, j \in Job, t \in RunRec : RunPut(s, j, t) /\ Closes(s, j, t)
    BY <1>1 DEF Runs, RunMoves
  <2> DEFINE r == run[s][j]
             m == MaxRetries[j]
  <2>m. m \in Nat BY ScheduleAssumption
  <2>r. Sound(r, execs[j], m) BY DEF RunsInv
  <2>2. Sound(t, execs'[j], m)
    <3>1. CASE Reads(s, j, t)
      <4>1. t.attempt \in 1..(m + 1) /\ t.phase = "create" BY <3>1, NextAttempt DEF Reads
      <4> QED BY <4>1 DEF Sound
    <3>2. CASE Creates(s, j, t)
      <4>1. t.attempt \in 1..(m + 1) /\ t.phase = "handler" BY <2>r, <3>2 DEF Creates, Sound
      <4>2. execs'[j][t.exec].attempt = t.attempt /\ t.exec \in 1..Len(execs'[j])
        BY <3>2, WrittenByCreate
      <4> QED BY <4>1, <4>2 DEF Sound
    <3>3. CASE Settles(s, j, t)
      <4>1. /\ t.phase = "record" /\ t.attempt = r.attempt /\ t.exec = r.exec
            /\ t.outcome \in {"success", "failed", "timeout"}
            /\ t.retryAt # NoNext => t.attempt <= m
            /\ execs' = execs /\ r.phase = "handler"
        BY <3>3 DEF Settles
      <4> QED BY <2>r, <4>1 DEF Sound
    <3>4. CASE Records(s, j, t) BY <3>4 DEF Records, Sound
    <3>5. CASE Stays(t) BY <3>5 DEF Stays, Sound
    <3> QED BY <2>1, <3>1, <3>2, <3>3, <3>4, <3>5 DEF Closes
  <2>3. ASSUME NEW q \in Server, NEW i \in Job
        PROVE  Sound(run'[q][i], execs'[i], MaxRetries[i])
    <3>1. CASE q = s /\ i = j BY <2>1, <2>2, <3>1 DEF RunPut
    <3>2. CASE q # s \/ i # j
      <4>1. run'[q][i] = run[q][i] BY <2>1, <2>3, <3>2 DEF RunPut
      <4> QED BY <1>o, <2>3, <4>1
    <3> QED BY <3>1, <3>2
  <2> QED BY <2>3 DEF RunsInv
<1>2. CASE Quiet
  <2>1. \A r \in Server, i \in Job : run'[r][i] = run[r][i] BY <1>2 DEF Quiet
  <2> QED BY <1>o, <2>1 DEF RunsInv
<1>3. ASSUME NEW s \in Server, Gone(s) PROVE RunsInv'
  <2>1. ASSUME NEW q \in Server, NEW i \in Job
        PROVE  Sound(run'[q][i], execs'[i], MaxRetries[i])
    <3>0. run' = [run EXCEPT ![s] = [j \in Job |-> NoRun]] BY <1>3 DEF Gone
    <3>1. CASE q = s
      <4>1. run'[q][i] = NoRun BY <1>3, <2>1, <3>0, <3>1 DEF Types, RunTypes
      <4> QED BY <4>1, NoRunAtAll DEF Sound
    <3>2. CASE q # s
      <4>1. run'[q][i] = run[q][i] BY <1>3, <2>1, <3>0, <3>2 DEF Types, RunTypes
      <4> QED BY <1>o, <2>1, <4>1
    <3> QED BY <3>1, <3>2
  <2> QED BY <2>1 DEF RunsInv
<1> QED BY <1>1, <1>2, <1>3, RunsMove

-----------------------------------------------------------------------------
(* The types and the clock.                                                *)

LEMMA TimeGoesOn ==
    ASSUME Types, Next
    PROVE  now \in Nat /\ now' \in Time /\ now' \in Nat /\ now <= now'
<1>1. now \in Nat /\ now <= MaxTime BY Clock DEF Types, JobTypes, Time
<1>2. now' = now \/ (now' = now + 1 /\ now < MaxTime) BY JobsMoveOn DEF Jobs, JobsMove, Claims
<1>3. MaxTime \in Nat BY BoundAssumption
<1> QED BY <1>1, <1>2, <1>3 DEF Time

\* Claims are counts per occurrence.
LEMMA ClaimsTyped ==
    ASSUME Types, Next
    PROVE  claims' \in [Job -> [Time -> Nat]]
<1>1. ASSUME NEW s \in Server, NEW b \in RowRec, Claims(s, b)
      PROVE  claims' \in [Job -> [Time -> Nat]]
  <2> DEFINE c == [t \in Time |-> IF t \in Covered(b.job, b.next, eng[s].at)
                                  THEN claims[b.job][t] + 1 ELSE claims[b.job][t]]
  <2>1. b.job \in Job BY <1>1, RowFields
  <2>2. \A t \in Time : claims[b.job][t] \in Nat BY <2>1 DEF Types, JobTypes
  <2>3. c \in [Time -> Nat] BY <2>2
  <2>4. claims' = [claims EXCEPT ![b.job] = c] BY <1>1 DEF Claims
  <2> HIDE DEF c
  <2> QED BY <2>1, <2>3, <2>4 DEF Types, JobTypes
<1>2. ASSUME UNCHANGED claims PROVE claims' \in [Job -> [Time -> Nat]]
  BY <1>2 DEF Types, JobTypes
<1> QED BY <1>1, <1>2, JobsMoveOn DEF Jobs, JobsMove

\* The processes and the locks keep their types.
LEMMA ServerTypesStep ==
    ASSUME Types, LockFollowsRun, PickInv, Next
    PROVE  ServerTypes'
<1> USE DEF Types
<1>j. jobLock' \in [Job -> Holder]
  <2>1. CASE Runs BY <2>1 DEF Runs, RunMoves, Holds
  <2>2. CASE Quiet BY <2>2 DEF Quiet, LocksStay
  <2>3. ASSUME NEW s \in Server, Gone(s) PROVE jobLock' \in [Job -> Holder]
    BY <2>3 DEF Gone, ServerTypes, Holder
  <2> QED BY <2>1, <2>2, <2>3, RunsMove
<1>l. /\ leaderLock' \in Holder
      /\ server' \in [Server -> {"up", "stopping", "released", "down"}]
  <2>1. ASSUME NEW s \in Server, Tick(s)
        PROVE  leaderLock' \in Holder /\ UNCHANGED server
    BY <2>1 DEF ServerTypes, Holder, Tick, Renew, AcquireLeader, FindDueJobs, PassOver, Claim, Start,
                EndBatch, FindStuck, CloseStuck, FindUnscheduled, Reschedule, SchedulerOnly
  <2>2. ASSUME NEW s \in Server, NEW j \in Job,
               RunStep(s, j) \/ Settle(s, j) \/ OperationFails(s, j)
        PROVE  UNCHANGED <<leaderLock, server>>
    BY <2>2 DEF RunStep, LockJob, ReadLast, Create, TimeOut, Record, UpdateJob, Release, Settle,
                Settled, OperationFails, RunnerOnly
  <2>3. ASSUME NEW s \in Server, TickFails(s) PROVE UNCHANGED <<leaderLock, server>>
    BY <2>3 DEF TickFails
  <2>4. ASSUME NEW s \in Server, Crash(s) \/ Exit(s)
        PROVE  /\ leaderLock' \in Holder
               /\ server' \in [Server -> {"up", "stopping", "released", "down"}]
    BY <2>4 DEF Crash, Exit, Gone, ServerTypes, Holder
  <2>5. ASSUME NEW s \in Server, Restart(s) \/ Stop(s) \/ ReleaseLeader(s)
        PROVE  /\ leaderLock' \in Holder
               /\ server' \in [Server -> {"up", "stopping", "released", "down"}]
    BY <2>5 DEF Restart, Stop, ReleaseLeader, ServerTypes, Holder
  <2>6. ASSUME NEW j \in Job, UserOp(j) \/ JobLockExpires(j) PROVE UNCHANGED <<leaderLock, server>>
    BY <2>6 DEF UserOp, UserStep, Pause, Resume, AskRun, RunNow, EditSchedule, EditTimeout,
                JobLockExpires
  <2>7. CASE LeaderLockExpires \/ Advance
    BY <2>7 DEF LeaderLockExpires, Advance, ServerTypes, Holder
  <2> QED BY <2>1, <2>2, <2>3, <2>4, <2>5, <2>6, <2>7 DEF Next, ServerTypes
<1> QED BY <1>j, <1>l DEF ServerTypes

\* The runs keep their types.
LEMMA RunTypesStep ==
    ASSUME Types, LockFollowsRun, PickInv, Next
    PROVE  RunTypes'
<1> USE DEF Types
<1>1. CASE Runs
  <2>1. PICK s \in Server, j \in Job, t \in RunRec : RunPut(s, j, t) /\ Places(s, j, t)
    BY <1>1 DEF Runs, RunMoves
  <2>2. run' \in [Server -> [Job -> RunRec]] BY <2>1 DEF RunPut
  <2>3. CompanyOf[j] \in Company BY ScheduleAssumption
  <2>4. perCompany[s][CompanyOf[j]] \in Nat BY <2>3 DEF RunTypes
  <2>5. ASSUME NEW n \in Nat, perCompany' = [perCompany EXCEPT ![s][CompanyOf[j]] = n]
        PROVE  perCompany' \in [Server -> [Company -> Nat]]
    BY <2>5 DEF RunTypes
  <2>6. CASE Begins(s, j, t)
    <3> DEFINE n == perCompany[s][CompanyOf[j]] + 1
    <3>1. n \in Nat BY <2>4
    <3>2. perCompany' = [perCompany EXCEPT ![s][CompanyOf[j]] = n] BY <2>6 DEF Begins
    <3> HIDE DEF n
    <3> QED BY <2>2, <2>5, <3>1, <3>2 DEF RunTypes
  <2>7. CASE Goes(s, j, t) BY <2>2, <2>7 DEF Goes, RunTypes
  <2>8. CASE Ends(s, j, t)
    <3> DEFINE n == IF perCompany[s][CompanyOf[j]] > 1 THEN perCompany[s][CompanyOf[j]] - 1 ELSE 0
    <3>1. n \in Nat BY <2>4
    <3>2. perCompany' = [perCompany EXCEPT ![s][CompanyOf[j]] = n] BY <2>8 DEF Ends
    <3> HIDE DEF n
    <3> QED BY <2>2, <2>5, <3>1, <3>2 DEF RunTypes
  <2> QED BY <2>1, <2>6, <2>7, <2>8 DEF Places
<1>2. CASE Quiet BY <1>2 DEF Quiet, RunTypes
<1>3. ASSUME NEW s \in Server, Gone(s) PROVE RunTypes'
  <2>1. [j \in Job |-> NoRun] \in [Job -> RunRec] BY NoRunAtAll
  <2>2. [c \in Company |-> 0] \in [Company -> Nat] OBVIOUS
  <2>3. /\ run' = [run EXCEPT ![s] = [j \in Job |-> NoRun]]
        /\ perCompany' = [perCompany EXCEPT ![s] = [c \in Company |-> 0]]
    BY <1>3 DEF Gone
  <2> QED BY <1>3, <2>1, <2>2, <2>3 DEF RunTypes
<1> QED BY <1>1, <1>2, <1>3, RunsMove

\* The engines keep their types and what they have in hand.
LEMMA EngStepInv ==
    ASSUME Types, EngInv, Next
    PROVE  EngTypes' /\ EngInv'
<1>1. now \in Nat /\ now' \in Nat /\ now <= now' BY TimeGoesOn
<1>2. CASE UNCHANGED eng
  <2>1. EngTypes' BY <1>2 DEF Types, EngTypes
  <2>2. ASSUME NEW s \in Server PROVE eng'[s].at <= now' /\ WasDue(eng'[s].batch, eng'[s].at)
    <3>1. eng[s].at \in Nat /\ eng[s].at <= now /\ WasDue(eng[s].batch, eng[s].at)
      BY <2>2, EngFields DEF EngInv, Types
    <3> QED BY <3>1, <1>1, <1>2
  <2> QED BY <2>1, <2>2 DEF EngInv, WasDue
<1>3. ASSUME NEW s \in Server, NEW e \in EngRec, EngStep(s, e) PROVE EngTypes' /\ EngInv'
  <2>1. EngTypes' BY <1>3 DEF EngStep, EngPut, EngTypes
  <2>2. ASSUME NEW r \in Server PROVE eng'[r].at <= now' /\ WasDue(eng'[r].batch, eng'[r].at)
    <3>1. CASE r = s
      <4>1. e.at \in Nat /\ e.at <= now /\ WasDue(e.batch, e.at) /\ eng'[r] = e
        BY <1>3, <3>1 DEF EngStep, EngPut, EngRec
      <4> QED BY <4>1, <1>1
    <3>2. CASE r # s
      <4>1. eng[r].at \in Nat /\ eng[r].at <= now /\ WasDue(eng[r].batch, eng[r].at)
        BY <2>2, EngFields DEF EngInv, Types
      <4>2. eng'[r] = eng[r] BY <1>3, <2>2, <3>2 DEF EngStep, EngPut
      <4> QED BY <4>1, <4>2, <1>1
    <3> QED BY <3>1, <3>2
  <2> QED BY <2>1, <2>2 DEF EngInv, WasDue
<1> QED BY <1>2, <1>3, EnginesMove DEF Engines

-----------------------------------------------------------------------------
(* The inductive invariant, and what follows from it.                      *)

IInv == /\ Types /\ EngInv
        /\ LockFollowsRun
        /\ CountInv /\ PickInv
        /\ RowsInv /\ RunsInv

\* The start satisfies the invariant.
LEMMA InitEstablishes == Init => IInv
<1> SUFFICES ASSUME Init PROVE IInv OBVIOUS
<1>e. /\ Idle \in EngRec /\ Idle.pc = "idle" /\ Idle.at = 0 /\ Idle.batch = {}
  BY IdleEngine DEF IsEng
<1>r. NoRun \in RunRec /\ NoRun.phase = "none" BY NoRunAtAll
<1>t. MaxTime \in Nat BY BoundAssumption
<1>1. JobTypes
  <2>1. PICK legacy \in SUBSET Legacy :
          job = [j \in Job |-> [active |-> TRUE, timeout |-> Timeout[j],
                                next |-> IF j \in legacy THEN NoNext ELSE NextRunAt(j, 0)]]
    BY DEF Init
  <2>2. ASSUME NEW j \in Job
        PROVE  [active |-> TRUE, timeout |-> Timeout[j],
                next |-> IF j \in legacy THEN NoNext ELSE NextRunAt(j, 0)] \in JobRow
    <3>1. NextRunAt(j, 0) \in NextVal /\ NoNext \in NextVal
      BY <2>2, NextOccurrence DEF NoNext, NextVal
    <3>2. Timeout[j] \in Nat BY <2>2, ScheduleAssumption
    <3> QED BY <3>1, <3>2 DEF JobRow
  <2>3. job \in [Job -> JobRow] BY <2>1, <2>2
  <2>4. now \in Time /\ asked \subseteq Job /\ claims \in [Job -> [Time -> Nat]]
    BY <1>t DEF Init, Time
  <2> QED BY <2>3, <2>4 DEF JobTypes
<1>2. ServerTypes BY DEF Init, ServerTypes, Holder
<1>3. EngTypes /\ EngInv BY <1>e DEF Init, EngTypes, EngInv, WasDue
<1>4. RunTypes BY <1>r DEF Init, RunTypes
<1>5. ExecTypes
  <2>1. <<>> \in Seq(Exec) BY EmptySeq
  <2> QED BY <2>1 DEF Init, ExecTypes
<1>6. LockFollowsRun BY <1>r, ServerAssumption DEF Init, LockFollowsRun
<1>7. CountInv
  <2>1. ASSUME NEW s \in Server PROVE CountOf(s)
    <3>1. Running(s) = {} BY <1>r DEF Init, Running
    <3>2. \A c \in Company : Of(s, c) = {} BY <3>1 DEF Of
    <3>3. IsFiniteSet({}) /\ Cardinality({}) = 0 BY FS_EmptySet
    <3>4. MaxConcurrentGlobal \in Nat /\ MaxConcurrentPerCompany \in Nat BY LimitAssumption
    <3>5. \A c \in Company : perCompany[s][c] = 0 BY DEF Init
    <3> QED BY <3>1, <3>2, <3>3, <3>4, <3>5 DEF CountOf
  <2> QED BY <2>1 DEF CountInv
<1>8. PickInv BY <1>e DEF Init, PickInv
<1>9. RowsInv
  <2>1. Len(<<>>) = 0 BY EmptySeq
  <2>2. \A j \in Job : execs[j] = <<>> BY DEF Init
  <2>3. \A j \in Job : Len(execs[j]) = 0 BY <2>1, <2>2
  <2>4. \A j \in Job : 1..Len(execs[j]) = {} BY <2>3
  <2>5. MaxExecs \in Nat BY BoundAssumption
  <2> QED BY <2>3, <2>4, <2>5 DEF RowsInv
<1>10. RunsInv BY <1>r DEF Init, RunsInv, Sound
<1> QED BY <1>1, <1>2, <1>3, <1>4, <1>5, <1>6, <1>7, <1>8, <1>9, <1>10 DEF IInv, Types

\* The invariant is inductive.
LEMMA NextPreserves == IInv /\ [Next]_vars => IInv'
<1> SUFFICES ASSUME IInv, [Next]_vars PROVE IInv' OBVIOUS
<1>1. CASE Next
  <2> USE <1>1 DEF IInv
  <2>1. JobTypes'
    <3>1. now' \in Time BY TimeGoesOn
    <3>2. claims' \in [Job -> [Time -> Nat]] BY ClaimsTyped
    <3>3. job' \in [Job -> JobRow] /\ asked' \subseteq Job BY JobsMoveOn DEF Jobs, JobsKept
    <3> QED BY <3>1, <3>2, <3>3 DEF JobTypes
  <2>2. ServerTypes' BY ServerTypesStep
  <2>3. EngTypes' /\ EngInv' BY EngStepInv
  <2>4. RunTypes' BY RunTypesStep
  <2>5. ExecTypes' /\ RowsInv' BY ExecsStep, RowsStep
  <2>6. LockFollowsRun' BY LockStep
  <2>7. CountInv' BY CountStep
  <2>8. PickInv' BY PickStep
  <2>9. RunsInv' BY RunsStep
  <2> QED BY <2>1, <2>2, <2>3, <2>4, <2>5, <2>6, <2>7, <2>8, <2>9 DEF Types
<1>2. CASE UNCHANGED vars
  <2> USE <1>2 DEF IInv, vars
  <2>1. Types' BY DEF Types, JobTypes, ServerTypes, EngTypes, RunTypes, ExecTypes
  <2>2. EngInv' /\ LockFollowsRun' BY DEF EngInv, WasDue, LockFollowsRun
  <2>3. \A s \in Server : Running(s)' = Running(s) BY DEF Running
  <2>4. CountInv' BY <2>3, CountStands DEF CountInv
  <2>5. PickInv' BY <2>3 DEF PickInv, HasCapacity
  <2>6. RowsInv' BY DEF RowsInv, RowOK
  <2>7. RunsInv' BY DEF RunsInv, Sound
  <2> QED BY <2>1, <2>2, <2>4, <2>5, <2>6, <2>7
<1> QED BY <1>1, <1>2

\* The invariant holds at all times.
LEMMA AlwaysIInv == Spec => []IInv
BY InitEstablishes, NextPreserves, PTL DEF Spec

(***************************************************************************)
(* The limits on concurrency hold in every process, whatever moves between *)
(* the look at them and the start of a run, and the counter per company    *)
(* never drifts from the runs it counts.                                   *)
(***************************************************************************)
THEOREM CapacityAlwaysBounded == Spec => []CapacityBound
<1>1. IInv => CapacityBound BY DEF IInv, CountInv, CountOf, Of, CapacityBound
<1> QED BY <1>1, AlwaysIInv, PTL

(***************************************************************************)
(* A process that is alive holds a job's lock exactly while it is inside   *)
(* the run the lock was taken for, whichever way the run ends.             *)
(***************************************************************************)
THEOREM LockAlwaysFollowsRun == Spec => []LockFollowsRun
<1>1. IInv => LockFollowsRun BY DEF IInv
<1> QED BY <1>1, AlwaysIInv, PTL

(***************************************************************************)
(* The types; and a job is not tried more than 1 + maxRetries times in a   *)
(* row, however its attempts are spread over processes and crashes.        *)
(***************************************************************************)
THEOREM AlwaysWellFormed == Spec => []WellFormed
<1>1. IInv => WellFormed
  <2> SUFFICES ASSUME IInv PROVE WellFormed OBVIOUS
  <2> USE DEF IInv, Types
  <2>1. ASSUME NEW j \in Job
        PROVE  /\ job[j].active \in BOOLEAN
               /\ job[j].next.src \in {"none", "schedule", "retry", "manual"}
               /\ Len(execs[j]) <= MaxExecs
               /\ jobLock[j] \in Server \cup {Nobody, Dead}
    BY <2>1, JobFields DEF NextVal, RowsInv, ServerTypes, Holder
  <2>2. ASSUME NEW j \in Job, NEW i \in DOMAIN execs[j]
        PROVE  execs[j][i] \in Exec /\ execs[j][i].attempt <= MaxRetries[j] + 1
    <3>1. i \in 1..Len(execs[j]) BY <2>2, ExecsOf
    <3> QED BY <2>2, <3>1 DEF RowsInv, RowOK
  <2>3. \A s \in Server : /\ eng[s].pc \in {"idle", "acquire", "find", "claim", "start", "stuck",
                                            "close", "bare", "reschedule"}
                          /\ eng[s].owed \in 0..CatchUpMax
                          /\ perCompany[s] \in [Company -> Nat]
    BY EngFields DEF RunTypes, Pcs
  <2>4. /\ now \in Time /\ asked \subseteq Job /\ leaderLock \in Server \cup {Nobody, Dead}
        /\ server \in [Server -> {"up", "stopping", "released", "down"}]
    BY DEF JobTypes, ServerTypes, Holder
  <2> QED BY <2>1, <2>2, <2>3, <2>4 DEF WellFormed, TypeOK, AttemptBounded
<1> QED BY <1>1, AlwaysIInv, PTL

-----------------------------------------------------------------------------
(* The claims of occurrences.                                              *)

\* The closing writes of a run are over before its retry is due.
RetriesAreSlower == \A j \in Job : ClosingTime <= RetryDelay[j]

\* A run of j that is being closed is within its time, and its retry as far from that time
\* as the delay is longer than the closing.
InTime(j, r, t) ==
    r.phase \in {"record", "update"} =>
        /\ t <= r.deadline
        /\ r.retryAt # NoNext => /\ r.deadline + RetryDelay[j] = r.retryAt.at + ClosingTime
                                 /\ r.retryAt.src = "retry"

TimingInv == \A s \in Server, j \in Job : InTime(j, run[s][j], now)

\* Nothing is claimed before its time.
ClaimedPast == \A j \in Job, t \in Time : claims[j][t] > 0 => t <= now

\* What a claim at n still has to cover.
Ahead(n, t) == t > n.at \/ (t = n.at /\ n.src = "schedule")

AheadUnclaimed ==
    \A j \in Job, t \in Time : job[j].next # NoNext /\ Ahead(job[j].next, t) => claims[j][t] = 0

ClaimInv == TimingInv /\ ClaimedPast /\ AheadUnclaimed /\ OccurrenceClaimedOnce

\* Time is moved by Advance alone.
LEMMA ClockMoves ==
    ASSUME Next
    PROVE  UNCHANGED now \/ Advance
<1>1. ASSUME NEW s \in Server, Tick(s) PROVE UNCHANGED now
  BY <1>1 DEF Tick, Renew, AcquireLeader, FindDueJobs, PassOver, Claim, Start, EndBatch, FindStuck,
              CloseStuck, FindUnscheduled, Reschedule, SchedulerOnly
<1>2. ASSUME NEW s \in Server,
             TickFails(s) \/ Crash(s) \/ Exit(s) \/ Restart(s) \/ Stop(s) \/ ReleaseLeader(s)
      PROVE  UNCHANGED now
  BY <1>2 DEF TickFails, Crash, Exit, Gone, Restart, Stop, ReleaseLeader
<1>3. ASSUME NEW s \in Server, NEW j \in Job, RunStep(s, j) \/ Settle(s, j) \/ OperationFails(s, j)
      PROVE  UNCHANGED now
  BY <1>3 DEF RunStep, LockJob, ReadLast, Create, TimeOut, Record, UpdateJob, Release, Settle,
              Settled, OperationFails, RunnerOnly
<1>4. ASSUME NEW j \in Job, UserOp(j) \/ JobLockExpires(j) PROVE UNCHANGED now
  BY <1>4 DEF UserOp, UserStep, Pause, Resume, AskRun, RunNow, EditSchedule, EditTimeout,
              JobLockExpires
<1>5. LeaderLockExpires => UNCHANGED now BY DEF LeaderLockExpires
<1> QED BY <1>1, <1>2, <1>3, <1>4, <1>5 DEF Next

\* Runs are as far in time as their phase says.
LEMMA TimingStep ==
    ASSUME IInv, TimingInv, Next
    PROVE  TimingInv'
<1> USE DEF IInv, Types
<1>n. now \in Nat BY Clock
<1>t. \A s \in Server, j \in Job : InTime(j, run[s][j], now) BY DEF TimingInv
<1> SUFFICES \A s \in Server, j \in Job : InTime(j, run'[s][j], now') BY DEF TimingInv
<1>1. CASE Advance
  <2>1. now' = now + 1 /\ UNCHANGED run /\ Punctual BY <1>1 DEF Advance, Punctual
  <2>2. \A s \in Server, j \in Job : run[s][j].deadline \in Nat BY RunFields
  <2> QED BY <1>n, <1>t, <2>1, <2>2 DEF InTime, Punctual
<1>2. CASE UNCHANGED now /\ Runs
  <2>1. PICK s \in Server, j \in Job, t \in RunRec : RunPut(s, j, t) /\ Closes(s, j, t)
    BY <1>2 DEF Runs, RunMoves
  <2>2. InTime(j, t, now)
    <3>1. CASE Settles(s, j, t)
      <4>1. /\ RetryDelay[j] \in Nat /\ ClosingTime \in Nat
        BY ScheduleAssumption, BoundAssumption
      <4>2. t.deadline = now + ClosingTime BY <3>1 DEF Settles
      <4>3. t.retryAt = NoNext \/ (/\ t.retryAt.at = now + RetryDelay[j]
                                   /\ t.retryAt.src = "retry")
        BY <3>1 DEF Settles
      <4> QED BY <1>n, <4>1, <4>2, <4>3 DEF InTime
    <3>2. CASE Records(s, j, t)
      <4>1. InTime(j, run[s][j], now) BY <1>t
      <4> QED BY <3>2, <4>1 DEF Records, InTime
    <3>3. CASE Reads(s, j, t) \/ Creates(s, j, t) \/ Stays(t)
      BY <3>3 DEF Reads, Creates, Stays, InTime
    <3> QED BY <2>1, <3>1, <3>2, <3>3 DEF Closes
  <2>3. ASSUME NEW q \in Server, NEW i \in Job PROVE InTime(i, run'[q][i], now')
    <3>1. CASE q = s /\ i = j BY <1>2, <2>1, <2>2, <3>1 DEF RunPut
    <3>2. CASE q # s \/ i # j
      <4>1. run'[q][i] = run[q][i] BY <2>1, <2>3, <3>2 DEF RunPut
      <4> QED BY <1>2, <1>t, <2>3, <4>1
    <3> QED BY <3>1, <3>2
  <2> QED BY <2>3
<1>3. CASE UNCHANGED now /\ Quiet BY <1>3, <1>t DEF Quiet
<1>4. ASSUME NEW s \in Server, Gone(s), UNCHANGED now
      PROVE  \A q \in Server, j \in Job : InTime(j, run'[q][j], now')
  <2>1. run' = [run EXCEPT ![s] = [j \in Job |-> NoRun]] BY <1>4 DEF Gone
  <2>2. ASSUME NEW q \in Server, NEW j \in Job PROVE InTime(j, run'[q][j], now')
    <3>1. CASE q = s
      <4>1. run'[q][j] = NoRun BY <1>4, <2>1, <2>2, <3>1 DEF RunTypes
      <4> QED BY <4>1, NoRunAtAll DEF InTime
    <3>2. CASE q # s
      <4>1. run'[q][j] = run[q][j] BY <1>4, <2>1, <2>2, <3>2 DEF RunTypes
      <4> QED BY <1>4, <1>t, <2>2, <4>1
    <3> QED BY <3>1, <3>2
  <2> QED BY <2>2
<1> QED BY <1>1, <1>2, <1>3, <1>4, ClockMoves, RunsMove

\* A retry that is still to be written is as far off as its delay is longer than the closing.
LEMMA RetryNotDue ==
    ASSUME IInv, TimingInv, NEW s \in Server, NEW j \in Job,
           run[s][j].phase = "update", run[s][j].retryAt # NoNext
    PROVE  /\ run[s][j].retryAt.src = "retry"
           /\ ClosingTime <= RetryDelay[j] => now <= run[s][j].retryAt.at
           /\ ClosingTime < RetryDelay[j] => now < run[s][j].retryAt.at
<1> DEFINE r == run[s][j]
<1>1. InTime(j, r, now) BY DEF TimingInv
<1>2. /\ now <= r.deadline /\ r.deadline + RetryDelay[j] = r.retryAt.at + ClosingTime
      /\ r.retryAt.src = "retry"
  BY <1>1 DEF InTime
<1>3. r.deadline \in Nat /\ r.retryAt.at \in Nat BY RunFields DEF IInv, Types, NextVal
<1>4. now \in Nat /\ RetryDelay[j] \in Nat /\ ClosingTime \in Nat
  BY Clock, ScheduleAssumption, BoundAssumption DEF IInv, Types
<1> HIDE DEF r
<1>5. /\ ClosingTime <= RetryDelay[j] => now <= r.retryAt.at
      /\ ClosingTime < RetryDelay[j] => now < r.retryAt.at
  BY <1>2, <1>3, <1>4
<1> QED BY <1>2, <1>5 DEF r

\* A claim of b by s: what becomes of the claims of one occurrence.
LEMMA ClaimingOccurrence ==
    ASSUME Types, EngInv, NEW s \in Server, NEW b \in RowRec, Claims(s, b)
    PROVE  /\ b.job \in Job /\ job[b.job].next = b.next /\ b.next # NoNext
           /\ eng[s].at \in Nat /\ b.next.at <= eng[s].at /\ eng[s].at <= now
           /\ job'[b.job].next = NextRunAt(b.job, eng[s].at)
           /\ \A t \in Time : claims'[b.job][t] = IF t \in Covered(b.job, b.next, eng[s].at)
                                                  THEN claims[b.job][t] + 1 ELSE claims[b.job][t]
           /\ \A i \in Job : i # b.job => /\ job'[i].next = job[i].next
                                          /\ claims'[i] = claims[i]
<1> USE DEF Types
<1>1. b.job \in Job BY RowFields
<1>2. b \in eng[s].batch BY DEF Claims
<1>3. b.next # NoNext /\ b.next.at <= eng[s].at /\ eng[s].at <= now BY <1>2 DEF EngInv, WasDue
<1>4. eng[s].at \in Nat BY EngFields
<1> DEFINE c == [t \in Time |-> IF t \in Covered(b.job, b.next, eng[s].at)
                                THEN claims[b.job][t] + 1 ELSE claims[b.job][t]]
<1>5. claims' = [claims EXCEPT ![b.job] = c] BY DEF Claims
<1>6. \A t \in Time : c[t] = IF t \in Covered(b.job, b.next, eng[s].at)
                             THEN claims[b.job][t] + 1 ELSE claims[b.job][t]
  OBVIOUS
<1> HIDE DEF c
<1>7. claims'[b.job] = c /\ \A i \in Job : i # b.job => claims'[i] = claims[i]
  BY <1>1, <1>5 DEF JobTypes
<1> QED BY <1>1, <1>3, <1>4, <1>6, <1>7 DEF Claims, AsRead, NextTo

\* An occurrence covered by a claim lies between the row's nextRunAt and now.
LEMMA CoveredTimes ==
    ASSUME NEW j \in Job, NEW n \in NextVal, NEW a \in Nat, NEW t \in Covered(j, n, a)
    PROVE  t \in Int /\ n.at <= t /\ t <= a /\ t % Period[j] = 0 /\ Ahead(n, t)
BY DEF Covered, Ahead, NextVal

\* Occurrences are moments of time.
LEMMA OccurrenceTimes == \A t \in Time : t \in Nat
BY BoundAssumption DEF Time

\* ClaimInv is inductive if retries are slower than the closing writes.
LEMMA ClaimStep ==
    ASSUME RetriesAreSlower, IInv, ClaimInv, Next
    PROVE  ClaimInv'
<1> USE DEF IInv, Types, ClaimInv
<1>n. now \in Nat /\ now' \in Nat /\ now <= now' BY TimeGoesOn
<1>c. \A j \in Job, t \in Time : claims[j][t] \in Nat BY DEF JobTypes
<1>1. TimingInv' BY TimingStep
<1>2. ASSUME NEW s \in Server, NEW b \in RowRec, Claims(s, b)
      PROVE  ClaimedPast' /\ AheadUnclaimed' /\ OccurrenceClaimedOnce'
  <2> DEFINE j == b.job
             a == eng[s].at
  <2>1. /\ j \in Job /\ job[j].next = b.next /\ b.next # NoNext
        /\ a \in Nat /\ b.next.at <= a /\ a <= now
        /\ job'[j].next = NextRunAt(j, a)
        /\ \A t \in Time : claims'[j][t] = IF t \in Covered(j, b.next, a)
                                           THEN claims[j][t] + 1 ELSE claims[j][t]
        /\ \A i \in Job : i # j => job'[i].next = job[i].next /\ claims'[i] = claims[i]
    BY <1>2, ClaimingOccurrence
  <2>2. b.next \in NextVal /\ b.next.at \in Nat BY <1>2, RowFields
  <2>3. NextRunAt(j, a).at > a /\ NextRunAt(j, a).at \in Nat
    BY <2>1, NextOccurrence DEF NextVal
  <2> HIDE DEF j, a
  <2>4. \A t \in Time : t \in Covered(j, b.next, a) => t <= a /\ claims[j][t] = 0
    BY <2>1, <2>2, CoveredTimes DEF AheadUnclaimed
  <2>5. ClaimedPast'
    <3> SUFFICES ASSUME NEW i \in Job, NEW t \in Time, claims'[i][t] > 0 PROVE t <= now'
      BY DEF ClaimedPast
    <3>1. t \in Nat BY OccurrenceTimes
    <3>2. claims[i][t] > 0 => t <= now BY DEF ClaimedPast
    <3>3. CASE i = j /\ t \in Covered(j, b.next, a)
      <4>1. t <= a BY <2>4, <3>3
      <4> QED BY <1>n, <2>1, <3>1, <4>1
    <3>4. CASE ~(i = j /\ t \in Covered(j, b.next, a))
      <4>1. claims'[i][t] = claims[i][t] BY <2>1, <3>4
      <4> QED BY <1>n, <3>1, <3>2, <4>1
    <3> QED BY <3>3, <3>4
  <2>6. AheadUnclaimed'
    <3> SUFFICES ASSUME NEW i \in Job, NEW t \in Time, job'[i].next # NoNext,
                        Ahead(job'[i].next, t)
                 PROVE  claims'[i][t] = 0
      BY DEF AheadUnclaimed
    <3>1. t \in Nat BY OccurrenceTimes
    <3>2. CASE i = j
      <4>1. t >= NextRunAt(j, a).at BY <2>1, <2>3, <3>1, <3>2 DEF Ahead
      <4>2. t > a BY <2>1, <2>3, <3>1, <4>1
      <4>3. t \notin Covered(j, b.next, a) BY <2>1, <2>4, <3>1, <4>2
      <4>4. Ahead(b.next, t) BY <2>1, <2>2, <3>1, <4>2 DEF Ahead
      <4>5. claims[j][t] = 0 BY <2>1, <4>4 DEF AheadUnclaimed
      <4> QED BY <2>1, <3>2, <4>3, <4>5
    <3>3. CASE i # j BY <2>1, <3>3 DEF AheadUnclaimed
    <3> QED BY <3>2, <3>3
  <2>7. OccurrenceClaimedOnce'
    <3> SUFFICES ASSUME NEW i \in Job, NEW t \in Time PROVE claims'[i][t] <= 1
      BY DEF OccurrenceClaimedOnce
    <3>1. claims[i][t] <= 1 BY DEF OccurrenceClaimedOnce
    <3> QED BY <2>1, <2>4, <3>1
  <2> QED BY <2>5, <2>6, <2>7
<1>3. ASSUME UNCHANGED claims PROVE ClaimedPast' /\ OccurrenceClaimedOnce'
  <2>1. ASSUME NEW j \in Job, NEW t \in Time, claims[j][t] > 0 PROVE t <= now'
    <3>1. t \in Nat /\ t <= now BY <2>1, OccurrenceTimes DEF ClaimedPast
    <3> QED BY <1>n, <3>1
  <2> QED BY <1>3, <2>1 DEF ClaimedPast, OccurrenceClaimedOnce
<1>4. ASSUME UNCHANGED claims, Unscheduled PROVE AheadUnclaimed'
  BY <1>4 DEF Unscheduled, AheadUnclaimed, Ahead
<1>5. ASSUME UNCHANGED claims, NEW j \in Job, NEW n \in NextVal, NextTo(j, n), Fresh(j, n)
      PROVE  AheadUnclaimed'
  <2>0. n.at \in Nat BY <1>5 DEF NextVal
  <2>1. ASSUME NEW t \in Time, n # NoNext, Ahead(n, t) PROVE claims[j][t] = 0
    <3>1. t \in Nat BY <2>1, OccurrenceTimes
    <3>2. t > now
      <4>1. CASE n = NextRunAt(j, now)
        <5>1. n.at > now BY <1>n, <1>5, <4>1, NextOccurrence
        <5> QED BY <1>n, <2>0, <2>1, <3>1, <5>1 DEF Ahead
      <4>2. CASE n = [at |-> now, src |-> "manual"] BY <2>1, <3>1, <1>n, <4>2 DEF Ahead
      <4>3. ASSUME NEW s \in Server, run[s][j].phase = "update", n = run[s][j].retryAt
            PROVE  t > now
        <5>1. now <= n.at /\ n.src = "retry"
          BY <1>5, <2>1, <4>3, RetryNotDue DEF RetriesAreSlower
        <5> QED BY <1>n, <2>0, <2>1, <3>1, <5>1 DEF Ahead
      <4> QED BY <1>5, <2>1, <4>1, <4>2, <4>3 DEF Fresh
    <3>3. ~(claims[j][t] > 0) BY <1>n, <2>1, <3>1, <3>2 DEF ClaimedPast
    <3>4. claims[j][t] \in Nat BY <1>c, <2>1
    <3> QED BY <3>3, <3>4
  <2>2. ASSUME NEW i \in Job, NEW t \in Time, job'[i].next # NoNext, Ahead(job'[i].next, t)
        PROVE  claims'[i][t] = 0
    <3>1. CASE i = j
      <4>1. job'[i].next = n BY <1>5, <3>1 DEF NextTo
      <4> QED BY <1>5, <2>1, <2>2, <3>1, <4>1
    <3>2. CASE i # j
      <4>1. job'[i].next = job[i].next BY <1>5, <2>2, <3>2 DEF NextTo
      <4> QED BY <1>5, <2>2, <4>1 DEF AheadUnclaimed
    <3> QED BY <3>1, <3>2
  <2> QED BY <2>2 DEF AheadUnclaimed
<1> QED BY <1>1, <1>2, <1>3, <1>4, <1>5, JobsMoveOn DEF Jobs, JobsMove

\* Nothing is claimed at the start.
LEMMA ClaimInit == Init => ClaimInv
<1> SUFFICES ASSUME Init PROVE ClaimInv OBVIOUS
<1>1. \A j \in Job, t \in Time : claims[j][t] = 0 BY DEF Init
<1>2. \A s \in Server, j \in Job : run[s][j].phase = "none" BY NoRunAtAll DEF Init
<1> QED BY <1>1, <1>2 DEF ClaimInv, TimingInv, InTime, ClaimedPast, AheadUnclaimed, OccurrenceClaimedOnce

\* ClaimInv is kept by a step that changes nothing.
LEMMA ClaimStutter ==
    ASSUME ClaimInv, UNCHANGED vars
    PROVE  ClaimInv'
BY DEF vars, ClaimInv, TimingInv, InTime, ClaimedPast, AheadUnclaimed, Ahead,
       OccurrenceClaimedOnce

(***************************************************************************)
(* "An occurrence is claimed once even if two leaders briefly overlap":    *)
(* as long as the closing writes of a run are over before its retry is     *)
(* due, no occurrence is claimed twice, in spite of stale batches, lapsed  *)
(* leaders, crashes, manual runs, edits and retries that pull nextRunAt    *)
(* back.                                                                   *)
(***************************************************************************)
THEOREM AlwaysClaimedOnce ==
    ASSUME RetriesAreSlower
    PROVE  Spec => []OccurrenceClaimedOnce
<1>1. IInv /\ ClaimInv /\ [Next]_vars => ClaimInv'
  BY ClaimStep, ClaimStutter
<1>2. ClaimInv => OccurrenceClaimedOnce BY DEF ClaimInv
<1> QED BY <1>1, <1>2, ClaimInit, AlwaysIInv, PTL DEF Spec

-----------------------------------------------------------------------------
(* No occurrence is forgotten.                                             *)

\* Jobs are scheduled from the start, and only their timeouts are edited.
Undisturbed == Legacy = {} /\ UserOps \subseteq {"timeout"}

\* What a claim at n does not cover any more.
Behind(n, t) == t < n.at \/ (t = n.at /\ n.src # "schedule")

Scheduled == /\ asked = {}
             /\ \A s \in Server : eng[s].bare = {}
             /\ \A j \in Job : job[j].next # NoNext

BehindClaimed ==
    \A j \in Job, t \in Time :
        t >= 1 /\ t % Period[j] = 0 /\ Behind(job[j].next, t) => claims[j][t] >= 1

KeptInv == Scheduled /\ BehindClaimed

\* Undisturbed by users, nextRunAt is written backwards only.
LEMMA OnlyRetriesMoveBack ==
    ASSUME Undisturbed, Scheduled, NEW j \in Job, NEW n, Fresh(j, n)
    PROVE  n # NoNext /\ n.at < job[j].next.at
BY DEF Undisturbed, Scheduled, Fresh, Earlier

\* Undisturbed by users, every job stays scheduled.
LEMMA ScheduledStep ==
    ASSUME Undisturbed, IInv, Scheduled, Next
    PROVE  Scheduled'
<1> USE DEF IInv, Types
<1>1. asked' = {} BY JobsMoveOn DEF Jobs, JobsKept, Undisturbed, Scheduled
<1>2. \A s \in Server : eng'[s].bare = {}
  <2>1. CASE UNCHANGED eng BY <2>1 DEF Scheduled
  <2>2. ASSUME NEW s \in Server, NEW e \in EngRec, EngStep(s, e)
        PROVE  \A r \in Server : eng'[r].bare = {}
    <3>1. e.bare \in SUBSET Job BY <2>2 DEF EngRec
    <3>2. e.bare = {} BY <2>2, <3>1 DEF EngStep, Bare, Scheduled
    <3> QED BY <2>2, <3>2 DEF EngStep, EngPut, Scheduled
  <2> QED BY <2>1, <2>2, EnginesMove DEF Engines
<1>3. ASSUME NEW i \in Job PROVE job'[i].next # NoNext
  <2>0. job[i].next # NoNext BY <1>3 DEF Scheduled
  <2>1. CASE Unscheduled BY <1>3, <2>0, <2>1 DEF Unscheduled
  <2>2. ASSUME NEW s \in Server, NEW b \in RowRec, Claims(s, b) PROVE job'[i].next # NoNext
    <3>1. CASE i = b.job
      <4>1. job'[i].next = NextRunAt(i, eng[s].at) BY <2>2, <3>1 DEF Claims, NextTo
      <4> QED BY <1>3, <2>2, <4>1, EngFields, NextOccurrence
    <3>2. CASE i # b.job BY <1>3, <2>0, <2>2, <3>2 DEF Claims, NextTo
    <3> QED BY <3>1, <3>2
  <2>3. ASSUME NEW j \in Job, NEW n \in NextVal, NextTo(j, n), Fresh(j, n)
        PROVE  job'[i].next # NoNext
    <3>1. n # NoNext BY <2>3, OnlyRetriesMoveBack
    <3> QED BY <1>3, <2>0, <2>3, <3>1 DEF NextTo
  <2> QED BY <2>1, <2>2, <2>3, JobsMoveOn DEF Jobs, JobsMove
<1> QED BY <1>1, <1>2, <1>3 DEF Scheduled

\* KeptInv is inductive, undisturbed by users.
LEMMA KeptStep ==
    ASSUME Undisturbed, IInv, KeptInv, Next
    PROVE  KeptInv'
<1> USE DEF IInv, Types, KeptInv
<1>1. Scheduled' BY ScheduledStep
<1>2. ASSUME UNCHANGED claims, Unscheduled PROVE BehindClaimed'
  BY <1>2 DEF Unscheduled, BehindClaimed, Behind
<1>3. ASSUME NEW s \in Server, NEW b \in RowRec, Claims(s, b) PROVE BehindClaimed'
  <2> DEFINE j == b.job
             a == eng[s].at
  <2>1. /\ j \in Job /\ job[j].next = b.next
        /\ a \in Nat /\ b.next.at <= a
        /\ job'[j].next = NextRunAt(j, a)
        /\ \A t \in Time : claims'[j][t] = IF t \in Covered(j, b.next, a)
                                           THEN claims[j][t] + 1 ELSE claims[j][t]
        /\ \A i \in Job : i # j => job'[i].next = job[i].next /\ claims'[i] = claims[i]
    BY <1>3, ClaimingOccurrence
  <2>2. b.next \in NextVal /\ b.next.at \in Nat BY <1>3, RowFields
  <2> HIDE DEF j, a
  <2>3. ASSUME NEW t \in Time, t >= 1, t % Period[j] = 0, Behind(NextRunAt(j, a), t)
        PROVE  claims'[j][t] >= 1
    <3>1. t \in Nat BY <2>3, OccurrenceTimes
    <3>2. claims[j][t] \in Nat BY <2>1, <2>3 DEF JobTypes
    <3>3. t < NextRunAt(j, a).at BY <2>1, <2>3, NextOccurrence DEF Behind
    <3>4. t <= a BY <2>1, <2>3, <3>1, <3>3, NextOccurrence
    <3>5. CASE t \in Covered(j, b.next, a) BY <2>1, <2>3, <3>2, <3>5
    <3>6. CASE t \notin Covered(j, b.next, a)
      <4>1. ~(b.next.at <= t /\ (t = b.next.at => b.next.src = "schedule"))
        BY <2>1, <2>2, <2>3, <3>1, <3>4, <3>6 DEF Covered
      <4>2. Behind(b.next, t) BY <2>2, <3>1, <4>1 DEF Behind
      <4>3. claims[j][t] >= 1 BY <2>1, <2>3, <4>2 DEF BehindClaimed
      <4> QED BY <2>1, <2>3, <3>6, <4>3
    <3> QED BY <3>5, <3>6
  <2>4. ASSUME NEW i \in Job, NEW t \in Time, t >= 1, t % Period[i] = 0, Behind(job'[i].next, t)
        PROVE  claims'[i][t] >= 1
    <3>1. CASE i = j BY <2>1, <2>3, <2>4, <3>1
    <3>2. CASE i # j BY <2>1, <2>4, <3>2 DEF BehindClaimed
    <3> QED BY <3>1, <3>2
  <2> QED BY <2>4 DEF BehindClaimed
<1>4. ASSUME UNCHANGED claims, NEW j \in Job, NEW n \in NextVal, NextTo(j, n), Fresh(j, n)
      PROVE  BehindClaimed'
  <2>1. n.at < job[j].next.at /\ n.at \in Nat BY <1>4, OnlyRetriesMoveBack DEF NextVal
  <2>2. job[j].next.at \in Nat BY <1>4, JobFields
  <2>3. ASSUME NEW t \in Time, t >= 1, t % Period[j] = 0, Behind(n, t) PROVE claims[j][t] >= 1
    <3>1. t \in Nat BY <2>3, OccurrenceTimes
    <3>2. Behind(job[j].next, t) BY <2>1, <2>2, <2>3, <3>1 DEF Behind
    <3> QED BY <1>4, <2>3, <3>2 DEF BehindClaimed
  <2>4. ASSUME NEW i \in Job, NEW t \in Time, t >= 1, t % Period[i] = 0, Behind(job'[i].next, t)
        PROVE  claims'[i][t] >= 1
    <3>1. CASE i = j BY <1>4, <2>3, <2>4, <3>1 DEF NextTo
    <3>2. CASE i # j
      <4>1. job'[i].next = job[i].next BY <1>4, <2>4, <3>2 DEF NextTo
      <4> QED BY <1>4, <2>4, <4>1 DEF BehindClaimed
    <3> QED BY <3>1, <3>2
  <2> QED BY <2>4 DEF BehindClaimed
<1> QED BY <1>1, <1>2, <1>3, <1>4, JobsMoveOn DEF Jobs, JobsMove

\* Nothing is passed at the start.
LEMMA KeptInit ==
    ASSUME Undisturbed, Init
    PROVE  KeptInv
<1>1. Scheduled
  <2>1. \A j \in Job : job[j].next = NextRunAt(j, 0) BY DEF Init, Undisturbed
  <2>2. \A s \in Server : eng[s].bare = {} BY IdleEngine DEF Init, IsEng
  <2> QED BY <2>1, <2>2, NextOccurrence DEF Init, Scheduled
<1>2. ASSUME NEW j \in Job, NEW t \in Time, t >= 1, t % Period[j] = 0, Behind(job[j].next, t)
      PROVE  FALSE
  <2>1. job[j].next = NextRunAt(j, 0) BY DEF Init, Undisturbed
  <2>2. t \in Nat BY OccurrenceTimes
  <2>3. t < NextRunAt(j, 0).at BY <1>2, <2>1, NextOccurrence DEF Behind
  <2>4. t <= 0 BY <1>2, <2>2, <2>3, NextOccurrence
  <2> QED BY <1>2, <2>2, <2>4
<1> QED BY <1>1, <1>2 DEF KeptInv, BehindClaimed

\* KeptInv is kept by a step that changes nothing.
LEMMA KeptStutter ==
    ASSUME KeptInv, UNCHANGED vars
    PROVE  KeptInv'
BY DEF vars, KeptInv, Scheduled, BehindClaimed, Behind

(***************************************************************************)
(* When nextRunAt has moved on, every occurrence before it has been        *)
(* claimed, and once: whichever leaders die or lapse between the find, the *)
(* claim and the start, and whatever retries pull nextRunAt back.  Users   *)
(* may move occurrences away themselves: here they edit timeouts only.     *)
(***************************************************************************)
THEOREM NeverForgotten ==
    ASSUME RetriesAreSlower, Undisturbed
    PROVE  Spec => []NoneForgotten
<1>1. IInv /\ KeptInv /\ [Next]_vars => KeptInv' BY KeptStep, KeptStutter
<1>2. Init => KeptInv BY KeptInit
<1>3. IInv /\ KeptInv /\ OccurrenceClaimedOnce => NoneForgotten
  <2> SUFFICES ASSUME IInv, KeptInv, OccurrenceClaimedOnce, NEW j \in Job,
                      NEW t \in 1..(job[j].next.at - 1), t <= MaxTime, t % Period[j] = 0
               PROVE  claims[j][t] = 1
    BY DEF NoneForgotten
  <2>1. job[j].next.at \in Nat /\ MaxTime \in Nat
    BY JobFields, BoundAssumption DEF IInv, Types
  <2>2. t \in Time /\ t >= 1 /\ t < job[j].next.at BY <2>1 DEF Time
  <2>3. claims[j][t] >= 1 BY <2>2 DEF KeptInv, BehindClaimed, Behind
  <2>4. claims[j][t] <= 1 /\ claims[j][t] \in Nat
    BY <2>2 DEF OccurrenceClaimedOnce, IInv, Types, JobTypes
  <2> QED BY <2>3, <2>4
<1> QED BY <1>1, <1>2, <1>3, AlwaysIInv, AlwaysClaimedOnce, PTL DEF Spec

-----------------------------------------------------------------------------
(* The outcomes of executions.                                             *)

\* Timeouts are not edited, and the grace of self-heal covers the closing of a run.
ClosesInGrace == "timeout" \notin UserOps /\ ClosingTime <= StuckGrace

\* Every copy of a timeout is the timeout.
TimeoutsInv ==
    /\ \A j \in Job : job[j].timeout = Timeout[j]
    /\ \A s \in Server : \A b \in eng[s].batch : b.timeout = Timeout[b.job]
    /\ \A s \in Server : eng[s].pc = "start" => eng[s].picked.timeout = Timeout[eng[s].picked.job]
    /\ \A s \in Server, j \in Job : run[s][j].phase # "none" => run[s][j].timeout = Timeout[j]

\* An execution of j is past its time and the grace.
Late(j, row, t) == row.at + Timeout[j] + StuckGrace < t

\* What self-heal has found is late.
LateInv ==
    \A s \in Server : \A e \in eng[s].stuck :
        e[2] \in 1..Len(execs[e[1]]) /\ Late(e[1], execs[e[1]][e[2]], now)

\* A run that has not recorded its outcome has an execution that is open and not late.
OpenYet(j, r, x, t) ==
    r.phase \in {"handler", "record"} =>
        /\ x[r.exec].status = "running"
        /\ t <= r.deadline
        /\ r.deadline <= x[r.exec].at + Timeout[j] + (IF r.phase = "handler" THEN 0 ELSE ClosingTime)

OpenInv == \A s \in Server, j \in Job : OpenYet(j, run[s][j], execs[j], now)

FinalInv == TimeoutsInv /\ LateInv /\ OpenInv

\* Unedited, the timeout of a job is the same in its row, in what was read of it and in its runs.
LEMMA TimeoutsStep ==
    ASSUME ClosesInGrace, IInv, TimeoutsInv, Next
    PROVE  TimeoutsInv'
<1> USE DEF IInv, Types
<1>1. \A j \in Job : job'[j].timeout = Timeout[j]
  BY JobsMoveOn DEF Jobs, JobsKept, ClosesInGrace, TimeoutsInv
<1>2. /\ \A r \in Server : \A b \in eng'[r].batch : b.timeout = Timeout[b.job]
      /\ \A r \in Server : eng'[r].pc = "start" =>
            eng'[r].picked.timeout = Timeout[eng'[r].picked.job]
  <2>1. CASE UNCHANGED eng BY <2>1 DEF TimeoutsInv
  <2>2. ASSUME NEW s \in Server, NEW e \in EngRec, EngStep(s, e)
        PROVE  /\ \A r \in Server : \A b \in eng'[r].batch : b.timeout = Timeout[b.job]
               /\ \A r \in Server : eng'[r].pc = "start" =>
                     eng'[r].picked.timeout = Timeout[eng'[r].picked.job]
    <3>1. ASSUME NEW b \in e.batch PROVE b.timeout = Timeout[b.job]
      <4>1. b \in RowRec BY <2>2 DEF EngRec
      <4>2. b.job \in Job BY <4>1, RowFields
      <4>3. b = Row(b.job) => b.timeout = job[b.job].timeout BY DEF Row
      <4> QED BY <2>2, <4>2, <4>3 DEF EngStep, Found, TimeoutsInv
    <3>2. e.pc = "start" => e.picked.timeout = Timeout[e.picked.job]
      BY <2>2 DEF EngStep, Chosen, TimeoutsInv
    <3> QED BY <2>2, <3>1, <3>2 DEF EngStep, EngPut, TimeoutsInv
  <2> QED BY <2>1, <2>2, EnginesMove DEF Engines
<1>3. ASSUME NEW r \in Server, NEW i \in Job, run'[r][i].phase # "none"
      PROVE  run'[r][i].timeout = Timeout[i]
  <2>0. CASE run'[r][i] = run[r][i] BY <1>3, <2>0 DEF TimeoutsInv
  <2>1. CASE Runs
    <3>1. PICK s \in Server, j \in Job, t \in RunRec : RunPut(s, j, t) /\ Places(s, j, t)
      BY <2>1 DEF Runs, RunMoves
    <3>2. CASE r = s /\ i = j
      <4>1. run'[r][i] = t BY <3>1, <3>2 DEF RunPut
      <4>2. CASE Begins(s, j, t) BY <3>2, <4>1, <4>2 DEF Begins, TimeoutsInv
      <4>3. CASE Goes(s, j, t) BY <3>2, <4>1, <4>3 DEF Goes, TimeoutsInv
      <4>4. CASE Ends(s, j, t) BY <1>3, <4>1, <4>4, NoRunAtAll DEF Ends
      <4> QED BY <3>1, <4>2, <4>3, <4>4 DEF Places
    <3>3. CASE r # s \/ i # j BY <1>3, <2>0, <3>1, <3>3 DEF RunPut
    <3> QED BY <3>2, <3>3
  <2>2. CASE Quiet BY <2>0, <2>2 DEF Quiet
  <2>3. ASSUME NEW s \in Server, Gone(s) PROVE run'[r][i].timeout = Timeout[i]
    <3>1. run' = [run EXCEPT ![s] = [j \in Job |-> NoRun]] BY <2>3 DEF Gone
    <3>2. CASE r = s
      <4>1. run'[r][i] = NoRun BY <1>3, <3>1, <3>2 DEF RunTypes
      <4> QED BY <1>3, <4>1, NoRunAtAll
    <3>3. CASE r # s
      <4>1. run'[r][i] = run[r][i] BY <1>3, <3>1, <3>3 DEF RunTypes
      <4> QED BY <2>0, <4>1
    <3> QED BY <3>2, <3>3
  <2> QED BY <2>1, <2>2, <2>3, RunsMove
<1> QED BY <1>1, <1>2, <1>3 DEF TimeoutsInv

\* The numbers that lateness is made of.
LEMMA RowNumbers ==
    ASSUME IInv, NEW j \in Job, NEW i \in 1..Len(execs[j])
    PROVE  /\ execs[j][i].at \in Nat /\ Timeout[j] \in Nat /\ StuckGrace \in Nat
           /\ ClosingTime \in Nat
<1>1. execs[j][i].at \in Time BY ExecsOf DEF IInv, Types, Exec
<1> QED BY <1>1, OccurrenceTimes, ScheduleAssumption, BoundAssumption

\* An execution found stuck has been over for longer than the grace.
LEMMA LateStep ==
    ASSUME IInv, TimeoutsInv, LateInv, Next
    PROVE  LateInv'
<1> USE DEF IInv, Types
<1>1. now \in Nat /\ now' \in Nat /\ now <= now' BY TimeGoesOn
<1>2. Written BY ExecsStep
<1>3. ASSUME NEW e \in Job \X (1..MaxExecs), e[2] \in 1..Len(execs[e[1]]),
             Late(e[1], execs[e[1]][e[2]], now)
      PROVE  e[2] \in 1..Len(execs'[e[1]]) /\ Late(e[1], execs'[e[1]][e[2]], now')
  <2> DEFINE j == e[1]
             i == e[2]
  <2>1. j \in Job OBVIOUS
  <2> HIDE DEF j, i
  <2>2. i \in 1..Len(execs[j]) /\ Late(j, execs[j][i], now) BY <1>3 DEF j, i
  <2>3. execs'[j][i].at = execs[j][i].at /\ Len(execs[j]) <= Len(execs'[j])
    BY <1>2, <2>1, <2>2 DEF Written, Extends
  <2>4. Len(execs[j]) \in Nat /\ Len(execs'[j]) \in Nat BY <1>2, <2>1, ExecsOf DEF Written
  <2>5. i \in 1..Len(execs'[j]) BY <2>2, <2>3, <2>4
  <2>6. execs[j][i].at \in Nat /\ Timeout[j] \in Nat /\ StuckGrace \in Nat
    BY <2>1, <2>2, RowNumbers
  <2>7. Late(j, execs'[j][i], now') BY <1>1, <2>2, <2>3, <2>6 DEF Late
  <2> QED BY <2>5, <2>7 DEF j, i
<1>4. ASSUME NEW s \in Server, NEW e \in eng[s].stuck
      PROVE  e[2] \in 1..Len(execs'[e[1]]) /\ Late(e[1], execs'[e[1]][e[2]], now')
  <2>1. e \in Job \X (1..MaxExecs) BY <1>4, EngFields
  <2> QED BY <1>3, <1>4, <2>1 DEF LateInv
<1>5. CASE UNCHANGED eng BY <1>4, <1>5 DEF LateInv
<1>6. ASSUME NEW s \in Server, NEW n \in EngRec, EngStep(s, n) PROVE LateInv'
  <2>1. ASSUME NEW e \in n.stuck
        PROVE  e[2] \in 1..Len(execs'[e[1]]) /\ Late(e[1], execs'[e[1]][e[2]], now')
    <3>1. e \in Job \X (1..MaxExecs) BY <1>6 DEF EngRec
    <3>2. e[1] \in Job BY <3>1
    <3>3. CASE e \in eng[s].stuck BY <1>4, <1>6, <3>3
    <3>4. CASE e[2] \in DOMAIN execs[e[1]] /\ Overdue(e[1], execs[e[1]][e[2]])
      <4>1. e[2] \in 1..Len(execs[e[1]]) BY <3>2, <3>4, ExecsOf
      <4>2. Late(e[1], execs[e[1]][e[2]], now) BY <3>2, <3>4 DEF Overdue, Late, TimeoutsInv
      <4> QED BY <1>3, <3>1, <4>1, <4>2
    <3> QED BY <1>6, <3>3, <3>4 DEF EngStep, Stuck
  <2>2. ASSUME NEW r \in Server, NEW e \in eng'[r].stuck
        PROVE  e[2] \in 1..Len(execs'[e[1]]) /\ Late(e[1], execs'[e[1]][e[2]], now')
    <3>1. CASE r = s BY <1>6, <2>1, <2>2, <3>1 DEF EngStep, EngPut
    <3>2. CASE r # s
      <4>1. eng'[r] = eng[r] BY <1>6, <2>2, <3>2 DEF EngStep, EngPut
      <4> QED BY <1>4, <2>2, <4>1
    <3> QED BY <3>1, <3>2
  <2> QED BY <2>2 DEF LateInv
<1> QED BY <1>5, <1>6, EnginesMove DEF Engines

\* The execution of a run is not late.
LEMMA NotLate ==
    ASSUME ClosesInGrace, IInv, NEW s \in Server, NEW j \in Job,
           OpenYet(j, run[s][j], execs[j], now), run[s][j].phase \in {"handler", "record"}
    PROVE  ~Late(j, execs[j][run[s][j].exec], now)
<1> DEFINE r == run[s][j]
           a == execs[j][r.exec].at
<1>1. r.exec \in 1..Len(execs[j]) BY DEF IInv, RunsInv, Sound
<1>2. a \in Nat /\ Timeout[j] \in Nat /\ StuckGrace \in Nat /\ ClosingTime \in Nat
  BY <1>1, RowNumbers
<1>3. now \in Nat /\ r.deadline \in Nat BY Clock, RunFields DEF IInv, Types
<1>4. now <= r.deadline
      /\ r.deadline <= a + Timeout[j] + (IF r.phase = "handler" THEN 0 ELSE ClosingTime)
  BY DEF OpenYet
<1>5. ClosingTime <= StuckGrace BY DEF ClosesInGrace
<1> HIDE DEF r, a
<1>6. ~(a + Timeout[j] + StuckGrace < now) BY <1>2, <1>3, <1>4, <1>5
<1> QED BY <1>6 DEF Late, r, a

\* Two runs of a job are not past their lock at once, so an execution has one run.
LEMMA OneRunAtWork ==
    ASSUME LockFollowsRun, NEW r \in Server, NEW s \in Server, NEW j \in Job,
           run[r][j].phase \in {"handler", "record"}, run[s][j].phase \in {"handler", "record"}
    PROVE  r = s
BY DEF LockFollowsRun

\* An execution a runner may still record is not among those found stuck.
LEMMA OpenStep ==
    ASSUME ClosesInGrace, IInv, FinalInv, Next
    PROVE  OpenInv'
<1> USE DEF IInv, Types, FinalInv
<1>n. now \in Nat /\ now' \in Nat /\ now <= now' BY TimeGoesOn
<1>w. Written BY ExecsStep
<1>t. UNCHANGED now \/ Advance BY ClockMoves
\* A run that the step leaves alone, with an execution that stays open.
<1>k. ASSUME NEW r \in Server, NEW i \in Job, run'[r][i] = run[r][i], UNCHANGED now,
             run[r][i].phase \in {"handler", "record"} =>
                 execs'[i][run[r][i].exec].status = "running"
      PROVE  OpenYet(i, run'[r][i], execs'[i], now')
  <2> SUFFICES ASSUME run[r][i].phase \in {"handler", "record"}
               PROVE  OpenYet(i, run'[r][i], execs'[i], now')
    BY <1>k DEF OpenYet
  <2>1. run[r][i].exec \in 1..Len(execs[i]) BY <1>k DEF RunsInv, Sound
  <2>2. execs'[i][run[r][i].exec].at = execs[i][run[r][i].exec].at
    BY <1>k, <1>w, <2>1 DEF Written, Extends
  <2>3. OpenYet(i, run[r][i], execs[i], now) BY <1>k DEF OpenInv
  <2> QED BY <1>k, <2>2, <2>3 DEF OpenYet
<1>o. \A r \in Server, i \in Job : run[r][i].phase \in {"handler", "record"} =>
          execs[i][run[r][i].exec].status = "running"
  BY DEF OpenInv, OpenYet
<1>1. CASE Advance
  <2>1. now' = now + 1 /\ UNCHANGED <<run, execs>>
        /\ \A s \in Server, j \in Job :
              run[s][j].phase \in {"handler", "record", "update"} => now < run[s][j].deadline
    BY <1>1 DEF Advance
  <2>2. ASSUME NEW s \in Server, NEW j \in Job PROVE OpenYet(j, run'[s][j], execs'[j], now')
    <3>1. run[s][j].deadline \in Nat BY <2>2, RunFields
    <3>2. OpenYet(j, run[s][j], execs[j], now) BY <2>2 DEF OpenInv
    <3>3. run[s][j].phase \in {"handler", "record"} => now + 1 <= run[s][j].deadline
      BY <1>n, <2>1, <2>2, <3>1
    <3> QED BY <2>1, <3>2, <3>3 DEF OpenYet
  <2> QED BY <2>2 DEF OpenInv
<1>2. CASE UNCHANGED now /\ Runs
  <2>1. PICK s \in Server, j \in Job, t \in RunRec :
           RunPut(s, j, t) /\ Places(s, j, t) /\ Closes(s, j, t)
    BY <1>2 DEF Runs, RunMoves
  <2>2. OpenYet(j, t, execs'[j], now)
    <3>1. CASE Creates(s, j, t)
      <4>1. /\ execs'[j][t.exec].status = "running" /\ execs'[j][t.exec].at = now
        BY <3>1, WrittenByCreate
      <4>2. t.deadline = now + run[s][j].timeout /\ t.phase = "handler"
            /\ run[s][j].phase # "none"
        BY <3>1 DEF Creates
      <4>3. run[s][j].timeout = Timeout[j] /\ Timeout[j] \in Nat
        BY <4>2, ScheduleAssumption DEF TimeoutsInv
      <4> QED BY <1>n, <4>1, <4>2, <4>3 DEF OpenYet
    <3>2. CASE Settles(s, j, t)
      <4> DEFINE r == run[s][j]
                 a == execs[j][r.exec].at
      <4>1. /\ r.phase = "handler" /\ t.phase = "record" /\ t.exec = r.exec
            /\ t.deadline = now + ClosingTime /\ execs' = execs
        BY <3>2 DEF Settles
      <4>2. r.exec \in 1..Len(execs[j]) BY <4>1 DEF RunsInv, Sound
      <4>3. a \in Nat /\ Timeout[j] \in Nat /\ ClosingTime \in Nat BY <4>2, RowNumbers
      <4>4. r.deadline \in Nat BY RunFields
      <4>5. /\ execs[j][r.exec].status = "running"
            /\ now <= r.deadline /\ r.deadline <= a + Timeout[j] + 0
        BY <4>1 DEF OpenInv, OpenYet
      <4>6. execs'[j][t.exec].status = "running" /\ execs'[j][t.exec].at = a BY <4>1, <4>5
      <4> HIDE DEF r, a
      <4>7. now <= t.deadline /\ t.deadline <= a + Timeout[j] + ClosingTime
        BY <1>n, <4>1, <4>3, <4>4, <4>5
      <4> QED BY <4>1, <4>6, <4>7 DEF OpenYet
    <3>3. CASE Reads(s, j, t) \/ Records(s, j, t) \/ Stays(t)
      BY <3>3 DEF Reads, Records, Stays, OpenYet
    <3> QED BY <2>1, <3>1, <3>2, <3>3 DEF Closes
  <2>3. ASSUME NEW r \in Server, NEW i \in Job, r # s \/ i # j,
               run[r][i].phase \in {"handler", "record"}
        PROVE  execs'[i][run[r][i].exec].status = "running"
    <3>1. run[r][i].exec \in 1..Len(execs[i]) BY <2>3 DEF RunsInv, Sound
    <3>2. execs[i][run[r][i].exec].status = "running" BY <1>o, <2>3
    <3>3. CASE Creates(s, j, t)
      <4> DEFINE row == [status |-> "running", attempt |-> t.attempt, retry |-> FALSE, at |-> now]
                 x == Append(execs[j], row)
      <4>1. run[s][j].phase = "create" BY <3>3 DEF Creates
      <4>2. execs' = [execs EXCEPT ![j] = x] BY <3>3 DEF Creates
      <4>3. i # j => execs'[i] = execs[i] BY <2>3, <4>2 DEF ExecTypes
      <4>4. i = j => FALSE BY <2>3, <4>1 DEF LockFollowsRun
      <4> QED BY <3>2, <4>3, <4>4
    <3>4. CASE Records(s, j, t)
      <4>1. i # j
        <5>1. run[s][j].phase = "record" BY <3>4 DEF Records
        <5> QED BY <2>3, <5>1, OneRunAtWork
      <4> QED BY <2>3, <3>2, <3>4, <4>1, WrittenByRecord
    <3>5. CASE Reads(s, j, t) \/ Settles(s, j, t) \/ Stays(t)
      BY <3>2, <3>5 DEF Reads, Settles, Stays
    <3> QED BY <2>1, <3>3, <3>4, <3>5 DEF Closes
  <2>4. ASSUME NEW r \in Server, NEW i \in Job PROVE OpenYet(i, run'[r][i], execs'[i], now')
    <3>1. CASE r = s /\ i = j
      <4>1. run'[r][i] = t BY <2>1, <3>1 DEF RunPut
      <4> QED BY <1>2, <2>2, <3>1, <4>1
    <3>2. CASE r # s \/ i # j
      <4>1. run'[r][i] = run[r][i] BY <2>1, <2>4, <3>2 DEF RunPut
      <4> QED BY <1>2, <1>k, <2>3, <2>4, <3>2, <4>1
    <3> QED BY <3>1, <3>2
  <2> QED BY <2>4 DEF OpenInv
<1>3. CASE UNCHANGED now /\ Quiet
  <2>1. ASSUME NEW r \in Server, NEW i \in Job, run[r][i].phase \in {"handler", "record"}
        PROVE  execs'[i][run[r][i].exec].status = "running"
    <3>1. run[r][i].exec \in 1..Len(execs[i]) BY <2>1 DEF RunsInv, Sound
    <3>2. execs[i][run[r][i].exec].status = "running" BY <1>o, <2>1
    <3>3. CASE UNCHANGED execs BY <3>2, <3>3
    <3>4. ASSUME NEW s \in Server, CloseStuck(s)
          PROVE  execs'[i][run[r][i].exec].status = "running"
      <4> DEFINE k == run[r][i].exec
      <4>1. OpenYet(i, run[r][i], execs[i], now) BY <2>1 DEF OpenInv
      <4>2. ~Late(i, execs[i][k], now) BY <2>1, <4>1, NotLate
      <4>3. <<i, k>> \notin eng[s].stuck
        <5> HIDE DEF k
        <5>1. <<i, k>>[1] = i /\ <<i, k>>[2] = k OBVIOUS
        <5> QED BY <3>4, <4>2, <5>1 DEF LateInv
      <4>4. execs'[i][k] = execs[i][k] BY <2>1, <3>1, <3>4, <4>3, WrittenByClose
      <4> QED BY <3>2, <4>4
    <3> QED BY <1>3, <3>3, <3>4 DEF Quiet
  <2>2. ASSUME NEW r \in Server, NEW i \in Job PROVE OpenYet(i, run'[r][i], execs'[i], now')
    BY <1>3, <1>k, <2>1, <2>2 DEF Quiet
  <2> QED BY <2>2 DEF OpenInv
<1>4. ASSUME UNCHANGED now, NEW s \in Server, Gone(s) PROVE OpenInv'
  <2>1. run' = [run EXCEPT ![s] = [j \in Job |-> NoRun]] /\ UNCHANGED execs BY <1>4 DEF Gone
  <2>2. ASSUME NEW r \in Server, NEW i \in Job PROVE OpenYet(i, run'[r][i], execs'[i], now')
    <3>1. CASE r = s
      <4>1. run'[r][i] = NoRun BY <2>1, <2>2, <3>1 DEF RunTypes
      <4> QED BY <4>1, NoRunAtAll DEF OpenYet
    <3>2. CASE r # s
      <4>1. run'[r][i] = run[r][i] BY <2>1, <2>2, <3>2 DEF RunTypes
      <4> QED BY <1>4, <1>k, <1>o, <2>1, <2>2, <4>1
    <3> QED BY <3>1, <3>2
  <2> QED BY <2>2 DEF OpenInv
<1> QED BY <1>1, <1>2, <1>3, <1>4, <1>t, RunsMove

\* No execution at the start.
LEMMA FinalInit == Init => FinalInv
<1> SUFFICES ASSUME Init PROVE FinalInv OBVIOUS
<1>e. \A s \in Server : eng[s].batch = {} /\ eng[s].pc = "idle" /\ eng[s].stuck = {}
  BY IdleEngine DEF Init, IsEng
<1>r. \A s \in Server, j \in Job : run[s][j].phase = "none" BY NoRunAtAll DEF Init
<1>1. \A j \in Job : job[j].timeout = Timeout[j] BY DEF Init
<1> QED BY <1>e, <1>r, <1>1 DEF FinalInv, TimeoutsInv, LateInv, OpenInv, OpenYet

\* FinalInv is inductive if closing takes no longer than the grace.
LEMMA FinalStep ==
    ASSUME ClosesInGrace, IInv, FinalInv, [Next]_vars
    PROVE  FinalInv'
<1>1. CASE Next BY <1>1, TimeoutsStep, LateStep, OpenStep DEF FinalInv
<1>2. CASE UNCHANGED vars
  BY <1>2 DEF vars, FinalInv, TimeoutsInv, LateInv, Late, OpenInv, OpenYet
<1> QED BY <1>1, <1>2

\* A step closes only executions that are open.
LEMMA OnlyOpenClosed ==
    ASSUME IInv, FinalInv, Next, NEW j \in Job, NEW i \in DOMAIN execs[j],
           execs[j][i].status # "running"
    PROVE  execs'[j][i].status = execs[j][i].status
<1> USE DEF IInv, Types, FinalInv
<1>i. i \in 1..Len(execs[j]) BY ExecsOf
<1>1. CASE Runs
  <2>1. PICK s \in Server, k \in Job, t \in RunRec : Closes(s, k, t) BY <1>1 DEF Runs, RunMoves
  <2>2. CASE Creates(s, k, t)
    <3> DEFINE row == [status |-> "running", attempt |-> t.attempt, retry |-> FALSE, at |-> now]
               x == Append(execs[k], row)
    <3>1. execs' = [execs EXCEPT ![k] = x] BY <2>2 DEF Creates
    <3>2. j # k => execs'[j] = execs[j] BY <3>1 DEF ExecTypes
    <3>3. j = k => execs'[j] = Append(execs[j], row) BY <3>1 DEF ExecTypes
    <3> HIDE DEF row
    <3>4. execs[j] \in Seq(Exec) /\ Len(execs[j]) \in Nat BY ExecsOf
    <3>5. Append(execs[j], row)[i] = execs[j][i] BY <1>i, <3>4
    <3> QED BY <3>2, <3>3, <3>5
  <2>3. CASE Records(s, k, t)
    <3>1. run[s][k].phase = "record" BY <2>3 DEF Records
    <3>2. execs[k][run[s][k].exec].status = "running" BY <3>1 DEF OpenInv, OpenYet
    <3> QED BY <1>i, <2>3, <3>2, WrittenByRecord
  <2>4. CASE Reads(s, k, t) \/ Settles(s, k, t) \/ Stays(t) BY <2>4 DEF Reads, Settles, Stays
  <2> QED BY <2>1, <2>2, <2>3, <2>4 DEF Closes
<1>2. CASE Quiet
  <2>1. CASE UNCHANGED execs BY <2>1
  <2>2. ASSUME NEW s \in Server, CloseStuck(s) PROVE execs'[j][i] = execs[j][i]
    BY <1>i, <2>2, WrittenByClose
  <2> QED BY <1>2, <2>1, <2>2 DEF Quiet
<1>3. ASSUME NEW s \in Server, Gone(s) PROVE UNCHANGED execs BY <1>3 DEF Gone
<1> QED BY <1>1, <1>2, <1>3, RunsMove

(***************************************************************************)
(* The outcome of an execution is final: self-heal never closes one whose  *)
(* runner is still to record its outcome, in whatever process, and no two  *)
(* runners record one.  It needs the grace of self-heal to cover the       *)
(* closing writes, and timeouts that are not shortened under a run.        *)
(***************************************************************************)
THEOREM OutcomesAreFinal ==
    ASSUME ClosesInGrace
    PROVE  Spec => ClosedOnce
<1>1. IInv /\ FinalInv /\ [Next]_vars => FinalInv' BY FinalStep
<1>2. IInv /\ FinalInv /\ [Next]_vars =>
         [\A j \in Job : \A i \in DOMAIN execs[j] :
             execs[j][i].status # "running" => execs'[j][i].status = execs[j][i].status]_vars
  BY OnlyOpenClosed
<1> QED BY <1>1, <1>2, FinalInit, AlwaysIInv, PTL DEF Spec, ClosedOnce

-----------------------------------------------------------------------------
(* Paused jobs.                                                            *)

\* The closing writes of a run are over well before its retry is due.
RetriesComeLater == \A j \in Job : ClosingTime < RetryDelay[j]

\* Nothing that a scheduler has read of a job matches the job while it is paused.
PausedInv == \A s \in Server : \A b \in eng[s].batch : ~job[b.job].active => ~AsRead(b)

\* PausedInv is inductive if retries come later than the closing writes.
LEMMA PausedStep ==
    ASSUME RetriesComeLater, IInv, TimingInv, PausedInv, Next
    PROVE  PausedInv'
<1> USE DEF IInv, Types
<1>n. now \in Nat BY Clock
<1> SUFFICES ASSUME NEW r \in Server, NEW b \in eng'[r].batch,
                    ~job'[b.job].active, job'[b.job].next = b.next
             PROVE  FALSE
  BY DEF PausedInv, AsRead
<1> DEFINE j == b.job
<1>e. /\ b \in RowRec /\ b.next # NoNext
      /\ b \in eng[r].batch \/ (b = Row(j) /\ job[j].active)
      /\ b.next.at <= now
  <2>1. CASE UNCHANGED eng
    <3>1. b \in eng[r].batch BY <2>1
    <3>2. b \in RowRec /\ eng[r].at \in Nat BY <3>1, EngFields
    <3>3. b.next # NoNext /\ b.next.at <= eng[r].at /\ eng[r].at <= now
      BY <3>1 DEF EngInv, WasDue
    <3>4. b.next.at \in Nat BY <3>2, RowFields
    <3> QED BY <1>n, <3>1, <3>2, <3>3, <3>4
  <2>2. ASSUME NEW s \in Server, NEW e \in EngRec, EngStep(s, e), s = r
        PROVE  /\ b \in RowRec /\ b.next # NoNext
               /\ b \in eng[r].batch \/ (b = Row(j) /\ job[j].active)
               /\ b.next.at <= now
    <3>1. b \in e.batch BY <2>2 DEF EngStep, EngPut
    <3>2. b \in RowRec /\ e.at \in Nat BY <2>2, <3>1 DEF EngRec
    <3>3. /\ b.next # NoNext /\ b.next.at <= e.at /\ e.at <= now
          /\ b \in eng[r].batch \/ (b = Row(j) /\ job[j].active)
      BY <2>2, <3>1 DEF EngStep, WasDue, Found
    <3>4. b.next.at \in Nat BY <3>2, RowFields
    <3> QED BY <1>n, <3>2, <3>3, <3>4
  <2>3. ASSUME NEW s \in Server, NEW e \in EngRec, EngStep(s, e), s # r
        PROVE  /\ b \in RowRec /\ b.next # NoNext
               /\ b \in eng[r].batch \/ (b = Row(j) /\ job[j].active)
               /\ b.next.at <= now
    <3>1. b \in eng[r].batch BY <2>3 DEF EngStep, EngPut
    <3>2. b \in RowRec /\ eng[r].at \in Nat BY <3>1, EngFields
    <3>3. b.next # NoNext /\ b.next.at <= eng[r].at /\ eng[r].at <= now
      BY <3>1 DEF EngInv, WasDue
    <3>4. b.next.at \in Nat BY <3>2, RowFields
    <3> QED BY <1>n, <3>1, <3>2, <3>3, <3>4
  <2> QED BY <2>1, <2>2, <2>3, EnginesMove DEF Engines
<1>j. j \in Job /\ b.next.at \in Nat BY <1>e, RowFields
\* The job was paused before: it is unscheduled when it is paused.
<1>a. ~job[j].active /\ b \in eng[r].batch
  BY <1>e, <1>j, JobsMoveOn DEF Jobs, JobsKept, Pauses
<1>b. job[j].next # b.next BY <1>a DEF PausedInv, AsRead
<1>1. CASE Unscheduled BY <1>1, <1>b, <1>j DEF Unscheduled
<1>2. ASSUME NEW s \in Server, NEW c \in RowRec, Claims(s, c) PROVE FALSE
  <2>1. CASE c.job = j BY <1>2, <1>a, <2>1 DEF Claims, PausedInv
  <2>2. CASE c.job # j BY <1>2, <1>b, <1>j, <2>2 DEF Claims, NextTo
  <2> QED BY <2>1, <2>2
<1>3. ASSUME NEW i \in Job, NEW n \in NextVal, NextTo(i, n), Fresh(i, n) PROVE FALSE
  <2>1. i = j /\ n = b.next BY <1>3, <1>b, <1>j DEF NextTo
  <2>2. CASE n = NextRunAt(j, now)
    <3>1. n.at > now BY <1>n, <1>j, <2>2, NextOccurrence
    <3> QED BY <1>n, <1>e, <1>j, <2>1, <3>1
  <2>3. CASE n = [at |-> now, src |-> "manual"] /\ NewReading(j)
    BY <1>a, <2>1, <2>3 DEF NewReading
  <2>4. ASSUME NEW s \in Server, run[s][j].phase = "update", n = run[s][j].retryAt PROVE FALSE
    <3>1. now < n.at BY <1>e, <1>j, <2>1, <2>4, RetryNotDue DEF RetriesComeLater
    <3> QED BY <1>n, <1>e, <1>j, <2>1, <3>1
  <2> QED BY <1>3, <1>e, <2>1, <2>2, <2>3, <2>4 DEF Fresh
<1> QED BY <1>1, <1>2, <1>3, JobsMoveOn DEF Jobs, JobsMove

\* Nothing is in hand at the start.
LEMMA PausedInit == Init => TimingInv /\ PausedInv
<1> SUFFICES ASSUME Init PROVE TimingInv /\ PausedInv OBVIOUS
<1>1. \A s \in Server : eng[s].batch = {} BY IdleEngine DEF Init, IsEng
<1>2. \A s \in Server, j \in Job : run[s][j].phase = "none" BY NoRunAtAll DEF Init
<1> QED BY <1>1, <1>2 DEF TimingInv, InTime, PausedInv

\* What is claimed is a job as it was read, so it is not paused.
LEMMA ClaimsOfActive ==
    ASSUME IInv, PausedInv, Next, NEW j \in Job, claims'[j] # claims[j]
    PROVE  job[j].active
<1>1. PICK s \in Server, b \in RowRec : Claims(s, b)
  BY JobsMoveOn DEF Jobs, JobsMove, IInv
<1>2. b.job \in Job BY RowFields
<1>3. j = b.job BY <1>1, <1>2 DEF Claims, IInv, Types, JobTypes
<1> QED BY <1>1, <1>3 DEF Claims, PausedInv

(***************************************************************************)
(* A paused job is never claimed: not by a tick that read it before it was *)
(* paused, and not because a retry, self-heal or a manual run gives it a   *)
(* nextRunAt again, although the claim looks at nextRunAt alone.           *)
(***************************************************************************)
THEOREM PausedNeverClaimed ==
    ASSUME RetriesComeLater
    PROVE  Spec => NoClaimWhilePaused
<1>1. IInv /\ TimingInv /\ PausedInv /\ [Next]_vars => TimingInv' /\ PausedInv'
  <2> SUFFICES ASSUME IInv, TimingInv, PausedInv, [Next]_vars PROVE TimingInv' /\ PausedInv'
    OBVIOUS
  <2>1. CASE Next BY <2>1, TimingStep, PausedStep
  <2>2. CASE UNCHANGED vars BY <2>2 DEF vars, TimingInv, InTime, PausedInv, AsRead
  <2> QED BY <2>1, <2>2
<1>2. IInv /\ PausedInv /\ [Next]_vars =>
         [\A j \in Job : claims'[j] # claims[j] => job[j].active]_vars
  BY ClaimsOfActive
<1> QED BY <1>1, <1>2, PausedInit, AlwaysIInv, PTL DEF Spec, NoClaimWhilePaused

=============================================================================
