----------------------------- MODULE CronEngine -----------------------------
(***************************************************************************)
(* The cron scheduler and its job runner: cronjobs/engine, the schedule    *)
(* and missed-run helpers they use, the manual operations on a job         *)
(* (pause, resume, run, edit) and the shutdown of a scheduler process.     *)
(*                                                                         *)
(* A step runs from one await to the next: it is the code after an await   *)
(* together with the database or lock operation it then issues.  Between   *)
(* two steps of one process every other process, and every other run of    *)
(* the same process, may move.                                             *)
(*                                                                         *)
(* The locks are the leases that CronLock promises, with one difference:   *)
(* leadership is renewed once per tick and a tick has no time limit, so it *)
(* may expire under a leader that is still busy.                           *)
(*                                                                         *)
(* Left out: a schedule that cannot be read, whose claim clears nextRunAt  *)
(* (computeNextRunAt gives null), and a database operation that took       *)
(* effect though it was reported as failed.                                *)
(***************************************************************************)
EXTENDS Integers, Sequences, FiniteSets

CONSTANTS
    Server,         \* the scheduler processes
    Job,            \* the job rows
    Company,        \* the companies that own them
    CompanyOf, Priority, Period, Policy, MaxRetries, RetryDelay, Timeout, \* per job
    MaxConcurrentGlobal, MaxConcurrentPerCompany, BatchSize,    \* CRON.*
    CatchUpMax,     \* CATCH_UP_MAX
    SelfHealInterval, StuckGrace,
    \* Bounds of the model:
    MaxTime,        \* the clock stops here
    LastStart,      \* runs are started up to here, so that they can end
    MaxExecs,       \* executions recorded per job
    FaultBudget,    \* crashes and shutdowns of processes, and database operations that fail
    LapseBudget,    \* leader locks that expire under a busy leader
    UserBudget,     \* operations of users on jobs
    TroubleBudget,  \* how many of the above one behaviour holds in all
    UserOps,        \* which of them: pause, resume, run, schedule, timeout
    Legacy,         \* jobs that may start without nextRunAt
    ClosingTime     \* the closing writes of a run take at most so long

ASSUME ScheduleAssumption ==
    \A j \in Job : /\ CompanyOf[j] \in Company
                   /\ {Period[j], Timeout[j]} \subseteq Nat \ {0}
                   /\ {Priority[j], MaxRetries[j], RetryDelay[j]} \subseteq Nat
                   /\ Policy[j] \in {"skip", "run_once", "catch_up"}

ASSUME LimitAssumption ==
    {MaxConcurrentGlobal, MaxConcurrentPerCompany, BatchSize, CatchUpMax} \subseteq Nat \ {0}

ASSUME BoundAssumption ==
    {SelfHealInterval, StuckGrace, MaxTime, MaxExecs, ClosingTime} \subseteq Nat

Nobody == "nobody"      \* a free lock
Dead == "dead"          \* held by a process that is gone, until it expires

ASSUME ServerAssumption == {Nobody, Dead} \cap Server = {}

VARIABLES
    now,            \* the clock, shared by all processes
    job,            \* the CronJob rows
    execs,          \* the CronExecution rows of each job, in order of creation
    leaderLock, jobLock,        \* the cron locks
    server,         \* up, stopping, released (leader lock given up) or down
    eng,            \* the SchedulerEngine of each process
    run,            \* the job runner of each process: one run per job
    perCompany,     \* its runningPerCompany
    asked,          \* Run now requests between their read and their write
    budget,         \* what is left of the three budgets
    claims          \* history: how often each occurrence has been claimed

vars == <<now, job, execs, leaderLock, jobLock, server, eng, run, perCompany,
          asked, budget, claims>>

Time == 0..MaxTime

-----------------------------------------------------------------------------
(* Schedules: an occurrence of j is a multiple of its period.  A value of  *)
(* nextRunAt also carries what wrote it; readings of the clock at two      *)
(* different moments are never equal, so a retry or a manual run is told   *)
(* apart from an occurrence that falls in the same unit of time.           *)

NoNext == [at |-> 0, src |-> "none"]

\* computeNextRunAt: strictly after t.
NextRunAt(j, t) == [at |-> (t \div Period[j] + 1) * Period[j], src |-> "schedule"]

\* The occurrences a claim of j at t stands for, when nextRunAt was n.
Covered(j, n, t) == {o \in n.at..t : /\ o % Period[j] = 0
                                     /\ o = n.at => n.src = "schedule"}

Capped(n) == IF n < CatchUpMax THEN n ELSE CatchUpMax

\* countDueOccurrences: nextRunAt itself, and every occurrence since.
CountDueOccurrences(j, n, t) ==
    Capped(1 + Cardinality({o \in (n.at + 1)..t : o % Period[j] = 0}))

SelectRunCount(policy, due) ==
    IF due <= 1 THEN due
    ELSE [skip |-> 0, run_once |-> 1, catch_up |-> due][policy]

\* MUTANT: one attempt too many.
MutShouldRetry(attempt, maxRetries) == attempt <= maxRetries + 1

ShouldRetry(attempt, maxRetries) == attempt <= maxRetries

\* 1, unless the latest execution failed or timed out and queued a retry.
ResolveRunAttempt(rows) ==
    IF rows # <<>> /\ rows[Len(rows)].status \in {"failed", "timeout"}
                   /\ rows[Len(rows)].retry
    THEN rows[Len(rows)].attempt + 1
    ELSE 1

-----------------------------------------------------------------------------

NoRun == [phase |-> "none", left |-> 0, attempt |-> 0, exec |-> 0, outcome |-> "none",
          deadline |-> 0, retryAt |-> NoNext, timeout |-> 0]

NoPick == [job |-> "none"]

Idle == [pc |-> "idle", leader |-> FALSE, at |-> 0, batch |-> {}, picked |-> NoPick,
         owed |-> 0, lastHeal |-> -SelfHealInterval, stuck |-> {}, bare |-> {}]

Budgets == {b \in [fault : 0..FaultBudget, lapse : 0..LapseBudget, user : 0..UserBudget] :
               b.fault + b.lapse + b.user = TroubleBudget}

Init ==
    /\ now = 0
    /\ \E legacy \in SUBSET Legacy :
          job = [j \in Job |->
                    [active |-> TRUE, timeout |-> Timeout[j],
                     next |-> IF j \in legacy THEN NoNext ELSE NextRunAt(j, 0)]]
    /\ execs = [j \in Job |-> <<>>]
    /\ leaderLock = Nobody
    /\ jobLock = [j \in Job |-> Nobody]
    /\ server = [s \in Server |-> "up"]
    /\ eng = [s \in Server |-> Idle]
    /\ run = [s \in Server |-> [j \in Job |-> NoRun]]
    /\ perCompany = [s \in Server |-> [c \in Company |-> 0]]
    /\ asked = {}
    /\ budget \in Budgets
    /\ claims = [j \in Job |-> [t \in Time |-> 0]]

-----------------------------------------------------------------------------
(* The scheduler: one tick of SchedulerEngine.  A tick starts only when    *)
(* the previous one is over, and only while the timer is running.          *)

Alive(s) == server[s] # "down"

\* What the steps of the scheduler, of a run and of a user leave alone.
SchedulerOnly == UNCHANGED <<now, execs, jobLock, server, asked, budget>>
RunnerOnly == UNCHANGED <<now, leaderLock, server, eng, asked, claims>>

\* holdLeadership: renew what we hold...
Renew(s) ==
    /\ server[s] = "up" /\ eng[s].pc = "idle" /\ eng[s].leader
    /\ LET kept == leaderLock \in {s, Nobody}
       IN /\ leaderLock' = IF kept THEN s ELSE leaderLock
          /\ eng' = [eng EXCEPT ![s].pc = IF kept THEN "find" ELSE "acquire"]
    /\ SchedulerOnly /\ UNCHANGED <<job, run, perCompany, claims>>

\* ... else take it if it is free.
AcquireLeader(s) ==
    /\ \/ server[s] = "up" /\ eng[s].pc = "idle" /\ ~eng[s].leader
       \/ Alive(s) /\ eng[s].pc = "acquire"
    /\ LET won == leaderLock = Nobody
       IN /\ leaderLock' = IF won THEN s ELSE leaderLock
          /\ eng' = [eng EXCEPT ![s] = [@ EXCEPT !.leader = won, !.pc = IF won THEN "find" ELSE "idle"]]
    /\ SchedulerOnly /\ UNCHANGED <<job, run, perCompany, claims>>

Due(j) == job[j].active /\ job[j].next # NoNext /\ job[j].next.at <= now

\* A row as the scheduler reads it.
Row(j) == [job |-> j, priority |-> Priority[j], next |-> job[j].next, timeout |-> job[j].timeout]

\* The order of the due jobs: priority first, then the one due longest.
Before(a, b) == \/ a.priority > b.priority
                \/ a.priority = b.priority /\ a.next.at < b.next.at

\* The find of runDueJobs: the first BatchSize due jobs, as they are now.
FindDueJobs(s) ==
    /\ Alive(s) /\ eng[s].pc = "find"
    /\ LET due == {Row(j) : j \in {i \in Job : Due(i) /\ now <= LastStart}} IN
       \E batch \in SUBSET due :
          /\ Cardinality(batch) <= BatchSize
          /\ batch # due => /\ Cardinality(batch) = BatchSize
                            /\ \A r \in due \ batch, b \in batch : ~Before(r, b)
          /\ eng' = [eng EXCEPT ![s] = [@ EXCEPT !.pc = "claim", !.at = now, !.batch = batch]]
    /\ SchedulerOnly /\ UNCHANGED <<job, leaderLock, run, perCompany, claims>>

Running(s) == {j \in Job : run[s][j].phase # "none"}

\* MUTANT: the limit per company is off by one.
MutHasCapacity(s, j) ==
    /\ j \notin Running(s)
    /\ Cardinality(Running(s)) < MaxConcurrentGlobal
    /\ perCompany[s][CompanyOf[j]] <= MaxConcurrentPerCompany

HasCapacity(s, j) ==
    /\ j \notin Running(s)
    /\ Cardinality(Running(s)) < MaxConcurrentGlobal
    /\ perCompany[s][CompanyOf[j]] < MaxConcurrentPerCompany

First(batch) == {b \in batch : \A o \in batch : ~Before(o, b)}

\* A due job that cannot start is passed over and stays due; once the timer is
\* stopped, so is the rest of the batch.
PassOver(s) ==
    /\ Alive(s) /\ eng[s].pc = "claim"
    /\ \E b \in First(eng[s].batch) :
          /\ server[s] = "up" => ~HasCapacity(s, b.job)
          /\ eng' = [eng EXCEPT ![s].batch = IF server[s] = "up" THEN @ \ {b} ELSE {}]
    /\ SchedulerOnly /\ UNCHANGED <<job, leaderLock, run, perCompany, claims>>

\* MUTANT: the update of the claim matches the job alone.
MutAsRead(b) == TRUE

\* The filter of the claim's update.
AsRead(b) == job[b.job].next = b.next

\* claim: moves nextRunAt past the time of the tick if it still is what was read.
Claim(s) ==
    /\ server[s] = "up" /\ eng[s].pc = "claim"
    /\ \E b \in First(eng[s].batch) :
          LET j == b.job
              won == AsRead(b)
              due == CountDueOccurrences(j, b.next, eng[s].at)
          IN /\ HasCapacity(s, j)
             /\ eng' = [eng EXCEPT ![s] =
                    [@ EXCEPT !.batch = eng[s].batch \ {b},
                              !.pc = IF won THEN "start" ELSE "claim",
                              !.picked = IF won THEN b ELSE NoPick,
                              !.owed = IF won THEN SelectRunCount(Policy[j], due) ELSE 0]]
             /\ job' = IF won THEN [job EXCEPT ![j].next = NextRunAt(j, eng[s].at)] ELSE job
             /\ claims' = [claims EXCEPT ![j] = [t \in Time |->
                    IF won /\ t \in Covered(j, b.next, eng[s].at) THEN @[t] + 1 ELSE @[t]]]
    /\ SchedulerOnly /\ UNCHANGED <<leaderLock, run, perCompany>>

\* jobRunner.start, in the same breath as the answer to the claim: the timer is
\* not looked at again.
Start(s) ==
    /\ Alive(s) /\ eng[s].pc = "start"
    /\ LET j == eng[s].picked.job
           starts == eng[s].owed > 0
       IN /\ run' = IF starts
                    THEN [run EXCEPT ![s][j] = [NoRun EXCEPT !.phase = "lock", !.left = eng[s].owed,
                                                             !.timeout = eng[s].picked.timeout]]
                    ELSE run
          /\ perCompany' = IF starts THEN [perCompany EXCEPT ![s][CompanyOf[j]] = @ + 1]
                                     ELSE perCompany
    /\ eng' = [eng EXCEPT ![s] = [@ EXCEPT !.pc = "claim", !.picked = NoPick, !.owed = 0]]
    /\ SchedulerOnly /\ UNCHANGED <<job, leaderLock, claims>>

\* At MaxTime the clock stands for every later moment, so the interval passes too.
\* MUTANT: self-heal runs on the first tick only.
MutHealDue(s) == eng[s].lastHeal < 0

HealDue(s) == now - eng[s].lastHeal >= SelfHealInterval \/ now = MaxTime

\* The end of runDueJobs: the tick is over unless self-heal is due.
EndBatch(s) ==
    /\ Alive(s) /\ eng[s].pc = "claim" /\ eng[s].batch = {}
    /\ eng' = IF HealDue(s)
              THEN [eng EXCEPT ![s] = [@ EXCEPT !.pc = "stuck", !.at = 0, !.lastHeal = now]]
              ELSE [eng EXCEPT ![s] = [@ EXCEPT !.pc = "idle", !.at = 0]]
    /\ SchedulerOnly /\ UNCHANGED <<job, leaderLock, run, perCompany, claims>>

\* Judged by the timeout the job has now.
Overdue(j, row) == row.at + job[j].timeout + StuckGrace < now

\* The two finds of recoverStuckExecutions.
FindStuck(s) ==
    /\ Alive(s) /\ eng[s].pc = "stuck"
    /\ LET stuck == {e \in Job \X (1..MaxExecs) :
                        /\ e[2] \in DOMAIN execs[e[1]]
                        /\ execs[e[1]][e[2]].status = "running"
                        /\ Overdue(e[1], execs[e[1]][e[2]])}
       IN eng' = [eng EXCEPT ![s] = [@ EXCEPT !.stuck = stuck,
                                              !.pc = IF stuck = {} THEN "bare" ELSE "close"]]
    /\ SchedulerOnly /\ UNCHANGED <<job, leaderLock, run, perCompany, claims>>

\* Its updateMany: those that are still running are closed as timed out.
CloseStuck(s) ==
    /\ Alive(s) /\ eng[s].pc = "close"
    /\ execs' = [j \in Job |-> [i \in DOMAIN execs[j] |->
                    IF <<j, i>> \in eng[s].stuck /\ execs[j][i].status = "running"
                    THEN [execs[j][i] EXCEPT !.status = "timeout"]
                    ELSE execs[j][i]]]
    /\ eng' = [eng EXCEPT ![s] = [@ EXCEPT !.pc = "bare", !.stuck = {}]]
    /\ UNCHANGED <<now, job, leaderLock, jobLock, server, run, perCompany, asked, budget, claims>>

\* The rest of selfHeal: jobs without nextRunAt are found, then each gets one,
\* without another look at the job.
FindUnscheduled(s) ==
    /\ Alive(s) /\ eng[s].pc = "bare"
    /\ LET bare == {j \in Job : job[j].active /\ job[j].next = NoNext}
       IN eng' = [eng EXCEPT ![s] = [@ EXCEPT !.bare = bare,
                                              !.pc = IF bare = {} THEN "idle" ELSE "reschedule"]]
    /\ SchedulerOnly /\ UNCHANGED <<job, leaderLock, run, perCompany, claims>>

Reschedule(s) ==
    /\ Alive(s) /\ eng[s].pc = "reschedule"
    /\ \E j \in eng[s].bare :
          /\ job' = [job EXCEPT ![j].next = NextRunAt(j, now)]
          /\ eng' = [eng EXCEPT ![s] =
                 [@ EXCEPT !.bare = eng[s].bare \ {j},
                           !.pc = IF eng[s].bare = {j} THEN "idle" ELSE "reschedule"]]
    /\ SchedulerOnly /\ UNCHANGED <<leaderLock, run, perCompany, claims>>

\* A database operation of the tick fails: the tick is over, leadership is kept.
TickFails(s) ==
    /\ Alive(s) /\ eng[s].pc \notin {"idle", "start"}
    /\ budget.fault > 0
    /\ budget' = [budget EXCEPT !.fault = @ - 1]
    /\ eng' = [eng EXCEPT ![s] = [Idle EXCEPT !.leader = eng[s].leader, !.lastHeal = eng[s].lastHeal]]
    /\ UNCHANGED <<now, job, execs, leaderLock, jobLock, server, run, perCompany, asked, claims>>

Tick(s) ==
    \/ Renew(s) \/ AcquireLeader(s) \/ FindDueJobs(s) \/ PassOver(s) \/ Claim(s) \/ Start(s)
    \/ EndBatch(s) \/ FindStuck(s) \/ CloseStuck(s) \/ FindUnscheduled(s) \/ Reschedule(s)

-----------------------------------------------------------------------------
(* The job runner: start's loop of runOnce and execute, for one job.       *)

Phase(s, j, phase) == /\ Alive(s) /\ run[s][j].phase = phase

\* The loop ends: the job and its company get their place back.
Ended(s, j) ==
    /\ run' = [run EXCEPT ![s][j] = NoRun]
    /\ perCompany' = [perCompany EXCEPT ![s][CompanyOf[j]] = IF @ > 1 THEN @ - 1 ELSE 0]

\* One of the owed runs is over.
NextRun(s, j) ==
    IF run[s][j].left > 1
    THEN /\ run' = [run EXCEPT ![s][j] = [NoRun EXCEPT !.phase = "lock", !.left = run[s][j].left - 1,
                                                       !.timeout = run[s][j].timeout]]
         /\ UNCHANGED perCompany
    ELSE Ended(s, j)

\* acquireCronLock of runOnce.  Refused, the run is skipped.
LockJob(s, j) ==
    /\ Phase(s, j, "lock")
    /\ \/ /\ jobLock[j] = Nobody
          /\ jobLock' = [jobLock EXCEPT ![j] = s]
          /\ run' = [run EXCEPT ![s][j].phase = "read"]
          /\ UNCHANGED perCompany
       \/ /\ jobLock[j] # Nobody
          /\ NextRun(s, j)
          /\ UNCHANGED jobLock
    /\ RunnerOnly /\ UNCHANGED <<job, execs, budget>>

\* The latest execution decides which attempt this is.
ReadLast(s, j) ==
    /\ Phase(s, j, "read")
    /\ run' = [run EXCEPT ![s][j] = [@ EXCEPT !.phase = "create",
                                               !.attempt = ResolveRunAttempt(execs[j])]]
    /\ RunnerOnly /\ UNCHANGED <<job, execs, jobLock, perCompany, budget>>

\* The execution is recorded, and the handler starts with its timeout.
Create(s, j) ==
    /\ Phase(s, j, "create")
    /\ Len(execs[j]) < MaxExecs
    /\ execs' = [execs EXCEPT ![j] = Append(@, [status |-> "running", attempt |-> run[s][j].attempt,
                                                retry |-> FALSE, at |-> now])]
    /\ run' = [run EXCEPT ![s][j] = [@ EXCEPT !.phase = "handler", !.exec = Len(execs[j]) + 1,
                                               !.deadline = now + run[s][j].timeout]]
    /\ RunnerOnly /\ UNCHANGED <<job, jobLock, perCompany, budget>>

\* awaitHandlerWithTimeout is over; a run that did not succeed may queue a retry.
Settled(s, j, outcome) ==
    /\ Phase(s, j, "handler")
    /\ LET retries == /\ outcome # "success"
                      /\ ShouldRetry(run[s][j].attempt, MaxRetries[j])
       IN run' = [run EXCEPT ![s][j] =
                    [@ EXCEPT !.phase = "record", !.outcome = outcome, !.deadline = now + ClosingTime,
                              !.retryAt = IF retries
                                          THEN [at |-> now + RetryDelay[j], src |-> "retry"]
                                          ELSE NoNext]]
    /\ RunnerOnly /\ UNCHANGED <<job, execs, jobLock, perCompany, budget>>

\* The handler settles, in time or just so; or it never does, and its timer fires.
Settle(s, j) == \E outcome \in {"success", "failed"} : Settled(s, j, outcome)

\* MUTANT: the timer aborts the handler but does not reject.
MutTimeOut(s, j) == now >= run[s][j].deadline /\ Phase(s, j, "handler") /\ UNCHANGED vars

TimeOut(s, j) == now >= run[s][j].deadline /\ Settled(s, j, "timeout")

\* The outcome is written to the execution, whatever became of it meanwhile.
Record(s, j) ==
    /\ Phase(s, j, "record")
    /\ execs' = [execs EXCEPT ![j][run[s][j].exec] =
                    [@ EXCEPT !.status = run[s][j].outcome,
                              !.retry = \/ execs[j][run[s][j].exec].retry
                                        \/ run[s][j].retryAt # NoNext]]
    /\ run' = [run EXCEPT ![s][j].phase = "update"]
    /\ RunnerOnly /\ UNCHANGED <<job, jobLock, perCompany, budget>>

\* MUTANT: $set instead of $min.
MutEarlier(t, next) == TRUE

\* $min: what is unset counts as later.
Earlier(t, next) == next = NoNext \/ t.at < next.at

\* The $min of nextRunAt: a retry pulls it earlier, or sets it when it is unset.
UpdateJob(s, j) ==
    /\ Phase(s, j, "update")
    /\ LET retryAt == run[s][j].retryAt
           pulls == retryAt # NoNext /\ Earlier(retryAt, job[j].next)
       IN job' = IF pulls THEN [job EXCEPT ![j].next = retryAt] ELSE job
    /\ run' = [run EXCEPT ![s][j] = [NoRun EXCEPT !.phase = "release", !.left = run[s][j].left,
                                                  !.timeout = run[s][j].timeout]]
    /\ RunnerOnly /\ UNCHANGED <<execs, jobLock, perCompany, budget>>

\* The finally of runOnce.
Release(s, j) ==
    /\ Phase(s, j, "release")
    /\ jobLock' = [jobLock EXCEPT ![j] = IF @ = s THEN Nobody ELSE @]
    /\ NextRun(s, j)
    /\ RunnerOnly /\ UNCHANGED <<job, execs, budget>>

\* MUTANT: no finally around execute: its failure ends the run with the lock held.
MutOperationFails(s, j) ==
    /\ Alive(s) /\ run[s][j].phase \notin {"none", "handler"}
    /\ budget.fault > 0
    /\ budget' = [budget EXCEPT !.fault = @ - 1]
    /\ Ended(s, j)
    /\ UNCHANGED <<now, job, execs, leaderLock, jobLock, server, eng, asked, claims>>

\* A database operation of the run fails: the lock is released, the runs that
\* are left are dropped.  A release that fails leaves the lock to its TTL.
OperationFails(s, j) ==
    /\ Alive(s) /\ run[s][j].phase \notin {"none", "handler"}
    /\ budget.fault > 0
    /\ budget' = [budget EXCEPT !.fault = @ - 1]
    /\ \/ /\ run[s][j].phase = "lock"
          /\ Ended(s, j)
          /\ UNCHANGED jobLock
       \/ /\ run[s][j].phase \in {"read", "create", "record", "update"}
          /\ run' = [run EXCEPT ![s][j] = [@ EXCEPT !.phase = "release", !.left = 1]]
          /\ UNCHANGED <<perCompany, jobLock>>
       \/ /\ run[s][j].phase = "release"
          /\ Ended(s, j)
          /\ jobLock' = [jobLock EXCEPT ![j] = IF @ = s THEN Dead ELSE @]
    /\ RunnerOnly /\ UNCHANGED <<job, execs>>

\* What the runner does by itself: no handler has to settle.
RunStep(s, j) == \/ LockJob(s, j) \/ ReadLast(s, j) \/ Create(s, j) \/ TimeOut(s, j)
                 \/ Record(s, j) \/ UpdateJob(s, j) \/ Release(s, j)

-----------------------------------------------------------------------------
(* Users: pause and resume are transactions; Run now reads, then writes.   *)

UserStep(op) == /\ op \in UserOps /\ budget.user > 0
                /\ budget' = [budget EXCEPT !.user = @ - 1]
                /\ UNCHANGED <<now, execs, leaderLock, jobLock, server, eng, run, perCompany, claims>>

\* MUTANT: a pause leaves nextRunAt.
MutPause(j) == /\ job[j].active
               /\ job' = [job EXCEPT ![j].active = FALSE]
               /\ UserStep("pause") /\ UNCHANGED asked

Pause(j) == /\ job[j].active
            /\ job' = [job EXCEPT ![j] = [@ EXCEPT !.active = FALSE, !.next = NoNext]]
            /\ UserStep("pause") /\ UNCHANGED asked

Resume(j) == /\ ~job[j].active
             /\ job' = [job EXCEPT ![j] = [@ EXCEPT !.active = TRUE, !.next = NextRunAt(j, now)]]
             /\ UserStep("resume") /\ UNCHANGED asked

AskRun(j) == /\ job[j].active
             /\ asked' = asked \cup {j}
             /\ UserStep("run") /\ UNCHANGED job

\* Two readings of the clock differ in the program, however close: what a manual run
\* writes is never what a scheduler has read of an earlier one.
NewReading(j) == \A s \in Server : \A b \in eng[s].batch :
                     b.job = j => b.next # [at |-> now, src |-> "manual"]

RunNow(j) == /\ j \in asked /\ NewReading(j)
             /\ asked' = asked \ {j}
             /\ job' = [job EXCEPT ![j].next = [at |-> now, src |-> "manual"]]
             /\ UNCHANGED <<now, execs, leaderLock, jobLock, server, eng, run, perCompany,
                            budget, claims>>

\* An edit of the schedule counts on from now; a paused job is left unscheduled.
EditSchedule(j) == /\ job' = IF job[j].active THEN [job EXCEPT ![j].next = NextRunAt(j, now)] ELSE job
                   /\ UserStep("schedule") /\ UNCHANGED asked

EditTimeout(j) == /\ \E t \in 1..Timeout[j] : job' = [job EXCEPT ![j].timeout = t]
                  /\ UserStep("timeout") /\ UNCHANGED asked

UserOp(j) == \/ Pause(j) \/ Resume(j) \/ AskRun(j) \/ RunNow(j)
             \/ EditSchedule(j) \/ EditTimeout(j)

-----------------------------------------------------------------------------
(* Processes and time.                                                     *)

\* The process is gone; its locks stay until their TTL is over.
Gone(s) ==
    /\ server' = [server EXCEPT ![s] = "down"]
    /\ leaderLock' = IF leaderLock = s THEN Dead ELSE leaderLock
    /\ jobLock' = [j \in Job |-> IF jobLock[j] = s THEN Dead ELSE jobLock[j]]
    /\ eng' = [eng EXCEPT ![s] = Idle]
    /\ run' = [run EXCEPT ![s] = [j \in Job |-> NoRun]]
    /\ perCompany' = [perCompany EXCEPT ![s] = [c \in Company |-> 0]]
    /\ UNCHANGED <<now, job, execs, asked, claims>>

Crash(s) == /\ Alive(s) /\ budget.fault > 0
            /\ budget' = [budget EXCEPT !.fault = @ - 1]
            /\ Gone(s)

Restart(s) == /\ server[s] = "down"
              /\ server' = [server EXCEPT ![s] = "up"]
              /\ UNCHANGED <<now, job, execs, leaderLock, jobLock, eng, run, perCompany,
                             asked, budget, claims>>

\* SIGTERM: stop clears the timer and waits for the runs in progress, but no
\* longer than its grace period...
Stop(s) == /\ server[s] = "up" /\ budget.fault > 0
           /\ budget' = [budget EXCEPT !.fault = @ - 1]
           /\ server' = [server EXCEPT ![s] = "stopping"]
           /\ UNCHANGED <<now, job, execs, leaderLock, jobLock, eng, run, perCompany, asked, claims>>

\* ... then gives up leadership, and the process closes its connections and exits.
ReleaseLeader(s) ==
    /\ server[s] = "stopping"
    /\ server' = [server EXCEPT ![s] = "released"]
    /\ leaderLock' = IF eng[s].leader /\ leaderLock = s THEN Nobody ELSE leaderLock
    /\ eng' = [eng EXCEPT ![s].leader = FALSE]
    /\ UNCHANGED <<now, job, execs, jobLock, run, perCompany, asked, budget, claims>>

Exit(s) == server[s] = "released" /\ Gone(s) /\ UNCHANGED budget

\* The lock of a dead leader expires; so may that of one whose tick takes long.
LeaderLockExpires ==
    /\ \/ leaderLock = Dead /\ UNCHANGED budget
       \/ /\ leaderLock \in Server /\ budget.lapse > 0
          /\ budget' = [budget EXCEPT !.lapse = @ - 1]
    /\ leaderLock' = Nobody
    /\ UNCHANGED <<now, job, execs, jobLock, server, eng, run, perCompany, asked, claims>>

JobLockExpires(j) ==
    /\ jobLock[j] = Dead
    /\ jobLock' = [jobLock EXCEPT ![j] = Nobody]
    /\ UNCHANGED <<now, job, execs, leaderLock, server, eng, run, perCompany, asked, budget, claims>>

\* What is being started when the starts end is started before time goes on,
\* so that the horizon cuts no run short.
HorizonReached ==
    /\ now = LastStart
    /\ \E s \in Server : \/ eng[s].pc = "start"
                         \/ \E b \in eng[s].batch : HasCapacity(s, b.job) /\ server[s] = "up"
                         \/ \E j \in Job : run[s][j].phase \in {"lock", "read", "create"}

\* Timers are punctual: a handler does not outlive its timeout, and its closing
\* writes come within ClosingTime.
Advance ==
    /\ now < MaxTime /\ ~HorizonReached
    /\ \A s \in Server, j \in Job :
          run[s][j].phase \in {"handler", "record", "update"} => now < run[s][j].deadline
    /\ now' = now + 1
    /\ UNCHANGED <<job, execs, leaderLock, jobLock, server, eng, run, perCompany, asked, budget, claims>>

Next ==
    \/ \E s \in Server : \/ Tick(s) \/ TickFails(s) \/ Crash(s) \/ Restart(s)
                         \/ Stop(s) \/ ReleaseLeader(s) \/ Exit(s)
                         \/ \E j \in Job : RunStep(s, j) \/ Settle(s, j) \/ OperationFails(s, j)
    \/ \E j \in Job : UserOp(j) \/ JobLockExpires(j)
    \/ LeaderLockExpires
    \/ Advance

Spec == Init /\ [][Next]_vars

\* setInterval keeps ticking, timers fire, database operations settle, locks expire, processes are
\* restarted by their supervisor, and time passes.
Fairness ==
    /\ WF_vars(Advance) /\ WF_vars(LeaderLockExpires /\ leaderLock = Dead)
    /\ \A j \in Job : WF_vars(JobLockExpires(j))
    /\ \A s \in Server : /\ WF_vars(Tick(s)) /\ WF_vars(Restart(s))
                         /\ WF_vars(ReleaseLeader(s)) /\ WF_vars(Exit(s))
                         /\ \A j \in Job : WF_vars(RunStep(s, j))

FairSpec == Spec /\ Fairness

-----------------------------------------------------------------------------

Exec == [status : {"running", "success", "failed", "timeout"}, attempt : Nat \ {0},
         retry : BOOLEAN, at : Time]

TypeOK ==
    /\ now \in Time
    /\ \A j \in Job : /\ job[j].active \in BOOLEAN
                      /\ job[j].next.src \in {"none", "schedule", "retry", "manual"}
                      /\ Len(execs[j]) <= MaxExecs
                      /\ \A i \in DOMAIN execs[j] : execs[j][i] \in Exec
                      /\ jobLock[j] \in Server \cup {Nobody, Dead}
    /\ leaderLock \in Server \cup {Nobody, Dead}
    /\ server \in [Server -> {"up", "stopping", "released", "down"}]
    /\ \A s \in Server : /\ eng[s].pc \in {"idle", "acquire", "find", "claim", "start", "stuck",
                                            "close", "bare", "reschedule"}
                         /\ eng[s].owed \in 0..CatchUpMax
                         /\ perCompany[s] \in [Company -> Nat]
    /\ asked \subseteq Job

(***************************************************************************)
(* "Concurrency is bounded globally, per company, and to one run per job": *)
(* the limits hold in every process although they are checked before the   *)
(* claim's await and used after it, and the counter per company never      *)
(* drifts from the runs it counts, whichever way they end.                 *)
(***************************************************************************)
CapacityBound ==
    \A s \in Server :
        /\ Cardinality(Running(s)) <= MaxConcurrentGlobal
        /\ \A c \in Company :
              LET of == {j \in Running(s) : CompanyOf[j] = c}
              IN Cardinality(of) <= MaxConcurrentPerCompany /\ perCompany[s][c] = Cardinality(of)

(***************************************************************************)
(* "An occurrence is claimed once even if two leaders briefly overlap"     *)
(* (schedulerEngine.ts:101): no occurrence of the schedule is claimed      *)
(* twice, in spite of stale batches, retries that pull nextRunAt back and  *)
(* leadership that moves mid-tick.  It holds as long as the closing writes *)
(* of a run take no longer than its job's retry delay; slower ones refute  *)
(* it.                                                                     *)
(***************************************************************************)
OccurrenceClaimedOnce == \A j \in Job : \A t \in Time : claims[j][t] <= 1

(***************************************************************************)
(* No occurrence is passed over: when nextRunAt has moved on, every        *)
(* occurrence before it has been claimed.                                  *)
(***************************************************************************)
NoneForgotten ==
    \A j \in Job : job[j].next.src = "schedule" =>
        \A t \in 1..(job[j].next.at - 1) :
            t <= MaxTime /\ t % Period[j] = 0 => claims[j][t] = 1

(***************************************************************************)
(* A process that is alive holds a job's lock exactly while it is inside   *)
(* the run the lock was taken for: no error path keeps the lock, and none  *)
(* goes on without it.                                                     *)
(***************************************************************************)
LockFollowsRun ==
    \A s \in Server, j \in Job :
        jobLock[j] = s <=> run[s][j].phase \notin {"none", "lock"}

(***************************************************************************)
(* A job is not tried more than 1 + maxRetries times in a row, however its *)
(* attempts are spread over processes, crashes and scheduled runs.         *)
(***************************************************************************)
AttemptBounded ==
    \A j \in Job : \A i \in DOMAIN execs[j] : execs[j][i].attempt <= MaxRetries[j] + 1

\* The same, on states of the right type only.
WellFormed == TypeOK /\ AttemptBounded

(***************************************************************************)
(* A paused job is never claimed, even by a tick that read it before it    *)
(* was paused, as long as a run is closed before its retry is due.         *)
(***************************************************************************)
NoClaimWhilePaused ==
    [][\A j \in Job : claims'[j] # claims[j] => job[j].active]_vars

(***************************************************************************)
(* The outcome of an execution is final: self-heal never closes one that   *)
(* its runner closes too.                                                  *)
(***************************************************************************)
ClosedOnce ==
    [][\A j \in Job : \A i \in DOMAIN execs[j] :
          execs[j][i].status # "running" => execs'[j][i].status = execs[j][i].status]_vars

\* Every run that is started ends, and gives back its place and its lock.
RunsEnd == \A s \in Server, j \in Job : run[s][j].phase # "none" ~> run[s][j].phase = "none"

(***************************************************************************)
(* No execution stays "running": its runner closes it, or self-heal does   *)
(* after the runner's process has died or its closing write has failed.    *)
(***************************************************************************)
Open(j, i) == i \in DOMAIN execs[j] /\ execs[j][i].status = "running"

ExecutionsClose == \A j \in Job, i \in 1..MaxExecs : Open(j, i) ~> ~Open(j, i)

\* Every execution is closed, and closed once.
ClosesOnce == ExecutionsClose /\ ClosedOnce

=============================================================================
