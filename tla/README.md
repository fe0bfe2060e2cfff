# maestro_core in TLA+

TLA+ models of the concurrent parts of `maestro_core`, the TLC runs that check
them on small instances, and TLAPS proofs of what matters most for every size.
Paths below are relative to `src/modules/core/` unless they begin with `src/`.

    tlc -workers 2 -config MCCronEngine.cfg MCCronEngine.tla     # a run
    tlapm Clients_proofs.tla                                     # the proofs of a module

## The system

maestro_core is the back end of a multi-tenant web application: five kinds of
Node.js process (`src/xServers`: API, WebSocket, Kafka consumers, cron,
Telegram), any number of each, sharing MongoDB, Redis and Kafka. Inside one
process JavaScript runs one piece of code at a time, so everything between two
`await`s is atomic; between them, other requests of the same process and all
other processes move. Nearly every hazard of this code is of that kind:
something was read, checked or sent before an `await` and is relied on after it.

| component | state it keeps | operations | talks to | what is hard | what makes it correct |
|---|---|---|---|---|---|
| Circuit breaker (`utilities/circuitBreaker.ts`) | state, counts, window, trial flag | execute, settle, reset | every client of Redis, Kafka, WebSocket | calls start in one state and settle in another | one trial at a time; opens only on a burst; recovers |
| Cron lock (`cronjobs/locking`, `connections/connectToRedis.ts`, schema `cronLock`) | a Redis key or a Mongo document per job, a handle per holder | acquire, renew, release, keep alive | job runner; both stores | lost and late calls, crashes, expiry, two stores | a lease: one holder while the timing holds; never lost for good |
| Scheduler engine (`cronjobs/engine/schedulerEngine.ts`) | leadership, the batch of a tick, `nextRunAt` of jobs | tick, claim, self-heal, stop | lock, job runner, database | leaders overlap, rows change under a tick, crashes | each occurrence claimed once and none forgotten |
| Job runner (`cronjobs/engine/jobRunner.ts`) | running jobs, counts per company, executions | start, run, retry, record | lock, handlers, database | partial failure of each operation, timeouts | limits hold, attempts bounded, executions close, once |
| Job operations (`database/schemas/cronJob/cronJob.actions.ts`) | the job rows | pause, resume, Run now, edit | database | race with a tick or a run | a paused job is never claimed |
| Request transactions (`utilities/middlewares/asyncHandler.ts`, `transactionHandler.ts`, `transactionUtils.ts`) | session, attempt, queued tasks | begin, replay, commit, abort, after-commit tasks | MongoDB, all transactional routes | write conflicts, unknown commit outcomes | tasks and answers follow the commit |
| Media upload (`utilities/middlewares/mediaUploadMW.ts`) | GridFS files, Media documents | upload, track, clean up | request transactions | GridFS is not transactional | files follow documents |
| Group channels (`api/user/private/chats/channels`) | one document: members, admins, owner, who left and until when he reads | create, add, remove, promote, demote, leave, hide, delete | messages; request transactions | requests decide on what they read | an owner and an admin among the members; each request as if alone |
| Messages, pins, reactions, receipts (`api/user/private/chats/messages`, `domain/messages`) | message documents, the pins of a channel, receipts in each message | send, edit, delete, pin, react, receive, read | channel document; WebSocket | two documents per pin; receipts outside any transaction | records agree; each request as if alone; receipts stay |
| Public chat (`domain/publicChat`, `domain/ai`, `api/user/public/publicChat.ts`) | status, assignee and members of a channel | send, poll, escalate, join, release, close, erase, sweep, reply | WebSocket, Kafka, model | every transition is check, then unconditional write | one assignee who is a member; every escalation announced |
| WebSocket server (`websocket`) | sockets, rooms, pending disconnects, `online` | connect, join, push, sweep, revoke, stop | sessions, database | grace timer, unordered writes, revocation races | presence follows sockets; what should end does |
| Kafka delivery and dead letters (`kafka`) | attempts, offsets, dead letters | publish, consume, give up, replay | brokers, Redis | at-least-once, retries of what was done | no event lost; letters earned; replays end |
| Connections: machine-to-machine WebSocket, Redis, Kafka (`connections`) | a client, its flags, timers and supervisors | connect, retry, reconnect, probe, disconnect | each its server | two supervisors, events of old sockets | one live connection, always supervised, nothing left after closing |
| Telegram poller (`connections/connectToTelegram.ts`) | the leader lock, a supervisor, a launched bot | ask, lead, launch, follow, disconnect | Redis, Telegram | a lock that lapses, a launch that cannot be stopped | the leader polls, and somebody does |
| Everything else | documents | CRUD, permissions, filters, mail, metrics | database | little: sequential code on one document | unit tests |

`PROJECT.json` lists every component with its status, and every hazard that a
property covers, with the line where it bites. Hazards for which the code
promises nothing, or for which a promise does not hold, are described under
*What does not hold* below.

## The modules

| module | models | extends or uses |
|---|---|---|
| `CircuitBreaker` | the `CircuitBreaker` class | |
| `Lease` | abstract: what a lock promises | |
| `CronLock` | `distributedLock.ts` on both stores | `Lease`, refined |
| `CronLock_proofs` | three theorems about it | `CronLock` |
| `CronEngine` | scheduler, runner, job operations, processes | the locks as leases |
| `CronEngine_proofs` | seven theorems about it | `CronEngine` |
| `RequestTransaction` | the request pipeline around a transaction | |
| `RequestTransaction_proofs` | four theorems about it | `RequestTransaction` |
| `ChannelRules` | pure: who may do what to a group and what becomes of it | |
| `GroupChannel` | abstract: requests on a group, one at a time | `ChannelRules` |
| `ChannelRequests` | the same requests as overlapping transactions | `GroupChannel`, refined |
| `MessageRules` | pure: the same for messages, pins and reactions | `ChannelRules` |
| `MessageBoard` | abstract: requests on messages, one at a time | `MessageRules` |
| `MessageRequests` | the same requests overlapping, and WebSocket receipts | `MessageBoard`, refined |
| `Chats` | the two together | `ChannelRequests`, `MessageRequests` |
| `Chats_proofs` | six theorems about it, and so about the four modules before it | `Chats` |
| `PublicChat` | a visitor's conversation between bot and agents | |
| `PublicChat_proofs` | two theorems about it | `PublicChat` |
| `Presence` | the WebSocket server | |
| `Presence_proofs` | three theorems about it | `Presence` |
| `AtLeastOnce` | abstract: what event delivery promises | |
| `EventDelivery` | producer, consumers, dead letters, replay | `AtLeastOnce`, refined |
| `EventDelivery_proofs` | four theorems about it | `EventDelivery` |
| `SocketClient`, `RedisClient`, `KafkaClient`, `TelegramPoller` | one connection each | |
| `Connections` | the four together | all of them |
| `Clients_proofs` | two theorems about the connections, three about the breaker | `Connections`, `CircuitBreaker` |
| `MC...` | constants for TLC | |

They compose by contract: `CronLock` is shown to implement `Lease`, and
`CronEngine` and `TelegramPoller` use locks with the lease's steps (granted when
free, released by the holder, expired when the holder is dead) instead of the
lock protocol; `CircuitBreaker` is the breaker whose refusals the other modules
allow after any failure; `RequestTransaction` is the pipeline of which
`ChannelRequests` and `MessageRequests` keep the reads, the write and the commit.
Every operator translates the lines `PROJECT.json` maps it to; operators marked
`MUTANT` are plausible bugs kept beside the code they change, and each property
is known to fail under one of them.

### CircuitBreaker

A call is two steps: `Execute`, everything up to the `await`, and `Succeed` or
`Fail`, when the promise settles. A call that exceeds `callTimeout` settles as a
failure and its late answer is ignored. A clock reading is kept as an age that
stops growing once every comparison with it is settled, so that no horizon cuts
the behaviour short. `recent` is a history variable: the ages of the latest
failures of the present CLOSED period, counted independently of the code.

### CronLock

`calls` holds the store operations in flight. Each takes effect at some moment
(`Serve`), is answered at a later one, may be lost, may be given up on by the
breaker (`GiveUp`) and still take effect. The Redis scripts are atomic; the
Mongo path is purge, then create, two calls. `Tick` lets time pass for leases,
timers and calls; `late` counts the ticks on which a timer or a call is overdue.
`Flip` is a client that loses or regains Redis: it picks the other store on its
next acquire. The configuration is a scaled one: `Ttl` 7, `RenewEvery` 2,
`CallTimeout` 1 satisfy `TimingAssumption`, the inequality the code's
120 s, 40 s and call time-outs of seconds satisfy too: two intervals and two
calls fit into the lifetime.

### CronEngine

One action per stretch between `await`s. A tick: `Renew` or `AcquireLeader`,
`FindDueJobs`, then per job `PassOver`, or `Claim` and `Start`; `EndBatch`,
`FindStuck`, `CloseStuck`, `FindUnscheduled`, `Reschedule`. A run: `LockJob`,
`ReadLast`, `Create`, the handler (`Settled` or `TimeOut`), `Record`,
`UpdateJob`, `Release`. Users: `Pause`, `Resume`, `AskRun` and `RunNow` (read,
then write), `EditSchedule`, `EditTimeout`. Processes: `Crash`, `Stop`,
`ReleaseLeader`, `Exit`, `Restart`. An occurrence is a multiple of the job's
period; `nextRunAt` also carries who wrote it, because a retry and an occurrence
never have the same millisecond in the program although they share a time unit
here. For the same reason a manual run waits while a scheduler has in hand what an
earlier manual run wrote in the same unit (`NewReading`): two readings of the
clock differ in the program. `claims` is a history variable. `ClosingTime` says how long the writes
that close a run may take; a job's row is judged by what its run has read of it.
The scheduler's heartbeat, the log lines and the durations of executions are
left out: nothing reads them back.

### RequestTransaction

One request is PUT /messages with files: begin, upload each file and write its
Media document in the transaction, validate the form, run the handler, commit,
run after-commit tasks, answer; or replay, or roll back and delete the files.
All requests write the one channel row, so they conflict. A commit whose answer
is lost leaves the transaction `sent`; the server then commits or aborts it on
its own. `txn` is the server's truth, `reply` what the caller was told.

### ChannelRules, GroupChannel, ChannelRequests

`ChannelRules` has, per operation on a group, the check (`MayAdd`, `MayRemove`,
`MayPromote`, `MayDemote`, `MayLeave`, `MaySend`) and its outcome; `LeftAfter`,
`AdminsAfter` and `OwnersAfter` are the branches of `deleteUserChannel`, one
handler for leaving, hiding and deleting. Which admin or member succeeds an owner
who leaves depends on the order of an array that the model leaves open. A
message is the time of its sending, and a former member reads what was sent up to
the time his entry carries; a time of day that a request takes is later than any
recorded.

`ChannelRequests` cuts a request where MongoDB cuts it. The first read fixes what
the transaction sees (`seen`); a commit of another makes that `stale`; a write
then conflicts, as it does while another transaction has written and not
committed; `asyncHandler` replays the handler from its first line, in a
transaction of its own, up to `MaxAttempts`. The writes of a handler are one
step: nobody sees them before the commit. `AsIfAlone` is the refinement: under
`left` mapped to what former members can read (`Kept`), a step is one whole
request of `GroupChannel`, decided on the channel as it is at that moment, or
none. That is more than serialisability of the writes: a check made on a stale
read must never take effect.

### MessageRules, MessageBoard, MessageRequests, Chats

The same for pins, edits, deletions and reactions. A pin is written in two
documents, the message and the channel, and so meets promotions and removals. A
request holds the documents it has written, and only these. The receipts a
client sends in a request run in a transaction like the rest. Those it sends over
the WebSocket run the same code without one: `Receive` reads, `Save` saves one
message after the other. Mongoose pushes a new entry, but saves a changed one
with the whole array it was read in, and the read's `select` leaves out `__v`, so
no version is checked (`applyMessageReceipts.ts:123`, `:163`, `:206`,
`webSocket.ts:403`). `ReceiptsKept` says exactly what follows: a receipt is lost,
taken back or doubled only at a `Save` of an array that has changed since
(`Late`).

`Chats` holds both. The requests of the one matter to the other through the
channel document only, and `MessageRequests` has those that do (`Governing`); so
one behaviour watches the members or the messages, and the other is at rest.
Direct and assistant channels, forwarding and the lists are left out.

### PublicChat

Nothing here runs in a transaction. Each request reads the channel in its first
step and writes it, or its messages, in up to three more (`Proceed`), the
status always by an unconditional `$set`. The visitor's tabs send, ask for a
human, end, erase and poll; agents join, release and close; the assistant
answers from a queue and may escalate by its tool; the retention job erases what
is stale. Of the messages only the closing line is kept, because only
`PollCarriesClosingLine` speaks of one. `announced` and `closedAloud` are history
variables.

### Presence

`conn` is the phase of a connection: validated, open, closing (its close waits
for the room operations queued), leaving, gone. `entry`, `sockets` and `timer`
are the maps of `webSocket.ts`; `writes` holds the writes of `online` under way,
in no order; `queue` the frames of a connection, which are served one after the
other, each with an `await` for the permission. A revocation is pushed before its
transaction commits (`revoking`, `push`), and may be lost. `raced` remembers the
users for whom the code gives no order: two writes overlapped, or one failed.

### EventDelivery

`log` and `dlq` are the topics; a caller publishes with retries and, when told
that it failed, handles the event itself. A member fetches from its `position`,
which runs ahead of what it commits (`resolved`, `AutoCommit`); failed attempts
are counted in its own memory; after the last one it writes a dead letter, or
stays at the message if it cannot. A replay takes the lock, reads the end of the
topic, joins its group, and resends up to that end; its time-out fires while a
batch is being resent, which goes on (`over`). The lock counts from its acquire
and is never renewed, so it may lapse under the replay at any time
(`LockExpires`), or stay behind if Redis is gone when it is to be released.
`Promised` maps each event to new, owed, parked or handled, and `AtLeastOnce`
says between which of these it may move; and that it is not owed for ever.

### SocketClient, RedisClient, KafkaClient, TelegramPoller, Connections

Each has the flags of its file, the outcomes that are on their way, and its
server. `SocketClient` keeps a socket until its `close` has come, because the
events of old ones arrive late: `close` of a socket given up runs the same handler
as that of the present one. `RedisClient` has one client object, whose library
does not reconnect by itself, the connect loop and the supervisor, of which at
most one waits. `KafkaClient` has the producer's loop,
the supervisor, the metadata probe and the order of a disconnect. In
`TelegramPoller` several processes share the lock in Redis; `launch` follows
Telegraf's launch through its hook to the poll, because a `stop()` that comes
before the poll only throws (`stray`). `Connections` watches one of the four per
behaviour: they share no state, and `closeConnections` closes them one after the
other whatever became of the one before. The others are at rest, closed.

## The runs

| run | properties | what it shows |
|---|---|---|
| `breaker` | TypeOK, OneTrialAtATime, OpensOnlyOnBurst, Recovers | four calls in flight: calls of several states and a reset overlap a trial, and the breaker still trials one at a time, opens only on a burst, and closes for good |
| `cron_lock` | SafelyHeld, NeverTaken | one breach of timing, one fault and one change of store: one holder per store while the timing holds, one in all while no connection changes, and late calls of a lapsed holder harm nobody |
| `cron_lock_live` | ImplementsLease, Available | with timing kept and one fault the lock refines `Lease` and is always obtained again |
| `cron_engine` | WellFormed, LockFollowsRun, OccurrenceClaimedOnce, NoneForgotten | two processes, one job with retries, one crash, shutdown, failing operation or lapsing leader lock: locks follow runs, attempts stay bounded, occurrences are claimed once and none is forgotten |
| `cron_limits` | CapacityBound, NoClaimWhilePaused | three jobs, two companies, two user operations between any two steps |
| `cron_live` | RunsEnd, ClosesOnce | handlers that never settle, slow closing writes, two faults: runs end, executions are closed, once |
| `request_tx` | TypeOK, TasksFollowCommit, ReplyTruthful, FilesFollowMedia, Answered | two conflicting requests with two files, four faults |
| `public_chat` | Assigned, PollCarriesClosingLine, EscalationAnnounced | two tabs, two agents, the assistant and the sweep, four requests in any order and one failing notice |
| `presence` | Registered, PresenceFollows, RoomsFollow, Settles | overlapping connections, room operations, a revocation, a stop or crash, a lost push or failed write |
| `delivery` | Accounted, ReplayEnds, Promised | two events, two members, two replays with failures, crashes, rebalances and overlap |
| `channels` | Orderly, OwnerKeeps, MembersAsIfAlone, Recorded, PostsAsIfAlone, ReceiptsKept | overlapping requests of three members on a group and its messages, replayed on conflict |
| `connections` | Linked, StaysClosed, Settles | three losses, refusals, silences, stalls or crashes, and a disconnect at any moment |

Several properties are conjunctions of named parts, each with its comment:
`SafelyHeld` (`TypeOK`, `Exclusive`), `WellFormed` (`TypeOK`, `AttemptBounded`),
`ClosesOnce` (`ExecutionsClose`, `ClosedOnce`), `Assigned`, `Registered`,
`RoomsFollow`, `Accounted`, `Orderly`, `Recorded`, `Linked`, and the two
`Settles`. A run takes between five seconds and three minutes.

### Bounds, and why they are enough

* `breaker`: four calls are a trial, a stale trial, a stale plain call and one
  more. The threshold of 3 exceeds the 2 that any pair of interleaved failures
  gives; seven failures open the circuit twice and fail a trial.
* `cron_lock`: two clients; a third only repeats what the second does, since a
  lock has one holder and one successor. Two serials tell a client's present
  acquire from the call it left behind. With one fault and one breach, a holder
  lapses while a call of it is still in flight.
* `cron_engine`: two processes and one job, because processes meet only over one
  job's row and lock. `MaxTime` 4 with period 2 holds two occurrences and the
  retries between; `MaxExecs` 3 is one more than 1 + `MaxRetries`.
  `TroubleBudget` 1 bounds faults and lapses together, so that each meets every
  step. `ClosingTime` 0: see *What does not hold*.
* `cron_limits`: three jobs exceed the global limit of 2, two of one company its
  limit of 1; at time 1 all are due. Job 1 may start without `nextRunAt`. Two
  user operations can pause and resume, or ask for a run and pause.
* `cron_live`: one process, because liveness only needs somebody to go on;
  `LastStart` 2 with `MaxTime` 7 leaves each run the time to end.
  `HorizonReached` holds the clock while a run is being started at the last
  start, so that the horizon does not cut it short.
* `request_tx`: two requests are enough for conflict, three attempts are the
  code's `MAX_TRANSACTION_ATTEMPTS`; four faults cover three lost commit answers
  and a failed deletion.
* `public_chat`: `MaxRequests` 4 is the shortest in which a chat is escalated,
  taken by two agents and closed, or taken, closed, reopened and polled;
  `FaultBudget` 1 fails any one notice or reply.
* `presence`: one user, because users share nothing but the process.
  `MCBudgets` splits the events: three room operations of one connection, with
  room for one room, are join, leave and join again; two connections with a stop
  or crash, a fault and a revocation; two connections and an operation; an
  operation that meets a revocation; three connections in a row with a fault, for
  a timer that acts on a user who has come, gone and come.
* `delivery`: two events make a batch and an order; `MaxTries` 2 and `MaxSends` 2
  are the smallest with a retry; `MCBudgets` splits crashes, rebalances, failing
  sends and overlapping replays, and says which events and members (`actors`)
  take part in each; a lock that is not released counts as a crash. `MaxLog` 4
  bounds how often letters that fail again come back to a replay.
* `channels`: three people are an owner, an admin and a member; two requests at
  once are enough for any conflict, four in all for the members, up to three for
  the messages, mixed as `MCTopics` says (pins with promotions and with deletions,
  reactions with edits and deletions); `MaxAttempts` 2 has a replay and a last
  attempt; room for one pin, so that two pins meet at the limit.
* `connections`: `Troubles` 3 is a loss, another while it is being repaired, and
  a disturbance of that; `Silence` 3 is the code's number of silent intervals
  after which a socket is terminated; `MCSocket` has the present socket, one that
  is closing still and one more, and a socket that is gone may be made again; two
  pollers, since one lock has one successor.

The deadlock check is off where the system really stops: when all requests are
answered (`request_tx`, `channels`, `public_chat`), when nobody publishes or
replays any more (`delivery`), and when all is disconnected (`connections`).

Symmetry is used for processes, clients and the members, requests and messages
of `channels`, in the runs of safety and action properties only.

### Fairness

* `CircuitBreaker`: weak fairness of the clock, of each caller and of each
  call's settling; every awaited operation has a time limit. Not of `Reset`.
* `CronLock`: of the clock, of trying, of the renewal timer and of serving. Not
  of the TTL index of Mongo, which runs once a minute: `Available` does not
  need it.
* `CronEngine`: `setInterval` keeps ticking (a tick only starts when the last is
  over), timers fire, database operations settle, locks of the dead expire, the
  supervisor restarts processes. Not of handlers (`Settled`), of users, or of any
  fault.
* `RequestTransaction`: of each step of a request, and of the server's time limit
  on the transaction a refused request leaves open; not of faults, nor of what
  the server does with a commit whose answer was lost. Who conflicts with whom is
  left open: attempts are bounded by the code itself.
* `PublicChat`: of the next step of a handler that was begun (its operations are
  database calls with time limits) and of the assistant's queue. Nobody has to
  begin anything.
* `Presence`: callbacks and timers run, sweeps recur, a stop that takes too long
  is cut short by the process's forced exit, a process that is down is started
  again, tokens expire in the end. Not of clients, nor of pushes.
* `EventDelivery`: members run, rejoin and commit, pauses end, time-outs strike,
  locks expire. A replay's questions to the broker, its resends and its commits are
  answered; its group and its batches may keep it waiting for ever, which is what
  the time-out is for. Nobody has to publish or replay.
* `Connections`: timers fire, handshakes and closing handshakes end one way or the
  other, servers come back, supervisors and probes go on, a crashed poller is
  restarted, the lock of a dead one expires. The WebSocket client sets no time
  limit on a handshake: that it ends is an assumption about the server and the
  network. The properties are of the form "once troubles are over", since
  troubles are bounded and losses need no fairness.

## What does not hold

Where a comment of the code promises more than the code keeps, the property says
what is kept, and the difference is listed here. Each of the first group was
refuted by TLC on a variant of the run or of the property; the others were met
while translating.

* `cronjobs/engine/jobRunner.ts:172`: a retry's `$min` on `nextRunAt` may land
  after later claims and pull it back over occurrences already claimed.
  `OccurrenceClaimedOnce` holds as long as the closing writes take no longer than
  the retry delay of the job, and fails with `ClosingTime` 2 and a shorter delay,
  against the claim at `schedulerEngine.ts:101`. A delay of 0 seconds is allowed
  (`database/schemas/cronJob/cronJob.ts:118`); that a retry comes late is then a
  matter of milliseconds. The same order of events claims a paused job.
* `cronjobs/locking/distributedLock.ts:23`: while one process has lost Redis and
  another has not, each holds the lock in its own store, against "one run per
  job" of `jobRunner.ts:28`. `SafelyHeld` leaves that one case out
  (`FlipBudget` 1 has it).
* `utilities/middlewares/asyncHandler.ts:64`: middlewares that write in the
  transaction are not replayed with the handler, so the message a replay commits
  names Media documents that were rolled back with the first attempt.
* `utilities/middlewares/validateFormZod.ts:48`: a form that is refused after an
  upload leaves its files in GridFS and the transaction to its time limit, against
  the "deleting on abort" of `mediaUploadMW.ts:659`.
* `connections/connectToTelegram.ts:95`, `:245`: "exactly one process holds it and
  polls" fails in three ways: a lock that lapses while its holder stalls, a
  supervisor that is answered after its process was shut down, and a launch that
  outlives the `stop()` meant for it. `OnlyLeaderPolls` is what holds outside
  these.
* `connections/connectToKafka.ts:280`, `:325`: a disconnect "stops the reconnect
  supervisor and metadata probe" (`:463`), but an attempt under way does not look
  at `shuttingDown`: one that succeeds after the disconnect connects the producer,
  reports it connected and, if the supervisor made it, starts the probe's interval
  again. `StaysClosed` excepts that one step (`KafkaAttemptSucceeds`) and
  `ClosesDown`, in `Settles`, the behaviours that have it (`LateSuccess`); in all
  others the producer, its flag and the interval are gone for good.
* `kafka/deadLetters.ts:33`: "the lock never expires under a running replay". It
  counts from the acquire, the time-out from the end of the set-up, and a batch in
  hand is finished after the time-out; so a slow set-up or a long batch outlives
  it. `Accounted` and `Promised` hold without the lock: commits are fenced by the
  membership of the replay's group.

Also met, with the line where it happens:

* Circuit breaker: failures are counted in consecutive windows, so a burst across
  the end of a window does not open the circuit (`circuitBreaker.ts:239`).
* Cron: stuck executions are judged by the job's present timeout, so shortening
  it closes a run within its time (`schedulerEngine.ts:158`); self-heal and a
  run's retry give a paused job a `nextRunAt` (`jobRunner.ts:172`; harmless for
  claims, against `api/auxiliary/private/cronJob.ts:41`); a run refused its lock loses the occurrence,
  since the claim moved `nextRunAt` before (`jobRunner.ts:93`); a manual run that
  coincides with an occurrence counts as a backlog, and a policy of skip then
  starts neither (`missedRunPolicy.ts:14`); occurrences claimed by a process that
  dies before it starts them are not run.
* Requests: members are told of a message before it is committed
  (`messages.ts:546`), and a user is mailed before his account is
  (`database/schemas/user/user.ts:1114`); after the last unanswered commit the files are deleted although the
  commit may have been applied (`asyncHandler.ts:97`); after-commit tasks of a
  process that dies are lost.
* Public chat: join and release do not look at the status and open a chat again
  that was closed (`channel.actions.ts:66`); the bot's reply is posted without
  another look after the model was asked, also to a conversation an agent has
  taken over (`aiAssistantResponder.ts:243`); two escalations both notify.
* Group chats: two people who open a conversation with each other at once create
  two (`channels.ts:530`); the limit of pins counts those of deleted messages,
  which nobody can unpin (`pin.ts:166`); two WebSocket receipts of one person, each
  read before the other was written, may leave two entries or lose one
  (`domain/messages/applyMessageReceipts.ts:206`); whoever pinned a message cannot unpin it
  unless he is an admin: the code looks for `pinned.user` in the channel, where
  it is not kept (`pin.ts:262-293`, against its documentation); an owner can
  demote himself and stay the owner (`admins.ts:144`, `:334`).
* Kafka: a send that timed out may have been stored, and its event is handled
  twice (`kafkaProducer.ts:178`); a new group starts at the end of the topic and
  never sees what was published before (`kafkaConsumer.ts:199`); a replay's batch
  outlives its time-out and its lock (`deadLetters.ts:177`), so a letter may be
  resent twice.
* Connections: the close event of a socket that was given up marks its successor
  as disconnected until the next reconnect (`connectToWebSocketServer.ts:281`);
  a failed probe of an earlier connection takes a newer one down.

## What is proved

TLAPS checks the theorems below for every value of the constants: any number of
processes, jobs, people, messages, requests, attempts and faults, and any limit
or interval that the named assumptions allow. The assumptions say what the code
gives: that limits are numbers and positive where `environment/validator.ts`
wants them so, that names of different kinds differ, and that the sets that are
counted are finite. Only `TimingAssumption` of `CronLock` relates quantities: two
renewal intervals and two calls fit into a lifetime. Each inductive invariant was
checked by TLC before it was proved. Every proof has one step or lemma per action.

* `Clients_proofs`, of the breaker: `TypeCorrect`, `SingleTrial`, `BurstNeeded`.
  `OpensOnlyOnBurst` speaks of the history `recent`, the code of `failures` and
  `windowAge`; in `CountInv`, `WindowCovers` joins them (every failure counted is
  in the history and no older than the window), and `BelowThreshold` says the next
  failure is the one that opens. `OneTrialAtATime` is inductive by itself.

* `Clients_proofs`, of the connections: `AlwaysLinked`, `AlwaysStaysClosed`. Each
  client has an invariant of its own, and the others stand still while it moves.
  `SocketInv` says why there is one link: while a socket is open or on its way no
  loop waits, and while one is on its way or a loop waits `connectInProgress` is
  up, which every caller looks at; an open socket is the present one, which a
  late `close` of another does not clear; and none is open once the process has
  disconnected. `RedisInv` says that a client that is connected has neither
  attempt nor supervisor under way, so that its loss is always noticed, and
  `KafkaInv` that no failed attempt is about to take away the producer of a
  connection that is reported. `AlwaysStaysClosed` shares the exception of
  `StaysClosed`: after a disconnect nothing connects a producer, reports one or
  starts its probe but the attempt that was under way. `TelegramInv` adds to the lock what is under way: an
  answer that was won and not acted upon yet, a launch that has not come to poll,
  and that only a process that shuts down gives its lock back.

* `CronLock_proofs`: `AlwaysSafelyHeld`, `NeverTakenAway`, `LeaseImplemented`. The
  invariant has three parts. `CallsInv` says what a call in flight can still do:
  it is for the lock its client wants, or it is left over and carries a token
  nobody holds. `LeaseInv` is the arithmetic, while the timing holds: the lock of a
  holder has at least `Least` left, one interval less for a renewal that failed
  and one for a renewal unanswered, and what a client has been granted, and not
  learnt yet, is still his. `SideInv` says that while no connection has changed
  all use one store. `NeverTaken` needs no timing. `LeaseImplemented` assumes no
  breach of the timing and no change of connection (`LateBudget` and `FlipBudget`
  0), the conditions of the run that checks the refinement: beyond them `Lease` is
  not kept, see above.

* `CronEngine_proofs`, without further conditions: `AlwaysWellFormed`,
  `LockAlwaysFollowsRun`, `CapacityAlwaysBounded`. `CapacityBound` needs `CountInv`
  (a company's counter is the number of its runs in the process) and `PickInv`
  (what was found to fit still fits when it is started, because between the two
  runs only end); the bound on attempts needs `RunsInv`, since the attempt is read
  long before it is written.
* `CronEngine_proofs`, under conditions on time:
  * `AlwaysClaimedOnce` assumes `RetriesAreSlower`: the writes that close a run take
    no longer than the retry delay of its job. `AheadUnclaimed` says nothing that
    `nextRunAt` has yet to pass is claimed, and `TimingInv` that a retry that pulls
    `nextRunAt` back pulls it to a time that is still to come.
  * `NeverForgotten` assumes `Undisturbed` as well: every job has a `nextRunAt` at the
    start, and users edit timeouts only; a user who pauses or reschedules a job does
    skip occurrences. `BehindClaimed` says all that `nextRunAt` has passed
    is claimed.
  * `PausedNeverClaimed` assumes `RetriesComeLater`, the same comparison as a strict
    one. A claim matches `nextRunAt` alone, not `active`; what protects a paused job
    is that a pause clears `nextRunAt`, and that what comes back (a retry, a
    rescheduling, a manual run) never equals what a scheduler has in hand
    (`PausedInv`).
  * `OutcomesAreFinal` assumes `ClosesInGrace`: no timeout is shortened under a run,
    and closing takes no longer than `STUCK_GRACE_MS`. It states `ClosedOnce`, the
    safety part of the run property `ClosesOnce`. `OpenInv` (an execution whose
    runner is at work is open and not late) excludes `LateInv` (an execution found
    stuck is late).

  The code bounds the closing writes by the time-outs of the database client,
  seconds against a grace of 120 s and a default retry delay of 60 s; a delay of 0
  is the exception listed above.

* `RequestTransaction_proofs`: `TypeCorrect`, `TasksAreCommitted`, `RepliesTrue`,
  `FilesFollow`. `IInv` is `TypeOK` with `QueueInv` (the queue holds the task of the
  present attempt, from the handler's success until it runs), `TxnInv` (what the
  server has made of the transaction at each point of the request, the lost
  answers included) and `ReplyInv` (who has been answered, and with what): a reply
  is written long after the commit it tells of, and a failed commit is
  indistinguishable from an unanswered one without `tries`. `FilesFollow` adds
  `FilesInv`, per phase: which files are stored, tracked and deleted, and which
  documents the transaction holds.

* `Chats_proofs`, of the members: `AlwaysOrderly`, `OwnerAlwaysKeeps`,
  `MembersAlwaysAsIfAlone`, the last a refinement of `GroupChannel`. One lemma per
  rule of `ChannelRules` says that it keeps a channel in order (`Good`).
  `AloneInv` is the heart: what a request has read and is not `stale` is the
  channel as it is, and at most one has written, which its caller may still do.
  `TimesInv` orders the times of messages, of entries and of the write under way:
  the refinement mapping compares them.
* `Chats_proofs`, of the messages: `AlwaysRecorded`, `ReceiptsAlwaysKept`,
  `PostsAlwaysAsIfAlone`, the last a refinement of `MessageBoard`. Here requests
  read and write several documents, and two that write different ones may both be
  under way. `ReadsInv` says what is read agrees with the store on every document
  that is not stale; `WritesInv` that what is written is what the request may do to
  the store as it is (`Effect`), and that no two have written the same document. A
  commit changes only the documents it wrote, and an effect depends on the documents
  it writes alone, so those of the others stand (`EffectStays`, `DocumentsStep`). The
  one thing a request relies on and does not write is that whoever edits, deletes
  or reacts is still a member; `MessageBoard` says so (`AsAsked`), and so the
  refinement promises no more. `SavesInv` says that of the WebSocket receipts only a reading
  changes an entry in place.

* `PublicChat_proofs`: `AlwaysAssigned`, `ClosingLineCarried`. `LeavingInv` is what is
  not in the property: an agent between giving a chat up and leaving its channel
  is not the assignee, although his colleagues may be; `QueueInv` counts messages
  against requests; `LineInv` follows the belief in a close with its line through
  the steps of a poll, until an erasure begins.

* `Presence_proofs`: `AlwaysRegistered`, `PresenceAlwaysFollows`, `RoomsAlwaysFollow`.
  `FlagsInv` is about the writes under way: of a user whose writes did not overlap,
  the one write under way is the right one. `RoomsInv` reads the queue of a
  connection: at most its first operation waits for a permission, and the last
  word on a room that is still queued is what the client holds.

* `EventDelivery_proofs`: `TypeCorrect`, `LettersAlwaysEarned`, `AlwaysAccounted`,
  `StepsAsPromised`. Members crash, lose the partition and start elsewhere, and
  a replay may have lost its lock: so `KeptInv` is about every place from which a
  member may read on or commit (`Readers`) and every place from which a replay may
  (`Cursors`), not about the committed one alone. The lock plays no part in it: what
  keeps two replays from harm is that only the member of the group commits. `AlwaysAccounted`
  and `StepsAsPromised` are about a group that starts at the first message
  (`FirstCommit` 0): a new one begins at the end of the topic and owes nothing of
  what was stored before. `StepsAsPromised` is the safety half of `Promised`.

Model-checked only:

* Liveness, which is out of the prover's reach with its fairness: `Recovers`,
  `Available`, `RunsEnd`, the half of `ClosesOnce` that says executions close,
  `Answered`, `EscalationAnnounced`, `ReplayEnds`, the fair half of `Promised`, both
  `Settles`.
* `Promised` for a group that has committed nothing yet, and what the theorems
  exclude by the conditions named above.

Induction over data is out of reach as well, and nothing here needs it: no module
declares a RECURSIVE operator.

## The plan

What is left of the proofs:

1. `EventDelivery`: the promise to a group that begins at the end of the topic,
   with what was stored before it joined left out of what it owes.
2. `CronEngine`: `NoneForgotten` with users who pause and reschedule, for the
   occurrences they do not move away themselves.

## Not modelled

About one line in thirteen of the implementation is mapped. The rest is mostly
schemas, views, filters, form definitions and CRUD routers: declarations, and
sequential code that reads and writes one document inside the transactions
`RequestTransaction` models. It has no interleaving of its own for a model
checker to explore.

* Users, sessions and login: handlers of that kind. Their two concurrent
  corners, the counter of failed logins and the session found or created per
  device, are read-then-write without a promise in the code. What revoking a
  session does to connections is in `Presence`.
* Notifications, metrics, mail and logging are fire and forget; the consumer
  registry and the health pages are read by people only; MongoDB's connection is
  reconnected by its driver; the rate limiter is one atomic counter.
* Of cron: what the handlers do (the sweep of public chats is in `PublicChat`);
  deletion of jobs, and edits of their priority, policy or retries; a schedule that
  cannot be read, whose claim clears `nextRunAt` (`schedulerEngine.ts:105`); a
  database operation that took effect though it was reported as failed.
* Of requests: the routes that upload before their transaction begins (company
  logo and the like) and attachments of other routes than PUT /messages.
* Of chats: direct and assistant channels, forwarding, mentions, texts, lists.
* Of public chat: how a session starts, identification, leads and quotas; the since
  cursor and the limit of a poll (`publicChat.ts:560`).
* Of the WebSocket server: visitors' connections, typing indicators and the
  limit on frames (`webSocket.ts:463`). Of Kafka: topic administration. Of Telegram: the commands.
* Clock skew between processes.
