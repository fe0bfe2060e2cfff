------------------------- MODULE RequestTransaction -------------------------
(***************************************************************************)
(* A request that runs in a transaction, from transactionHandler through   *)
(* mediaUploadMW and validateFormZod to asyncHandler, and the after-commit *)
(* tasks of transactionUtils.  The route is PUT /messages: it uploads      *)
(* files, then writes a message that refers to them and the lastAction of  *)
(* its channel, the row on which concurrent requests conflict.             *)
(*                                                                         *)
(* Media documents and the message are written in the transaction, GridFS  *)
(* files are not.  A commit whose answer is lost may still be applied, or  *)
(* the server may abort it.                                                *)
(***************************************************************************)
EXTENDS Naturals, Sequences, FiniteSets

CONSTANTS
    Request,        \* the concurrent requests, to one channel
    File,           \* the files each of them uploads
    MaxAttempts,    \* MAX_TRANSACTION_ATTEMPTS
    FaultBudget     \* bound: lost commit answers and failed file deletions

ASSUME AttemptAssumption == MaxAttempts \in Nat \ {0} /\ FaultBudget \in Nat

Nobody == "nobody"

VARIABLES
    pc,         \* per request: how far it is
    txn,        \* per request: the state of its transaction, as the server has it
    rows,       \* per request: the Media documents written in its transaction
    snapshot,   \* per request: the version of the channel its transaction reads
    attempt,    \* per request: which run of the handler this is
    tries,      \* per request: commits tried
    tracked,    \* per request: files uploaded (_mediaUploadGridFsIds)
    queue,      \* per request: commitTasks, each known by its attempt
    ran,        \* per request: the after-commit tasks that have run
    reply,      \* per request: what the caller was told
    version, writer,    \* the channel row: its version, and whose open write is on it
    media, message,     \* the committed Media documents and messages
    files,      \* the files in GridFS
    kept,       \* files whose deletion failed
    faults

vars == <<pc, txn, rows, snapshot, attempt, tries, tracked, queue, ran, reply, version,
          writer, media, message, files, kept, faults>>

Init ==
    /\ pc = [r \in Request |-> "start"]
    /\ txn = [r \in Request |-> "none"]
    /\ rows = [r \in Request |-> {}]
    /\ snapshot = [r \in Request |-> 0]
    /\ attempt = [r \in Request |-> 1]
    /\ tries = [r \in Request |-> 0]
    /\ tracked = [r \in Request |-> {}]
    /\ queue = [r \in Request |-> <<>>]
    /\ ran = [r \in Request |-> <<>>]
    /\ reply = [r \in Request |-> "none"]
    /\ version = 0 /\ writer = Nobody
    /\ media = {} /\ message = {} /\ files = {} /\ kept = {}
    /\ faults = 0

At(r, point) == pc[r] = point
Goto(r, point) == pc' = [pc EXCEPT ![r] = point]

\* session.inTransaction(): begun, and neither committed nor aborted by us.
InTransaction(r) == txn[r] = "open"

Rows(r) == {r} \X rows[r]
Released(r) == writer' = IF writer = r THEN Nobody ELSE writer

\* The middlewares touch only their request, its files and its transaction.
Data == <<message, media, version, writer>>
Outcome == <<attempt, tries, queue, ran>>

-----------------------------------------------------------------------------
(* transactionHandler, mediaUploadMW and validateFormZod.                  *)

Begin(r) ==
    /\ At(r, "start") /\ Goto(r, "upload")
    /\ txn' = [txn EXCEPT ![r] = "open"]
    /\ UNCHANGED <<rows, snapshot, tracked, reply, files, kept, faults>>
    /\ UNCHANGED Data /\ UNCHANGED Outcome

\* A file goes to GridFS, outside the transaction, and is tracked...
UploadFile(r) ==
    /\ At(r, "upload") /\ Goto(r, "create")
    /\ \E f \in File \ tracked[r] :
          /\ files' = files \cup {<<r, f>>}
          /\ tracked' = [tracked EXCEPT ![r] = @ \cup {f}]
    /\ UNCHANGED <<txn, rows, snapshot, reply, kept, faults>>
    /\ UNCHANGED Data /\ UNCHANGED Outcome

\* ... and gets its Media document, the first operation of the transaction.
CreateMedia(r) ==
    /\ At(r, "create")
    /\ Goto(r, IF tracked[r] = File THEN "validate" ELSE "upload")
    /\ snapshot' = [snapshot EXCEPT ![r] = IF rows[r] = {} THEN version ELSE @]
    /\ rows' = [rows EXCEPT ![r] = tracked[r]]
    /\ UNCHANGED <<txn, tracked, reply, files, kept, faults>>
    /\ UNCHANGED Data /\ UNCHANGED Outcome

\* A file is refused, or one of the two operations fails.
UploadFails(r) ==
    /\ pc[r] \in {"upload", "create"} /\ Goto(r, "cleanup")
    /\ UNCHANGED <<txn, rows, snapshot, tracked, reply, files, kept, faults>>
    /\ UNCHANGED Data /\ UNCHANGED Outcome

Validate(r) ==
    /\ At(r, "validate") /\ Goto(r, "handle")
    /\ UNCHANGED <<txn, rows, snapshot, tracked, reply, files, kept, faults>>
    /\ UNCHANGED Data /\ UNCHANGED Outcome

\* next(error): asyncHandler, and whatever it would clean up, is skipped.
Refuse(r) ==
    /\ At(r, "validate") /\ Goto(r, "refused")
    /\ reply' = [reply EXCEPT ![r] = "error"]
    /\ UNCHANGED <<txn, rows, snapshot, tracked, files, kept, faults>>
    /\ UNCHANGED Data /\ UNCHANGED Outcome

-----------------------------------------------------------------------------
(* asyncHandler: the handler and its replays.                              *)

\* MongoDB refuses a write to a row that changed since the snapshot, or that
\* another open transaction has written.
Conflict(r) == writer \notin {Nobody, r} \/ version > snapshot[r]

\* MUTANT: one replay too many.
MutMayReplay(r) == attempt[r] <= MaxAttempts

MayReplay(r) == attempt[r] < MaxAttempts

\* The handler succeeds: it has written and queued its task.
Handle(r) ==
    /\ At(r, "handle") /\ ~Conflict(r) /\ Goto(r, "commit")
    /\ writer' = r
    /\ queue' = [queue EXCEPT ![r] = Append(@, attempt[r])]
    /\ UNCHANGED <<txn, rows, snapshot, attempt, tries, tracked, ran, reply, version, media,
                   message, files, kept, faults>>

\* It fails for a reason of its own, before or after it has queued its task.
HandlerFails(r) ==
    /\ At(r, "handle") /\ Goto(r, "cleanup")
    /\ \/ UNCHANGED <<queue, writer>>
       \/ /\ ~Conflict(r)
          /\ writer' = r
          /\ queue' = [queue EXCEPT ![r] = Append(@, attempt[r])]
    /\ UNCHANGED <<txn, rows, snapshot, attempt, tries, tracked, ran, reply, version, media,
                   message, files, kept, faults>>

\* MUTANT: the tasks of the failed attempt stay in the queue.
MutReplay(r) ==
    /\ At(r, "handle") /\ Conflict(r) /\ MayReplay(r)
    /\ attempt' = [attempt EXCEPT ![r] = @ + 1]
    /\ rows' = [rows EXCEPT ![r] = {}]
    /\ snapshot' = [snapshot EXCEPT ![r] = version]
    /\ queue' = [queue EXCEPT ![r] = Append(@, attempt[r])]
    /\ UNCHANGED <<pc, txn, tries, tracked, ran, reply, version, writer, media, message,
                   files, kept, faults>>

\* A write conflict, after or before the task was queued: abort, drop the
\* tasks, start again.  Only the handler is run again, not the upload.
Replay(r) ==
    /\ At(r, "handle") /\ Conflict(r) /\ MayReplay(r)
    /\ attempt' = [attempt EXCEPT ![r] = @ + 1]
    /\ rows' = [rows EXCEPT ![r] = {}]
    /\ snapshot' = [snapshot EXCEPT ![r] = version]
    /\ queue' = [queue EXCEPT ![r] = <<>>]
    /\ UNCHANGED <<pc, txn, tries, tracked, ran, reply, version, writer, media, message,
                   files, kept, faults>>

\* MUTANT: after the last attempt the error is swallowed.
MutTooManyConflicts(r) == FALSE

\* The last attempt: the caller is told to try again.
TooManyConflicts(r) ==
    /\ At(r, "handle") /\ Conflict(r) /\ ~MayReplay(r)
    /\ Goto(r, "cleanup")
    /\ UNCHANGED <<txn, rows, snapshot, tracked, reply, files, kept, faults>>
    /\ UNCHANGED Data /\ UNCHANGED Outcome

-----------------------------------------------------------------------------
(* commitWithRetry.                                                        *)

Tried(r) == tries' = [tries EXCEPT ![r] = @ + 1]
AfterCommit ==
    UNCHANGED <<rows, snapshot, attempt, tracked, queue, ran, reply, files, kept>>

\* What the server does when it commits the transaction of r.
Apply(r) ==
    /\ txn' = [txn EXCEPT ![r] = "committed"]
    /\ media' = media \cup Rows(r)
    /\ message' = message \cup {r}
    /\ version' = version + 1 /\ writer' = Nobody

Abort(r) ==
    /\ txn' = [txn EXCEPT ![r] = "aborted"]
    /\ Released(r)
    /\ UNCHANGED <<version, media, message>>

Commit(r) ==
    /\ At(r, "commit") /\ Goto(r, "flush") /\ Tried(r)
    /\ \/ txn[r] \in {"open", "sent"} /\ Apply(r)
       \/ txn[r] = "committed" /\ UNCHANGED txn /\ UNCHANGED Data
    /\ AfterCommit /\ UNCHANGED faults

\* MUTANT: an unknown outcome is not tried again.
MutLastTry(r) == TRUE

LastTry(r) == tries[r] + 1 >= MaxAttempts

\* The answer is lost: the server may have the commit, or get it, or not.
CommitUnknown(r) ==
    /\ At(r, "commit") /\ Goto(r, IF LastTry(r) THEN "cleanup" ELSE "commit") /\ Tried(r)
    /\ faults < FaultBudget /\ faults' = faults + 1
    /\ txn[r] # "aborted"
    /\ txn' = [txn EXCEPT ![r] = IF @ = "open" THEN "sent" ELSE @]
    /\ AfterCommit /\ UNCHANGED Data

\* The server refuses: the transaction is aborted, now or before.
CommitFails(r) ==
    /\ At(r, "commit") /\ Goto(r, "cleanup") /\ Tried(r)
    /\ txn[r] # "committed"
    /\ Abort(r)
    /\ AfterCommit /\ UNCHANGED faults

ServerCommits(r) ==
    /\ txn[r] = "sent" /\ Apply(r)
    /\ UNCHANGED <<pc, tries, faults>> /\ AfterCommit

\* The server gives up a transaction nobody has ended.
ServerAborts(r) ==
    /\ txn[r] = "sent" \/ (At(r, "refused") /\ InTransaction(r))
    /\ Abort(r)
    /\ UNCHANGED <<pc, tries, faults>> /\ AfterCommit

-----------------------------------------------------------------------------
(* The end of a request: flushAfterCommitTasks, or the cleanup.            *)

RunTask(r) ==
    /\ At(r, "flush") /\ queue[r] # <<>>
    /\ ran' = [ran EXCEPT ![r] = Append(@, Head(queue[r]))]
    /\ queue' = [queue EXCEPT ![r] = Tail(@)]
    /\ UNCHANGED <<pc, txn, rows, snapshot, attempt, tries, tracked, reply, files, kept,
                   faults>>
    /\ UNCHANGED Data

Answer(r) ==
    /\ At(r, "flush") /\ queue[r] = <<>> /\ Goto(r, "done")
    /\ reply' = [reply EXCEPT ![r] = "ok"]
    /\ UNCHANGED <<txn, rows, snapshot, tracked, files, kept, faults>>
    /\ UNCHANGED Data /\ UNCHANGED Outcome

\* MUTANT: a failed deletion gives up on the other files.
MutUndeleted(r) ==
    {f \in tracked[r] : <<r, f>> \in files /\ ({r} \X tracked[r]) \cap kept = {}}

Undeleted(r) == {f \in tracked[r] : <<r, f>> \in files \ kept}

\* The tracked files are deleted one by one; a failure is logged.
DeleteFile(r) ==
    /\ At(r, "cleanup")
    /\ \E f \in Undeleted(r) :
          \/ files' = files \ {<<r, f>>} /\ UNCHANGED <<kept, faults>>
          \/ /\ faults < FaultBudget /\ faults' = faults + 1
             /\ kept' = kept \cup {<<r, f>>} /\ UNCHANGED files
    /\ UNCHANGED <<pc, txn, rows, snapshot, tracked, reply>> /\ UNCHANGED Data /\ UNCHANGED Outcome

\* abortTransaction, which throws once a commit was tried; the tasks are dropped.
Rollback(r) ==
    /\ At(r, "cleanup") /\ Undeleted(r) = {}
    /\ Goto(r, "done")
    /\ IF InTransaction(r) THEN Abort(r) ELSE UNCHANGED txn /\ UNCHANGED Data
    /\ queue' = [queue EXCEPT ![r] = <<>>]
    /\ reply' = [reply EXCEPT ![r] = "error"]
    /\ UNCHANGED <<rows, snapshot, attempt, tries, tracked, ran, files, kept, faults>>

Middleware(r) == Begin(r) \/ UploadFile(r) \/ CreateMedia(r) \/ UploadFails(r) \/ Validate(r) \/ Refuse(r)
Handler(r) == Handle(r) \/ Replay(r) \/ TooManyConflicts(r)
Committing(r) == Commit(r) \/ CommitUnknown(r) \/ CommitFails(r)
Ending(r) == RunTask(r) \/ Answer(r) \/ DeleteFile(r) \/ Rollback(r)

Next == \E r \in Request : \/ Middleware(r) \/ Handler(r) \/ HandlerFails(r)
                           \/ Committing(r) \/ Ending(r) \/ ServerCommits(r) \/ ServerAborts(r)

Spec == Init /\ [][Next]_vars

\* Every promise of a request settles, and the server ends what is left open.
Fairness == \A r \in Request :
    /\ WF_vars(Middleware(r)) /\ WF_vars(Handler(r)) /\ WF_vars(Committing(r)) /\ WF_vars(Ending(r))
    /\ WF_vars(ServerAborts(r) /\ At(r, "refused"))

FairSpec == Spec /\ Fairness

-----------------------------------------------------------------------------

TypeOK ==
    /\ pc \in [Request -> {"start", "upload", "create", "validate", "refused", "handle",
                           "commit", "flush", "cleanup", "done"}]
    /\ txn \in [Request -> {"none", "open", "sent", "committed", "aborted"}]
    /\ rows \in [Request -> SUBSET File]
    /\ snapshot \in [Request -> Nat]
    /\ attempt \in [Request -> 1..MaxAttempts]
    /\ tries \in [Request -> 0..MaxAttempts]
    /\ tracked \in [Request -> SUBSET File]
    /\ queue \in [Request -> Seq(1..MaxAttempts)]
    /\ ran \in [Request -> Seq(1..MaxAttempts)]
    /\ reply \in [Request -> {"none", "ok", "error"}]
    /\ version \in Nat
    /\ writer \in Request \cup {Nobody}
    /\ media \subseteq Request \X File
    /\ files \subseteq Request \X File
    /\ kept \subseteq Request \X File
    /\ message \subseteq Request
    /\ faults \in 0..FaultBudget

(***************************************************************************)
(* "Runs task only once the session's transaction has committed", and work *)
(* queued by a failed attempt is dropped: what runs is the task of the     *)
(* attempt that was committed, once.                                       *)
(***************************************************************************)
TasksFollowCommit ==
    \A r \in Request : ran[r] # <<>> => r \in message /\ ran[r] = <<attempt[r]>>

(***************************************************************************)
(* The caller is told the truth: a success is committed and its tasks have *)
(* run; after an error nothing is committed, unless the server left the    *)
(* last commit of commitWithRetry unanswered.                              *)
(***************************************************************************)
ReplyTruthful ==
    \A r \in Request :
        /\ reply[r] = "ok" => r \in message /\ ran[r] # <<>>
        /\ reply[r] = "error" /\ tries[r] < MaxAttempts => r \notin message

(***************************************************************************)
(* The compensation for GridFS: when a request is over, its files are      *)
(* there exactly if its Media documents are.  Left out are the cases the   *)
(* code does not cover: a replayed handler, whose Media documents are gone *)
(* with its first attempt, a refused form, whose files nobody deletes, and *)
(* a last commit left unanswered, after which the files are deleted        *)
(* although their documents may be there.                                  *)
(***************************************************************************)
FilesFollowMedia ==
    \A r \in Request :
        At(r, "done") /\ attempt[r] = 1 /\ tries[r] < MaxAttempts =>
            \A f \in File : <<r, f>> \in files \ kept <=> <<r, f>> \in media

(***************************************************************************)
(* Every request gets an answer, whatever it conflicts with.               *)
(***************************************************************************)
Answered == \A r \in Request : ~At(r, "start") ~> reply[r] # "none"
=============================================================================
