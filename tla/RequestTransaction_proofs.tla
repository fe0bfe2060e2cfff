---------------------- MODULE RequestTransaction_proofs ----------------------
(***************************************************************************)
(* What RequestTransaction guarantees for any number of requests, files    *)
(* and attempts: type correctness, after-commit tasks that follow the      *)
(* commit, truthful replies, and files that follow their Media documents.  *)
(***************************************************************************)
EXTENDS RequestTransaction, TLAPS

\* The queue holds the task of the present attempt, from the moment the handler
\* succeeds until the task runs, and what has run is that task.
QueueInv ==
    \A r \in Request :
        /\ ran[r] # <<>> => ran[r] = <<attempt[r]>> /\ queue[r] = <<>>
        /\ queue[r] # <<>> => queue[r] = <<attempt[r]>>
        /\ pc[r] \in {"commit", "flush"} => ran[r] # queue[r]
        /\ ran[r] # <<>> => pc[r] \in {"flush", "done"}
        /\ queue[r] # <<>> => pc[r] \in {"commit", "flush", "cleanup"}

\* What the server has made of the transaction, at each point of the request.
TxnInv ==
    \A r \in Request :
        /\ r \in message <=> txn[r] = "committed"
        /\ pc[r] \in {"upload", "create", "validate", "handle"} => txn[r] = "open"
        /\ pc[r] = "start" => txn[r] = "none"
        /\ pc[r] = "refused" => txn[r] \in {"open", "aborted"}
        /\ pc[r] = "flush" => txn[r] = "committed"
        /\ pc[r] = "commit" => tries[r] < MaxAttempts
        /\ pc[r] \in {"refused", "cleanup", "done"} /\ ran[r] = <<>> /\ tries[r] < MaxAttempts
              => txn[r] \in {"open", "aborted"}
        /\ pc[r] \notin {"commit", "flush", "cleanup", "done"} => tries[r] = 0

\* Only a finished request has been answered, and it was told what happened.
ReplyInv ==
    \A r \in Request :
        /\ reply[r] # "none" => pc[r] \in {"refused", "done"}
        /\ ran[r] # <<>> => txn[r] = "committed"
        /\ reply[r] = "ok" => ran[r] # <<>>
        /\ reply[r] = "error" => ran[r] = <<>>

IInv == TypeOK /\ QueueInv /\ TxnInv /\ ReplyInv

-----------------------------------------------------------------------------
\* A request that has not begun satisfies the invariant.
LEMMA InitIInv == Init => IInv
  BY AttemptAssumption DEF Init, IInv, TypeOK, QueueInv, TxnInv, ReplyInv, Nobody

\* The queue is one task long at most.
LEMMA OneTask ==
  ASSUME NEW a \in 1..MaxAttempts
  PROVE  /\ Append(<<>>, a) = <<a>> /\ Head(<<a>>) = a /\ Tail(<<a>>) = <<>>
         /\ <<a>> # <<>> /\ <<a>> \in Seq(1..MaxAttempts)
  OBVIOUS

\* An action of one request preserves each part of the invariant.
LEMMA NextIInv == IInv /\ [Next]_vars => IInv'
<1>1. SUFFICES ASSUME IInv, [Next]_vars PROVE IInv'
  OBVIOUS
<1> USE DEF IInv
<1>2. ASSUME NEW r \in Request, Begin(r) PROVE IInv'
  <2>1. TypeOK'
    BY <1>1, <1>2 DEF TypeOK, Begin, At, Goto, Data, Outcome
  <2>2. QueueInv'
    BY <1>1, <1>2 DEF TypeOK, QueueInv, Begin, At, Goto, Data, Outcome
  <2>3. TxnInv'
    BY <1>1, <1>2 DEF TypeOK, TxnInv, Begin, At, Goto, Data, Outcome
  <2>4. ReplyInv'
    BY <1>1, <1>2 DEF TypeOK, QueueInv, ReplyInv, Begin, At, Goto, Data, Outcome
  <2> QED BY <2>1, <2>2, <2>3, <2>4
<1>3. ASSUME NEW r \in Request, UploadFile(r) PROVE IInv'
  <2>1. TypeOK'
    BY <1>1, <1>3 DEF TypeOK, UploadFile, At, Goto, Data, Outcome
  <2>2. QueueInv'
    BY <1>1, <1>3 DEF TypeOK, QueueInv, UploadFile, At, Goto, Data, Outcome
  <2>3. TxnInv'
    BY <1>1, <1>3 DEF TypeOK, TxnInv, UploadFile, At, Goto, Data, Outcome
  <2>4. ReplyInv'
    BY <1>1, <1>3 DEF TypeOK, ReplyInv, UploadFile, At, Goto, Data, Outcome
  <2> QED BY <2>1, <2>2, <2>3, <2>4
<1>4. ASSUME NEW r \in Request, CreateMedia(r) PROVE IInv'
  <2>1. TypeOK'
    BY <1>1, <1>4 DEF TypeOK, CreateMedia, At, Goto, Data, Outcome
  <2>2. QueueInv'
    BY <1>1, <1>4 DEF TypeOK, QueueInv, CreateMedia, At, Goto, Data, Outcome
  <2>3. TxnInv'
    BY <1>1, <1>4 DEF TypeOK, TxnInv, CreateMedia, At, Goto, Data, Outcome
  <2>4. ReplyInv'
    BY <1>1, <1>4 DEF TypeOK, ReplyInv, CreateMedia, At, Goto, Data, Outcome
  <2> QED BY <2>1, <2>2, <2>3, <2>4
<1>5. ASSUME NEW r \in Request, UploadFails(r) PROVE IInv'
  <2>1. TypeOK'
    BY <1>1, <1>5 DEF TypeOK, UploadFails, Goto, Data, Outcome
  <2>2. QueueInv'
    BY <1>1, <1>5 DEF TypeOK, QueueInv, UploadFails, Goto, Data, Outcome
  <2>3. TxnInv'
    BY <1>1, <1>5 DEF TypeOK, TxnInv, UploadFails, Goto, Data, Outcome
  <2>4. ReplyInv'
    BY <1>1, <1>5 DEF TypeOK, ReplyInv, UploadFails, Goto, Data, Outcome
  <2> QED BY <2>1, <2>2, <2>3, <2>4
<1>6. ASSUME NEW r \in Request, Validate(r) PROVE IInv'
  <2>1. TypeOK'
    BY <1>1, <1>6 DEF TypeOK, Validate, At, Goto, Data, Outcome
  <2>2. QueueInv'
    BY <1>1, <1>6 DEF TypeOK, QueueInv, Validate, At, Goto, Data, Outcome
  <2>3. TxnInv'
    BY <1>1, <1>6 DEF TypeOK, TxnInv, Validate, At, Goto, Data, Outcome
  <2>4. ReplyInv'
    BY <1>1, <1>6 DEF TypeOK, ReplyInv, Validate, At, Goto, Data, Outcome
  <2> QED BY <2>1, <2>2, <2>3, <2>4
<1>7. ASSUME NEW r \in Request, Refuse(r) PROVE IInv'
  <2>1. TypeOK'
    BY <1>1, <1>7 DEF TypeOK, Refuse, At, Goto, Data, Outcome
  <2>2. QueueInv'
    BY <1>1, <1>7 DEF TypeOK, QueueInv, Refuse, At, Goto, Data, Outcome
  <2>3. TxnInv'
    BY <1>1, <1>7 DEF TypeOK, TxnInv, Refuse, At, Goto, Data, Outcome
  <2>4. ReplyInv'
    BY <1>1, <1>7 DEF TypeOK, QueueInv, ReplyInv, Refuse, At, Goto, Data, Outcome
  <2> QED BY <2>1, <2>2, <2>3, <2>4
<1>8. ASSUME NEW r \in Request, Handle(r) PROVE IInv'
  <2>1. TypeOK'
    BY <1>1, <1>8 DEF TypeOK, Handle, At, Goto, Conflict
  <2>2. QueueInv'
    <3>1. queue[r] = <<>> /\ ran[r] = <<>>
      BY <1>1, <1>8 DEF QueueInv, Handle, At
    <3>2. /\ queue'[r] = <<attempt[r]>> /\ pc'[r] = "commit"
          /\ \A q \in Request \ {r} : queue'[q] = queue[q] /\ pc'[q] = pc[q]
          /\ UNCHANGED <<ran, attempt>>
      BY <1>1, <1>8, <3>1, OneTask DEF TypeOK, Handle, Goto
    <3>3. <<attempt[r]>> # <<>>
      BY <1>1, OneTask DEF TypeOK
    <3> QED BY <1>1, <3>1, <3>2, <3>3 DEF QueueInv
  <2>3. TxnInv'
    BY <1>1, <1>8, AttemptAssumption DEF TypeOK, TxnInv, Handle, At, Goto, Conflict
  <2>4. ReplyInv'
    BY <1>1, <1>8 DEF TypeOK, ReplyInv, Handle, At, Goto, Conflict
  <2> QED BY <2>1, <2>2, <2>3, <2>4
<1>9. ASSUME NEW r \in Request, HandlerFails(r) PROVE IInv'
  <2>1. TypeOK'
    <3>1. queue' \in [Request -> Seq(1..MaxAttempts)]
      <4>1. CASE UNCHANGED queue
        BY <1>1, <4>1 DEF TypeOK
      <4>2. CASE queue' = [queue EXCEPT ![r] = Append(@, attempt[r])]
        BY <1>1, <4>2 DEF TypeOK
      <4> QED BY <1>9, <4>1, <4>2 DEF HandlerFails
    <3> QED BY <1>1, <1>9, <3>1 DEF TypeOK, HandlerFails, Goto
  <2>2. QueueInv'
    <3>1. queue[r] = <<>> /\ ran[r] = <<>>
      BY <1>1, <1>9 DEF QueueInv, HandlerFails, At
    <3>2. queue'[r] = <<>> \/ queue'[r] = <<attempt[r]>>
      <4>1. CASE UNCHANGED queue
        BY <3>1, <4>1
      <4>2. CASE queue' = [queue EXCEPT ![r] = Append(@, attempt[r])]
        BY <1>1, <3>1, <4>2, OneTask DEF TypeOK
      <4> QED BY <1>9, <4>1, <4>2 DEF HandlerFails
    <3>3. /\ pc'[r] = "cleanup"
          /\ \A q \in Request \ {r} : queue'[q] = queue[q] /\ pc'[q] = pc[q]
          /\ UNCHANGED <<ran, attempt>>
      BY <1>1, <1>9 DEF TypeOK, HandlerFails, Goto
    <3> QED BY <1>1, <3>1, <3>2, <3>3 DEF QueueInv
  <2>3. TxnInv'
    BY <1>1, <1>9 DEF TypeOK, TxnInv, HandlerFails, At, Goto, Conflict
  <2>4. ReplyInv'
    BY <1>1, <1>9 DEF TypeOK, ReplyInv, HandlerFails, At, Goto, Conflict
  <2> QED BY <2>1, <2>2, <2>3, <2>4
<1>10. ASSUME NEW r \in Request, Replay(r) PROVE IInv'
  <2>1. TypeOK'
    <3>1. attempt[r] + 1 \in 1..MaxAttempts
      BY <1>1, <1>10, AttemptAssumption DEF TypeOK, Replay, MayReplay
    <3>2. attempt' \in [Request -> 1..MaxAttempts]
      BY <1>1, <1>10, <3>1 DEF TypeOK, Replay
    <3>3. queue' \in [Request -> Seq(1..MaxAttempts)]
      BY <1>1, <1>10 DEF TypeOK, Replay
    <3> QED BY <1>1, <1>10, <3>2, <3>3 DEF TypeOK, Replay
  <2>2. QueueInv'
    BY <1>1, <1>10 DEF TypeOK, QueueInv, Replay, At, Conflict, MayReplay
  <2>3. TxnInv'
    BY <1>1, <1>10 DEF TypeOK, TxnInv, Replay, At, Conflict, MayReplay
  <2>4. ReplyInv'
    BY <1>1, <1>10 DEF TypeOK, ReplyInv, Replay, At, Conflict, MayReplay
  <2> QED BY <2>1, <2>2, <2>3, <2>4
<1>11. ASSUME NEW r \in Request, TooManyConflicts(r) PROVE IInv'
  <2>1. TypeOK'
    BY <1>1, <1>11 DEF TypeOK, TooManyConflicts, At, Goto, Data, Outcome
  <2>2. QueueInv'
    BY <1>1, <1>11 DEF TypeOK, QueueInv, TooManyConflicts, At, Goto, Data, Outcome
  <2>3. TxnInv'
    BY <1>1, <1>11 DEF TypeOK, TxnInv, TooManyConflicts, At, Goto, Data, Outcome
  <2>4. ReplyInv'
    BY <1>1, <1>11 DEF TypeOK, ReplyInv, TooManyConflicts, At, Goto, Data, Outcome
  <2> QED BY <2>1, <2>2, <2>3, <2>4
<1>12. ASSUME NEW r \in Request, Commit(r) PROVE IInv'
  <2>1. TypeOK'
    <3>1. tries[r] + 1 \in 0..MaxAttempts
      BY <1>1, <1>12, AttemptAssumption DEF TypeOK, TxnInv, Commit, At
    <3>2. tries' \in [Request -> 0..MaxAttempts]
      BY <1>1, <1>12, <3>1 DEF TypeOK, Commit, Tried
    <3>3. media' \subseteq Request \X File /\ message' \subseteq Request
      BY <1>1, <1>12 DEF TypeOK, Commit, Apply, Rows, Data
    <3>4. txn' \in [Request -> {"none", "open", "sent", "committed", "aborted"}]
      BY <1>1, <1>12 DEF TypeOK, Commit, Apply
    <3>5. version' \in Nat /\ writer' \in Request \cup {Nobody}
      BY <1>1, <1>12 DEF TypeOK, Commit, Apply, Data
    <3> QED BY <1>1, <1>12, <3>2, <3>3, <3>4, <3>5 DEF TypeOK, Commit, Goto, AfterCommit
  <2>2. QueueInv'
    BY <1>1, <1>12 DEF TypeOK, QueueInv, Commit, At, Goto, Tried, Apply, AfterCommit,
        Rows, Data
  <2>3. TxnInv'
    <3>1. /\ message' = message \cup {r} /\ txn'[r] = "committed"
          /\ \A q \in Request \ {r} : txn'[q] = txn[q]
      BY <1>1, <1>12 DEF TypeOK, TxnInv, Commit, Apply, Data
    <3>2. /\ pc'[r] = "flush" /\ ran' = ran
          /\ \A q \in Request \ {r} : pc'[q] = pc[q] /\ tries'[q] = tries[q]
      BY <1>1, <1>12 DEF TypeOK, Commit, Goto, Tried, AfterCommit
    <3> QED BY <1>1, <3>1, <3>2 DEF TxnInv
  <2>4. ReplyInv'
    BY <1>1, <1>12 DEF TypeOK, ReplyInv, Commit, At, Goto, Tried, Apply, AfterCommit,
        Rows, Data
  <2> QED BY <2>1, <2>2, <2>3, <2>4
<1>13. ASSUME NEW r \in Request, CommitUnknown(r) PROVE IInv'
  <2>1. TypeOK'
    <3>1. tries[r] + 1 \in 0..MaxAttempts
      BY <1>1, <1>13, AttemptAssumption DEF TypeOK, TxnInv, CommitUnknown, At
    <3>2. tries' \in [Request -> 0..MaxAttempts]
      BY <1>1, <1>13, <3>1 DEF TypeOK, CommitUnknown, Tried
    <3>3. faults' \in 0..FaultBudget
      BY <1>1, <1>13, AttemptAssumption DEF TypeOK, CommitUnknown
    <3> QED BY <1>1, <1>13, <3>2, <3>3 DEF TypeOK, CommitUnknown, Goto, AfterCommit, Data
  <2>2. QueueInv'
    BY <1>1, <1>13 DEF TypeOK, QueueInv, CommitUnknown, At, Goto, Tried, AfterCommit,
        LastTry, Data
  <2>3. TxnInv'
    <3>1. /\ message' = message /\ ran' = ran
          /\ (txn'[r] = "committed" <=> txn[r] = "committed")
          /\ \A q \in Request \ {r} : txn'[q] = txn[q]
      BY <1>1, <1>13 DEF TypeOK, CommitUnknown, AfterCommit, Data
    <3>2. /\ tries'[r] = tries[r] + 1
          /\ pc'[r] = IF tries'[r] >= MaxAttempts THEN "cleanup" ELSE "commit"
          /\ \A q \in Request \ {r} : pc'[q] = pc[q] /\ tries'[q] = tries[q]
      BY <1>1, <1>13 DEF TypeOK, CommitUnknown, Goto, Tried, LastTry
    <3>3. tries'[r] \in Nat
      BY <1>1, <3>2 DEF TypeOK
    <3> QED
      BY <1>1, <3>1, <3>2, <3>3, AttemptAssumption DEF TxnInv
  <2>4. ReplyInv'
    BY <1>1, <1>13 DEF TypeOK, ReplyInv, CommitUnknown, At, Goto, Tried, AfterCommit,
        LastTry, Data
  <2> QED BY <2>1, <2>2, <2>3, <2>4
<1>14. ASSUME NEW r \in Request, CommitFails(r) PROVE IInv'
  <2>1. TypeOK'
    <3>1. tries[r] + 1 \in 0..MaxAttempts
      BY <1>1, <1>14, AttemptAssumption DEF TypeOK, TxnInv, CommitFails, At
    <3>2. tries' \in [Request -> 0..MaxAttempts]
      BY <1>1, <1>14, <3>1 DEF TypeOK, CommitFails, Tried
    <3>3. writer' \in Request \cup {Nobody}
      BY <1>1, <1>14 DEF TypeOK, CommitFails, Abort, Released
    <3> QED
      BY <1>1, <1>14, <3>2, <3>3 DEF TypeOK, CommitFails, Goto, Abort, AfterCommit
  <2>2. QueueInv'
    BY <1>1, <1>14 DEF TypeOK, QueueInv, CommitFails, At, Goto, Tried, Abort,
        AfterCommit, Released
  <2>3. TxnInv'
    BY <1>1, <1>14 DEF TypeOK, TxnInv, CommitFails, At, Goto, Tried, Abort, AfterCommit,
        Released
  <2>4. ReplyInv'
    BY <1>1, <1>14 DEF TypeOK, ReplyInv, CommitFails, At, Goto, Tried, Abort,
        AfterCommit, Released
  <2> QED BY <2>1, <2>2, <2>3, <2>4
<1>15. ASSUME NEW r \in Request, ServerCommits(r) PROVE IInv'
  <2>1. TypeOK'
    BY <1>1, <1>15 DEF TypeOK, ServerCommits, Apply, AfterCommit, Rows
  <2>2. QueueInv'
    BY <1>1, <1>15 DEF TypeOK, QueueInv, ServerCommits, Apply, AfterCommit, Rows
  <2>3. TxnInv'
    BY <1>1, <1>15 DEF TypeOK, TxnInv, ServerCommits, Apply, AfterCommit, Rows
  <2>4. ReplyInv'
    BY <1>1, <1>15 DEF TypeOK, ReplyInv, ServerCommits, Apply, AfterCommit, Rows
  <2> QED BY <2>1, <2>2, <2>3, <2>4
<1>16. ASSUME NEW r \in Request, ServerAborts(r) PROVE IInv'
  <2>1. TypeOK'
    BY <1>1, <1>16 DEF TypeOK, ServerAborts, At, Abort, AfterCommit, Released,
        InTransaction
  <2>2. QueueInv'
    BY <1>1, <1>16 DEF TypeOK, QueueInv, ServerAborts, At, Abort, AfterCommit, Released,
        InTransaction
  <2>3. TxnInv'
    BY <1>1, <1>16 DEF TypeOK, TxnInv, ServerAborts, At, Abort, AfterCommit, Released,
        InTransaction
  <2>4. ReplyInv'
    BY <1>1, <1>16 DEF TypeOK, ReplyInv, ServerAborts, At, Abort, AfterCommit, Released,
        InTransaction
  <2> QED BY <2>1, <2>2, <2>3, <2>4
<1>17. ASSUME NEW r \in Request, RunTask(r) PROVE IInv'
  <2>1. TypeOK'
    BY <1>1, <1>17, OneTask DEF TypeOK, QueueInv, RunTask, At, Data
  <2>2. QueueInv'
    <3>1. queue[r] = <<attempt[r]>> /\ ran[r] = <<>>
      BY <1>1, <1>17 DEF QueueInv, RunTask
    <3>2. /\ queue'[r] = <<>> /\ ran'[r] = <<attempt[r]>>
          /\ \A q \in Request \ {r} : queue'[q] = queue[q] /\ ran'[q] = ran[q]
      BY <1>1, <1>17, <3>1, OneTask DEF TypeOK, RunTask
    <3>3. pc[r] = "flush" /\ UNCHANGED <<pc, attempt>>
      BY <1>17 DEF RunTask, At
    <3>4. <<attempt[r]>> # <<>>
      BY <1>1, OneTask DEF TypeOK
    <3> QED BY <1>1, <3>1, <3>2, <3>3, <3>4 DEF QueueInv
  <2>3. TxnInv'
    BY <1>1, <1>17 DEF TypeOK, TxnInv, RunTask, At, Data
  <2>4. ReplyInv'
    BY <1>1, <1>17, OneTask DEF TypeOK, QueueInv, TxnInv, ReplyInv, RunTask, At, Data
  <2> QED BY <2>1, <2>2, <2>3, <2>4
<1>18. ASSUME NEW r \in Request, Answer(r) PROVE IInv'
  <2>1. TypeOK'
    BY <1>1, <1>18 DEF TypeOK, Answer, At, Goto, Data, Outcome
  <2>2. QueueInv'
    BY <1>1, <1>18 DEF TypeOK, QueueInv, Answer, At, Goto, Data, Outcome
  <2>3. TxnInv'
    BY <1>1, <1>18 DEF TypeOK, QueueInv, TxnInv, Answer, At, Goto, Data, Outcome
  <2>4. ReplyInv'
    BY <1>1, <1>18 DEF TypeOK, QueueInv, TxnInv, ReplyInv, Answer, At, Goto, Data,
        Outcome
  <2> QED BY <2>1, <2>2, <2>3, <2>4
<1>19. ASSUME NEW r \in Request, Rollback(r) PROVE IInv'
  <2>1. TypeOK'
    <3>1. /\ txn' \in [Request -> {"none", "open", "sent", "committed", "aborted"}]
          /\ writer' \in Request \cup {Nobody} /\ UNCHANGED <<version, media, message>>
      BY <1>1, <1>19 DEF TypeOK, Rollback, Abort, Released, Data
    <3>2. queue' \in [Request -> Seq(1..MaxAttempts)]
      BY <1>1, <1>19 DEF TypeOK, Rollback
    <3> QED BY <1>1, <1>19, <3>1, <3>2 DEF TypeOK, Rollback, Goto
  <2>2. QueueInv'
    BY <1>1, <1>19 DEF TypeOK, QueueInv, Rollback, At, Goto, Abort, InTransaction,
        Released, Data
  <2>3. TxnInv'
    BY <1>1, <1>19 DEF TypeOK, TxnInv, Rollback, At, Goto, Abort, InTransaction,
        Released, Data
  <2>4. ReplyInv'
    BY <1>1, <1>19 DEF TypeOK, QueueInv, ReplyInv, Rollback, At, Goto, Abort,
        InTransaction, Released, Data
  <2> QED BY <2>1, <2>2, <2>3, <2>4
<1>20. ASSUME NEW r \in Request, DeleteFile(r) PROVE IInv'
  <2>1. TypeOK'
    <3>1. PICK f \in Undeleted(r) :
             \/ files' = files \ {<<r, f>>} /\ UNCHANGED <<kept, faults>>
             \/ /\ faults < FaultBudget /\ faults' = faults + 1
                /\ kept' = kept \cup {<<r, f>>} /\ UNCHANGED files
      BY <1>20, Zenon DEF DeleteFile
    <3>2. faults' \in 0..FaultBudget
      <4>1. faults \in 0..FaultBudget
        BY <1>1 DEF TypeOK
      <4>2. faults' = faults \/ (faults < FaultBudget /\ faults' = faults + 1)
        BY <3>1
      <4> QED BY <4>1, <4>2, AttemptAssumption
    <3>3. files' \subseteq Request \X File /\ kept' \subseteq Request \X File
      BY <1>1, <3>1 DEF TypeOK, Undeleted
    <3> QED BY <1>1, <1>20, <3>2, <3>3 DEF TypeOK, DeleteFile, Data, Outcome
  <2>2. QueueInv'
    BY <1>1, <1>20 DEF TypeOK, QueueInv, DeleteFile, At, Data, Outcome
  <2>3. TxnInv'
    BY <1>1, <1>20 DEF TypeOK, TxnInv, DeleteFile, At, Data, Outcome
  <2>4. ReplyInv'
    BY <1>1, <1>20 DEF TypeOK, ReplyInv, DeleteFile, At, Data, Outcome
  <2> QED BY <2>1, <2>2, <2>3, <2>4
<1>21. CASE UNCHANGED vars
  BY <1>1, <1>21 DEF vars, TypeOK, QueueInv, TxnInv, ReplyInv
<1> QED
    BY <1>1, <1>2, <1>3, <1>4, <1>5, <1>6, <1>7, <1>8, <1>9, <1>10, <1>11, <1>12, <1>13,
        <1>14, <1>15, <1>16, <1>17, <1>18, <1>19, <1>20, <1>21 DEF Next, Middleware,
        Handler, Committing, Ending

\* The invariant holds in every state of every run.
LEMMA Invariant == Spec => []IInv
  BY InitIInv, NextIInv, PTL DEF Spec

\* Every variable keeps its type: no attempt, and no commit, beyond MaxAttempts.
THEOREM TypeCorrect == Spec => []TypeOK
<1>1. IInv => TypeOK
  BY DEF IInv
<1> QED BY <1>1, Invariant, PTL

\* runAfterCommit's promise: a task that has run belongs to the attempt that was
\* committed, and has run once.
THEOREM TasksAreCommitted == Spec => []TasksFollowCommit
<1>1. IInv => TasksFollowCommit
  BY DEF IInv, QueueInv, TxnInv, ReplyInv, TasksFollowCommit
<1> QED BY <1>1, Invariant, PTL

\* A success is committed; an error is not, unless all commits went unanswered.
THEOREM RepliesTrue == Spec => []ReplyTruthful
<1>1. IInv => ReplyTruthful
  BY DEF IInv, TypeOK, TxnInv, ReplyInv, ReplyTruthful
<1> QED BY <1>1, Invariant, PTL

-----------------------------------------------------------------------------
(* The files in GridFS, beside the Media documents of the transaction.     *)

Uploaded(r, f) == <<r, f>> \in files \ kept

\* The request has uploaded everything and is past the middlewares.
Beyond(r) == pc[r] \in {"validate", "handle", "commit", "flush"} \/ ran[r] # <<>>

\* A file is in GridFS from its upload until the cleanup deletes it, whatever
\* becomes of the transaction; the Media documents are the server's doing.
FilesOf(r) ==
    /\ Beyond(r) \/ pc[r] = "refused" => tracked[r] = File
    /\ attempt[r] = 1 /\ Beyond(r) => rows[r] = tracked[r]
    /\ \A f \in File :
          /\ <<r, f>> \in files \cup kept => f \in tracked[r]
          /\ f \in tracked[r] /\ (pc[r] \notin {"cleanup", "done"} \/ ran[r] # <<>>)
                => Uploaded(r, f)
          /\ pc[r] = "done" /\ ran[r] = <<>> => ~Uploaded(r, f)
          /\ <<r, f>> \in media <=> txn[r] = "committed" /\ f \in rows[r]

FilesInv == \A r \in Request : FilesOf(r)

\* What happens to the files of others is nothing to a request.
LEMMA OtherFiles ==
  ASSUME NEW q \in Request, FilesOf(q),
         pc'[q] = pc[q], txn'[q] = txn[q], rows'[q] = rows[q], attempt'[q] = attempt[q],
         tracked'[q] = tracked[q], ran'[q] = ran[q],
         \A f \in File : /\ <<q, f>> \in files' <=> <<q, f>> \in files
                         /\ <<q, f>> \in kept' <=> <<q, f>> \in kept
                         /\ <<q, f>> \in media' <=> <<q, f>> \in media
  PROVE  FilesOf(q)'
  BY DEF FilesOf, Uploaded, Beyond

\* An action of one request keeps files and documents in step.
LEMMA NextFilesInv == IInv /\ FilesInv /\ [Next]_vars => FilesInv'
<1>1. SUFFICES ASSUME IInv, FilesInv, [Next]_vars PROVE FilesInv'
  OBVIOUS
<1> USE <1>1 DEF IInv, TypeOK, TxnInv, QueueInv, ReplyInv, FilesInv, FilesOf, Uploaded, Beyond
<1>2. ASSUME NEW r \in Request, Begin(r) PROVE FilesInv'
  BY <1>2 DEF Begin, At, Goto, Data, Outcome
<1>3. ASSUME NEW r \in Request, UploadFile(r) PROVE FilesInv'
  BY <1>3 DEF UploadFile, At, Goto, Data, Outcome
<1>4. ASSUME NEW r \in Request, CreateMedia(r) PROVE FilesInv'
  BY <1>4 DEF CreateMedia, At, Goto, Data, Outcome
<1>5. ASSUME NEW r \in Request, UploadFails(r) PROVE FilesInv'
  BY <1>5 DEF UploadFails, At, Goto, Data, Outcome
<1>6. ASSUME NEW r \in Request, Validate(r) PROVE FilesInv'
  BY <1>6 DEF Validate, At, Goto, Data, Outcome
<1>7. ASSUME NEW r \in Request, Refuse(r) PROVE FilesInv'
  BY <1>7 DEF Refuse, At, Goto, Data, Outcome
<1>8. ASSUME NEW r \in Request, Handle(r) PROVE FilesInv'
  BY <1>8 DEF Handle, At, Goto, Data, Outcome, Conflict
<1>9. ASSUME NEW r \in Request, HandlerFails(r) PROVE FilesInv'
  BY <1>9 DEF HandlerFails, At, Goto, Data, Outcome, Conflict
<1>10. ASSUME NEW r \in Request, Replay(r) PROVE FilesInv'
  <2>1. pc[r] = "handle" /\ txn[r] = "open" /\ ran[r] = <<>>
    BY <1>10 DEF Replay, At
  <2>2. /\ attempt'[r] # 1 /\ rows'[r] = {}
        /\ \A q \in Request \ {r} : attempt'[q] = attempt[q] /\ rows'[q] = rows[q]
    BY <1>10 DEF Replay
  <2>3. UNCHANGED <<pc, txn, tracked, ran, media, files, kept>>
    BY <1>10 DEF Replay
  <2>4. ASSUME NEW q \in Request PROVE FilesOf(q)'
    <3>1. CASE q = r
      BY <2>1, <2>2, <2>3, <3>1
    <3>2. CASE q # r
      BY <2>2, <2>3, <3>2
    <3> QED BY <3>1, <3>2
  <2> QED BY <2>4
<1>11. ASSUME NEW r \in Request, TooManyConflicts(r) PROVE FilesInv'
  BY <1>11 DEF TooManyConflicts, At, Goto, Data, Outcome
<1>12. ASSUME NEW r \in Request, Commit(r) PROVE FilesInv'
  <2>1. /\ pc[r] = "commit" /\ pc'[r] = "flush" /\ txn'[r] = "committed"
        /\ \A q \in Request \ {r} : pc'[q] = pc[q] /\ txn'[q] = txn[q]
    BY <1>12 DEF Commit, At, Goto, Apply
  <2>2. \A q \in Request, f \in File :
           <<q, f>> \in media' <=> <<q, f>> \in media \/ (q = r /\ f \in rows[r])
    <3>1. CASE Apply(r)
      BY <3>1 DEF Apply, Rows
    <3>2. CASE txn[r] = "committed" /\ UNCHANGED Data
      BY <3>2 DEF Data
    <3> QED BY <1>12, <3>1, <3>2 DEF Commit
  <2>3. UNCHANGED <<rows, attempt, tracked, ran, files, kept>>
    BY <1>12 DEF Commit, AfterCommit
  <2>4. ASSUME NEW q \in Request PROVE FilesOf(q)'
    <3>1. CASE q = r
      BY <2>1, <2>2, <2>3, <3>1
    <3>2. CASE q # r
      <4>1. \A f \in File : <<q, f>> \in media' <=> <<q, f>> \in media
        BY <2>2, <3>2
      <4> QED BY <2>1, <2>3, <3>2, <4>1, OtherFiles
    <3> QED BY <3>1, <3>2
  <2> QED BY <2>4
<1>13. ASSUME NEW r \in Request, CommitUnknown(r) PROVE FilesInv'
  <2>1. /\ pc[r] = "commit" /\ pc'[r] \in {"commit", "cleanup"} /\ ran[r] = <<>>
        /\ \A q \in Request \ {r} : pc'[q] = pc[q] /\ txn'[q] = txn[q]
    BY <1>13 DEF CommitUnknown, At, Goto
  <2>2. txn'[r] = "committed" <=> txn[r] = "committed"
    BY <1>13 DEF CommitUnknown
  <2>3. UNCHANGED <<rows, attempt, tracked, ran, files, kept, media>>
    BY <1>13 DEF CommitUnknown, AfterCommit, Data
  <2>4. ASSUME NEW q \in Request PROVE FilesOf(q)'
    <3>1. CASE q = r
      BY <2>1, <2>2, <2>3, <3>1
    <3>2. CASE q # r
      BY <2>1, <2>3, <3>2, OtherFiles
    <3> QED BY <3>1, <3>2
  <2> QED BY <2>4
<1>14. ASSUME NEW r \in Request, CommitFails(r) PROVE FilesInv'
  BY <1>14 DEF CommitFails, At, Goto, Data, Outcome, Tried, Abort, AfterCommit
<1>15. ASSUME NEW r \in Request, ServerCommits(r) PROVE FilesInv'
  BY <1>15 DEF ServerCommits, At, Goto, Data, Outcome, Apply, AfterCommit, Rows
<1>16. ASSUME NEW r \in Request, ServerAborts(r) PROVE FilesInv'
  BY <1>16 DEF ServerAborts, At, Goto, Data, Outcome, InTransaction, Abort, AfterCommit
<1>17. ASSUME NEW r \in Request, RunTask(r) PROVE FilesInv'
  BY <1>17 DEF RunTask, At, Goto, Data, Outcome
<1>18. ASSUME NEW r \in Request, Answer(r) PROVE FilesInv'
  BY <1>18 DEF Answer, At, Goto, Data, Outcome
<1>19. ASSUME NEW r \in Request, DeleteFile(r) PROVE FilesInv'
  <2>1. PICK f \in Undeleted(r) :
           \/ files' = files \ {<<r, f>>} /\ UNCHANGED kept
           \/ kept' = kept \cup {<<r, f>>} /\ UNCHANGED files
    BY <1>19 DEF DeleteFile
  <2>2. pc[r] = "cleanup" /\ ran[r] = <<>> /\ f \in tracked[r]
    BY <1>19, <2>1 DEF DeleteFile, At, Undeleted
  <2>3. UNCHANGED <<pc, txn, rows, attempt, tracked, ran, media>>
    BY <1>19 DEF DeleteFile, Data, Outcome
  <2>4. ASSUME NEW q \in Request PROVE FilesOf(q)'
    <3>1. CASE q = r
      BY <2>1, <2>2, <2>3, <3>1
    <3>2. CASE q # r
      <4>1. \A g \in File : /\ <<q, g>> \in files' <=> <<q, g>> \in files
                            /\ <<q, g>> \in kept' <=> <<q, g>> \in kept
        <5>1. CASE files' = files \ {<<r, f>>} /\ UNCHANGED kept
          BY <3>2, <5>1
        <5>2. CASE kept' = kept \cup {<<r, f>>} /\ UNCHANGED files
          BY <3>2, <5>2
        <5> QED BY <2>1, <5>1, <5>2
      <4> QED BY <2>3, <3>2, <4>1, OtherFiles
    <3> QED BY <3>1, <3>2
  <2> QED BY <2>4
<1>20. ASSUME NEW r \in Request, Rollback(r) PROVE FilesInv'
  <2>1. /\ pc[r] = "cleanup" /\ pc'[r] = "done" /\ ran[r] = <<>>
        /\ \A q \in Request \ {r} : pc'[q] = pc[q] /\ txn'[q] = txn[q]
    BY <1>20 DEF Rollback, At, Goto, InTransaction, Abort
  <2>2. txn'[r] = "committed" <=> txn[r] = "committed"
    BY <1>20 DEF Rollback, InTransaction, Abort
  <2>3. UNCHANGED <<rows, attempt, tracked, ran, media, files, kept>>
    BY <1>20 DEF Rollback, Abort, Data
  <2>4. \A f \in File : ~Uploaded(r, f)
    BY <1>20 DEF Rollback, Undeleted
  <2>5. ASSUME NEW q \in Request PROVE FilesOf(q)'
    <3>1. CASE q = r
      BY <2>1, <2>2, <2>3, <2>4, <3>1
    <3>2. CASE q # r
      BY <2>1, <2>3, <3>2
    <3> QED BY <3>1, <3>2
  <2> QED BY <2>5
<1>21. CASE UNCHANGED vars
  BY <1>21 DEF vars
<1> QED
  BY <1>1, <1>2, <1>3, <1>4, <1>5, <1>6, <1>7, <1>8, <1>9, <1>10, <1>11, <1>12, <1>13,
     <1>14, <1>15, <1>16, <1>17, <1>18, <1>19, <1>20, <1>21
  DEF Next, Middleware, Handler, Committing, Ending

\* When a request is over its files are there exactly if its Media documents are,
\* but for the cases the compensation does not cover.
THEOREM FilesFollow == Spec => []FilesFollowMedia
<1>1. Init => FilesInv
  BY DEF Init, FilesInv, FilesOf, Uploaded, Beyond
<1>2. IInv /\ FilesInv => FilesFollowMedia
  BY DEF IInv, TypeOK, TxnInv, ReplyInv, FilesInv, FilesOf, FilesFollowMedia, Uploaded, Beyond, At
<1> QED BY <1>1, <1>2, Invariant, NextFilesInv, PTL DEF Spec
=============================================================================
