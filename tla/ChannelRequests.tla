-------------------------- MODULE ChannelRequests --------------------------
(***************************************************************************)
(* Concurrent requests on one group channel.  Each runs in a transaction:  *)
(* it reads the channel, decides on what it has read, writes the document  *)
(* and commits.  MongoDB refuses a write to a document that another        *)
(* transaction has written since this one's first read, or has written and *)
(* not committed; asyncHandler then runs the handler again.                *)
(*                                                                         *)
(* What a former member may read is told by the time of his leaving, "upto"*)
(* of his entry in leftUsers, against the time each message was made: a    *)
(* message is its createdAt.  Clocks of all servers agree.                 *)
(***************************************************************************)
EXTENDS ChannelRules, FiniteSetsExt

CONSTANTS
    Request,        \* the requests that may run at once
    MaxAttempts,    \* MAX_TRANSACTION_ATTEMPTS
    MaxRequests     \* how many requests one behaviour holds

VARIABLES
    channel,    \* the committed channel document
    messages,   \* the committed messages
    begun,      \* how many requests there have been
    request     \* what each request under way does

vars == <<channel, messages, begun, request>>

(* Each request records at most one new time. *)
Time == 0..MaxRequests

Idle == [stage |-> "idle"]

TypeOK ==
  /\ channel \in Channels(Time)
  /\ messages \in SUBSET Time
  /\ begun \in 0..MaxRequests
  /\ \A r \in Request :
       \/ request[r] = Idle
       \/ /\ request[r].stage \in {"begins", "reads", "written"}
          /\ request[r].op \in Operations
          /\ request[r].by \in Users /\ request[r].who \in SUBSET Users
          /\ request[r].attempt \in 1..MaxAttempts

Init ==
  /\ \E by \in Users, others \in SUBSET Users :
       by \notin others /\ Cardinality(others) > 1 /\ channel = NewGroup(by, others)
  /\ messages = {}
  /\ begun = 0
  /\ request = [r \in Request |-> Idle]

-----------------------------------------------------------------------------
Finish(r) == request' = [request EXCEPT ![r] = Idle]

(* What a form may name: promotions and demotions name one person. *)
MayName(op, who) ==
  CASE op \in {"add", "remove"} -> who # {}
    [] op \in {"promote", "demote"} -> Cardinality(who) = 1
    [] OTHER -> who = {}

(* The first read fixes what the transaction sees. *)
Reading(op, by, who, attempt) ==
  [stage |-> "reads", op |-> op, by |-> by, who |-> who, attempt |-> attempt,
   seen |-> channel, stale |-> FALSE]

(* A request refused on its first read changes nothing, and is left out.   *)
Begin(r, op, by, who) ==
  /\ request[r] = Idle
  /\ begun < MaxRequests
  /\ MayName(op, who) /\ May(channel, op, by, who)
  /\ begun' = begun + 1
  /\ request' = [request EXCEPT ![r] = Reading(op, by, who, 1)]
  /\ UNCHANGED <<channel, messages>>

(* A replayed handler reads again, in a transaction of its own. *)
ReadAgain(r) ==
  /\ request[r].stage = "begins"
  /\ request' = [request EXCEPT ![r] = Reading(@.op, @.by, @.who, @.attempt)]
  /\ UNCHANGED <<channel, messages, begun>>

Allowed(q) == May(q.seen, q.op, q.by, q.who)

(* A failed check throws; asyncHandler aborts and answers the error. *)
Refuse(r) ==
  /\ request[r].stage = "reads"
  /\ ~Allowed(request[r])
  /\ Finish(r)
  /\ UNCHANGED <<channel, messages, begun>>

Free(r) ==
  /\ ~request[r].stale
  /\ \A s \in Request : request[s].stage # "written"

(* The time of day is later than any that has been recorded. *)
Now ==
  1 + Max({0} \union messages \union {e.upto : e \in channel.left}
          \union {request[s].at : s \in {s \in Request : request[s].stage = "written"}})

(* The handler takes its time of day, writes the document, and pushes. *)
Write(r) ==
  LET q == request[r] IN
  /\ q.stage = "reads"
  /\ Allowed(q)
  /\ Free(r)
  /\ \E c \in Results(q.seen, q.op, q.by, q.who, Now) :
       request' = [request EXCEPT ![r] =
         [stage |-> "written", op |-> q.op, by |-> q.by, who |-> q.who, attempt |-> q.attempt,
          document |-> c, at |-> Now]]
  /\ UNCHANGED <<channel, messages, begun>>

MayReplay(q) == q.attempt < MaxAttempts

Replay(r) ==
  IF MayReplay(request[r])
  THEN request' = [request EXCEPT ![r] =
         [stage |-> "begins", op |-> @.op, by |-> @.by, who |-> @.who, attempt |-> @.attempt + 1]]
  ELSE Finish(r)

(* MUTANT: the write alone is tried again, with what was read at first. *)
MutConflict(r) ==
  /\ request[r].stage = "reads" /\ Allowed(request[r]) /\ ~Free(r)
  /\ request' = [request EXCEPT ![r].stale = FALSE]
  /\ UNCHANGED <<channel, messages, begun>>

(* The write is refused for another's sake. *)
Conflict(r) ==
  /\ request[r].stage = "reads"
  /\ Allowed(request[r])
  /\ ~Free(r)
  /\ Replay(r)
  /\ UNCHANGED <<channel, messages, begun>>

(* A handler that has written may still fail for a transient reason. *)
Interrupted(r) ==
  /\ request[r].stage = "written"
  /\ Replay(r)
  /\ UNCHANGED <<channel, messages, begun>>

MessagesAfter(q) ==
  IF ~Exists(q.document) THEN {}
  ELSE IF q.op = "send" THEN messages \union {q.at} ELSE messages

(* What the others have read is no longer the channel as it is. *)
Commit(r) ==
  /\ request[r].stage = "written"
  /\ channel' = request[r].document
  /\ messages' = MessagesAfter(request[r])
  /\ request' = [s \in Request |->
       IF s = r THEN Idle
       ELSE IF request[s].stage = "reads" THEN [request[s] EXCEPT !.stale = TRUE]
       ELSE request[s]]
  /\ UNCHANGED begun

(* A commit that fails aborts the transaction, and is not replayed. *)
CommitFails(r) ==
  /\ request[r].stage = "written"
  /\ Finish(r)
  /\ UNCHANGED <<channel, messages, begun>>

Next ==
  \E r \in Request :
    \/ \E op \in Operations, by \in Users, who \in SUBSET Users : Begin(r, op, by, who)
    \/ ReadAgain(r) \/ Refuse(r) \/ Write(r) \/ Conflict(r) \/ Interrupted(r)
    \/ Commit(r) \/ CommitFails(r)

Spec == Init /\ [][Next]_vars

-----------------------------------------------------------------------------
(* What a former member reads, as getMessages cuts it off. *)
Readable(upto) == {m \in messages : m <= upto}

Kept == {[user |-> e.user, show |-> e.show, upto |-> Readable(e.upto)] : e \in channel.left}

Promise == INSTANCE GroupChannel WITH Message <- Time, channel <- [channel EXCEPT !.left = Kept]

(* The owner and the admins of the channel are members of it, and there is *)
(* an admin, whatever runs at once (see GroupChannel).                     *)
Ruled == Promise!Ruled

(* One entry tells what a former member may read (see GroupChannel). *)
LeftApart == Promise!LeftApart

(* The channel changes hands only when its owner leaves it.  *)
OwnerKeeps == Promise!OwnerKeeps

(* A message never outlives its channel, not even one that was being sent  *)
(* when the last member left.                                              *)
GoneTogether == ~Exists(channel) => messages = {}

(* A channel, its membership and its messages are in order at all times. *)
Orderly == TypeOK /\ Ruled /\ LeftApart /\ GoneTogether

(* Requests that overlap come out as if each had run alone, at the moment  *)
(* of its commit, by somebody who then had the right to it; and the times  *)
(* of day leave every former member what he could read when he left.       *)
AsIfAlone == Promise!Spec
=============================================================================
