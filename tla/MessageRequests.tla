-------------------------- MODULE MessageRequests --------------------------
(***************************************************************************)
(* Concurrent requests on the messages of one group channel, and receipts. *)
(* A request runs in a transaction, as in ChannelRequests: it reads, it    *)
(* decides on what it has read, it writes documents and commits; MongoDB   *)
(* refuses it a document that has been written since it read, or that      *)
(* another transaction has written and not committed.                      *)
(*                                                                         *)
(* A receipt sent over the WebSocket is applied by the same code without a *)
(* transaction.  It reads the messages, and saves one after the other:     *)
(* a new entry is pushed, but an entry that changes is saved with the whole*)
(* array it was read in.  The read leaves out the version of the document, *)
(* so Mongoose does not check it.                                          *)
(*                                                                         *)
(* Former members keep the channel in sight here, and all messages are     *)
(* older than their leaving: no receipt is refused for membership.         *)
(***************************************************************************)
EXTENDS MessageRules, Sequences, SequencesExt

CONSTANTS
    Request,        \* the requests and receipts that may run at once
    MaxAttempts,    \* MAX_TRANSACTION_ATTEMPTS
    Topics          \* bound: which operations one behaviour mixes, how many of them it
                    \* holds, and whether all messages have been delivered before

Kinds == {"delivered", "read"}

Bounds == [ops : SUBSET (Governing \union MessageOperations \union Kinds), most : Nat,
           delivered : BOOLEAN]

VARIABLES
    channel,    \* the committed channel document, but for what is pinned
    pins,       \* the messages it has pinned
    posts,      \* the committed message documents
    delivery,   \* per message, the receipts in it
    topic,      \* what the requests of this behaviour ask for
    begun,      \* how many requests there have been
    request     \* what each request under way does

stored == <<channel, pins, posts, delivery, topic>>
vars == <<channel, pins, posts, delivery, topic, begun, request>>

Idle == [stage |-> "idle"]

Receipts == [user : Users, read : BOOLEAN]

(* The documents; the membership and the pins are in one. *)
ChannelDoc == "channel"
Docs == Message \union {ChannelDoc}

TypeOK ==
  /\ channel \in Channels({0})
  /\ pins \subseteq Message
  /\ posts \in [Message ->
       [sender : Users, status : {"active", "edited", "deleted"}, hidden : SUBSET Users,
        pinned : BOOLEAN, reactions : SUBSET Reactions]]
  /\ delivery \in [Message -> Seq(Receipts)]
  /\ begun \in 0..topic.most
  /\ \A r \in Request :
       \/ request[r] = Idle
       \/ request[r].stage \in {"begins", "reads", "written"} /\ request[r].attempt \in 1..MaxAttempts
       \/ request[r].stage = "saves" /\ request[r].what # {}

-----------------------------------------------------------------------------
(* What a receipt does to the receipts of a message. *)

EntryOf(d, u) == SelectInSeq(d, LAMBDA e : e.user = u)

Entry(by, kind) == [user |-> by, read |-> (kind = "read")]

(* A receipt is for what another wrote, is there, is not hidden, and       *)
(* changes something.                                                      *)
Counts(p, d, by, kind) ==
  /\ Present(p) /\ p.sender # by /\ by \notin p.hidden
  /\ EntryOf(d, by) # 0 => kind = "read" /\ ~d[EntryOf(d, by)].read

(* MUTANT: every receipt is an entry of its own. *)
MutSaved(now, seen, by, kind) == Append(now, Entry(by, kind))

(* What is saved, of an array that was read as `seen` and is `now`. *)
Saved(now, seen, by, kind) ==
  IF EntryOf(seen, by) = 0 THEN Append(now, Entry(by, kind))
  ELSE [seen EXCEPT ![EntryOf(seen, by)] = Entry(by, kind)]

Counting(ps, ds, by, kind, what) == {m \in what : Counts(ps[m], ds[m], by, kind)}

-----------------------------------------------------------------------------
Init ==
  /\ \E by \in Users, others \in SUBSET Users :
       by \notin others /\ Cardinality(others) > 1 /\ channel = NewGroup(by, others)
  /\ pins = {}
  /\ \E sender \in [Message -> channel.users] : posts = [m \in Message |-> Sent(sender[m])]
  /\ topic \in Topics
  /\ delivery = [m \in Message |->
       SetToSeq({Entry(u, "delivered") : u \in IF topic.delivered THEN Users \ {posts[m].sender} ELSE {}})]
  /\ begun = 0
  /\ request = [r \in Request |-> Idle]

(* What is asked of the server: who names whom, or which messages. *)
Forms ==
  [op : Governing, by : Users, who : {{u} : u \in Users}, what : {{}}]
  \union [op : MessageOperations, by : Users, who : {{}}, what : {{m} : m \in Message}]
  \union [op : {"delete"} \union Kinds, by : Users, who : {{}}, what : (SUBSET Message) \ {{}}]

(* The check of a form, on the documents as read. *)
Allowed(f, seen) ==
  CASE f.op \in Governing -> May(seen.channel, f.op, f.by, f.who)
    [] f.op \in Kinds -> Counting(seen.posts, seen.delivery, f.by, f.op, f.what) # {}
    [] OTHER -> MayChange(seen.channel, seen.pins, seen.posts, f.op, f.by, f.what)

Store == [channel |-> channel, pins |-> pins, posts |-> posts, delivery |-> delivery]

(* What a form makes of the documents. *)
Outcomes(f, seen) ==
  CASE f.op \in Governing ->
         {[seen EXCEPT !.channel = c] : c \in Results(seen.channel, f.op, f.by, f.who, 0)}
    [] f.op \in Kinds ->
         LET which == Counting(seen.posts, seen.delivery, f.by, f.op, f.what) IN
         {[seen EXCEPT !.delivery = [m \in Message |->
             IF m \in which THEN Saved(@[m], @[m], f.by, f.op) ELSE @[m]]]}
    [] OTHER ->
         {[seen EXCEPT !.pins = PinsAfter(@, f.op, f.what),
                       !.posts = PostsAfter(@, f.op, f.by, f.what, e)] : e \in Emoji}

(* The documents it writes.  Deleting touches only what is not yet hidden; *)
(* every other update writes, if only the time of it.                      *)
Written(f, seen, out) ==
  CASE f.op \in Governing -> {ChannelDoc}
    [] f.op \in Kinds -> Counting(seen.posts, seen.delivery, f.by, f.op, f.what)
    [] f.op = "delete" -> {m \in f.what : out.posts[m] # seen.posts[m]}
    [] f.op \in {"pin", "unpin"} -> f.what \union {ChannelDoc}
    [] OTHER -> f.what

-----------------------------------------------------------------------------
Finish(r) == request' = [request EXCEPT ![r] = Idle]

(* The first read fixes what the transaction sees. *)
Reading(form, attempt) ==
  [stage |-> "reads", form |-> form, attempt |-> attempt, seen |-> Store, stale |-> {}]

(* A request refused on its first read changes nothing, and is left out. *)
Begin(r, form) ==
  /\ request[r] = Idle /\ form.op \in topic.ops
  /\ begun < topic.most
  /\ Allowed(form, Store)
  /\ begun' = begun + 1
  /\ request' = [request EXCEPT ![r] = Reading(form, 1)]
  /\ UNCHANGED stored

ReadAgain(r) ==
  /\ request[r].stage = "begins"
  /\ request' = [request EXCEPT ![r] = Reading(@.form, @.attempt)]
  /\ UNCHANGED <<stored, begun>>

Refuse(r) ==
  /\ request[r].stage = "reads"
  /\ ~Allowed(request[r].form, request[r].seen)
  /\ Finish(r)
  /\ UNCHANGED <<stored, begun>>

Held(docs) == \E s \in Request : request[s].stage = "written" /\ request[s].wrote \intersect docs # {}

Free(r, docs) == request[r].stale \intersect docs = {} /\ ~Held(docs)

Attempted(r, out) == Written(request[r].form, request[r].seen, out)

(* The handler writes its documents, one after the other. *)
Write(r) ==
  /\ request[r].stage = "reads"
  /\ Allowed(request[r].form, request[r].seen)
  /\ \E out \in Outcomes(request[r].form, request[r].seen) :
       /\ Free(r, Attempted(r, out))
       /\ request' = [request EXCEPT ![r] =
            [stage |-> "written", form |-> @.form, attempt |-> @.attempt,
             out |-> out, wrote |-> Attempted(r, out)]]
  /\ UNCHANGED <<stored, begun>>

MayReplay(q) == q.attempt < MaxAttempts

Replay(r) ==
  IF MayReplay(request[r])
  THEN request' = [request EXCEPT ![r] =
         [stage |-> "begins", form |-> @.form, attempt |-> @.attempt + 1]]
  ELSE Finish(r)

(* MUTANT: the write alone is tried again, with what was read at first. *)
MutConflict(r) ==
  /\ request[r].stage = "reads" /\ Allowed(request[r].form, request[r].seen)
  /\ \E out \in Outcomes(request[r].form, request[r].seen) : ~Free(r, Attempted(r, out))
  /\ request' = [request EXCEPT ![r].stale = {}]
  /\ UNCHANGED <<stored, begun>>

(* A write is refused for another's sake. *)
Conflict(r) ==
  /\ request[r].stage = "reads"
  /\ Allowed(request[r].form, request[r].seen)
  /\ \E out \in Outcomes(request[r].form, request[r].seen) : ~Free(r, Attempted(r, out))
  /\ Replay(r)
  /\ UNCHANGED <<stored, begun>>

(* A handler that has written may still fail for a transient reason. *)
Interrupted(r) ==
  /\ request[r].stage = "written"
  /\ Replay(r)
  /\ UNCHANGED <<stored, begun>>

(* What the others have read is no longer what the documents are. *)
Overtake(r, docs, mine) ==
  request' = [s \in Request |->
    IF s = r THEN mine
    ELSE IF request[s].stage = "reads" THEN [request[s] EXCEPT !.stale = @ \union docs]
    ELSE request[s]]

Commit(r) ==
  LET q == request[r] IN
  /\ q.stage = "written"
  /\ IF ChannelDoc \in q.wrote
     THEN channel' = q.out.channel /\ pins' = q.out.pins
     ELSE UNCHANGED <<channel, pins>>
  /\ posts' = [m \in Message |-> IF m \in q.wrote THEN q.out.posts[m] ELSE posts[m]]
  /\ delivery' = [m \in Message |-> IF m \in q.wrote THEN q.out.delivery[m] ELSE delivery[m]]
  /\ Overtake(r, q.wrote, Idle)
  /\ UNCHANGED <<topic, begun>>

(* A commit that fails aborts the transaction, and is not replayed. *)
CommitFails(r) ==
  /\ request[r].stage = "written"
  /\ Finish(r)
  /\ UNCHANGED <<stored, begun>>

-----------------------------------------------------------------------------
(* Receipts over the WebSocket.                                            *)

Receive(r, form) ==
  /\ request[r] = Idle
  /\ begun < topic.most
  /\ form.op \in Kinds \intersect topic.ops
  /\ Allowed(form, Store)
  /\ begun' = begun + 1
  /\ request' = [request EXCEPT ![r] =
       [stage |-> "saves", by |-> form.by, kind |-> form.op, seen |-> delivery,
        what |-> Counting(posts, delivery, form.by, form.op, form.what)]]
  /\ UNCHANGED stored

(* A save waits for the transaction that has written the message. *)
Save(r, m) ==
  LET q == request[r] IN
  /\ q.stage = "saves" /\ m \in q.what
  /\ ~Held({m})
  /\ delivery' = [delivery EXCEPT ![m] = Saved(@, q.seen[m], q.by, q.kind)]
  /\ Overtake(r, {m}, IF q.what = {m} THEN Idle ELSE [q EXCEPT !.what = @ \ {m}])
  /\ UNCHANGED <<channel, pins, posts, topic, begun>>

(* A failed save ends it, and is only logged. *)
SaveFails(r) ==
  /\ request[r].stage = "saves"
  /\ Finish(r)
  /\ UNCHANGED <<stored, begun>>

Next ==
  \E r \in Request :
    \/ \E form \in Forms : Begin(r, form) \/ Receive(r, form)
    \/ \E m \in Message : Save(r, m)
    \/ ReadAgain(r) \/ Refuse(r) \/ Write(r) \/ Conflict(r) \/ Interrupted(r)
    \/ Commit(r) \/ CommitFails(r) \/ SaveFails(r)

Spec == Init /\ [][Next]_vars

-----------------------------------------------------------------------------
Promise == INSTANCE MessageBoard

(* The two records of what is pinned agree, within the limit, and nobody   *)
(* has two reactions, whatever runs at once (see MessageBoard).            *)
Recorded == TypeOK /\ Promise!PinsAgree /\ Promise!OneReaction

(* Requests that overlap come out as if each had run alone: a deleted      *)
(* message is not edited back or reacted to, and a pin is by an admin.     *)
AsIfAlone == Promise!Spec

(* 0: nothing known of the reader, 1: delivered to him, 2: read. *)
Level(d, u) == IF EntryOf(d, u) = 0 THEN 0 ELSE IF d[EntryOf(d, u)].read THEN 2 ELSE 1

(* A WebSocket receipt that saves a message whose receipts have changed    *)
(* since it read them.                                                     *)
Late(r, m) ==
  /\ request[r].stage = "saves" /\ m \in request[r].what
  /\ request[r].seen[m] # delivery[m]
  /\ request'[r] # request[r]

Entries1(d) == \A u \in Users : Cardinality({i \in DOMAIN d : d[i].user = u}) <= 1

(* A receipt is never lost or taken back, and none is recorded twice,      *)
(* unless by a WebSocket receipt that another receipt has overtaken.       *)
ReceiptsKept ==
  [][\A m \in Message :
       \/ \E r \in Request : Late(r, m)
       \/ /\ \A u \in Users : Level(delivery'[m], u) >= Level(delivery[m], u)
          /\ Entries1(delivery[m]) => Entries1(delivery'[m])]_vars
=============================================================================
