------------------------ MODULE EventDelivery_proofs ------------------------
(***************************************************************************)
(* Proofs about EventDelivery, for any events, members, replays, limits    *)
(* and troubles: a message is given up only after MaxTries failures, no    *)
(* event is lost, and every step is one that AtLeastOnce allows.           *)
(*                                                                         *)
(* What is committed says nothing of the members that start elsewhere, and *)
(* what a replay commits says nothing of a replay that lost its lock and   *)
(* goes on: so the invariant is about every place from which a member may  *)
(* read on or commit, and every place from which a replay may.             *)
(***************************************************************************)
EXTENDS EventDelivery, SequenceTheorems, TLAPS

Phase == {"new", "idle", "locked", "joining", "fetching", "batch", "committing"}
ReplayState == [phase : Phase, dry : BOOLEAN, over : BOOLEAN,
                end : Nat, from : Nat, last : Nat, next : Nat]

TopicTypes ==
    /\ log \in Seq(Event)
    /\ dlq \in Seq(Nat) /\ \A j \in 1 .. Len(dlq) : dlq[j] < Len(log)

CallerTypes ==
    /\ sends \in [Sender -> 0 .. MaxSends - 1]
    /\ caller \in [Event -> {"new", "sending", "published", "direct", "done"}]
    /\ handled \subseteq Event

GroupTypes ==
    /\ owner \in Consumer \union {None} /\ position \in [Consumer -> Offset]
    /\ work \in [Consumer -> {"idle", "executing", "lettering"}]
    /\ paused \subseteq Consumer /\ resolved \subseteq Consumer
    /\ committed \in Offset \union {None}
    \* The message that a member is busy with is in the topic.
    /\ \A c \in Consumer : work[c] # "idle" => position[c] < Len(log)

\* Counts of failures, by offset.
Counts(f) == DOMAIN f \subseteq Offset /\ \A o \in DOMAIN f : f[o] \in Nat

CountTypes ==
    /\ DOMAIN attempts = Consumer /\ \A c \in Consumer : Counts(attempts[c])
    /\ Counts(failed)

\* The batch of a replay lies within its range, and the range within the dead-letter topic.
ReplayTypes ==
    /\ replay \in [Replayer -> ReplayState]
    /\ lock \in Replayer \union {None} /\ member \in Replayer \union {None}
    /\ replayed \in 0 .. Len(dlq)
    /\ \A r \in Replayer : /\ replay[r].next <= replay[r].last /\ replay[r].last <= replay[r].end
                           /\ replay[r].end <= Len(dlq) /\ replay[r].from <= Len(dlq)

\* A member never counts more failures than there were, one that gives a message up has
\* counted enough, and what is a letter has failed as often.
LettersInv ==
    /\ \A c \in Consumer : \A o \in Nat : Count(attempts[c], o) <= Count(failed, o)
    /\ \A c \in Consumer :
          work[c] = "lettering" =>
              /\ Count(attempts[c], position[c]) + 1 <= Count(failed, position[c])
              /\ MaxTries <= Count(failed, position[c])
    /\ LettersEarned

\* With topic l, letters d and handled events h, event e is handled, or ahead of offset p in
\* the topic, or ahead of the letter at q.
Kept(l, d, h, e, p, q) ==
    \/ e \in h
    \/ \E k \in 1 .. Len(l) : k > p /\ l[k] = e
    \/ \E j \in 1 .. Len(d) : j > q /\ l[d[j] + 1] = e

Sound(l, d, h, p, q) == \A i \in 1 .. Len(l) : Kept(l, d, h, l[i], p, q)

\* Wherever a member may read on or commit, and a replay may.
Readers == {committed} \union {position[c] : c \in Consumer}
Cursors == {0, replayed} \union {replay[r].from : r \in Replayer}
               \union {replay[r].next : r \in {r \in Replayer : ~replay[r].dry}}

KeptInv ==
    FirstCommit = 0 =>
        committed # None /\ \A p \in Readers, q \in Cursors : Sound(log, dlq, handled, p, q)

IInv == /\ TopicTypes /\ CallerTypes /\ GroupTypes /\ CountTypes /\ ReplayTypes
        /\ LettersInv /\ KeptInv

-----------------------------------------------------------------------------
(* The topics only grow.                                                   *)

\* What Append does to a sequence.
LEMMA Appended ==
  ASSUME NEW S, NEW s \in Seq(S), NEW x \in S
  PROVE  /\ Append(s, x) \in Seq(S) /\ Len(s) \in Nat
         /\ Len(Append(s, x)) = Len(s) + 1
         /\ DOMAIN Append(s, x) = 1 .. Len(s) + 1 /\ DOMAIN s = 1 .. Len(s)
         /\ \A i \in 1 .. Len(s) : Append(s, x)[i] = s[i]
         /\ Append(s, x)[Len(s) + 1] = x
  BY AppendProperties, LenProperties

\* The event behind a letter, and the event a member is busy with, are in the topic.
LEMMA Behind ==
  ASSUME TopicTypes
  PROVE  /\ Len(log) \in Nat /\ Len(dlq) \in Nat
         /\ \A j \in 1 .. Len(dlq) : dlq[j] \in Nat /\ dlq[j] + 1 \in 1 .. Len(log)
                                     /\ log[dlq[j] + 1] \in Event
         /\ \A i \in 1 .. Len(log) : log[i] \in Event
  BY LenProperties, ElementOfSeq DEF TopicTypes

\* What a step may store: an event that is new or sent again, or a letter of a message
\* given up.  Who appends to the topic commits nothing.
LEMMA OneStored ==
  ASSUME TopicTypes, GroupTypes, ReplayTypes, [Next]_vars
  PROVE  /\ \/ log' = log
            \/ /\ \E e \in Event : log' = Append(log, e)
               /\ dlq' = dlq /\ committed' = committed
         /\ \/ dlq' = dlq
            \/ \E c \in Consumer :
                  work[c] = "lettering" /\ dlq' = Append(dlq, position[c]) /\ log' = log
         /\ handled \subseteq handled'
<1>1. CASE \E e \in Event : CallerStep(e) \/ CallerCrashes(e)
  BY <1>1 DEF CallerStep, CannotPublish, PublishEvent, HandleDirectly, CallerCrashes, Reaches,
              topics, group
<1>2. CASE \E c \in Consumer : SendToDeadLetterQueue(c)
  BY <1>2 DEF SendToDeadLetterQueue, Reaches
<1>3. CASE \E c \in Consumer : \/ Deliver(c) \/ ExecuteSucceeds(c) \/ ExecuteFails(c)
                               \/ Resume(c) \/ GroupJoin(c) \/ AutoCommit(c) \/ ConsumerCrashes(c)
  BY <1>3 DEF Deliver, ExecuteSucceeds, ExecuteFails, Resume, GroupJoin, AutoCommit,
              ConsumerCrashes, topics
<1>4. CASE \E r \in Replayer : Resend(r)
  <2>1. PICK r \in Replayer : Resend(r)
    BY <1>4
  <2>2. log[dlq[replay[r].next + 1] + 1] \in Event
    <3>1. replay[r].next \in Nat /\ replay[r].last <= Len(dlq) /\ replay[r].last \in Nat
          /\ replay[r].next < replay[r].last
      BY <2>1, Behind DEF ReplayTypes, ReplayState, Resend
    <3>2. replay[r].next + 1 \in 1 .. Len(dlq)
      BY <3>1, Behind
    <3> QED BY <3>2, Behind
  <2> QED BY <2>1, <2>2 DEF Resend, Reaches, group
<1>5. CASE \E r \in Replayer : \/ GetPendingRanges(r) \/ JoinReplayGroup(r) \/ FetchBatch(r)
                               \/ CommitReplayed(r) \/ FinishReplay(r)
                               \/ AcquireLock(r) \/ TimeOut(r) \/ LockExpires(r) \/ ReplayCrashes(r)
  BY <1>5 DEF GetPendingRanges, JoinReplayGroup, FetchBatch, CommitReplayed, FinishReplay,
              AcquireLock, TimeOut, LockExpires, ReplayCrashes, topics
<1>6. CASE UNCHANGED vars
  BY <1>6 DEF vars, topics, group
<1> QED BY <1>1, <1>2, <1>3, <1>4, <1>5, <1>6 DEF Next, ConsumerStep, ReplayStep

\* A topic that grows keeps what it has in its place.
Grown ==
    /\ Len(log) \in Nat /\ Len(log') \in Nat /\ Len(log) <= Len(log')
    /\ Len(dlq) \in Nat /\ Len(dlq') \in Nat /\ Len(dlq) <= Len(dlq')
    /\ \A i \in 1 .. Len(log) : log'[i] = log[i]
    /\ \A j \in 1 .. Len(dlq) : dlq'[j] = dlq[j]
    /\ Offset \subseteq Offset'

\* The topics keep their types and only grow.
LEMMA Growth ==
  ASSUME TopicTypes, GroupTypes, ReplayTypes, [Next]_vars
  PROVE  TopicTypes' /\ Grown
<1>1. CASE log' = log /\ dlq' = dlq
  BY <1>1, Behind DEF TopicTypes, Offset, Grown
<1>2. ASSUME NEW e \in Event, log' = Append(log, e), dlq' = dlq
      PROVE  TopicTypes' /\ Grown
  BY <1>2, Behind, Appended DEF TopicTypes, Offset, Grown
<1>3. ASSUME NEW c \in Consumer, work[c] = "lettering", dlq' = Append(dlq, position[c]), log' = log
      PROVE  TopicTypes' /\ Grown
  <2>1. position[c] \in Nat /\ position[c] < Len(log)
    BY <1>3, Behind DEF GroupTypes, Offset
  <2>2. log \in Seq(Event) /\ dlq \in Seq(Nat) /\ \A j \in 1 .. Len(dlq) : dlq[j] < Len(log)
    BY DEF TopicTypes
  <2>3. Len(log) \in Nat
    BY Behind
  <2>4. /\ Append(dlq, position[c]) \in Seq(Nat) /\ Len(dlq) \in Nat
        /\ Len(Append(dlq, position[c])) = Len(dlq) + 1
        /\ \A i \in 1 .. Len(dlq) : Append(dlq, position[c])[i] = dlq[i]
        /\ Append(dlq, position[c])[Len(dlq) + 1] = position[c]
    BY <2>1, <2>2, Appended
  <2>5. \A j \in 1 .. Len(dlq) + 1 : Append(dlq, position[c])[j] < Len(log)
    BY <2>1, <2>2, <2>3, <2>4
  <2> QED BY <1>3, <2>2, <2>3, <2>4, <2>5 DEF TopicTypes, Offset, Grown
<1> QED BY <1>1, <1>2, <1>3, OneStored

-----------------------------------------------------------------------------
(* The state of a replay.                                                  *)

\* A state of a replay, field by field, apart from its flags.
Is(t, phase, end, from, last, next) ==
    /\ t \in ReplayState /\ t.phase = phase
    /\ t.end = end /\ t.from = from /\ t.last = last /\ t.next = next

Flags(t, dry, over) == t.dry = dry /\ t.over = over

\* A replay that is not running.
LEMMA IdleIs ==
  ASSUME NEW p \in Phase, NEW b \in BOOLEAN
  PROVE  Is(Idle, "idle", 0, 0, 0, 0) /\ ~Idle.dry /\ ~Idle.over
         /\ Is([Idle EXCEPT !.phase = p], p, 0, 0, 0, 0)
         /\ ~[Idle EXCEPT !.phase = p].over
         /\ Is([Idle EXCEPT !.phase = p, !.dry = b], p, 0, 0, 0, 0)
         /\ ~[Idle EXCEPT !.phase = p, !.dry = b].over
  BY DEF Is, Idle, ReplayState, Phase

\* A replay that goes on.
LEMMA PhaseIs ==
  ASSUME NEW s \in ReplayState, NEW p \in Phase
  PROVE  LET t == [s EXCEPT !.phase = p]
         IN Is(t, p, s.end, s.from, s.last, s.next) /\ Flags(t, s.dry, s.over)
  BY DEF Is, Flags, ReplayState

\* A replay that has read the end of its topic.
LEMMA EndIs ==
  ASSUME NEW s \in ReplayState, NEW p \in Phase, NEW n \in Nat
  PROVE  LET t == [s EXCEPT !.phase = p, !.end = n]
         IN Is(t, p, n, s.from, s.last, s.next) /\ Flags(t, s.dry, s.over)
  BY DEF Is, Flags, ReplayState

\* A replay that has joined its group.
LEMMA FromIs ==
  ASSUME NEW s \in ReplayState, NEW p \in Phase, NEW n \in Nat
  PROVE  LET t == [s EXCEPT !.phase = p, !.from = n]
         IN Is(t, p, s.end, n, s.last, s.next) /\ Flags(t, s.dry, s.over)
  BY DEF Is, Flags, ReplayState

\* A replay that has fetched a batch.
LEMMA BatchIs ==
  ASSUME NEW s \in ReplayState, NEW p \in Phase, NEW n \in Nat, NEW m \in Nat,
         NEW t, t = [s EXCEPT !.phase = p, !.next = n, !.last = m]
  PROVE  Is(t, p, s.end, s.from, m, n) /\ Flags(t, s.dry, s.over)
  BY DEF Is, Flags, ReplayState

\* A replay that has resent a letter.
LEMMA NextIs ==
  ASSUME NEW s \in ReplayState
  PROVE  LET t == [s EXCEPT !.next = @ + 1]
         IN Is(t, s.phase, s.end, s.from, s.last, s.next + 1) /\ Flags(t, s.dry, s.over)
  BY DEF Is, Flags, ReplayState

\* A replay whose time is over.
LEMMA OverIs ==
  ASSUME NEW s \in ReplayState, NEW p \in Phase, NEW b \in BOOLEAN
  PROVE  \A t : t = [s EXCEPT !.phase = p, !.over = b] \/ (t = [s EXCEPT !.over = b] /\ p = s.phase)
             => Is(t, p, s.end, s.from, s.last, s.next) /\ Flags(t, s.dry, b)
  BY DEF Is, Flags, ReplayState

(* What a step of a replay does to it: it starts, it ends, it takes the    *)
(* end of the dead-letter topic, or it goes on.                            *)
Started == {"joining", "fetching", "batch", "committing"}

Starts(r) ==
    /\ Is(replay'[r], "locked", 0, 0, 0, 0)
    /\ lock' = r /\ replayed' = replayed

Ends(r) ==
    /\ Is(replay'[r], "idle", 0, 0, 0, 0)
    /\ lock' = lock \/ lock' = None
    /\ replayed' = replayed

FixesEnd(r) ==
    LET s == replay[r]
    IN /\ s.phase = "locked" /\ Is(replay'[r], "joining", Len(dlq), s.from, s.last, s.next)
       /\ replay'[r].dry = s.dry
       /\ lock' = lock /\ replayed' = replayed

GoesOn(r) ==
    LET s == replay[r]
        t == replay'[r]
    IN /\ s.phase \in Started /\ t.phase \in Started
       /\ t.end = s.end /\ t.dry = s.dry /\ lock' = lock
       /\ t.from = s.from \/ t.from = replayed
       /\ \/ t.next = s.next /\ t.last = s.last
          \/ t.next = s.from /\ t.next <= t.last /\ t.last <= t.end
          \/ /\ t.next = s.next + 1 /\ t.last = s.last /\ s.next < s.last
             /\ s.dry \/ log' = Append(log, log[dlq[s.next + 1] + 1])
       /\ replayed' = replayed \/ (~s.dry /\ replayed' = s.next)

ReplayMoves(r) ==
    /\ replay' \in [Replayer -> ReplayState] /\ \A q \in Replayer \ {r} : replay'[q] = replay[q]
    /\ dlq' = dlq
    /\ Starts(r) \/ Ends(r) \/ FixesEnd(r) \/ GoesOn(r)

\* One replay takes on a state, the others keep theirs.
LEMMA Updated ==
  ASSUME ReplayTypes, NEW r \in Replayer, NEW t \in ReplayState, Update(r, t)
  PROVE  /\ replay' \in [Replayer -> ReplayState] /\ replay'[r] = t
         /\ \A q \in Replayer \ {r} : replay'[q] = replay[q]
  BY DEF ReplayTypes, Update

\* A replay that takes the lock.
LEMMA ReplayStarts ==
  ASSUME ReplayTypes, NEW r \in Replayer, AcquireLock(r)
  PROVE  ReplayMoves(r)
<1>1. PICK b \in BOOLEAN : Update(r, [Idle EXCEPT !.phase = "locked", !.dry = b])
  BY DEF AcquireLock
<1> DEFINE t == [Idle EXCEPT !.phase = "locked", !.dry = b]
<1>2. "locked" \in Phase
  BY DEF Phase
<1>3. Is(t, "locked", 0, 0, 0, 0) /\ ~t.over
  BY <1>2, IdleIs
<1>4. t \in ReplayState
  BY <1>3 DEF Is
<1> HIDE DEF t
<1>5. Update(r, t)
  BY <1>1 DEF t
<1> QED BY <1>3, <1>4, <1>5, Updated DEF AcquireLock, ReplayMoves, Starts, topics

\* A replay that is over.
LEMMA ReplayEndsSo ==
  ASSUME ReplayTypes, NEW r \in Replayer, Update(r, Idle), dlq' = dlq, replayed' = replayed,
         lock' = lock \/ lock' = None
  PROVE  ReplayMoves(r)
<1>1. "idle" \in Phase /\ TRUE \in BOOLEAN
  BY DEF Phase
<1>2. Is(Idle, "idle", 0, 0, 0, 0)
  BY <1>1, IdleIs
<1>3. Idle \in ReplayState
  BY <1>2 DEF Is
<1> QED BY <1>2, <1>3, Updated DEF ReplayMoves, Ends

\* A replay that reads the end of its topic.
LEMMA RangesMove ==
  ASSUME TopicTypes, ReplayTypes, NEW r \in Replayer, GetPendingRanges(r)
  PROVE  ReplayMoves(r)
<1> DEFINE s == replay[r]
           t == [s EXCEPT !.phase = "joining", !.end = Len(dlq)]
<1>1. CASE replayed >= Len(dlq)
  BY <1>1, ReplayEndsSo DEF GetPendingRanges, Release, topics
<1>2. CASE ~(replayed >= Len(dlq))
  <2>1. s \in ReplayState /\ Len(dlq) \in Nat /\ "joining" \in Phase
    BY Behind DEF ReplayTypes, Phase
  <2>2. Is(t, "joining", Len(dlq), s.from, s.last, s.next) /\ Flags(t, s.dry, s.over)
    BY <2>1, EndIs
  <2>3. Update(r, t) /\ s.phase = "locked" /\ lock' = lock /\ replayed' = replayed /\ dlq' = dlq
    BY <1>2 DEF GetPendingRanges, End, topics
  <2>4. t \in ReplayState
    BY <2>2 DEF Is
  <2> HIDE DEF t
  <2>5. replay' \in [Replayer -> ReplayState] /\ replay'[r] = t
        /\ \A q \in Replayer \ {r} : replay'[q] = replay[q]
    BY <2>3, <2>4, Updated
  <2> QED BY <2>2, <2>3, <2>5 DEF ReplayMoves, FixesEnd, Flags
<1> QED BY <1>1, <1>2

\* A replay that goes on with a state that follows the one it was in.
LEMMA GoesOnSo ==
  ASSUME TopicTypes, ReplayTypes, NEW r \in Replayer, NEW phase \in Started, NEW from \in Nat,
         NEW last \in Nat, NEW next \in Nat, NEW t, NEW over \in BOOLEAN,
         Is(t, phase, replay[r].end, from, last, next), Flags(t, replay[r].dry, over),
         replay[r].phase \in Started,
         Update(r, t), dlq' = dlq, lock' = lock,
         from = replay[r].from \/ from = replayed,
         \/ next = replay[r].next /\ last = replay[r].last
         \/ next = replay[r].from /\ next <= last /\ last <= replay[r].end
         \/ /\ next = replay[r].next + 1 /\ last = replay[r].last
            /\ replay[r].next < replay[r].last
            /\ replay[r].dry \/ log' = Append(log, log[dlq[replay[r].next + 1] + 1]),
         replayed' = replayed \/ (~replay[r].dry /\ replayed' = replay[r].next)
  PROVE  ReplayMoves(r)
<1>1. t \in ReplayState /\ t.phase = phase /\ t.end = replay[r].end /\ t.from = from
      /\ t.last = last /\ t.next = next
      /\ t.dry = replay[r].dry
  BY DEF Is, Flags
<1>2. replay' \in [Replayer -> ReplayState] /\ replay'[r] = t
      /\ \A q \in Replayer \ {r} : replay'[q] = replay[q]
  BY <1>1, Updated
<1> QED BY <1>1, <1>2 DEF ReplayMoves, GoesOn

\* The fields of a replay.
LEMMA ReplayFields ==
  ASSUME TopicTypes, ReplayTypes, NEW r \in Replayer
  PROVE  /\ replay[r] \in ReplayState /\ replay[r].phase \in Phase
         /\ replay[r].end \in Nat /\ replay[r].from \in Nat /\ replay[r].last \in Nat
         /\ replay[r].next \in Nat /\ replay[r].over \in BOOLEAN
         /\ replayed \in Nat /\ Len(dlq) \in Nat
  BY Behind DEF ReplayTypes, ReplayState

\* A replay that joins its group.
LEMMA JoinMoves ==
  ASSUME TopicTypes, ReplayTypes, NEW r \in Replayer, JoinReplayGroup(r)
  PROVE  ReplayMoves(r)
<1> DEFINE s == replay[r]
           t == [s EXCEPT !.phase = "fetching", !.from = replayed]
<1>1. s \in ReplayState /\ replayed \in Nat  /\ s.next \in Nat /\ s.last \in Nat
      /\ s.over \in BOOLEAN /\ "fetching" \in Phase /\ "fetching" \in Started
  BY ReplayFields DEF Phase, Started
<1>2. Is(t, "fetching", s.end, replayed, s.last, s.next) /\ Flags(t, s.dry, s.over)
  BY <1>1, FromIs
<1>3. /\ Update(r, t) /\ s.phase \in Started /\ ~s.over
      /\ lock' = lock /\ replayed' = replayed /\ dlq' = dlq
  BY DEF JoinReplayGroup, Started, topics
<1> HIDE DEF t
<1> QED BY <1>1, <1>2, <1>3, GoesOnSo

\* A replay that fetches a batch.
LEMMA FetchMoves ==
  ASSUME TopicTypes, ReplayTypes, NEW r \in Replayer, FetchBatch(r)
  PROVE  ReplayMoves(r)
<1> DEFINE s == replay[r]
           fetched == IF s.from + BatchSize < Len(dlq) THEN s.from + BatchSize ELSE Len(dlq)
           last == IF fetched < s.end THEN fetched ELSE s.end
           t == [s EXCEPT !.phase = "batch", !.next = s.from, !.last = last]
<1>1. s \in ReplayState /\ s.from \in Nat /\ s.end \in Nat /\ Len(dlq) \in Nat
      /\ s.over \in BOOLEAN
      /\ "batch" \in Phase /\ "batch" \in Started
  BY ReplayFields DEF Phase, Started
<1>2. /\ Update(r, t) /\ s.phase \in Started /\ s.from < s.end
      /\ lock' = lock /\ replayed' = replayed /\ dlq' = dlq
  BY DEF FetchBatch, Started, topics
<1>3. last \in Nat /\ s.from <= last /\ last <= s.end
  BY <1>1, <1>2, LimitsAssumption DEF ReplayTypes
<1> HIDE DEF last
<1>4. Is(t, "batch", s.end, s.from, last, s.from) /\ Flags(t, s.dry, s.over)
  BY <1>1, <1>3, BatchIs
<1> HIDE DEF t
<1> QED BY <1>1, <1>2, <1>3, <1>4, GoesOnSo

\* A replay that resends a letter.
LEMMA ResendMoves ==
  ASSUME TopicTypes, ReplayTypes, NEW r \in Replayer, Resend(r)
  PROVE  ReplayMoves(r)
<1> DEFINE s == replay[r]
           done == [s EXCEPT !.next = @ + 1]
           stopped == [s EXCEPT !.phase = "committing", !.over = TRUE]
<1>1. /\ s \in ReplayState /\ s.from \in Nat /\ s.last \in Nat /\ s.next \in Nat
      /\ s.next + 1 \in Nat /\ s.over \in BOOLEAN
      /\ "committing" \in Phase /\ "committing" \in Started /\ "batch" \in Started
  BY ReplayFields DEF Phase, Started
<1>2. /\ s.phase = "batch" /\ s.next < s.last
      /\ lock' = lock /\ replayed' = replayed /\ dlq' = dlq
  BY DEF Resend
<1>3. CASE /\ Update(r, done)
           /\ s.dry \/ log' = Append(log, log[dlq[s.next + 1] + 1])
  <2>1. Is(done, "batch", s.end, s.from, s.last, s.next + 1) /\ Flags(done, s.dry, s.over)
    BY <1>1, <1>2, NextIs
  <2> HIDE DEF done
  <2> QED BY <1>1, <1>2, <1>3, <2>1, GoesOnSo
<1>4. CASE Update(r, stopped)
  <2>1. Is(stopped, "committing", s.end, s.from, s.last, s.next) /\ Flags(stopped, s.dry, TRUE)
    BY <1>1, OverIs
  <2> HIDE DEF stopped
  <2> QED BY <1>1, <1>2, <1>4, <2>1, GoesOnSo
<1>5. CASE Update(r, s)
  <2>1. Is(s, "batch", s.end, s.from, s.last, s.next) /\ Flags(s, s.dry, s.over)
    BY <1>1, <1>2 DEF Is, Flags
  <2> QED BY <1>1, <1>2, <1>5, <2>1, GoesOnSo
<1>6. \/ s.dry /\ Update(r, done)
      \/ log' = Append(log, log[dlq[s.next + 1] + 1]) /\ Update(r, done)
      \/ \E givesUp \in BOOLEAN : Update(r, IF givesUp THEN stopped ELSE s)
  BY DEF Resend
<1> QED BY <1>3, <1>4, <1>5, <1>6

\* A replay that commits what it has resent.
LEMMA CommitMoves ==
  ASSUME TopicTypes, ReplayTypes, NEW r \in Replayer, CommitReplayed(r)
  PROVE  ReplayMoves(r)
<1> DEFINE s == replay[r]
           refused == [s EXCEPT !.phase = "joining"]
           complete == s.over \/ s.next >= s.end
           through == [s EXCEPT !.phase = "fetching", !.over = complete]
<1>1. /\ s \in ReplayState /\ s.from \in Nat /\ s.last \in Nat /\ s.next \in Nat
      /\ complete \in BOOLEAN /\ s.over \in BOOLEAN /\ (s.over => complete)
      /\ "joining" \in Phase /\ "fetching" \in Phase
      /\ "joining" \in Started /\ "fetching" \in Started
  BY ReplayFields DEF Phase, Started
<1>2. s.phase \in Started /\ lock' = lock /\ dlq' = dlq
  BY DEF CommitReplayed, Started, topics
<1>3. CASE Update(r, through) /\ (replayed' = replayed \/ (~s.dry /\ replayed' = s.next))
  <2> HIDE DEF complete
  <2>1. Is(through, "fetching", s.end, s.from, s.last, s.next) /\ Flags(through, s.dry, complete)
    BY <1>1, OverIs
  <2> HIDE DEF through
  <2> QED BY <1>1, <1>2, <1>3, <2>1, GoesOnSo
<1>4. CASE Update(r, refused) /\ replayed' = replayed
  <2>1. Is(refused, "joining", s.end, s.from, s.last, s.next) /\ Flags(refused, s.dry, s.over)
    BY <1>1, PhaseIs
  <2> HIDE DEF refused
  <2> QED BY <1>1, <1>2, <1>4, <2>1, GoesOnSo
<1> HIDE DEF complete
<1>5. \/ Update(r, through) /\ (replayed' = replayed \/ (~s.dry /\ replayed' = s.next))
      \/ Update(r, refused) /\ replayed' = replayed
  BY DEF CommitReplayed, LastReplayed, complete
<1> QED BY <1>3, <1>4, <1>5

\* A replay that times out.
LEMMA TimeOutMoves ==
  ASSUME TopicTypes, ReplayTypes, NEW r \in Replayer, TimeOut(r)
  PROVE  ReplayMoves(r)
<1> DEFINE s == replay[r]
           t == [s EXCEPT !.over = TRUE]
<1>1. /\ s \in ReplayState /\ s.from \in Nat /\ s.last \in Nat /\ s.next \in Nat
      /\ s.phase \in Phase /\ s.phase \in Started
  BY ReplayFields DEF TimeOut, Started
<1>2. Is(t, s.phase, s.end, s.from, s.last, s.next) /\ Flags(t, s.dry, TRUE)
  BY <1>1, OverIs
<1>3. Update(r, t) /\ lock' = lock /\ replayed' = replayed /\ dlq' = dlq
  BY DEF TimeOut, topics
<1> HIDE DEF t
<1> QED BY <1>1, <1>2, <1>3, GoesOnSo

\* Every step moves one replay, frees the lock of one that is at its end, or touches none.
LEMMA OneReplay ==
  ASSUME TopicTypes, ReplayTypes, [Next]_vars
  PROVE  /\ \/ \E r \in Replayer : ReplayMoves(r)
            \/ /\ UNCHANGED <<replay, replayed>>
               /\ \/ lock' = lock
                  \/ \E r \in Replayer : LockExpires(r)
         /\ member' \in Replayer \union {None}
<1>1. CASE \E e \in Event : CallerStep(e) \/ CallerCrashes(e)
  BY <1>1 DEF CallerStep, CannotPublish, PublishEvent, HandleDirectly, CallerCrashes, replaying,
              ReplayTypes
<1>2. CASE \E c \in Consumer : \/ ConsumerStep(c) \/ GroupJoin(c) \/ AutoCommit(c)
                               \/ ConsumerCrashes(c)
  BY <1>2 DEF ConsumerStep, Deliver, ExecuteSucceeds, ExecuteFails, SendToDeadLetterQueue, Resume,
              GroupJoin, AutoCommit, ConsumerCrashes, replaying, ReplayTypes
<1>3. ASSUME NEW r \in Replayer, ReplayStep(r) \/ AcquireLock(r) \/ TimeOut(r) \/ ReplayCrashes(r)
      PROVE  ReplayMoves(r) /\ member' \in Replayer \union {None}
  <2>1. member' \in Replayer \union {None}
    BY <1>3 DEF ReplayStep, GetPendingRanges, JoinReplayGroup, FetchBatch, Resend, CommitReplayed,
                FinishReplay, AcquireLock, TimeOut, ReplayCrashes, Release, ReplayTypes
  <2>2. CASE FinishReplay(r)
    BY <1>3, <2>1, <2>2, ReplayEndsSo DEF FinishReplay, Release, topics
  <2>3. CASE ReplayCrashes(r)
    BY <1>3, <2>1, <2>3, ReplayEndsSo DEF ReplayCrashes
  <2> QED BY <1>3, <2>1, <2>2, <2>3, ReplayStarts, RangesMove, JoinMoves, FetchMoves, ResendMoves,
             CommitMoves, TimeOutMoves DEF ReplayStep
<1>4. CASE \E r \in Replayer : LockExpires(r)
  BY <1>4 DEF LockExpires, ReplayTypes
<1>5. CASE UNCHANGED vars
  BY <1>5 DEF vars, replaying, ReplayTypes
<1> QED BY <1>1, <1>2, <1>3, <1>4, <1>5 DEF Next

-----------------------------------------------------------------------------
(* The ranges of the replays.                                              *)

LEMMA ReplayTypesStep ==
  ASSUME TopicTypes, GroupTypes, ReplayTypes, [Next]_vars
  PROVE  ReplayTypes'
<1>1. Len(dlq) \in Nat /\ Len(dlq') \in Nat /\ Len(dlq) <= Len(dlq')
  BY Growth DEF Grown
<1>2. CASE UNCHANGED <<replay, replayed>> /\ lock' \in Replayer \union {None}
  <2>1. \A r \in Replayer : replay[r].end \in Nat /\ replay[r].from \in Nat
    BY ReplayFields
  <2>2. \A r \in Replayer : replay[r].end <= Len(dlq') /\ replay[r].from <= Len(dlq')
    BY <1>1, <2>1 DEF ReplayTypes
  <2>3. replayed \in 0 .. Len(dlq')
    BY <1>1 DEF ReplayTypes
  <2> QED BY <1>2, <2>2, <2>3, OneReplay DEF ReplayTypes
<1>3. ASSUME NEW r \in Replayer, ReplayMoves(r)
      PROVE  ReplayTypes'
  <2> DEFINE s == replay[r]
             t == replay'[r]
             Within(x) == x.next <= x.last /\ x.last <= x.end /\ x.end <= Len(dlq) /\ x.from <= Len(dlq)
  <2>1. /\ replay' \in [Replayer -> ReplayState] /\ dlq' = dlq
        /\ \A q \in Replayer \ {r} : replay'[q] = replay[q]
        /\ Starts(r) \/ Ends(r) \/ FixesEnd(r) \/ GoesOn(r)
    BY <1>3 DEF ReplayMoves
  <2>2. /\ s.end \in Nat /\ s.from \in Nat /\ s.last \in Nat /\ s.next \in Nat
        /\ Within(s) /\ replayed \in 0 .. Len(dlq) /\ lock \in Replayer \union {None}
    BY <1>3, ReplayFields DEF ReplayTypes
  <2>3. CASE Starts(r) \/ Ends(r)
    <3>1. Within(t)
      BY <1>1, <2>3 DEF Starts, Ends, Is
    <3>2. replayed' = replayed /\ lock' \in Replayer \union {None}
      BY <1>3, <2>2, <2>3 DEF Starts, Ends
    <3> QED BY <2>1, <2>2, <3>1, <3>2, OneReplay DEF ReplayTypes
  <2>4. CASE FixesEnd(r)
    <3>1. Within(t)
      BY <1>1, <2>2, <2>4 DEF FixesEnd, Is
    <3>2. replayed' = replayed /\ lock' = lock
      BY <2>4 DEF FixesEnd
    <3> QED BY <2>1, <2>2, <3>1, <3>2, OneReplay DEF ReplayTypes
  <2>5. CASE GoesOn(r)
    <3>1. Within(t)
      BY <1>1, <2>2, <2>5 DEF GoesOn
    <3>2. replayed' \in 0 .. Len(dlq) /\ lock' = lock
      BY <1>1, <2>2, <2>5 DEF GoesOn
    <3> QED BY <2>1, <2>2, <3>1, <3>2, OneReplay DEF ReplayTypes
  <2> QED BY <2>1, <2>3, <2>4, <2>5
<1> QED BY <1>2, <1>3, OneReplay DEF LockExpires, ReplayTypes

-----------------------------------------------------------------------------
(* The callers and the members.                                            *)

LEMMA SendTypes ==
  ASSUME CallerTypes, NEW s \in Sender,
         SendOk(s) \/ (\E givesUp \in BOOLEAN : SendFails(s, givesUp))
  PROVE  sends' \in [Sender -> 0 .. MaxSends - 1]
<1>1. sends \in [Sender -> 0 .. MaxSends - 1] /\ MaxSends \in Nat \ {0} /\ sends[s] \in Nat
  BY LimitsAssumption DEF CallerTypes
<1>2. 0 \in 0 .. MaxSends - 1 /\ (sends[s] + 1 < MaxSends => sends[s] + 1 \in 0 .. MaxSends - 1)
  BY <1>1
<1>3. CASE SendOk(s)
  BY <1>1, <1>2, <1>3 DEF SendOk
<1>4. ASSUME NEW givesUp \in BOOLEAN, SendFails(s, givesUp)
      PROVE  sends' \in [Sender -> 0 .. MaxSends - 1]
  <2> DEFINE n == IF givesUp THEN 0 ELSE sends[s] + 1
  <2>1. n \in 0 .. MaxSends - 1
    BY <1>1, <1>2, <1>4 DEF SendFails
  <2>2. sends' = [sends EXCEPT ![s] = n]
    BY <1>4 DEF SendFails
  <2> HIDE DEF n
  <2> QED BY <1>1, <2>1, <2>2
<1> QED BY <1>3, <1>4

\* Callers, handled events and counted failures keep their types.
LEMMA CallerTypesStep ==
  ASSUME TopicTypes, GroupTypes, CallerTypes, [Next]_vars
  PROVE  CallerTypes'
<1>1. ASSUME NEW e \in Event, CallerStep(e) \/ CallerCrashes(e)
      PROVE  CallerTypes'
  <2>1. e \in Sender
    BY <1>1 DEF Sender
  <2>2. sends' \in [Sender -> 0 .. MaxSends - 1]
    BY <1>1, <2>1, SendTypes DEF CallerStep, CannotPublish, PublishEvent, HandleDirectly, CallerCrashes,
                                 topics, CallerTypes
  <2>3. caller' \in [Event -> {"new", "sending", "published", "direct", "done"}]
    BY <1>1 DEF CallerStep, CannotPublish, PublishEvent, HandleDirectly, CallerCrashes, Reach,
                CallerTypes
  <2>4. handled' \subseteq Event
    BY <1>1 DEF CallerStep, CannotPublish, PublishEvent, HandleDirectly, CallerCrashes, CallerTypes
  <2> QED BY <2>2, <2>3, <2>4 DEF CallerTypes
<1>2. ASSUME NEW c \in Consumer,
             ConsumerStep(c) \/ GroupJoin(c) \/ AutoCommit(c) \/ ConsumerCrashes(c)
      PROVE  CallerTypes'
  <2>1. c \in Sender /\ 0 \in 0 .. MaxSends - 1
    BY <1>2, LimitsAssumption DEF Sender
  <2>2. sends' \in [Sender -> 0 .. MaxSends - 1]
    <3>1. CASE SendToDeadLetterQueue(c)
      BY <2>1, <3>1, SendTypes DEF SendToDeadLetterQueue
    <3>2. CASE ConsumerCrashes(c)
      BY <2>1, <3>2 DEF ConsumerCrashes, CallerTypes
    <3> QED BY <1>2, <3>1, <3>2 DEF ConsumerStep, Deliver, ExecuteSucceeds, ExecuteFails, Resume,
                                    GroupJoin, AutoCommit, topics, CallerTypes
  <2>3. caller' = caller
    BY <1>2 DEF ConsumerStep, Deliver, ExecuteSucceeds, ExecuteFails, SendToDeadLetterQueue, Resume,
                GroupJoin, AutoCommit, ConsumerCrashes
  <2>4. handled' \subseteq Event
    <3>1. CASE ExecuteSucceeds(c)
      <4>1. work[c] # "idle"
        BY <3>1 DEF ExecuteSucceeds
      <4>2. position[c] \in Nat /\ position[c] < Len(log)
        BY <1>2, <4>1, Behind DEF GroupTypes, Offset
      <4>3. log[position[c] + 1] \in Event
        BY <4>2, Behind
      <4> QED BY <3>1, <4>3 DEF ExecuteSucceeds, CallerTypes
    <3> QED BY <1>2, <3>1 DEF ConsumerStep, Deliver, ExecuteFails, SendToDeadLetterQueue, Resume,
                              GroupJoin, AutoCommit, ConsumerCrashes, CallerTypes
  <2> QED BY <2>2, <2>3, <2>4 DEF CallerTypes
<1>3. ASSUME NEW r \in Replayer,
             ReplayStep(r) \/ AcquireLock(r) \/ TimeOut(r) \/ LockExpires(r) \/ ReplayCrashes(r)
      PROVE  CallerTypes'
  <2>1. r \in Sender /\ 0 \in 0 .. MaxSends - 1
    BY <1>3, LimitsAssumption DEF Sender
  <2>2. sends' \in [Sender -> 0 .. MaxSends - 1]
    <3>1. CASE Resend(r)
      <4>1. SendOk(r) \/ (\E givesUp \in BOOLEAN : SendFails(r, givesUp)) \/ sends' = sends
        BY <3>1 DEF Resend
      <4> QED BY <2>1, <4>1, SendTypes DEF CallerTypes
    <3>2. CASE ReplayCrashes(r)
      BY <2>1, <3>2 DEF ReplayCrashes, CallerTypes
    <3> QED BY <1>3, <3>1, <3>2 DEF ReplayStep, GetPendingRanges, JoinReplayGroup, FetchBatch,
               CommitReplayed, FinishReplay, AcquireLock, TimeOut, LockExpires, topics, CallerTypes
  <2>3. caller' = caller /\ handled' = handled
    BY <1>3 DEF ReplayStep, GetPendingRanges, JoinReplayGroup, FetchBatch, Resend, CommitReplayed,
                FinishReplay, AcquireLock, TimeOut, LockExpires, ReplayCrashes
  <2> QED BY <2>2, <2>3 DEF CallerTypes
<1>4. CASE UNCHANGED vars
  BY <1>4 DEF vars, topics, CallerTypes
<1> QED BY <1>1, <1>2, <1>3, <1>4 DEF Next

\* What a member does to the group; nobody else does anything to it.
Resolves(c) == work[c] # "idle" /\ Resolve(c)
Retries(c) ==
    /\ work[c] # "idle" /\ Rethrow(c, Count(attempts[c], AttemptKey(c)) + 1)
    /\ UNCHANGED handled

\* The steps that move what the group has in hand.
LEMMA OneMember ==
  ASSUME [Next]_vars
  PROVE  \/ UNCHANGED <<group, failed>>
         \/ \E c \in Consumer :
               \/ GroupJoin(c) \/ Deliver(c) \/ AutoCommit(c) \/ ConsumerCrashes(c) \/ Resume(c)
               \/ ExecuteFails(c)
               \/ /\ Resolves(c) /\ failed' = failed
                  /\ \/ ExecuteSucceeds(c)
                     \/ dlq' = Append(dlq, position[c]) /\ log' = log
               \/ Retries(c) /\ failed' = failed /\ work[c] = "lettering"
<1>1. CASE \E e \in Event : CallerStep(e) \/ CallerCrashes(e)
  BY <1>1 DEF CallerStep, CannotPublish, PublishEvent, HandleDirectly, CallerCrashes
<1>2. CASE \E r \in Replayer : \/ ReplayStep(r) \/ AcquireLock(r) \/ TimeOut(r) \/ LockExpires(r)
                               \/ ReplayCrashes(r)
  BY <1>2 DEF ReplayStep, GetPendingRanges, JoinReplayGroup, FetchBatch, Resend, CommitReplayed,
              FinishReplay, AcquireLock, TimeOut, LockExpires, ReplayCrashes
<1>3. ASSUME NEW c \in Consumer, SendToDeadLetterQueue(c)
      PROVE  \/ UNCHANGED <<group, failed>>
             \/ Resolves(c) /\ failed' = failed /\ dlq' = Append(dlq, position[c]) /\ log' = log
             \/ Retries(c) /\ failed' = failed /\ work[c] = "lettering"
  <2>1. work[c] = "lettering" /\ UNCHANGED <<log, handled, failed>>
    BY <1>3 DEF SendToDeadLetterQueue
  <2>2. \/ dlq' = Append(dlq, position[c]) /\ Resolve(c)
        \/ LetterUnsent(c)
        \/ UNCHANGED group
    BY <1>3 DEF SendToDeadLetterQueue
  <2> QED BY <2>1, <2>2 DEF LetterUnsent, Resolves, Retries
<1>4. CASE \E c \in Consumer : ExecuteSucceeds(c)
  BY <1>4 DEF ExecuteSucceeds, Resolves
<1>5. CASE UNCHANGED vars
  BY <1>5 DEF vars
<1> QED BY <1>1, <1>2, <1>3, <1>4, <1>5 DEF Next, ConsumerStep

\* The place a member has reached, and the one after a message it is busy with.
LEMMA Places ==
  ASSUME TopicTypes, GroupTypes, NEW c \in Consumer
  PROVE  /\ position[c] \in Nat /\ position[c] <= Len(log) /\ position[c] \in Offset
         /\ Len(log) \in Nat
         /\ work[c] # "idle" => position[c] + 1 \in 1 .. Len(log) /\ position[c] + 1 \in Offset
  BY Behind DEF GroupTypes, Offset

\* The members keep their types.
LEMMA GroupTypesStep ==
  ASSUME TopicTypes, GroupTypes, ReplayTypes, [Next]_vars
  PROVE  GroupTypes'
<1>1. Len(log) \in Nat /\ Len(log') \in Nat /\ Len(log) <= Len(log') /\ Offset \subseteq Offset'
  BY Growth DEF Grown
<1>2. \A c \in Consumer : position[c] \in Nat
  BY Places
<1> DEFINE Busy == \A c \in Consumer : work'[c] # "idle" => position'[c] < Len(log')
<1>3. CASE UNCHANGED group
  BY <1>1, <1>2, <1>3 DEF group, GroupTypes
<1>4. ASSUME NEW c \in Consumer,
             \/ GroupJoin(c) \/ Deliver(c) \/ AutoCommit(c) \/ ConsumerCrashes(c) \/ Resume(c)
             \/ ExecuteFails(c) \/ Resolves(c) \/ Retries(c)
      PROVE  GroupTypes'
  <2>1. owner' \in Consumer \union {None}
    BY <1>4 DEF GroupTypes, GroupJoin, Deliver, AutoCommit, ConsumerCrashes, Resume, ExecuteFails,
                Resolves, Resolve, Retries, Rethrow
  <2>2. work' \in [Consumer -> {"idle", "executing", "lettering"}]
    BY <1>4 DEF GroupTypes, GroupJoin, Deliver, AutoCommit, ConsumerCrashes, Resume, ExecuteFails,
                Resolves, Resolve, Retries, Rethrow
  <2>3. paused' \subseteq Consumer /\ resolved' \subseteq Consumer
    BY <1>4 DEF GroupTypes, GroupJoin, Deliver, AutoCommit, ConsumerCrashes, Resume, ExecuteFails,
                Resolves, Resolve, Retries, Rethrow
  <2>4. CASE GroupJoin(c)
    <3> DEFINE p == IF committed = None THEN Len(log) ELSE committed
    <3>1. p \in Offset'
      BY <1>1 DEF GroupTypes, Offset
    <3>2. position' = [position EXCEPT ![c] = p] /\ work' = work /\ work[c] = "idle"
          /\ committed' = committed
      BY <2>4 DEF GroupJoin
    <3> HIDE DEF p
    <3>3. position' \in [Consumer -> Offset'] /\ committed' \in Offset' \union {None}
      BY <1>1, <3>1, <3>2 DEF GroupTypes
    <3>4. Busy
      BY <1>1, <1>2, <1>4, <3>2 DEF GroupTypes
    <3> QED BY <2>1, <2>2, <2>3, <3>3, <3>4 DEF GroupTypes
  <2>5. CASE Resolves(c)
    <3>1. position' = [position EXCEPT ![c] = position[c] + 1]
          /\ work' = [work EXCEPT ![c] = "idle"] /\ committed' = committed
      BY <2>5 DEF Resolves, Resolve
    <3>2. position[c] + 1 \in Offset
      BY <1>4, <2>5, Places DEF Resolves
    <3>3. position' \in [Consumer -> Offset'] /\ committed' \in Offset' \union {None}
      BY <1>1, <3>1, <3>2 DEF GroupTypes
    <3>4. Busy
      BY <1>1, <1>2, <1>4, <3>1 DEF GroupTypes
    <3> QED BY <2>1, <2>2, <2>3, <3>3, <3>4 DEF GroupTypes
  <2>6. CASE Deliver(c)
    <3>1. position' = position /\ work' = [work EXCEPT ![c] = "executing"] /\ committed' = committed
          /\ position[c] < Len(log)
      BY <2>6 DEF Deliver
    <3>2. Busy
      BY <1>1, <1>2, <1>4, <3>1 DEF GroupTypes
    <3> QED BY <1>1, <2>1, <2>2, <2>3, <3>1, <3>2 DEF GroupTypes
  <2>7. CASE ExecuteFails(c)
    <3>1. position' = position /\ committed' = committed /\ work[c] = "executing"
          /\ \A d \in Consumer : work'[d] # "idle" => work[d] # "idle"
      BY <2>7 DEF ExecuteFails, Rethrow, GroupTypes
    <3>2. Busy
      BY <1>1, <1>2, <3>1 DEF GroupTypes
    <3> QED BY <1>1, <2>1, <2>2, <2>3, <3>1, <3>2 DEF GroupTypes
  <2>8. CASE AutoCommit(c) \/ ConsumerCrashes(c) \/ Resume(c) \/ Retries(c)
    <3>1. /\ position' = position
          /\ committed' = committed \/ committed' = position[c]
          /\ \A d \in Consumer : work'[d] # "idle" => work[d] # "idle"
      BY <1>4, <2>8 DEF AutoCommit, ConsumerCrashes, Resume, Retries, Rethrow, GroupTypes
    <3>2. Busy
      BY <1>1, <1>2, <3>1 DEF GroupTypes
    <3>3. committed' \in Offset' \union {None}
      BY <1>1, <1>4, <3>1, Places DEF GroupTypes
    <3> QED BY <1>1, <2>1, <2>2, <2>3, <3>1, <3>2, <3>3 DEF GroupTypes
  <2> QED BY <1>4, <2>4, <2>5, <2>6, <2>7, <2>8
<1> QED BY <1>3, <1>4, OneMember

-----------------------------------------------------------------------------
(* The counts of failures.                                                 *)

LEMMA CountIsNat ==
  ASSUME NEW f, Counts(f), NEW o
  PROVE  Count(f, o) \in Nat
  BY DEF Counts, Count

\* Counting a failure changes the count of one message.
LEMMA CountGrows ==
  ASSUME NEW f, Counts(f), NEW o \in Offset, NEW n \in Nat, NEW g, g = Counted(f, o, n)
  PROVE  Counts(g) /\ \A x \in Nat : Count(g, x) = IF x = o THEN n ELSE Count(f, x)
  BY DEF Counts, Counted, Count

\* Forgetting the failures of a message changes its count only.
LEMMA CountClears ==
  ASSUME NEW f, Counts(f), NEW o \in Offset, NEW g, g = Cleared(f, o)
  PROVE  Counts(g) /\ \A x \in Nat : Count(g, x) = IF x = o THEN 0 ELSE Count(f, x)
  BY DEF Counts, Cleared, Count

\* A member that has just started counts no failures.
LEMMA NothingCounted == Counts(<<>>) /\ \A o : Count(<<>>, o) = 0
<1>1. DOMAIN <<>> = {}
  OBVIOUS
<1> QED BY <1>1 DEF Counts, Count

\* What a step does to the counts: one member fails, rethrows, resolves or loses its memory.
Fails(c) ==
    /\ work[c] = "executing"
    /\ failed' = Counted(failed, position[c], Count(failed, position[c]) + 1)

CountsMove(c) ==
    \/ failed' = failed /\ attempts' = [attempts EXCEPT ![c] = <<>>]
    \/ failed' = failed /\ attempts' = [attempts EXCEPT ![c] = Cleared(attempts[c], position[c])]
    \/ /\ (failed' = failed /\ work[c] = "lettering") \/ Fails(c)
       /\ attempts' = [attempts EXCEPT ![c] = Counted(attempts[c], position[c],
                                                      Count(attempts[c], position[c]) + 1)]
    \/ Fails(c) /\ attempts' = attempts

\* Every step moves the counts of at most one member.
LEMMA OneCount ==
  ASSUME [Next]_vars
  PROVE  UNCHANGED <<attempts, failed>> \/ \E c \in Consumer : CountsMove(c)
<1>1. CASE UNCHANGED <<group, failed>>
  BY <1>1 DEF group
<1>2. ASSUME NEW c \in Consumer, GroupJoin(c) \/ Deliver(c) \/ AutoCommit(c) \/ Resume(c)
      PROVE  UNCHANGED <<attempts, failed>>
  BY <1>2 DEF GroupJoin, Deliver, AutoCommit, Resume
<1>3. ASSUME NEW c \in Consumer,
             \/ ConsumerCrashes(c) \/ ExecuteFails(c) \/ (Resolves(c) /\ failed' = failed)
             \/ (Retries(c) /\ failed' = failed /\ work[c] = "lettering")
      PROVE  CountsMove(c)
  BY <1>3 DEF ConsumerCrashes, ExecuteFails, Resolves, Resolve, Retries, Rethrow, AttemptKey,
              CountsMove, Fails
<1> QED BY <1>1, <1>2, <1>3, OneMember

\* The counts of one member change to counts that no more than match the failures.
LEMMA OneCounts ==
  ASSUME TopicTypes, GroupTypes, CountTypes, LettersInv, NEW c \in Consumer, CountsMove(c)
  PROVE  /\ CountTypes /\ Counts(failed')
         /\ \A o \in Nat : Count(failed, o) \in Nat /\ Count(failed', o) \in Nat
                           /\ Count(failed, o) <= Count(failed', o)
         /\ DOMAIN attempts' = Consumer /\ \A d \in Consumer \ {c} : attempts'[d] = attempts[d]
         /\ Counts(attempts'[c])
         /\ \A o \in Nat : Count(attempts'[c], o) <= Count(failed', o)
<1> DEFINE p == position[c]
           a == attempts[c]
<1>1. p \in Offset /\ p \in Nat
  BY Places
<1>2. Counts(a) /\ Counts(failed) /\ DOMAIN attempts = Consumer
  BY DEF CountTypes
<1>3. \A o \in Nat : Count(a, o) \in Nat /\ Count(failed, o) \in Nat /\ Count(a, o) <= Count(failed, o)
  BY <1>1, <1>2, CountIsNat DEF LettersInv
<1> DEFINE more == Counted(failed, p, Count(failed, p) + 1)
           tried == Counted(a, p, Count(a, p) + 1)
           spared == Cleared(a, p)
<1>4. /\ Counts(more)
      /\ \A o \in Nat : Count(more, o) = IF o = p THEN Count(failed, p) + 1 ELSE Count(failed, o)
  <2>1. Count(failed, p) + 1 \in Nat
    BY <1>1, <1>3
  <2> QED BY <1>1, <1>2, <2>1, CountGrows
<1>5. /\ Counts(tried)
      /\ \A o \in Nat : Count(tried, o) = IF o = p THEN Count(a, p) + 1 ELSE Count(a, o)
  <2>1. Count(a, p) + 1 \in Nat
    BY <1>1, <1>3
  <2> QED BY <1>1, <1>2, <2>1, CountGrows
<1>6. /\ Counts(spared)
      /\ \A o \in Nat : Count(spared, o) = IF o = p THEN 0 ELSE Count(a, o)
  BY <1>1, <1>2, CountClears
<1>7. \/ failed' = failed /\ attempts' = [attempts EXCEPT ![c] = <<>>]
      \/ failed' = failed /\ attempts' = [attempts EXCEPT ![c] = spared]
      \/ failed' = failed /\ work[c] = "lettering" /\ attempts' = [attempts EXCEPT ![c] = tried]
      \/ failed' = more /\ attempts' = [attempts EXCEPT ![c] = tried]
      \/ failed' = more /\ attempts' = attempts
  BY DEF CountsMove, Fails
<1>8. work[c] = "lettering" => Count(a, p) + 1 <= Count(failed, p)
  BY DEF LettersInv
<1> HIDE DEF more, tried, spared
<1>9. Counts(failed') /\ \A o \in Nat : Count(failed', o) \in Nat /\ Count(failed, o) <= Count(failed', o)
  <2>1. \A o \in Nat : Count(more, o) \in Nat /\ Count(failed, o) <= Count(more, o)
    BY <1>1, <1>3, <1>4
  <2>2. CASE failed' = failed
    <3>1. \A o \in Nat : Count(failed, o) <= Count(failed, o)
      BY <1>3
    <3> QED BY <1>2, <1>3, <2>2, <3>1
  <2>3. CASE failed' = more
    BY <1>4, <2>1, <2>3
  <2> QED BY <1>7, <2>2, <2>3
<1>10. DOMAIN attempts' = Consumer /\ \A d \in Consumer \ {c} : attempts'[d] = attempts[d]
  BY <1>2, <1>7
<1>11. Counts(attempts'[c]) /\ \A o \in Nat : Count(attempts'[c], o) <= Count(failed', o)
  <2>1. CASE failed' = failed /\ attempts'[c] = <<>>
    BY <1>3, <2>1, NothingCounted
  <2>2. CASE failed' = failed /\ attempts'[c] = spared
    BY <1>1, <1>3, <1>6, <2>2
  <2>3. CASE failed' = failed /\ work[c] = "lettering" /\ attempts'[c] = tried
    <3>1. \A o \in Nat : Count(tried, o) <= Count(failed, o)
      BY <1>1, <1>3, <1>5, <1>8, <2>3
    <3> QED BY <1>5, <2>3, <3>1
  <2>4. CASE failed' = more /\ attempts'[c] = tried
    <3>1. \A o \in Nat : Count(tried, o) <= Count(more, o)
      BY <1>1, <1>3, <1>4, <1>5
    <3> QED BY <1>5, <2>4, <3>1
  <2>5. CASE failed' = more /\ attempts'[c] = a
    <3>1. \A o \in Nat : Count(a, o) <= Count(more, o)
      BY <1>1, <1>3, <1>4
    <3> QED BY <1>2, <2>5, <3>1
  <2> QED BY <1>2, <1>7, <2>1, <2>2, <2>3, <2>4, <2>5
<1> QED BY <1>3, <1>9, <1>10, <1>11

\* Counts stay counts, and no member counts more failures than there were.
LEMMA CountTypesStep ==
  ASSUME TopicTypes, GroupTypes, ReplayTypes, CountTypes, LettersInv, [Next]_vars
  PROVE  /\ CountTypes'
         /\ \A o \in Nat : Count(failed, o) \in Nat /\ Count(failed', o) \in Nat
                           /\ Count(failed, o) <= Count(failed', o)
         /\ \A c \in Consumer : \A o \in Nat : Count(attempts'[c], o) <= Count(failed', o)
<1>1. Offset \subseteq Offset'
  BY Growth DEF Grown
<1>2. \A f : Counts(f) => (DOMAIN f \subseteq Offset' /\ \A o \in DOMAIN f : f[o] \in Nat)
  BY <1>1 DEF Counts
<1>3. \A o \in Nat : Count(failed, o) \in Nat
  BY CountIsNat DEF CountTypes
<1>4. CASE UNCHANGED <<attempts, failed>>
  <2>1. CountTypes'
    BY <1>2, <1>4 DEF CountTypes, Counts
  <2>2. \A o \in Nat : Count(failed', o) \in Nat /\ Count(failed, o) <= Count(failed', o)
    BY <1>3, <1>4
  <2> QED BY <1>3, <1>4, <2>1, <2>2 DEF LettersInv
<1>5. ASSUME NEW c \in Consumer, CountsMove(c)
      PROVE  /\ CountTypes'
             /\ \A o \in Nat : Count(failed', o) \in Nat /\ Count(failed, o) <= Count(failed', o)
             /\ \A d \in Consumer : \A o \in Nat : Count(attempts'[d], o) <= Count(failed', o)
  <2>1. /\ Counts(failed') /\ Counts(attempts'[c]) /\ DOMAIN attempts' = Consumer
        /\ \A d \in Consumer \ {c} : attempts'[d] = attempts[d]
        /\ \A o \in Nat : Count(failed', o) \in Nat /\ Count(failed, o) <= Count(failed', o)
        /\ \A o \in Nat : Count(attempts'[c], o) <= Count(failed', o)
    BY <1>5, OneCounts
  <2>2. \A d \in Consumer : Counts(attempts'[d])
    BY <2>1 DEF CountTypes
  <2>3. CountTypes'
    BY <1>2, <2>1, <2>2 DEF CountTypes, Counts
  <2>4. ASSUME NEW d \in Consumer, NEW o \in Nat
        PROVE  Count(attempts'[d], o) <= Count(failed', o)
    <3>1. CASE d = c
      BY <2>1, <3>1
    <3>2. CASE d # c
      <4>1. attempts'[d] = attempts[d] /\ Count(attempts[d], o) <= Count(failed, o)
        BY <2>1, <2>4, <3>2 DEF LettersInv
      <4>2. Count(attempts[d], o) \in Nat
        BY <2>4, CountIsNat DEF CountTypes
      <4> QED BY <1>3, <2>1, <2>4, <4>1, <4>2
    <3> QED BY <3>1, <3>2
  <2> QED BY <2>1, <2>3, <2>4
<1> QED BY <1>3, <1>4, <1>5, OneCount

\* LettersInv is inductive: a letter is written after MaxTries failures.
LEMMA LettersStep ==
  ASSUME TopicTypes, GroupTypes, ReplayTypes, CountTypes, LettersInv, [Next]_vars
  PROVE  LettersInv'
<1> DEFINE due(c) == /\ Count(attempts[c], position[c]) + 1 <= Count(failed, position[c])
                     /\ MaxTries <= Count(failed, position[c])
<1>1. MaxTries \in Nat
  BY LimitsAssumption
<1>2. /\ \A o \in Nat : Count(failed, o) \in Nat /\ Count(failed', o) \in Nat
                        /\ Count(failed, o) <= Count(failed', o)
      /\ \A c \in Consumer : \A o \in Nat : Count(attempts'[c], o) <= Count(failed', o)
  BY CountTypesStep
<1>3. \A c \in Consumer : position[c] \in Nat
  BY Places
<1>4. \A c \in Consumer : work[c] = "lettering" => due(c)
  BY DEF LettersInv
<1>5. \A c \in Consumer : Count(attempts[c], position[c]) \in Nat
  BY CountIsNat DEF CountTypes
<1>8. ASSUME NEW o \in Nat, Count(failed, o) >= MaxTries PROVE Count(failed', o) >= MaxTries
  <2> DEFINE n == Count(failed, o)
             m == Count(failed', o)
  <2>1. n \in Nat /\ m \in Nat /\ n <= m
    BY <1>2, <1>8
  <2>2. n >= MaxTries
    BY <1>8
  <2> HIDE DEF n, m
  <2>3. m >= MaxTries
    BY <1>1, <2>1, <2>2
  <2> QED BY <2>3 DEF m
\* What is a letter stays one, and a new letter is a message given up.
<1>6. LettersEarned'
  <2>1. ASSUME NEW j \in 1 .. Len(dlq) PROVE Count(failed', dlq[j]) >= MaxTries
    <3>1. dlq[j] \in Nat
      BY <2>1, Behind
    <3>2. Count(failed, dlq[j]) >= MaxTries
      BY <2>1, LenProperties DEF LettersInv, LettersEarned, TopicTypes
    <3> QED BY <1>8, <3>1, <3>2
  <2>2. CASE dlq' = dlq
    <3>1. DOMAIN dlq = 1 .. Len(dlq)
      BY LenProperties DEF TopicTypes
    <3> QED BY <2>1, <2>2, <3>1 DEF LettersEarned
  <2>3. ASSUME NEW c \in Consumer, work[c] = "lettering", dlq' = Append(dlq, position[c])
        PROVE  LettersEarned'
    <3>1. /\ DOMAIN dlq' = 1 .. Len(dlq) + 1 /\ Len(dlq) \in Nat
          /\ \A j \in 1 .. Len(dlq) : dlq'[j] = dlq[j]
          /\ dlq'[Len(dlq) + 1] = position[c]
      BY <1>3, <2>3, Appended DEF TopicTypes
    <3>2. Count(failed', position[c]) >= MaxTries
      <4>1. Count(failed, position[c]) \in Nat /\ MaxTries <= Count(failed, position[c])
        BY <1>2, <1>3, <1>4, <2>3
      <4>2. Count(failed, position[c]) >= MaxTries
        BY <1>1, <4>1
      <4> QED BY <1>3, <1>8, <2>3, <4>2
    <3>3. ASSUME NEW j \in DOMAIN dlq' PROVE Count(failed', dlq'[j]) >= MaxTries
      <4>1. CASE j = Len(dlq) + 1
        BY <3>1, <3>2, <4>1
      <4>2. CASE j \in 1 .. Len(dlq)
        BY <2>1, <3>1, <4>2
      <4> QED BY <3>1, <3>3, <4>1, <4>2
    <3> QED BY <3>3 DEF LettersEarned
  <2> QED BY <2>2, <2>3, OneStored
\* A member that goes on to give a message up has just failed once more.
<1>7. ASSUME NEW d \in Consumer, work'[d] = "lettering" PROVE due(d)'
  <2>1. CASE work[d] = "lettering" /\ position'[d] = position[d] /\ attempts'[d] = attempts[d]
    BY <1>1, <1>2, <1>3, <1>4, <1>5, <1>7, <2>1
  <2>2. CASE ExecuteFails(d)
    <3> DEFINE p == position[d]
               n == Count(attempts[d], p)
               f == Count(failed, p)
    <3>1. /\ \/ position' = position /\ attempts' = attempts /\ n + 1 >= MaxTries
             \/ work' = [work EXCEPT ![d] = "idle"]
          /\ failed' = Counted(failed, p, f + 1)
      BY <2>2 DEF ExecuteFails, Rethrow, AttemptKey
    <3>2. work'[d] = "lettering" /\ (work' = [work EXCEPT ![d] = "idle"] => work'[d] = "idle")
      BY <1>7 DEF GroupTypes
    <3>3. position' = position /\ attempts' = attempts /\ n + 1 >= MaxTries
      BY <3>1, <3>2
    <3>4. n \in Nat /\ f \in Nat /\ n <= f /\ p \in Offset /\ p \in Nat
      BY <1>2, <1>3, <1>5, <1>7, Places DEF LettersInv
    <3>5. Count(failed', p) = f + 1
      <4>1. f + 1 \in Nat /\ Counts(failed)
        BY <3>4 DEF CountTypes
      <4> QED BY <3>1, <3>4, <4>1, CountGrows
    <3> QED BY <1>1, <3>3, <3>4, <3>5
  <2>3. \/ work[d] = "lettering" /\ position'[d] = position[d] /\ attempts'[d] = attempts[d]
        \/ ExecuteFails(d)
    <3>1. CASE UNCHANGED <<group, failed>>
      BY <1>7, <3>1 DEF group
    <3>2. ASSUME NEW c \in Consumer, c # d,
                 \/ GroupJoin(c) \/ Deliver(c) \/ AutoCommit(c) \/ ConsumerCrashes(c) \/ Resume(c)
                 \/ ExecuteFails(c) \/ Resolves(c) \/ Retries(c)
          PROVE  work'[d] = work[d] /\ position'[d] = position[d] /\ attempts'[d] = attempts[d]
      BY <1>7, <3>2 DEF GroupTypes, CountTypes, GroupJoin, Deliver, AutoCommit, ConsumerCrashes,
                        Resume, ExecuteFails, Resolves, Resolve, Retries, Rethrow
    <3>3. CASE GroupJoin(d) \/ Deliver(d) \/ ConsumerCrashes(d) \/ Resolves(d) \/ Retries(d)
      <4>1. work'[d] # "lettering"
        BY <1>7, <3>3 DEF GroupTypes, GroupJoin, Deliver, ConsumerCrashes, Resolves, Resolve,
                          Retries, Rethrow
      <4> QED BY <1>7, <4>1
    <3>4. CASE AutoCommit(d) \/ Resume(d)
      BY <1>7, <3>4 DEF AutoCommit, Resume
    <3> QED BY <1>7, <3>1, <3>2, <3>3, <3>4, OneMember
  <2> QED BY <2>1, <2>2, <2>3
<1> QED BY <1>2, <1>6, <1>7 DEF LettersInv

-----------------------------------------------------------------------------
(* Nothing is lost.                                                        *)

\* What is sound from two places stays so, whatever happens.
LEMMA Carried ==
  ASSUME TopicTypes, GroupTypes, ReplayTypes, [Next]_vars, NEW p \in 0 .. Len(log), NEW q \in Nat,
         Sound(log, dlq, handled, p, q)
  PROVE  Sound(log', dlq', handled', p, q)
<1>1. /\ Len(log) \in Nat /\ Len(log') \in Nat /\ Len(log) <= Len(log')
      /\ Len(dlq) \in Nat /\ Len(dlq') \in Nat /\ Len(dlq) <= Len(dlq')
      /\ \A i \in 1 .. Len(log) : log'[i] = log[i]
      /\ \A j \in 1 .. Len(dlq) : dlq'[j] = dlq[j]
      /\ handled \subseteq handled'
  BY Growth, OneStored DEF Grown
<1>2. ASSUME NEW e, Kept(log, dlq, handled, e, p, q) PROVE Kept(log', dlq', handled', e, p, q)
  <2>1. CASE e \in handled
    BY <1>1, <2>1 DEF Kept
  <2>2. ASSUME NEW k \in 1 .. Len(log), k > p, log[k] = e
        PROVE  Kept(log', dlq', handled', e, p, q)
    <3>1. k \in 1 .. Len(log') /\ log'[k] = e
      BY <1>1, <2>2
    <3> QED BY <2>2, <3>1 DEF Kept
  <2>3. ASSUME NEW j \in 1 .. Len(dlq), j > q, log[dlq[j] + 1] = e
        PROVE  Kept(log', dlq', handled', e, p, q)
    <3>1. j \in 1 .. Len(dlq') /\ dlq'[j] = dlq[j]
      BY <1>1, <2>3
    <3>2. dlq[j] + 1 \in 1 .. Len(log)
      BY <2>3, Behind
    <3>3. log'[dlq'[j] + 1] = e
      BY <1>1, <2>3, <3>1, <3>2
    <3> QED BY <2>3, <3>1, <3>3 DEF Kept
  <2> QED BY <1>2, <2>1, <2>2, <2>3 DEF Kept
<1>3. ASSUME NEW i \in 1 .. Len(log') PROVE Kept(log', dlq', handled', log'[i], p, q)
  <2>1. CASE i \in 1 .. Len(log)
    <3>1. Kept(log, dlq, handled, log[i], p, q)
      BY <2>1 DEF Sound
    <3>2. log'[i] = log[i]
      BY <1>1, <2>1
    <3> QED BY <1>2, <3>1, <3>2
  <2>2. CASE i > Len(log)
    <3>1. i > p
      BY <1>1, <1>3, <2>2
    <3> QED BY <1>3, <3>1 DEF Kept
  <2> QED BY <1>1, <1>3, <2>1, <2>2
<1> QED BY <1>3 DEF Sound

\* A member may go past a message that is handled or has become the last letter.
LEMMA PastMessage ==
  ASSUME NEW l, NEW d, NEW h, NEW p \in Nat, NEW q \in Nat, Len(l) \in Nat, Len(d) \in Nat,
         Sound(l, d, h, p, q),
         \/ l[p + 1] \in h
         \/ \E j \in 1 .. Len(d) : j > q /\ d[j] = p
  PROVE  Sound(l, d, h, p + 1, q)
<1>1. ASSUME NEW e, Kept(l, d, h, e, p, q) PROVE Kept(l, d, h, e, p + 1, q)
  <2>1. ASSUME NEW k \in 1 .. Len(l), k > p, l[k] = e PROVE Kept(l, d, h, e, p + 1, q)
    <3>1. CASE k = p + 1
      BY <2>1, <3>1 DEF Kept
    <3>2. CASE k > p + 1
      BY <2>1, <3>2 DEF Kept
    <3> QED BY <2>1, <3>1, <3>2
  <2> QED BY <1>1, <2>1 DEF Kept
<1> QED BY <1>1 DEF Sound

\* A replay may go past a letter whose event is in the topic ahead of all readers.
LEMMA PastLetter ==
  ASSUME NEW l, NEW d, NEW h, NEW p \in Nat, NEW q \in Nat, Len(l) \in Nat, Len(d) \in Nat,
         Sound(l, d, h, p, q),
         \E k \in 1 .. Len(l) : k > p /\ l[k] = l[d[q + 1] + 1]
  PROVE  Sound(l, d, h, p, q + 1)
<1>1. ASSUME NEW e, Kept(l, d, h, e, p, q) PROVE Kept(l, d, h, e, p, q + 1)
  <2>1. ASSUME NEW j \in 1 .. Len(d), j > q, l[d[j] + 1] = e PROVE Kept(l, d, h, e, p, q + 1)
    <3>1. CASE j = q + 1
      BY <2>1, <3>1 DEF Kept
    <3>2. CASE j > q + 1
      BY <2>1, <3>2 DEF Kept
    <3> QED BY <2>1, <3>1, <3>2
  <2> QED BY <1>1, <2>1 DEF Kept
<1> QED BY <1>1 DEF Sound

\* The places lie within the topics.
LEMMA PlacesLie ==
  ASSUME TopicTypes, GroupTypes, ReplayTypes
  PROVE  /\ committed # None => Readers \subseteq 0 .. Len(log)
         /\ Cursors \subseteq 0 .. Len(dlq)
         /\ Len(log) \in Nat /\ Len(dlq) \in Nat
<1>1. committed # None => Readers \subseteq 0 .. Len(log)
  BY DEF Readers, GroupTypes, Offset
<1>2. ASSUME NEW r \in Replayer
      PROVE  replay[r].from \in 0 .. Len(dlq) /\ replay[r].next \in 0 .. Len(dlq)
  <2>1. /\ replay[r].end \in Nat /\ replay[r].from \in Nat /\ replay[r].last \in Nat
        /\ replay[r].next \in Nat /\ Len(dlq) \in Nat
    BY <1>2, ReplayFields
  <2> QED BY <1>2, <2>1 DEF ReplayTypes
<1>3. 0 \in 0 .. Len(dlq) /\ replayed \in 0 .. Len(dlq)
  BY Behind DEF ReplayTypes
<1> QED BY <1>1, <1>2, <1>3, Behind DEF Cursors

\* Who commits or joins takes up a place where a member was; who resolves goes one further.
LEMMA ReadersMove ==
  ASSUME TopicTypes, GroupTypes, committed # None, [Next]_vars
  PROVE  /\ committed' # None
         /\ \/ Readers' \subseteq Readers
            \/ \E c \in Consumer :
                  /\ work[c] # "idle" /\ Readers' \subseteq Readers \union {position[c] + 1}
                  /\ \/ log[position[c] + 1] \in handled' /\ log' = log
                     \/ dlq' = Append(dlq, position[c]) /\ log' = log
<1>1. None \notin Offset /\ None \notin Nat /\ \A c \in Consumer : position[c] \in Nat
  BY GroupAssumption, Places DEF Offset
<1>2. position \in [Consumer -> Offset]
  BY DEF GroupTypes
<1>3. CASE UNCHANGED group
  BY <1>3 DEF group, Readers
<1>4. ASSUME NEW c \in Consumer, AutoCommit(c) \/ ConsumerCrashes(c) \/ Resume(c) \/ Deliver(c)
                                 \/ ExecuteFails(c) \/ Retries(c)
      PROVE  committed' # None /\ Readers' \subseteq Readers
  <2>1. position' = position /\ (committed' = committed \/ committed' = position[c])
    BY <1>4 DEF AutoCommit, ConsumerCrashes, Resume, Deliver, ExecuteFails, Retries, Rethrow
  <2> QED BY <1>1, <1>4, <2>1 DEF Readers
<1>5. ASSUME NEW c \in Consumer, GroupJoin(c)
      PROVE  committed' # None /\ Readers' \subseteq Readers
  <2>1. position' = [position EXCEPT ![c] = committed] /\ committed' = committed
    BY <1>5 DEF GroupJoin
  <2> QED BY <1>2, <2>1 DEF Readers
<1>6. ASSUME NEW c \in Consumer, Resolves(c)
      PROVE  committed' # None /\ Readers' \subseteq Readers \union {position[c] + 1}
  <2>1. position' = [position EXCEPT ![c] = position[c] + 1] /\ committed' = committed
    BY <1>6 DEF Resolves, Resolve
  <2> QED BY <1>2, <2>1 DEF Readers
<1>7. ASSUME NEW c \in Consumer, ExecuteSucceeds(c)
      PROVE  log[position[c] + 1] \in handled' /\ log' = log
  BY <1>7 DEF ExecuteSucceeds, topics
<1> QED BY <1>3, <1>4, <1>5, <1>6, <1>7, OneMember DEF Resolves

\* Who joins the replay group or commits takes up a place where a replay was; who sends a
\* letter back goes one further.
LEMMA CursorsMove ==
  ASSUME TopicTypes, ReplayTypes, [Next]_vars
  PROVE  \/ Cursors' \subseteq Cursors
         \/ \E r \in Replayer :
               LET n == replay[r].next
               IN /\ n \in Cursors /\ n < Len(dlq) /\ dlq' = dlq
                  /\ log' = Append(log, log[dlq[n + 1] + 1])
                  /\ Cursors' \subseteq Cursors \union {n + 1}
<1>1. CASE UNCHANGED <<replay, replayed>>
  BY <1>1 DEF Cursors
<1>2. ASSUME NEW r \in Replayer, ReplayMoves(r)
      PROVE  \/ Cursors' \subseteq Cursors
             \/ LET n == replay[r].next
                IN /\ n \in Cursors /\ n < Len(dlq) /\ dlq' = dlq
                   /\ log' = Append(log, log[dlq[n + 1] + 1])
                   /\ Cursors' \subseteq Cursors \union {n + 1}
  <2> DEFINE s == replay[r]
             t == replay'[r]
  <2>1. dlq' = dlq /\ (\A q \in Replayer \ {r} : replay'[q] = replay[q])
        /\ (Starts(r) \/ Ends(r) \/ FixesEnd(r) \/ GoesOn(r))
    BY <1>2 DEF ReplayMoves
  <2>2. s.from \in Cursors /\ (~s.dry => s.next \in Cursors) /\ replayed \in Cursors /\ 0 \in Cursors
    BY <1>2 DEF Cursors
  <2>3. ASSUME NEW C, Cursors \subseteq C, replayed' \in C, t.from \in C, ~t.dry => t.next \in C
        PROVE  Cursors' \subseteq C
    <3>1. \A q \in Replayer : /\ replay'[q].from \in C
                              /\ ~replay'[q].dry => replay'[q].next \in C
      BY <2>1, <2>3 DEF Cursors
    <3> QED BY <2>2, <2>3, <3>1 DEF Cursors
  <2>4. CASE Starts(r) \/ Ends(r)
    <3>1. replayed' \in Cursors /\ t.from \in Cursors /\ t.next \in Cursors
      BY <2>2, <2>4 DEF Starts, Ends, Is
    <3> QED BY <2>3, <3>1
  <2>5. CASE FixesEnd(r)
    <3>1. replayed' \in Cursors /\ t.from \in Cursors /\ (~t.dry => t.next \in Cursors)
      BY <2>2, <2>5 DEF FixesEnd, Is
    <3> QED BY <2>3, <3>1
  <2>6. CASE GoesOn(r)
    <3>1. /\ replayed' \in Cursors /\ t.from \in Cursors /\ t.dry = s.dry
          /\ \/ t.next = s.next \/ t.next = s.from
             \/ /\ t.next = s.next + 1 /\ s.next < s.last
                /\ s.dry \/ log' = Append(log, log[dlq[s.next + 1] + 1])
      BY <2>2, <2>6 DEF GoesOn
    <3>2. CASE t.next = s.next \/ t.next = s.from \/ s.dry
      <4>1. ~t.dry => t.next \in Cursors
        BY <2>2, <3>1, <3>2
      <4> QED BY <2>3, <3>1, <4>1
    <3>3. CASE ~s.dry /\ t.next = s.next + 1 /\ s.next < s.last
               /\ log' = Append(log, log[dlq[s.next + 1] + 1])
      <4>1. s.next < Len(dlq)
        <5>1. s.next \in Nat /\ s.last \in Nat /\ s.end \in Nat /\ Len(dlq) \in Nat
          BY <1>2, ReplayFields
        <5> QED BY <1>2, <3>3, <5>1 DEF ReplayTypes
      <4> DEFINE C == Cursors \union {s.next + 1}
      <4>2. Cursors \subseteq C /\ replayed' \in C /\ t.from \in C /\ t.next \in C
        BY <3>1, <3>3
      <4> HIDE DEF C
      <4>3. Cursors' \subseteq C
        BY <2>3, <4>2
      <4> QED BY <2>1, <2>2, <3>3, <4>1, <4>3 DEF C
    <3> QED BY <3>1, <3>2, <3>3
  <2> QED BY <2>1, <2>4, <2>5, <2>6
<1> QED BY <1>1, <1>2, OneReplay

\* KeptInv is inductive: what is committed has been handled or parked.
LEMMA KeptStep ==
  ASSUME TopicTypes, GroupTypes, ReplayTypes, KeptInv, [Next]_vars
  PROVE  KeptInv'
<1> SUFFICES ASSUME FirstCommit = 0
             PROVE  committed' # None
                    /\ \A p \in Readers', q \in Cursors' : Sound(log', dlq', handled', p, q)
  BY DEF KeptInv
<1>1. committed # None /\ \A p \in Readers, q \in Cursors : Sound(log, dlq, handled, p, q)
  BY DEF KeptInv
<1>2. Readers \subseteq 0 .. Len(log) /\ Cursors \subseteq 0 .. Len(dlq)
      /\ Len(log) \in Nat /\ Len(dlq) \in Nat
  BY <1>1, PlacesLie
<1>3. \A p \in Readers, q \in Cursors : Sound(log', dlq', handled', p, q)
  <2> TAKE p \in Readers, q \in Cursors
  <2>1. p \in 0 .. Len(log) /\ q \in Nat /\ Sound(log, dlq, handled, p, q)
    BY <1>1, <1>2
  <2> QED BY <2>1, Carried
<1>4. Len(log') \in Nat /\ Len(dlq') \in Nat
  BY Growth DEF Grown
<1>5. committed' # None
  BY <1>1, ReadersMove
<1>6. ASSUME NEW x, log' = Append(log, x) PROVE x \in Event => log' # log
  BY <1>2, <1>6, Appended DEF TopicTypes
<1>7. CASE Readers' \subseteq Readers /\ Cursors' \subseteq Cursors
  BY <1>3, <1>5, <1>7
<1>8. ASSUME NEW c \in Consumer, work[c] # "idle", Readers' \subseteq Readers \union {position[c] + 1},
             \/ log[position[c] + 1] \in handled' /\ log' = log
             \/ dlq' = Append(dlq, position[c]) /\ log' = log,
             Cursors' \subseteq Cursors
      PROVE  \A p \in Readers', q \in Cursors' : Sound(log', dlq', handled', p, q)
  <2>1. position[c] \in Readers /\ position[c] \in Nat
    BY <1>8, Places DEF Readers
  <2>2. ASSUME NEW q \in Cursors PROVE Sound(log', dlq', handled', position[c] + 1, q)
    <3>1. q \in Nat /\ q <= Len(dlq) /\ Sound(log', dlq', handled', position[c], q)
      BY <1>2, <1>3, <2>1, <2>2
    <3>2. \/ log'[position[c] + 1] \in handled'
          \/ \E j \in 1 .. Len(dlq') : j > q /\ dlq'[j] = position[c]
      <4>1. CASE log[position[c] + 1] \in handled' /\ log' = log
        BY <4>1
      <4>2. CASE dlq' = Append(dlq, position[c])
        <5>1. Len(dlq') = Len(dlq) + 1 /\ dlq'[Len(dlq) + 1] = position[c]
          BY <2>1, <4>2, Appended DEF TopicTypes
        <5>2. Len(dlq) + 1 \in 1 .. Len(dlq') /\ Len(dlq) + 1 > q
          BY <1>2, <1>4, <3>1, <5>1
        <5> QED BY <5>1, <5>2
      <4> QED BY <1>8, <4>1, <4>2
    <3> QED BY <1>4, <2>1, <3>1, <3>2, PastMessage
  <2> QED BY <1>3, <1>8, <2>2
<1>9. ASSUME NEW r \in Replayer, replay[r].next \in Cursors, replay[r].next < Len(dlq), dlq' = dlq,
             log' = Append(log, log[dlq[replay[r].next + 1] + 1]),
             Cursors' \subseteq Cursors \union {replay[r].next + 1}, Readers' \subseteq Readers
      PROVE  \A p \in Readers', q \in Cursors' : Sound(log', dlq', handled', p, q)
  <2> DEFINE n == replay[r].next
             e == log[dlq[n + 1] + 1]
  <2>1. n \in Nat /\ n + 1 \in 1 .. Len(dlq)
    <3>1. n \in 0 .. Len(dlq) /\ n < Len(dlq) /\ Len(dlq) \in Nat
      BY <1>2, <1>9
    <3> HIDE DEF n
    <3> QED BY <3>1
  <2>2. e \in Event /\ dlq[n + 1] + 1 \in 1 .. Len(log)
    BY <2>1, Behind
  <2>3. /\ Len(log') = Len(log) + 1 /\ log'[Len(log) + 1] = e
        /\ log'[dlq'[n + 1] + 1] = e
    BY <1>9, <2>2, Appended DEF TopicTypes
  <2>4. ASSUME NEW p \in Readers PROVE Sound(log', dlq', handled', p, n + 1)
    <3>1. p \in Nat /\ p <= Len(log)
      BY <1>1, <1>2, <2>4
    <3>3. Sound(log', dlq', handled', p, n)
      BY <1>3, <1>9, <2>4
    <3>2. \E k \in 1 .. Len(log') : k > p /\ log'[k] = log'[dlq'[n + 1] + 1]
      BY <1>2, <2>3, <3>1
    <3> HIDE DEF n, e
    <3> QED BY <1>4, <2>1, <3>1, <3>2, <3>3, PastLetter
  <2> QED BY <1>3, <1>9, <2>4
<1>10. ASSUME NEW r \in Replayer, replay[r].next \in Cursors, replay[r].next < Len(dlq),
              log' = Append(log, log[dlq[replay[r].next + 1] + 1])
       PROVE  log' # log
  <2>1. replay[r].next + 1 \in 1 .. Len(dlq)
    <3> DEFINE n == replay[r].next
    <3>1. n \in 0 .. Len(dlq) /\ n < Len(dlq) /\ Len(dlq) \in Nat
      BY <1>2, <1>10
    <3> HIDE DEF n
    <3>2. n + 1 \in 1 .. Len(dlq)
      BY <3>1
    <3> QED BY <3>2 DEF n
  <2>2. log[dlq[replay[r].next + 1] + 1] \in Event
    BY <2>1, Behind
  <2> QED BY <1>6, <1>10, <2>2
<1> QED BY <1>1, <1>5, <1>7, <1>8, <1>9, <1>10, ReadersMove, CursorsMove

-----------------------------------------------------------------------------
(* The invariant and what follows from it.                                 *)

LEMMA InitInv == Init => IInv
<1> SUFFICES ASSUME Init PROVE IInv
  OBVIOUS
<1>1. /\ <<>> \in Seq(Event) /\ <<>> \in Seq(Nat) /\ Len(<<>>) = 0 /\ DOMAIN <<>> = {}
  BY EmptySeq
<1>2. log = <<>> /\ dlq = <<>> /\ Offset = {0}
  BY <1>1 DEF Init, Offset
<1>3. TopicTypes
  BY <1>1, <1>2 DEF TopicTypes
<1>4. CallerTypes
  BY LimitsAssumption DEF Init, CallerTypes
<1>5. GroupTypes
  BY <1>2, GroupAssumption DEF Init, GroupTypes
<1>6. CountTypes
  BY NothingCounted DEF Init, CountTypes
<1>7. Is([Idle EXCEPT !.phase = "new"], "new", 0, 0, 0, 0)
      /\ ~[Idle EXCEPT !.phase = "new"].over
  BY DEF Is, Idle, ReplayState, Phase
<1>8. \A r \in Replayer : Is(replay[r], "new", 0, 0, 0, 0) /\ ~replay[r].over
  BY <1>7 DEF Init
<1>9. replay \in [Replayer -> ReplayState]
  BY <1>7 DEF Init, Is
<1>10. ReplayTypes
  BY <1>1, <1>2, <1>8, <1>9 DEF Init, ReplayTypes, Is
<1>12. LettersInv
  <2>1. \A o : Count(failed, o) = 0 /\ \A c \in Consumer : Count(attempts[c], o) = 0
    BY NothingCounted DEF Init
  <2> QED BY <1>1, <1>2, <2>1 DEF Init, LettersInv, LettersEarned
<1>13. KeptInv
  <2>1. \A p, q : Sound(log, dlq, handled, p, q)
    BY <1>1, <1>2 DEF Sound
  <2> QED BY <2>1, GroupAssumption DEF Init, KeptInv
<1> QED BY <1>3, <1>4, <1>5, <1>6, <1>10, <1>12, <1>13 DEF IInv

\* The invariant is inductive.
LEMMA NextInv == IInv /\ [Next]_vars => IInv'
  BY Growth, CallerTypesStep, GroupTypesStep, CountTypesStep, ReplayTypesStep, LettersStep, KeptStep DEF IInv

\* The invariant holds at all times.
LEMMA Invariant == Spec => []IInv
  BY InitInv, NextInv, PTL DEF Spec

\* The invariant contains the types.
LEMMA InvTypes == IInv => TypeOK
<1> SUFFICES ASSUME IInv PROVE TypeOK
  OBVIOUS
<1>1. DOMAIN log = 1 .. Len(log) /\ DOMAIN dlq = 1 .. Len(dlq)
  BY LenProperties DEF IInv, TopicTypes
<1>2. /\ \A i \in DOMAIN log : log[i] \in Event
      /\ \A j \in DOMAIN dlq : dlq[j] + 1 \in DOMAIN log
  BY <1>1, Behind DEF IInv
<1>3. \A r \in Replayer : replay[r].next <= replay[r].end
  BY ReplayFields DEF IInv, ReplayTypes
<1> QED BY <1>2, <1>3 DEF IInv, TypeOK, CallerTypes, GroupTypes, CountTypes, Counts, ReplayTypes

\* For a group that starts at the first message, the invariant says that nothing is lost.
LEMMA InvNothingLost == IInv => (FirstCommit = 0 => NothingLost /\ committed # None)
<1> SUFFICES ASSUME IInv, FirstCommit = 0 PROVE NothingLost /\ committed # None
  OBVIOUS
<1>1. DOMAIN log = 1 .. Len(log) /\ DOMAIN dlq = 1 .. Len(dlq)
  BY LenProperties DEF IInv, TopicTypes
<1>2. committed # None /\ Sound(log, dlq, handled, committed, replayed)
  BY DEF IInv, KeptInv, Readers, Cursors
<1> QED BY <1>1, <1>2 DEF Sound, Kept, NothingLost, Pending, Parked

(***************************************************************************)
(* A message given up as a dead letter has failed at least MaxTries times, *)
(* whatever members handled it and whatever rebalances, crashes and failed *)
(* sends came between: consumer.ts hands a message to the dead letter      *)
(* queue when the count in the memory of one member reaches                *)
(* KAFKA.CONSUMER_MAX_RETRIES, and that count never runs ahead.            *)
(***************************************************************************)
THEOREM LettersAlwaysEarned == Spec => []LettersEarned
<1>1. IInv => LettersEarned
  BY DEF IInv, LettersInv
<1> QED BY <1>1, Invariant, PTL

(***************************************************************************)
(* Every variable has its type, and every event that Kafka has stored is   *)
(* handled, or still ahead of the committed offset of the group, or a dead *)
(* letter still ahead of that of the replays.  The group starts at the     *)
(* first message: a new group, which has committed nothing, begins where   *)
(* the topic ends, and owes nothing of what was stored before it joined.   *)
(***************************************************************************)
THEOREM AlwaysAccounted == Spec => [](FirstCommit = 0 => Accounted)
<1>1. IInv => (FirstCommit = 0 => Accounted)
  BY InvTypes, InvNothingLost DEF IInv, LettersInv, Accounted
<1> QED BY <1>1, Invariant, PTL

\* Type correctness, for a new group too.
THEOREM TypeCorrect == Spec => []TypeOK
  BY InvTypes, Invariant, PTL

-----------------------------------------------------------------------------
(* Every step is one that AtLeastOnce allows.                              *)

Stored(e) == \E i \in DOMAIN log : log[i] = e

StatusTold ==
    \A e \in Event :
        /\ Status(e) \in {"new", "owed", "parked", "handled"}
        /\ Status(e) = "handled" <=> e \in handled
        /\ Status(e) = "owed" <=> e \notin handled /\ Pending(e)
        /\ Status(e) = "new" <=> e \notin handled /\ ~Stored(e)

\* The status of an event is what its copies and its caller tell.
LEMMA StatusIs == IInv => (FirstCommit = 0 => StatusTold)
<1> SUFFICES ASSUME IInv, FirstCommit = 0, NEW e \in Event
             PROVE  /\ Status(e) \in {"new", "owed", "parked", "handled"}
                    /\ Status(e) = "handled" <=> e \in handled
                    /\ Status(e) = "owed" <=> e \notin handled /\ Pending(e)
                    /\ Status(e) = "new" <=> e \notin handled /\ ~Stored(e)
  BY DEF StatusTold
<1>1. NothingLost
  BY InvNothingLost
<1>2. DOMAIN log = 1 .. Len(log) /\ DOMAIN dlq = 1 .. Len(dlq)
  BY LenProperties DEF IInv, TopicTypes
<1>3. (Pending(e) => Stored(e)) /\ (Parked(e) => Stored(e))
  BY <1>2, Behind DEF IInv, Pending, Parked, Stored
<1>4. Stored(e) => e \in handled \/ Pending(e) \/ Parked(e)
  BY <1>1 DEF NothingLost, Stored
<1> QED BY <1>3, <1>4 DEF Status, Stored

\* Every step moves an event as the promise allows, or not at all.
LEMMA StatusMoves ==
  ASSUME IInv, IInv', StatusTold, StatusTold', [Next]_vars, NEW e \in Event
  PROVE  /\ Status(e)' \in {"new", "owed", "parked", "handled"}
         /\ Status(e)' = Status(e) \/ <<Status(e), Status(e)'>> \in Promise!Moves
<1>1. /\ TopicTypes /\ GroupTypes /\ ReplayTypes
      /\ DOMAIN log = 1 .. Len(log) /\ DOMAIN log' = 1 .. Len(log') /\ Len(log) \in Nat
  BY LenProperties DEF IInv, TopicTypes
<1>2. e \in handled => e \in handled'
  BY <1>1, OneStored
<1>3. Stored(e) => Stored(e)'
  <2>1. \A i \in 1 .. Len(log) : i \in 1 .. Len(log') /\ log'[i] = log[i]
    BY <1>1, Growth DEF Grown
  <2> QED BY <1>1, <2>1 DEF Stored
\* An event that comes to be stored is ahead of what is committed.
<1>4. ~Stored(e) /\ Stored(e)' => Pending(e)'
  <2> SUFFICES ASSUME ~Stored(e), Stored(e)' PROVE Pending(e)'
    OBVIOUS
  <2>1. PICK x \in Event : log' = Append(log, x) /\ committed' = committed
    BY <1>1, OneStored DEF Stored
  <2>2. PICK i \in DOMAIN log' : log'[i] = e
    BY DEF Stored
  <2>3. i = Len(log) + 1
    <3>1. \A k \in 1 .. Len(log) : log'[k] = log[k]
      BY <1>1, Growth DEF Grown
    <3>2. i \in 1 .. Len(log) + 1
      BY <1>1, <2>1, <2>2, Appended DEF TopicTypes
    <3>3. i \notin 1 .. Len(log)
      BY <1>1, <2>2, <3>1 DEF Stored
    <3> QED BY <1>1, <3>2, <3>3
  <2>4. committed' = None \/ i > committed'
    BY <1>1, <2>1, <2>3 DEF GroupTypes, Offset
  <2> QED BY <2>2, <2>4 DEF Pending
<1>5. /\ Status(e) \in {"new", "owed", "parked", "handled"}
      /\ Status(e) = "handled" <=> e \in handled
      /\ Status(e) = "owed" <=> e \notin handled /\ Pending(e)
      /\ Status(e) = "new" <=> e \notin handled /\ ~Stored(e)
  BY DEF StatusTold
<1>6. /\ Status(e)' \in {"new", "owed", "parked", "handled"}
      /\ Status(e)' = "handled" <=> e \in handled'
      /\ Status(e)' = "owed" <=> e \notin handled' /\ Pending(e)'
      /\ Status(e)' = "new" <=> e \notin handled' /\ ~Stored(e)'
  BY DEF StatusTold
<1> QED BY <1>2, <1>3, <1>4, <1>5, <1>6 DEF Promise!Moves

Statuses == [e \in Event |-> Status(e)]

(***************************************************************************)
(* Event delivery does what AtLeastOnce promises, up to its liveness: the  *)
(* first state maps to its first state, and every step, of a caller, a     *)
(* member or a replay, maps to one it allows or to none.  No event is      *)
(* taken back, parked before it was owed, or lost.                         *)
(***************************************************************************)
THEOREM StepsAsPromised ==
  ASSUME FirstCommit = 0
  PROVE  Spec => Promise!Init /\ [][Promise!Next]_Statuses
<1>1. Init => Promise!Init
  <2> SUFFICES ASSUME Init, NEW e \in Event PROVE Status(e) = "new"
    BY DEF Promise!Init
  <2>1. DOMAIN log = {} /\ DOMAIN dlq = {} /\ handled = {}
    BY EmptySeq DEF Init
  <2> QED BY <2>1 DEF Status, Pending, Parked
<1>2. IInv => StatusTold
  BY StatusIs
<1>3. IInv /\ IInv' /\ StatusTold /\ StatusTold' /\ [Next]_vars => [Promise!Next]_Statuses
  <2> SUFFICES ASSUME IInv, IInv', StatusTold, StatusTold', [Next]_vars
               PROVE  Promise!Next
    OBVIOUS
  <2>1. /\ Statuses' \in [Event -> {"new", "owed", "parked", "handled"}]
        /\ \A e \in Event : Statuses'[e] = Statuses[e] \/ <<Statuses[e], Statuses'[e]>> \in Promise!Moves
    BY StatusMoves DEF Statuses
  <2> QED BY <2>1 DEF Promise!Next, Statuses
<1> QED BY <1>1, <1>2, <1>3, Invariant, PTL DEF Spec

=============================================================================
