---------------------------- MODULE Chats_proofs ----------------------------
(***************************************************************************)
(* What Chats guarantees for any number of users, messages, requests at    *)
(* once and attempts.                                                      *)
(*                                                                         *)
(* Of the members (ChannelRequests): a channel is in order at all times,   *)
(* it changes hands only when its owner leaves, and requests that overlap  *)
(* come out as if each had run alone.                                      *)
(*                                                                         *)
(* Of the messages (MessageRequests): the two records of what is pinned    *)
(* agree, receipts are lost only where the code saves over them, and       *)
(* requests that overlap come out as if each had run alone.                *)
(***************************************************************************)
EXTENDS Chats, Sequences, FiniteSetTheorems, WellFoundedInduction, TLAPS

Time == 0..MaxRequests

\* What a channel document promises by itself.
Good(c) ==
    /\ Group!Exists(c) => /\ c.owner \in c.users
                          /\ c.admins # {} /\ c.admins \subseteq c.users
    /\ \A e \in c.left : e.user \notin c.users
    /\ \A e, f \in c.left : e.user = f.user => e = f

\* The requests under way, and how many have ended.
Underway == {r \in Request : groupRequest[r] # Group!Idle}
Ended == groupBegun - Cardinality(Underway)

Written(r) == groupRequest[r].stage = "written"

-----------------------------------------------------------------------------
\* The parts of the invariant.

\* What a request has in hand, at each of its stages.
Beginning == [stage : {"begins"}, op : Group!Operations, by : Users, who : SUBSET Users,
              attempt : 1..MaxAttempts]
Reading == [stage : {"reads"}, op : Group!Operations, by : Users, who : SUBSET Users,
            attempt : 1..MaxAttempts, seen : Group!Channels(Time), stale : BOOLEAN]
Writing == [stage : {"written"}, op : Group!Operations, by : Users, who : SUBSET Users,
            attempt : 1..MaxAttempts, document : Group!Channels(Time), at : Time]

GroupTypes ==
    /\ group \in Group!Channels(Time) /\ groupMessages \in SUBSET Time
    /\ groupBegun \in 0..MaxRequests
    /\ groupRequest \in [Request -> {Group!Idle} \union Beginning \union Reading \union Writing]

\* Every time that is recorded was taken by a request that has ended, and the time in
\* the hand of the one that has written is later than all of them.
TimesInv ==
    /\ Ended \in Nat
    /\ \A m \in groupMessages : m <= Ended
    /\ \A e \in group.left : e.upto <= Ended
    /\ \A r \in Request : Written(r) =>
          /\ groupRequest[r].at <= Ended + 1
          /\ \A m \in groupMessages : m < groupRequest[r].at
          /\ \A e \in group.left : e.upto < groupRequest[r].at

\* One request at a time has written, and what it has read is still the channel.
AloneInv ==
    /\ \A r, s \in Request : Written(r) /\ Written(s) => r = s
    /\ \A r \in Request : groupRequest[r].stage = "reads" /\ ~groupRequest[r].stale =>
          groupRequest[r].seen = group
    /\ \A r \in Request : Written(r) =>
          LET q == groupRequest[r] IN
          /\ Group!May(group, q.op, q.by, q.who)
          /\ q.document \in Group!Results(group, q.op, q.by, q.who, q.at)

GroupInv ==
    /\ GroupTypes /\ TimesInv /\ AloneInv
    /\ Good(group) /\ Group!GoneTogether

-----------------------------------------------------------------------------
(* The rules: what a change makes of a channel that is in order.           *)

\* The operators of the instance are those of the modules.
LEMMA SameCardinality == ASSUME NEW S PROVE Group!Cardinality(S) = Cardinality(S)
  BY DEF Group!Cardinality, Cardinality

\* What an update with EXCEPT makes of a channel document.
LEMMA LeftUpdated ==
  ASSUME NEW T, NEW c \in Group!Channels(T), NEW L
  PROVE  [c EXCEPT !.left = L] =
            [users |-> c.users, admins |-> c.admins, owner |-> c.owner, left |-> L]
  BY DEF Group!Channels

\* What a channel is once its admins are written.
LEMMA AdminsUpdated ==
  ASSUME NEW T, NEW c \in Group!Channels(T), NEW A
  PROVE  [c EXCEPT !.admins = A] =
            [users |-> c.users, admins |-> A, owner |-> c.owner, left |-> c.left]
  BY DEF Group!Channels

\* What a channel is once its members and its entries are written.
LEMMA UsersUpdated ==
  ASSUME NEW T, NEW c \in Group!Channels(T), NEW U, NEW L
  PROVE  [c EXCEPT !.users = U, !.left = L] =
            [users |-> U, admins |-> c.admins, owner |-> c.owner, left |-> L]
<1> DEFINE r == [c EXCEPT !.users = U]
<1>1. r = [users |-> U, admins |-> c.admins, owner |-> c.owner, left |-> c.left]
  BY DEF Group!Channels
<1> HIDE DEF r
<1>2. [r EXCEPT !.left = L] =
         [users |-> U, admins |-> c.admins, owner |-> c.owner, left |-> L]
  BY <1>1
<1> QED BY <1>2 DEF r

\* What a channel is once all but its owner is written.
LEMMA AllUpdated ==
  ASSUME NEW T, NEW c \in Group!Channels(T), NEW U, NEW A, NEW L
  PROVE  [c EXCEPT !.users = U, !.admins = A, !.left = L] =
            [users |-> U, admins |-> A, owner |-> c.owner, left |-> L]
<1> DEFINE r == [c EXCEPT !.users = U]
           s == [r EXCEPT !.admins = A]
<1>1. r = [users |-> U, admins |-> c.admins, owner |-> c.owner, left |-> c.left]
  BY DEF Group!Channels
<1> HIDE DEF r
<1>2. s = [users |-> U, admins |-> A, owner |-> c.owner, left |-> c.left]
  BY <1>1
<1> HIDE DEF s
<1>3. [s EXCEPT !.left = L] = [users |-> U, admins |-> A, owner |-> c.owner, left |-> L]
  BY <1>2
<1> QED BY <1>3 DEF r, s

\* The entries a removal adds are of those removed, and up to the time it is given.
LEMMA EntriesTyped ==
  ASSUME NEW T, NEW upto \in T, NEW who \in SUBSET Users
  PROVE  \A e \in Group!Entries(who, upto) :
            /\ e \in [user : Users, upto : T, show : BOOLEAN]
            /\ e.user \in who /\ e.upto = upto /\ e.show = TRUE
<1>1. SUFFICES ASSUME NEW u \in who
               PROVE  LET e == [user |-> u, upto |-> upto, show |-> TRUE] IN
                      /\ e \in [user : Users, upto : T, show : BOOLEAN]
                      /\ e.user \in who /\ e.upto = upto /\ e.show = TRUE
  BY DEF Group!Entries
<1> QED OBVIOUS

\* A removal adds one entry per person.
LEMMA OneEntryEach ==
  ASSUME NEW upto, NEW who
  PROVE  \A e, f \in Group!Entries(who, upto) : e.user = f.user => e = f
<1>1. \A e \in Group!Entries(who, upto) : e = [user |-> e.user, upto |-> upto, show |-> TRUE]
  BY DEF Group!Entries
<1> QED BY <1>1

\* Adding members keeps a channel in order, its owner, and the one who adds.
LEMMA AddGood ==
  ASSUME NEW T, NEW c \in Group!Channels(T), Good(c),
         NEW by \in Users, NEW who \in SUBSET Users, Group!MayAdd(c, by, who)
  PROVE  LET d == Group!Added(c, by, who) IN
         d \in Group!Channels(T) /\ Good(d) /\ d.owner = c.owner /\ by \in d.users
<1> DEFINE d == Group!Added(c, by, who)
<1>1. d = [users |-> c.users \union who, admins |-> c.admins, owner |-> c.owner,
           left |-> {e \in c.left : e.user \notin who}]
  <2> DEFINE L == {e \in c.left : e.user \notin who}
  <2>1. d = [c EXCEPT !.users = @ \union who, !.left = L]
    BY DEF Group!Added
  <2> HIDE DEF L, d
  <2>2. d = [users |-> c.users \union who, admins |-> c.admins, owner |-> c.owner, left |-> L]
    BY <2>1, UsersUpdated
  <2> QED BY <2>2 DEF L
<1>2. c.users \in SUBSET Users /\ c.admins \in SUBSET Users /\ c.owner \in Users
      /\ c.left \in SUBSET [user : Users, upto : T, show : BOOLEAN]
  BY DEF Group!Channels
<1> HIDE DEF d
<1>3. d \in Group!Channels(T)
  BY <1>1, <1>2 DEF Group!Channels
<1>4. Good(d)
  BY <1>1 DEF Good, Group!Exists, Group!MayAdd
<1>5. d.owner = c.owner /\ by \in d.users
  BY <1>1 DEF Group!MayAdd
<1> QED BY <1>3, <1>4, <1>5 DEF d

\* Removing members keeps a channel in order, its owner, and the one who removes.
LEMMA RemoveGood ==
  ASSUME NEW T, NEW c \in Group!Channels(T), Good(c), NEW upto \in T,
         NEW by \in Users, NEW who \in SUBSET Users, Group!MayRemove(c, by, who)
  PROVE  LET d == Group!Removed(c, by, who, upto) IN
         d \in Group!Channels(T) /\ Good(d) /\ d.owner = c.owner /\ by \in d.users
<1> DEFINE d == Group!Removed(c, by, who, upto)
<1>1. d = [users |-> c.users \ who, admins |-> c.admins \ who, owner |-> c.owner,
           left |-> c.left \union Group!Entries(who, upto)]
  <2>1. d = [c EXCEPT !.users = @ \ who, !.admins = @ \ who,
                      !.left = @ \union Group!Entries(who, upto)]
    BY DEF Group!Removed
  <2> HIDE DEF d
  <2> QED BY <2>1, AllUpdated
<1>2. c.users \in SUBSET Users /\ c.admins \in SUBSET Users /\ c.owner \in Users
      /\ c.left \in SUBSET [user : Users, upto : T, show : BOOLEAN]
  BY DEF Group!Channels
<1>3. /\ Group!Entries(who, upto) \in SUBSET [user : Users, upto : T, show : BOOLEAN]
      /\ \A e \in Group!Entries(who, upto) : e.user \in who
  BY EntriesTyped
<1>4. \A e, f \in Group!Entries(who, upto) : e.user = f.user => e = f
  BY OneEntryEach
<1> HIDE DEF d
<1>5. d \in Group!Channels(T)
  BY <1>1, <1>2, <1>3 DEF Group!Channels
<1>6. Good(d)
  <2>1. Group!Exists(d) => d.owner \in d.users /\ d.admins # {} /\ d.admins \subseteq d.users
    BY <1>1 DEF Good, Group!Exists, Group!MayRemove
  <2>2. \A e \in d.left : e.user \notin d.users
    BY <1>1, <1>3 DEF Good
  <2>3. \A e \in c.left, f \in Group!Entries(who, upto) : e.user # f.user
    BY <1>3 DEF Good, Group!MayRemove
  <2>4. \A e, f \in d.left : e.user = f.user => e = f
    BY <1>1, <1>4, <2>3 DEF Good
  <2> QED BY <2>1, <2>2, <2>4 DEF Good
<1>7. d.owner = c.owner /\ by \in d.users
  BY <1>1 DEF Group!MayRemove
<1> QED BY <1>5, <1>6, <1>7 DEF d

\* A promotion keeps a channel in order and its owner.
LEMMA PromoteGood ==
  ASSUME NEW T, NEW c \in Group!Channels(T), Good(c),
         NEW by \in Users, NEW u \in Users, Group!MayPromote(c, by, u)
  PROVE  LET d == Group!Promoted(c, by, u) IN
         d \in Group!Channels(T) /\ Good(d) /\ d.owner = c.owner /\ by \in d.users
<1> DEFINE d == Group!Promoted(c, by, u)
<1>1. d = [users |-> c.users, admins |-> c.admins \union {u}, owner |-> c.owner,
           left |-> c.left]
  BY AdminsUpdated DEF Group!Promoted
<1> HIDE DEF d
<1>2. d \in Group!Channels(T)
  BY <1>1 DEF Group!Channels
<1>3. Good(d) /\ d.owner = c.owner /\ by \in d.users
  BY <1>1 DEF Good, Group!Exists, Group!MayPromote
<1> QED BY <1>2, <1>3 DEF d

\* A demotion keeps a channel in order and its owner: an admin is left.
LEMMA DemoteGood ==
  ASSUME NEW T, NEW c \in Group!Channels(T), Good(c),
         NEW by \in Users, NEW u \in Users, Group!MayDemote(c, by, u)
  PROVE  LET d == Group!Demoted(c, by, u) IN
         d \in Group!Channels(T) /\ Good(d) /\ d.owner = c.owner /\ by \in d.users
<1> DEFINE d == Group!Demoted(c, by, u)
<1>1. d = [users |-> c.users, admins |-> c.admins \ {u}, owner |-> c.owner, left |-> c.left]
  BY AdminsUpdated DEF Group!Demoted
<1>2. c.admins # {u}
  <2>1. Cardinality({u}) = 1
    BY FS_Singleton
  <2>2. Cardinality(c.admins) > 1
    BY SameCardinality DEF Group!MayDemote
  <2> QED BY <2>1, <2>2
<1> HIDE DEF d
<1>3. d \in Group!Channels(T)
  BY <1>1 DEF Group!Channels
<1>4. Good(d) /\ d.owner = c.owner /\ by \in d.users
  BY <1>1, <1>2 DEF Good, Group!Exists, Group!MayDemote
<1> QED BY <1>3, <1>4 DEF d

\* An entry of one who leaves is his old one, no longer shown, or a new one.
Hid(f, e, by) == f.user = e.user /\ f.upto = e.upto /\ f.show = (e.show /\ e.user # by)

\* What leaving does to the entries: they stay, up to being hidden, and the leaver has one.
LEMMA LeftAfterIs ==
  ASSUME NEW T, NEW c \in Group!Channels(T), NEW upto \in T, NEW by \in Users
  PROVE  /\ \A f \in Group!LeftAfter(c, by, upto) :
               /\ f \in [user : Users, upto : T, show : BOOLEAN]
               /\ \/ \E e \in c.left : Hid(f, e, by)
                  \/ ~Group!HasLeft(c, by) /\ f.user = by /\ f.upto = upto /\ f.show = TRUE
         /\ \A e \in c.left : \E f \in Group!LeftAfter(c, by, upto) :
               Hid(f, e, by)
         /\ \E f \in Group!LeftAfter(c, by, upto) : f.user = by
         /\ ~Group!HasLeft(c, by) => \E f \in Group!LeftAfter(c, by, upto) :
               f.user = by /\ f.upto = upto /\ f.show = TRUE
<1> DEFINE Hidden(e) == IF e.user = by THEN [e EXCEPT !.show = FALSE] ELSE e
<1>1. \A e \in c.left :
         /\ Hidden(e) \in [user : Users, upto : T, show : BOOLEAN]
         /\ Hid(Hidden(e), e, by)
  BY DEF Group!Channels, Hid
<1>2. CASE Group!HasLeft(c, by)
  <2>1. Group!LeftAfter(c, by, upto) = {Hidden(e) : e \in c.left}
    BY <1>2 DEF Group!LeftAfter
  <2> HIDE DEF Hidden
  <2>2. PICK e \in c.left : e.user = by
    BY <1>2 DEF Group!HasLeft
  <2>3. Hidden(e) \in Group!LeftAfter(c, by, upto) /\ Hidden(e).user = by
    BY <1>1, <2>1, <2>2 DEF Hid
  <2> QED BY <1>1, <1>2, <2>1, <2>3
<1>3. CASE ~Group!HasLeft(c, by)
  <2> DEFINE new == [user |-> by, upto |-> upto, show |-> TRUE]
  <2>1. Group!LeftAfter(c, by, upto) = c.left \union {new}
    BY <1>3 DEF Group!LeftAfter, Group!Entries
  <2>2. \A e \in c.left : e.user # by /\ e \in [user : Users, upto : T, show : BOOLEAN]
    BY <1>3 DEF Group!HasLeft, Group!Channels
  <2>3. \A e \in c.left : e.show = (e.show /\ e.user # by)
    BY <2>2
  <2>4. new.user = by /\ new.upto = upto /\ new.show = TRUE
        /\ new \in [user : Users, upto : T, show : BOOLEAN]
    OBVIOUS
  <2> HIDE DEF new
  <2>5. \A f \in Group!LeftAfter(c, by, upto) : f \in c.left \/ f = new
    BY <2>1
  <2>6. c.left \subseteq Group!LeftAfter(c, by, upto) /\ new \in Group!LeftAfter(c, by, upto)
    BY <2>1
  <2>7. ASSUME NEW f \in Group!LeftAfter(c, by, upto)
        PROVE  /\ f \in [user : Users, upto : T, show : BOOLEAN]
               /\ \/ \E e \in c.left : Hid(f, e, by)
                  \/ ~Group!HasLeft(c, by) /\ f.user = by /\ f.upto = upto /\ f.show = TRUE
    <3>1. CASE f \in c.left
      BY <2>2, <2>3, <3>1 DEF Hid
    <3>2. CASE f = new
      BY <1>3, <2>4, <3>2
    <3> QED BY <2>5, <3>1, <3>2
  <2>8. ASSUME NEW e \in c.left
        PROVE  \E f \in Group!LeftAfter(c, by, upto) :
                  Hid(f, e, by)
    BY <2>3, <2>6 DEF Hid
  <2>9. \E f \in Group!LeftAfter(c, by, upto) : f.user = by /\ f.upto = upto /\ f.show = TRUE
    BY <2>4, <2>6
  <2> QED BY <2>7, <2>8, <2>9
<1> QED BY <1>2, <1>3

\* Nobody but the one who leaves comes to be in leftUsers, and he once.
LEMMA LeftAfterOnce ==
  ASSUME NEW T, NEW c \in Group!Channels(T), Good(c), NEW upto \in T, NEW by \in Users
  PROVE  LET L == Group!LeftAfter(c, by, upto) IN
         /\ \A f \in L : f.user \notin Group!Remaining(c, by)
         /\ \A f, g \in L : f.user = g.user => f = g
         /\ \E f \in L : f.user = by
<1> DEFINE L == Group!LeftAfter(c, by, upto)
           New(f) == ~Group!HasLeft(c, by) /\ f.user = by /\ f.upto = upto /\ f.show = TRUE
<1>1. \A f \in L : f \in [user : Users, upto : T, show : BOOLEAN]
  BY LeftAfterIs
<1>2. \A f \in L : (\E e \in c.left : Hid(f, e, by)) \/ New(f)
  BY LeftAfterIs
<1>3. \E f \in L : f.user = by
  BY LeftAfterIs
<1> HIDE DEF L
<1>4. ASSUME NEW f \in L PROVE f.user \notin Group!Remaining(c, by)
  <2>1. CASE New(f)
    BY <2>1 DEF Group!Remaining
  <2>2. CASE \E e \in c.left : Hid(f, e, by)
    BY <2>2 DEF Good, Group!Remaining, Hid
  <2> QED BY <1>2, <2>1, <2>2
<1>5. ASSUME NEW f \in L, NEW g \in L, f.user = g.user PROVE f = g
  <2>1. f.upto = g.upto /\ f.show = g.show
    <3>1. CASE New(f) /\ New(g)
      BY <3>1
    <3>2. ASSUME NEW e \in c.left, Hid(f, e, by) PROVE f.upto = g.upto /\ f.show = g.show
      <4>1. ~New(g)
        BY <1>5, <3>2 DEF Group!HasLeft, Hid
      <4>2. PICK x \in c.left : Hid(g, x, by)
        BY <1>2, <4>1
      <4>3. x = e
        BY <1>5, <3>2, <4>2 DEF Good, Hid
      <4> QED BY <3>2, <4>2, <4>3 DEF Hid
    <3>3. ASSUME NEW e \in c.left, Hid(g, e, by) PROVE f.upto = g.upto /\ f.show = g.show
      <4>1. ~New(f)
        BY <1>5, <3>3 DEF Group!HasLeft, Hid
      <4>2. PICK x \in c.left : Hid(f, x, by)
        BY <1>2, <4>1
      <4>3. x = e
        BY <1>5, <3>3, <4>2 DEF Good, Hid
      <4> QED BY <3>3, <4>2, <4>3 DEF Hid
    <3> QED BY <1>2, <3>1, <3>2, <3>3
  <2> QED BY <1>1, <1>5, <2>1
<1> QED BY <1>3, <1>4, <1>5 DEF L

\* Leaving keeps a channel in order; the owner changes only if it is he who leaves.
LEMMA LeaveGood ==
  ASSUME NEW T, NEW c \in Group!Channels(T), Good(c), NEW upto \in T, NEW by \in Users,
         NEW d \in Group!Results(c, "leave", by, {}, upto)
  PROVE  /\ d \in Group!Channels(T) /\ Good(d)
         /\ d.owner # c.owner => c.owner \in c.users \ d.users /\ Group!HasLeft(d, c.owner)
         /\ ~Group!Exists(d) => d = Group!ChannelDeleted(c)
<1>1. CASE Group!Remaining(c, by) = {}
  <2>1. d = Group!ChannelDeleted(c)
    BY <1>1 DEF Group!Results
  <2>2. d = [users |-> {}, admins |-> {}, owner |-> c.owner, left |-> {}]
    BY <2>1, AllUpdated DEF Group!ChannelDeleted
  <2>3. d \in Group!Channels(T)
    BY <2>2 DEF Group!Channels
  <2> QED BY <2>1, <2>2, <2>3 DEF Good, Group!Exists
<1>2. CASE Group!Remaining(c, by) # {}
  <2>1. d \in Group!Leavings(c, by, upto)
    BY <1>2 DEF Group!Results
  <2>2. PICK admins \in Group!AdminsAfter(c, by) : \E owner \in Group!OwnersAfter(c, by, admins) :
           d = [users |-> Group!Remaining(c, by), admins |-> admins, owner |-> owner,
                left |-> Group!LeftAfter(c, by, upto)]
    BY <2>1 DEF Group!Leavings
  <2>3. PICK owner \in Group!OwnersAfter(c, by, admins) :
           d = [users |-> Group!Remaining(c, by), admins |-> admins, owner |-> owner,
                left |-> Group!LeftAfter(c, by, upto)]
    BY <2>2
  <2>4. c.owner \in c.users /\ c.admins # {} /\ c.admins \subseteq c.users
        /\ c.users \subseteq Users
    BY <1>2 DEF Group!Remaining, Good, Group!Exists, Group!Channels
  <2>5. admins # {} /\ admins \subseteq Group!Remaining(c, by)
    BY <1>2, <2>2, <2>4 DEF Group!AdminsAfter, Group!Remaining
  <2>6. owner \in Group!Remaining(c, by) /\ (owner # c.owner => by = c.owner)
    BY <2>3, <2>4, <2>5 DEF Group!OwnersAfter, Group!Remaining
  <2>7. d \in Group!Channels(T)
    BY <2>3, <2>4, <2>5, <2>6, LeftAfterIs DEF Group!Channels, Group!Remaining
  <2>8. Good(d)
    <3>1. \A f \in d.left : f.user \notin d.users
      BY <2>3, LeftAfterOnce
    <3>2. \A f, g \in d.left : f.user = g.user => f = g
      BY <2>3, LeftAfterOnce
    <3> QED BY <2>3, <2>5, <2>6, <3>1, <3>2 DEF Good, Group!Exists
  <2>9. d.owner # c.owner => c.owner \in c.users \ d.users /\ Group!HasLeft(d, c.owner)
    BY <2>3, <2>4, <2>6, LeftAfterOnce DEF Group!Remaining, Group!HasLeft
  <2> QED BY <1>2, <2>3, <2>7, <2>8, <2>9 DEF Group!Exists
<1> QED BY <1>1, <1>2
\* Only the last to leave ends a channel, and nothing is left of it then.
LEMMA DeletedWhole ==
  ASSUME NEW T, NEW c \in Group!Channels(T), Good(c), NEW upto \in T,
         NEW op \in Group!Operations, NEW by \in Users, NEW who \in SUBSET Users,
         Group!May(c, op, by, who), NEW d \in Group!Results(c, op, by, who, upto),
         ~Group!Exists(d)
  PROVE  d.left = {}
<1>1. CASE op = "add"
  BY <1>1, AddGood DEF Group!May, Group!Results, Group!Exists
<1>2. CASE op = "remove"
  BY <1>2, RemoveGood DEF Group!May, Group!Results, Group!Exists
<1>3. CASE op = "promote"
  <2>1. PICK u \in who : who = {u} /\ Group!MayPromote(c, by, u)
    BY <1>3 DEF Group!May
  <2>2. d = Group!Promoted(c, by, u)
    BY <1>3, <2>1 DEF Group!Results
  <2> QED BY <2>1, <2>2, PromoteGood DEF Group!Exists
<1>4. CASE op = "demote"
  <2>1. PICK u \in who : who = {u} /\ Group!MayDemote(c, by, u)
    BY <1>4 DEF Group!May
  <2>2. d = Group!Demoted(c, by, u)
    BY <1>4, <2>1 DEF Group!Results
  <2> QED BY <2>1, <2>2, DemoteGood DEF Group!Exists
<1>5. CASE op = "leave"
  <2>1. who = {}
    BY <1>5 DEF Group!May
  <2>2. d = Group!ChannelDeleted(c)
    BY <1>5, <2>1, LeaveGood
  <2>3. d = [users |-> {}, admins |-> {}, owner |-> c.owner, left |-> {}]
    BY <2>2, AllUpdated DEF Group!ChannelDeleted
  <2> QED BY <2>3
<1>6. CASE op = "send"
  BY <1>6 DEF Group!May, Group!MaySend, Group!Results, Group!Exists
<1> QED BY <1>1, <1>2, <1>3, <1>4, <1>5, <1>6 DEF Group!Operations

\* The outcome of any request that was allowed to what it has read.
LEMMA ResultsGood ==
  ASSUME NEW T, NEW c \in Group!Channels(T), Good(c), NEW upto \in T,
         NEW op \in Group!Operations, NEW by \in Users, NEW who \in SUBSET Users,
         Group!May(c, op, by, who), NEW d \in Group!Results(c, op, by, who, upto)
  PROVE  /\ d \in Group!Channels(T) /\ Good(d)
         /\ d.owner # c.owner => c.owner \in c.users \ d.users /\ Group!HasLeft(d, c.owner)
<1>1. CASE op = "add"
  <2>1. Group!MayAdd(c, by, who) /\ d = Group!Added(c, by, who)
    BY <1>1 DEF Group!May, Group!Results
  <2> QED BY <2>1, AddGood
<1>2. CASE op = "remove"
  <2>1. Group!MayRemove(c, by, who) /\ d = Group!Removed(c, by, who, upto)
    BY <1>2 DEF Group!May, Group!Results
  <2> QED BY <2>1, RemoveGood
<1>3. CASE op = "promote"
  <2>1. PICK u \in who : who = {u} /\ Group!MayPromote(c, by, u)
    BY <1>3 DEF Group!May
  <2>2. d = Group!Promoted(c, by, u)
    BY <1>3, <2>1 DEF Group!Results
  <2> QED BY <2>1, <2>2, PromoteGood
<1>4. CASE op = "demote"
  <2>1. PICK u \in who : who = {u} /\ Group!MayDemote(c, by, u)
    BY <1>4 DEF Group!May
  <2>2. d = Group!Demoted(c, by, u)
    BY <1>4, <2>1 DEF Group!Results
  <2> QED BY <2>1, <2>2, DemoteGood
<1>5. CASE op = "leave"
  <2>1. who = {}
    BY <1>5 DEF Group!May
  <2> QED BY <1>5, <2>1, LeaveGood
<1>6. CASE op = "send"
  <2>1. d = c
    BY <1>6 DEF Group!Results
  <2> QED BY <2>1
<1> QED BY <1>1, <1>2, <1>3, <1>4, <1>5, <1>6 DEF Group!Operations
-----------------------------------------------------------------------------
(* The time of day, and the number of requests.                            *)

\* A bounded set of numbers has a greatest.
LEMMA MaxOf ==
  ASSUME NEW n \in Nat, NEW S \in SUBSET (0..n), S # {}
  PROVE  Group!Max(S) \in S /\ \A y \in S : Group!Max(S) >= y
<1> DEFINE D == {n - x : x \in S}
<1>1. D \in SUBSET Nat /\ D # {}
  <2>1. \A x \in S : n - x \in Nat
    OBVIOUS
  <2>2. D \in SUBSET Nat
    BY <2>1
  <2> QED BY <2>2
<1>2. PICK d \in D : \A y \in D : <<y, d>> \notin OpToRel(<, Nat)
  BY <1>1, NatLessThanWellFounded, WFMin
<1>3. PICK x \in S : d = n - x
  BY <1>2
<1>4. \A y \in S : x >= y
  <2> TAKE y \in S
  <2>1. n - y \in D /\ n - y \in Nat /\ d \in Nat
    BY <1>1
  <2>2. ~(n - y < d)
    BY <1>2, <2>1 DEF OpToRel
  <2> QED BY <1>3, <2>2
<1> QED BY <1>4 DEF Group!Max

\* While nobody has written, the time of day is later than all that is recorded.
LEMMA NowLater ==
  ASSUME GroupInv, \A r \in Request : ~Written(r)
  PROVE  /\ Group!Now \in Nat /\ Group!Now <= Ended + 1
         /\ \A m \in groupMessages : m < Group!Now
         /\ \A e \in group.left : e.upto < Group!Now
<1> DEFINE S == {0} \union groupMessages \union {e.upto : e \in group.left}
                \union {groupRequest[s].at :
                          s \in {s \in Request : groupRequest[s].stage = "written"}}
<1>1. Group!Now = 1 + Group!Max(S)
  BY DEF Group!Now
<1>2. /\ Ended \in Nat
      /\ \A m \in groupMessages : m \in Nat /\ m <= Ended
      /\ \A e \in group.left : e.upto \in Nat /\ e.upto <= Ended
  BY BoundsAssumption DEF GroupInv, GroupTypes, TimesInv, Time, Group!Channels
<1>3. S \in SUBSET (0..Ended) /\ S # {}
  BY <1>2 DEF Written
<1>4. groupMessages \subseteq S /\ \A e \in group.left : e.upto \in S
  OBVIOUS
<1> HIDE DEF S
<1>5. Group!Max(S) \in S /\ \A y \in S : Group!Max(S) >= y
  BY <1>2, <1>3, MaxOf
<1>6. Group!Max(S) \in 0..Ended
  BY <1>3, <1>5
<1>7. Group!Now \in Nat /\ Group!Now <= Ended + 1
  BY <1>1, <1>2, <1>6
<1>8. \A y \in S : y < Group!Now
  BY <1>1, <1>2, <1>3, <1>5, <1>6
<1> QED BY <1>4, <1>7, <1>8

\* How many requests are under way, when one of them changes.
LEMMA OneMoves ==
  ASSUME groupRequest \in [Request -> {Group!Idle} \union Beginning \union Reading \union Writing],
         NEW r \in Request, NEW q, groupRequest' = [groupRequest EXCEPT ![r] = q]
  PROVE  /\ Cardinality(Underway) \in Nat /\ Cardinality(Underway)' \in Nat
         /\ groupRequest[r] = Group!Idle /\ q # Group!Idle =>
               Cardinality(Underway)' = Cardinality(Underway) + 1
         /\ groupRequest[r] # Group!Idle /\ q # Group!Idle =>
               Cardinality(Underway)' = Cardinality(Underway)
         /\ groupRequest[r] # Group!Idle /\ q = Group!Idle =>
               Cardinality(Underway)' = Cardinality(Underway) - 1
<1>1. IsFiniteSet(Underway) /\ IsFiniteSet(Underway')
  BY FinitenessAssumption, FS_Subset DEF Underway
<1>2. Cardinality(Underway) \in Nat /\ Cardinality(Underway') \in Nat
  BY <1>1, FS_CardinalityType
<1>3. ASSUME groupRequest[r] = Group!Idle, q # Group!Idle
      PROVE  Cardinality(Underway') = Cardinality(Underway) + 1
  <2>1. r \notin Underway /\ Underway' = Underway \union {r}
    BY <1>3 DEF Underway
  <2> QED BY <1>1, <2>1, FS_AddElement
<1>4. ASSUME groupRequest[r] # Group!Idle, q # Group!Idle
      PROVE  Cardinality(Underway') = Cardinality(Underway)
  <2>1. Underway' = Underway
    BY <1>4 DEF Underway
  <2> QED BY <2>1
<1>5. ASSUME groupRequest[r] # Group!Idle, q = Group!Idle
      PROVE  Cardinality(Underway') = Cardinality(Underway) - 1
  <2>1. r \in Underway /\ Underway' = Underway \ {r}
    BY <1>5 DEF Underway
  <2> QED BY <1>1, <2>1, FS_RemoveElement
<1> QED BY <1>2, <1>3, <1>4, <1>5
-----------------------------------------------------------------------------
(* The steps.                                                              *)

\* A request is of the kind its stage tells.
LEMMA StageTells ==
  ASSUME GroupTypes, NEW r \in Request
  PROVE  /\ groupRequest[r].stage = "begins" => groupRequest[r] \in Beginning
         /\ groupRequest[r].stage = "reads" => groupRequest[r] \in Reading
         /\ groupRequest[r].stage = "written" => groupRequest[r] \in Writing
         /\ groupRequest[r] = Group!Idle => groupRequest[r].stage = "idle"
<1>1. groupRequest[r] \in {Group!Idle} \union Beginning \union Reading \union Writing
  BY DEF GroupTypes
<1>2. /\ Group!Idle.stage = "idle"
      /\ \A q \in Beginning : q.stage = "begins"
      /\ \A q \in Reading : q.stage = "reads"
      /\ \A q \in Writing : q.stage = "written"
  BY DEF Group!Idle, Beginning, Reading, Writing
<1> QED BY <1>1, <1>2

\* A step that writes nothing: a request begins, reads, waits to be tried again or ends.
LEMMA QuietStep ==
  ASSUME GroupInv, NEW r \in Request, NEW q \in {Group!Idle} \union Beginning \union Reading,
         q \in Reading => q.seen = group,
         groupRequest' = [groupRequest EXCEPT ![r] = q],
         UNCHANGED <<group, groupMessages>>,
         groupBegun' \in 0..MaxRequests, Ended' \in Nat, Ended <= Ended'
  PROVE  GroupInv'
<1>1. /\ groupRequest \in
             [Request -> {Group!Idle} \union Beginning \union Reading \union Writing]
      /\ Ended \in Nat
  BY DEF GroupInv, GroupTypes, TimesInv
<1>2. GroupTypes'
  BY <1>1 DEF GroupInv, GroupTypes
<1>3. q.stage # "written" /\ (q.stage = "reads" => q \in Reading)
  BY DEF Group!Idle, Beginning, Reading
<1>4. \A s \in Request : s # r => groupRequest'[s] = groupRequest[s]
  BY <1>1
<1>5. groupRequest'[r] = q
  BY <1>1
<1>6. \A s \in Request : Written(s)' => s # r /\ Written(s)
  BY <1>3, <1>4, <1>5 DEF Written
<1>7. TimesInv'
  <2>1. /\ \A m \in groupMessages : m <= Ended'
        /\ \A e \in group.left : e.upto <= Ended'
    <3>1. /\ \A m \in groupMessages : m \in Nat /\ m <= Ended
          /\ \A e \in group.left : e.upto \in Nat /\ e.upto <= Ended
      BY BoundsAssumption DEF GroupInv, GroupTypes, TimesInv, Time, Group!Channels
    <3> QED BY <1>1, <3>1
  <2>2. ASSUME NEW s \in Request, Written(s)'
        PROVE  /\ groupRequest'[s].at <= Ended' + 1
               /\ \A m \in groupMessages : m < groupRequest'[s].at
               /\ \A e \in group.left : e.upto < groupRequest'[s].at
    <3>1. Written(s) /\ groupRequest'[s] = groupRequest[s]
      BY <1>4, <1>6, <2>2
    <3>2. groupRequest[s] \in Writing
      BY <3>1, StageTells DEF GroupInv, Written
    <3>3. groupRequest[s].at \in Nat
      BY <3>2, BoundsAssumption DEF Writing, Time
    <3>4. /\ groupRequest[s].at <= Ended + 1
          /\ \A m \in groupMessages : m < groupRequest[s].at
          /\ \A e \in group.left : e.upto < groupRequest[s].at
      BY <3>1 DEF GroupInv, TimesInv
    <3> QED BY <1>1, <3>1, <3>3, <3>4
  <2> QED BY <2>1, <2>2 DEF TimesInv
<1>8. AloneInv'
  <2>1. \A s, t \in Request : Written(s)' /\ Written(t)' => s = t
    BY <1>6 DEF GroupInv, AloneInv
  <2>2. \A s \in Request : groupRequest'[s].stage = "reads" /\ ~groupRequest'[s].stale =>
           groupRequest'[s].seen = group'
    BY <1>3, <1>4, <1>5 DEF GroupInv, AloneInv
  <2>3. ASSUME NEW s \in Request, Written(s)'
        PROVE  LET p == groupRequest'[s] IN
               /\ Group!May(group', p.op, p.by, p.who)
               /\ p.document \in Group!Results(group', p.op, p.by, p.who, p.at)
    BY <1>4, <1>6, <2>3 DEF GroupInv, AloneInv
  <2> QED BY <2>1, <2>2, <2>3 DEF AloneInv
<1>9. Good(group)' /\ Group!GoneTogether'
  BY DEF GroupInv, Good, Group!Exists, Group!GoneTogether
<1> QED BY <1>2, <1>7, <1>8, <1>9 DEF GroupInv

\* The parts of GroupInv hold when a request begins.
LEMMA BeginStep ==
  ASSUME GroupInv, NEW r \in Request, NEW op \in Group!Operations, NEW by \in Users,
         NEW who \in SUBSET Users, Group!Begin(r, op, by, who)
  PROVE  GroupInv'
<1> DEFINE q == Group!Reading(op, by, who, 1)
<1>1. q \in Reading /\ q.seen = group
  BY BoundsAssumption DEF Group!Reading, Reading, GroupInv, GroupTypes
<1>2. /\ groupRequest' = [groupRequest EXCEPT ![r] = q]
      /\ UNCHANGED <<group, groupMessages>>
      /\ groupRequest[r] = Group!Idle /\ groupBegun' = groupBegun + 1
      /\ groupBegun < MaxRequests
  BY DEF Group!Begin
<1>3. q # Group!Idle
  BY <1>1 DEF Reading, Group!Idle
<1> HIDE DEF q
<1>4. Cardinality(Underway) \in Nat /\ Cardinality(Underway)' = Cardinality(Underway) + 1
  BY <1>2, <1>3, OneMoves DEF GroupInv, GroupTypes
<1>5. groupBegun \in Nat /\ groupBegun' \in 0..MaxRequests /\ Ended \in Nat
  BY <1>2, BoundsAssumption DEF GroupInv, GroupTypes, TimesInv
<1>6. Ended' = Ended
  BY <1>2, <1>4, <1>5 DEF Ended
<1>7. Ended' \in Nat /\ Ended <= Ended'
  BY <1>5, <1>6
<1> QED BY Zenon, <1>1, <1>2, <1>5, <1>7, QuietStep

\* The request reads again, or will, in an attempt of its own.
LEMMA AgainStep ==
  ASSUME GroupInv, NEW r \in Request, groupRequest[r] # Group!Idle,
         NEW q \in Beginning \union Reading, q \in Reading => q.seen = group,
         groupRequest' = [groupRequest EXCEPT ![r] = q],
         UNCHANGED <<group, groupMessages, groupBegun>>
  PROVE  GroupInv'
<1>1. q # Group!Idle
  BY DEF Beginning, Reading, Group!Idle
<1>2. Cardinality(Underway) \in Nat /\ Cardinality(Underway)' = Cardinality(Underway)
  BY <1>1, OneMoves DEF GroupInv, GroupTypes
<1>3. groupBegun' \in 0..MaxRequests /\ Ended \in Nat
  BY DEF GroupInv, GroupTypes, TimesInv
<1>4. Ended' = Ended
  BY <1>2 DEF Ended
<1>5. Ended' \in Nat /\ Ended <= Ended'
  BY <1>3, <1>4
<1>6. q \in {Group!Idle} \union Beginning \union Reading /\ UNCHANGED <<group, groupMessages>>
  OBVIOUS
<1> QED BY Zenon, <1>3, <1>5, <1>6, QuietStep

\* The parts of GroupInv hold when a request ends without a write, or is given up.
LEMMA FinishStep ==
  ASSUME GroupInv, NEW r \in Request, groupRequest[r] # Group!Idle, Group!Finish(r),
         UNCHANGED <<group, groupMessages, groupBegun>>
  PROVE  GroupInv'
<1>1. groupRequest' = [groupRequest EXCEPT ![r] = Group!Idle]
  BY DEF Group!Finish
<1>2. Cardinality(Underway) \in Nat /\ Cardinality(Underway)' = Cardinality(Underway) - 1
  BY <1>1, OneMoves DEF GroupInv, GroupTypes
<1>3. groupBegun \in Nat /\ groupBegun' \in 0..MaxRequests /\ Ended \in Nat
  BY BoundsAssumption DEF GroupInv, GroupTypes, TimesInv
<1>4. Ended' = Ended + 1
  BY <1>2, <1>3 DEF Ended
<1>5. Ended' \in Nat /\ Ended <= Ended'
  BY <1>3, <1>4
<1>6. /\ Group!Idle \in {Group!Idle} \union Beginning \union Reading
      /\ ~(Group!Idle \in Reading) /\ UNCHANGED <<group, groupMessages>>
  BY DEF Group!Idle, Reading
<1> QED BY Zenon, <1>1, <1>3, <1>5, <1>6, QuietStep
\* A request that is under way counts against the bound on their number.
LEMMA RoomLeft ==
  ASSUME GroupInv, NEW r \in Request, groupRequest[r] # Group!Idle
  PROVE  Ended + 1 \in 0..MaxRequests
<1>1. IsFiniteSet(Underway) /\ Underway # {}
  BY FinitenessAssumption, FS_Subset DEF Underway
<1>2. Cardinality(Underway) \in Nat /\ Cardinality(Underway) # 0
  BY <1>1, FS_CardinalityType, FS_EmptySet
<1>3. groupBegun \in Nat /\ groupBegun <= MaxRequests /\ MaxRequests \in Nat /\ Ended \in Nat
  BY BoundsAssumption DEF GroupInv, GroupTypes, TimesInv
<1> QED BY <1>2, <1>3 DEF Ended

\* The parts of GroupInv hold when a request writes: what it read is not stale.
LEMMA WriteStep ==
  ASSUME GroupInv, NEW r \in Request, Group!Write(r)
  PROVE  GroupInv'
<1> DEFINE q == groupRequest[r]
           now == Group!Now
<1>1. q \in Reading /\ q.seen = group /\ q # Group!Idle
  BY StageTells DEF Group!Write, Group!Free, GroupInv, AloneInv, Group!Idle
<1>2. \A s \in Request : ~Written(s)
  BY DEF Group!Write, Group!Free, Written
<1>3. PICK c \in Group!Results(q.seen, q.op, q.by, q.who, now) :
         groupRequest' = [groupRequest EXCEPT ![r] =
            [stage |-> "written", op |-> q.op, by |-> q.by, who |-> q.who,
             attempt |-> q.attempt, document |-> c, at |-> now]]
  BY DEF Group!Write
<1> DEFINE w == [stage |-> "written", op |-> q.op, by |-> q.by, who |-> q.who,
                 attempt |-> q.attempt, document |-> c, at |-> now]
<1>4. /\ now \in Nat /\ now <= Ended + 1
      /\ \A m \in groupMessages : m < now
      /\ \A e \in group.left : e.upto < now
  BY <1>2, NowLater
<1>5. now \in Time
  BY <1>1, <1>4, RoomLeft, BoundsAssumption DEF Time
<1>6. Group!May(group, q.op, q.by, q.who) /\ UNCHANGED <<group, groupMessages, groupBegun>>
  BY <1>1 DEF Group!Write, Group!Allowed
<1>7. q.op \in Group!Operations /\ q.by \in Users /\ q.who \in SUBSET Users
      /\ q.attempt \in 1..MaxAttempts
  BY <1>1 DEF Reading
<1>8. group \in Group!Channels(Time) /\ Good(group)
  BY DEF GroupInv, GroupTypes
<1> HIDE DEF q, now
<1>9. c \in Group!Channels(Time)
  BY <1>1, <1>3, <1>5, <1>6, <1>7, <1>8, ResultsGood
<1>10. w \in Writing /\ w # Group!Idle
  BY <1>5, <1>7, <1>9 DEF Writing, Group!Idle
<1>11. /\ w.stage = "written" /\ w.op = q.op /\ w.by = q.by /\ w.who = q.who
       /\ w.document = c /\ w.at = now
  OBVIOUS
<1>12. groupRequest' = [groupRequest EXCEPT ![r] = w]
  BY <1>3
<1> HIDE DEF w
<1>13. groupRequest \in [Request -> {Group!Idle} \union Beginning \union Reading \union Writing]
  BY DEF GroupInv, GroupTypes
<1>14. Ended' = Ended
  <2>1. Cardinality(Underway)' = Cardinality(Underway)
    BY <1>1, <1>10, <1>12, <1>13, OneMoves DEF q
  <2> QED BY <1>6, <2>1 DEF Ended
<1>15. groupRequest'[r] = w /\ \A s \in Request : s # r => groupRequest'[s] = groupRequest[s]
  BY <1>12, <1>13
<1>16. \A s \in Request : Written(s)' => s = r
  BY <1>2, <1>15 DEF Written
<1>17. GroupTypes'
  BY <1>6, <1>10, <1>12, <1>13 DEF GroupInv, GroupTypes
<1>18. TimesInv'
  BY <1>4, <1>6, <1>11, <1>14, <1>15, <1>16 DEF GroupInv, TimesInv
<1>19. AloneInv'
  <2>1. \A s \in Request : groupRequest'[s].stage = "reads" /\ ~groupRequest'[s].stale =>
           groupRequest'[s].seen = group'
    BY <1>6, <1>11, <1>15 DEF GroupInv, AloneInv
  <2>2. /\ Group!May(group', w.op, w.by, w.who)
        /\ w.document \in Group!Results(group', w.op, w.by, w.who, w.at)
    BY <1>1, <1>3, <1>6, <1>11
  <2> QED BY <1>15, <1>16, <2>1, <2>2 DEF AloneInv
<1>20. Good(group)' /\ Group!GoneTogether'
  BY <1>6 DEF GroupInv, Good, Group!Exists, Group!GoneTogether
<1> QED BY <1>17, <1>18, <1>19, <1>20 DEF GroupInv

\* The parts of GroupInv hold when a request commits: all the others are stale from here on.
LEMMA CommitStep ==
  ASSUME GroupInv, NEW r \in Request, Group!Commit(r)
  PROVE  GroupInv'
<1> DEFINE q == groupRequest[r]
           Kinds == {Group!Idle} \union Beginning \union Reading \union Writing
           Overtaken(p) == IF p.stage = "reads" THEN [p EXCEPT !.stale = TRUE] ELSE p
<1>1. q \in Writing /\ q # Group!Idle /\ Written(r)
  BY StageTells DEF Group!Commit, GroupInv, Group!Idle, Written
<1>2. /\ group' = q.document /\ groupMessages' = Group!MessagesAfter(q)
      /\ groupBegun' = groupBegun
      /\ groupRequest' = [s \in Request |->
            IF s = r THEN Group!Idle ELSE Overtaken(groupRequest[s])]
  BY DEF Group!Commit
<1>3. Group!May(group, q.op, q.by, q.who)
      /\ q.document \in Group!Results(group, q.op, q.by, q.who, q.at)
  BY <1>1 DEF GroupInv, AloneInv
<1>4. q.op \in Group!Operations /\ q.by \in Users /\ q.who \in SUBSET Users
      /\ q.at \in Nat /\ q.at \in Time
  BY <1>1, BoundsAssumption DEF Writing, Time
<1>5. Good(group) /\ group \in Group!Channels(Time) /\ groupMessages \in SUBSET Time
  BY DEF GroupInv, GroupTypes
<1>6. /\ Ended \in Nat /\ q.at <= Ended + 1
      /\ \A m \in groupMessages : m <= Ended
      /\ \A e \in group.left : e.upto <= Ended
  BY <1>1 DEF GroupInv, TimesInv
<1>7. groupRequest \in [Request -> Kinds]
  BY DEF GroupInv, GroupTypes
<1>8. \A p \in Kinds :
         /\ Overtaken(p) \in Kinds
         /\ Overtaken(p) = Group!Idle <=> p = Group!Idle
         /\ Overtaken(p).stage = p.stage
         /\ p.stage = "reads" => Overtaken(p).stale = TRUE
  <2> TAKE p \in Kinds
  <2>1. CASE p \in Reading
    <3>1. p.stage = "reads" /\ Overtaken(p) = [p EXCEPT !.stale = TRUE]
      BY <2>1 DEF Reading
    <3>2. [p EXCEPT !.stale = TRUE] \in Reading /\ [p EXCEPT !.stale = TRUE].stale = TRUE
      BY <2>1 DEF Reading
    <3>3. \A x \in Reading : x # Group!Idle /\ x.stage = "reads"
      BY DEF Reading, Group!Idle
    <3> QED BY <2>1, <3>1, <3>2, <3>3
  <2>2. CASE p \notin Reading
    <3>1. p.stage # "reads"
      BY <2>2 DEF Group!Idle, Beginning, Writing
    <3> QED BY <3>1
  <2> QED BY <2>1, <2>2
<1>9. groupRequest'[r] = Group!Idle
      /\ \A s \in Request : s # r => groupRequest'[s] = Overtaken(groupRequest[s])
  BY <1>2
<1> HIDE DEF q, Overtaken
<1>10. Ended' = Ended + 1
  <2>1. IsFiniteSet(Underway) /\ r \in Underway
    BY <1>1, FinitenessAssumption, FS_Subset DEF Underway, q
  <2>2. Underway' = Underway \ {r}
    BY <1>7, <1>8, <1>9 DEF Underway
  <2>3. Cardinality(Underway)' = Cardinality(Underway) - 1 /\ Cardinality(Underway) \in Nat
    BY <2>1, <2>2, FS_RemoveElement, FS_CardinalityType
  <2>4. groupBegun \in Nat
    BY BoundsAssumption DEF GroupInv, GroupTypes
  <2> QED BY <1>2, <2>3, <2>4 DEF Ended
<1>11. group' \in Group!Channels(Time) /\ Good(group')
  BY <1>2, <1>3, <1>4, <1>5, ResultsGood
<1>12. \A e \in group'.left : e.upto <= Ended + 1
  <2> DEFINE T == 0..Ended + 1
  <2>1. group \in Group!Channels(T) /\ q.at \in T
    BY <1>4, <1>5, <1>6, BoundsAssumption DEF Group!Channels, Time
  <2> HIDE DEF T
  <2>2. group' \in Group!Channels(T)
    BY <1>2, <1>3, <1>4, <1>5, <2>1, ResultsGood
  <2> QED BY <1>6, <2>2 DEF Group!Channels, T
<1>13. groupMessages' \subseteq groupMessages \union {q.at}
       /\ (~Group!Exists(group') => groupMessages' = {})
  BY <1>2 DEF Group!MessagesAfter
<1>14. \A s \in Request : ~Written(s)'
  BY <1>1, <1>7, <1>8, <1>9 DEF GroupInv, AloneInv, Written, Group!Idle
<1>15. GroupTypes'
  <2>1. groupRequest' \in [Request -> Kinds]
    BY <1>2, <1>7, <1>8
  <2>2. groupMessages' \in SUBSET Time /\ groupBegun' \in 0..MaxRequests
    BY <1>2, <1>4, <1>5, <1>13 DEF GroupInv, GroupTypes
  <2> QED BY <1>11, <2>1, <2>2 DEF GroupTypes
<1>16. TimesInv'
  <2>1. \A m \in groupMessages' : m <= Ended + 1
    BY <1>5, <1>6, <1>13, BoundsAssumption DEF Time
  <2> QED BY <1>6, <1>10, <1>12, <1>14, <2>1 DEF TimesInv
<1>17. AloneInv'
  <2>1. \A s \in Request : groupRequest'[s].stage = "reads" => groupRequest'[s].stale = TRUE
    BY <1>7, <1>8, <1>9 DEF Group!Idle
  <2> QED BY <1>14, <2>1 DEF AloneInv
<1>18. Group!GoneTogether'
  BY <1>13 DEF Group!GoneTogether, Group!Exists
<1>19. Good(group)'
  BY <1>11 DEF Good, Group!Exists
<1> QED BY <1>15, <1>16, <1>17, <1>18, <1>19 DEF GroupInv
\* GroupInv is inductive.
LEMMA NextGroupInv ==
  ASSUME GroupInv, Group!Next
  PROVE  GroupInv'
<1>1. PICK r \in Request :
        \/ \E op \in Group!Operations, by \in Users, who \in SUBSET Users :
              Group!Begin(r, op, by, who)
        \/ Group!ReadAgain(r) \/ Group!Refuse(r) \/ Group!Write(r) \/ Group!Conflict(r)
        \/ Group!Interrupted(r) \/ Group!Commit(r) \/ Group!CommitFails(r)
  BY DEF Group!Next
<1> DEFINE q == groupRequest[r]
<1>2. /\ q.stage = "begins" => q \in Beginning
      /\ q.stage = "reads" => q \in Reading
      /\ q.stage = "written" => q \in Writing
      /\ q = Group!Idle => q.stage = "idle"
  BY StageTells DEF GroupInv
<1>3. CASE \E op \in Group!Operations, by \in Users, who \in SUBSET Users :
             Group!Begin(r, op, by, who)
  BY <1>3, BeginStep
<1>4. CASE Group!ReadAgain(r)
  <2> DEFINE p == Group!Reading(q.op, q.by, q.who, q.attempt)
  <2>1. q \in Beginning /\ q # Group!Idle
    BY <1>2, <1>4 DEF Group!ReadAgain
  <2>2. p \in Reading /\ p.seen = group
    BY <2>1 DEF Group!Reading, Reading, Beginning, GroupInv, GroupTypes
  <2>3. groupRequest' = [groupRequest EXCEPT ![r] = p]
        /\ UNCHANGED <<group, groupMessages, groupBegun>>
    BY <1>4 DEF Group!ReadAgain
  <2> HIDE DEF p
  <2> QED BY <2>1, <2>2, <2>3, AgainStep
<1>5. CASE Group!Replay(r) /\ q \in Reading \union Writing
           /\ UNCHANGED <<group, groupMessages, groupBegun>>
  <2>1. q # Group!Idle
    BY <1>5 DEF Reading, Writing, Group!Idle
  <2>2. CASE Group!MayReplay(q)
    <3> DEFINE p == [stage |-> "begins", op |-> q.op, by |-> q.by, who |-> q.who,
                     attempt |-> q.attempt + 1]
    <3>1. groupRequest' = [groupRequest EXCEPT ![r] = p]
      BY <1>5, <2>2 DEF Group!Replay
    <3>2. q.attempt + 1 \in 1..MaxAttempts
      BY <1>5, <2>2, BoundsAssumption DEF Group!MayReplay, Reading, Writing
    <3>3. p \in Beginning
      BY <1>5, <3>2 DEF Reading, Writing, Beginning
    <3>4. p \notin Reading
      BY DEF Reading
    <3> HIDE DEF p
    <3> QED BY <1>5, <2>1, <3>1, <3>3, <3>4, AgainStep
  <2>3. CASE ~Group!MayReplay(q)
    <3>1. Group!Finish(r)
      BY <1>5, <2>3 DEF Group!Replay
    <3> QED BY <1>5, <2>1, <3>1, FinishStep
  <2> QED BY <2>2, <2>3
<1>6. CASE Group!Refuse(r)
  BY <1>2, <1>6, FinishStep DEF Group!Refuse
<1>7. CASE Group!Write(r)
  BY <1>7, WriteStep
<1>8. CASE Group!Conflict(r)
  BY <1>2, <1>5, <1>8 DEF Group!Conflict
<1>9. CASE Group!Interrupted(r)
  BY <1>2, <1>5, <1>9 DEF Group!Interrupted
<1>10. CASE Group!Commit(r)
  BY <1>10, CommitStep
<1>11. CASE Group!CommitFails(r)
  BY <1>2, <1>11, FinishStep DEF Group!CommitFails
<1> QED BY <1>1, <1>3, <1>4, <1>6, <1>7, <1>8, <1>9, <1>10, <1>11

\* A new group, and nothing asked of it yet.
LEMMA NewGroupInv ==
  ASSUME groupMessages = {}, groupBegun = 0, groupRequest = [r \in Request |-> Group!Idle],
         NEW by \in Users, NEW others \in SUBSET Users, group = Group!NewGroup(by, others)
  PROVE  GroupInv
<1>1. group = [users |-> others \union {by}, admins |-> {by}, owner |-> by, left |-> {}]
  BY DEF Group!NewGroup
<1>2. group \in Group!Channels(Time) /\ Good(group)
  BY <1>1 DEF Group!Channels, Good, Group!Exists
<1>3. GroupTypes
  BY <1>2, BoundsAssumption DEF GroupTypes
<1>4. \A r \in Request : groupRequest[r].stage = "idle"
  BY DEF Group!Idle
<1>5. Ended = 0
  <2>1. Cardinality({}) = 0
    BY FS_EmptySet
  <2> QED BY <2>1 DEF Ended, Underway
<1> QED BY <1>1, <1>2, <1>3, <1>4, <1>5
        DEF GroupInv, TimesInv, AloneInv, Written, Group!GoneTogether

\* The invariant of the members, whichever part of Chats moves.
THEOREM GroupAlways == Spec => []GroupInv
<1>1. Init => GroupInv
  <2>1. ASSUME Group!Init PROVE GroupInv
    BY <2>1, NewGroupInv DEF Group!Init
  <2>2. ASSUME Board!Init, GroupRests PROVE GroupInv
    <3>1. PICK by \in Users, others \in SUBSET Users : channel = Board!NewGroup(by, others)
      BY <2>2 DEF Board!Init
    <3>2. group = Group!NewGroup(by, others)
      BY <2>2, <3>1 DEF GroupRests, Board!NewGroup, Group!NewGroup
    <3> QED BY <2>2, <3>2, NewGroupInv DEF GroupRests
  <2> QED BY <2>1, <2>2 DEF Init
<1>2. GroupInv /\ [Next]_vars => GroupInv'
  <2>1. ASSUME GroupInv, UNCHANGED groupVars PROVE GroupInv'
    BY <2>1 DEF groupVars, GroupInv, GroupTypes, TimesInv, AloneInv, Good, Group!GoneTogether,
                Group!Exists, Ended, Underway, Written, Time
  <2> QED BY <2>1, NextGroupInv DEF Next, vars
<1> QED BY <1>1, <1>2, PTL DEF Spec
-----------------------------------------------------------------------------
(* What follows of the promises.                                           *)

\* The channel as GroupChannel sees it: a former member keeps messages, not a time.
Seen == [group EXCEPT !.left = Group!Kept]

\* What the refinement mapping makes of the channel.
LEMMA SeenIs ==
  ASSUME GroupInv
  PROVE  Seen = [users |-> group.users, admins |-> group.admins, owner |-> group.owner,
                 left |-> Group!Kept]
  BY LeftUpdated DEF Seen, GroupInv, GroupTypes

\* Whatever requests run at once, the owner and the admins are members, nobody is a
\* member and a former member, and no message outlives the channel.
THEOREM AlwaysOrderly == Spec => []Orderly
<1>1. ASSUME GroupInv PROVE Orderly
  <2>1. Group!TypeOK
    <3>1. \A r \in Request :
             groupRequest[r] \in {Group!Idle} \union Beginning \union Reading \union Writing
      BY <1>1 DEF GroupInv, GroupTypes
    <3>2. \A q \in Beginning \union Reading \union Writing :
             /\ q.stage \in {"begins", "reads", "written"}
             /\ q.op \in Group!Operations /\ q.by \in Users /\ q.who \in SUBSET Users
             /\ q.attempt \in 1..MaxAttempts
      BY DEF Beginning, Reading, Writing
    <3>3. group \in Group!Channels(Group!Time) /\ groupMessages \in SUBSET Group!Time
          /\ groupBegun \in 0..MaxRequests
      BY <1>1 DEF GroupInv, GroupTypes, Time, Group!Time
    <3> QED BY <3>1, <3>2, <3>3 DEF Group!TypeOK
  <2>2. Group!Ruled
    BY <1>1, SeenIs DEF Seen, GroupInv, Good, Group!Ruled, Group!Promise!Ruled, Group!Exists,
                        Group!Promise!Exists
  <2>3. Group!LeftApart
    <3>1. ASSUME NEW e \in Group!Kept
          PROVE  \E x \in group.left :
                    e = [user |-> x.user, show |-> x.show, upto |-> Group!Readable(x.upto)]
      BY <3>1 DEF Group!Kept
    <3>2. \A e \in Group!Kept : e.user \notin group.users
      BY <1>1, <3>1 DEF GroupInv, Good
    <3>3. ASSUME NEW e \in Group!Kept, NEW f \in Group!Kept, e.user = f.user PROVE e = f
      <4>1. PICK x \in group.left :
               e = [user |-> x.user, show |-> x.show, upto |-> Group!Readable(x.upto)]
        BY <3>1
      <4>2. PICK y \in group.left :
               f = [user |-> y.user, show |-> y.show, upto |-> Group!Readable(y.upto)]
        BY <3>1
      <4>3. x.user = y.user
        BY <3>3, <4>1, <4>2
      <4>4. x = y
        BY <1>1, <4>3 DEF GroupInv, Good
      <4> QED BY <4>1, <4>2, <4>4
    <3> QED BY <1>1, <3>2, <3>3, SeenIs DEF Seen, Group!LeftApart, Group!Promise!LeftApart
  <2>4. Group!GoneTogether
    BY <1>1 DEF GroupInv
  <2> QED BY <2>1, <2>2, <2>3, <2>4 DEF Orderly, Group!Orderly
<1> QED BY <1>1, GroupAlways, PTL
\* The channel and its messages change by a commit alone.
LEMMA OnlyCommits ==
  ASSUME [Next]_vars
  PROVE  UNCHANGED <<group, groupMessages>> \/ \E r \in Request : Group!Commit(r)
<1>1. UNCHANGED groupVars \/ Group!Next
  BY DEF Next, vars
<1> QED BY <1>1 DEF groupVars, Group!Next, Group!Begin, Group!ReadAgain, Group!Refuse, Group!Write,
           Group!Conflict, Group!Interrupted, Group!CommitFails

\* What a commit makes of the channel, by a request that is allowed to it at that moment.
LEMMA CommitDoes ==
  ASSUME GroupInv, NEW r \in Request, Group!Commit(r)
  PROVE  \E op \in Group!Operations, by \in Users, who \in SUBSET Users, at \in Time :
            /\ Group!May(group, op, by, who) /\ group' \in Group!Results(group, op, by, who, at)
            /\ \A m \in groupMessages : m < at
            /\ \A e \in group.left : e.upto < at
            /\ groupMessages' = IF ~Group!Exists(group') THEN {}
                                ELSE IF op = "send" THEN groupMessages \union {at}
                                ELSE groupMessages
<1> DEFINE q == groupRequest[r]
<1>1. q \in Writing /\ Written(r)
  BY StageTells DEF Group!Commit, GroupInv, Written
<1>2. q.op \in Group!Operations /\ q.by \in Users /\ q.who \in SUBSET Users /\ q.at \in Time
  BY <1>1 DEF Writing
<1>3. /\ Group!May(group, q.op, q.by, q.who)
      /\ q.document \in Group!Results(group, q.op, q.by, q.who, q.at)
      /\ \A m \in groupMessages : m < q.at
      /\ \A e \in group.left : e.upto < q.at
  BY <1>1 DEF GroupInv, AloneInv, TimesInv
<1>4. group' = q.document /\ groupMessages' = Group!MessagesAfter(q)
  BY DEF Group!Commit
<1>5. groupMessages' = IF ~Group!Exists(group') THEN {}
                       ELSE IF q.op = "send" THEN groupMessages \union {q.at}
                       ELSE groupMessages
  BY <1>4 DEF Group!MessagesAfter
<1> HIDE DEF q
<1> QED BY <1>2, <1>3, <1>4, <1>5

\* Only its owner's leaving takes a channel from him, whatever runs at once.
THEOREM OwnerAlwaysKeeps == Spec => OwnerKeeps
<1> DEFINE A == Seen'.owner # Seen.owner =>
                  /\ Seen.owner \in Seen.users \ Seen'.users
                  /\ Group!Promise!HasLeft(Seen', Seen.owner)
<1>1. ASSUME GroupInv, GroupInv', [Next]_vars
      PROVE  [A]_<<Seen, groupMessages>>
  <2>1. CASE UNCHANGED <<group, groupMessages>>
    BY <2>1 DEF Seen, Group!Kept, Group!Readable
  <2>2. ASSUME NEW r \in Request, Group!Commit(r) PROVE A
    <3>1. PICK op \in Group!Operations, by \in Users, who \in SUBSET Users, at \in Time :
             Group!May(group, op, by, who) /\ group' \in Group!Results(group, op, by, who, at)
      BY <1>1, <2>2, CommitDoes
    <3>2. group'.owner # group.owner =>
             group.owner \in group.users \ group'.users /\ Group!HasLeft(group', group.owner)
      BY <1>1, <3>1, ResultsGood DEF GroupInv, GroupTypes
    <3>3. /\ Seen.owner = group.owner /\ Seen.users = group.users
          /\ Seen'.owner = group'.owner /\ Seen'.users = group'.users
          /\ Seen'.left = Group!Kept'
      <4>1. Seen.owner = group.owner /\ Seen.users = group.users /\ Seen.left = Group!Kept
        BY <1>1, SeenIs
      <4>2. Seen' = [group' EXCEPT !.left = Group!Kept'] /\ group' \in Group!Channels(Time)
        BY <1>1 DEF Seen, GroupInv, GroupTypes, Time
      <4> QED BY <4>1, <4>2, LeftUpdated
    <3>4. ASSUME NEW e \in group'.left PROVE \E k \in Group!Kept' : k.user = e.user
      <4> DEFINE k == [user |-> e.user, show |-> e.show, upto |-> Group!Readable(e.upto)']
      <4>1. k \in Group!Kept'
        BY DEF Group!Kept
      <4> QED BY <4>1
    <3> QED BY <3>2, <3>3, <3>4 DEF Group!HasLeft, Group!Promise!HasLeft
  <2> QED BY <1>1, <2>1, <2>2, OnlyCommits
<1> QED BY <1>1, GroupAlways, PTL DEF Spec, OwnerKeeps, Group!OwnerKeeps, Group!Promise!OwnerKeeps,
           Group!Promise!vars, Seen
-----------------------------------------------------------------------------
(* Requests that overlap come out as if each had run alone.  What the      *)
(* rules make of a channel that keeps times, and of the one that keeps     *)
(* messages in their place, is the same.                                   *)

Kept(e) == [user |-> e.user, show |-> e.show, upto |-> Group!Readable(e.upto)]

View(L) == {Kept(e) : e \in L}

\* A former member is one in both, with the same entry.
LEMMA ViewKeeps ==
  ASSUME NEW L
  PROVE  /\ \A e \in L : Kept(e) \in View(L) /\ Kept(e).user = e.user
                         /\ Kept(e).show = e.show /\ Kept(e).upto = Group!Readable(e.upto)
         /\ \A k \in View(L) : \E e \in L : k = Kept(e)
  BY DEF View, Kept

\* The rules of the promise are the rules.
LEMMA SamePromise ==
  /\ Group!Promise!Operations = Group!Operations
  /\ \A S : Group!Promise!Cardinality(S) = Group!Cardinality(S)
  /\ \A c : Group!Promise!Exists(c) = Group!Exists(c)
  BY DEF Group!Promise!Operations, Group!Operations, Group!Promise!Cardinality,
         Group!Cardinality, Group!Promise!Exists, Group!Exists

\* Who may do something, may in the channel as it is seen.
LEMMA MayIsSeen ==
  ASSUME GroupInv, NEW op, NEW by, NEW who, Group!May(group, op, by, who)
  PROVE  Group!Promise!May(Seen, op, by, who)
<1>1. /\ Seen.users = group.users /\ Seen.admins = group.admins /\ Seen.owner = group.owner
      /\ Seen.left = View(group.left)
  BY SeenIs DEF Group!Kept, View, Kept
<1>2. Group!StillShown(group, by) => Group!Promise!StillShown(Seen, by)
  BY <1>1, ViewKeeps DEF Group!StillShown, Group!Promise!StillShown
<1>3. /\ Group!MayAdd(group, by, who) => Group!Promise!MayAdd(Seen, by, who)
      /\ Group!MayRemove(group, by, who) => Group!Promise!MayRemove(Seen, by, who)
      /\ Group!MayLeave(group, by) => Group!Promise!MayLeave(Seen, by)
      /\ Group!MaySend(group, by) => Group!Promise!MaySend(Seen, by)
  BY <1>1, <1>2 DEF Group!MayAdd, Group!Promise!MayAdd, Group!MayRemove, Group!Promise!MayRemove,
     Group!MayLeave, Group!Promise!MayLeave, Group!MaySend, Group!Promise!MaySend
<1>4. ASSUME NEW u
      PROVE  /\ Group!MayPromote(group, by, u) => Group!Promise!MayPromote(Seen, by, u)
             /\ Group!MayDemote(group, by, u) => Group!Promise!MayDemote(Seen, by, u)
  BY <1>1, SamePromise DEF Group!MayPromote, Group!Promise!MayPromote, Group!MayDemote,
     Group!Promise!MayDemote
<1> QED BY <1>3, <1>4 DEF Group!May, Group!Promise!May

\* What he keeps who leaves now is all there is.
LEMMA AllKept ==
  ASSUME NEW at, \A m \in groupMessages : m <= at
  PROVE  Group!Readable(at) = groupMessages
  BY DEF Group!Readable

\* The entries of a removal, seen through the mapping.
LEMMA EntriesSeen ==
  ASSUME NEW at, Group!Readable(at) = groupMessages, NEW who
  PROVE  View(Group!Entries(who, at)) = Group!Promise!Entries(who, groupMessages)
<1> DEFINE old(u) == [user |-> u, upto |-> at, show |-> TRUE]
           new(u) == [user |-> u, upto |-> groupMessages, show |-> TRUE]
<1>1. \A u : Kept(old(u)) = new(u)
  BY DEF Kept
<1>2. Group!Entries(who, at) = {old(u) : u \in who}
      /\ Group!Promise!Entries(who, groupMessages) = {new(u) : u \in who}
  BY DEF Group!Entries, Group!Promise!Entries
<1> HIDE DEF old, new
<1> QED BY <1>1, <1>2 DEF View

\* What an entry is once its flag is written.
LEMMA ShowUpdated ==
  ASSUME NEW U, NEW M, NEW S, NEW k \in [user : U, upto : M, show : S], NEW v
  PROVE  [k EXCEPT !.show = v] = [user |-> k.user, upto |-> k.upto, show |-> v]
  OBVIOUS

\* The entries after somebody leaves, seen through the mapping.
LEMMA LeftSeen ==
  ASSUME GroupInv, NEW at \in Time, Group!Readable(at) = groupMessages, NEW by \in Users
  PROVE  View(Group!LeftAfter(group, by, at)) = Group!Promise!LeftAfter(Seen, by, groupMessages)
<1>1. Seen.left = View(group.left)
  BY SeenIs DEF Group!Kept, View, Kept
<1>2. Group!HasLeft(group, by) <=> Group!Promise!HasLeft(Seen, by)
  BY <1>1, ViewKeeps DEF Group!HasLeft, Group!Promise!HasLeft
<1>3. CASE Group!HasLeft(group, by)
  <2> DEFINE H(e) == IF e.user = by THEN [e EXCEPT !.show = FALSE] ELSE e
  <2>1. \A e \in group.left : Kept(H(e)) = H(Kept(e))
    <3>1. \A e \in group.left : e.user = by =>
             /\ H(e).user = e.user /\ H(e).show = FALSE /\ H(e).upto = e.upto
      BY DEF GroupInv, GroupTypes, Group!Channels
    <3>2. ASSUME NEW e \in group.left
          PROVE  /\ [Kept(e) EXCEPT !.show = FALSE] =
                       [user |-> e.user, show |-> FALSE, upto |-> Group!Readable(e.upto)]
                 /\ Kept(e).user = e.user
      <4> DEFINE m == Group!Readable(e.upto)
      <4>1. Kept(e) = [user |-> e.user, show |-> e.show, upto |-> m]
        BY DEF Kept
      <4> HIDE DEF m
      <4>2. Kept(e) \in [user : Users, upto : {m}, show : BOOLEAN]
        BY <4>1 DEF GroupInv, GroupTypes, Group!Channels
      <4>3. [Kept(e) EXCEPT !.show = FALSE] =
               [user |-> Kept(e).user, upto |-> Kept(e).upto, show |-> FALSE]
        <5> DEFINE k == Kept(e)
        <5>1. k \in [user : Users, upto : {m}, show : BOOLEAN]
          BY <4>2
        <5> HIDE DEF k
        <5>2. \A v : [k EXCEPT !.show = v] = [user |-> k.user, upto |-> k.upto, show |-> v]
          BY <5>1, ShowUpdated
        <5>3. [k EXCEPT !.show = FALSE] = [user |-> k.user, upto |-> k.upto, show |-> FALSE]
          BY ONLY <5>2
        <5> QED BY <5>3 DEF k
      <4>4. Kept(e).user = e.user /\ Kept(e).upto = m
        BY <4>1
      <4> QED BY <4>3, <4>4 DEF m
    <3>3. ASSUME NEW e \in group.left, e.user = by PROVE Kept(H(e)) = H(Kept(e))
      BY <3>1, <3>2, <3>3 DEF Kept
    <3>4. ASSUME NEW e \in group.left, e.user # by PROVE Kept(H(e)) = H(Kept(e))
      BY <3>2, <3>4
    <3> QED BY <3>3, <3>4
  <2>2. Group!LeftAfter(group, by, at) = {H(e) : e \in group.left}
        /\ Group!Promise!LeftAfter(Seen, by, groupMessages) = {H(k) : k \in View(group.left)}
    BY <1>1, <1>2, <1>3 DEF Group!LeftAfter, Group!Promise!LeftAfter
  <2> HIDE DEF H
  <2> QED BY <2>1, <2>2 DEF View
<1>4. CASE ~Group!HasLeft(group, by)
  <2>1. Group!LeftAfter(group, by, at) = group.left \union Group!Entries({by}, at)
        /\ Group!Promise!LeftAfter(Seen, by, groupMessages) =
              View(group.left) \union Group!Promise!Entries({by}, groupMessages)
    BY <1>1, <1>2, <1>4 DEF Group!LeftAfter, Group!Promise!LeftAfter
  <2>2. View(group.left \union Group!Entries({by}, at)) =
           View(group.left) \union View(Group!Entries({by}, at))
    BY DEF View
  <2> QED BY <2>1, <2>2, EntriesSeen
<1> QED BY <1>3, <1>4
\* What the rules make of the channel, and of the channel as it is seen.
LEMMA ResultsAreSeen ==
  ASSUME GroupInv, NEW op \in Group!Operations \ {"send"}, NEW by \in Users,
         NEW who \in SUBSET Users, NEW at \in Time, Group!Readable(at) = groupMessages,
         Group!May(group, op, by, who), NEW d \in Group!Results(group, op, by, who, at)
  PROVE  [users |-> d.users, admins |-> d.admins, owner |-> d.owner, left |-> View(d.left)]
            \in Group!Promise!Results(Seen, op, by, who, groupMessages)
<1> DEFINE s == [users |-> d.users, admins |-> d.admins, owner |-> d.owner,
                 left |-> View(d.left)]
<1>1. /\ Seen = [users |-> group.users, admins |-> group.admins, owner |-> group.owner,
                 left |-> View(group.left)]
      /\ Seen \in Group!Channels(SUBSET groupMessages)
      /\ group \in Group!Channels(Time)
  <2>1. Seen = [users |-> group.users, admins |-> group.admins, owner |-> group.owner,
                left |-> View(group.left)]
    BY SeenIs DEF Group!Kept, View, Kept
  <2>2. \A e \in group.left :
           Kept(e) \in [user : Users, upto : SUBSET groupMessages, show : BOOLEAN]
    BY DEF GroupInv, GroupTypes, Group!Channels, Kept, Group!Readable
  <2>3. View(group.left) \in
           SUBSET [user : Users, upto : SUBSET groupMessages, show : BOOLEAN]
    BY <2>2 DEF View
  <2> QED BY <2>1, <2>3 DEF GroupInv, GroupTypes, Group!Channels
<1> DEFINE c == Seen
<1>2. c.users = group.users /\ c.admins = group.admins /\ c.owner = group.owner
      /\ c.left = View(group.left)
  BY <1>1
<1>3. \A U, A, L :
        /\ [group EXCEPT !.users = U, !.left = L] =
             [users |-> U, admins |-> group.admins, owner |-> group.owner, left |-> L]
        /\ [c EXCEPT !.users = U, !.left = L] =
             [users |-> U, admins |-> c.admins, owner |-> c.owner, left |-> L]
        /\ [group EXCEPT !.users = U, !.admins = A, !.left = L] =
             [users |-> U, admins |-> A, owner |-> group.owner, left |-> L]
        /\ [c EXCEPT !.users = U, !.admins = A, !.left = L] =
             [users |-> U, admins |-> A, owner |-> c.owner, left |-> L]
  <2> TAKE U, A, L
  <2>1. [group EXCEPT !.users = U, !.left = L] =
           [users |-> U, admins |-> group.admins, owner |-> group.owner, left |-> L]
    BY Zenon, <1>1, UsersUpdated
  <2>2. [group EXCEPT !.users = U, !.admins = A, !.left = L] =
           [users |-> U, admins |-> A, owner |-> group.owner, left |-> L]
    BY Zenon, <1>1, AllUpdated
  <2>3. [c EXCEPT !.users = U, !.left = L] =
           [users |-> U, admins |-> c.admins, owner |-> c.owner, left |-> L]
    BY Zenon, <1>1, UsersUpdated
  <2>4. [c EXCEPT !.users = U, !.admins = A, !.left = L] =
           [users |-> U, admins |-> A, owner |-> c.owner, left |-> L]
    <3>1. Seen \in Group!Channels(SUBSET groupMessages)
      BY <1>1
    <3> QED BY Zenon, <3>1, AllUpdated
  <2> QED BY Zenon, <2>1, <2>2, <2>3, <2>4
<1>4. CASE op = "add"
  <2> DEFINE L == {e \in group.left : e.user \notin who}
             K == {k \in c.left : k.user \notin who}
  <2>1. d = [group EXCEPT !.users = @ \union who, !.left = L]
    BY <1>4 DEF Group!Results, Group!Added
  <2>2. Group!Promise!Added(c, by, who) = [c EXCEPT !.users = @ \union who, !.left = K]
    BY DEF Group!Promise!Added
  <2>3. View(L) = K
    BY <1>2 DEF View, Kept
  <2> HIDE DEF L, K
  <2>4. d = [users |-> group.users \union who, admins |-> group.admins, owner |-> group.owner,
             left |-> L]
    BY <1>3, <2>1
  <2>5. Group!Promise!Added(c, by, who) =
           [users |-> c.users \union who, admins |-> c.admins, owner |-> c.owner, left |-> K]
    BY <1>3, <2>2
  <2>6. s = Group!Promise!Added(c, by, who)
    BY <1>2, <2>3, <2>4, <2>5
  <2> QED BY <1>4, <2>6 DEF Group!Promise!Results
<1>5. CASE op = "remove"
  <2> DEFINE L == group.left \union Group!Entries(who, at)
             K == c.left \union Group!Promise!Entries(who, groupMessages)
  <2>1. d = [group EXCEPT !.users = @ \ who, !.admins = @ \ who, !.left = L]
    BY <1>5 DEF Group!Results, Group!Removed
  <2>2. Group!Promise!Removed(c, by, who, groupMessages) =
           [c EXCEPT !.users = @ \ who, !.admins = @ \ who, !.left = K]
    BY DEF Group!Promise!Removed
  <2>3. View(L) = K
    <3>1. View(L) = View(group.left) \union View(Group!Entries(who, at))
      BY DEF View
    <3> QED BY <1>2, <3>1, EntriesSeen
  <2> HIDE DEF L, K
  <2>4. d = [users |-> group.users \ who, admins |-> group.admins \ who, owner |-> group.owner,
             left |-> L]
    BY <1>3, <2>1
  <2>5. Group!Promise!Removed(c, by, who, groupMessages) =
           [users |-> c.users \ who, admins |-> c.admins \ who, owner |-> c.owner, left |-> K]
    BY <1>3, <2>2
  <2>6. s = Group!Promise!Removed(c, by, who, groupMessages)
    BY <1>2, <2>3, <2>4, <2>5
  <2> QED BY <1>5, <2>6 DEF Group!Promise!Results
<1>6. CASE op \in {"promote", "demote"}
  <2>1. ASSUME NEW u
        PROVE  /\ Group!Promoted(group, by, u) =
                    [users |-> group.users, admins |-> group.admins \union {u},
                     owner |-> group.owner, left |-> group.left]
               /\ Group!Promise!Promoted(c, by, u) =
                    [users |-> c.users, admins |-> c.admins \union {u}, owner |-> c.owner,
                     left |-> c.left]
               /\ Group!Demoted(group, by, u) =
                    [users |-> group.users, admins |-> group.admins \ {u},
                     owner |-> group.owner, left |-> group.left]
               /\ Group!Promise!Demoted(c, by, u) =
                    [users |-> c.users, admins |-> c.admins \ {u}, owner |-> c.owner,
                     left |-> c.left]
    BY <1>1, AdminsUpdated DEF Group!Promoted, Group!Promise!Promoted, Group!Demoted,
       Group!Promise!Demoted
  <2>2. CASE op = "promote"
    <3>1. PICK u \in who : d = Group!Promoted(group, by, u)
      BY <2>2 DEF Group!Results
    <3>2. d.users = group.users /\ d.admins = group.admins \union {u} /\ d.owner = group.owner
          /\ d.left = group.left
      BY <2>1, <3>1
    <3>3. s = Group!Promise!Promoted(c, by, u)
      BY <1>2, <2>1, <3>2
    <3> QED BY <2>2, <3>1, <3>3 DEF Group!Promise!Results
  <2>3. CASE op = "demote"
    <3>1. PICK u \in who : d = Group!Demoted(group, by, u)
      BY <2>3 DEF Group!Results
    <3>2. d.users = group.users /\ d.admins = group.admins \ {u} /\ d.owner = group.owner
          /\ d.left = group.left
      BY <2>1, <3>1
    <3>3. s = Group!Promise!Demoted(c, by, u)
      BY <1>2, <2>1, <3>2
    <3> QED BY <2>3, <3>1, <3>3 DEF Group!Promise!Results
  <2> QED BY <1>6, <2>2, <2>3
<1>7. CASE op = "leave"
  <2>1. Group!Promise!Remaining(c, by) = Group!Remaining(group, by)
    BY <1>2 DEF Group!Promise!Remaining, Group!Remaining
  <2>2. CASE Group!Remaining(group, by) = {}
    <3>1. d = Group!ChannelDeleted(group)
      BY <1>7, <2>2 DEF Group!Results
    <3>2. d = [users |-> {}, admins |-> {}, owner |-> group.owner, left |-> {}]
      BY <1>3, <3>1 DEF Group!ChannelDeleted
    <3>3. Group!Promise!ChannelDeleted(c) =
             [users |-> {}, admins |-> {}, owner |-> c.owner, left |-> {}]
      BY <1>3 DEF Group!Promise!ChannelDeleted
    <3>4. s = Group!Promise!ChannelDeleted(c)
      BY <1>2, <3>2, <3>3 DEF View
    <3> QED BY <1>7, <2>1, <2>2, <3>4 DEF Group!Promise!Results
  <2>3. CASE Group!Remaining(group, by) # {}
    <3>1. d \in Group!Leavings(group, by, at)
      BY <1>7, <2>3 DEF Group!Results
    <3>2. PICK admins \in Group!AdminsAfter(group, by) :
             \E owner \in Group!OwnersAfter(group, by, admins) :
                d = [users |-> Group!Remaining(group, by), admins |-> admins, owner |-> owner,
                     left |-> Group!LeftAfter(group, by, at)]
      BY <3>1 DEF Group!Leavings
    <3>3. PICK owner \in Group!OwnersAfter(group, by, admins) :
             d = [users |-> Group!Remaining(group, by), admins |-> admins, owner |-> owner,
                  left |-> Group!LeftAfter(group, by, at)]
      BY <3>2
    <3>4. Group!Promise!AdminsAfter(c, by) = Group!AdminsAfter(group, by)
          /\ Group!Promise!OwnersAfter(c, by, admins) = Group!OwnersAfter(group, by, admins)
      BY <1>2, <2>1 DEF Group!Promise!AdminsAfter, Group!AdminsAfter, Group!Promise!OwnersAfter,
         Group!OwnersAfter
    <3>5. s = [users |-> Group!Promise!Remaining(c, by), admins |-> admins, owner |-> owner,
               left |-> Group!Promise!LeftAfter(c, by, groupMessages)]
      BY <2>1, <3>3, LeftSeen
    <3>6. s \in Group!Promise!Leavings(c, by, groupMessages)
      BY <3>4, <3>5 DEF Group!Promise!Leavings
    <3> QED BY <1>7, <2>1, <2>3, <3>6 DEF Group!Promise!Results
  <2> QED BY <2>2, <2>3
<1> QED BY <1>4, <1>5, <1>6, <1>7 DEF Group!Operations
\* A new group is one to the promise too.
LEMMA InitIsSeen ==
  ASSUME groupMessages = {}, NEW by \in Users, NEW others \in SUBSET Users,
         by \notin others, Group!Cardinality(others) > 1, group = Group!NewGroup(by, others)
  PROVE  Group!Promise!Init
<1>1. group = [users |-> others \union {by}, admins |-> {by}, owner |-> by, left |-> {}]
  BY DEF Group!NewGroup
<1>2. group \in Group!Channels(Time) /\ Group!Kept = {}
  BY <1>1 DEF Group!Channels, Group!Kept
<1>3. Seen = Group!Promise!NewGroup(by, others)
  BY <1>1, <1>2, LeftUpdated DEF Seen, Group!Promise!NewGroup
<1> QED BY <1>3, SamePromise DEF Seen, Group!Promise!Init

\* A commit is a step of the promise, by one who has the right to it then.
LEMMA CommitIsSeen ==
  ASSUME GroupInv, GroupInv', NEW r \in Request, Group!Commit(r)
  PROVE  [Group!Promise!Next]_<<Seen, groupMessages>>
<1>1. PICK op \in Group!Operations, by \in Users, who \in SUBSET Users, at \in Time :
         /\ Group!May(group, op, by, who) /\ group' \in Group!Results(group, op, by, who, at)
         /\ \A m \in groupMessages : m < at
         /\ \A e \in group.left : e.upto < at
         /\ groupMessages' = IF ~Group!Exists(group') THEN {}
                             ELSE IF op = "send" THEN groupMessages \union {at}
                             ELSE groupMessages
  BY CommitDoes
<1>2. /\ Seen = [users |-> group.users, admins |-> group.admins, owner |-> group.owner,
                 left |-> Group!Kept]
      /\ Seen' = [users |-> group'.users, admins |-> group'.admins, owner |-> group'.owner,
                  left |-> Group!Kept']
  <2>1. Seen' = [group' EXCEPT !.left = Group!Kept'] /\ group' \in Group!Channels(Time)
    BY DEF Seen, GroupInv, GroupTypes, Time
  <2> QED BY <2>1, SeenIs, LeftUpdated
<1>3. Group!Promise!May(Seen, op, by, who)
  BY <1>1, MayIsSeen
<1>4. /\ at \in Nat /\ groupMessages \subseteq Nat
      /\ \A e \in group.left : e.upto \in Nat
  BY BoundsAssumption DEF GroupInv, GroupTypes, Time, Group!Channels
<1>5. Group!Readable(at) = groupMessages /\ at \notin groupMessages
  BY <1>1, <1>4, AllKept
<1>6. CASE op = "send"
  <2>1. group' = group /\ Group!Exists(group') /\ who = {}
    BY <1>1, <1>6 DEF Group!Results, Group!May, Group!MaySend, Group!Exists
  <2>2. groupMessages' = groupMessages \union {at}
    BY <1>1, <1>6, <2>1
  <2>3. \A e \in group.left : Group!Readable(e.upto)' = Group!Readable(e.upto)
    BY <1>1, <1>4, <2>2 DEF Group!Readable
  <2>4. Group!Kept' = Group!Kept
    BY <2>1, <2>3 DEF Group!Kept
  <2>5. Seen' = Seen
    BY <1>2, <2>1, <2>4
  <2>6. Group!Promise!Send(by)
    <3>1. Group!Promise!May(Seen, "send", by, {})
      BY <1>3, <1>6, <2>1
    <3>2. at \in Group!Time \ groupMessages
      BY <1>5 DEF Group!Time, Time
    <3> QED BY <2>2, <2>5, <3>1, <3>2 DEF Seen, Group!Promise!Send
  <2>7. groupMessages' # groupMessages
    BY <1>5, <2>2
  <2> QED BY <2>6, <2>7 DEF Group!Promise!Next, Group!Promise!vars
<1>7. CASE op # "send"
  <2>1. Seen' \in Group!Promise!Results(Seen, op, by, who, groupMessages)
    <3> DEFINE s == [users |-> group'.users, admins |-> group'.admins, owner |-> group'.owner,
                     left |-> View(group'.left)]
    <3>1. s \in Group!Promise!Results(Seen, op, by, who, groupMessages)
      BY <1>1, <1>5, <1>7, ResultsAreSeen
    <3>2. Group!Kept' = View(group'.left)
      <4>1. CASE Group!Exists(group')
        <5>1. groupMessages' = groupMessages
          BY <1>1, <1>7, <4>1
        <5> QED BY <5>1 DEF Group!Kept, View, Kept, Group!Readable
      <4>2. CASE ~Group!Exists(group')
        <5>1. group'.left = {}
          BY <1>1, <4>2, DeletedWhole DEF GroupInv, GroupTypes
        <5> QED BY <5>1 DEF Group!Kept, View
      <4> QED BY <4>1, <4>2
    <3> QED BY <1>2, <3>1, <3>2
  <2>2. groupMessages' = IF Group!Promise!Exists(Seen') THEN groupMessages ELSE {}
    BY <1>1, <1>2, <1>7 DEF Group!Exists, Group!Promise!Exists
  <2>3. Group!Promise!Change(op, by, who)
    BY <1>3, <1>7, <2>1, <2>2 DEF Seen, Group!Promise!Change
  <2> QED BY <2>3, SamePromise DEF Group!Promise!Next, Group!Promise!vars, Seen
<1> QED BY <1>6, <1>7

\* Requests on the membership that overlap come out as if each had run alone, at the moment
\* of its commit: ChannelRequests implements GroupChannel.
THEOREM MembersAlwaysAsIfAlone == Spec => MembersAsIfAlone
<1>1. Init => Group!Promise!Init
  <2>1. ASSUME Group!Init PROVE Group!Promise!Init
    BY <2>1, InitIsSeen DEF Group!Init
  <2>2. ASSUME Board!Init, GroupRests PROVE Group!Promise!Init
    <3>1. PICK by \in Users, others \in SUBSET Users :
             by \notin others /\ Board!Cardinality(others) > 1
             /\ channel = Board!NewGroup(by, others)
      BY <2>2 DEF Board!Init
    <3>2. group = Group!NewGroup(by, others) /\ Group!Cardinality(others) > 1
      BY <2>2, <3>1 DEF GroupRests, Board!NewGroup, Group!NewGroup, Board!Cardinality,
         Group!Cardinality
    <3> QED BY <2>2, <3>1, <3>2, InitIsSeen DEF GroupRests
  <2> QED BY <2>1, <2>2 DEF Init
<1>2. ASSUME GroupInv, GroupInv', [Next]_vars
      PROVE  [Group!Promise!Next]_<<Seen, groupMessages>>
  <2>1. CASE UNCHANGED <<group, groupMessages>>
    BY <2>1 DEF Seen, Group!Kept, Group!Readable
  <2> QED BY <1>2, <2>1, CommitIsSeen, OnlyCommits
<1> QED BY <1>1, <1>2, GroupAlways, PTL DEF Spec, MembersAsIfAlone, Group!AsIfAlone,
           Group!Promise!Spec, Group!Promise!vars, Seen

-----------------------------------------------------------------------------
(***************************************************************************)
(* The messages.  The parts of the invariant of MessageRequests.           *)
(***************************************************************************)

Post == [sender : Users, status : {"active", "edited", "deleted"}, hidden : SUBSET Users,
         pinned : BOOLEAN, reactions : SUBSET Board!Reactions]

Deliveries == [Message -> Seq(Board!Receipts)]

\* All the documents at one time.
Stores == [channel : Board!Channels({0}), pins : SUBSET Message, posts : [Message -> Post],
           delivery : Deliveries]

\* What a request or a receipt has in hand, at each of its stages.
Asking == [stage : {"begins"}, form : Board!Forms, attempt : 1..MaxAttempts]
Looking == [stage : {"reads"}, form : Board!Forms, attempt : 1..MaxAttempts,
            seen : Stores, stale : SUBSET Board!Docs]
Holding == [stage : {"written"}, form : Board!Forms, attempt : 1..MaxAttempts,
            out : Stores, wrote : SUBSET Board!Docs]
Saving == [stage : {"saves"}, by : Users, kind : Board!Kinds, seen : Deliveries,
           what : (SUBSET Message) \ {{}}]

Stages == {Board!Idle} \union Asking \union Looking \union Holding \union Saving

BoardTypes ==
    /\ Board!Store \in Stores
    /\ topic.most \in Nat /\ begun \in 0..topic.most
    /\ request \in [Request -> Stages]

PinsInv ==
    /\ pins = {m \in Message : posts[m].pinned}
    /\ IsFiniteSet(pins) /\ Cardinality(pins) <= MaxPins

OncePerUser(R) == \A e, f \in R : e.user = f.user => e = f

ReactionsInv == \A m \in Message : OncePerUser(posts[m].reactions)

\* Two stores have the same in the documents W.
SameOn(S, T, W) ==
    /\ Board!ChannelDoc \in W => S.channel = T.channel /\ S.pins = T.pins
    /\ \A m \in W \intersect Message :
          S.posts[m] = T.posts[m] /\ S.delivery[m] = T.delivery[m]

\* What a form would make of the documents W of a store, and that it may.
Governs(S, f, out, W) ==
    /\ f.op \in Board!Governing /\ W = {Board!ChannelDoc}
    /\ Board!May(S.channel, f.op, f.by, f.who)
    /\ out.channel \in Board!Results(S.channel, f.op, f.by, f.who, 0)
    /\ out.pins = S.pins

Receives(S, f, out, W) ==
    /\ f.op \in Board!Kinds /\ W \subseteq Message
    /\ \A m \in W :
          /\ Board!Counts(S.posts[m], S.delivery[m], f.by, f.op)
          /\ out.posts[m] = S.posts[m]
          /\ out.delivery[m] = Board!Saved(S.delivery[m], S.delivery[m], f.by, f.op)

AsAsked(c, op, by) ==
    IF op \in {"pin", "unpin"} THEN c ELSE [c EXCEPT !.users = @ \union {by}]

Changes(S, f, out, W) ==
    LET named == W \intersect Message IN
    /\ f.op \in Board!MessageOperations
    /\ Board!ChannelDoc \in W <=> f.op \in {"pin", "unpin"}
    /\ named # {} =>
          Board!MayChange(AsAsked(S.channel, f.op, f.by), S.pins, S.posts, f.op, f.by, named)
    /\ Board!ChannelDoc \in W =>
          named # {} /\ out.channel = S.channel
          /\ out.pins = Board!PinsAfter(S.pins, f.op, named)
    /\ \E e \in Emoji : \A m \in named :
          /\ out.posts[m] = Board!PostAfter(S.posts[m], f.op, f.by, e)
          /\ out.delivery[m] = S.delivery[m]

Effect(S, f, out, W) == Governs(S, f, out, W) \/ Receives(S, f, out, W) \/ Changes(S, f, out, W)

\* What a transaction has read and no commit has changed since is still so.
ReadsInv ==
    \A r \in Request : request[r].stage = "reads" =>
        SameOn(request[r].seen, Board!Store, Board!Docs \ request[r].stale)

\* What a transaction has written is right for the documents as they are, and its alone.
WritesInv ==
    /\ \A r \in Request : request[r].stage = "written" =>
          Effect(Board!Store, request[r].form, request[r].out, request[r].wrote)
    /\ \A r, s \in Request :
          r # s /\ request[r].stage = "written" /\ request[s].stage = "written" =>
              request[r].wrote \intersect request[s].wrote = {}

\* Only a reading changes an entry.
SavesInv ==
    \A r \in Request : request[r].stage = "saves" =>
        \A m \in request[r].what :
            Board!EntryOf(request[r].seen[m], request[r].by) # 0 => request[r].kind = "read"

BoardInv ==
    /\ BoardTypes /\ Good(channel) /\ PinsInv /\ ReactionsInv
    /\ ReadsInv /\ WritesInv /\ SavesInv

-----------------------------------------------------------------------------
(* Receipts: the entry of a user among those of a message.                 *)

\* The places at which a user has an entry.
Places(d, u) == {i \in 1..Len(d) : d[i].user = u}

\* The first of a set of places, and 0 if there is none.
FirstOf(I) == IF I # {} THEN Board!Min(I) ELSE 0

\* A set of numbers has a least one.
LEMMA MinOf ==
  ASSUME NEW S \in SUBSET Nat, S # {}
  PROVE  Board!Min(S) \in S /\ \A y \in S : Board!Min(S) <= y
<1>1. PICK x \in S : \A y \in S : <<y, x>> \notin OpToRel(<, Nat)
  BY NatLessThanWellFounded, WFMin
<1>2. \A y \in S : x <= y
  <2> TAKE y \in S
  <2>1. ~(y < x)
    BY <1>1 DEF OpToRel
  <2> QED BY <2>1
<1> QED BY <1>2 DEF Board!Min

\* EntryOf finds the first place of a person in the receipts.
LEMMA EntryIsFirst ==
  ASSUME NEW d \in Seq(Board!Receipts), NEW u
  PROVE  Board!EntryOf(d, u) = FirstOf(Places(d, u))
  BY DEF Board!EntryOf, Board!SelectInSeq, FirstOf, Places

\* EntryOf is 0 exactly if the person has no receipt, and a place of his otherwise.
LEMMA EntryIn ==
  ASSUME NEW d \in Seq(Board!Receipts), NEW u
  PROVE  /\ Board!EntryOf(d, u) = 0 <=> Places(d, u) = {}
         /\ Board!EntryOf(d, u) # 0 =>
               Board!EntryOf(d, u) \in 1..Len(d) /\ d[Board!EntryOf(d, u)].user = u
<1>1. Places(d, u) \subseteq 1..Len(d) /\ 1..Len(d) \subseteq Nat /\ 0 \notin Places(d, u)
  BY DEF Places
<1>2. Places(d, u) # {} => Board!Min(Places(d, u)) \in Places(d, u)
  BY <1>1, MinOf
<1>3. \A i \in Places(d, u) : i \in 1..Len(d) /\ d[i].user = u
  BY DEF Places
<1> QED BY <1>1, <1>2, <1>3, EntryIsFirst DEF FirstOf

\* An entry of somebody's own is appended.
LEMMA Appended ==
  ASSUME NEW d \in Seq(Board!Receipts), NEW by \in Users, NEW kind, NEW u
  PROVE  LET new == Append(d, Board!Entry(by, kind)) IN
         /\ new \in Seq(Board!Receipts) /\ Len(new) = Len(d) + 1
         /\ \A i \in 1..Len(d) : new[i] = d[i]
         /\ new[Len(d) + 1] = Board!Entry(by, kind)
         /\ u # by => Places(new, u) = Places(d, u)
         /\ Places(new, by) = Places(d, by) \union {Len(d) + 1}
<1> DEFINE e == Board!Entry(by, kind)
           new == Append(d, e)
<1>1. e \in Board!Receipts /\ e.user = by
  BY DEF Board!Entry, Board!Receipts
<1> HIDE DEF e
<1>2. /\ new \in Seq(Board!Receipts) /\ Len(new) = Len(d) + 1 /\ Len(d) \in Nat
      /\ \A i \in 1..Len(d) : new[i] = d[i]
      /\ new[Len(d) + 1] = e
  BY <1>1
<1> HIDE DEF new
<1>3. 1..Len(new) = (1..Len(d)) \union {Len(d) + 1}
  BY <1>2
<1>4. u # by => Places(new, u) = Places(d, u)
  BY <1>1, <1>2, <1>3 DEF Places
<1>5. Places(new, by) = Places(d, by) \union {Len(d) + 1}
  BY <1>1, <1>2, <1>3 DEF Places
<1> QED BY <1>2, <1>4, <1>5 DEF new, e

\* Or one that is there is changed.
Put(d, i, e) == [d EXCEPT ![i] = e]

\* Writing a person's receipt over his old one moves nobody's place.
LEMMA Replaced ==
  ASSUME NEW d \in Seq(Board!Receipts), NEW by \in Users, NEW e \in Board!Receipts,
         e.user = by, Board!EntryOf(d, by) # 0
  PROVE  /\ Board!EntryOf(d, by) \in 1..Len(d)
         /\ Put(d, Board!EntryOf(d, by), e) \in Seq(Board!Receipts)
         /\ Put(d, Board!EntryOf(d, by), e)[Board!EntryOf(d, by)] = e
         /\ \A j \in 1..Len(d) :
               j # Board!EntryOf(d, by) => Put(d, Board!EntryOf(d, by), e)[j] = d[j]
         /\ \A u : Places(Put(d, Board!EntryOf(d, by), e), u) = Places(d, u)
<1> DEFINE i == Board!EntryOf(d, by)
           new == Put(d, i, e)
<1>1. i \in 1..Len(d) /\ d[i].user = by
  BY EntryIn
<1> HIDE DEF i
<1>2. /\ new \in Seq(Board!Receipts) /\ Len(new) = Len(d)
      /\ new[i] = e /\ \A j \in 1..Len(d) : j # i => new[j] = d[j]
  BY <1>1 DEF Put
<1> HIDE DEF new
<1>3. ASSUME NEW u PROVE Places(new, u) = Places(d, u)
  <2>1. \A j \in 1..Len(d) : new[j].user = d[j].user
    BY <1>1, <1>2
  <2> QED BY <1>2, <2>1 DEF Places
<1> QED BY <1>1, <1>2, <1>3 DEF new, i

\* A new entry is a receipt of the one who sends it.
LEMMA EntryTyped ==
  ASSUME NEW by \in Users, NEW kind
  PROVE  Board!Entry(by, kind) \in Board!Receipts /\ Board!Entry(by, kind).user = by
  BY DEF Board!Entry, Board!Receipts

\* Two entries of nobody.
LEMMA OneEach ==
  ASSUME NEW d \in Seq(Board!Receipts)
  PROVE  /\ Board!Entries1(d) => \A u \in Users : Cardinality(Places(d, u)) <= 1
         /\ (\A u \in Users : Cardinality(Places(d, u)) <= 1) => Board!Entries1(d)
<1>1. \A u : Board!Cardinality(Places(d, u)) = Cardinality(Places(d, u))
  BY DEF Board!Cardinality, Cardinality
<1>2. \A u : {i \in DOMAIN d : d[i].user = u} = Places(d, u)
  BY DEF Places
<1> QED BY <1>1, <1>2 DEF Board!Entries1

\* A receipt saved in the array it was read in loses nothing and doubles nothing, since
\* only a reading changes an entry.
LEMMA SavedKeeps ==
  ASSUME NEW d \in Seq(Board!Receipts), NEW by \in Users, NEW kind,
         Board!EntryOf(d, by) # 0 => kind = "read"
  PROVE  LET new == Board!Saved(d, d, by, kind) IN
         /\ \A u \in Users : Board!Level(new, u) >= Board!Level(d, u)
         /\ Board!Entries1(d) => Board!Entries1(new)
<1> DEFINE e == Board!Entry(by, kind)
           i == Board!EntryOf(d, by)
           new == Board!Saved(d, d, by, kind)
<1>1. CASE i = 0
  <2>1. new = Append(d, e)
    BY <1>1 DEF Board!Saved
  <2>2. ASSUME NEW u
        PROVE /\ new \in Seq(Board!Receipts) /\ Len(new) = Len(d) + 1
              /\ \A j \in 1..Len(d) : new[j] = d[j]
              /\ u # by => Places(new, u) = Places(d, u)
              /\ Places(new, by) = Places(d, by) \union {Len(d) + 1}
    BY <2>1, Appended
  <2>3. Places(d, by) = {}
    BY <1>1, EntryIn
  <2>4. /\ new \in Seq(Board!Receipts) /\ Places(new, by) = {Len(d) + 1}
        /\ \A j \in 1..Len(d) : new[j] = d[j]
    BY <2>2, <2>3
  <2> HIDE DEF new, e
  <2>5. ASSUME NEW u \in Users PROVE Board!Level(new, u) >= Board!Level(d, u)
    <3>1. CASE u = by
      BY <1>1, <3>1 DEF Board!Level
    <3>2. CASE u # by
      <4>1. Board!EntryOf(new, u) = Board!EntryOf(d, u)
        BY <2>2, <2>4, <3>2, EntryIsFirst
      <4>2. Board!EntryOf(d, u) # 0 => Board!EntryOf(d, u) \in 1..Len(d)
        BY EntryIn
      <4> QED BY <2>4, <4>1, <4>2 DEF Board!Level
    <3> QED BY <3>1, <3>2
  <2>6. ASSUME Board!Entries1(d) PROVE Board!Entries1(new)
    <3>1. Cardinality({Len(d) + 1}) = 1
      BY FS_Singleton
    <3>2. \A u \in Users : Cardinality(Places(d, u)) <= 1
      BY <2>6, OneEach
    <3>3. ASSUME NEW u \in Users PROVE Cardinality(Places(new, u)) <= 1
      <4>1. CASE u = by
        <5>1. Cardinality(Places(new, u)) = 1
          BY <2>4, <3>1, <4>1
        <5> QED BY <5>1
      <4>2. CASE u # by
        <5>1. Places(new, u) = Places(d, u)
          BY <2>2, <4>2
        <5> QED BY <3>2, <5>1
      <4> QED BY <4>1, <4>2
    <3> QED BY <2>4, <3>3, OneEach
  <2> QED BY <2>5, <2>6 DEF new
<1>2. CASE i # 0
  <2>1. new = Put(d, i, e) /\ kind = "read"
    BY <1>2 DEF Board!Saved, Put
  <2>2. e.read = TRUE /\ e \in Board!Receipts /\ e.user = by
    BY <2>1, EntryTyped DEF Board!Entry
  <2>3. /\ i \in 1..Len(d) /\ new \in Seq(Board!Receipts) /\ new[i] = e
        /\ \A j \in 1..Len(d) : j # i => new[j] = d[j]
        /\ \A u : Places(new, u) = Places(d, u)
    <3> HIDE DEF new, e
    <3> QED BY <1>2, <2>1, <2>2, Replaced
  <2> HIDE DEF new, e, i
  <2>5. ASSUME NEW u \in Users PROVE Board!Level(new, u) >= Board!Level(d, u)
    <3>1. Board!EntryOf(new, u) = Board!EntryOf(d, u)
      BY <2>3, EntryIsFirst
    <3>2. Board!EntryOf(d, u) # 0 => Board!EntryOf(d, u) \in 1..Len(d)
      BY EntryIn
    <3> QED BY <2>2, <2>3, <3>1, <3>2 DEF Board!Level
  <2>6. ASSUME Board!Entries1(d) PROVE Board!Entries1(new)
    <3>1. \A u \in Users : Cardinality(Places(d, u)) <= 1
      BY <2>6, OneEach
    <3>2. \A u \in Users : Cardinality(Places(new, u)) <= 1
      BY <2>3, <3>1
    <3> QED BY <2>3, <3>2, OneEach
  <2> QED BY <2>5, <2>6 DEF new
<1> QED BY <1>1, <1>2

\* Whatever is saved, receipts are what they are.
LEMMA SavedTyped ==
  ASSUME NEW now \in Seq(Board!Receipts), NEW seen \in Seq(Board!Receipts),
         NEW by \in Users, NEW kind
  PROVE  Board!Saved(now, seen, by, kind) \in Seq(Board!Receipts)
<1>1. Append(now, Board!Entry(by, kind)) \in Seq(Board!Receipts)
  BY Appended
<1>2. ASSUME Board!EntryOf(seen, by) # 0
      PROVE  [seen EXCEPT ![Board!EntryOf(seen, by)] = Board!Entry(by, kind)]
                \in Seq(Board!Receipts)
  BY <1>2, EntryTyped, Replaced DEF Put
<1> QED BY <1>1, <1>2 DEF Board!Saved

-----------------------------------------------------------------------------
(* The rules, as the board has them.                                       *)

LEMMA BoardRules ==
  ASSUME NEW c, NEW op \in Board!Governing, NEW by, NEW who
  PROVE  /\ op \in Group!Operations
         /\ Board!Channels({0}) = Group!Channels({0})
         /\ Board!May(c, op, by, who) => Group!May(c, op, by, who)
         /\ Board!Results(c, op, by, who, 0) = Group!Results(c, op, by, who, 0)
<1>1. op \in {"promote", "demote", "remove"}
  BY DEF Board!Governing
<1>2. Board!Channels({0}) = Group!Channels({0})
  BY DEF Board!Channels, Group!Channels
<1>3. \A S : Board!Cardinality(S) = Group!Cardinality(S)
  BY DEF Board!Cardinality, Group!Cardinality
<1>4. Board!MayRemove(c, by, who) => Group!MayRemove(c, by, who)
  BY DEF Board!MayRemove, Group!MayRemove
<1>5. ASSUME NEW u
      PROVE  /\ Board!MayPromote(c, by, u) => Group!MayPromote(c, by, u)
             /\ Board!MayDemote(c, by, u) => Group!MayDemote(c, by, u)
  BY <1>3 DEF Board!MayPromote, Group!MayPromote, Board!MayDemote, Group!MayDemote
<1>6. Board!May(c, op, by, who) => Group!May(c, op, by, who)
  BY <1>1, <1>4, <1>5 DEF Board!May, Group!May
<1>7. Board!Removed(c, by, who, 0) = Group!Removed(c, by, who, 0)
  BY DEF Board!Removed, Group!Removed, Board!Entries, Group!Entries
<1>8. ASSUME NEW u
      PROVE  /\ Board!Promoted(c, by, u) = Group!Promoted(c, by, u)
             /\ Board!Demoted(c, by, u) = Group!Demoted(c, by, u)
  BY DEF Board!Promoted, Group!Promoted, Board!Demoted, Group!Demoted
<1>9. Board!Results(c, op, by, who, 0) = Group!Results(c, op, by, who, 0)
  BY <1>1, <1>7, <1>8 DEF Board!Results, Group!Results
<1> QED BY <1>1, <1>2, <1>6, <1>9 DEF Group!Operations

\* A change of the membership leaves a channel that is in order.
LEMMA GovernGood ==
  ASSUME NEW c \in Board!Channels({0}), Good(c), NEW op \in Board!Governing,
         NEW by \in Users, NEW who \in SUBSET Users, Board!May(c, op, by, who),
         NEW d \in Board!Results(c, op, by, who, 0)
  PROVE  d \in Board!Channels({0}) /\ Good(d)
<1> DEFINE T == {0}
<1>1. c \in Group!Channels(T) /\ op \in Group!Operations /\ Group!May(c, op, by, who)
      /\ d \in Group!Results(c, op, by, who, 0) /\ 0 \in T
      /\ Board!Channels({0}) = Group!Channels(T)
  BY BoardRules
<1> HIDE DEF T
<1>2. d \in Group!Channels(T) /\ Good(d)
  BY <1>1, ResultsGood
<1> QED BY <1>1, <1>2

\* A form names users, or messages.
LEMMA FormTyped ==
  ASSUME NEW f \in Board!Forms
  PROVE  /\ f.op \in Board!Governing \union Board!MessageOperations \union Board!Kinds
         /\ f.by \in Users /\ f.who \in SUBSET Users /\ f.what \in SUBSET Message
  BY DEF Board!Forms, Board!MessageOperations

\* The three kinds of forms.
LEMMA OpsApart ==
  ASSUME NEW op
  PROVE  /\ op \in Board!Governing => op \notin Board!Kinds /\ op \notin Board!MessageOperations
                                      /\ op \notin {"delete", "pin", "unpin"}
         /\ op \in Board!Kinds => op \notin Board!MessageOperations
                                  /\ op \notin {"delete", "pin", "unpin"}
         /\ {"delete", "pin", "unpin"} \subseteq Board!MessageOperations
  BY DEF Board!Governing, Board!Kinds, Board!MessageOperations

\* What an update makes of a message.
LEMMA PostUpdated ==
  ASSUME NEW p \in Post, NEW v
  PROVE  /\ [p EXCEPT !.pinned = v] =
               [sender |-> p.sender, status |-> p.status, hidden |-> p.hidden,
                pinned |-> v, reactions |-> p.reactions]
         /\ [p EXCEPT !.status = v] =
               [sender |-> p.sender, status |-> v, hidden |-> p.hidden,
                pinned |-> p.pinned, reactions |-> p.reactions]
         /\ [p EXCEPT !.hidden = v] =
               [sender |-> p.sender, status |-> p.status, hidden |-> v,
                pinned |-> p.pinned, reactions |-> p.reactions]
         /\ [p EXCEPT !.reactions = v] =
               [sender |-> p.sender, status |-> p.status, hidden |-> p.hidden,
                pinned |-> p.pinned, reactions |-> v]
  BY DEF Post

\* It stays one, is pinned or not as it should, and has no second reaction of anybody.
Follows(q, p, op) ==
    /\ q \in Post
    /\ q.pinned <=> op = "pin" \/ (op # "unpin" /\ p.pinned)
    /\ OncePerUser(p.reactions) => OncePerUser(q.reactions)

\* What an operation makes of a message is one of the few things Follows allows.
LEMMA PostAfterIs ==
  ASSUME NEW p \in Post, NEW op \in Board!MessageOperations, NEW by \in Users, NEW e \in Emoji
  PROVE  Follows(Board!PostAfter(p, op, by, e), p, op)
<1> DEFINE q == Board!PostAfter(p, op, by, e)
           P(s, h, v, R) == [sender |-> p.sender, status |-> s, hidden |-> h, pinned |-> v,
                             reactions |-> R]
<1>1. /\ p.sender \in Users /\ p.status \in {"active", "edited", "deleted"}
      /\ p.hidden \in SUBSET Users /\ p.pinned \in BOOLEAN
      /\ p.reactions \in SUBSET Board!Reactions
  BY DEF Post
<1>2. ASSUME NEW s \in {"active", "edited", "deleted"}, NEW h \in SUBSET Users,
             NEW v \in BOOLEAN, NEW R \in SUBSET Board!Reactions,
             OncePerUser(p.reactions) => OncePerUser(R),
             v <=> op = "pin" \/ (op # "unpin" /\ p.pinned)
      PROVE  Follows(P(s, h, v, R), p, op)
  BY <1>1, <1>2 DEF Post, Follows
<1>3. CASE op = "pin"
  <2>1. q = P(p.status, p.hidden, TRUE, p.reactions)
    BY <1>3, PostUpdated DEF Board!PostAfter, Board!Pinned
  <2> HIDE DEF P, q
  <2>2. Follows(P(p.status, p.hidden, TRUE, p.reactions), p, op)
    BY <1>1, <1>2, <1>3
  <2> QED BY <2>1, <2>2 DEF q
<1>4. CASE op = "unpin"
  <2>1. q = P(p.status, p.hidden, FALSE, p.reactions)
    BY <1>4, PostUpdated DEF Board!PostAfter, Board!Unpinned
  <2> HIDE DEF P, q
  <2>2. Follows(P(p.status, p.hidden, FALSE, p.reactions), p, op)
    BY <1>1, <1>2, <1>4
  <2> QED BY <2>1, <2>2 DEF q
<1>5. CASE op = "edit"
  <2>1. q = P("edited", p.hidden, p.pinned, p.reactions)
    BY <1>5, PostUpdated DEF Board!PostAfter, Board!Edited
  <2> HIDE DEF P, q
  <2>2. Follows(P("edited", p.hidden, p.pinned, p.reactions), p, op)
    BY <1>1, <1>2, <1>5
  <2> QED BY <2>1, <2>2 DEF q
<1>6. CASE op = "delete" /\ p.sender = by /\ Board!Present(p)
  <2>1. q = P("deleted", p.hidden, p.pinned, p.reactions)
    BY <1>6, PostUpdated DEF Board!PostAfter, Board!Deleted
  <2> HIDE DEF P, q
  <2>2. Follows(P("deleted", p.hidden, p.pinned, p.reactions), p, op)
    BY <1>1, <1>2, <1>6
  <2> QED BY <2>1, <2>2 DEF q
<1>7. CASE op = "delete" /\ ~(p.sender = by /\ Board!Present(p))
  <2>1. q = [p EXCEPT !.hidden = p.hidden \union {by}]
    BY <1>7 DEF Board!PostAfter, Board!Deleted
  <2>2. q = P(p.status, p.hidden \union {by}, p.pinned, p.reactions)
    BY <2>1, PostUpdated
  <2> HIDE DEF P, q
  <2>3. Follows(P(p.status, p.hidden \union {by}, p.pinned, p.reactions), p, op)
    BY <1>1, <1>2, <1>7
  <2> QED BY <2>2, <2>3 DEF q
<1> DEFINE mine == Board!ReactionsOf(p, by)
           new == [user |-> by, emoji |-> e]
<1>8. \A f \in p.reactions \ mine : f.user # by
  BY DEF Board!ReactionsOf
<1>9. new \in Board!Reactions /\ new.user = by
  BY DEF Board!Reactions
<1>10. CASE op = "react"
  <2>1. q = [p EXCEPT !.reactions = (p.reactions \ mine) \union {new}]
    BY <1>10 DEF Board!PostAfter, Board!Reacted
  <2>2. q = P(p.status, p.hidden, p.pinned, (p.reactions \ mine) \union {new})
    BY <2>1, PostUpdated
  <2> HIDE DEF P, q, mine, new
  <2>3. OncePerUser(p.reactions) => OncePerUser((p.reactions \ mine) \union {new})
    BY <1>8, <1>9 DEF OncePerUser
  <2>4. Follows(P(p.status, p.hidden, p.pinned, (p.reactions \ mine) \union {new}), p, op)
    BY <1>1, <1>2, <1>9, <1>10, <2>3
  <2> QED BY <2>2, <2>4 DEF q
<1>11. CASE op = "unreact"
  <2>1. q = [p EXCEPT !.reactions = p.reactions \ mine]
    BY <1>11 DEF Board!PostAfter, Board!Unreacted
  <2>2. q = P(p.status, p.hidden, p.pinned, p.reactions \ mine)
    BY <2>1, PostUpdated
  <2> HIDE DEF P, q, mine, new
  <2>3. OncePerUser(p.reactions) => OncePerUser(p.reactions \ mine)
    BY DEF OncePerUser
  <2>4. Follows(P(p.status, p.hidden, p.pinned, p.reactions \ mine), p, op)
    BY <1>1, <1>2, <1>11, <2>3
  <2> QED BY <2>2, <2>4 DEF q
<1> QED BY <1>3, <1>4, <1>5, <1>6, <1>7, <1>10, <1>11 DEF Board!MessageOperations

-----------------------------------------------------------------------------
(* What a handler makes of the documents it has read.                      *)

LEMMA StoreUpdated ==
  ASSUME NEW S \in Stores, NEW c, NEW P, NEW Q, NEW D
  PROVE  /\ [S EXCEPT !.channel = c] =
               [channel |-> c, pins |-> S.pins, posts |-> S.posts, delivery |-> S.delivery]
         /\ [S EXCEPT !.delivery = D] =
               [channel |-> S.channel, pins |-> S.pins, posts |-> S.posts, delivery |-> D]
         /\ [S EXCEPT !.pins = P, !.posts = Q] =
               [channel |-> S.channel, pins |-> P, posts |-> Q, delivery |-> S.delivery]
<1>1. /\ [S EXCEPT !.channel = c] =
            [channel |-> c, pins |-> S.pins, posts |-> S.posts, delivery |-> S.delivery]
      /\ [S EXCEPT !.delivery = D] =
            [channel |-> S.channel, pins |-> S.pins, posts |-> S.posts, delivery |-> D]
  BY DEF Stores
<1> DEFINE r == [S EXCEPT !.pins = P]
<1>2. r = [channel |-> S.channel, pins |-> P, posts |-> S.posts, delivery |-> S.delivery]
  BY DEF Stores
<1> HIDE DEF r
<1>3. [r EXCEPT !.posts = Q] =
         [channel |-> S.channel, pins |-> P, posts |-> Q, delivery |-> S.delivery]
  BY <1>2
<1> QED BY <1>1, <1>3 DEF r

\* A check made of a user who is a member.
LEMMA AskedIn ==
  ASSUME NEW c \in Board!Channels({0}), NEW op, NEW by
  PROVE  /\ op \in {"pin", "unpin"} => AsAsked(c, op, by) = c
         /\ op \notin {"pin", "unpin"} => by \in AsAsked(c, op, by).users
  BY DEF AsAsked, Board!Channels

\* The check of a change that names W, on a store, reads no more of it than W.
LEMMA MayDepends ==
  ASSUME NEW S \in Stores, NEW T \in Stores, NEW op \in Board!MessageOperations, NEW by,
         NEW named \in SUBSET Message,
         op \in {"pin", "unpin"} => S.channel = T.channel /\ S.pins = T.pins,
         \A m \in named : S.posts[m] = T.posts[m],
         Board!MayChange(AsAsked(S.channel, op, by), S.pins, S.posts, op, by, named)
  PROVE  Board!MayChange(AsAsked(T.channel, op, by), T.pins, T.posts, op, by, named)
<1> DEFINE c == AsAsked(S.channel, op, by)
           d == AsAsked(T.channel, op, by)
<1>1. T.channel \in Board!Channels({0}) /\ S.channel \in Board!Channels({0})
  BY DEF Stores
<1>2. op \notin {"pin", "unpin"} => by \in d.users
  BY <1>1, AskedIn
<1>3. op \in {"pin", "unpin"} => d = c
  OBVIOUS
<1> HIDE DEF c, d
<1>4. CASE op = "delete"
  BY <1>2, <1>4 DEF Board!MayChange, Board!MayDelete, c, d
<1>5. CASE op # "delete"
  <2>1. PICK m \in named :
          /\ named = {m}
          /\ \/ op = "pin" /\ Board!MayPin(c, S.pins, S.posts, by, m)
             \/ op = "unpin" /\ Board!MayUnpin(c, S.posts, by, m)
             \/ op = "edit" /\ Board!MayEdit(c, S.posts, by, m)
             \/ op = "react" /\ Board!MayReact(c, S.posts, by, m)
             \/ op = "unreact" /\ Board!MayUnreact(c, S.posts, by, m)
    BY <1>5 DEF Board!MayChange, c
  <2>2. /\ Board!MayPin(c, S.pins, S.posts, by, m) /\ op = "pin" =>
              Board!MayPin(d, T.pins, T.posts, by, m)
        /\ Board!MayUnpin(c, S.posts, by, m) /\ op = "unpin" => Board!MayUnpin(d, T.posts, by, m)
    BY <1>3 DEF Board!MayPin, Board!MayUnpin
  <2>3. ASSUME op \notin {"pin", "unpin"}
        PROVE  /\ Board!MayEdit(c, S.posts, by, m) => Board!MayEdit(d, T.posts, by, m)
               /\ Board!MayReact(c, S.posts, by, m) => Board!MayReact(d, T.posts, by, m)
               /\ Board!MayUnreact(c, S.posts, by, m) => Board!MayUnreact(d, T.posts, by, m)
    BY <1>2, <2>3 DEF Board!MayEdit, Board!MayReact, Board!MayUnreact
  <2> QED BY <2>1, <2>2, <2>3 DEF Board!MayChange, d
<1> QED BY <1>4, <1>5

\* What is right for some documents is right while they stay.
LEMMA EffectStays ==
  ASSUME NEW S \in Stores, NEW T \in Stores, NEW f \in Board!Forms, NEW out, NEW W,
         SameOn(S, T, W), Effect(S, f, out, W)
  PROVE  Effect(T, f, out, W)
<1>1. /\ Board!ChannelDoc \in W => S.channel = T.channel /\ S.pins = T.pins
      /\ \A m \in W \intersect Message :
            S.posts[m] = T.posts[m] /\ S.delivery[m] = T.delivery[m]
  BY DEF SameOn
<1>2. CASE Governs(S, f, out, W)
  BY <1>1, <1>2 DEF Governs, Effect
<1>3. CASE Receives(S, f, out, W)
  BY <1>1, <1>3 DEF Receives, Effect
<1>4. CASE Changes(S, f, out, W)
  <2> DEFINE named == W \intersect Message
  <2>1. /\ f.op \in Board!MessageOperations
        /\ Board!ChannelDoc \in W <=> f.op \in {"pin", "unpin"}
        /\ named # {} =>
              Board!MayChange(AsAsked(S.channel, f.op, f.by), S.pins, S.posts, f.op, f.by, named)
        /\ Board!ChannelDoc \in W =>
              named # {} /\ out.channel = S.channel
              /\ out.pins = Board!PinsAfter(S.pins, f.op, named)
        /\ \E e \in Emoji : \A m \in named :
              /\ out.posts[m] = Board!PostAfter(S.posts[m], f.op, f.by, e)
              /\ out.delivery[m] = S.delivery[m]
    BY <1>4 DEF Changes
  <2>2. named # {} =>
           Board!MayChange(AsAsked(T.channel, f.op, f.by), T.pins, T.posts, f.op, f.by, named)
    <3> named \in SUBSET Message /\ \A m \in named : m \in W \intersect Message
      OBVIOUS
    <3> HIDE DEF named
    <3> QED BY <1>1, <2>1, MayDepends
  <2>3. Changes(T, f, out, W)
    BY <1>1, <2>1, <2>2 DEF Changes
  <2> QED BY <2>3 DEF Effect
<1> QED BY <1>2, <1>3, <1>4 DEF Effect

\* The outcome of a form is a store, and what it writes is right for what it has read.
LEMMA GovernsRead ==
  ASSUME NEW S \in Stores, NEW f \in Board!Forms, f.op \in Board!Governing,
         Board!Allowed(f, S), Good(S.channel), NEW out \in Board!Outcomes(f, S)
  PROVE  out \in Stores /\ Governs(S, f, out, Board!Written(f, S, out))
<1>1. f.by \in Users /\ f.who \in SUBSET Users /\ S.channel \in Board!Channels({0})
  BY FormTyped DEF Stores
<1>2. Board!May(S.channel, f.op, f.by, f.who)
  BY OpsApart DEF Board!Allowed
<1>3. PICK c \in Board!Results(S.channel, f.op, f.by, f.who, 0) : out = [S EXCEPT !.channel = c]
  BY OpsApart DEF Board!Outcomes
<1>4. out = [channel |-> c, pins |-> S.pins, posts |-> S.posts, delivery |-> S.delivery]
  BY <1>3, StoreUpdated
<1>5. c \in Board!Channels({0})
  BY <1>1, <1>2, GovernGood
<1>6. out \in Stores /\ out.channel = c /\ out.pins = S.pins
  BY <1>4, <1>5 DEF Stores
<1>7. Board!Written(f, S, out) = {Board!ChannelDoc}
  BY OpsApart DEF Board!Written
<1> QED BY <1>2, <1>6, <1>7 DEF Governs

\* What a request with receipts may leave behind, in the words of this proof.
LEMMA ReceivesRead ==
  ASSUME NEW S \in Stores, NEW f \in Board!Forms, f.op \in Board!Kinds,
         NEW out \in Board!Outcomes(f, S)
  PROVE  out \in Stores /\ Receives(S, f, out, Board!Written(f, S, out))
<1> DEFINE which == Board!Counting(S.posts, S.delivery, f.by, f.op, f.what)
           new(m) == Board!Saved(S.delivery[m], S.delivery[m], f.by, f.op)
           D == [m \in Message |-> IF m \in which THEN new(m) ELSE S.delivery[m]]
<1>1. f.by \in Users /\ f.what \in SUBSET Message /\ S.delivery \in Deliveries
  BY FormTyped DEF Stores
<1>2. which \subseteq Message
      /\ \A m \in which : Board!Counts(S.posts[m], S.delivery[m], f.by, f.op)
  BY <1>1 DEF Board!Counting
<1>3. out = [S EXCEPT !.delivery = D]
  BY OpsApart DEF Board!Outcomes
<1>4. Board!Written(f, S, out) = which
  BY OpsApart DEF Board!Written
<1>5. \A m \in Message : new(m) \in Seq(Board!Receipts) /\ S.delivery[m] \in Seq(Board!Receipts)
  BY <1>1, SavedTyped DEF Deliveries
<1> HIDE DEF which, new
<1>6. D \in Deliveries
  BY <1>5 DEF Deliveries
<1>7. \A m \in which : D[m] = new(m)
  BY <1>2
<1> HIDE DEF D
<1>8. out = [channel |-> S.channel, pins |-> S.pins, posts |-> S.posts, delivery |-> D]
  BY <1>3, StoreUpdated
<1>9. out \in Stores
  BY <1>6, <1>8 DEF Stores
<1> QED BY <1>2, <1>4, <1>7, <1>8, <1>9 DEF Receives, new

\* What a request that changes messages may leave behind, in the words of this proof.
LEMMA ChangesRead ==
  ASSUME NEW S \in Stores, NEW f \in Board!Forms, f.op \in Board!MessageOperations,
         Board!Allowed(f, S), NEW out \in Board!Outcomes(f, S)
  PROVE  out \in Stores /\ Changes(S, f, out, Board!Written(f, S, out))
<1> DEFINE W == Board!Written(f, S, out)
           named == W \intersect Message
<1>1. f.by \in Users /\ f.what \in SUBSET Message /\ S.channel \in Board!Channels({0})
      /\ S.posts \in [Message -> Post] /\ S.pins \in SUBSET Message
  BY FormTyped DEF Stores
<1>2. Board!MayChange(S.channel, S.pins, S.posts, f.op, f.by, f.what)
  BY OpsApart DEF Board!Allowed
<1>3. PICK e \in Emoji :
         out = [S EXCEPT !.pins = Board!PinsAfter(S.pins, f.op, f.what),
                         !.posts = Board!PostsAfter(S.posts, f.op, f.by, f.what, e)]
  BY OpsApart DEF Board!Outcomes
<1> DEFINE P == Board!PinsAfter(S.pins, f.op, f.what)
           Q == Board!PostsAfter(S.posts, f.op, f.by, f.what, e)
<1>4. out = [channel |-> S.channel, pins |-> P, posts |-> Q, delivery |-> S.delivery]
  BY <1>3, StoreUpdated
<1>5. \A m \in Message : S.posts[m] \in Post /\ Board!PostAfter(S.posts[m], f.op, f.by, e) \in Post
  BY <1>1, PostAfterIs DEF Follows
<1>6. Q \in [Message -> Post]
      /\ \A m \in f.what : Q[m] = Board!PostAfter(S.posts[m], f.op, f.by, e)
  BY <1>1, <1>5 DEF Board!PostsAfter
<1>7. P \in SUBSET Message
  BY <1>1 DEF Board!PinsAfter
<1> HIDE DEF Q, P
<1>8. out \in Stores /\ out.channel = S.channel /\ out.pins = P /\ out.posts = Q
      /\ out.delivery = S.delivery
  BY <1>4, <1>6, <1>7 DEF Stores
<1>9. CASE f.op = "delete"
  <2>1. W \subseteq f.what /\ named = W /\ Board!ChannelDoc \notin W
    BY <1>1, <1>9, OpsApart, DocsAssumption DEF Board!Written
  <2>2. f.by \in AsAsked(S.channel, f.op, f.by).users
    BY <1>1, <1>9, AskedIn
  <2> HIDE DEF W, named
  <2>3. named # {} =>
           Board!MayChange(AsAsked(S.channel, f.op, f.by), S.pins, S.posts, f.op, f.by, named)
    BY <1>9, <2>2 DEF Board!MayChange, Board!MayDelete
  <2>4. \A m \in named : /\ out.posts[m] = Board!PostAfter(S.posts[m], f.op, f.by, e)
                         /\ out.delivery[m] = S.delivery[m]
    BY <1>6, <1>8, <2>1
  <2> QED BY <1>8, <1>9, <2>1, <2>3, <2>4 DEF Changes, W, named
<1>10. CASE f.op # "delete"
  <2>1. PICK m \in f.what :
          /\ f.what = {m}
          /\ \/ f.op = "pin" /\ Board!MayPin(S.channel, S.pins, S.posts, f.by, m)
             \/ f.op = "unpin" /\ Board!MayUnpin(S.channel, S.posts, f.by, m)
             \/ f.op = "edit" /\ Board!MayEdit(S.channel, S.posts, f.by, m)
             \/ f.op = "react" /\ Board!MayReact(S.channel, S.posts, f.by, m)
             \/ f.op = "unreact" /\ Board!MayUnreact(S.channel, S.posts, f.by, m)
    BY <1>2, <1>10 DEF Board!MayChange
  <2>2. W = IF f.op \in {"pin", "unpin"} THEN f.what \union {Board!ChannelDoc} ELSE f.what
    BY <1>10, OpsApart DEF Board!Written
  <2>3. named = f.what /\ named # {} /\ (Board!ChannelDoc \in W <=> f.op \in {"pin", "unpin"})
    BY <1>1, <2>1, <2>2, DocsAssumption
  <2>4. /\ f.op \in {"pin", "unpin"} => AsAsked(S.channel, f.op, f.by) = S.channel
        /\ f.op \notin {"pin", "unpin"} => f.by \in AsAsked(S.channel, f.op, f.by).users
    BY <1>1, AskedIn
  <2> HIDE DEF W, named
  <2>5. Board!MayChange(AsAsked(S.channel, f.op, f.by), S.pins, S.posts, f.op, f.by, named)
    <3>1. CASE f.op \in {"pin", "unpin"}
      BY <1>2, <2>3, <2>4, <3>1
    <3>2. CASE f.op \notin {"pin", "unpin"}
      <4> DEFINE c == AsAsked(S.channel, f.op, f.by)
      <4>1. f.by \in c.users
        BY <2>4, <3>2
      <4> HIDE DEF c
      <4>2. /\ Board!MayEdit(S.channel, S.posts, f.by, m) => Board!MayEdit(c, S.posts, f.by, m)
            /\ Board!MayReact(S.channel, S.posts, f.by, m) => Board!MayReact(c, S.posts, f.by, m)
            /\ Board!MayUnreact(S.channel, S.posts, f.by, m)
                  => Board!MayUnreact(c, S.posts, f.by, m)
        BY <4>1 DEF Board!MayEdit, Board!MayReact, Board!MayUnreact
      <4>3. Board!MayChange(c, S.pins, S.posts, f.op, f.by, named)
        BY <2>1, <2>3, <3>2, <4>2 DEF Board!MayChange
      <4> QED BY <4>3 DEF c
    <3> QED BY <3>1, <3>2
  <2>6. \A n \in named : /\ out.posts[n] = Board!PostAfter(S.posts[n], f.op, f.by, e)
                         /\ out.delivery[n] = S.delivery[n]
    BY <1>6, <1>8, <2>3
  <2>7. out.pins = Board!PinsAfter(S.pins, f.op, named)
    BY <1>8, <2>3 DEF P
  <2> QED BY <1>8, <2>3, <2>5, <2>6, <2>7 DEF Changes, W, named
<1> QED BY <1>9, <1>10

\* Whatever a permitted request does is an Effect on the documents it writes.
LEMMA EffectRead ==
  ASSUME NEW S \in Stores, NEW f \in Board!Forms, Board!Allowed(f, S),
         NEW out \in Board!Outcomes(f, S),
         Board!ChannelDoc \in Board!Written(f, S, out) => Good(S.channel)
  PROVE  /\ out \in Stores /\ Effect(S, f, out, Board!Written(f, S, out))
         /\ Board!Written(f, S, out) \subseteq Board!Docs
<1>1. f.op \in Board!Governing \union Board!MessageOperations \union Board!Kinds
      /\ f.what \in SUBSET Message
  BY FormTyped
<1>2. Board!Written(f, S, out) \subseteq Board!Docs
  BY <1>1 DEF Board!Written, Board!Docs, Board!Counting
<1>3. CASE f.op \in Board!Governing
  <2>1. Board!Written(f, S, out) = {Board!ChannelDoc}
    BY <1>3, OpsApart DEF Board!Written
  <2> QED BY <1>2, <1>3, <2>1, GovernsRead DEF Effect
<1>4. CASE f.op \in Board!Kinds
  BY <1>2, <1>4, ReceivesRead DEF Effect
<1>5. CASE f.op \in Board!MessageOperations
  BY <1>2, <1>5, ChangesRead DEF Effect
<1> QED BY <1>1, <1>3, <1>4, <1>5

-----------------------------------------------------------------------------
(* The steps.                                                              *)

\* A request is of the kind its stage tells.
LEMMA StagesTell ==
  ASSUME NEW q \in Stages
  PROVE  /\ q.stage = "idle" <=> q = Board!Idle
         /\ q.stage = "begins" <=> q \in Asking
         /\ q.stage = "reads" <=> q \in Looking
         /\ q.stage = "written" <=> q \in Holding
         /\ q.stage = "saves" <=> q \in Saving
<1>1. /\ Board!Idle.stage = "idle"
      /\ \A p \in Asking : p.stage = "begins"
      /\ \A p \in Looking : p.stage = "reads"
      /\ \A p \in Holding : p.stage = "written"
      /\ \A p \in Saving : p.stage = "saves"
  BY DEF Board!Idle, Asking, Looking, Holding, Saving
<1> QED BY <1>1 DEF Stages

\* Agreeing on documents is reflexive and transitive, and passes to fewer documents.
LEMMA SameOnParts ==
  ASSUME NEW S, NEW T, NEW U, NEW A, NEW B
  PROVE  /\ SameOn(S, T, A) /\ B \subseteq A => SameOn(S, T, B)
         /\ SameOn(S, T, A) /\ SameOn(T, U, A) => SameOn(S, U, A)
         /\ SameOn(S, S, A)
  BY DEF SameOn

SavesWell(q) ==
    \A m \in q.what : Board!EntryOf(q.seen[m], q.by) # 0 => q.kind = "read"

StoreVars == <<channel, pins, posts, delivery, topic>>

\* One request moves, and no document changes.
LEMMA RequestStep ==
  ASSUME BoardInv, NEW r \in Request, NEW q \in Stages,
         request' = [request EXCEPT ![r] = q], UNCHANGED StoreVars, begun' \in 0..topic.most,
         q \in Looking => SameOn(q.seen, Board!Store, Board!Docs \ q.stale),
         q \in Saving => SavesWell(q),
         q \in Holding =>
            /\ Effect(Board!Store, q.form, q.out, q.wrote)
            /\ \A s \in Request : request[s].stage = "written" =>
                  request[s].wrote \intersect q.wrote = {}
  PROVE  BoardInv'
<1>1. /\ request \in [Request -> Stages] /\ Board!Store \in Stores /\ topic.most \in Nat
      /\ Good(channel) /\ PinsInv /\ ReactionsInv
  BY DEF BoardInv, BoardTypes
<1>2. channel' = channel /\ pins' = pins /\ posts' = posts /\ delivery' = delivery
      /\ topic' = topic
  BY DEF StoreVars
<1>3. Board!Store' = Board!Store
  BY <1>2 DEF Board!Store
<1>4. request'[r] = q /\ \A s \in Request : s # r => request'[s] = request[s]
  BY <1>1
<1>5. /\ q.stage = "reads" => q \in Looking
      /\ q.stage = "written" => q \in Holding
      /\ q.stage = "saves" => q \in Saving
  BY StagesTell
<1>6. BoardTypes'
  BY <1>1, <1>2, <1>3 DEF BoardTypes
<1>7. Good(channel)' /\ PinsInv' /\ ReactionsInv'
  BY <1>1, <1>2 DEF Good, Group!Exists, PinsInv, ReactionsInv
<1>8. ReadsInv'
  BY <1>3, <1>4, <1>5 DEF BoardInv, ReadsInv
<1>9. WritesInv'
  <2>1. \A s \in Request : request'[s].stage = "written" =>
           Effect(Board!Store', request'[s].form, request'[s].out, request'[s].wrote)
    BY <1>3, <1>4, <1>5 DEF BoardInv, WritesInv
  <2>2. ASSUME NEW s \in Request, NEW t \in Request, s # t,
               request'[s].stage = "written", request'[t].stage = "written"
        PROVE  request'[s].wrote \intersect request'[t].wrote = {}
    <3>1. CASE s = r
      BY <1>4, <1>5, <2>2, <3>1
    <3>2. CASE t = r
      BY <1>4, <1>5, <2>2, <3>2
    <3>3. CASE s # r /\ t # r
      BY <1>4, <2>2, <3>3 DEF BoardInv, WritesInv
    <3> QED BY <3>1, <3>2, <3>3
  <2> QED BY <2>1, <2>2 DEF WritesInv
<1>10. SavesInv'
  BY <1>4, <1>5 DEF BoardInv, SavesInv, SavesWell
<1> QED BY <1>6, <1>7, <1>8, <1>9, <1>10 DEF BoardInv

\* The documents W change, and the others learn that what they have read is stale.
LEMMA DocumentsStep ==
  ASSUME BoardInv, NEW r \in Request, NEW W \in SUBSET Board!Docs,
         NEW q \in {Board!Idle} \union Saving, q \in Saving => SavesWell(q),
         Board!Overtake(r, W, q), Board!Store' \in Stores,
         SameOn(Board!Store, Board!Store', Board!Docs \ W),
         Good(channel)', PinsInv', ReactionsInv', UNCHANGED <<topic, begun>>,
         \A s \in Request : s # r /\ request[s].stage = "written" =>
            request[s].wrote \intersect W = {}
  PROVE  BoardInv'
<1> DEFINE Overtaken(p) == IF p.stage = "reads" THEN [p EXCEPT !.stale = @ \union W] ELSE p
<1>1. /\ request \in [Request -> Stages] /\ Board!Store \in Stores /\ topic.most \in Nat
      /\ begun \in 0..topic.most
  BY DEF BoardInv, BoardTypes
<1>2. request' = [s \in Request |-> IF s = r THEN q ELSE Overtaken(request[s])]
  BY DEF Board!Overtake
<1>3. ASSUME NEW p \in Looking
      PROVE  /\ Overtaken(p) \in Looking /\ Overtaken(p).stale = p.stale \union W
             /\ Overtaken(p).seen = p.seen
  <2>1. Overtaken(p) = [stage |-> p.stage, form |-> p.form, attempt |-> p.attempt,
                        seen |-> p.seen, stale |-> p.stale \union W]
    BY DEF Looking
  <2> HIDE DEF Overtaken
  <2> QED BY <2>1 DEF Looking
<1>4. \A p \in Stages : p.stage # "reads" => Overtaken(p) = p
  OBVIOUS
<1>5. \A p \in Stages : p.stage = "reads" => p \in Looking /\ Overtaken(p) \in Looking
                           /\ Overtaken(p).stale = p.stale \union W
                           /\ Overtaken(p).seen = p.seen
  BY <1>3, StagesTell
<1> HIDE DEF Overtaken
<1>6. q \in Stages /\ q.stage # "reads" /\ q.stage # "written"
      /\ (q.stage = "saves" => q \in Saving)
  <2>1. q \in Stages
    BY DEF Stages
  <2> QED BY <2>1, StagesTell DEF Board!Idle, Saving
<1>7. request'[r] = q /\ \A s \in Request : s # r => request'[s] = Overtaken(request[s])
  BY <1>2
<1>8. \A p \in Stages : Overtaken(p) \in Stages /\ Overtaken(p).stage = p.stage
  <2>1. \A p \in Looking : p \in Stages /\ p.stage = "reads"
    BY DEF Stages, Looking
  <2> QED BY <1>4, <1>5, <2>1
<1>9. BoardTypes'
  <2>1. request' \in [Request -> Stages]
    BY <1>1, <1>2, <1>6, <1>8
  <2> QED BY <1>1, <2>1 DEF BoardTypes
<1>10. ReadsInv'
  <2>1. ASSUME NEW s \in Request, request'[s].stage = "reads"
        PROVE  SameOn(request'[s].seen, Board!Store', Board!Docs \ request'[s].stale)
    <3>1. s # r /\ request[s].stage = "reads" /\ request[s] \in Stages
      BY <1>1, <1>6, <1>7, <1>8, <2>1
    <3>2. /\ request'[s].stale = request[s].stale \union W
          /\ request'[s].seen = request[s].seen
      BY <1>5, <1>7, <3>1
    <3>3. SameOn(request[s].seen, Board!Store, Board!Docs \ request[s].stale)
      BY <3>1 DEF BoardInv, ReadsInv
    <3> DEFINE A == Board!Docs \ request'[s].stale
    <3>4. A \subseteq Board!Docs \ request[s].stale /\ A \subseteq Board!Docs \ W
      BY <3>2
    <3> HIDE DEF A
    <3>5. SameOn(request[s].seen, Board!Store, A)
      BY <3>3, <3>4, SameOnParts
    <3>6. SameOn(Board!Store, Board!Store', A)
      BY <3>4, SameOnParts
    <3>7. SameOn(request[s].seen, Board!Store', A)
      BY <3>5, <3>6, SameOnParts
    <3> QED BY <3>2, <3>7 DEF A
  <2> QED BY <2>1 DEF ReadsInv
<1>11. ASSUME NEW s \in Request, request'[s].stage = "written"
       PROVE  s # r /\ request'[s] = request[s] /\ request[s].stage = "written"
  BY <1>1, <1>4, <1>6, <1>7, <1>8, <1>11
<1>12. WritesInv'
  <2>1. ASSUME NEW s \in Request, request'[s].stage = "written"
        PROVE  Effect(Board!Store', request'[s].form, request'[s].out, request'[s].wrote)
    <3>1. s # r /\ request'[s] = request[s] /\ request[s].stage = "written"
      BY <1>11, <2>1
    <3>2. /\ Effect(Board!Store, request[s].form, request[s].out, request[s].wrote)
          /\ request[s].wrote \intersect W = {}
      BY <3>1 DEF BoardInv, WritesInv
    <3>3. request[s] \in Holding
      BY <1>1, <3>1, StagesTell
    <3>4. request[s].form \in Board!Forms /\ request[s].wrote \subseteq Board!Docs \ W
      BY <3>2, <3>3 DEF Holding
    <3>5. SameOn(Board!Store, Board!Store', request[s].wrote)
      BY <3>4, SameOnParts
    <3> DEFINE S == Board!Store
               T == Board!Store'
    <3>6. S \in Stores /\ T \in Stores /\ SameOn(S, T, request[s].wrote)
          /\ Effect(S, request[s].form, request[s].out, request[s].wrote)
      BY <1>1, <3>2, <3>5
    <3> HIDE DEF S, T
    <3>7. Effect(T, request[s].form, request[s].out, request[s].wrote)
      BY <3>4, <3>6, EffectStays
    <3> QED BY <3>1, <3>7 DEF T
  <2>2. ASSUME NEW s \in Request, NEW t \in Request, s # t,
               request'[s].stage = "written", request'[t].stage = "written"
        PROVE  request'[s].wrote \intersect request'[t].wrote = {}
    BY <1>11, <2>2 DEF BoardInv, WritesInv
  <2> QED BY <2>1, <2>2 DEF WritesInv
<1>13. SavesInv'
  <2>1. ASSUME NEW s \in Request, request'[s].stage = "saves" PROVE SavesWell(request'[s])
    <3>1. CASE s = r
      BY <1>6, <1>7, <2>1, <3>1
    <3>2. CASE s # r
      <4>1. request[s].stage = "saves" /\ request'[s] = request[s]
        BY <1>1, <1>4, <1>7, <1>8, <2>1, <3>2
      <4> QED BY <4>1 DEF BoardInv, SavesInv, SavesWell
    <3> QED BY <3>1, <3>2
  <2> QED BY <2>1 DEF SavesInv, SavesWell
<1> QED BY <1>9, <1>10, <1>12, <1>13 DEF BoardInv

\* BoardInv holds when a request begins: it reads the documents as they are.
LEMMA BoardBegins ==
  ASSUME BoardInv, NEW r \in Request, NEW form \in Board!Forms, Board!Begin(r, form)
  PROVE  BoardInv'
<1> DEFINE q == Board!Reading(form, 1)
<1>1. Board!Store \in Stores /\ begun \in 0..topic.most /\ topic.most \in Nat
  BY DEF BoardInv, BoardTypes
<1>2. q \in Looking /\ q.seen = Board!Store /\ q.stale = {}
  BY <1>1, BoundsAssumption DEF Board!Reading, Looking
<1>3. /\ request' = [request EXCEPT ![r] = q] /\ UNCHANGED StoreVars
      /\ begun < topic.most /\ begun' = begun + 1
  BY DEF Board!Begin, Board!stored, StoreVars
<1>4. begun' \in 0..topic.most
  BY <1>1, <1>3
<1> HIDE DEF q
<1>5. q \in Stages /\ q \notin Holding /\ q \notin Saving
  BY <1>2 DEF Stages, Looking, Holding, Saving
<1>6. SameOn(q.seen, Board!Store, Board!Docs \ q.stale)
  BY <1>2, SameOnParts
<1> QED BY <1>3, <1>4, <1>5, <1>6, RequestStep

\* BoardInv holds when a request is replayed and reads afresh.
LEMMA BoardReadsAgain ==
  ASSUME BoardInv, NEW r \in Request, Board!ReadAgain(r)
  PROVE  BoardInv'
<1> DEFINE p == request[r]
           q == Board!Reading(p.form, p.attempt)
<1>1. Board!Store \in Stores /\ begun \in 0..topic.most /\ p \in Stages
  BY DEF BoardInv, BoardTypes
<1>2. p \in Asking
  BY <1>1, StagesTell DEF Board!ReadAgain
<1>3. q \in Looking /\ q.seen = Board!Store /\ q.stale = {}
  BY <1>1, <1>2 DEF Board!Reading, Looking, Asking
<1>4. /\ request' = [request EXCEPT ![r] = q] /\ UNCHANGED StoreVars
      /\ begun' \in 0..topic.most
  BY <1>1 DEF Board!ReadAgain, Board!stored, StoreVars
<1> HIDE DEF q, p
<1>5. q \in Stages /\ q \notin Holding /\ q \notin Saving
  BY <1>3 DEF Stages, Looking, Holding, Saving
<1>6. SameOn(q.seen, Board!Store, Board!Docs \ q.stale)
  BY <1>3, SameOnParts
<1> QED BY <1>4, <1>5, <1>6, RequestStep

\* BoardInv holds when a request ends.
LEMMA BoardFinishes ==
  ASSUME BoardInv, NEW r \in Request, Board!Finish(r), UNCHANGED StoreVars, begun' = begun
  PROVE  BoardInv'
<1>1. /\ request' = [request EXCEPT ![r] = Board!Idle] /\ begun' \in 0..topic.most
  BY DEF Board!Finish, BoardInv, BoardTypes
<1>2. Board!Idle \in Stages /\ Board!Idle \notin Looking /\ Board!Idle \notin Holding
      /\ Board!Idle \notin Saving
  BY DEF Stages, Looking, Holding, Saving, Board!Idle
<1> QED BY <1>1, <1>2, RequestStep

\* BoardInv holds when a request is sent back to its start.
LEMMA BoardReplays ==
  ASSUME BoardInv, NEW r \in Request, request[r] \in Looking \union Holding, Board!Replay(r),
         UNCHANGED StoreVars, begun' = begun
  PROVE  BoardInv'
<1> DEFINE p == request[r]
           q == [stage |-> "begins", form |-> p.form, attempt |-> p.attempt + 1]
<1>1. CASE Board!MayReplay(p)
  <2>1. request' = [request EXCEPT ![r] = q] /\ begun' \in 0..topic.most
    BY <1>1 DEF Board!Replay, BoardInv, BoardTypes
  <2>2. p.form \in Board!Forms /\ p.attempt \in 1..MaxAttempts
    BY DEF Looking, Holding
  <2>3. p.attempt + 1 \in 1..MaxAttempts
    BY <1>1, <2>2, BoundsAssumption DEF Board!MayReplay
  <2>4. q \in Asking
    BY <2>2, <2>3 DEF Asking
  <2> HIDE DEF q
  <2>5. q \in Stages /\ q \notin Looking /\ q \notin Holding /\ q \notin Saving
    BY <2>4 DEF Stages, Asking, Looking, Holding, Saving
  <2> QED BY <2>1, <2>5, RequestStep
<1>2. CASE ~Board!MayReplay(p)
  BY <1>2, BoardFinishes DEF Board!Replay
<1> QED BY <1>1, <1>2

\* BoardInv holds when a request writes documents nobody else has written.
LEMMA BoardWrites ==
  ASSUME BoardInv, NEW r \in Request, Board!Write(r)
  PROVE  BoardInv'
<1> DEFINE p == request[r]
<1>1. Board!Store \in Stores /\ begun \in 0..topic.most /\ p \in Stages /\ Good(channel)
  BY DEF BoardInv, BoardTypes
<1>2. p \in Looking /\ Board!Allowed(p.form, p.seen)
  BY <1>1, StagesTell DEF Board!Write
<1>3. PICK out \in Board!Outcomes(p.form, p.seen) :
        /\ Board!Free(r, Board!Attempted(r, out))
        /\ request' = [request EXCEPT ![r] =
             [stage |-> "written", form |-> p.form, attempt |-> p.attempt,
              out |-> out, wrote |-> Board!Attempted(r, out)]]
  BY DEF Board!Write
<1> DEFINE W == Board!Written(p.form, p.seen, out)
           q == [stage |-> "written", form |-> p.form, attempt |-> p.attempt,
                 out |-> out, wrote |-> W]
<1>4. request' = [request EXCEPT ![r] = q] /\ p.stale \intersect W = {}
      /\ \A s \in Request : request[s].stage = "written" => request[s].wrote \intersect W = {}
  BY <1>3 DEF Board!Attempted, Board!Free, Board!Held
<1>5. /\ p.form \in Board!Forms /\ p.seen \in Stores /\ p.attempt \in 1..MaxAttempts
      /\ p.stale \in SUBSET Board!Docs
  BY <1>2 DEF Looking
<1>6. SameOn(p.seen, Board!Store, Board!Docs \ p.stale)
  <2>1. p.stage = "reads"
    BY <1>1, <1>2, StagesTell
  <2> QED BY <2>1 DEF BoardInv, ReadsInv
<1> DEFINE T == Board!Store
<1>7. T.channel = channel /\ T \in Stores /\ SameOn(p.seen, T, Board!Docs \ p.stale)
  BY <1>1, <1>6 DEF Board!Store
<1>8. UNCHANGED StoreVars /\ begun' \in 0..topic.most
  BY <1>1 DEF Board!Write, Board!stored, StoreVars
<1> HIDE DEF p, T
<1>9. Board!ChannelDoc \in W => Good(p.seen.channel)
  <2>1. Board!ChannelDoc \in Board!Docs
    BY DEF Board!Docs
  <2> QED BY <1>1, <1>4, <1>7, <2>1 DEF SameOn
<1>10. out \in Stores /\ Effect(p.seen, p.form, out, W) /\ W \subseteq Board!Docs
  BY <1>2, <1>3, <1>5, <1>9, EffectRead
<1> HIDE DEF W
<1>11. SameOn(p.seen, T, W)
  <2>1. W \subseteq Board!Docs \ p.stale
    BY <1>4, <1>10
  <2> QED BY <1>7, <2>1, SameOnParts
<1>12. Effect(T, p.form, out, W)
  BY <1>5, <1>7, <1>10, <1>11, EffectStays
<1>13. q \in Holding /\ q.form = p.form /\ q.out = out /\ q.wrote = W
  BY <1>5, <1>10 DEF Holding
<1> HIDE DEF q
<1>14. q \in Stages /\ q \notin Looking /\ q \notin Saving
  BY <1>13 DEF Stages, Holding, Looking, Saving
<1>15. Effect(Board!Store, q.form, q.out, q.wrote)
       /\ \A s \in Request : request[s].stage = "written" =>
             request[s].wrote \intersect q.wrote = {}
  BY <1>4, <1>12, <1>13 DEF T
<1> QED BY <1>4, <1>8, <1>14, <1>15, RequestStep

\* BoardInv holds when receipts arrive over the WebSocket and the messages are read.
LEMMA BoardReceives ==
  ASSUME BoardInv, NEW r \in Request, NEW form \in Board!Forms, Board!Receive(r, form)
  PROVE  BoardInv'
<1> DEFINE which == Board!Counting(posts, delivery, form.by, form.op, form.what)
           q == [stage |-> "saves", by |-> form.by, kind |-> form.op, seen |-> delivery,
                 what |-> which]
<1>1. /\ form.op \in Board!Kinds /\ Board!Allowed(form, Board!Store)
      /\ begun < topic.most /\ begun' = begun + 1
      /\ request' = [request EXCEPT ![r] = q] /\ UNCHANGED StoreVars
  BY DEF Board!Receive, Board!stored, StoreVars
<1>2. begun \in 0..topic.most /\ topic.most \in Nat /\ delivery \in Deliveries
  BY DEF BoardInv, BoardTypes, Stores, Board!Store
<1>3. which # {}
  BY <1>1, OpsApart DEF Board!Allowed, Board!Store
<1>4. form.by \in Users /\ which \subseteq Message
      /\ \A m \in which : Board!Counts(posts[m], delivery[m], form.by, form.op)
  BY FormTyped DEF Board!Counting
<1>5. \A m \in which : Board!EntryOf(delivery[m], form.by) # 0 => form.op = "read"
  BY <1>4 DEF Board!Counts
<1> HIDE DEF which
<1>6. q \in Saving
  <2>1. which \in (SUBSET Message) \ {{}}
    BY <1>3, <1>4
  <2> QED BY <1>1, <1>2, <1>4, <2>1 DEF Saving
<1>7. SavesWell(q)
  BY <1>5 DEF SavesWell
<1> HIDE DEF q
<1>8. q \in Stages /\ q \notin Looking /\ q \notin Holding /\ begun' \in 0..topic.most
  BY <1>1, <1>2, <1>6 DEF Stages, Saving, Looking, Holding
<1> QED BY <1>1, <1>7, <1>8, RequestStep

\* What a commit does to the documents: it changes the membership, or receipts, or messages
\* and pins, as it may at that moment; or nothing.
Governed ==
    \E op \in Board!Governing, by \in Users, who \in SUBSET Users :
        /\ Board!May(channel, op, by, who)
        /\ channel' \in Board!Results(channel, op, by, who, 0)
        /\ UNCHANGED <<pins, posts, delivery>>

Received ==
    /\ UNCHANGED <<channel, pins, posts>>
    /\ delivery' \in Deliveries
    /\ \A m \in Message :
          \/ delivery'[m] = delivery[m]
          \/ \E by \in Users, kind \in Board!Kinds :
                /\ Board!EntryOf(delivery[m], by) # 0 => kind = "read"
                /\ delivery'[m] = Board!Saved(delivery[m], delivery[m], by, kind)

Changed ==
    \E op \in Board!MessageOperations, by \in Users, what \in SUBSET Message, e \in Emoji :
        /\ Board!MayChange(AsAsked(channel, op, by), pins, posts, op, by, what)
        /\ pins' = Board!PinsAfter(pins, op, what)
        /\ posts' = Board!PostsAfter(posts, op, by, what, e)
        /\ UNCHANGED <<channel, delivery>>

BoardMoves == Governed \/ Received \/ Changed

\* The store is its four documents, and typed as they are.
LEMMA StoreTyped ==
  /\ Board!Store.channel = channel /\ Board!Store.pins = pins
  /\ Board!Store.posts = posts /\ Board!Store.delivery = delivery
  /\ Board!Store \in Stores <=>
        /\ channel \in Board!Channels({0}) /\ pins \in SUBSET Message
        /\ posts \in [Message -> Post] /\ delivery \in Deliveries
<1>1. /\ Board!Store.channel = channel /\ Board!Store.pins = pins
      /\ Board!Store.posts = posts /\ Board!Store.delivery = delivery
  BY DEF Board!Store
<1>2. Board!Store \in Stores =>
        /\ channel \in Board!Channels({0}) /\ pins \in SUBSET Message
        /\ posts \in [Message -> Post] /\ delivery \in Deliveries
  BY <1>1 DEF Stores
<1>3. /\ channel \in Board!Channels({0}) /\ pins \in SUBSET Message
      /\ posts \in [Message -> Post] /\ delivery \in Deliveries
      => Board!Store \in Stores
  BY DEF Stores, Board!Store
<1> QED BY <1>1, <1>2, <1>3

\* What a commit moves: the documents written become the store, the others stay.
LEMMA CommitMoves ==
  ASSUME BoardInv, NEW r \in Request, Board!Commit(r)
  PROVE  BoardMoves
<1> DEFINE q == request[r]
           f == q.form
           out == q.out
           W == q.wrote
           S == Board!Store
<1>1. q \in Holding /\ Effect(S, f, out, W)
  BY StagesTell DEF Board!Commit, BoardInv, BoardTypes, WritesInv
<1>2. /\ IF Board!ChannelDoc \in W THEN channel' = out.channel /\ pins' = out.pins
                                   ELSE channel' = channel /\ pins' = pins
      /\ posts' = [m \in Message |-> IF m \in W THEN out.posts[m] ELSE posts[m]]
      /\ delivery' = [m \in Message |-> IF m \in W THEN out.delivery[m] ELSE delivery[m]]
  BY DEF Board!Commit
<1>3. f \in Board!Forms /\ out \in Stores /\ W \in SUBSET Board!Docs
  BY <1>1 DEF Holding
<1>4. /\ S.channel = channel /\ S.pins = pins /\ S.posts = posts /\ S.delivery = delivery
      /\ posts \in [Message -> Post] /\ delivery \in Deliveries
  BY StoreTyped DEF BoardInv, BoardTypes
<1>5. f.by \in Users /\ f.who \in SUBSET Users
  BY <1>3, FormTyped
<1> HIDE DEF q, f, out, W, S
<1>6. CASE Governs(S, f, out, W)
  <2>1. /\ f.op \in Board!Governing /\ W = {Board!ChannelDoc}
        /\ Board!May(channel, f.op, f.by, f.who)
        /\ out.channel \in Board!Results(channel, f.op, f.by, f.who, 0)
        /\ out.pins = pins
    BY <1>4, <1>6 DEF Governs
  <2>2. posts' = posts /\ delivery' = delivery
    BY <1>2, <1>4, <2>1, DocsAssumption DEF Deliveries
  <2>3. channel' = out.channel /\ pins' = pins
    BY <1>2, <2>1
  <2> QED BY <1>5, <2>1, <2>2, <2>3 DEF Governed, BoardMoves
<1>7. CASE Receives(S, f, out, W)
  <2>1. /\ f.op \in Board!Kinds /\ W \subseteq Message
        /\ \A m \in W :
              /\ Board!Counts(posts[m], delivery[m], f.by, f.op)
              /\ out.posts[m] = posts[m]
              /\ out.delivery[m] = Board!Saved(delivery[m], delivery[m], f.by, f.op)
    BY <1>4, <1>7 DEF Receives
  <2>2. channel' = channel /\ pins' = pins
    BY <1>2, <2>1, DocsAssumption
  <2>3. posts' = posts
    BY <1>2, <1>4, <2>1
  <2>4. delivery' \in Deliveries
    BY <1>2, <1>3, <1>4 DEF Deliveries, Stores
  <2>5. ASSUME NEW m \in Message
        PROVE  \/ delivery'[m] = delivery[m]
               \/ \E by \in Users, kind \in Board!Kinds :
                     /\ Board!EntryOf(delivery[m], by) # 0 => kind = "read"
                     /\ delivery'[m] = Board!Saved(delivery[m], delivery[m], by, kind)
    <3>1. CASE m \in W
      <4>1. delivery'[m] = Board!Saved(delivery[m], delivery[m], f.by, f.op)
        BY <1>2, <2>1, <3>1
      <4>2. Board!EntryOf(delivery[m], f.by) # 0 => f.op = "read"
        BY <2>1, <3>1 DEF Board!Counts
      <4> QED BY <1>5, <2>1, <4>1, <4>2
    <3>2. CASE m \notin W
      BY <1>2, <3>2
    <3> QED BY <3>1, <3>2
  <2> QED BY <2>2, <2>3, <2>4, <2>5 DEF Received, BoardMoves
<1>8. CASE Changes(S, f, out, W)
  <2> DEFINE named == W \intersect Message
  <2>1. PICK e \in Emoji :
        /\ f.op \in Board!MessageOperations
        /\ Board!ChannelDoc \in W <=> f.op \in {"pin", "unpin"}
        /\ named # {} =>
              Board!MayChange(AsAsked(channel, f.op, f.by), pins, posts, f.op, f.by, named)
        /\ Board!ChannelDoc \in W =>
              named # {} /\ out.channel = channel
              /\ out.pins = Board!PinsAfter(pins, f.op, named)
        /\ \A m \in named :
              /\ out.posts[m] = Board!PostAfter(posts[m], f.op, f.by, e)
              /\ out.delivery[m] = delivery[m]
    BY <1>4, <1>8 DEF Changes
  <2>2. channel' = channel
    BY <1>2, <2>1
  <2>3. pins' = Board!PinsAfter(pins, f.op, named)
    <3>1. CASE Board!ChannelDoc \in W
      BY <1>2, <2>1, <3>1
    <3>2. CASE Board!ChannelDoc \notin W
      <4>1. Board!PinsAfter(pins, f.op, named) = pins
        BY <2>1, <3>2 DEF Board!PinsAfter
      <4> QED BY <1>2, <3>2, <4>1
    <3> QED BY <3>1, <3>2
  <2>4. delivery' = delivery
    BY <1>2, <1>4, <2>1 DEF Deliveries
  <2>5. posts' = Board!PostsAfter(posts, f.op, f.by, named, e)
    <3>1. \A m \in Message : m \in W <=> m \in named
      OBVIOUS
    <3>2. Board!PostsAfter(posts, f.op, f.by, named, e) =
            [m \in Message |-> IF m \in named THEN Board!PostAfter(posts[m], f.op, f.by, e)
                               ELSE posts[m]]
      BY DEF Board!PostsAfter
    <3> HIDE DEF named
    <3> QED BY <1>2, <2>1, <3>1, <3>2
  <2>6. CASE named = {}
    <3>1. Board!ChannelDoc \notin W
      BY <2>1, <2>6
    <3>2. pins' = pins
      BY <1>2, <3>1
    <3>3. posts' = posts
      BY <1>2, <1>4, <2>6
    <3>4. Received
      BY <1>4, <2>2, <2>4, <3>2, <3>3 DEF Received
    <3> QED BY <3>4 DEF BoardMoves
  <2>7. CASE named # {}
    <3>1. named \in SUBSET Message
          /\ Board!MayChange(AsAsked(channel, f.op, f.by), pins, posts, f.op, f.by, named)
      BY <2>1, <2>7
    <3> HIDE DEF named
    <3>2. Changed
      BY <1>5, <2>1, <2>2, <2>3, <2>4, <2>5, <3>1 DEF Changed
    <3> QED BY <3>2 DEF BoardMoves
  <2> QED BY <2>6, <2>7
<1> QED BY <1>1, <1>6, <1>7, <1>8 DEF Effect

\* Whoever may change messages keeps the two records of what is pinned alike.
LEMMA ChangedWell ==
  ASSUME BoardInv, Changed
  PROVE  posts' \in [Message -> Post] /\ pins' \in SUBSET Message /\ PinsInv' /\ ReactionsInv'
<1>1. PICK op \in Board!MessageOperations, by \in Users, what \in SUBSET Message, e \in Emoji :
        /\ Board!MayChange(AsAsked(channel, op, by), pins, posts, op, by, what)
        /\ pins' = Board!PinsAfter(pins, op, what)
        /\ posts' = Board!PostsAfter(posts, op, by, what, e)
  BY DEF Changed
<1>2. posts \in [Message -> Post] /\ pins \in SUBSET Message
  BY StoreTyped DEF BoardInv, BoardTypes
<1>3. pins = {m \in Message : posts[m].pinned} /\ IsFiniteSet(pins)
      /\ Cardinality(pins) <= MaxPins /\ Cardinality(pins) \in Nat
  BY FS_CardinalityType DEF BoardInv, PinsInv
<1>4. posts' = [m \in Message |-> IF m \in what THEN Board!PostAfter(posts[m], op, by, e)
                                  ELSE posts[m]]
  BY <1>1 DEF Board!PostsAfter
<1>5. \A m \in Message : posts'[m] \in Post
         /\ (posts'[m].pinned <=>
                (m \in what /\ op = "pin") \/ (posts[m].pinned /\ ~(m \in what /\ op = "unpin")))
         /\ (OncePerUser(posts[m].reactions) => OncePerUser(posts'[m].reactions))
  <2> TAKE m \in Message
  <2>1. CASE m \in what
    <3>1. posts[m] \in Post /\ posts'[m] = Board!PostAfter(posts[m], op, by, e)
      BY <1>2, <1>4, <2>1
    <3>2. Follows(posts'[m], posts[m], op)
      BY <1>1, <3>1, PostAfterIs
    <3> QED BY <2>1, <3>2 DEF Follows
  <2>2. CASE m \notin what
    BY <1>2, <1>4, <2>2
  <2> QED BY <2>1, <2>2
<1>6. posts' \in [Message -> Post]
  BY <1>4, <1>5
<1>7. ReactionsInv'
  BY <1>5 DEF BoardInv, ReactionsInv
<1>8. pins' \in SUBSET Message /\ pins' = {m \in Message : posts'[m].pinned}
  BY <1>1, <1>2, <1>3, <1>5 DEF Board!PinsAfter
<1>9. IsFiniteSet(pins') /\ Cardinality(pins') <= MaxPins
  <2>1. CASE op = "pin"
    <3>1. PICK m \in what : what = {m} /\ Board!MayPin(AsAsked(channel, op, by), pins, posts, by, m)
      BY <1>1, <2>1 DEF Board!MayChange
    <3>2. Board!Cardinality(pins) = Cardinality(pins)
      BY DEF Board!Cardinality, Cardinality
    <3>3. Cardinality(pins) < MaxPins \/ m \in pins
      BY <1>3, <3>1, <3>2 DEF Board!MayPin
    <3>4. pins' = pins \union {m}
      BY <1>1, <2>1, <3>1 DEF Board!PinsAfter
    <3>5. IsFiniteSet(pins')
          /\ Cardinality(pins') = IF m \in pins THEN Cardinality(pins) ELSE Cardinality(pins) + 1
      BY <1>3, <3>4, FS_AddElement
    <3> QED BY <1>3, <3>3, <3>5, BoundsAssumption
  <2>2. CASE op # "pin"
    <3>1. pins' \subseteq pins
      BY <1>1, <2>2 DEF Board!PinsAfter
    <3>2. IsFiniteSet(pins') /\ Cardinality(pins') <= Cardinality(pins)
          /\ Cardinality(pins') \in Nat
      BY <1>3, <3>1, FS_Subset, FS_CardinalityType
    <3> QED BY <1>3, <3>2, BoundsAssumption
  <2> QED BY <2>1, <2>2
<1> QED BY <1>6, <1>7, <1>8, <1>9 DEF PinsInv

\* BoardInv holds when a request commits: what the others have written is still right.
LEMMA BoardCommits ==
  ASSUME BoardInv, NEW r \in Request, Board!Commit(r)
  PROVE  BoardInv'
<1> DEFINE q == request[r]
           W == q.wrote
<1>1. q \in Holding /\ q.stage = "written"
  BY StagesTell DEF Board!Commit, BoardInv, BoardTypes
<1>2. /\ Board!ChannelDoc \notin W => channel' = channel /\ pins' = pins
      /\ posts' = [m \in Message |-> IF m \in W THEN q.out.posts[m] ELSE posts[m]]
      /\ delivery' = [m \in Message |-> IF m \in W THEN q.out.delivery[m] ELSE delivery[m]]
      /\ Board!Overtake(r, W, Board!Idle) /\ UNCHANGED <<topic, begun>>
  BY DEF Board!Commit
<1>3. \A s \in Request : s # r /\ request[s].stage = "written" =>
         request[s].wrote \intersect W = {}
  BY <1>1 DEF BoardInv, WritesInv
<1>4. W \in SUBSET Board!Docs
  BY <1>1 DEF Holding
<1> HIDE DEF q, W
<1>5. /\ Board!ChannelDoc \in Board!Docs \ W => channel' = channel /\ pins' = pins
      /\ \A m \in (Board!Docs \ W) \intersect Message :
            posts'[m] = posts[m] /\ delivery'[m] = delivery[m]
  BY <1>2
<1>6. /\ Board!Store'.channel = channel' /\ Board!Store'.pins = pins'
      /\ Board!Store'.posts = posts' /\ Board!Store'.delivery = delivery'
  BY DEF Board!Store
<1>7. SameOn(Board!Store, Board!Store', Board!Docs \ W)
  BY <1>5, <1>6, StoreTyped DEF SameOn
<1>8. /\ channel \in Board!Channels({0}) /\ pins \in SUBSET Message
      /\ posts \in [Message -> Post] /\ delivery \in Deliveries
      /\ Good(channel) /\ PinsInv /\ ReactionsInv
  BY StoreTyped DEF BoardInv, BoardTypes
<1>9. /\ channel' \in Board!Channels({0}) /\ pins' \in SUBSET Message
      /\ posts' \in [Message -> Post] /\ delivery' \in Deliveries
      /\ Good(channel') /\ PinsInv' /\ ReactionsInv'
  <2>1. CASE Governed
    <3>1. channel' \in Board!Channels({0}) /\ Good(channel')
      BY <1>8, <2>1, GovernGood DEF Governed
    <3>2. pins' = pins /\ posts' = posts /\ delivery' = delivery
      BY <2>1 DEF Governed
    <3> QED BY <1>8, <3>1, <3>2 DEF PinsInv, ReactionsInv
  <2>2. CASE Received
    <3>1. channel' = channel /\ pins' = pins /\ posts' = posts /\ delivery' \in Deliveries
      BY <2>2 DEF Received
    <3> QED BY <1>8, <3>1 DEF PinsInv, ReactionsInv
  <2>3. CASE Changed
    <3>1. channel' = channel /\ delivery' = delivery
      BY <2>3 DEF Changed
    <3> QED BY <1>8, <2>3, <3>1, ChangedWell
  <2> QED BY <2>1, <2>2, <2>3, CommitMoves DEF BoardMoves, q
<1>10. Board!Store' \in Stores
  BY <1>6, <1>9 DEF Stores, Board!Store
<1>11. Good(channel)'
  BY <1>9 DEF Good, Group!Exists
<1>12. Board!Idle \in {Board!Idle} \union Saving /\ Board!Idle \notin Saving
  BY DEF Board!Idle, Saving
<1> QED BY <1>2, <1>3, <1>4, <1>7, <1>9, <1>10, <1>11, <1>12, DocumentsStep

\* What a saving of receipts is once its list of messages is written.
LEMMA WhatUpdated ==
  ASSUME NEW p \in Saving, NEW v
  PROVE  [p EXCEPT !.what = v] =
            [stage |-> p.stage, by |-> p.by, kind |-> p.kind, seen |-> p.seen, what |-> v]
  BY DEF Saving

\* BoardInv holds when a WebSocket receipt saves a message.
LEMMA BoardSaves ==
  ASSUME BoardInv, NEW r \in Request, NEW m \in Message, Board!Save(r, m)
  PROVE  BoardInv'
<1> DEFINE p == request[r]
           q == IF p.what = {m} THEN Board!Idle ELSE [p EXCEPT !.what = @ \ {m}]
           new == Board!Saved(delivery[m], p.seen[m], p.by, p.kind)
<1>1. p \in Saving /\ SavesWell(p) /\ m \in p.what
  BY StagesTell DEF Board!Save, BoardInv, BoardTypes, SavesInv, SavesWell
<1>2. /\ delivery' = [delivery EXCEPT ![m] = new]
      /\ Board!Overtake(r, {m}, q)
      /\ UNCHANGED <<channel, pins, posts, topic, begun>>
      /\ \A s \in Request : request[s].stage = "written" => request[s].wrote \intersect {m} = {}
  BY DEF Board!Save, Board!Held
<1>3. p.seen \in Deliveries /\ p.by \in Users /\ delivery \in Deliveries
  BY <1>1, StoreTyped DEF Saving, BoardInv, BoardTypes
<1>4. new \in Seq(Board!Receipts)
  BY <1>3, SavedTyped DEF Deliveries
<1>5. q \in {Board!Idle} \union Saving /\ (q \in Saving => SavesWell(q))
  <2>1. CASE p.what = {m}
    BY <2>1 DEF Board!Idle, Saving
  <2>2. CASE p.what # {m}
    <3> DEFINE x == [p EXCEPT !.what = @ \ {m}]
    <3>1. x = [stage |-> p.stage, by |-> p.by, kind |-> p.kind, seen |-> p.seen,
               what |-> p.what \ {m}]
      BY <1>1, WhatUpdated
    <3>2. p.what \ {m} \in (SUBSET Message) \ {{}}
      BY <1>1, <2>2 DEF Saving
    <3> HIDE DEF x
    <3>3. x \in Saving
      BY <1>1, <3>1, <3>2 DEF Saving
    <3>4. SavesWell(x)
      BY <1>1, <3>1 DEF SavesWell
    <3>5. q = x
      BY <2>2 DEF x
    <3> HIDE DEF q
    <3> QED BY <3>3, <3>4, <3>5
  <2> QED BY <2>1, <2>2
<1> HIDE DEF p, q, new
<1>6. delivery' \in Deliveries /\ \A n \in Message : n # m => delivery'[n] = delivery[n]
  BY <1>2, <1>3, <1>4 DEF Deliveries
<1>7. /\ Board!Store'.channel = channel' /\ Board!Store'.pins = pins'
      /\ Board!Store'.posts = posts' /\ Board!Store'.delivery = delivery'
  BY DEF Board!Store
<1>8. SameOn(Board!Store, Board!Store', Board!Docs \ {m})
  BY <1>2, <1>6, <1>7, StoreTyped DEF SameOn
<1>9. /\ channel \in Board!Channels({0}) /\ pins \in SUBSET Message
      /\ posts \in [Message -> Post] /\ Good(channel) /\ PinsInv /\ ReactionsInv
  BY StoreTyped DEF BoardInv, BoardTypes
<1>10. Board!Store' \in Stores
  BY <1>2, <1>6, <1>9 DEF Stores, Board!Store
<1>11. Good(channel)' /\ PinsInv' /\ ReactionsInv'
  BY <1>2, <1>9 DEF Good, Group!Exists, PinsInv, ReactionsInv
<1>12. {m} \in SUBSET Board!Docs
  BY DEF Board!Docs
<1> QED BY <1>2, <1>5, <1>8, <1>10, <1>11, <1>12, DocumentsStep

\* BoardInv is inductive.
LEMMA NextBoardInv ==
  ASSUME BoardInv, Board!Next
  PROVE  BoardInv'
<1>1. PICK r \in Request :
        \/ \E form \in Board!Forms : Board!Begin(r, form) \/ Board!Receive(r, form)
        \/ \E m \in Message : Board!Save(r, m)
        \/ Board!ReadAgain(r) \/ Board!Refuse(r) \/ Board!Write(r) \/ Board!Conflict(r)
        \/ Board!Interrupted(r) \/ Board!Commit(r) \/ Board!CommitFails(r) \/ Board!SaveFails(r)
  BY DEF Board!Next
<1>2. request[r] \in Stages
  BY DEF BoardInv, BoardTypes
<1>3. CASE \E form \in Board!Forms : Board!Begin(r, form) \/ Board!Receive(r, form)
  BY <1>3, BoardBegins, BoardReceives
<1>4. CASE \E m \in Message : Board!Save(r, m)
  BY <1>4, BoardSaves
<1>5. CASE Board!ReadAgain(r)
  BY <1>5, BoardReadsAgain
<1>6. CASE Board!Refuse(r) \/ Board!CommitFails(r) \/ Board!SaveFails(r)
  BY <1>6, BoardFinishes
     DEF Board!Refuse, Board!CommitFails, Board!SaveFails, Board!stored, StoreVars
<1>7. CASE Board!Write(r)
  BY <1>7, BoardWrites
<1>8. CASE Board!Conflict(r) \/ Board!Interrupted(r)
  BY <1>2, <1>8, StagesTell, BoardReplays
     DEF Board!Conflict, Board!Interrupted, Board!stored, StoreVars
<1>9. CASE Board!Commit(r)
  BY <1>9, BoardCommits
<1> QED BY <1>1, <1>3, <1>4, <1>5, <1>6, <1>7, <1>8, <1>9

\* What every channel starts from, with or without receipts.
LEMMA NewBoardInv ==
  ASSUME NEW by \in Users, NEW others \in SUBSET Users, channel = Board!NewGroup(by, others),
         pins = {}, NEW sender \in [Message -> Users],
         posts = [m \in Message |-> Board!Sent(sender[m])],
         delivery \in Deliveries, topic.most \in Nat, begun = 0,
         request = [r \in Request |-> Board!Idle]
  PROVE  BoardInv
<1>1. channel = [users |-> others \union {by}, admins |-> {by}, owner |-> by, left |-> {}]
  BY DEF Board!NewGroup
<1>2. channel \in Board!Channels({0}) /\ Good(channel)
  BY <1>1 DEF Board!Channels, Good, Group!Exists
<1>3. \A m \in Message :
         posts[m] = [sender |-> sender[m], status |-> "active", hidden |-> {}, pinned |-> FALSE,
                     reactions |-> {}]
  BY DEF Board!Sent
<1>4. ASSUME NEW m \in Message
      PROVE  posts[m] \in Post /\ posts[m].pinned = FALSE /\ posts[m].reactions = {}
  <2>1. sender[m] \in Users
    OBVIOUS
  <2> DEFINE p == [sender |-> sender[m], status |-> "active", hidden |-> {}, pinned |-> FALSE,
                   reactions |-> {}]
  <2>2. p \in Post /\ p.pinned = FALSE /\ p.reactions = {}
    BY <2>1 DEF Post
  <2>3. posts[m] = p
    BY <1>3
  <2> HIDE DEF p
  <2> QED BY <2>2, <2>3
<1>5. posts \in [Message -> Post] /\ ReactionsInv
  BY <1>4 DEF ReactionsInv, OncePerUser
<1>6. PinsInv
  <2>1. pins = {m \in Message : posts[m].pinned}
    BY <1>4
  <2> QED BY <2>1, FS_EmptySet, BoundsAssumption DEF PinsInv
<1>7. Board!Store \in Stores
  BY <1>2, <1>5 DEF Board!Store, Stores
<1>8. request \in [Request -> Stages] /\ \A r \in Request : request[r].stage = "idle"
  BY DEF Stages, Board!Idle
<1>9. BoardTypes
  BY <1>7, <1>8 DEF BoardTypes
<1>10. ReadsInv /\ WritesInv /\ SavesInv
  BY <1>8 DEF ReadsInv, WritesInv, SavesInv
<1> QED BY <1>2, <1>5, <1>6, <1>9, <1>10 DEF BoardInv

\* A set in some order is a sequence.
LEMMA InOrder ==
  ASSUME NEW S, IsFiniteSet(S)
  PROVE  Board!SetToSeq(S) \in Seq(S)
<1> DEFINE n == Cardinality(S)
<1>1. n \in Nat /\ ExistsBijection(1..n, S)
  BY FS_CardinalityType
<1>2. PICK g \in Bijection(1..n, S) : TRUE
  BY <1>1 DEF ExistsBijection
<1>3. g \in [1..n -> S] /\ Board!IsInjective(g)
  BY <1>2 DEF Bijection, Injection, IsInjective, Board!IsInjective
<1>4. Board!Cardinality(S) = n
  BY DEF Board!Cardinality, Cardinality
<1>5. Board!SetToSeq(S) \in [1..n -> S]
  BY <1>3, <1>4 DEF Board!SetToSeq
<1> HIDE DEF n
<1>6. [1..n -> S] \subseteq Seq(S)
  BY <1>1
<1> QED BY <1>5, <1>6

\* BoardInv holds at the start.
LEMMA BoardStarts ==
  ASSUME Board!Init
  PROVE  BoardInv
<1>1. PICK by \in Users, others \in SUBSET Users : channel = Board!NewGroup(by, others)
  BY DEF Board!Init
<1>2. PICK sender \in [Message -> channel.users] :
         posts = [m \in Message |-> Board!Sent(sender[m])]
  BY DEF Board!Init
<1>3. channel.users \subseteq Users
  BY <1>1 DEF Board!NewGroup
<1>4. sender \in [Message -> Users]
  BY <1>2, <1>3
<1>5. topic.most \in Nat
  BY BoundsAssumption DEF Board!Init, Board!Bounds
<1>6. delivery \in Deliveries
  <2> DEFINE to(m) == IF topic.delivered THEN Users \ {posts[m].sender} ELSE {}
             S(m) == {Board!Entry(u, "delivered") : u \in to(m)}
  <2>1. delivery = [m \in Message |-> Board!SetToSeq(S(m))]
    BY DEF Board!Init
  <2>2. ASSUME NEW m \in Message PROVE Board!SetToSeq(S(m)) \in Seq(Board!Receipts)
    <3>1. IsFiniteSet(to(m)) /\ to(m) \subseteq Users
      BY FinitenessAssumption, FS_Subset, FS_EmptySet
    <3> DEFINE g == [u \in to(m) |-> Board!Entry(u, "delivered")]
    <3> HIDE DEF to
    <3>2. IsFiniteSet(S(m))
      <4>1. g \in Surjection(to(m), S(m))
        BY DEF Surjection
      <4> HIDE DEF g, S
      <4> QED BY <3>1, <4>1, FS_Surjection
    <3>3. S(m) \subseteq Board!Receipts
      BY <3>1, EntryTyped
    <3> HIDE DEF S
    <3>4. Board!SetToSeq(S(m)) \in Seq(S(m))
      BY <3>2, InOrder
    <3>5. Seq(S(m)) \subseteq Seq(Board!Receipts)
      BY <3>3
    <3> QED BY <3>4, <3>5
  <2> HIDE DEF S
  <2> QED BY <2>1, <2>2 DEF Deliveries
<1> QED BY <1>1, <1>2, <1>4, <1>5, <1>6, NewBoardInv DEF Board!Init

\* The invariant of the messages, whichever part of Chats moves.
THEOREM BoardAlways == Spec => []BoardInv
<1>1. Init => BoardInv
  <2>1. ASSUME Group!Init, BoardRests PROVE BoardInv
    <3>1. PICK by \in Users, others \in SUBSET Users : group = Group!NewGroup(by, others)
      BY <2>1 DEF Group!Init
    <3>2. channel = Board!NewGroup(by, others)
      BY <2>1, <3>1 DEF BoardRests, Board!NewGroup, Group!NewGroup
    <3> DEFINE sender == [m \in Message |-> by]
    <3>3. sender \in [Message -> Users] /\ \A m \in Message : sender[m] = by
      OBVIOUS
    <3>4. posts = [m \in Message |-> Board!Sent(sender[m])]
      <4>1. group.owner = by
        BY <3>1 DEF Group!NewGroup
      <4> QED BY <2>1, <4>1 DEF BoardRests
    <3> HIDE DEF sender
    <3>5. delivery \in Deliveries /\ topic.most \in Nat /\ begun = 0 /\ pins = {}
          /\ request = [r \in Request |-> Board!Idle]
      BY <2>1 DEF BoardRests, Deliveries
    <3> QED BY <3>2, <3>3, <3>4, <3>5, NewBoardInv
  <2> QED BY <2>1, BoardStarts DEF Init
<1>2. BoardInv /\ [Next]_vars => BoardInv'
  <2>1. ASSUME BoardInv, UNCHANGED boardVars PROVE BoardInv'
    <3>1. /\ channel' = channel /\ pins' = pins /\ posts' = posts /\ delivery' = delivery
          /\ topic' = topic /\ begun' = begun /\ request' = request
      BY <2>1 DEF boardVars
    <3>2. Board!Store' = Board!Store
      BY <3>1 DEF Board!Store
    <3> QED BY <2>1, <3>1, <3>2
            DEF BoardInv, BoardTypes, Good, Group!Exists, PinsInv, ReactionsInv, ReadsInv,
                WritesInv, SavesInv
  <2> QED BY <2>1, NextBoardInv DEF Next, vars
<1> QED BY <1>1, <1>2, PTL DEF Spec

\* The two records of what is pinned agree, within the limit, and nobody has two reactions to
\* a message, whatever runs at once.
THEOREM AlwaysRecorded == Spec => []Recorded
<1>1. BoardInv => Recorded
  <2> SUFFICES ASSUME BoardInv PROVE Recorded
    OBVIOUS
  <2>1. /\ channel \in Board!Channels({0}) /\ pins \in SUBSET Message
        /\ posts \in [Message -> Post] /\ delivery \in Deliveries
        /\ begun \in 0..topic.most /\ request \in [Request -> Stages]
    BY StoreTyped DEF BoardInv, BoardTypes
  <2>2. ASSUME NEW r \in Request
        PROVE  \/ request[r] = Board!Idle
               \/ /\ request[r].stage \in {"begins", "reads", "written"}
                  /\ request[r].attempt \in 1..MaxAttempts
               \/ request[r].stage = "saves" /\ request[r].what # {}
    <3>1. /\ \A q \in Asking : q.stage = "begins" /\ q.attempt \in 1..MaxAttempts
          /\ \A q \in Looking : q.stage = "reads" /\ q.attempt \in 1..MaxAttempts
          /\ \A q \in Holding : q.stage = "written" /\ q.attempt \in 1..MaxAttempts
          /\ \A q \in Saving : q.stage = "saves" /\ q.what # {}
      BY DEF Asking, Looking, Holding, Saving
    <3> QED BY <2>1, <3>1 DEF Stages
  <2>3. Board!TypeOK
    BY <2>1, <2>2 DEF Board!TypeOK, Post, Deliveries
  <2>4. \A S : Board!Promise!Cardinality(S) = Cardinality(S)
    BY DEF Board!Promise!Cardinality, Cardinality
  <2>5. Board!Promise!PinsAgree
    BY <2>4 DEF Board!Promise!PinsAgree, BoardInv, PinsInv
  <2>6. Board!Promise!OneReaction
    <3>1. ASSUME NEW m \in Message, NEW u \in Users
          PROVE  Cardinality(Board!Promise!ReactionsOf(posts[m], u)) <= 1
      <4> DEFINE R == Board!Promise!ReactionsOf(posts[m], u)
      <4>1. \A e, f \in R : e = f
        BY DEF Board!Promise!ReactionsOf, BoardInv, ReactionsInv, OncePerUser
      <4> HIDE DEF R
      <4>2. CASE R = {}
        <5>1. Cardinality({}) = 0
          BY FS_EmptySet
        <5> QED BY <4>2, <5>1 DEF R
      <4>3. CASE R # {}
        <5>1. PICK e \in R : R = {e}
          BY <4>1, <4>3
        <5>2. Cardinality({e}) = 1
          BY FS_Singleton
        <5> QED BY <5>1, <5>2 DEF R
      <4> QED BY <4>2, <4>3
    <3> QED BY <2>4, <3>1 DEF Board!Promise!OneReaction
  <2> QED BY <2>3, <2>5, <2>6 DEF Recorded, Board!Recorded
<1> QED BY <1>1, BoardAlways, PTL

\* Only a commit or a save changes a document.
LEMMA OnlyTwo ==
  ASSUME Board!Next
  PROVE  \/ UNCHANGED <<channel, pins, posts, delivery>>
         \/ \E r \in Request : Board!Commit(r)
         \/ \E r \in Request, m \in Message : Board!Save(r, m)
  BY DEF Board!Next, Board!Begin, Board!Receive, Board!ReadAgain, Board!Refuse, Board!Write,
     Board!Conflict, Board!Interrupted, Board!CommitFails, Board!SaveFails, Board!stored

\* A receipt is lost, taken back or recorded twice only by a WebSocket receipt that saves a
\* message whose receipts have changed since it read them.
THEOREM ReceiptsAlwaysKept == Spec => ReceiptsKept
<1> DEFINE KeptIn(m) == /\ \A u \in Users : Board!Level(delivery'[m], u) >= Board!Level(delivery[m], u)
                        /\ Board!Entries1(delivery[m]) => Board!Entries1(delivery'[m])
           Step == \A m \in Message :
                      \/ \E r \in Request : Board!Late(r, m)
                      \/ /\ \A u \in Users :
                               Board!Level(delivery'[m], u) >= Board!Level(delivery[m], u)
                         /\ Board!Entries1(delivery[m]) => Board!Entries1(delivery'[m])
<1>1. ASSUME BoardInv, delivery' = delivery PROVE Step
  <2>1. \A d, u : Board!Level(d, u) \in {0, 1, 2}
    BY DEF Board!Level
  <2>2. \A d, u : Board!Level(d, u) >= Board!Level(d, u)
    BY <2>1
  <2> QED BY <1>1, <2>2
<1>2. ASSUME BoardInv, NEW r \in Request, Board!Commit(r) PROVE Step
  <2>1. CASE UNCHANGED delivery
    BY <1>1, <1>2, <2>1
  <2>2. CASE Received
    <3> SUFFICES ASSUME NEW m \in Message PROVE KeptIn(m)
      OBVIOUS
    <3>1. delivery[m] \in Seq(Board!Receipts)
      BY <1>2, StoreTyped DEF BoardInv, BoardTypes, Deliveries
    <3>2. CASE delivery'[m] = delivery[m]
      <4>1. \A u : Board!Level(delivery[m], u) \in {0, 1, 2}
        BY DEF Board!Level
      <4> QED BY <3>2, <4>1
    <3>3. CASE delivery'[m] # delivery[m]
      <4>1. PICK by \in Users, kind \in Board!Kinds :
               /\ Board!EntryOf(delivery[m], by) # 0 => kind = "read"
               /\ delivery'[m] = Board!Saved(delivery[m], delivery[m], by, kind)
        BY <2>2, <3>3 DEF Received
      <4> QED BY <3>1, <4>1, SavedKeeps
    <3> QED BY <3>2, <3>3
  <2> QED BY <1>2, <2>1, <2>2, CommitMoves DEF BoardMoves, Governed, Changed
<1>3. ASSUME BoardInv, NEW r \in Request, NEW n \in Message, Board!Save(r, n) PROVE Step
  <2> DEFINE p == request[r]
             new == Board!Saved(delivery[n], p.seen[n], p.by, p.kind)
  <2>1. p \in Saving /\ SavesWell(p) /\ n \in p.what /\ p.stage = "saves"
    BY <1>3, StagesTell DEF Board!Save, BoardInv, BoardTypes, SavesInv, SavesWell
  <2>2. delivery \in Deliveries /\ delivery' = [delivery EXCEPT ![n] = new]
    BY <1>3, StoreTyped DEF Board!Save, BoardInv, BoardTypes
  <2>3. request'[r] # request[r]
    <3>1. request'[r] = IF p.what = {n} THEN Board!Idle ELSE [p EXCEPT !.what = @ \ {n}]
      BY <1>3 DEF Board!Save, Board!Overtake
    <3>2. CASE p.what = {n}
      BY <2>1, <3>1, <3>2 DEF Board!Idle, Saving
    <3>3. CASE p.what # {n}
      <4> DEFINE what == p.what \ {n}
      <4>1. request'[r] = [p EXCEPT !.what = what]
        BY <3>1, <3>3
      <4> HIDE DEF what, p
      <4>2. request'[r].what = what
        BY <2>1, <4>1, WhatUpdated
      <4>3. what # p.what
        BY <2>1 DEF what
      <4> QED BY <4>2, <4>3 DEF p
    <3> QED BY <3>2, <3>3
  <2>4. \A d, u : Board!Level(d, u) \in {0, 1, 2}
    BY DEF Board!Level
  <2>5. ASSUME NEW m \in Message PROVE Board!Late(r, m) \/ KeptIn(m)
    <3>1. CASE m # n
      <4>1. delivery'[m] = delivery[m]
        BY <2>2, <3>1
      <4> QED BY <2>4, <4>1
    <3>2. CASE m = n /\ p.seen[n] # delivery[n]
      BY <2>1, <2>3, <3>2 DEF Board!Late
    <3>3. CASE m = n /\ p.seen[n] = delivery[n]
      <4>1. /\ delivery[n] \in Seq(Board!Receipts) /\ p.by \in Users
            /\ Board!EntryOf(delivery[n], p.by) # 0 => p.kind = "read"
        BY <2>1, <2>2, <3>3 DEF Saving, Deliveries, SavesWell
      <4>2. delivery'[n] = Board!Saved(delivery[n], delivery[n], p.by, p.kind)
        BY <2>2, <3>3 DEF Deliveries
      <4> HIDE DEF p
      <4> QED BY <3>3, <4>1, <4>2, SavedKeeps
    <3> QED BY <3>1, <3>2, <3>3
  <2> QED BY <2>5
<1>4. BoardInv /\ [Next]_vars => [Step]_(Board!vars)
  <2> SUFFICES ASSUME BoardInv, [Next]_vars PROVE Step \/ UNCHANGED Board!vars
    OBVIOUS
  <2> HIDE DEF Step
  <2>1. CASE UNCHANGED boardVars
    BY <2>1 DEF boardVars, Board!vars
  <2>2. CASE Board!Next
    BY <1>1, <1>2, <1>3, <2>2, OnlyTwo
  <2> QED BY <2>1, <2>2 DEF Next, vars
<1> QED BY <1>4, BoardAlways, PTL DEF Spec, ReceiptsKept, Board!ReceiptsKept

-----------------------------------------------------------------------------
(* The refinement of MessageBoard: a commit is a step of the promise.      *)

\* The rules of the promise are the rules.
LEMMA BoardPromise ==
  /\ Board!Promise!Governing = Board!Governing
  /\ Board!Promise!MessageOperations = Board!MessageOperations
  /\ \A c, op, by, who : op \in Board!Governing =>
        /\ Board!May(c, op, by, who) => Board!Promise!May(c, op, by, who)
        /\ Board!Promise!Results(c, op, by, who, 0) = Board!Results(c, op, by, who, 0)
<1>1. /\ Board!Promise!Governing = Board!Governing
      /\ Board!Promise!MessageOperations = Board!MessageOperations
  BY DEF Board!Promise!Governing, Board!Governing, Board!Promise!MessageOperations,
     Board!MessageOperations
<1>2. ASSUME NEW c, NEW op \in Board!Governing, NEW by, NEW who
      PROVE  /\ Board!May(c, op, by, who) => Board!Promise!May(c, op, by, who)
             /\ Board!Promise!Results(c, op, by, who, 0) = Board!Results(c, op, by, who, 0)
  <2>1. op \in {"promote", "demote", "remove"}
    BY DEF Board!Governing
  <2>2. \A S : Board!Promise!Cardinality(S) = Board!Cardinality(S)
    BY DEF Board!Promise!Cardinality, Board!Cardinality
  <2>3. Board!MayRemove(c, by, who) => Board!Promise!MayRemove(c, by, who)
    BY DEF Board!MayRemove, Board!Promise!MayRemove
  <2>4. ASSUME NEW u
        PROVE  /\ Board!MayPromote(c, by, u) => Board!Promise!MayPromote(c, by, u)
               /\ Board!MayDemote(c, by, u) => Board!Promise!MayDemote(c, by, u)
    BY <2>2 DEF Board!MayPromote, Board!Promise!MayPromote, Board!MayDemote,
       Board!Promise!MayDemote
  <2>5. Board!May(c, op, by, who) => Board!Promise!May(c, op, by, who)
    BY <2>1, <2>3, <2>4 DEF Board!May, Board!Promise!May
  <2>6. Board!Promise!Removed(c, by, who, 0) = Board!Removed(c, by, who, 0)
    BY DEF Board!Removed, Board!Promise!Removed, Board!Entries, Board!Promise!Entries
  <2>7. ASSUME NEW u
        PROVE  /\ Board!Promise!Promoted(c, by, u) = Board!Promoted(c, by, u)
               /\ Board!Promise!Demoted(c, by, u) = Board!Demoted(c, by, u)
    BY DEF Board!Promoted, Board!Promise!Promoted, Board!Demoted, Board!Promise!Demoted
  <2>8. Board!Promise!Results(c, op, by, who, 0) = Board!Results(c, op, by, who, 0)
    BY <2>1, <2>6, <2>7 DEF Board!Results, Board!Promise!Results
  <2> QED BY <2>5, <2>8
<1> QED BY <1>1, <1>2

\* The mapped board permits what the board permits.
LEMMA PromisedChange ==
  ASSUME NEW c, NEW P, NEW Q, NEW op, NEW by, NEW what
  PROVE  /\ Board!MayChange(c, P, Q, op, by, what) =>
               Board!Promise!MayChange(c, P, Q, op, by, what)
         /\ Board!Promise!PinsAfter(P, op, what) = Board!PinsAfter(P, op, what)
<1>1. Board!Promise!Cardinality(P) = Board!Cardinality(P)
  BY DEF Board!Promise!Cardinality, Board!Cardinality
<1>2. Board!MayDelete(c, by) => Board!Promise!MayDelete(c, by)
  BY DEF Board!MayDelete, Board!Promise!MayDelete
<1>3. ASSUME NEW m
      PROVE  /\ Board!MayPin(c, P, Q, by, m) => Board!Promise!MayPin(c, P, Q, by, m)
             /\ Board!MayUnpin(c, Q, by, m) => Board!Promise!MayUnpin(c, Q, by, m)
             /\ Board!MayEdit(c, Q, by, m) => Board!Promise!MayEdit(c, Q, by, m)
  BY <1>1 DEF Board!MayPin, Board!Promise!MayPin, Board!MayUnpin, Board!Promise!MayUnpin,
     Board!MayEdit, Board!Promise!MayEdit, Board!Present, Board!Promise!Present, Board!IsAdmin,
     Board!Promise!IsAdmin
<1>4. ASSUME NEW m
      PROVE  /\ Board!MayReact(c, Q, by, m) => Board!Promise!MayReact(c, Q, by, m)
             /\ Board!MayUnreact(c, Q, by, m) => Board!Promise!MayUnreact(c, Q, by, m)
  BY DEF Board!MayReact, Board!Promise!MayReact, Board!MayUnreact, Board!Promise!MayUnreact,
     Board!Present, Board!Promise!Present, Board!ReactionsOf, Board!Promise!ReactionsOf
<1>5. Board!MayChange(c, P, Q, op, by, what) => Board!Promise!MayChange(c, P, Q, op, by, what)
  BY <1>2, <1>3, <1>4 DEF Board!MayChange, Board!Promise!MayChange
<1>6. Board!Promise!PinsAfter(P, op, what) = Board!PinsAfter(P, op, what)
  BY DEF Board!PinsAfter, Board!Promise!PinsAfter
<1> QED BY <1>5, <1>6

\* The mapped board makes of messages what the board makes of them.
LEMMA PromisedPosts ==
  ASSUME NEW Q, NEW op, NEW by, NEW what, NEW e
  PROVE  Board!Promise!PostsAfter(Q, op, by, what, e) = Board!PostsAfter(Q, op, by, what, e)
<1>1. ASSUME NEW p
      PROVE  Board!Promise!PostAfter(p, op, by, e) = Board!PostAfter(p, op, by, e)
  BY DEF Board!Promise!PostAfter, Board!PostAfter, Board!Promise!Pinned, Board!Pinned,
     Board!Promise!Unpinned, Board!Unpinned, Board!Promise!Edited, Board!Edited,
     Board!Promise!Deleted, Board!Deleted, Board!Promise!Present, Board!Present,
     Board!Promise!Reacted, Board!Reacted, Board!Promise!Unreacted, Board!Unreacted,
     Board!Promise!ReactionsOf, Board!ReactionsOf
<1> QED BY <1>1 DEF Board!Promise!PostsAfter, Board!PostsAfter

\* A commit is one whole request, decided on the documents as they are.
LEMMA MovesPromised ==
  ASSUME BoardMoves
  PROVE  [Board!Promise!Next]_(Board!Promise!vars)
<1>1. CASE Received
  BY <1>1 DEF Received, Board!Promise!vars
<1>2. CASE Governed
  <2>1. PICK op \in Board!Governing, by \in Users, who \in SUBSET Users :
          /\ Board!May(channel, op, by, who)
          /\ channel' \in Board!Results(channel, op, by, who, 0)
          /\ UNCHANGED <<pins, posts>>
    BY <1>2 DEF Governed
  <2>2. Board!Promise!Govern(op, by, who)
    BY <2>1, BoardPromise DEF Board!Promise!Govern
  <2> QED BY <2>1, <2>2, BoardPromise DEF Board!Promise!Next
<1>3. CASE Changed
  <2>1. PICK op \in Board!MessageOperations, by \in Users, what \in SUBSET Message, e \in Emoji :
          /\ Board!MayChange(AsAsked(channel, op, by), pins, posts, op, by, what)
          /\ pins' = Board!PinsAfter(pins, op, what)
          /\ posts' = Board!PostsAfter(posts, op, by, what, e)
          /\ UNCHANGED channel
    BY <1>3 DEF Changed
  <2>2. Board!Promise!AsAsked(op, by) = AsAsked(channel, op, by)
    BY DEF Board!Promise!AsAsked, AsAsked
  <2>3. Board!Promise!Change(op, by, what)
    BY <2>1, <2>2, PromisedChange, PromisedPosts DEF Board!Promise!Change
  <2> QED BY <2>1, <2>3, BoardPromise DEF Board!Promise!Next
<1> QED BY <1>1, <1>2, <1>3 DEF BoardMoves

\* The start of the messages is a start of the board.
LEMMA StartPromised ==
  ASSUME NEW by \in Users, NEW others \in SUBSET Users, by \notin others,
         Board!Cardinality(others) > 1, channel = Board!NewGroup(by, others),
         pins = {}, NEW sender \in [Message -> channel.users],
         posts = [m \in Message |-> Board!Sent(sender[m])]
  PROVE  Board!Promise!Init
<1>1. Board!Promise!Cardinality(others) = Board!Cardinality(others)
  BY DEF Board!Promise!Cardinality, Board!Cardinality
<1>2. Board!Promise!NewGroup(by, others) = Board!NewGroup(by, others)
  BY DEF Board!Promise!NewGroup, Board!NewGroup
<1>3. posts = [m \in Message |-> Board!Promise!Sent(sender[m])]
  BY DEF Board!Promise!Sent, Board!Sent
<1> QED BY <1>1, <1>2, <1>3 DEF Board!Promise!Init

\* Requests on messages that overlap come out as if each had run alone, at the moment of its
\* commit: MessageRequests implements MessageBoard.
THEOREM PostsAlwaysAsIfAlone == Spec => PostsAsIfAlone
<1>1. Init => Board!Promise!Init
  <2>1. ASSUME Group!Init, BoardRests PROVE Board!Promise!Init
    <3>1. PICK by \in Users, others \in SUBSET Users :
            by \notin others /\ Group!Cardinality(others) > 1 /\ group = Group!NewGroup(by, others)
      BY <2>1 DEF Group!Init
    <3>2. channel = Board!NewGroup(by, others)
      BY <2>1, <3>1 DEF BoardRests, Board!NewGroup, Group!NewGroup
    <3>3. Board!Cardinality(others) > 1
      BY <3>1 DEF Board!Cardinality, Group!Cardinality
    <3>4. group.owner = by /\ by \in channel.users
      BY <3>1, <3>2 DEF Group!NewGroup, Board!NewGroup
    <3> DEFINE sender == [m \in Message |-> by]
    <3>5. sender \in [Message -> channel.users] /\ pins = {}
          /\ posts = [m \in Message |-> Board!Sent(sender[m])]
      BY <2>1, <3>4 DEF BoardRests
    <3> HIDE DEF sender
    <3> QED BY <3>1, <3>2, <3>3, <3>5, StartPromised
  <2>2. ASSUME Board!Init PROVE Board!Promise!Init
    BY <2>2, StartPromised DEF Board!Init
  <2> QED BY <2>1, <2>2 DEF Init
<1>2. BoardInv /\ [Next]_vars => [Board!Promise!Next]_(Board!Promise!vars)
  <2> SUFFICES ASSUME BoardInv, [Next]_vars
               PROVE  [Board!Promise!Next]_(Board!Promise!vars)
    OBVIOUS
  <2>1. CASE UNCHANGED boardVars
    BY <2>1 DEF boardVars, Board!Promise!vars
  <2>2. CASE UNCHANGED <<channel, pins, posts, delivery>>
    BY <2>2 DEF Board!Promise!vars
  <2>3. CASE \E r \in Request, m \in Message : Board!Save(r, m)
    BY <2>3 DEF Board!Save, Board!Promise!vars
  <2>4. CASE \E r \in Request : Board!Commit(r)
    BY <2>4, CommitMoves, MovesPromised
  <2> QED BY <2>1, <2>2, <2>3, <2>4, OnlyTwo DEF Next, vars
<1> QED BY <1>1, <1>2, BoardAlways, PTL DEF Spec, PostsAsIfAlone, Board!AsIfAlone,
           Board!Promise!Spec
=============================================================================
