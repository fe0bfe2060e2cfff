---------------------------- MODULE ChannelRules ----------------------------
(***************************************************************************)
(* Who may change the membership of a group channel, and what each change  *)
(* makes of it: the checks and the updates of the handlers in channels.ts, *)
(* members.ts, admins.ts and messages.ts, as operators on one channel      *)
(* document.  A member who left keeps an entry in leftUsers; "upto" stands *)
(* for what he may still read, and each module that uses these operators   *)
(* says what it is.  The order of the arrays decides only who succeeds an  *)
(* owner or a last admin, and is left open.                                *)
(***************************************************************************)
EXTENDS Naturals, FiniteSets

CONSTANT Users

Channels(Upto) ==
  [users : SUBSET Users, admins : SUBSET Users, owner : Users,
   left : SUBSET [user : Users, upto : Upto, show : BOOLEAN]]

Operations == {"add", "remove", "promote", "demote", "leave", "send"}

(* A channel lives as long as it has members. *)
Exists(c) == c.users # {}

(* The creator of a group owns it and is its only admin. *)
NewGroup(by, others) ==
  [users |-> others \union {by}, admins |-> {by}, owner |-> by, left |-> {}]

HasLeft(c, u) == \E e \in c.left : e.user = u

StillShown(c, u) == \E e \in c.left : e.user = u /\ e.show

Entries(who, upto) == {[user |-> u, upto |-> upto, show |-> TRUE] : u \in who}

-----------------------------------------------------------------------------
(* Adding: an admin names somebody besides himself, and somebody new. *)
MayAdd(c, by, who) ==
  /\ by \in c.users \intersect c.admins
  /\ who \ {by} # {}
  /\ who \ c.users # {}

(* MUTANT: what a former member had kept is not cleared when he returns. *)
MutAdded(c, by, who) == [c EXCEPT !.users = @ \union who]

Added(c, by, who) ==
  [c EXCEPT !.users = @ \union who, !.left = {e \in @ : e.user \notin who}]

(* Removing: an admin names members, never himself, never the owner. *)
MayRemove(c, by, who) ==
  /\ by \in c.users \intersect c.admins
  /\ by \notin who
  /\ c.owner \notin who
  /\ who # {} /\ who \subseteq c.users

Removed(c, by, who, upto) ==
  [c EXCEPT !.users = @ \ who, !.admins = @ \ who, !.left = @ \union Entries(who, upto)]

-----------------------------------------------------------------------------
(* Only the owner makes and unmakes admins, and never unmakes the last one.*)
MayPromote(c, by, u) == by \in c.users /\ by = c.owner /\ u \in c.users \ c.admins

Promoted(c, by, u) == [c EXCEPT !.admins = @ \union {u}]

MayDemote(c, by, u) ==
  by \in c.users /\ by = c.owner /\ u \in c.admins /\ Cardinality(c.admins) > 1

Demoted(c, by, u) == [c EXCEPT !.admins = @ \ {u}]

-----------------------------------------------------------------------------
(* Leaving is open to members, and to those who left and still see the     *)
(* channel: for them it only hides it.                                     *)
MayLeave(c, by) == by \in c.users \/ StillShown(c, by)

Remaining(c, by) == c.users \ {by}

AdminsAfter(c, by) ==
  IF c.admins = {by} THEN {{u} : u \in Remaining(c, by)} ELSE {c.admins \ {by}}

(* MUTANT: ownership passes on whoever leaves. *)
MutOwnersAfter(c, by, admins) == admins

OwnersAfter(c, by, admins) ==
  IF by # c.owner THEN {c.owner}
  ELSE IF admins # {} THEN admins ELSE Remaining(c, by)

LeftAfter(c, by, upto) ==
  IF HasLeft(c, by)
  THEN {IF e.user = by THEN [e EXCEPT !.show = FALSE] ELSE e : e \in c.left}
  ELSE c.left \union Entries({by}, upto)

(* The channels that may result when one leaves and others remain.         *)
Leavings(c, by, upto) ==
  UNION {{[users |-> Remaining(c, by), admins |-> admins, owner |-> owner,
           left |-> LeftAfter(c, by, upto)] : owner \in OwnersAfter(c, by, admins)}
         : admins \in AdminsAfter(c, by)}

(* The last member takes the channel with him. *)
ChannelDeleted(c) == [c EXCEPT !.users = {}, !.admins = {}, !.left = {}]

MaySend(c, by) == by \in c.users

-----------------------------------------------------------------------------
(* The whole check of a request, and the documents it may write. *)
May(c, op, by, who) ==
  \/ op = "add" /\ MayAdd(c, by, who)
  \/ op = "remove" /\ MayRemove(c, by, who)
  \/ op = "promote" /\ \E u \in who : who = {u} /\ MayPromote(c, by, u)
  \/ op = "demote" /\ \E u \in who : who = {u} /\ MayDemote(c, by, u)
  \/ op = "leave" /\ who = {} /\ MayLeave(c, by)
  \/ op = "send" /\ who = {} /\ MaySend(c, by)

Results(c, op, by, who, upto) ==
  CASE op = "add" -> {Added(c, by, who)}
    [] op = "remove" -> {Removed(c, by, who, upto)}
    [] op = "promote" -> {Promoted(c, by, u) : u \in who}
    [] op = "demote" -> {Demoted(c, by, u) : u \in who}
    [] op = "leave" -> IF Remaining(c, by) = {} THEN {ChannelDeleted(c)} ELSE Leavings(c, by, upto)
    [] OTHER -> {c}
=============================================================================
