---------------------------- MODULE MessageRules ----------------------------
(***************************************************************************)
(* Who may change the messages of a channel, and what each change makes of *)
(* them: the checks and the updates of the handlers in messages.ts, pin.ts *)
(* and reaction.ts, as operators on the channel document and the message   *)
(* documents.  Texts and times are left out.  The messages that are pinned *)
(* are recorded twice, in the channel and in the messages.                 *)
(***************************************************************************)
EXTENDS ChannelRules

CONSTANTS
    Message,
    Emoji,
    MaxPins     \* how many messages of a channel may be pinned: 10

(* Who may pin changes with the admins. *)
Governing == {"promote", "demote", "remove"}

MessageOperations == {"pin", "unpin", "edit", "delete", "react", "unreact"}

Reactions == [user : Users, emoji : Emoji]

Sent(sender) ==
  [sender |-> sender, status |-> "active", hidden |-> {}, pinned |-> FALSE, reactions |-> {}]

Present(p) == p.status # "deleted"

ReactionsOf(p, u) == {e \in p.reactions : e.user = u}

-----------------------------------------------------------------------------
(* Pinning is for admins; what is pinned already may be pinned again. *)
IsAdmin(c, by) == by \in c.users \intersect c.admins

(* MUTANT: the limit lets one more in. *)
MutMayPin(c, pins, p, by, m) ==
  /\ Present(p[m]) /\ IsAdmin(c, by)
  /\ Cardinality(pins) <= MaxPins \/ p[m].pinned

MayPin(c, pins, p, by, m) ==
  /\ Present(p[m]) /\ IsAdmin(c, by)
  /\ Cardinality(pins) < MaxPins \/ p[m].pinned

MayUnpin(c, p, by, m) == Present(p[m]) /\ IsAdmin(c, by)

(* Editing is for the author. *)
MayEdit(c, p, by, m) == Present(p[m]) /\ by = p[m].sender /\ by \in c.users

(* Any member may delete any messages, and react to one that is there. *)
MayDelete(c, by) == by \in c.users

MayReact(c, p, by, m) == Present(p[m]) /\ by \in c.users

MayUnreact(c, p, by, m) == MayReact(c, p, by, m) /\ ReactionsOf(p[m], by) # {}

MayChange(c, pins, p, op, by, what) ==
  \/ op = "delete" /\ what # {} /\ MayDelete(c, by)
  \/ \E m \in what :
       /\ what = {m}
       /\ \/ op = "pin" /\ MayPin(c, pins, p, by, m)
          \/ op = "unpin" /\ MayUnpin(c, p, by, m)
          \/ op = "edit" /\ MayEdit(c, p, by, m)
          \/ op = "react" /\ MayReact(c, p, by, m)
          \/ op = "unreact" /\ MayUnreact(c, p, by, m)

-----------------------------------------------------------------------------
Pinned(p) == [p EXCEPT !.pinned = TRUE]

Unpinned(p) == [p EXCEPT !.pinned = FALSE]

Edited(p) == [p EXCEPT !.status = "edited"]

(* One's own message is deleted for all, and hidden from oneself only when *)
(* it is deleted once more; another's is hidden from oneself.              *)
Deleted(p, by) ==
  IF p.sender = by /\ Present(p)
  THEN [p EXCEPT !.status = "deleted"]
  ELSE [p EXCEPT !.hidden = @ \union {by}]

(* A reaction replaces the one before. *)
Reacted(p, by, emoji) ==
  [p EXCEPT !.reactions = (@ \ ReactionsOf(p, by)) \union {[user |-> by, emoji |-> emoji]}]

Unreacted(p, by) == [p EXCEPT !.reactions = @ \ ReactionsOf(p, by)]

PinsAfter(pins, op, what) ==
  CASE op = "pin" -> pins \union what
    [] op = "unpin" -> pins \ what
    [] OTHER -> pins

(* What becomes of one message that is named. *)
PostAfter(p, op, by, emoji) ==
  CASE op = "pin" -> Pinned(p)
    [] op = "unpin" -> Unpinned(p)
    [] op = "edit" -> Edited(p)
    [] op = "delete" -> Deleted(p, by)
    [] op = "react" -> Reacted(p, by, emoji)
    [] OTHER -> Unreacted(p, by)

PostsAfter(p, op, by, what, emoji) ==
  [m \in Message |-> IF m \in what THEN PostAfter(p[m], op, by, emoji) ELSE p[m]]
=============================================================================
