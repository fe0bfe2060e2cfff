---------------------------- MODULE MessageBoard ----------------------------
(***************************************************************************)
(* What the message endpoints promise: every change to a message happens   *)
(* at once.  Pinning is decided by who is an admin at that moment; that    *)
(* somebody is a member was checked when he asked, and he may have been    *)
(* removed since.                                                          *)
(***************************************************************************)
EXTENDS MessageRules

VARIABLES
    channel,    \* the channel document, but for what is pinned
    pins,       \* the messages it has pinned
    posts       \* the message documents

vars == <<channel, pins, posts>>

Init ==
  /\ \E by \in Users, others \in SUBSET Users :
       by \notin others /\ Cardinality(others) > 1 /\ channel = NewGroup(by, others)
  /\ pins = {}
  /\ \E sender \in [Message -> channel.users] : posts = [m \in Message |-> Sent(sender[m])]

(* The channel, for an operation that does not need `by` to be in it still.*)
AsAsked(op, by) ==
  IF op \in {"pin", "unpin"} THEN channel ELSE [channel EXCEPT !.users = @ \union {by}]

Change(op, by, what) ==
  /\ MayChange(AsAsked(op, by), pins, posts, op, by, what)
  /\ pins' = PinsAfter(pins, op, what)
  /\ \E e \in Emoji : posts' = PostsAfter(posts, op, by, what, e)
  /\ UNCHANGED channel

Govern(op, by, who) ==
  /\ op \in Governing
  /\ May(channel, op, by, who)
  /\ channel' \in Results(channel, op, by, who, 0)
  /\ UNCHANGED <<pins, posts>>

(* Stuttering is left to [Next]_vars. *)
Next ==
  /\ vars' # vars
  /\ \E by \in Users :
       \/ \E op \in MessageOperations, what \in SUBSET Message : Change(op, by, what)
       \/ \E op \in Governing, who \in SUBSET Users : Govern(op, by, who)

Spec == Init /\ [][Next]_vars

-----------------------------------------------------------------------------
(* The channel and the messages agree on what is pinned, and it is no more *)
(* than the limit.                                                         *)
PinsAgree ==
  /\ pins = {m \in Message : posts[m].pinned}
  /\ Cardinality(pins) <= MaxPins

(* Nobody has two reactions to one message. *)
OneReaction == \A m \in Message, u \in Users : Cardinality(ReactionsOf(posts[m], u)) <= 1
=============================================================================
