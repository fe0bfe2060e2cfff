---------------------------- MODULE GroupChannel ----------------------------
(***************************************************************************)
(* What the group channel endpoints promise: every change happens at once, *)
(* by somebody who has the right to it at that moment.  A member reads     *)
(* everything; whoever leaves or is removed keeps what he could read then, *)
(* so "upto" is here the set of messages he keeps.                         *)
(***************************************************************************)
EXTENDS ChannelRules

CONSTANT Message

VARIABLES
    channel,    \* the channel document
    messages    \* the messages of the channel

vars == <<channel, messages>>

TypeOK == channel \in Channels(SUBSET Message) /\ messages \in SUBSET Message

Init ==
  /\ \E by \in Users, others \in SUBSET Users :
       by \notin others /\ Cardinality(others) > 1 /\ channel = NewGroup(by, others)
  /\ messages = {}

Change(op, by, who) ==
  /\ op # "send"
  /\ May(channel, op, by, who)
  /\ channel' \in Results(channel, op, by, who, messages)
  /\ messages' = IF Exists(channel') THEN messages ELSE {}

Send(by) ==
  /\ May(channel, "send", by, {})
  /\ \E m \in Message \ messages : messages' = messages \union {m}
  /\ UNCHANGED channel

(* Stuttering is left to [Next]_vars. *)
Next ==
  /\ vars' # vars
  /\ \E by \in Users :
       Send(by) \/ \E op \in Operations, who \in SUBSET Users : Change(op, by, who)

Spec == Init /\ [][Next]_vars

-----------------------------------------------------------------------------
(* A channel that exists is ruled by its members: the owner is one of      *)
(* them, there is an admin, and every admin is one of them.                *)
Ruled ==
  Exists(channel) =>
    /\ channel.owner \in channel.users
    /\ channel.admins # {}
    /\ channel.admins \subseteq channel.users

(* Nobody is a member and a former member at once, and nobody has left     *)
(* twice: what a former member may read is told by one entry.              *)
LeftApart ==
  /\ \A e \in channel.left : e.user \notin channel.users
  /\ \A e, f \in channel.left : e.user = f.user => e = f

(* The channel changes hands only when its owner leaves it: no admin, and  *)
(* nobody else's departure, takes it from him.                             *)
OwnerKeeps ==
  [][channel'.owner # channel.owner =>
       channel.owner \in channel.users \ channel'.users /\ HasLeft(channel', channel.owner)]_vars
=============================================================================
