------------------------------- MODULE Chats -------------------------------
(***************************************************************************)
(* The chats of the members: who is in a channel, and what becomes of its  *)
(* messages.  The requests on the two meet in the channel document alone,  *)
(* and MessageRequests has those of the membership that matter to a        *)
(* message, so the two are watched apart: `focus` says which one moves.    *)
(***************************************************************************)
EXTENDS Naturals, FiniteSets

CONSTANTS Users, Request, MaxAttempts, MaxRequests, Message, Emoji, MaxPins, Topics

VARIABLES focus,
          group, groupMessages, groupBegun, groupRequest,
          channel, pins, posts, delivery, topic, begun, request

Group == INSTANCE ChannelRequests
    WITH channel <- group, messages <- groupMessages, begun <- groupBegun, request <- groupRequest

Board == INSTANCE MessageRequests

ASSUME FinitenessAssumption == IsFiniteSet(Request) /\ IsFiniteSet(Users)

ASSUME BoundsAssumption ==
  /\ MaxAttempts \in Nat \ {0} /\ MaxRequests \in Nat /\ MaxPins \in Nat
  /\ Topics \subseteq Board!Bounds

(* The channel is not one of the messages. *)
ASSUME DocsAssumption == Board!ChannelDoc \notin Message

groupVars == <<group, groupMessages, groupBegun, groupRequest>>
boardVars == <<channel, pins, posts, delivery, topic, begun, request>>
vars == <<focus, groupVars, boardVars>>

(* The one that is not watched is at rest, on the same channel. *)
GroupRests ==
  /\ group = channel /\ groupMessages = {} /\ groupBegun = 0
  /\ groupRequest = [r \in Request |-> Group!Idle]

BoardRests ==
  /\ channel = group /\ pins = {} /\ posts = [m \in Message |-> Board!Sent(group.owner)]
  /\ delivery = [m \in Message |-> <<>>]
  /\ topic = [ops |-> {}, most |-> 0, delivered |-> FALSE] /\ begun = 0
  /\ request = [r \in Request |-> Board!Idle]

Init ==
  \/ focus = "members" /\ Group!Init /\ BoardRests
  \/ focus = "messages" /\ Board!Init /\ GroupRests

Next ==
  /\ \/ focus = "members" /\ Group!Next /\ UNCHANGED boardVars
     \/ focus = "messages" /\ Board!Next /\ UNCHANGED groupVars
  /\ UNCHANGED focus

Spec == Init /\ [][Next]_vars

-----------------------------------------------------------------------------
(* A channel, its membership and its messages are in order at all times:   *)
(* see ChannelRequests.                                                    *)
Orderly == Group!Orderly

(* The channel changes hands only when its owner leaves it. *)
OwnerKeeps == Group!OwnerKeeps

(* Requests on the membership that overlap come out as if each had run     *)
(* alone.                                                                  *)
MembersAsIfAlone == Group!AsIfAlone

(* The records of what is pinned agree, within the limit, and nobody has   *)
(* two reactions to one message: see MessageRequests.                      *)
Recorded == Board!Recorded

(* Requests on messages that overlap come out as if each had run alone.    *)
PostsAsIfAlone == Board!AsIfAlone

(* A receipt is lost, taken back or recorded twice only by a WebSocket     *)
(* receipt that another receipt has overtaken.                             *)
ReceiptsKept == Board!ReceiptsKept
=============================================================================
