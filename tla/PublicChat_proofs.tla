-------------------------- MODULE PublicChat_proofs --------------------------
(***************************************************************************)
(* What PublicChat guarantees for any number of tabs, agents, assistants   *)
(* and retention jobs: who a conversation is assigned to agrees with its   *)
(* status and its members, and the poll that learns of a close loads the   *)
(* closing line.                                                           *)
(***************************************************************************)
EXTENDS PublicChat, FiniteSetTheorems, TLAPS

Task == [op : Op, step : Step, saw : Status \union {"erased"}, aloud : BOOLEAN]

\* The types, but for the bound on events, which is a matter of QueueInv.
Types ==
    /\ chat \in [status : Status \union {"erased"}, assignedTo : Agent \union {NoAgent},
                 users : SUBSET Agent]
    /\ lineStored \in BOOLEAN
    /\ task \in [Actor -> Task]
    /\ events \in Nat
    /\ announced \in BOOLEAN /\ closedAloud \in BOOLEAN
    /\ requests \in 0..MaxRequests /\ faults \in 0..FaultBudget

Busy == {r \in Responder : ~Idle(r)}
Sending == {t \in Tab : task[t].op = "send"}

\* Every message in the assistant's queue was sent by a request, and an assistant at
\* work has its message still in the queue.
QueueInv ==
    /\ Cardinality(Busy) <= events
    /\ events + Cardinality(Sending) <= requests

\* An agent who has given the chat up and has yet to leave the channel is not its
\* assignee: a join of the same agent would be a request of its own.
LeavingInv ==
    \A a \in Agent :
        Doing(a, "release", "second") \/ Doing(a, "close", "third") => chat.assignedTo # a

AssignedInv == AssigneeMatchesStatus /\ AssigneeIsMember /\ LeavingInv

\* Once a deletion has begun there is no promise about the line; it is never over.
Erasing == Erased \/ \E x \in Actor : task[x].op = "erase"

\* Until then, whoever believes in a close with a closing line is right.
LineInv ==
    ~Erasing => /\ closedAloud => lineStored
                /\ \A x \in Actor : task[x].aloud => lineStored

IInv == Types /\ QueueInv /\ AssignedInv /\ LineInv

-----------------------------------------------------------------------------
Others(x) == \A y \in Actor \ {x} : task'[y] = task[y]

\* What becomes of the task of the actor that takes a step.
LEMMA NoTaskTyped ==
  NoTask \in Task /\ NoTask.op = "none" /\ NoTask.step = "none" /\ ~NoTask.aloud
  BY DEF Task, NoTask, Op, Step, Status

\* Updates of a task are tasks.
LEMMA TaskTyped ==
  ASSUME NEW t \in Task, NEW op \in Op, NEW step \in Step, NEW b \in BOOLEAN
  PROVE  /\ [t EXCEPT !.op = op] \in Task /\ [t EXCEPT !.step = step] \in Task
         /\ [t EXCEPT !.step = step, !.aloud = b] \in Task
         /\ t.aloud \in BOOLEAN
<1>1. [t EXCEPT !.op = op] \in Task
  BY DEF Task
<1>2. [t EXCEPT !.step = step] \in Task
  BY DEF Task
<1>3. [t EXCEPT !.step = step, !.aloud = b] \in Task
  BY DEF Task
<1>4. t.aloud \in BOOLEAN
  BY DEF Task
<1> QED BY <1>1, <1>2, <1>3, <1>4

\* An actor that finishes is idle, and nobody else has moved.
LEMMA Finished ==
  ASSUME Types, NEW x \in Actor, Finish(x)
  PROVE  /\ task' \in [Actor -> Task] /\ Others(x)
         /\ task'[x] = NoTask /\ task'[x].op = "none" /\ ~task'[x].aloud
  BY NoTaskTyped DEF Types, Finish, Others

\* An actor that goes on keeps its operation, and nobody else has moved.
LEMMA Moved ==
  ASSUME Types, NEW x \in Actor, NEW step \in Step, GoTo(x, step)
  PROVE  /\ task' \in [Actor -> Task] /\ Others(x)
         /\ task'[x].op = task[x].op /\ task'[x].step = step
         /\ task'[x].aloud = task[x].aloud
<1>1. task[x] \in Task
  BY DEF Types
<1>2. task' = [task EXCEPT ![x] = [task[x] EXCEPT !.step = step]]
  BY DEF GoTo
<1>3. [task[x] EXCEPT !.step = step] \in Task
  BY <1>1 DEF Task
<1>4. task' \in [Actor -> Task] /\ Others(x) /\ task'[x] = [task[x] EXCEPT !.step = step]
  BY <1>2, <1>3 DEF Types, Others
<1> QED BY <1>1, <1>4 DEF Task

\* An actor that starts was idle, and a request is counted.
LEMMA Started ==
  ASSUME Types, NEW x \in Actor, NEW op \in Op, Start(x, op)
  PROVE  /\ task' \in [Actor -> Task] /\ Others(x) /\ Idle(x)
         /\ task'[x].op = op /\ task'[x].step = "first"
         /\ task'[x].aloud => closedAloud
         /\ requests' = requests + 1 /\ requests' \in 0..MaxRequests
<1> DEFINE saw == IF op \in {"send", "poll"} THEN chat.status ELSE "bot"
           new == [op |-> op, step |-> "first", saw |-> saw,
                   aloud |-> op = "poll" /\ closedAloud]
<1>1. saw \in Status \union {"erased"}
  BY DEF Types, Status
<1>2. (op = "poll" /\ closedAloud) \in BOOLEAN
  OBVIOUS
<1>3. new \in Task
  BY <1>1, <1>2 DEF Task, Step
<1>4. task' = [task EXCEPT ![x] = new]
  BY DEF Start
<1>5. task' \in [Actor -> Task] /\ Others(x) /\ task'[x] = new
  BY <1>3, <1>4 DEF Types, Others
<1>6. requests' = requests + 1 /\ requests' \in 0..MaxRequests /\ Idle(x)
  BY BoundsAssumption DEF Start, Types
<1>7. new.op = op /\ new.step = "first"
  OBVIOUS
<1>8. new.aloud => closedAloud
  OBVIOUS
<1> HIDE DEF new
<1> QED BY <1>5, <1>6, <1>7, <1>8

\* A chat with the assistant, and nothing asked of it.
LEMMA InitIInv == Init => IInv
<1>1. SUFFICES ASSUME Init PROVE IInv
  OBVIOUS
<1>2. Types
  <2>1. task \in [Actor -> Task]
    BY <1>1, NoTaskTyped DEF Init
  <2>2. chat \in [status : Status \union {"erased"}, assignedTo : Agent \union {NoAgent},
                  users : SUBSET Agent]
    BY <1>1 DEF Init, Status
  <2>3. lineStored \in BOOLEAN /\ announced \in BOOLEAN /\ closedAloud \in BOOLEAN
    BY <1>1 DEF Init
  <2>4. events \in Nat /\ requests \in 0..MaxRequests /\ faults \in 0..FaultBudget
    BY <1>1, BoundsAssumption DEF Init
  <2> QED BY <2>1, <2>2, <2>3, <2>4 DEF Types
<1>3. QueueInv
  <2>1. Busy = {} /\ Sending = {}
    BY <1>1 DEF Init, Busy, Sending, Idle, NoTask, Actor
  <2> QED BY <1>1, <2>1, FS_EmptySet DEF Init, QueueInv
<1>4. AssignedInv
  BY <1>1, AgentsAssumption
  DEF Init, AssignedInv, AssigneeMatchesStatus, AssigneeIsMember, LeavingInv
<1>5. LineInv
  BY <1>1 DEF Init, LineInv, Erasing, NoTask
<1> QED BY <1>2, <1>3, <1>4, <1>5 DEF IInv

\* The assistants' work and their queue.
LEMMA Counts ==
  ASSUME Types, Types'
  PROVE  /\ IsFiniteSet(Busy) /\ IsFiniteSet(Busy')
         /\ IsFiniteSet(Sending) /\ IsFiniteSet(Sending')
         /\ Cardinality(Busy) \in Nat /\ Cardinality(Busy') \in Nat
         /\ Cardinality(Sending) \in Nat /\ Cardinality(Sending') \in Nat
<1>1. Busy \in SUBSET Responder /\ Busy' \in SUBSET Responder
  BY DEF Busy
<1>2. Sending \in SUBSET Tab /\ Sending' \in SUBSET Tab
  BY DEF Sending
<1>3. IsFiniteSet(Busy) /\ IsFiniteSet(Busy') /\ IsFiniteSet(Sending) /\ IsFiniteSet(Sending')
  BY <1>1, <1>2, FS_Subset, ActorsAssumption
<1> QED BY <1>3, FS_CardinalityType

\* The actors that are busy can be counted.
LEMMA CountsNow ==
  IsFiniteSet(Busy) /\ Cardinality(Busy) \in Nat
  BY ActorsAssumption, FS_Subset, FS_CardinalityType DEF Busy

\* A set that may have grown by one element.
LEMMA OneMore ==
  ASSUME NEW S, IsFiniteSet(S), NEW x, NEW T, T \subseteq S \cup {x}
  PROVE  Cardinality(T) <= Cardinality(S) + 1
<1>1. /\ IsFiniteSet(S \cup {x})
      /\ Cardinality(S \cup {x}) =
            IF x \in S THEN Cardinality(S) ELSE Cardinality(S) + 1
  BY FS_AddElement, Zenon
<1>2. IsFiniteSet(T) /\ Cardinality(T) <= Cardinality(S \cup {x})
  BY <1>1, FS_Subset
<1>3. Cardinality(S) \in Nat /\ Cardinality(T) \in Nat /\ Cardinality(S \cup {x}) \in Nat
  BY <1>1, <1>2, FS_CardinalityType
<1> QED BY <1>1, <1>2, <1>3

\* A step that takes no message and no work on.
LEMMA QuietStep ==
  ASSUME Types, Types', QueueInv, NEW x \in Actor, Others(x),
         ~Idle(x) \/ task'[x] = NoTask \/ x \notin Responder,
         task'[x].op = "send" => task[x].op = "send",
         events' = events, requests' \in {requests, requests + 1}
  PROVE  QueueInv'
<1>1. Busy' \in SUBSET Busy /\ Sending' \in SUBSET Sending
  BY DEF Busy, Sending, Others, Idle, Actor
<1>2. Cardinality(Busy') <= Cardinality(Busy) /\ Cardinality(Sending') <= Cardinality(Sending)
  BY <1>1, Counts, FS_Subset
<1> QED BY <1>2, Counts DEF QueueInv, Types

\* A step that leaves the messages alone, and is not part of a deletion.
LEMMA LineStep ==
  ASSUME LineInv, NEW x \in Actor, Others(x),
         task[x].op = "erase" => task'[x].op = "erase",
         Erased => Erased',
         lineStored => lineStored',
         closedAloud' => closedAloud \/ lineStored' \/ task[x].aloud,
         task'[x].aloud => task[x].aloud \/ closedAloud \/ lineStored'
  PROVE  LineInv'
<1>1. SUFFICES ASSUME ~Erasing'
               PROVE  /\ (closedAloud => lineStored)'
                      /\ \A y \in Actor : (task[y].aloud => lineStored)'
  BY DEF LineInv
<1>2. ~Erasing
  BY <1>1 DEF Erasing, Others
<1>3. (closedAloud => lineStored) /\ \A y \in Actor : (task[y].aloud => lineStored)
  BY <1>2 DEF LineInv
<1> QED BY <1>3 DEF Others

\* A step that leaves the channel alone, and no agent between its two writes.
LEMMA SameChat ==
  ASSUME AssignedInv, NEW x \in Actor, Others(x), UNCHANGED chat,
         task'[x].op = "release" => task'[x].step # "second",
         task'[x].op = "close" => task'[x].step # "third"
  PROVE  AssignedInv'
  BY DEF AssignedInv, AssigneeMatchesStatus, AssigneeIsMember, LeavingInv, Doing, Others,
      Actor

\* A step of one actor preserves each part of the invariant.
LEMMA NextIInv == IInv /\ [Next]_vars => IInv'
<1>1. SUFFICES ASSUME IInv, [Next]_vars PROVE IInv'
  OBVIOUS
<1> USE <1>1 DEF IInv
<1>2. ASSUME NEW t \in Tab, ResolveVisitorSession(t) PROVE IInv'
  <2>1. /\ task' \in [Actor -> Task] /\ Others(t) /\ Idle(t) /\ task[t].op = "none"
        /\ task'[t].step = "first" /\ task'[t].op \in {"send", "handoff", "end", "erase", "poll"}
        /\ task'[t].aloud => closedAloud
        /\ requests' = requests + 1 /\ requests' \in 0..MaxRequests
    <3>1. PICK op \in {"send", "handoff", "end", "erase", "poll"} : Start(t, op)
      BY <1>2 DEF ResolveVisitorSession
    <3>2. op \in Op /\ t \in Actor
      BY <3>1 DEF Op, Actor
    <3>3. Idle(t) => task[t].op = "none"
      BY DEF Idle, NoTask
    <3> QED BY <3>1, <3>2, <3>3, Started
  <2>2. Types'
    BY <1>2, <2>1 DEF ResolveVisitorSession, Types, Status, Erased
  <2>3. QueueInv'
    <3>1. Busy' = Busy
      BY <2>1, ActorsAssumption DEF Busy, Idle, Others, Actor
    <3>2. Sending' \subseteq Sending \cup {t}
      BY <2>1 DEF Sending, Others, Actor
    <3>3. Cardinality(Sending') <= Cardinality(Sending) + 1
      BY <2>2, <3>2, Counts, OneMore
    <3>4. UNCHANGED events
      BY <1>2 DEF ResolveVisitorSession
    <3> QED BY <2>1, <2>2, <3>1, <3>3, <3>4, Counts DEF QueueInv, Types
  <2>4. AssignedInv'
    <3>1. UNCHANGED chat
      BY <1>2 DEF ResolveVisitorSession
    <3> QED BY <2>1, <3>1, SameChat DEF Actor
  <2>5. LineInv'
    <3>1. Erased => Erased'
      BY <1>2, <2>1 DEF ResolveVisitorSession, Types, Erased
    <3>2. lineStored => lineStored'
      BY <1>2, <2>1 DEF ResolveVisitorSession
    <3>3. closedAloud' => closedAloud \/ lineStored' \/ task[t].aloud
      BY <1>2 DEF ResolveVisitorSession
    <3> QED BY <2>1, <3>1, <3>2, <3>3, LineStep DEF Actor
  <2> QED BY <2>2, <2>3, <2>4, <2>5
<1>3. ASSUME NEW t \in Tab, SendPublicChatMessage(t) PROVE IInv'
  <2>1. /\ task' \in [Actor -> Task] /\ Others(t) /\ ~Idle(t)
        /\ task[t].op = "send" /\ task'[t].op \in {"send", "none"}
        /\ task'[t].aloud = task[t].aloud \/ ~task'[t].aloud
    <3>1. task[t].op = "send" /\ ~Idle(t) /\ t \in Actor
      BY <1>3 DEF SendPublicChatMessage, Doing, Idle, NoTask, Actor
    <3>2. CASE GoTo(t, "second")
      BY <3>1, <3>2, Moved DEF Step
    <3>3. CASE Finish(t)
      BY <3>1, <3>3, Finished, NoTaskTyped
    <3> QED BY <1>3, <3>2, <3>3 DEF SendPublicChatMessage
  <2>2. Types'
    BY <1>3, <2>1 DEF SendPublicChatMessage, Types, Status
  <2>3. QueueInv'
    <3>1. UNCHANGED events /\ requests' \in {requests, requests + 1}
      BY <1>3, <2>1 DEF SendPublicChatMessage
    <3> QED BY <2>1, <2>2, <3>1, QuietStep DEF Actor
  <2>4. AssignedInv'
    <3>1. UNCHANGED chat
      BY <1>3 DEF SendPublicChatMessage
    <3> QED BY <2>1, <3>1, SameChat DEF Actor
  <2>5. LineInv'
    <3>1. Erased => Erased'
      BY <1>3, <2>1 DEF SendPublicChatMessage, Types, Erased
    <3>2. lineStored => lineStored'
      BY <1>3, <2>1 DEF SendPublicChatMessage
    <3>3. closedAloud' => closedAloud \/ lineStored' \/ task[t].aloud
      BY <1>3 DEF SendPublicChatMessage
    <3> QED BY <2>1, <3>1, <3>2, <3>3, LineStep DEF Actor
  <2> QED BY <2>2, <2>3, <2>4, <2>5
<1>4. ASSUME NEW t \in Tab, DispatchAiChannelMessage(t) PROVE IInv'
  <2>1. /\ task' \in [Actor -> Task] /\ Others(t) /\ ~Idle(t) /\ task[t].op = "send"
        /\ task'[t] = NoTask /\ task'[t].op = "none" /\ ~task'[t].aloud
    BY <1>4, Finished DEF DispatchAiChannelMessage, Doing, Idle, NoTask, Actor
  <2>2. Types'
    BY <1>4, <2>1, BoundsAssumption
    DEF DispatchAiChannelMessage, Types, Status, PostOther, PostBotNotice
  <2>3. QueueInv'
    <3>1. /\ events' \in {events, events + 1} /\ UNCHANGED requests
      BY <1>4 DEF DispatchAiChannelMessage
    <3>2. Busy' = Busy
      BY <2>1, ActorsAssumption DEF Busy, Idle, Others, Actor
    <3>3. t \in Sending /\ Sending' = Sending \ {t}
      BY <2>1 DEF Sending, Others, Actor
    <3>4. Cardinality(Sending') = Cardinality(Sending) - 1
      BY <2>2, <3>3, Counts, FS_RemoveElement
    <3> QED BY <2>2, <3>1, <3>2, <3>4, Counts DEF QueueInv, Types
  <2>4. AssignedInv'
    <3>1. UNCHANGED chat
      BY <1>4 DEF DispatchAiChannelMessage
    <3> QED BY <2>1, <3>1, SameChat DEF Actor
  <2>5. LineInv'
    <3>1. Erased => Erased'
      BY <1>4, <2>1 DEF DispatchAiChannelMessage, Types, Erased
    <3>2. lineStored => lineStored'
      BY <1>4, <2>1 DEF DispatchAiChannelMessage, PostOther, PostBotNotice
    <3>3. closedAloud' => closedAloud \/ lineStored' \/ task[t].aloud
      BY <1>4 DEF DispatchAiChannelMessage
    <3> QED BY <2>1, <3>1, <3>2, <3>3, LineStep DEF Actor
  <2> QED BY <2>2, <2>3, <2>4, <2>5
<1>5. ASSUME NEW t \in Tab, VisitorCloses(t) PROVE IInv'
  <2>1. /\ task' \in [Actor -> Task] /\ Others(t) /\ ~Idle(t) /\ task[t].op = "end"
        /\ task'[t] = NoTask /\ task'[t].op = "none" /\ ~task'[t].aloud
    BY <1>5, Finished DEF VisitorCloses, Doing, Idle, NoTask, Actor
  <2>2. Types'
    BY <1>5, <2>1 DEF VisitorCloses, Types, Status, SetPublicChatStatus, Erased
  <2>3. QueueInv'
    <3>1. UNCHANGED events /\ requests' \in {requests, requests + 1}
      BY <1>5, <2>1 DEF VisitorCloses
    <3> QED BY <2>1, <2>2, <3>1, QuietStep DEF Actor
  <2>4. AssignedInv'
    BY <1>5, <2>1, AgentsAssumption
    DEF VisitorCloses, Types, AssignedInv, AssigneeMatchesStatus, AssigneeIsMember, LeavingInv,
        Others, Doing, Actor, SetPublicChatStatus, Erased
  <2>5. LineInv'
    <3>1. Erased => Erased'
      BY <1>5, <2>1 DEF VisitorCloses, Types, Erased, SetPublicChatStatus
    <3>2. lineStored => lineStored'
      BY <1>5, <2>1 DEF VisitorCloses
    <3>3. closedAloud' => closedAloud \/ lineStored' \/ task[t].aloud
      BY <1>5 DEF VisitorCloses
    <3> QED BY <2>1, <3>1, <3>2, <3>3, LineStep DEF Actor
  <2> QED BY <2>2, <2>3, <2>4, <2>5
<1>6. ASSUME NEW t \in Tab, LoadMessages(t) PROVE IInv'
  <2>1. /\ task' \in [Actor -> Task] /\ Others(t) /\ ~Idle(t) /\ task[t].op = "poll"
        /\ task'[t] = NoTask /\ task'[t].op = "none" /\ ~task'[t].aloud
    BY <1>6, Finished DEF LoadMessages, Doing, Idle, NoTask, Actor
  <2>2. Types'
    BY <1>6, <2>1 DEF LoadMessages, Types, Status
  <2>3. QueueInv'
    <3>1. UNCHANGED events /\ requests' \in {requests, requests + 1}
      BY <1>6, <2>1 DEF LoadMessages
    <3> QED BY <2>1, <2>2, <3>1, QuietStep DEF Actor
  <2>4. AssignedInv'
    <3>1. UNCHANGED chat
      BY <1>6 DEF LoadMessages
    <3> QED BY <2>1, <3>1, SameChat DEF Actor
  <2>5. LineInv'
    <3>1. Erased => Erased'
      BY <1>6, <2>1 DEF LoadMessages, Types, Erased
    <3>2. lineStored => lineStored'
      BY <1>6, <2>1 DEF LoadMessages
    <3>3. closedAloud' => closedAloud \/ lineStored' \/ task[t].aloud
      BY <1>6 DEF LoadMessages
    <3> QED BY <2>1, <3>1, <3>2, <3>3, LineStep DEF Actor
  <2> QED BY <2>2, <2>3, <2>4, <2>5
<1>7. ASSUME NEW s \in Sweeper, FindStale(s) PROVE IInv'
  <2>1. /\ task' \in [Actor -> Task] /\ Others(s) /\ Idle(s) /\ task[s].op = "none"
        /\ task'[s].step = "first" /\ task'[s].op \in {"erase"}
        /\ task'[s].aloud => closedAloud
        /\ requests' = requests + 1 /\ requests' \in 0..MaxRequests
    <3>1. PICK op \in {"erase"} : Start(s, op)
      BY <1>7 DEF FindStale
    <3>2. op \in Op /\ s \in Actor
      BY <3>1 DEF Op, Actor
    <3>3. Idle(s) => task[s].op = "none"
      BY DEF Idle, NoTask
    <3> QED BY <3>1, <3>2, <3>3, Started
  <2>2. Types'
    BY <1>7, <2>1 DEF FindStale, Types, Status
  <2>3. QueueInv'
    <3>1. UNCHANGED events /\ requests' \in {requests, requests + 1}
      BY <1>7, <2>1 DEF FindStale
    <3> QED BY <2>1, <2>2, <3>1, QuietStep, ActorsAssumption DEF Actor
  <2>4. AssignedInv'
    <3>1. UNCHANGED chat
      BY <1>7 DEF FindStale
    <3> QED BY <2>1, <3>1, SameChat DEF Actor
  <2>5. LineInv'
    <3>1. Erased => Erased'
      BY <1>7, <2>1 DEF FindStale, Types, Erased
    <3>2. lineStored => lineStored'
      BY <1>7, <2>1 DEF FindStale
    <3>3. closedAloud' => closedAloud \/ lineStored' \/ task[s].aloud
      BY <1>7 DEF FindStale
    <3> QED BY <2>1, <3>1, <3>2, <3>3, LineStep DEF Actor
  <2> QED BY <2>2, <2>3, <2>4, <2>5
<1>8. ASSUME NEW x \in Actor, EraseMessages(x) PROVE IInv'
  <2>1. /\ task' \in [Actor -> Task] /\ Others(x) /\ ~Idle(x)
        /\ task[x].op = "erase" /\ task'[x].op = "erase" /\ task'[x].step = "second"
        /\ task'[x].aloud = task[x].aloud
    <3>1. GoTo(x, "second") /\ "second" \in Step /\ x \in Actor
      BY <1>8 DEF EraseMessages, Step, Actor
    <3>2. task[x].op = "erase" /\ ~Idle(x)
      BY <1>8 DEF EraseMessages, Doing, Idle, NoTask
    <3> QED BY <3>1, <3>2, Moved
  <2>2. Types'
    BY <1>8, <2>1 DEF EraseMessages, Types, Status
  <2>3. QueueInv'
    <3>1. UNCHANGED events /\ requests' \in {requests, requests + 1}
      BY <1>8, <2>1 DEF EraseMessages
    <3> QED BY <2>1, <2>2, <3>1, QuietStep DEF Actor
  <2>4. AssignedInv'
    <3>1. UNCHANGED chat
      BY <1>8 DEF EraseMessages
    <3> QED BY <2>1, <3>1, SameChat DEF Actor
  <2>5. LineInv'
    BY <1>8, <2>1 DEF EraseMessages, LineInv, Erasing, Erased, Actor
  <2> QED BY <2>2, <2>3, <2>4, <2>5
<1>9. ASSUME NEW x \in Actor, EraseChannel(x) PROVE IInv'
  <2>1. /\ task' \in [Actor -> Task] /\ Others(x) /\ ~Idle(x) /\ task[x].op = "erase"
        /\ task'[x] = NoTask /\ task'[x].op = "none" /\ ~task'[x].aloud
    BY <1>9, Finished DEF EraseChannel, Doing, Idle, NoTask, Actor
  <2>2. Types'
    BY <1>9, <2>1 DEF EraseChannel, Types, Status
  <2>3. QueueInv'
    <3>1. UNCHANGED events /\ requests' \in {requests, requests + 1}
      BY <1>9, <2>1 DEF EraseChannel
    <3> QED BY <2>1, <2>2, <3>1, QuietStep DEF Actor
  <2>4. AssignedInv'
    BY <1>9, <2>1, AgentsAssumption
    DEF EraseChannel, Types, AssignedInv, AssigneeMatchesStatus, AssigneeIsMember, LeavingInv,
        Others, Doing, Actor
  <2>5. LineInv'
    BY <1>9, <2>1 DEF EraseChannel, LineInv, Erasing, Erased, Actor
  <2> QED BY <2>2, <2>3, <2>4, <2>5
<1>10. ASSUME NEW x \in Actor, RequestHumanHandoff(x) PROVE IInv'
  <2>1. /\ task' \in [Actor -> Task] /\ Others(x) /\ ~Idle(x)
        /\ task[x].op = "handoff" /\ task'[x].op = "handoff" /\ task'[x].step = "second"
        /\ task'[x].aloud = task[x].aloud
    <3>1. GoTo(x, "second") /\ "second" \in Step /\ x \in Actor
      BY <1>10 DEF RequestHumanHandoff, Step, Actor
    <3>2. task[x].op = "handoff" /\ ~Idle(x)
      BY <1>10 DEF RequestHumanHandoff, Doing, Idle, NoTask
    <3> QED BY <3>1, <3>2, Moved
  <2>2. Types'
    BY <1>10, <2>1 DEF RequestHumanHandoff, Types, Status, SetPublicChatStatus, Erased
  <2>3. QueueInv'
    <3>1. UNCHANGED events /\ requests' \in {requests, requests + 1}
      BY <1>10, <2>1 DEF RequestHumanHandoff
    <3> QED BY <2>1, <2>2, <3>1, QuietStep DEF Actor
  <2>4. AssignedInv'
    BY <1>10, <2>1, AgentsAssumption
    DEF RequestHumanHandoff, Types, AssignedInv, AssigneeMatchesStatus, AssigneeIsMember,
        LeavingInv, Others, Doing, Actor, SetPublicChatStatus, Erased
  <2>5. LineInv'
    <3>1. Erased => Erased'
      BY <1>10, <2>1 DEF RequestHumanHandoff, Types, Erased, SetPublicChatStatus
    <3>2. lineStored => lineStored'
      BY <1>10, <2>1 DEF RequestHumanHandoff
    <3>3. closedAloud' => closedAloud \/ lineStored' \/ task[x].aloud
      BY <1>10 DEF RequestHumanHandoff
    <3> QED BY <2>1, <3>1, <3>2, <3>3, LineStep DEF Actor
  <2> QED BY <2>2, <2>3, <2>4, <2>5
<1>11. ASSUME NEW x \in Actor, Acknowledge(x) PROVE IInv'
  <2>1. /\ task' \in [Actor -> Task] /\ Others(x) /\ ~Idle(x)
        /\ task[x].op = "handoff" /\ task'[x].op = "handoff" /\ task'[x].step = "third"
        /\ task'[x].aloud = task[x].aloud
    <3>1. GoTo(x, "third") /\ "third" \in Step /\ x \in Actor
      BY <1>11 DEF Acknowledge, Step, Actor
    <3>2. task[x].op = "handoff" /\ ~Idle(x)
      BY <1>11 DEF Acknowledge, Doing, Idle, NoTask
    <3> QED BY <3>1, <3>2, Moved
  <2>2. Types'
    BY <1>11, <2>1, BoundsAssumption DEF Acknowledge, Types, Status, PostOther, PostBotNotice
  <2>3. QueueInv'
    <3>1. UNCHANGED events /\ requests' \in {requests, requests + 1}
      BY <1>11, <2>1 DEF Acknowledge
    <3> QED BY <2>1, <2>2, <3>1, QuietStep DEF Actor
  <2>4. AssignedInv'
    <3>1. UNCHANGED chat
      BY <1>11 DEF Acknowledge
    <3> QED BY <2>1, <3>1, SameChat DEF Actor
  <2>5. LineInv'
    <3>1. Erased => Erased'
      BY <1>11, <2>1 DEF Acknowledge, Types, Erased
    <3>2. lineStored => lineStored'
      BY <1>11, <2>1 DEF Acknowledge, PostOther, PostBotNotice
    <3>3. closedAloud' => closedAloud \/ lineStored' \/ task[x].aloud
      BY <1>11 DEF Acknowledge
    <3> QED BY <2>1, <3>1, <3>2, <3>3, LineStep DEF Actor
  <2> QED BY <2>2, <2>3, <2>4, <2>5
<1>12. ASSUME NEW x \in Actor, NotifyAgents(x) PROVE IInv'
  <2>1. /\ task' \in [Actor -> Task] /\ Others(x) /\ ~Idle(x) /\ task[x].op = "handoff"
        /\ task'[x].op \in {"none", "answer"} /\ ~task'[x].aloud
    <3>1. CASE x \in Responder
      <4>1. [NoTask EXCEPT !.op = "answer", !.step = "second"] \in Task
        BY DEF Task, NoTask, Op, Step, Status
      <4>2. task' = [task EXCEPT ![x] = [NoTask EXCEPT !.op = "answer", !.step = "second"]]
        BY <1>12, <3>1 DEF NotifyAgents
      <4> QED BY <1>12, <4>1, <4>2 DEF NotifyAgents, Doing, Idle, NoTask, Others, Types
    <3>2. CASE x \notin Responder
      BY <1>12, <3>2, Finished DEF NotifyAgents, Doing, Idle, NoTask
    <3> QED BY <3>1, <3>2
  <2>2. Types'
    BY <1>12, <2>1 DEF NotifyAgents, Types, Status
  <2>3. QueueInv'
    <3>1. UNCHANGED events /\ requests' \in {requests, requests + 1}
      BY <1>12, <2>1 DEF NotifyAgents
    <3> QED BY <2>1, <2>2, <3>1, QuietStep DEF Actor
  <2>4. AssignedInv'
    <3>1. UNCHANGED chat
      BY <1>12 DEF NotifyAgents
    <3> QED BY <2>1, <3>1, SameChat DEF Actor
  <2>5. LineInv'
    <3>1. Erased => Erased'
      BY <1>12, <2>1 DEF NotifyAgents, Types, Erased
    <3>2. lineStored => lineStored'
      BY <1>12, <2>1 DEF NotifyAgents
    <3>3. closedAloud' => closedAloud \/ lineStored' \/ task[x].aloud
      BY <1>12 DEF NotifyAgents
    <3> QED BY <2>1, <3>1, <3>2, <3>3, LineStep DEF Actor
  <2> QED BY <2>2, <2>3, <2>4, <2>5
<1>13. ASSUME NEW a \in Agent, RequirePublicChat(a) PROVE IInv'
  <2>1. /\ task' \in [Actor -> Task] /\ Others(a) /\ Idle(a) /\ task[a].op = "none"
        /\ task'[a].step = "first" /\ task'[a].op \in {"join", "release", "close"}
        /\ task'[a].aloud => closedAloud
        /\ requests' = requests + 1 /\ requests' \in 0..MaxRequests
    <3>1. PICK op \in {"join", "release", "close"} : Start(a, op)
      BY <1>13 DEF RequirePublicChat
    <3>2. op \in Op /\ a \in Actor
      BY <3>1 DEF Op, Actor
    <3>3. Idle(a) => task[a].op = "none"
      BY DEF Idle, NoTask
    <3> QED BY <3>1, <3>2, <3>3, Started
  <2>2. Types'
    BY <1>13, <2>1 DEF RequirePublicChat, Types, Status, Erased
  <2>3. QueueInv'
    <3>1. UNCHANGED events /\ requests' \in {requests, requests + 1}
      BY <1>13, <2>1 DEF RequirePublicChat
    <3> QED BY <2>1, <2>2, <3>1, QuietStep, ActorsAssumption DEF Actor
  <2>4. AssignedInv'
    <3>1. UNCHANGED chat
      BY <1>13 DEF RequirePublicChat
    <3> QED BY <2>1, <3>1, SameChat DEF Actor
  <2>5. LineInv'
    <3>1. Erased => Erased'
      BY <1>13, <2>1 DEF RequirePublicChat, Types, Erased
    <3>2. lineStored => lineStored'
      BY <1>13, <2>1 DEF RequirePublicChat
    <3>3. closedAloud' => closedAloud \/ lineStored' \/ task[a].aloud
      BY <1>13 DEF RequirePublicChat
    <3> QED BY <2>1, <3>1, <3>2, <3>3, LineStep DEF Actor
  <2> QED BY <2>2, <2>3, <2>4, <2>5
<1>14. ASSUME NEW a \in Agent, AssignAgentToPublicChat(a) PROVE IInv'
  <2>1. /\ task' \in [Actor -> Task] /\ Others(a) /\ ~Idle(a)
        /\ task[a].op = "join" /\ task'[a].op = "join" /\ task'[a].step = "third"
        /\ task'[a].aloud = task[a].aloud
    <3>1. GoTo(a, "third") /\ "third" \in Step /\ a \in Actor
      BY <1>14 DEF AssignAgentToPublicChat, Step, Actor
    <3>2. task[a].op = "join" /\ ~Idle(a)
      BY <1>14 DEF AssignAgentToPublicChat, Doing, Idle, NoTask
    <3> QED BY <3>1, <3>2, Moved
  <2>2. Types'
    BY <1>14, <2>1 DEF AssignAgentToPublicChat, Types, Status, Erased
  <2>3. QueueInv'
    <3>1. UNCHANGED events /\ requests' \in {requests, requests + 1}
      BY <1>14, <2>1 DEF AssignAgentToPublicChat
    <3> QED BY <2>1, <2>2, <3>1, QuietStep DEF Actor
  <2>4. AssignedInv'
    BY <1>14, <2>1, AgentsAssumption
    DEF AssignAgentToPublicChat, Types, AssignedInv, AssigneeMatchesStatus, AssigneeIsMember,
        LeavingInv, Others, Doing, Actor, Erased
  <2>5. LineInv'
    <3>1. Erased => Erased'
      BY <1>14, <2>1 DEF AssignAgentToPublicChat, Types, Erased
    <3>2. lineStored => lineStored'
      BY <1>14, <2>1 DEF AssignAgentToPublicChat
    <3>3. closedAloud' => closedAloud \/ lineStored' \/ task[a].aloud
      BY <1>14 DEF AssignAgentToPublicChat
    <3> QED BY <2>1, <3>1, <3>2, <3>3, LineStep DEF Actor
  <2> QED BY <2>2, <2>3, <2>4, <2>5
<1>15. ASSUME NEW a \in Agent, ReleasePublicChatToBot(a) PROVE IInv'
  <2>1. /\ task' \in [Actor -> Task] /\ Others(a) /\ ~Idle(a)
        /\ task[a].op = "release" /\ task'[a].op = "release" /\ task'[a].step = "second"
        /\ task'[a].aloud = task[a].aloud
    <3>1. GoTo(a, "second") /\ "second" \in Step /\ a \in Actor
      BY <1>15 DEF ReleasePublicChatToBot, Step, Actor
    <3>2. task[a].op = "release" /\ ~Idle(a)
      BY <1>15 DEF ReleasePublicChatToBot, Doing, Idle, NoTask
    <3> QED BY <3>1, <3>2, Moved
  <2>2. Types'
    BY <1>15, <2>1 DEF ReleasePublicChatToBot, Types, Status, SetPublicChatStatus, Erased
  <2>3. QueueInv'
    <3>1. UNCHANGED events /\ requests' \in {requests, requests + 1}
      BY <1>15, <2>1 DEF ReleasePublicChatToBot
    <3> QED BY <2>1, <2>2, <3>1, QuietStep DEF Actor
  <2>4. AssignedInv'
    BY <1>15, <2>1, AgentsAssumption
    DEF ReleasePublicChatToBot, Types, AssignedInv, AssigneeMatchesStatus, AssigneeIsMember,
        LeavingInv, Others, Doing, Actor, SetPublicChatStatus, Erased
  <2>5. LineInv'
    <3>1. Erased => Erased'
      BY <1>15, <2>1 DEF ReleasePublicChatToBot, Types, Erased, SetPublicChatStatus
    <3>2. lineStored => lineStored'
      BY <1>15, <2>1 DEF ReleasePublicChatToBot
    <3>3. closedAloud' => closedAloud \/ lineStored' \/ task[a].aloud
      BY <1>15 DEF ReleasePublicChatToBot
    <3> QED BY <2>1, <3>1, <3>2, <3>3, LineStep DEF Actor
  <2> QED BY <2>2, <2>3, <2>4, <2>5
<1>16. ASSUME NEW a \in Agent, LeaveReleased(a) PROVE IInv'
  <2>1. /\ task' \in [Actor -> Task] /\ Others(a) /\ ~Idle(a)
        /\ task[a].op = "release" /\ task'[a].op = "release" /\ task'[a].step = "third"
        /\ task'[a].aloud = task[a].aloud
    <3>1. GoTo(a, "third") /\ "third" \in Step /\ a \in Actor
      BY <1>16 DEF LeaveReleased, Step, Actor
    <3>2. task[a].op = "release" /\ ~Idle(a)
      BY <1>16 DEF LeaveReleased, Doing, Idle, NoTask
    <3> QED BY <3>1, <3>2, Moved
  <2>2. Types'
    BY <1>16, <2>1 DEF LeaveReleased, Types, Status, Pull
  <2>3. QueueInv'
    <3>1. UNCHANGED events /\ requests' \in {requests, requests + 1}
      BY <1>16, <2>1 DEF LeaveReleased
    <3> QED BY <2>1, <2>2, <3>1, QuietStep DEF Actor
  <2>4. AssignedInv'
    BY <1>16, <2>1, AgentsAssumption
    DEF LeaveReleased, Types, AssignedInv, AssigneeMatchesStatus, AssigneeIsMember, LeavingInv,
        Others, Doing, Actor, Pull
  <2>5. LineInv'
    <3>1. Erased => Erased'
      BY <1>16, <2>1 DEF LeaveReleased, Types, Erased, Pull
    <3>2. lineStored => lineStored'
      BY <1>16, <2>1 DEF LeaveReleased
    <3>3. closedAloud' => closedAloud \/ lineStored' \/ task[a].aloud
      BY <1>16 DEF LeaveReleased
    <3> QED BY <2>1, <3>1, <3>2, <3>3, LineStep DEF Actor
  <2> QED BY <2>2, <2>3, <2>4, <2>5
<1>17. ASSUME NEW a \in Agent, TellVisitor(a) PROVE IInv'
  <2>1. /\ task' \in [Actor -> Task] /\ Others(a) /\ ~Idle(a) /\ task[a].op \in {"join", "release"}
        /\ task'[a] = NoTask /\ task'[a].op = "none" /\ ~task'[a].aloud
    BY <1>17, Finished DEF TellVisitor, Doing, Idle, NoTask, Actor
  <2>2. Types'
    BY <1>17, <2>1, BoundsAssumption DEF TellVisitor, Types, Status, PostOther, PostBotNotice
  <2>3. QueueInv'
    <3>1. UNCHANGED events /\ requests' \in {requests, requests + 1}
      BY <1>17, <2>1 DEF TellVisitor
    <3> QED BY <2>1, <2>2, <3>1, QuietStep DEF Actor
  <2>4. AssignedInv'
    <3>1. UNCHANGED chat
      BY <1>17 DEF TellVisitor
    <3> QED BY <2>1, <3>1, SameChat DEF Actor
  <2>5. LineInv'
    <3>1. Erased => Erased'
      BY <1>17, <2>1 DEF TellVisitor, Types, Erased
    <3>2. lineStored => lineStored'
      BY <1>17, <2>1 DEF TellVisitor, PostOther, PostBotNotice
    <3>3. closedAloud' => closedAloud \/ lineStored' \/ task[a].aloud
      BY <1>17 DEF TellVisitor
    <3> QED BY <2>1, <3>1, <3>2, <3>3, LineStep DEF Actor
  <2> QED BY <2>2, <2>3, <2>4, <2>5
<1>18. ASSUME NEW a \in Agent, PostClosingLine(a) PROVE IInv'
  <2>1. /\ task' \in [Actor -> Task] /\ Others(a) /\ ~Idle(a)
        /\ task[a].op = "close" /\ task'[a].op = "close" /\ task'[a].step = "second"
        /\ task'[a].aloud => lineStored'
        /\ lineStored' \in {lineStored, TRUE} /\ faults' \in 0..FaultBudget
    <3>1. lineStored' \in {lineStored, TRUE} /\ faults' \in 0..FaultBudget
      <4>1. \/ lineStored' = TRUE /\ UNCHANGED faults
            \/ UNCHANGED lineStored /\ faults < FaultBudget /\ faults' = faults + 1
        BY <1>18 DEF PostClosingLine, PostClosing, PostBotNotice
      <4>2. faults \in 0..FaultBudget
        BY DEF Types
      <4>3. faults' \in 0..FaultBudget
        BY <4>1, <4>2, BoundsAssumption
      <4>4. lineStored' \in {lineStored, TRUE}
        BY <4>1
      <4> QED BY <4>3, <4>4
    <3>2. task' = [task EXCEPT ![a] = [task[a] EXCEPT !.step = "second", !.aloud = lineStored']]
      BY <1>18 DEF PostClosingLine
    <3>3. a \in Actor /\ task[a] \in Task /\ lineStored' \in BOOLEAN
      BY <3>1 DEF Types, Actor
    <3>4. [task[a] EXCEPT !.step = "second", !.aloud = lineStored'] \in Task
      BY <3>3 DEF Task, Step
    <3>5. task' \in [Actor -> Task] /\ Others(a)
      BY <3>2, <3>3, <3>4 DEF Types, Others
    <3>6. task'[a] = [task[a] EXCEPT !.step = "second", !.aloud = lineStored']
      BY <3>2, <3>3 DEF Types
    <3>7. task[a].op = "close" /\ ~Idle(a)
      BY <1>18 DEF PostClosingLine, Doing, Idle, NoTask
    <3> QED BY <3>1, <3>3, <3>5, <3>6, <3>7 DEF Task
  <2>2. Types'
    BY <1>18, <2>1, BoundsAssumption
    DEF PostClosingLine, Types, Status, PostClosing, PostBotNotice
  <2>3. QueueInv'
    <3>1. UNCHANGED events /\ requests' \in {requests, requests + 1}
      BY <1>18, <2>1 DEF PostClosingLine
    <3> QED BY <2>1, <2>2, <3>1, QuietStep DEF Actor
  <2>4. AssignedInv'
    <3>1. UNCHANGED chat
      BY <1>18 DEF PostClosingLine
    <3> QED BY <2>1, <3>1, SameChat DEF Actor
  <2>5. LineInv'
    <3>1. Erased => Erased'
      BY <1>18, <2>1 DEF PostClosingLine, Types, Erased
    <3>2. lineStored => lineStored'
      BY <1>18, <2>1 DEF PostClosingLine, PostClosing, PostBotNotice
    <3>3. closedAloud' => closedAloud \/ lineStored' \/ task[a].aloud
      BY <1>18 DEF PostClosingLine
    <3> QED BY <2>1, <3>1, <3>2, <3>3, LineStep DEF Actor
  <2> QED BY <2>2, <2>3, <2>4, <2>5
<1>19. ASSUME NEW a \in Agent, ClosePublicChatByAgent(a) PROVE IInv'
  <2>1. /\ task' \in [Actor -> Task] /\ Others(a) /\ ~Idle(a)
        /\ task[a].op = "close" /\ task'[a].op = "close" /\ task'[a].step = "third"
        /\ task'[a].aloud = task[a].aloud
    <3>1. GoTo(a, "third") /\ "third" \in Step /\ a \in Actor
      BY <1>19 DEF ClosePublicChatByAgent, Step, Actor
    <3>2. task[a].op = "close" /\ ~Idle(a)
      BY <1>19 DEF ClosePublicChatByAgent, Doing, Idle, NoTask
    <3> QED BY <3>1, <3>2, Moved
  <2>2. Types'
    <3>1. closedAloud' \in BOOLEAN
      <4>1. task[a] \in Task
        BY DEF Types, Actor
      <4> QED BY <1>19, <4>1 DEF ClosePublicChatByAgent, Task
    <3> QED BY <1>19, <2>1, <3>1
        DEF ClosePublicChatByAgent, Types, Status, SetPublicChatStatus, Erased
  <2>3. QueueInv'
    <3>1. UNCHANGED events /\ requests' \in {requests, requests + 1}
      BY <1>19, <2>1 DEF ClosePublicChatByAgent
    <3> QED BY <2>1, <2>2, <3>1, QuietStep DEF Actor
  <2>4. AssignedInv'
    BY <1>19, <2>1, AgentsAssumption
    DEF ClosePublicChatByAgent, Types, AssignedInv, AssigneeMatchesStatus, AssigneeIsMember,
        LeavingInv, Others, Doing, Actor, SetPublicChatStatus, Erased
  <2>5. LineInv'
    <3>1. Erased => Erased'
      BY <1>19, <2>1 DEF ClosePublicChatByAgent, Types, Erased, SetPublicChatStatus
    <3>2. lineStored => lineStored'
      BY <1>19, <2>1 DEF ClosePublicChatByAgent
    <3>3. closedAloud' => closedAloud \/ lineStored' \/ task[a].aloud
      BY <1>19 DEF ClosePublicChatByAgent
    <3> QED BY <2>1, <3>1, <3>2, <3>3, LineStep DEF Actor
  <2> QED BY <2>2, <2>3, <2>4, <2>5
<1>20. ASSUME NEW a \in Agent, LeaveClosed(a) PROVE IInv'
  <2>1. /\ task' \in [Actor -> Task] /\ Others(a) /\ ~Idle(a) /\ task[a].op = "close"
        /\ task'[a] = NoTask /\ task'[a].op = "none" /\ ~task'[a].aloud
    BY <1>20, Finished DEF LeaveClosed, Doing, Idle, NoTask, Actor
  <2>2. Types'
    BY <1>20, <2>1 DEF LeaveClosed, Types, Status, Pull
  <2>3. QueueInv'
    <3>1. UNCHANGED events /\ requests' \in {requests, requests + 1}
      BY <1>20, <2>1 DEF LeaveClosed
    <3> QED BY <2>1, <2>2, <3>1, QuietStep DEF Actor
  <2>4. AssignedInv'
    BY <1>20, <2>1, AgentsAssumption
    DEF LeaveClosed, Types, AssignedInv, AssigneeMatchesStatus, AssigneeIsMember, LeavingInv,
        Others, Doing, Actor, Pull
  <2>5. LineInv'
    <3>1. Erased => Erased'
      BY <1>20, <2>1 DEF LeaveClosed, Types, Erased, Pull
    <3>2. lineStored => lineStored'
      BY <1>20, <2>1 DEF LeaveClosed
    <3>3. closedAloud' => closedAloud \/ lineStored' \/ task[a].aloud
      BY <1>20 DEF LeaveClosed
    <3> QED BY <2>1, <3>1, <3>2, <3>3, LineStep DEF Actor
  <2> QED BY <2>2, <2>3, <2>4, <2>5
<1>21. ASSUME NEW r \in Responder, SkipAnswer(r) PROVE IInv'
  <2>1. UNCHANGED task
    BY <1>21 DEF SkipAnswer
  <2>2. Types'
    <3>1. Cardinality(Busy) < events /\ Cardinality(Busy) \in Nat
      BY <1>21, CountsNow DEF SkipAnswer, Answering, Busy
    <3> QED BY <1>21, <2>1, <3>1 DEF SkipAnswer, Types
  <2>3. QueueInv'
    <3>1. Cardinality(Busy) < events /\ events' = events - 1
      BY <1>21 DEF SkipAnswer, Answering, Busy
    <3>2. Busy' = Busy /\ Sending' = Sending /\ UNCHANGED requests
      BY <1>21 DEF SkipAnswer, Busy, Sending, Idle
    <3> QED BY <2>2, <3>1, <3>2, Counts DEF QueueInv, Types
  <2>4. AssignedInv'
    BY <1>21, <2>1, AgentsAssumption
    DEF SkipAnswer, Types, AssignedInv, AssigneeMatchesStatus, AssigneeIsMember, LeavingInv,
        Others, Doing, Actor
  <2>5. LineInv'
    BY <1>21 DEF SkipAnswer, LineInv, Erasing, Erased
  <2> QED BY <2>2, <2>3, <2>4, <2>5
<1>22. ASSUME NEW r \in Responder, ComposeAiReply(r) PROVE IInv'
  <2>1. /\ task' \in [Actor -> Task] /\ Others(r) /\ Idle(r)
        /\ task[r].op = "none" /\ task'[r].op = "answer" /\ ~task'[r].aloud
    <3>1. [NoTask EXCEPT !.op = "answer", !.step = "first"] \in Task
      BY DEF Task, NoTask, Op, Step, Status
    <3>2. task' = [task EXCEPT ![r] = [NoTask EXCEPT !.op = "answer", !.step = "first"]]
      BY <1>22 DEF ComposeAiReply
    <3> QED BY <1>22, <3>1, <3>2 DEF ComposeAiReply, Idle, NoTask, Others, Types, Actor
  <2>2. Types'
    BY <1>22, <2>1 DEF ComposeAiReply, Types, Status
  <2>3. QueueInv'
    <3>1. Cardinality(Busy) < events /\ UNCHANGED <<events, requests>>
      BY <1>22 DEF ComposeAiReply, Answering, Busy
    <3>2. Busy' \subseteq Busy \cup {r} /\ Sending' = Sending
      BY <2>1, ActorsAssumption DEF Busy, Sending, Idle, Others, Actor
    <3>3. Cardinality(Busy') <= Cardinality(Busy) + 1
      BY <2>2, <3>2, Counts, OneMore
    <3> QED BY <2>2, <3>1, <3>2, <3>3, Counts DEF QueueInv, Types
  <2>4. AssignedInv'
    <3>1. UNCHANGED chat
      BY <1>22 DEF ComposeAiReply
    <3> QED BY <2>1, <3>1, SameChat DEF Actor
  <2>5. LineInv'
    <3>1. Erased => Erased'
      BY <1>22, <2>1 DEF ComposeAiReply, Types, Erased
    <3>2. lineStored => lineStored'
      BY <1>22, <2>1 DEF ComposeAiReply
    <3>3. closedAloud' => closedAloud \/ lineStored' \/ task[r].aloud
      BY <1>22 DEF ComposeAiReply
    <3> QED BY <2>1, <3>1, <3>2, <3>3, LineStep DEF Actor
  <2> QED BY <2>2, <2>3, <2>4, <2>5
<1>23. ASSUME NEW r \in Responder, RequestHumanAgentTool(r) PROVE IInv'
  <2>1. /\ task' \in [Actor -> Task] /\ Others(r) /\ ~Idle(r) /\ task[r].op = "answer"
        /\ task'[r].op = "handoff" /\ task'[r].aloud = task[r].aloud
    <3>1. task' = [task EXCEPT ![r] = [task[r] EXCEPT !.op = "handoff"]] /\ r \in Actor
      BY <1>23 DEF RequestHumanAgentTool, Actor
    <3>2. task[r] \in Task /\ [task[r] EXCEPT !.op = "handoff"] \in Task
      BY <3>1 DEF Types, Task, Op
    <3>3. task[r].op = "answer" /\ ~Idle(r)
      BY <1>23 DEF RequestHumanAgentTool, Doing, Idle, NoTask
    <3> QED BY <3>1, <3>2, <3>3 DEF Task, Others, Types
  <2>2. Types'
    BY <1>23, <2>1 DEF RequestHumanAgentTool, Types, Status
  <2>3. QueueInv'
    <3>1. UNCHANGED events /\ requests' \in {requests, requests + 1}
      BY <1>23, <2>1 DEF RequestHumanAgentTool
    <3> QED BY <2>1, <2>2, <3>1, QuietStep DEF Actor
  <2>4. AssignedInv'
    <3>1. UNCHANGED chat
      BY <1>23 DEF RequestHumanAgentTool
    <3> QED BY <2>1, <3>1, SameChat DEF Actor
  <2>5. LineInv'
    <3>1. Erased => Erased'
      BY <1>23, <2>1 DEF RequestHumanAgentTool, Types, Erased
    <3>2. lineStored => lineStored'
      BY <1>23, <2>1 DEF RequestHumanAgentTool
    <3>3. closedAloud' => closedAloud \/ lineStored' \/ task[r].aloud
      BY <1>23 DEF RequestHumanAgentTool
    <3> QED BY <2>1, <3>1, <3>2, <3>3, LineStep DEF Actor
  <2> QED BY <2>2, <2>3, <2>4, <2>5
<1>24. ASSUME NEW r \in Responder, DeliverAiReply(r) PROVE IInv'
  <2>1. /\ task' \in [Actor -> Task] /\ Others(r) /\ ~Idle(r) /\ task[r].op \in {"answer"}
        /\ task'[r] = NoTask /\ task'[r].op = "none" /\ ~task'[r].aloud
    BY <1>24, Finished DEF DeliverAiReply, Doing, Idle, NoTask, Actor
  <2>2. Types'
    <3>1. r \in Busy
      BY <1>24, <2>1 DEF Busy
    <3>2. Cardinality(Busy) # 0 /\ Cardinality(Busy) \in Nat /\ Cardinality(Busy) <= events
      BY <3>1, CountsNow, FS_EmptySet DEF QueueInv
    <3>3. events' \in Nat /\ faults' \in 0..FaultBudget
      BY <1>24, <3>2, BoundsAssumption DEF DeliverAiReply, Types
    <3> QED BY <1>24, <2>1, <3>3 DEF DeliverAiReply, Types
  <2>3. QueueInv'
    <3>1. events' \in {events, events - 1} /\ UNCHANGED requests
      BY <1>24 DEF DeliverAiReply
    <3>2. r \in Busy /\ Busy' = Busy \ {r}
      BY <2>1 DEF Busy, Idle, Others, Actor
    <3>3. Sending' = Sending
      BY <2>1, ActorsAssumption DEF Sending, Others, Actor
    <3>4. Cardinality(Busy') = Cardinality(Busy) - 1
      BY <2>2, <3>2, Counts, FS_RemoveElement
    <3> QED BY <2>2, <3>1, <3>3, <3>4, Counts DEF QueueInv, Types
  <2>4. AssignedInv'
    <3>1. UNCHANGED chat
      BY <1>24 DEF DeliverAiReply
    <3> QED BY <2>1, <3>1, SameChat DEF Actor
  <2>5. LineInv'
    <3>1. Erased => Erased'
      BY <1>24, <2>1 DEF DeliverAiReply, Types, Erased
    <3>2. lineStored => lineStored'
      BY <1>24, <2>1 DEF DeliverAiReply
    <3>3. closedAloud' => closedAloud \/ lineStored' \/ task[r].aloud
      BY <1>24 DEF DeliverAiReply
    <3> QED BY <2>1, <3>1, <3>2, <3>3, LineStep DEF Actor
  <2> QED BY <2>2, <2>3, <2>4, <2>5
<1>25. CASE UNCHANGED vars
  <2>1. Types'
    BY <1>25 DEF vars, Types
  <2>2. Busy' = Busy /\ Sending' = Sending
    BY <1>25 DEF vars, Busy, Sending, Idle
  <2>3. QueueInv'
    BY <1>25, <2>2 DEF vars, QueueInv
  <2>4. AssignedInv'
    BY <1>25 DEF vars, AssignedInv, AssigneeMatchesStatus, AssigneeIsMember, LeavingInv, Doing
  <2>5. LineInv'
    BY <1>25 DEF vars, LineInv, Erasing, Erased
  <2> QED BY <2>1, <2>3, <2>4, <2>5
<1> QED
  BY <1>1, <1>2, <1>3, <1>4, <1>5, <1>6, <1>7, <1>8, <1>9, <1>10, <1>11, <1>12, <1>13,
     <1>14, <1>15, <1>16, <1>17, <1>18, <1>19, <1>20, <1>21, <1>22, <1>23, <1>24, <1>25
  DEF Next, Proceed

\* The invariant holds in every state of every run.
LEMMA Invariant == Spec => []IInv
  BY InitIInv, NextIInv, PTL DEF Spec

\* Whatever the visitor, the agents and the assistant do at the same time, the status
\* of a chat, its assignee and its members agree, and no more messages wait for the
\* assistant than were sent.
THEOREM AlwaysAssigned == Spec => []Assigned
<1>1. IInv => TypeOK
  <2>1. SUFFICES ASSUME IInv PROVE TypeOK
    OBVIOUS
  <2>2. Cardinality(Sending) \in Nat /\ Cardinality(Busy) \in Nat
    BY ActorsAssumption, FS_Subset, FS_CardinalityType DEF Sending, Busy
  <2>3. events \in 0..MaxRequests
    BY <2>1, <2>2, BoundsAssumption DEF IInv, Types, QueueInv
  <2> QED BY <2>1, <2>3 DEF IInv, Types, TypeOK, Task
<1>2. IInv => Assigned
  BY <1>1 DEF IInv, AssignedInv, Assigned
<1> QED BY <1>2, Invariant, PTL

\* The poll that learns that an agent closed the chat carries the closing line.
THEOREM ClosingLineCarried == Spec => []PollCarriesClosingLine
<1>1. IInv => PollCarriesClosingLine
  BY DEF IInv, LineInv, Erasing, PollCarriesClosingLine, Actor
<1> QED BY <1>1, Invariant, PTL
=============================================================================
