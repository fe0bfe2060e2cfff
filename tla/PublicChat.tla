----------------------------- MODULE PublicChat -----------------------------
(***************************************************************************)
(* A website visitor's conversation: who answers it, and what happens to   *)
(* it while the visitor, the agents, the assistant and the retention sweep *)
(* all work on it at once.  None of the handlers runs in a transaction:    *)
(* each reads the channel once and then writes it step by step, so that    *)
(* every await between two of its steps lets the others in.                *)
(*                                                                         *)
(* Of the messages only the closing line is modelled.                      *)
(* Each browser tab and each agent has one request in progress at a time.  *)
(***************************************************************************)
EXTENDS Naturals, FiniteSets

CONSTANTS
    Tab,            \* browser tabs of the visitor
    Agent,          \* company users who may answer public chats
    Responder,      \* assistant processes
    Sweeper,        \* retention jobs
    NoAgent,        \* nobody is assigned
    MaxRequests,    \* requests of tabs and agents, and sweeps, in one behaviour
    FaultBudget     \* notices and replies that fail

ASSUME AgentsAssumption == NoAgent \notin Agent
ASSUME ActorsAssumption ==
    /\ IsFiniteSet(Tab) /\ IsFiniteSet(Responder)
    /\ Responder \cap (Tab \union Agent \union Sweeper) = {}
ASSUME BoundsAssumption == MaxRequests \in Nat /\ FaultBudget \in Nat

Actor == Tab \union Agent \union Responder \union Sweeper

Status == {"bot", "requested_human", "human", "closed"}
Op == {"none", "send", "handoff", "end", "erase", "poll",   \* of a tab
       "join", "release", "close",                          \* of an agent
       "answer"}                                            \* of a responder
Step == {"none", "first", "second", "third"}

VARIABLES
    chat,       \* the channel document; erased once it is deleted
    lineStored, \* the closing line is among the messages of the channel
    task,       \* what each actor is doing, and the status it goes by
    events,     \* messages the assistant has been sent and not yet dealt with
    announced,  \* the agents have been told of the latest escalation
    closedAloud,\* the latest close was an agent's whose closing line was stored
    requests, faults

vars == <<chat, lineStored, task, events, announced, closedAloud, requests, faults>>

Erased == chat.status = "erased"
NoTask == [op |-> "none", step |-> "none", saw |-> "bot", aloud |-> FALSE]
Idle(x) == task[x] = NoTask
Doing(x, op, step) == task[x].op = op /\ task[x].step = step

Finish(x) == task' = [task EXCEPT ![x] = NoTask]
GoTo(x, step) == task' = [task EXCEPT ![x].step = step]

\* A request starts from what it reads; only the requests that use the status later
\* keep it.
Start(x, op) ==
    /\ Idle(x)
    /\ requests < MaxRequests /\ requests' = requests + 1
    /\ task' = [task EXCEPT ![x] =
                    [op |-> op, step |-> "first",
                     saw |-> IF op \in {"send", "poll"} THEN chat.status ELSE "bot",
                     aloud |-> op = "poll" /\ closedAloud]]

\* setPublicChatStatus: an unconditional $set; nothing happens to a channel that is gone.
SetPublicChatStatus(status) ==
    chat' = IF Erased THEN chat
            ELSE [chat EXCEPT !.status = status,
                              !.assignedTo = IF status \in {"bot", "closed"} THEN NoAgent ELSE @]

Pull(agent) == chat' = [chat EXCEPT !.users = @ \ {agent}]

\* postBotNotice: best effort, and its caller goes on either way.
PostBotNotice(stored) ==
    \/ stored /\ UNCHANGED faults
    \/ UNCHANGED lineStored /\ faults < FaultBudget /\ faults' = faults + 1

PostClosing == PostBotNotice(lineStored' = TRUE)
PostOther == PostBotNotice(UNCHANGED lineStored)

Init ==
    /\ chat = [status |-> "bot", assignedTo |-> NoAgent, users |-> {}]
    /\ lineStored = FALSE
    /\ task = [x \in Actor |-> NoTask]
    /\ events = 0
    /\ announced = FALSE
    /\ closedAloud = FALSE
    /\ requests = 0
    /\ faults = 0

-----------------------------------------------------------------------------
(* The visitor.  Each request resolves the token to the channel first; a   *)
(* request that is refused there changes nothing.                          *)

ResolveVisitorSession(t) ==
    /\ ~Erased
    /\ \/ chat.status # "closed" /\ Start(t, "send")
       \/ chat.status = "bot" /\ Start(t, "handoff")
       \/ \E op \in {"end", "erase", "poll"} : Start(t, op)
    /\ UNCHANGED <<chat, lineStored, events, announced, closedAloud, faults>>

\* sendPublicChatMessage: stored whatever became of the channel, then handed to
\* the assistant if the channel was bot-served when it was read.
SendPublicChatMessage(t) ==
    /\ Doing(t, "send", "first")
    /\ IF task[t].saw = "bot" THEN GoTo(t, "second") ELSE Finish(t)
    /\ UNCHANGED <<chat, lineStored, events, announced, closedAloud, requests, faults>>

\* dispatchAiChannelMessage, in the background: to the assistant if it is online,
\* else the visitor is told that it is not.
DispatchAiChannelMessage(t) ==
    /\ Doing(t, "send", "second")
    /\ \/ events' = events + 1 /\ UNCHANGED <<lineStored, faults>>
       \/ PostOther /\ UNCHANGED events
    /\ Finish(t)
    /\ UNCHANGED <<chat, announced, closedAloud, requests>>

\* closePublicChat
VisitorCloses(t) ==
    /\ Doing(t, "end", "first")
    /\ SetPublicChatStatus("closed") /\ closedAloud' = FALSE
    /\ Finish(t)
    /\ UNCHANGED <<lineStored, events, announced, requests, faults>>

\* listPublicChatMessages has read the channel; now it loads the messages.  Which
\* part of a long conversation it loads (the since cursor, the limit) is left out.
LoadMessages(t) ==
    /\ Doing(t, "poll", "first")
    /\ Finish(t)
    /\ UNCHANGED <<chat, lineStored, events, announced, closedAloud, requests, faults>>

\* runPublicChatRetention picks a chat nobody took over or waits in.  How long the
\* visitor has been silent is not modelled: any chat may be old enough.
FindStale(s) ==
    /\ chat.status \in Status \ {"requested_human"} /\ chat.assignedTo = NoAgent
    /\ Start(s, "erase")
    /\ UNCHANGED <<chat, lineStored, events, announced, closedAloud, faults>>

\* erasePublicChat and the sweep: the messages, then the channel with its visitor.
EraseMessages(x) ==
    /\ Doing(x, "erase", "first")
    /\ lineStored' = FALSE
    /\ GoTo(x, "second")
    /\ UNCHANGED <<chat, events, announced, closedAloud, requests, faults>>

EraseChannel(x) ==
    /\ Doing(x, "erase", "second")
    /\ chat' = [status |-> "erased", assignedTo |-> NoAgent, users |-> {}]
    /\ Finish(x)
    /\ UNCHANGED <<lineStored, events, announced, closedAloud, requests, faults>>

-----------------------------------------------------------------------------
(* Escalation: by the visitor's button or by the assistant's tool.         *)

RequestHumanHandoff(x) ==
    /\ Doing(x, "handoff", "first")
    /\ SetPublicChatStatus("requested_human")
    /\ announced' = FALSE
    /\ GoTo(x, "second")
    /\ UNCHANGED <<lineStored, events, closedAloud, requests, faults>>

\* MUTANT: a failing notice fails the request.
MutAcknowledge(x) ==
    /\ Doing(x, "handoff", "second")
    /\ PostOther
    /\ IF faults' = faults THEN GoTo(x, "third") ELSE Finish(x)
    /\ UNCHANGED <<chat, events, announced, closedAloud, requests>>

Acknowledge(x) ==
    /\ Doing(x, "handoff", "second")
    /\ PostOther
    /\ GoTo(x, "third")
    /\ UNCHANGED <<chat, events, announced, closedAloud, requests>>

\* The assistant goes on with its answer.
NotifyAgents(x) ==
    /\ Doing(x, "handoff", "third")
    /\ announced' = TRUE
    /\ IF x \in Responder
       THEN task' = [task EXCEPT ![x] = [NoTask EXCEPT !.op = "answer", !.step = "second"]]
       ELSE Finish(x)
    /\ UNCHANGED <<chat, lineStored, events, closedAloud, requests, faults>>

-----------------------------------------------------------------------------
(* The agents.  join is refused while another is assigned; none of them    *)
(* looks at the status, but for close at a chat already closed.            *)

RequirePublicChat(a) ==
    /\ ~Erased
    /\ \/ chat.assignedTo \in {NoAgent, a} /\ Start(a, "join")
       \/ Start(a, "release")
       \/ chat.status # "closed" /\ Start(a, "close")
    /\ UNCHANGED <<chat, lineStored, events, announced, closedAloud, faults>>

AssignAgentToPublicChat(a) ==
    /\ Doing(a, "join", "first")
    /\ chat' = IF Erased THEN chat
               ELSE [status |-> "human", assignedTo |-> a, users |-> chat.users \union {a}]
    /\ GoTo(a, "third")
    /\ UNCHANGED <<lineStored, events, announced, closedAloud, requests, faults>>

\* MUTANT: leaves the channel before it gives the chat up.
MutReleasePublicChatToBot(a) ==
    /\ Doing(a, "release", "first")
    /\ Pull(a)
    /\ GoTo(a, "second")
    /\ UNCHANGED <<lineStored, events, announced, closedAloud, requests, faults>>

ReleasePublicChatToBot(a) ==
    /\ Doing(a, "release", "first")
    /\ SetPublicChatStatus("bot")
    /\ GoTo(a, "second")
    /\ UNCHANGED <<lineStored, events, announced, closedAloud, requests, faults>>

LeaveReleased(a) ==
    /\ Doing(a, "release", "second")
    /\ Pull(a)
    /\ GoTo(a, "third")
    /\ UNCHANGED <<lineStored, events, announced, closedAloud, requests, faults>>

\* The line that tells the visitor of a join or a release.
TellVisitor(a) ==
    /\ Doing(a, "join", "third") \/ Doing(a, "release", "third")
    /\ PostOther
    /\ Finish(a)
    /\ UNCHANGED <<chat, events, announced, closedAloud, requests>>

\* MUTANT: the line is left for after the close.
MutPostClosingLine(a) ==
    /\ Doing(a, "close", "first")
    /\ task' = [task EXCEPT ![a].step = "second", ![a].aloud = TRUE]
    /\ UNCHANGED <<chat, lineStored, events, announced, closedAloud, requests, faults>>

\* closePublicChatByAgent: the closing line before the status.
PostClosingLine(a) ==
    /\ Doing(a, "close", "first")
    /\ PostClosing
    /\ task' = [task EXCEPT ![a].step = "second", ![a].aloud = lineStored']
    /\ UNCHANGED <<chat, events, announced, closedAloud, requests>>

ClosePublicChatByAgent(a) ==
    /\ Doing(a, "close", "second")
    /\ SetPublicChatStatus("closed") /\ closedAloud' = task[a].aloud
    /\ GoTo(a, "third")
    /\ UNCHANGED <<lineStored, events, announced, requests, faults>>

LeaveClosed(a) ==
    /\ Doing(a, "close", "third")
    /\ Pull(a)
    /\ Finish(a)
    /\ UNCHANGED <<lineStored, events, announced, closedAloud, requests, faults>>

-----------------------------------------------------------------------------
(* The assistant, at least once per message it was sent.                   *)

Answering == Cardinality({r \in Responder : ~Idle(r)})

\* A chat that is no longer bot-served, or is gone, is skipped.
SkipAnswer(r) ==
    /\ Idle(r) /\ Answering < events
    /\ chat.status # "bot"
    /\ events' = events - 1
    /\ UNCHANGED <<chat, lineStored, task, announced, closedAloud, requests, faults>>

ComposeAiReply(r) ==
    /\ Idle(r) /\ Answering < events
    /\ chat.status = "bot"
    /\ task' = [task EXCEPT ![r] = [NoTask EXCEPT !.op = "answer", !.step = "first"]]
    /\ UNCHANGED <<chat, lineStored, events, announced, closedAloud, requests, faults>>

\* The model asks for a colleague: the tool reads the channel again.
RequestHumanAgentTool(r) ==
    /\ Doing(r, "answer", "first")
    /\ chat.status = "bot"
    /\ task' = [task EXCEPT ![r].op = "handoff"]
    /\ UNCHANGED <<chat, lineStored, events, announced, closedAloud, requests, faults>>

\* The reply is stored without another look at the channel.  A failure after that
\* leaves the event to be delivered again.
DeliverAiReply(r) ==
    /\ Doing(r, "answer", "first") \/ Doing(r, "answer", "second")
    /\ \/ events' = events - 1 /\ UNCHANGED faults
       \/ UNCHANGED events /\ faults < FaultBudget /\ faults' = faults + 1
    /\ Finish(r)
    /\ UNCHANGED <<chat, lineStored, announced, closedAloud, requests>>

-----------------------------------------------------------------------------

\* The steps that carry on with what was begun.
Proceed(x) ==
    \/ x \in Tab /\ \/ SendPublicChatMessage(x)
                    \/ DispatchAiChannelMessage(x)
                    \/ VisitorCloses(x)
                    \/ LoadMessages(x)
    \/ EraseMessages(x) \/ EraseChannel(x)
    \/ RequestHumanHandoff(x) \/ Acknowledge(x) \/ NotifyAgents(x)
    \/ x \in Agent /\ \/ AssignAgentToPublicChat(x) \/ TellVisitor(x)
                      \/ ReleasePublicChatToBot(x) \/ LeaveReleased(x)
                      \/ PostClosingLine(x) \/ ClosePublicChatByAgent(x) \/ LeaveClosed(x)
    \/ x \in Responder /\ (SkipAnswer(x) \/ ComposeAiReply(x) \/ DeliverAiReply(x))

Next ==
    \/ \E t \in Tab : ResolveVisitorSession(t)
    \/ \E s \in Sweeper : FindStale(s)
    \/ \E a \in Agent : RequirePublicChat(a)
    \/ \E r \in Responder : RequestHumanAgentTool(r)
    \/ \E x \in Actor : Proceed(x)

Spec == Init /\ [][Next]_vars

\* A handler that was begun goes on, and the assistant's queue is consumed.
FairSpec == Spec /\ \A x \in Actor : WF_vars(Proceed(x))

-----------------------------------------------------------------------------
(* Properties.                                                             *)

TypeOK ==
    /\ chat \in [status : Status \union {"erased"}, assignedTo : Agent \union {NoAgent},
                 users : SUBSET Agent]
    /\ lineStored \in BOOLEAN
    /\ task \in [Actor -> [op : Op, step : Step, saw : Status \union {"erased"}, aloud : BOOLEAN]]
    /\ events \in 0..MaxRequests
    /\ announced \in BOOLEAN /\ closedAloud \in BOOLEAN
    /\ requests \in 0..MaxRequests /\ faults \in 0..FaultBudget

\* Whatever the requests of several agents and of the visitor do to each other, a chat
\* that is with an agent has an assignee, and one that is with the bot, closed or gone
\* has none: an assignee left behind would keep every other agent out (join refuses).
AssigneeMatchesStatus ==
    /\ chat.status = "human" => chat.assignedTo # NoAgent
    /\ chat.status \in {"bot", "closed", "erased"} => chat.assignedTo = NoAgent

\* The assignee is a member of the channel, and so finds the chat in the inbox: release
\* and close give the chat up in one write and leave the channel in a later one, with
\* joins of others in between.
AssigneeIsMember == chat.assignedTo # NoAgent => chat.assignedTo \in chat.users

\* Assignee, status and membership of a conversation agree.
Assigned == TypeOK /\ AssigneeMatchesStatus /\ AssigneeIsMember

\* "the same poll/socket wake that learns the chat is closed also carries the closing
\* line": from the moment a poll has read that an agent closed the chat, the messages it
\* goes on to load include the line, if that could be stored and nothing erases them.
PollCarriesClosingLine ==
    \A t \in Tab :
        Doing(t, "poll", "first") /\ task[t].saw = "closed" /\ task[t].aloud
        /\ ~Erased /\ (\A x \in Actor : task[x].op # "erase")
            => lineStored

\* An escalation is announced to the agents even if the visitor's acknowledgement cannot
\* be stored, unless the chat moves on before.
EscalationAnnounced ==
    chat.status = "requested_human" /\ ~announced
        ~> announced \/ chat.status # "requested_human"

=============================================================================
