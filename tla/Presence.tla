------------------------------ MODULE Presence ------------------------------
(***************************************************************************)
(* The WebSocket server: which connections a user has, who is shown as     *)
(* online, which rooms a connection is in, and how a connection ends.      *)
(*                                                                         *)
(* The maps of the server live in one process whose callbacks run one at a *)
(* time; what crosses an await are the check of a session, the check of a  *)
(* room's permission, the close of a connection that waits for its room    *)
(* operations, and the writes of the online flag, which nobody waits for.  *)
(* Timers have no clock: one that is set fires at some time.               *)
(***************************************************************************)
EXTENDS Naturals, Sequences, FiniteSets

CONSTANTS
    Conn,           \* the connection attempts of users, numbered in the order they are made
    User,
    UserOf,         \* [Conn -> User]; the connections of a user share a session
    Room,
    MaxRooms,       \* MAX_ROOMS_PER_CONNECTION
    Budgets         \* how much of each kind of event one behaviour may hold: connection
                    \* attempts, JOIN and LEAVE frames, stops and crashes of the server, online writes that
                    \* fail and pushes that are lost, revocations

ASSUME ConnAssumption == Conn \subseteq Nat /\ UserOf \in [Conn -> User]
ASSUME BoundsAssumption ==
    MaxRooms \in Nat /\ Budgets \subseteq [conns : Nat, ops : Nat, stops : Nat, faults : Nat, revocations : Nat]

VARIABLES
    server,     \* down, up, or stopping: closing its connections before it exits
    conn,       \* the phase of each connection
    peer,       \* connections whose client is still there
    alive,      \* connections that answered the latest ping
    expired,    \* connections whose token or session has expired
    entry,      \* users with an entry in userSockets
    sockets,    \* userSockets: the connections in each entry
    timer,      \* pendingDisconnects
    online,     \* the online flag of each user, in the database
    writes,     \* writes of the flag that are under way
    raced,      \* users of whom two writes overlapped, or one failed
    queue,      \* the room operations of each connection
    rooms,      \* the rooms each connection is in
    holds,      \* the rooms its client holds, by what it asked and was answered
    revoked,    \* users whose session is revoked
    revoking,   \* users of whom the transaction that revokes it has yet to commit
    push,       \* revocations on their way to this server
    budget

presence == <<entry, sockets, timer>>
flags == <<online, writes, raced>>
roomVars == <<queue, rooms, holds>>
session == <<revoked, revoking, push>>
vars == <<server, conn, peer, alive, expired, presence, flags, roomVars, session, budget>>

Phase == {"new", "validated", "open", "closing", "leaving", "gone"}
Operation == [op : {"join", "leave"}, room : Room, checking : BOOLEAN]

Init ==
    /\ server = "up"
    /\ conn = [c \in Conn |-> "new"]
    /\ peer = Conn /\ alive = {} /\ expired = {}
    /\ entry = {} /\ sockets = [u \in User |-> {}] /\ timer = {}
    /\ online = [u \in User |-> FALSE] /\ writes = [u \in User |-> {}] /\ raced = {}
    /\ queue = [c \in Conn |-> <<>>]
    /\ rooms = [c \in Conn |-> {}] /\ holds = [c \in Conn |-> {}]
    /\ revoked = {} /\ revoking = {} /\ push = {}
    /\ budget \in Budgets

\* One more event of a kind.
Spend(kind) == budget[kind] > 0 /\ budget' = [budget EXCEPT ![kind] = @ - 1]

Running == server \in {"up", "stopping"}
Enter(c, phase) == conn' = [conn EXCEPT ![c] = phase]

-----------------------------------------------------------------------------
(* The online flag.                                                        *)

\* MUTANT: the flag is raised whatever was asked.
MutIssueWrite(u, value) ==
    /\ writes' = [writes EXCEPT ![u] = @ \union {TRUE}]
    /\ raced' = IF writes[u] = {} THEN raced ELSE raced \union {u}
    /\ UNCHANGED online

\* void updateOnlineStatus(...): issued, not awaited.
IssueWrite(u, value) ==
    /\ writes' = [writes EXCEPT ![u] = @ \union {value}]
    /\ raced' = IF writes[u] = {} THEN raced ELSE raced \union {u}
    /\ UNCHANGED online

UpdateOnlineStatus(u, value) ==
    /\ value \in writes[u]
    /\ writes' = [writes EXCEPT ![u] = @ \ {value}]
    /\ \/ online' = [online EXCEPT ![u] = value] /\ UNCHANGED <<raced, budget>>
       \/ /\ Spend("faults")
          /\ raced' = raced \union {u} /\ UNCHANGED online
    /\ UNCHANGED <<server, conn, peer, alive, expired, presence, roomVars, session>>

-----------------------------------------------------------------------------
(* Connecting.                                                             *)

\* authenticateUpgrade has read the session: refused if it was revoked.
AuthenticateUpgrade(c) ==
    /\ server = "up" /\ Spend("conns")
    /\ conn[c] = "new" /\ \A d \in Conn : conn[d] = "new" => c <= d
    /\ Enter(c, IF UserOf[c] \in revoked THEN "gone" ELSE "validated")
    /\ UNCHANGED <<server, peer, alive, expired, presence, flags, roomVars, session>>

\* The client left while it was authenticated.
LeaveUnregistered(c) ==
    /\ conn[c] = "validated" /\ c \notin peer
    /\ Enter(c, "gone")
    /\ UNCHANGED <<server, peer, alive, expired, presence, flags, roomVars, session, budget>>

SetupUserConnection(c) ==
    LET u == UserOf[c]
    IN /\ Running /\ conn[c] = "validated" /\ c \in peer
       /\ Enter(c, "open")
       /\ alive' = alive \union {c}
       /\ timer' = timer \ {u}
       /\ entry' = entry \union {u}
       /\ sockets' = [sockets EXCEPT ![u] = @ \union {c}]
       /\ IF u \in entry THEN UNCHANGED flags ELSE IssueWrite(u, TRUE)
       /\ UNCHANGED <<server, peer, expired, roomVars, session, budget>>

-----------------------------------------------------------------------------
(* Rooms.  Operations of one connection run one at a time.                 *)

\* MUTANT: operations are not queued.
MutTurn(c, i) == TRUE

\* The operation at place i may run: queueRoomOperation chains each to the one before.
Turn(c, i) == i = 1

Without(s, i) == SubSeq(s, 1, i - 1) \o SubSeq(s, i + 1, Len(s))

\* Does a later frame of the client ask for the same room?
AsksAgain(c, i) ==
    \E k \in i + 1 .. Len(queue[c]) : queue[c][k].op = "join" /\ queue[c][k].room = queue[c][i].room

\* The client is told that the room was refused.
RefuseRoom(c, i) ==
    holds' = IF AsksAgain(c, i) THEN holds
             ELSE [holds EXCEPT ![c] = @ \ {queue[c][i].room}]

OnUserMessage(c) ==
    /\ conn[c] \in {"open", "closing"} /\ c \in peer
    /\ Spend("ops")
    /\ \E o \in {"join", "leave"}, r \in Room :
          /\ queue' = [queue EXCEPT ![c] = Append(@, [op |-> o, room |-> r, checking |-> FALSE])]
          /\ holds' = [holds EXCEPT ![c] = IF o = "join" THEN @ \union {r} ELSE @ \ {r}]
    /\ UNCHANGED <<server, conn, peer, alive, expired, presence, flags, rooms, session>>

\* A JOIN passes the checks it can make at once and waits for canJoinRoom, or ends here.
StartOperation(c, i) ==
    LET o == queue[c][i]
        settled == o.op = "leave" \/ o.room \in rooms[c]
        full == Cardinality(rooms[c]) >= MaxRooms
    IN /\ Turn(c, i) /\ ~o.checking
       /\ queue' = [queue EXCEPT ![c] = IF settled \/ full THEN Without(@, i)
                                        ELSE [@ EXCEPT ![i].checking = TRUE]]
       /\ rooms' = [rooms EXCEPT ![c] = IF o.op = "leave" THEN @ \ {o.room} ELSE @]
       /\ IF ~settled /\ full THEN RefuseRoom(c, i) ELSE UNCHANGED holds
       /\ UNCHANGED <<server, conn, peer, alive, expired, presence, flags, session, budget>>

FinishJoin(c, i) ==
    /\ queue[c][i].checking
    /\ \/ rooms' = [rooms EXCEPT ![c] = @ \union {queue[c][i].room}] /\ UNCHANGED holds
       \/ RefuseRoom(c, i) /\ UNCHANGED rooms
    /\ queue' = [queue EXCEPT ![c] = Without(@, i)]
    /\ UNCHANGED <<server, conn, peer, alive, expired, presence, flags, session, budget>>

-----------------------------------------------------------------------------
(* Closing.                                                                *)

\* The client goes: with a close frame, or without a word.
ClientCloses(c) ==
    /\ c \in peer /\ conn[c] \in {"validated", "open", "closing"}
    /\ peer' = peer \ {c}
    /\ \/ UNCHANGED conn
       \/ conn[c] = "open" /\ Enter(c, "closing")
    /\ UNCHANGED <<server, alive, expired, presence, flags, roomVars, session, budget>>

\* The close event: from here on the connection delivers no more frames.
CloseEvent(c) ==
    /\ conn[c] = "closing"
    /\ Enter(c, "leaving")
    /\ UNCHANGED <<server, peer, alive, expired, presence, flags, roomVars, session, budget>>

\* MUTANT: the close does not wait for the operations.
MutRoomsSettled(c) == TRUE

\* await ws.roomOperations
RoomsSettled(c) == queue[c] = <<>>

OnUserConnectionClose(c) ==
    LET u == UserOf[c]
    IN /\ conn[c] = "leaving" /\ RoomsSettled(c)
       /\ Enter(c, "gone") /\ peer' = peer \ {c} /\ alive' = alive \ {c} /\ expired' = expired \ {c}
       /\ rooms' = [rooms EXCEPT ![c] = {}] /\ holds' = [holds EXCEPT ![c] = {}]
       /\ sockets' = [sockets EXCEPT ![u] = @ \ {c}]
       /\ timer' = IF u \in entry /\ sockets'[u] = {} THEN timer \union {u} ELSE timer
       /\ UNCHANGED <<server, entry, flags, queue, session, budget>>

\* The grace has passed.
GraceEnds(u) ==
    /\ u \in timer
    /\ timer' = timer \ {u}
    /\ IF sockets[u] # {} THEN UNCHANGED <<entry, flags>>
       ELSE entry' = entry \ {u} /\ IssueWrite(u, FALSE)
    /\ UNCHANGED <<server, conn, peer, alive, expired, sockets, roomVars, session, budget>>

\* sweepConnections: close the expired, terminate the silent, ping the others.
Overdue(c) == c \in expired \/ c \notin alive

SweepConnections ==
    /\ server = "up"
    /\ conn' = [c \in Conn |-> IF conn[c] = "open" /\ Overdue(c) THEN "closing" ELSE conn[c]]
    /\ alive' = {c \in alive : conn[c] # "open" \/ c \in expired}
    /\ UNCHANGED <<server, peer, expired, presence, flags, roomVars, session, budget>>

Pong(c) ==
    /\ conn[c] = "open" /\ c \in peer
    /\ alive' = alive \union {c}
    /\ UNCHANGED <<server, conn, peer, expired, presence, flags, roomVars, session, budget>>

Expire(c) ==
    /\ conn[c] = "open"
    /\ expired' = expired \union {c}
    /\ UNCHANGED <<server, conn, peer, alive, presence, flags, roomVars, session, budget>>

-----------------------------------------------------------------------------
(* Revocation of a session: pushed and stored by the API server.           *)

\* The push is sent while the transaction is still open.
RevokeSession(u) ==
    /\ u \notin revoked \union revoking /\ Spend("revocations")
    /\ revoking' = revoking \union {u} /\ push' = push \union {u}
    /\ UNCHANGED <<server, conn, peer, alive, expired, presence, flags, roomVars, revoked>>

CommitRevocation(u) ==
    /\ u \in revoking
    /\ revoking' = revoking \ {u} /\ revoked' = revoked \union {u}
    /\ UNCHANGED <<server, conn, peer, alive, expired, presence, flags, roomVars, push, budget>>

CloseRevokedSession(u) ==
    /\ Running /\ u \in push
    /\ push' = push \ {u}
    /\ conn' = [c \in Conn |-> IF c \in sockets[u] /\ conn[c] = "open" THEN "closing" ELSE conn[c]]
    /\ UNCHANGED <<server, peer, alive, expired, presence, flags, roomVars, revoked, revoking, budget>>

LosePush(u) ==
    /\ u \in push
    /\ push' = push \ {u}
    /\ Spend("faults")
    /\ UNCHANGED <<server, conn, peer, alive, expired, presence, flags, roomVars, revoked, revoking>>

-----------------------------------------------------------------------------
(* Stops, crashes and restarts.                                            *)

StopWebSocketServer ==
    /\ server = "up" /\ budget.stops > 0
    /\ server' = "stopping"
    /\ timer' = {}
    /\ conn' = [c \in Conn |-> IF conn[c] = "open" THEN "closing" ELSE conn[c]]
    /\ UNCHANGED <<peer, alive, expired, entry, sockets, flags, roomVars, session, budget>>

\* The process is gone, and with it all its memory; what it was writing may have been
\* stored or not.
Exit ==
    /\ Running
    /\ server' = "down" /\ Spend("stops")
    /\ conn' = [c \in Conn |-> IF conn[c] = "new" THEN "new" ELSE "gone"]
    /\ peer' = {c \in peer : conn[c] = "new"} /\ alive' = {} /\ expired' = {}
    /\ entry' = {} /\ sockets' = [u \in User |-> {}] /\ timer' = {}
    /\ writes' = [u \in User |-> {}]
    /\ queue' = [c \in Conn |-> <<>>]
    /\ rooms' = [c \in Conn |-> {}] /\ holds' = [c \in Conn |-> {}]
    /\ UNCHANGED <<online, raced, session>>

\* MUTANT: the flags of the previous process are kept.
MutRestart ==
    /\ server = "down"
    /\ server' = "up"
    /\ UNCHANGED <<conn, peer, alive, expired, presence, flags, roomVars, session, budget>>

\* Every flag is lowered before the server listens.
Restart ==
    /\ server = "down"
    /\ server' = "up"
    /\ online' = [u \in User |-> FALSE] /\ raced' = {}
    /\ UNCHANGED <<conn, peer, alive, expired, presence, writes, roomVars, session, budget>>

-----------------------------------------------------------------------------

\* What the server does of itself, each with its connection or user.
ServeConn(c) ==
    \/ LeaveUnregistered(c) \/ SetupUserConnection(c)
    \/ \E i \in 1 .. Len(queue[c]) : StartOperation(c, i) \/ FinishJoin(c, i)
    \/ CloseEvent(c) \/ OnUserConnectionClose(c)

ServeUser(u) ==
    \/ \E value \in BOOLEAN : UpdateOnlineStatus(u, value)
    \/ GraceEnds(u)

Next ==
    \/ \E c \in Conn : \/ AuthenticateUpgrade(c) \/ ServeConn(c)
                       \/ OnUserMessage(c) \/ ClientCloses(c) \/ Pong(c) \/ Expire(c)
    \/ \E u \in User : \/ ServeUser(u) \/ RevokeSession(u) \/ CommitRevocation(u)
                       \/ CloseRevokedSession(u) \/ LosePush(u)
    \/ SweepConnections \/ StopWebSocketServer \/ Exit \/ Restart

Spec == Init /\ [][Next]_vars

\* The event loop runs its callbacks and timers, a stop that takes too long is cut short,
\* a process that is down is started again, and every token expires in the end.
FairSpec ==
    /\ Spec
    /\ \A c \in Conn : WF_vars(ServeConn(c)) /\ WF_vars(Expire(c))
    /\ \A u \in User : WF_vars(ServeUser(u))
    /\ WF_vars(SweepConnections)
    /\ WF_vars(server = "stopping" /\ Exit) /\ WF_vars(Restart)

-----------------------------------------------------------------------------
(* Properties.                                                             *)

TypeOK ==
    /\ server \in {"down", "up", "stopping"}
    /\ conn \in [Conn -> Phase]
    /\ peer \subseteq Conn /\ alive \subseteq Conn /\ expired \subseteq Conn
    /\ entry \subseteq User /\ timer \subseteq User /\ sockets \in [User -> SUBSET Conn]
    /\ online \in [User -> BOOLEAN] /\ writes \in [User -> SUBSET BOOLEAN] /\ raced \subseteq User
    /\ \A c \in Conn : \A i \in 1 .. Len(queue[c]) : queue[c][i] \in Operation
    /\ rooms \in [Conn -> SUBSET Room] /\ holds \in [Conn -> SUBSET Room]
    /\ revoked \subseteq User /\ revoking \subseteq User /\ push \subseteq User
    /\ budget \in [{"conns", "ops", "stops", "faults", "revocations"} -> Nat]

\* The connections a user is reached through are exactly the ones that were set up and
\* have not finished closing, and a connection that is gone is in no room: nothing is
\* sent to a connection that is over, and none is left out.
SocketsFollowConnections ==
    Running =>
        /\ \A u \in User : sockets[u] = {c \in Conn : /\ UserOf[c] = u
                                                       /\ conn[c] \in {"open", "closing", "leaving"}}
        /\ \A c \in Conn : conn[c] = "gone" => rooms[c] = {}

\* A user without a connection counts as connected only while the grace timer runs: an
\* entry that lost its timer would keep the user online for good.
GraceIsTimed ==
    server = "up" => \A u \in entry : sockets[u] # {} \/ u \in timer

\* The maps of the server stay true to its connections.
Registered == TypeOK /\ SocketsFollowConnections /\ GraceIsTimed

\* Once no write of the flag is under way, and if no two of a user overlapped and none
\* failed, the database shows as online exactly the users the server counts as connected,
\* through any refreshes, crashes and restarts.
PresenceFollows ==
    server = "up" => \A u \in User \ raced :
        writes[u] = {} => (online[u] <=> u \in entry)

\* A connection is in no more rooms than it may be, though the room is counted before the
\* permission is checked and entered after.
RoomsBounded == \A c \in Conn : Cardinality(rooms[c]) <= MaxRooms

\* When its operations are through, a connection is in the rooms its client holds: a quick
\* leave-and-rejoin never leaves it out.
RoomsAsHeld ==
    \A c \in Conn : conn[c] = "open" /\ queue[c] = <<>> => rooms[c] = holds[c]

\* The rooms of a connection are those it should be in, and no more than it may be in.
RoomsFollow == RoomsBounded /\ RoomsAsHeld

\* A connection whose session is revoked, or whose client has vanished, does not stay open:
\* even if the push is lost, or came between the check of the session and the set-up.
ConnectionsEnd ==
    \A c \in Conn : (conn[c] = "open" /\ (UserOf[c] \in revoked \/ c \notin peer)) ~> conn[c] # "open"

\* A user who leaves is shown as offline in the end, or comes back.
LeavingShows ==
    \A u \in User : (u \in entry /\ sockets[u] = {}) ~> (~online[u] \/ sockets[u] # {} \/ u \in raced)

\* What should end does, and is seen to.
Settles == ConnectionsEnd /\ LeavingShows
=============================================================================
