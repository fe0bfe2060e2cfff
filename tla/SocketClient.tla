---------------------------- MODULE SocketClient ----------------------------
(***************************************************************************)
(* The machine-to-machine WebSocket client of a server process:            *)
(* connections/connectToWebSocketServer.ts.  One loop opens sockets until  *)
(* one is open, the handlers of a socket that is lost start a supervisor   *)
(* that calls connect again, a keep-alive timer terminates a socket whose  *)
(* peer has fallen silent, and a disconnect ends it all.                   *)
(*                                                                         *)
(* A step runs from one event or timer to the next await.  What `ws` does  *)
(* is external: the outcome of a handshake, an error of an open socket,    *)
(* and the "close" event, which may come long after the socket was given   *)
(* up, when its successor is open already.                                 *)
(***************************************************************************)
EXTENDS Naturals, FiniteSets

CONSTANTS
    Socket,     \* the WebSocket objects; one whose "close" has come is used again
    Silence     \* MISSED_PONGS_BEFORE_TERMINATE

VARIABLES
    socket,         \* per socket: none, connecting, open, closing, or closing without handlers
    timer,          \* the sockets whose keepAliveInterval is set
    silent,         \* per socket: firings of that timer since lastPongAt
    deaf,           \* the open sockets whose peer is gone without a notice
    local,          \* WebSocketServerLocal
    isConnected, connectInProgress, reconnectInProgress, shuttingDown,
    retries,        \* establishConnectionLoops that wait for their next attempt
    server,         \* the WebSocket server is up
    trouble         \* bound: what may still go wrong

vars == <<socket, timer, silent, deaf, local, isConnected, connectInProgress,
          reconnectInProgress, shuttingDown, retries, server, trouble>>

NoSocket == 0

In(state) == {s \in Socket : socket[s] = state}

TypeOK ==
    /\ socket \in [Socket -> {"none", "connecting", "open", "closing", "dropped"}]
    /\ timer \subseteq Socket /\ deaf \subseteq In("open")
    /\ silent \in [Socket -> 0..Silence]
    /\ local \in Socket \cup {NoSocket}
    /\ {isConnected, connectInProgress, reconnectInProgress, shuttingDown, server} \subseteq BOOLEAN
    /\ {retries, trouble} \subseteq Nat

Trouble == trouble > 0 /\ trouble' = trouble - 1

-----------------------------------------------------------------------------
(* connectToWebSocketServer, and the loop it starts.                       *)

\* createSocketAndWaitForOpen, up to the handshake.
OpenSocket == \E s \in In("none") : socket' = [socket EXCEPT ![s] = "connecting"]

\* MUTANT: a connection attempt in progress is not looked at.
MutConnect ==
    IF local # NoSocket /\ socket[local] = "open"
    THEN UNCHANGED <<socket, connectInProgress>>
    ELSE OpenSocket /\ connectInProgress' = TRUE

Connect ==
    IF connectInProgress \/ (local # NoSocket /\ socket[local] = "open")
    THEN UNCHANGED <<socket, connectInProgress>>
    ELSE OpenSocket /\ connectInProgress' = TRUE

\* The first call, by the start-up of the server process.
Init ==
    /\ \E first \in Socket : socket = [s \in Socket |-> IF s = first THEN "connecting" ELSE "none"]
    /\ timer = {} /\ deaf = {}
    /\ silent = [s \in Socket |-> 0]
    /\ local = NoSocket
    /\ isConnected = FALSE /\ connectInProgress = TRUE
    /\ reconnectInProgress = FALSE /\ shuttingDown = FALSE
    /\ retries = 0
    /\ server = TRUE

\* The handshake succeeds: the socket gets its handlers and its timer, unless
\* the process has disconnected meanwhile.
Opened(s) ==
    /\ socket[s] = "connecting" /\ server
    /\ connectInProgress' = FALSE
    /\ \/ /\ shuttingDown
          /\ socket' = [socket EXCEPT ![s] = "dropped"]
          /\ UNCHANGED <<timer, silent, local, isConnected>>
       \/ /\ ~shuttingDown
          /\ socket' = [socket EXCEPT ![s] = "open"]
          /\ timer' = timer \cup {s}
          /\ silent' = [silent EXCEPT ![s] = 0]
          /\ local' = s
          /\ isConnected' = TRUE
    /\ UNCHANGED <<deaf, reconnectInProgress, shuttingDown, retries, server, trouble>>

\* The handshake fails: the loop waits for RETRY_TIMER...
Refused(s) ==
    /\ socket[s] = "connecting"
    /\ IF server THEN Trouble ELSE UNCHANGED trouble
    /\ socket' = [socket EXCEPT ![s] = "none"]
    /\ retries' = retries + 1
    /\ UNCHANGED <<timer, silent, deaf, local, isConnected, connectInProgress,
                   reconnectInProgress, shuttingDown, server>>

\* MUTANT: the loop does not look at shuttingDown again after its wait.
MutRetry ==
    /\ retries > 0
    /\ retries' = retries - 1
    /\ OpenSocket /\ UNCHANGED connectInProgress
    /\ UNCHANGED <<timer, silent, deaf, local, isConnected, reconnectInProgress,
                   shuttingDown, server, trouble>>

\* ... and tries again, or ends.
Retry ==
    /\ retries > 0
    /\ retries' = retries - 1
    /\ \/ shuttingDown /\ connectInProgress' = FALSE /\ UNCHANGED socket
       \/ ~shuttingDown /\ OpenSocket /\ UNCHANGED connectInProgress
    /\ UNCHANGED <<timer, silent, deaf, local, isConnected, reconnectInProgress,
                   shuttingDown, server, trouble>>

-----------------------------------------------------------------------------
(* The handlers of a socket that has been open.                            *)

\* What every handler does to a socket that is lost.
GiveUp(s) ==
    /\ timer' = timer \ {s}
    /\ local' = IF local = s THEN NoSocket ELSE local
    /\ isConnected' = FALSE

\* reconnectWithRetry up to its wait.
Supervise == reconnectInProgress' = (reconnectInProgress \/ ~shuttingDown)

\* "error": `ws` has begun to close the socket, or leaves that to the handler,
\* which then starts no supervisor: the "close" to come will.  (No socket is
\* open in a process that shuts down.)
Failed(s) ==
    /\ socket[s] = "open" /\ Trouble
    /\ socket' = [socket EXCEPT ![s] = "closing"]
    /\ deaf' = deaf \ {s}
    /\ GiveUp(s)
    /\ Supervise \/ UNCHANGED reconnectInProgress
    /\ UNCHANGED <<silent, connectInProgress, shuttingDown, retries, server>>

\* "close", for a present socket or one given up long ago.
Closed(s) ==
    /\ socket[s] = "closing"
    /\ socket' = [socket EXCEPT ![s] = "none"]
    /\ GiveUp(s)
    /\ Supervise
    /\ UNCHANGED <<silent, deaf, connectInProgress, shuttingDown, retries, server, trouble>>

\* A socket that was closed before it got handlers.
Dropped(s) ==
    /\ socket[s] = "dropped"
    /\ socket' = [socket EXCEPT ![s] = "none"]
    /\ UNCHANGED <<timer, silent, deaf, local, isConnected, connectInProgress,
                   reconnectInProgress, shuttingDown, retries, server, trouble>>

\* The supervisor's wait is over: it calls connect and is done.
Reconnect ==
    /\ reconnectInProgress
    /\ reconnectInProgress' = FALSE
    /\ IF shuttingDown THEN UNCHANGED <<socket, connectInProgress>> ELSE Connect
    /\ UNCHANGED <<timer, silent, deaf, local, isConnected, shuttingDown, retries, server, trouble>>

\* The keep-alive timer: a ping, or the end of a socket that has been silent
\* too long.  A peer that is there answers in time.
KeepAlive(s) ==
    /\ s \in timer /\ socket[s] = "open"
    /\ \/ /\ silent[s] < Silence
          /\ silent' = [silent EXCEPT ![s] = @ + 1]
          /\ UNCHANGED <<socket, deaf>>
       \/ /\ silent[s] = Silence /\ s \in deaf
          /\ socket' = [socket EXCEPT ![s] = "closing"]
          /\ deaf' = deaf \ {s}
          /\ UNCHANGED silent
    /\ UNCHANGED <<timer, local, isConnected, connectInProgress, reconnectInProgress,
                   shuttingDown, retries, server, trouble>>

Pong(s) ==
    /\ socket[s] = "open" /\ s \notin deaf /\ silent[s] > 0
    /\ silent' = [silent EXCEPT ![s] = 0]
    /\ UNCHANGED <<socket, timer, deaf, local, isConnected, connectInProgress,
                   reconnectInProgress, shuttingDown, retries, server, trouble>>

\* disconnectFromWebSocketServer.
Disconnect ==
    /\ ~shuttingDown
    /\ shuttingDown' = TRUE
    /\ GiveUp(local)
    /\ socket' = [s \in Socket |-> IF s = local THEN "closing" ELSE socket[s]]
    /\ deaf' = deaf \ {local}
    /\ UNCHANGED <<silent, connectInProgress, reconnectInProgress, retries, server, trouble>>

-----------------------------------------------------------------------------
(* The other side.                                                         *)

\* The connection breaks; this side learns of it, or hears nothing any more.
Lose(s) ==
    /\ socket[s] = "open" /\ s \notin deaf /\ Trouble
    /\ \/ socket' = [socket EXCEPT ![s] = "closing"] /\ UNCHANGED deaf
       \/ deaf' = deaf \cup {s} /\ UNCHANGED socket
    /\ UNCHANGED <<timer, silent, local, isConnected, connectInProgress,
                   reconnectInProgress, shuttingDown, retries, server>>

\* The server goes away with its connections, which end at once or fall silent.
ServerDown ==
    /\ server /\ Trouble
    /\ server' = FALSE
    /\ \E mute \in SUBSET In("open") :
          /\ deaf' = deaf \cup mute
          /\ socket' = [s \in Socket |-> IF s \in In("open") \ (deaf \cup mute) THEN "closing"
                                         ELSE socket[s]]
    /\ UNCHANGED <<timer, silent, local, isConnected, connectInProgress,
                   reconnectInProgress, shuttingDown, retries>>

ServerUp ==
    /\ ~server
    /\ server' = TRUE
    /\ UNCHANGED <<socket, timer, silent, deaf, local, isConnected, connectInProgress,
                   reconnectInProgress, shuttingDown, retries, trouble>>

\* What happens by itself: handshakes end, timers fire, closing sockets close.
Step(s) == Opened(s) \/ Closed(s) \/ Dropped(s) \/ KeepAlive(s) \/ (~server /\ Refused(s))

Next ==
    \/ \E s \in Socket : Step(s) \/ Refused(s) \/ Failed(s) \/ Pong(s) \/ Lose(s)
    \/ Retry \/ Reconnect \/ Disconnect \/ ServerDown \/ ServerUp

Fairness ==
    /\ WF_vars(Retry) /\ WF_vars(Reconnect) /\ WF_vars(ServerUp)
    /\ \A s \in Socket : WF_vars(Step(s))

-----------------------------------------------------------------------------

\* The process is connected, to a peer that is there.
LinkUp == local # NoSocket /\ socket[local] = "open" /\ local \notin deaf

\* Nothing is left of the client.
Quiet == In("none") = Socket /\ timer = {} /\ ~connectInProgress /\ ~reconnectInProgress
=============================================================================
