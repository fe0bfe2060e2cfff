---------------------------- MODULE RedisClient -----------------------------
(***************************************************************************)
(* The Redis connection of a process: connectToRedis, the supervisor that  *)
(* brings a dropped connection back, and disconnectFromRedis, of           *)
(* connections/connectToRedis.ts.                                          *)
(*                                                                         *)
(* The client never reconnects by itself (reconnectStrategy: false): a     *)
(* drop, and a failed attempt to connect, close it and emit "error", some  *)
(* with "end" after them, in one go.                                       *)
(***************************************************************************)
EXTENDS Naturals

VARIABLES
    client,         \* the socket of the node-redis client: closed, connecting or ready
    created,        \* redisClient is set
    isConnected, firstConnection, connectInProgress, reconnectInProgress, shuttingDown,
    waiting,        \* what waits for CONNECTION_TIMER: nothing, the loop or the supervisor
    server,         \* Redis answers
    trouble         \* bound: what may still go wrong

vars == <<client, created, isConnected, firstConnection, connectInProgress,
          reconnectInProgress, shuttingDown, waiting, server, trouble>>

TypeOK ==
    /\ client \in {"closed", "connecting", "ready"}
    /\ {created, isConnected, firstConnection, connectInProgress, reconnectInProgress,
        shuttingDown, server} \subseteq BOOLEAN
    /\ waiting \in {"nothing", "loop", "supervisor"}
    /\ trouble \in Nat

Trouble == trouble > 0 /\ trouble' = trouble - 1

\* connectToRedis has set up the client and started connectWithRetry.
Init ==
    /\ client = "connecting" /\ created = TRUE
    /\ isConnected = FALSE /\ firstConnection = TRUE
    /\ connectInProgress = TRUE /\ reconnectInProgress = FALSE
    /\ shuttingDown = FALSE
    /\ waiting = "nothing"
    /\ server = TRUE

\* The end of connectWithRetry, and of the supervisor that awaits it, if any.
Settled == connectInProgress' = FALSE /\ reconnectInProgress' = FALSE

\* MUTANT: the supervisor that has connected stays in progress.
MutConnected ==
    /\ client = "connecting" /\ server
    /\ client' = IF created THEN "ready" ELSE "closed"
    /\ isConnected' = TRUE /\ firstConnection' = FALSE
    /\ connectInProgress' = FALSE
    /\ UNCHANGED <<created, reconnectInProgress, shuttingDown, waiting, server, trouble>>

\* connect() resolves.  A quit that was asked for meanwhile follows at once.
Connected ==
    /\ client = "connecting" /\ server
    /\ client' = IF created THEN "ready" ELSE "closed"
    /\ isConnected' = TRUE /\ firstConnection' = FALSE
    /\ Settled
    /\ UNCHANGED <<created, shuttingDown, waiting, server, trouble>>

ConnectFails ==
    /\ client = "connecting"
    /\ IF server THEN Trouble ELSE UNCHANGED trouble
    /\ client' = "closed"
    /\ waiting' = "loop"
    /\ UNCHANGED <<created, isConnected, firstConnection, connectInProgress,
                   reconnectInProgress, shuttingDown, server>>

\* The head of the loop of connectWithRetry.
Attempt ==
    IF shuttingDown THEN Settled /\ UNCHANGED client
    ELSE /\ client' = "connecting"
         /\ connectInProgress' = TRUE
         /\ UNCHANGED reconnectInProgress

\* The wait of the loop is over, or that of reconnectWithRetry.
WaitOver ==
    /\ waiting # "nothing"
    /\ waiting' = "nothing"
    /\ Attempt
    /\ UNCHANGED <<created, isConnected, firstConnection, shuttingDown, server, trouble>>

\* scheduleReconnectIfNeeded and reconnectWithRetry up to its wait.
Schedule ==
    IF firstConnection \/ shuttingDown \/ reconnectInProgress \/ connectInProgress
    THEN UNCHANGED <<isConnected, reconnectInProgress, waiting>>
    ELSE isConnected' = FALSE /\ reconnectInProgress' = TRUE /\ waiting' = "supervisor"

\* The connection drops: "error" while the client is not ready, or "end".
Drop ==
    /\ client = "ready"
    /\ IF server THEN Trouble ELSE UNCHANGED trouble
    /\ client' = "closed"
    /\ Schedule
    /\ UNCHANGED <<created, firstConnection, connectInProgress, shuttingDown, server>>

\* disconnectFromRedis: the "end" of the quit finds shuttingDown set.
Disconnect ==
    /\ ~shuttingDown
    /\ shuttingDown' = TRUE /\ isConnected' = FALSE /\ created' = FALSE
    /\ client' = IF client = "ready" THEN "closed" ELSE client
    /\ UNCHANGED <<firstConnection, connectInProgress, reconnectInProgress, waiting, server, trouble>>

ServerDown ==
    /\ server /\ Trouble
    /\ server' = FALSE
    /\ UNCHANGED <<client, created, isConnected, firstConnection, connectInProgress,
                   reconnectInProgress, shuttingDown, waiting>>

ServerUp ==
    /\ ~server
    /\ server' = TRUE
    /\ UNCHANGED <<client, created, isConnected, firstConnection, connectInProgress,
                   reconnectInProgress, shuttingDown, waiting, trouble>>

Next == Connected \/ ConnectFails \/ WaitOver \/ Drop \/ Disconnect \/ ServerDown \/ ServerUp

Fairness ==
    /\ WF_vars(Connected \/ (~server /\ ConnectFails))
    /\ WF_vars(WaitOver) /\ WF_vars(ServerUp)

-----------------------------------------------------------------------------

\* isRedisConnected
IsRedisConnected == isConnected /\ created

LinkUp == IsRedisConnected /\ client = "ready"

Quiet == client = "closed" /\ waiting = "nothing" /\ ~connectInProgress /\ ~reconnectInProgress
=============================================================================
