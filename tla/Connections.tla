---------------------------- MODULE Connections -----------------------------
(***************************************************************************)
(* The connections of a server process that come back by themselves: the   *)
(* WebSocket client, Redis and Kafka, and the poll for Telegram's updates  *)
(* in several processes.  They share no state, and closeConnections ends   *)
(* them one after the other whatever became of the one before, so it is    *)
(* enough to watch them one at a time: `focus` says which one moves in a   *)
(* behaviour.  The names of its specification begin with Link.             *)
(***************************************************************************)
EXTENDS Naturals, FiniteSets

CONSTANTS Socket, Silence, Poller,
          Troubles      \* bound: what may go wrong with a connection

ASSUME SocketAssumption ==
    Socket # {} /\ Socket \subseteq Nat \ {0} /\ {Silence, Troubles} \subseteq Nat

VARIABLES focus, trouble,
          socket, timer, silent, deaf, local, wsConnected, wsConnecting, wsReconnecting,
          wsClosing, retries, wsServer,
          client, created, redisConnected, firstConnection, redisConnecting, redisReconnecting,
          redisClosing, waiting, redisServer,
          producer, kafkaConnected, kafkaClosing, connect, reconnect, probe, interval, admin,
          disconnect, kafkaServer,
          pollerLock, isLeader, pollerDisabled, polled, supervisor, launch, releasing,
          stray, lapsed

WebSocket == INSTANCE SocketClient
    WITH isConnected <- wsConnected, connectInProgress <- wsConnecting,
         reconnectInProgress <- wsReconnecting, shuttingDown <- wsClosing, server <- wsServer

Redis == INSTANCE RedisClient
    WITH isConnected <- redisConnected, connectInProgress <- redisConnecting,
         reconnectInProgress <- redisReconnecting, shuttingDown <- redisClosing,
         server <- redisServer

Kafka == INSTANCE KafkaClient
    WITH isConnected <- kafkaConnected, shuttingDown <- kafkaClosing, server <- kafkaServer

Telegram == INSTANCE TelegramPoller WITH isConnected <- polled

ASSUME PollerAssumption == {Telegram!Nobody, Telegram!Gone} \cap Poller = {}

wsVars == <<socket, timer, silent, deaf, local, wsConnected, wsConnecting, wsReconnecting,
            wsClosing, retries, wsServer>>
redisVars == <<client, created, redisConnected, firstConnection, redisConnecting,
               redisReconnecting, redisClosing, waiting, redisServer>>
kafkaVars == <<producer, kafkaConnected, kafkaClosing, connect, reconnect, probe, interval,
               admin, disconnect, kafkaServer>>
telegramVars == <<pollerLock, isLeader, pollerDisabled, polled, supervisor, launch,
                  releasing, stray, lapsed>>
linkVars == <<focus, trouble, wsVars, redisVars, kafkaVars, telegramVars>>

\* A connection that is not watched has been closed.
WebSocketRests ==
    /\ socket = [s \in Socket |-> "none"] /\ silent = [s \in Socket |-> 0]
    /\ timer = {} /\ deaf = {} /\ local = WebSocket!NoSocket /\ retries = 0
    /\ wsConnected = FALSE /\ wsConnecting = FALSE /\ wsReconnecting = FALSE
    /\ wsClosing = TRUE /\ wsServer = TRUE

RedisRests ==
    /\ client = "closed" /\ created = FALSE /\ waiting = "nothing"
    /\ redisConnected = FALSE /\ firstConnection = FALSE
    /\ redisConnecting = FALSE /\ redisReconnecting = FALSE
    /\ redisClosing = TRUE /\ redisServer = TRUE

KafkaRests ==
    /\ producer = FALSE /\ kafkaConnected = FALSE /\ interval = FALSE /\ admin = FALSE
    /\ connect = "none" /\ reconnect = "none" /\ probe = "none" /\ disconnect = "done"
    /\ kafkaClosing = TRUE /\ kafkaServer = TRUE

TelegramRests ==
    /\ pollerLock = Telegram!Nobody
    /\ isLeader = Telegram!Nowhere /\ polled = Telegram!Nowhere
    /\ releasing = Telegram!Nowhere /\ stray = Telegram!Nowhere /\ lapsed = Telegram!Nowhere
    /\ pollerDisabled = [p \in Poller |-> TRUE]
    /\ supervisor = [p \in Poller |-> "gone"] /\ launch = [p \in Poller |-> "none"]

LinkInit ==
    /\ trouble = Troubles
    /\ \/ focus = "WebSocket" /\ WebSocket!Init /\ RedisRests /\ KafkaRests /\ TelegramRests
       \/ focus = "Redis" /\ Redis!Init /\ WebSocketRests /\ KafkaRests /\ TelegramRests
       \/ focus = "Kafka" /\ Kafka!Init /\ WebSocketRests /\ RedisRests /\ TelegramRests
       \/ focus = "Telegram" /\ Telegram!Init /\ WebSocketRests /\ RedisRests /\ KafkaRests

LinkNext ==
    /\ \/ focus = "WebSocket" /\ WebSocket!Next /\ UNCHANGED <<redisVars, kafkaVars, telegramVars>>
       \/ focus = "Redis" /\ Redis!Next /\ UNCHANGED <<wsVars, kafkaVars, telegramVars>>
       \/ focus = "Kafka" /\ Kafka!Next /\ UNCHANGED <<wsVars, redisVars, telegramVars>>
       \/ focus = "Telegram" /\ Telegram!Next /\ UNCHANGED <<wsVars, redisVars, kafkaVars>>
    /\ UNCHANGED focus

LinkSpec == LinkInit /\ [][LinkNext]_linkVars

\* In a connection that has been closed nothing of this is left to happen.
LinkFairness == WebSocket!Fairness /\ Redis!Fairness /\ Kafka!Fairness /\ Telegram!Fairness

LinkFairSpec == LinkSpec /\ LinkFairness

-----------------------------------------------------------------------------
(* What may be relied upon.                                                *)

\* Every part is in a state of its type.
LinkTypeOK == WebSocket!TypeOK /\ Redis!TypeOK /\ Kafka!TypeOK /\ Telegram!TypeOK

\* A process has one WebSocket connection: however many sockets the loop, the
\* supervisor and late "close" events have dealt with, at most one is open, on
\* its way to be, or waited for; and no socket that is gone keeps its timer.
OneLink ==
    LET Live == WebSocket!In("open") \cup WebSocket!In("connecting") IN
    /\ Cardinality(Live) + retries <= 1
    /\ timer \subseteq {local} \cup WebSocket!In("closing")
    /\ WebSocket!In("open") \subseteq {local}

\* What is reported: a process that says it is connected is, as far as its
\* client knows; and Redis is never connected without saying so.
Truthful ==
    /\ wsConnected => local # WebSocket!NoSocket
    /\ kafkaConnected => producer
    /\ created => redisConnected = (client = "ready")

\* A Kafka connection is always under supervision: either its supervisor or
\* its loop is at work, or the probe that would start them is scheduled.
Watched == ~kafkaClosing => interval \/ reconnect # "none"

\* Each connection is single, reported as it is, and watched; Telegram is polled
\* by the leader only.
Linked == LinkTypeOK /\ OneLink /\ Truthful /\ Watched /\ Telegram!OnlyLeaderPolls

\* The step in which connectWithRetry's producer.connect() resolves.
KafkaAttemptSucceeds == connect = "connecting" /\ connect' = "none"

\* Once disconnected, the process opens no connection any more: a timer of the time before
\* starts nothing, and neither does the outcome of an attempt under way, but for Kafka's.  Of
\* that one neither connectWithRetry nor reconnectWithRetry asks whether the process shuts
\* down: its success is reported and starts the probe's interval.  No attempt follows it.
StaysClosed ==
    [][/\ wsClosing => wsClosing' /\ WebSocket!In("connecting")' \subseteq WebSocket!In("connecting")
                       /\ WebSocket!In("open")' = {}
       /\ redisClosing => redisClosing' /\ (client' = "connecting" => client = "connecting")
                                        /\ client' # "ready"
       /\ kafkaClosing => /\ kafkaClosing' /\ (connect' = "connecting" => connect = "connecting")
                          /\ admin' => admin
                          /\ \/ KafkaAttemptSucceeds
                             \/ /\ producer' => producer
                                /\ kafkaConnected' => kafkaConnected
                                /\ interval' => interval]_linkVars

LinkUp ==
    CASE focus = "WebSocket" -> WebSocket!LinkUp
      [] focus = "Redis" -> Redis!LinkUp
      [] focus = "Kafka" -> Kafka!LinkUp
      [] focus = "Telegram" -> Telegram!LinkUp

Closing ==
    CASE focus = "WebSocket" -> wsClosing
      [] focus = "Redis" -> redisClosing
      [] focus = "Kafka" -> kafkaClosing
      [] focus = "Telegram" -> Telegram!Closing

\* When nothing goes wrong any more, a process that has not disconnected gets
\* its connection back, and keeps it; Telegram is polled by some process.
LinksReturn == <>[](Closing \/ LinkUp)

Quiet ==
    CASE focus = "WebSocket" -> WebSocket!Quiet
      [] focus = "Redis" -> Redis!Quiet
      [] focus = "Kafka" -> Kafka!Quiet
      [] focus = "Telegram" -> Telegram!Quiet

\* A disconnect comes to an end: no loop, supervisor, probe, timer or connection survives it.
\* The exception is the Kafka attempt that was under way and succeeds after all: the producer
\* and the probe's interval that it leaves behind are taken down by nobody.
ClosesDown ==
    /\ Closing ~> []Quiet
    /\ <>Kafka!LateSuccess \/ (kafkaClosing ~> []Kafka!Dismantled)

\* A connection settles: it is there, or nothing of it is.
Settles == LinksReturn /\ ClosesDown
=============================================================================
