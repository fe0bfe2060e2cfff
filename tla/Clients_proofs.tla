--------------------------- MODULE Clients_proofs ---------------------------
(***************************************************************************)
(* Safety of the clients by which a process reaches other systems, for any *)
(* number of sockets, pollers, calls and faults.                           *)
(*                                                                         *)
(* First the connections that come back by themselves (Connections): each *)
(* is single, reported as it is, watched, and stays closed once            *)
(* disconnected.  Each client has an invariant of its own; a step moves    *)
(* one client and leaves the others alone.                                 *)
(*                                                                         *)
(* Then the circuit breaker (CircuitBreaker), for every configuration: its *)
(* type invariant, the single trial of HALF_OPEN and the burst that        *)
(* opening takes.                                                          *)
(***************************************************************************)
EXTENDS CircuitBreaker, Connections, FiniteSetTheorems, TLAPS

-----------------------------------------------------------------------------
(* The Redis connection.                                                   *)

RedisTypes ==
    /\ client \in {"closed", "connecting", "ready"}
    /\ created \in BOOLEAN /\ redisConnected \in BOOLEAN /\ firstConnection \in BOOLEAN
    /\ redisConnecting \in BOOLEAN /\ redisReconnecting \in BOOLEAN
    /\ redisClosing \in BOOLEAN /\ redisServer \in BOOLEAN
    /\ waiting \in {"nothing", "loop", "supervisor"}

\* A client that is connected has no attempt under way and nothing to wait for, so that its
\* loss is always noticed.
RedisInv ==
    /\ RedisTypes
    /\ created <=> ~redisClosing
    /\ created => (redisConnected <=> client = "ready")
    /\ client = "ready" =>
          created /\ ~firstConnection /\ ~redisConnecting /\ ~redisReconnecting
    /\ waiting # "nothing" => client = "closed"

\* RedisInv is inductive.
LEMMA RedisStep ==
    ASSUME RedisInv, Redis!Next
    PROVE  RedisInv'
<1> USE DEF RedisInv, RedisTypes
<1>1. CASE Redis!Connected BY <1>1 DEF Redis!Connected, Redis!Settled
<1>2. CASE Redis!ConnectFails BY <1>2 DEF Redis!ConnectFails
<1>3. CASE Redis!WaitOver
  BY <1>3 DEF Redis!WaitOver, Redis!Attempt, Redis!Settled
<1>4. CASE Redis!Drop BY <1>4 DEF Redis!Drop, Redis!Schedule
<1>5. CASE Redis!Disconnect BY <1>5 DEF Redis!Disconnect
<1>6. CASE Redis!ServerDown BY <1>6 DEF Redis!ServerDown
<1>7. CASE Redis!ServerUp BY <1>7 DEF Redis!ServerUp
<1> QED BY <1>1, <1>2, <1>3, <1>4, <1>5, <1>6, <1>7 DEF Redis!Next

-----------------------------------------------------------------------------
(* The Kafka connection.                                                   *)

KafkaTypes ==
    /\ producer \in BOOLEAN /\ kafkaConnected \in BOOLEAN /\ kafkaClosing \in BOOLEAN
    /\ interval \in BOOLEAN /\ admin \in BOOLEAN /\ kafkaServer \in BOOLEAN
    /\ connect \in {"none", "resetting", "connecting", "cleaning", "waiting"}
    /\ reconnect \in {"none", "teardown", "waiting", "connecting"}
    /\ probe \in {"none", "admin", "asking", "cleaning"}
    /\ disconnect \in {"none", "teardown", "consumers", "producer", "done"}

\* Whoever says he is connected has a producer, which no failed attempt is about to take
\* away; and somebody watches.
KafkaInv ==
    /\ KafkaTypes
    /\ kafkaConnected => producer /\ connect # "cleaning"
    /\ Watched

\* KafkaInv is inductive.
LEMMA KafkaStep ==
    ASSUME KafkaInv, Kafka!Next
    PROVE  KafkaInv'
<1> USE DEF KafkaInv, KafkaTypes, Watched
<1>1. CASE Kafka!Connected BY <1>1 DEF Kafka!Connected, Kafka!Settled
<1>2. CASE Kafka!ConnectFails BY <1>2 DEF Kafka!ConnectFails
<1>3. CASE Kafka!ResetDone
  BY <1>3 DEF Kafka!ResetDone, Kafka!Attempt, Kafka!Settled
<1>4. CASE Kafka!Cleaned BY <1>4 DEF Kafka!Cleaned, Kafka!Settled
<1>5. CASE Kafka!Retry
  BY <1>5 DEF Kafka!Retry, Kafka!Attempt, Kafka!Settled
<1>6. CASE Kafka!Reconnecting
  <2>1. CASE Kafka!TornDown BY <2>1 DEF Kafka!TornDown
  <2>2. CASE Kafka!Reset BY <2>2 DEF Kafka!Reset
  <2> QED BY <1>6, <2>1, <2>2 DEF Kafka!Reconnecting
<1>7. CASE Kafka!Probe BY <1>7 DEF Kafka!Probe, Kafka!Schedule
<1>8. CASE Kafka!AdminConnected \/ Kafka!Answered \/ Kafka!ProbeFails
  BY <1>8 DEF Kafka!AdminConnected, Kafka!Answered, Kafka!ProbeFails
<1>9. CASE Kafka!ProbeEnds BY <1>9 DEF Kafka!ProbeEnds, Kafka!Schedule
<1>10. CASE Kafka!Disconnecting
  <2>1. CASE Kafka!DisconnectProbe BY <2>1 DEF Kafka!DisconnectProbe
  <2>2. CASE Kafka!DisconnectConsumers BY <2>2 DEF Kafka!DisconnectConsumers
  <2>3. CASE Kafka!DisconnectProducer BY <2>3 DEF Kafka!DisconnectProducer
  <2> QED BY <1>10, <2>1, <2>2, <2>3 DEF Kafka!Disconnecting
<1>11. CASE Kafka!ProducerLost BY <1>11 DEF Kafka!ProducerLost, Kafka!Schedule
<1>12. CASE Kafka!Disconnect BY <1>12 DEF Kafka!Disconnect
<1>13. CASE Kafka!ServerDown
  <2>1. /\ kafkaServer' \in BOOLEAN
        /\ UNCHANGED <<producer, kafkaConnected, kafkaClosing, connect, reconnect, probe,
                       interval, admin, disconnect>>
    BY <1>13 DEF Kafka!ServerDown
  <2>2. KafkaTypes' BY <2>1
  <2>3. (kafkaConnected => producer /\ connect # "cleaning")' BY <2>1
  <2>4. Watched' BY <2>1
  <2> QED BY <2>2, <2>3, <2>4
<1>14. CASE Kafka!ServerUp BY <1>14 DEF Kafka!ServerUp
<1> QED
  BY <1>1, <1>2, <1>3, <1>4, <1>5, <1>6, <1>7, <1>8, <1>9, <1>10, <1>11, <1>12, <1>13, <1>14
  DEF Kafka!Next, Kafka!Connecting, Kafka!Probing

-----------------------------------------------------------------------------
(* The poll for Telegram's updates.                                        *)

\* A launch that has not been stopped.
Starting(p) == launch[p] \in {"starting", "greeted", "polling"}

TelegramTypes ==
    /\ pollerLock \in Poller \cup {"nobody", "gone"}
    /\ isLeader \in [Poller -> BOOLEAN] /\ pollerDisabled \in [Poller -> BOOLEAN]
    /\ polled \in [Poller -> BOOLEAN] /\ releasing \in [Poller -> BOOLEAN]
    /\ stray \in [Poller -> BOOLEAN] /\ lapsed \in [Poller -> BOOLEAN]
    /\ supervisor \in [Poller -> {"waits", "asked", "won", "lost", "gone"}]
    /\ launch \in [Poller -> {"none", "starting", "greeted", "polling", "stopped"}]

\* Who leads, or has been told that he may, has the lock, unless he is excused; every launch
\* that is not on its way out is the leader's; and only who shuts down gives the lock back.
TelegramInv ==
    /\ TelegramTypes
    /\ \A p \in Poller :
          /\ ~Telegram!Excused(p) /\ (isLeader[p] \/ supervisor[p] = "won") => pollerLock = p
          /\ Starting(p) /\ ~stray[p] => isLeader[p]
          /\ releasing[p] => pollerDisabled[p]

\* TelegramInv is inductive.
LEMMA TelegramStep ==
    ASSUME TelegramInv, Telegram!Next
    PROVE  TelegramInv'
<1> USE DEF TelegramInv, TelegramTypes, Telegram!Excused, Starting
<1>0. "nobody" \notin Poller /\ "gone" \notin Poller
  BY PollerAssumption DEF PollerAssumption, Telegram!Nobody, Telegram!Gone
<1>1. ASSUME NEW p \in Poller, Telegram!Ask(p) PROVE TelegramInv'
  BY <1>1 DEF Telegram!Ask
<1>2. ASSUME NEW p \in Poller, Telegram!Idle(p) PROVE TelegramInv'
  BY <1>2 DEF Telegram!Idle, Telegram!Stopped, Telegram!ReleasePollerLeadership
<1>3. ASSUME NEW p \in Poller, Telegram!Serve(p) PROVE TelegramInv'
  BY <1>0, <1>3 DEF Telegram!Serve, Telegram!Nobody
<1>4. ASSUME NEW p \in Poller, Telegram!Follow(p) PROVE TelegramInv'
  <2>1. CASE isLeader[p] /\ (polled[p] \/ launch[p] # "none")
    <3>1. /\ TelegramTypes'
          /\ \A q \in Poller : q # p => /\ launch'[q] = launch[q] /\ stray'[q] = stray[q]
                                       /\ isLeader'[q] = isLeader[q]
                                       /\ supervisor'[q] = supervisor[q]
          /\ launch'[p] = IF launch[p] = "polling" THEN "stopped" ELSE launch[p]
          /\ stray'[p] = (stray[p] \/ launch[p] \in {"starting", "greeted"})
          /\ ~isLeader'[p] /\ supervisor'[p] = "waits"
          /\ UNCHANGED <<pollerLock, pollerDisabled, releasing, lapsed>>
      BY <1>4, <2>1 DEF Telegram!Follow, Telegram!Stopped
    <3>2. Starting(p)' => stray'[p] BY <3>1
    <3> QED BY <3>1, <3>2
  <2>2. CASE ~(isLeader[p] /\ (polled[p] \/ launch[p] # "none"))
    BY <1>4, <2>2 DEF Telegram!Follow
  <2> QED BY <2>1, <2>2
<1>5. ASSUME NEW p \in Poller, Telegram!Lead(p) PROVE TelegramInv'
  BY <1>5 DEF Telegram!Lead
<1>6. ASSUME NEW p \in Poller, Telegram!CheckFails(p) PROVE TelegramInv'
  BY <1>6 DEF Telegram!CheckFails
<1>7. ASSUME NEW p \in Poller, Telegram!Launch(p) PROVE TelegramInv'
  <2>1. CASE Telegram!Greeted(p) BY <2>1 DEF Telegram!Greeted
  <2>2. CASE Telegram!StartPolling(p) BY <2>2 DEF Telegram!StartPolling
  <2>3. CASE Telegram!StopDone(p)
    BY <2>3 DEF Telegram!StopDone, Telegram!LaunchOver
  <2> QED BY <1>7, <2>1, <2>2, <2>3 DEF Telegram!Launch
<1>8. ASSUME NEW p \in Poller, Telegram!LaunchOver(p) PROVE TelegramInv'
  BY <1>8 DEF Telegram!LaunchOver
<1>9. ASSUME NEW p \in Poller, Telegram!Disconnect(p) PROVE TelegramInv'
  BY <1>9 DEF Telegram!Disconnect, Telegram!Stopped,
              Telegram!ReleasePollerLeadership
<1>10. ASSUME NEW p \in Poller, Telegram!Release(p) PROVE TelegramInv'
  BY <1>0, <1>10 DEF Telegram!Release, Telegram!Nobody
<1>11. ASSUME NEW p \in Poller, Telegram!Ended(p) PROVE TelegramInv'
  BY <1>0, <1>11 DEF Telegram!Ended, Telegram!Lowered, Telegram!Gone
<1>12. ASSUME NEW p \in Poller, Telegram!Restart(p) PROVE TelegramInv'
  BY <1>12 DEF Telegram!Restart
<1>13. CASE Telegram!Expires
  BY <1>0, <1>13 DEF Telegram!Expires, Telegram!Nobody, Telegram!Gone, Telegram!local
<1>14. CASE Telegram!Lapses
  BY <1>0, <1>14 DEF Telegram!Lapses, Telegram!Nobody, Telegram!local
<1> QED
  BY <1>1, <1>2, <1>3, <1>4, <1>5, <1>6, <1>7, <1>8, <1>9, <1>10, <1>11, <1>12, <1>13, <1>14
  DEF Telegram!Next, Telegram!Supervise,
      Telegram!LaunchFails, Telegram!Conflict, Telegram!Exit, Telegram!Crash

-----------------------------------------------------------------------------
(* The WebSocket client.                                                   *)

SocketTypes ==
    /\ socket \in [Socket -> {"none", "connecting", "open", "closing", "dropped"}]
    /\ timer \in SUBSET Socket /\ deaf \in SUBSET Socket
    /\ silent \in [Socket -> 0..Silence]
    /\ local \in Socket \cup {0}
    /\ wsConnected \in BOOLEAN /\ wsConnecting \in BOOLEAN /\ wsReconnecting \in BOOLEAN
    /\ wsClosing \in BOOLEAN /\ wsServer \in BOOLEAN
    /\ retries \in {0, 1}

Live(s) == socket[s] \in {"open", "connecting"}

\* One socket at most is open or on its way, and none while the loop waits for another
\* attempt; the open one is the present one, and it is gone once the process disconnects.
SocketInv ==
    /\ SocketTypes
    /\ \A s, t \in Socket : Live(s) /\ Live(t) => s = t
    /\ \A s \in Socket :
          /\ Live(s) => retries = 0
          /\ socket[s] = "connecting" => wsConnecting
          /\ socket[s] = "open" => local = s /\ ~wsClosing
          /\ s \in timer => socket[s] \in {"open", "closing"}
          /\ s \in deaf => socket[s] = "open"
    /\ retries = 1 => wsConnecting
    /\ wsConnected => local # 0

\* SocketInv holds when a socket is opened and nothing else is open or on its way.
LEMMA SocketOpens ==
    ASSUME SocketInv, \A s \in Socket : ~Live(s),
           WebSocket!OpenSocket, wsConnecting', retries' = 0,
           UNCHANGED <<timer, silent, deaf, local, wsConnected, wsClosing, wsServer>>,
           wsConnecting' \in BOOLEAN, wsReconnecting' \in BOOLEAN
    PROVE  SocketInv'
<1>1. PICK s \in Socket : socket[s] = "none" /\ socket' = [socket EXCEPT ![s] = "connecting"]
  BY DEF WebSocket!OpenSocket, WebSocket!In
<1> QED BY <1>1 DEF SocketInv, SocketTypes, Live

\* SocketInv is inductive.
LEMMA SocketStep ==
    ASSUME SocketInv, WebSocket!Next
    PROVE  SocketInv'
<1> USE DEF SocketInv, SocketTypes, Live
<1>0. Silence \in Nat /\ Socket \subseteq Nat \ {0} BY SocketAssumption DEF SocketAssumption
<1>1. ASSUME NEW s \in Socket, WebSocket!Opened(s) PROVE SocketInv'
  <2>1. /\ socket[s] = "connecting" /\ retries = 0 /\ \A t \in Socket : t # s => ~Live(t)
    BY <1>1 DEF WebSocket!Opened
  <2>2. wsConnecting' = FALSE /\ UNCHANGED <<deaf, wsReconnecting, wsClosing, retries, wsServer>>
    BY <1>1 DEF WebSocket!Opened
  <2>3. CASE wsClosing
    <3>1. /\ socket' = [socket EXCEPT ![s] = "dropped"]
          /\ UNCHANGED <<timer, silent, local, wsConnected>>
      BY <1>1, <2>3 DEF WebSocket!Opened
    <3>2. \A t \in Socket : socket'[t] = IF t = s THEN "dropped" ELSE socket[t] BY <3>1
    <3>3. SocketTypes' BY <2>2, <3>1
    <3> QED BY <2>1, <2>2, <3>1, <3>2, <3>3
  <2>4. CASE ~wsClosing
    <3>1. /\ socket' = [socket EXCEPT ![s] = "open"] /\ timer' = timer \cup {s} /\ local' = s
          /\ silent' = [silent EXCEPT ![s] = 0] /\ wsConnected' = TRUE
      BY <1>1, <2>4 DEF WebSocket!Opened
    <3>2. \A t \in Socket : socket'[t] = IF t = s THEN "open" ELSE socket[t] BY <3>1
    <3>3. SocketTypes'
      <4>1. silent' \in [Socket -> 0..Silence] BY <1>0, <3>1
      <4>2. socket' \in [Socket -> {"none", "connecting", "open", "closing", "dropped"}] BY <3>1
      <4> QED BY <2>2, <3>1, <4>1, <4>2
    <3>4. \A t \in Socket : Live(t)' => t = s BY <2>1, <3>2
    <3>5. \A t \in Socket : t \in timer' => socket'[t] \in {"open", "closing"} BY <3>1, <3>2
    <3> QED BY <1>0, <2>1, <2>2, <2>4, <3>1, <3>2, <3>3, <3>4, <3>5
  <2> QED BY <2>3, <2>4
<1>2. ASSUME NEW s \in Socket, WebSocket!Refused(s) PROVE SocketInv'
  BY <1>2 DEF WebSocket!Refused
<1>3. ASSUME NEW s \in Socket, WebSocket!Failed(s) PROVE SocketInv'
  <2>1. /\ socket[s] = "open" /\ socket' = [socket EXCEPT ![s] = "closing"]
        /\ deaf' = deaf \ {s} /\ timer' = timer \ {s} /\ local' = IF local = s THEN 0 ELSE local
        /\ wsConnected' = FALSE
        /\ UNCHANGED <<silent, wsConnecting, wsClosing, retries, wsServer>>
    BY <1>3 DEF WebSocket!Failed, WebSocket!GiveUp, WebSocket!NoSocket
  <2>2. wsReconnecting' \in BOOLEAN
    BY <1>3 DEF WebSocket!Failed, WebSocket!Supervise
  <2>3. \A t \in Socket : socket'[t] = IF t = s THEN "closing" ELSE socket[t] BY <2>1
  <2>4. SocketTypes' BY <2>1, <2>2
  <2> QED BY <2>1, <2>3, <2>4
<1>4. ASSUME NEW s \in Socket, WebSocket!Closed(s) PROVE SocketInv'
  BY <1>4 DEF WebSocket!Closed, WebSocket!GiveUp, WebSocket!Supervise,
              WebSocket!NoSocket
<1>5. ASSUME NEW s \in Socket, WebSocket!Dropped(s) PROVE SocketInv'
  BY <1>5 DEF WebSocket!Dropped
<1>6. ASSUME NEW s \in Socket, WebSocket!KeepAlive(s) PROVE SocketInv'
  <2>1. CASE /\ silent' = [silent EXCEPT ![s] = @ + 1] /\ silent[s] < Silence
             /\ UNCHANGED <<socket, deaf>>
    BY <1>0, <1>6, <2>1 DEF WebSocket!KeepAlive
  <2>2. CASE socket' = [socket EXCEPT ![s] = "closing"] /\ deaf' = deaf \ {s} /\ UNCHANGED silent
    <3>1. \A t \in Socket : socket'[t] = IF t = s THEN "closing" ELSE socket[t] BY <2>2
    <3>2. UNCHANGED <<timer, local, wsConnected, wsConnecting, wsReconnecting, wsClosing,
                      retries, wsServer>>
      BY <1>6 DEF WebSocket!KeepAlive
    <3> QED BY <2>2, <3>1, <3>2
  <2> QED BY <1>6, <2>1, <2>2 DEF WebSocket!KeepAlive
<1>7. ASSUME NEW s \in Socket, WebSocket!Pong(s) PROVE SocketInv'
  BY <1>0, <1>7 DEF WebSocket!Pong
<1>8. ASSUME NEW s \in Socket, WebSocket!Lose(s) PROVE SocketInv'
  BY <1>8 DEF WebSocket!Lose
<1>9. CASE WebSocket!Retry
  <2>1. CASE wsClosing
    <3>1. /\ retries = 1 /\ retries' = 0 /\ wsConnecting' = FALSE
          /\ UNCHANGED <<socket, timer, silent, deaf, local, wsConnected, wsReconnecting,
                         wsClosing, wsServer>>
      BY <1>9, <2>1 DEF WebSocket!Retry
    <3>2. \A s \in Socket : ~Live(s) BY <3>1
    <3>3. SocketTypes' BY <3>1
    <3>4. \A s \in Socket : ~Live(s)' BY <3>1, <3>2
    <3> QED BY <3>1, <3>3, <3>4
  <2>2. CASE ~wsClosing BY <1>9, <2>2, SocketOpens DEF WebSocket!Retry
  <2> QED BY <2>1, <2>2
<1>10. CASE WebSocket!Reconnect
  <2>1. CASE UNCHANGED <<socket, wsConnecting>> BY <1>10, <2>1 DEF WebSocket!Reconnect
  <2>2. CASE ~UNCHANGED <<socket, wsConnecting>>
    <3>1. /\ ~wsConnecting /\ ~(local # 0 /\ socket[local] = "open")
          /\ WebSocket!OpenSocket /\ wsConnecting' = TRUE /\ wsReconnecting' = FALSE
          /\ UNCHANGED <<timer, silent, deaf, local, wsConnected, wsClosing, wsServer, retries>>
      BY <1>10, <2>2 DEF WebSocket!Reconnect, WebSocket!Connect, WebSocket!NoSocket
    <3>2. retries = 0 /\ \A s \in Socket : ~Live(s) BY <1>0, <3>1
    <3> QED BY <3>1, <3>2, SocketOpens
  <2> QED BY <2>1, <2>2
<1>11. CASE WebSocket!Disconnect
  BY <1>0, <1>11 DEF WebSocket!Disconnect, WebSocket!GiveUp, WebSocket!NoSocket
<1>12. CASE WebSocket!ServerDown
  <2>1. PICK mute \in SUBSET WebSocket!In("open") :
          /\ deaf' = deaf \cup mute
          /\ socket' = [s \in Socket |->
                          IF s \in WebSocket!In("open") \ (deaf \cup mute) THEN "closing"
                          ELSE socket[s]]
    BY <1>12 DEF WebSocket!ServerDown
  <2>2. \A s \in Socket : socket'[s] = IF socket[s] = "open" /\ s \notin deaf \cup mute
                                       THEN "closing" ELSE socket[s]
    BY <2>1 DEF WebSocket!In
  <2>3. mute \in SUBSET Socket /\ \A s \in mute : socket[s] = "open" BY DEF WebSocket!In
  <2>4. /\ UNCHANGED <<timer, silent, local, wsConnected, wsConnecting, wsReconnecting,
                       wsClosing, retries>>
        /\ wsServer' \in BOOLEAN
    BY <1>12 DEF WebSocket!ServerDown
  <2>5. SocketTypes' BY <2>1, <2>2, <2>3, <2>4
  <2> QED BY <2>1, <2>2, <2>3, <2>4, <2>5
<1>13. CASE WebSocket!ServerUp BY <1>13 DEF WebSocket!ServerUp
<1> QED
  BY <1>1, <1>2, <1>3, <1>4, <1>5, <1>6, <1>7, <1>8, <1>9, <1>10, <1>11, <1>12, <1>13
  DEF WebSocket!Next, WebSocket!Step

-----------------------------------------------------------------------------
(* The four together.                                                      *)

\* The invariants of the four parts; what may still go wrong is counted once for all.
IInv == SocketInv /\ RedisInv /\ KafkaInv /\ TelegramInv /\ trouble \in Nat

\* A part that is not watched keeps what it has.
LEMMA UnwatchedStays ==
    /\ SocketInv /\ UNCHANGED wsVars => SocketInv'
    /\ RedisInv /\ UNCHANGED redisVars => RedisInv'
    /\ KafkaInv /\ UNCHANGED kafkaVars => KafkaInv'
    /\ TelegramInv /\ UNCHANGED telegramVars => TelegramInv'
<1>1. SocketInv /\ UNCHANGED wsVars => SocketInv'
  BY DEF wsVars, SocketInv, SocketTypes, Live
<1>2. RedisInv /\ UNCHANGED redisVars => RedisInv'
  BY DEF redisVars, RedisInv, RedisTypes
<1>3. KafkaInv /\ UNCHANGED kafkaVars => KafkaInv'
  BY DEF kafkaVars, KafkaInv, KafkaTypes, Watched
<1>4. TelegramInv /\ UNCHANGED telegramVars => TelegramInv'
  BY DEF telegramVars, TelegramInv, TelegramTypes, Telegram!Excused, Starting
<1> QED BY <1>1, <1>2, <1>3, <1>4

\* Nothing goes wrong more often than Troubles allows.
LEMMA TroubleStays == trouble \in Nat /\ LinkNext => trouble' \in Nat
<1> SUFFICES ASSUME trouble \in Nat, LinkNext PROVE trouble' \in Nat OBVIOUS
<1>1. CASE WebSocket!Next
  BY <1>1 DEF WebSocket!Next, WebSocket!Step, WebSocket!Opened,
     WebSocket!Closed, WebSocket!Dropped, WebSocket!KeepAlive,
     WebSocket!Refused, WebSocket!Failed, WebSocket!Pong, WebSocket!Lose,
     WebSocket!Retry, WebSocket!Reconnect, WebSocket!Disconnect,
     WebSocket!ServerDown, WebSocket!ServerUp, WebSocket!Trouble
<1>2. CASE Redis!Next
  BY <1>2 DEF Redis!Next, Redis!Connected, Redis!ConnectFails,
     Redis!WaitOver, Redis!Drop, Redis!Disconnect, Redis!ServerDown,
     Redis!ServerUp, Redis!Trouble
<1>3. CASE Kafka!Next
  <2>1. Kafka!Trouble => trouble' \in Nat BY DEF Kafka!Trouble
  <2>2. Kafka!Troubled => trouble' \in Nat BY <2>1 DEF Kafka!Troubled
  <2>3. Kafka!Connecting \/ Kafka!ConnectFails => trouble' \in Nat
    BY <2>2 DEF Kafka!Connecting, Kafka!Connected, Kafka!ConnectFails,
                Kafka!ResetDone, Kafka!Cleaned, Kafka!Retry
  <2>4. Kafka!Reconnecting => trouble' \in Nat
    BY <2>1 DEF Kafka!Reconnecting, Kafka!TornDown, Kafka!Reset
  <2>5. Kafka!Probing \/ Kafka!ProbeFails => trouble' \in Nat
    BY <2>2 DEF Kafka!Probing, Kafka!Probe, Kafka!AdminConnected,
                Kafka!Answered, Kafka!ProbeFails, Kafka!ProbeEnds
  <2>6. Kafka!Disconnecting => trouble' \in Nat
    BY <2>1 DEF Kafka!Disconnecting, Kafka!DisconnectProbe,
                Kafka!DisconnectConsumers, Kafka!DisconnectProducer
  <2>7. Kafka!ProducerLost \/ Kafka!Disconnect => trouble' \in Nat
    BY <2>1 DEF Kafka!ProducerLost, Kafka!Disconnect
  <2>8. Kafka!ServerDown \/ Kafka!ServerUp => trouble' \in Nat
    BY <2>1 DEF Kafka!ServerDown, Kafka!ServerUp
  <2> QED BY <1>3, <2>3, <2>4, <2>5, <2>6, <2>7, <2>8 DEF Kafka!Next
<1>4. CASE Telegram!Next
  BY <1>4 DEF Telegram!Next, Telegram!Supervise, Telegram!Launch,
     Telegram!Ask, Telegram!Idle, Telegram!Serve, Telegram!Follow,
     Telegram!Lead, Telegram!CheckFails, Telegram!Greeted,
     Telegram!StartPolling, Telegram!StopDone, Telegram!LaunchFails,
     Telegram!Conflict, Telegram!Disconnect, Telegram!Release,
     Telegram!Exit, Telegram!Crash, Telegram!Restart, Telegram!Expires,
     Telegram!Lapses, Telegram!Trouble
<1> QED BY <1>1, <1>2, <1>3, <1>4 DEF LinkNext

\* A connection holds its invariant when it starts, and when it has been closed.
LEMMA Starts ==
    ASSUME LinkInit
    PROVE  IInv
<1>0. 0 \in 0..Silence /\ Troubles \in Nat BY SocketAssumption DEF SocketAssumption
<1>1. ASSUME WebSocket!Init PROVE SocketInv
  <2>1. PICK first \in Socket :
          socket = [s \in Socket |-> IF s = first THEN "connecting" ELSE "none"]
    BY <1>1 DEF WebSocket!Init
  <2>2. silent \in [Socket -> 0..Silence] BY <1>0, <1>1 DEF WebSocket!Init
  <2>3. SocketTypes
    BY <1>1, <2>1, <2>2 DEF WebSocket!Init, WebSocket!NoSocket, SocketTypes
  <2> QED
    BY <1>1, <2>1, <2>3 DEF WebSocket!Init, WebSocket!NoSocket, SocketInv, Live
<1>2. ASSUME WebSocketRests PROVE SocketInv
  <2>1. silent \in [Socket -> 0..Silence] BY <1>0, <1>2 DEF WebSocketRests
  <2>2. SocketTypes BY <1>2, <2>1 DEF WebSocketRests, WebSocket!NoSocket, SocketTypes
  <2> QED BY <1>2, <2>2 DEF WebSocketRests, WebSocket!NoSocket, SocketInv, Live
<1>3. Redis!Init \/ RedisRests => RedisInv
  BY DEF Redis!Init, RedisRests, RedisInv, RedisTypes
<1>4. Kafka!Init \/ KafkaRests => KafkaInv
  BY DEF Kafka!Init, KafkaRests, KafkaInv, KafkaTypes, Watched
<1>5. Telegram!Init => TelegramInv
  BY DEF Telegram!Init, Telegram!Nobody, Telegram!Nowhere,
         TelegramInv, TelegramTypes, Telegram!Excused, Starting
<1>6. TelegramRests => TelegramInv
  BY DEF TelegramRests, Telegram!Nobody, Telegram!Nowhere,
         TelegramInv, TelegramTypes, Telegram!Excused, Starting
<1> QED BY <1>0, <1>1, <1>2, <1>3, <1>4, <1>5, <1>6 DEF LinkInit, IInv

\* IInv is inductive.
LEMMA LinkStep ==
    ASSUME IInv, [LinkNext]_linkVars
    PROVE  IInv'
<1>1. CASE LinkNext
  <2>1. CASE WebSocket!Next /\ UNCHANGED <<redisVars, kafkaVars, telegramVars>>
    BY <1>1, <2>1, SocketStep, UnwatchedStays, TroubleStays DEF IInv
  <2>2. CASE Redis!Next /\ UNCHANGED <<wsVars, kafkaVars, telegramVars>>
    BY <1>1, <2>2, RedisStep, UnwatchedStays, TroubleStays DEF IInv
  <2>3. CASE Kafka!Next /\ UNCHANGED <<wsVars, redisVars, telegramVars>>
    BY <1>1, <2>3, KafkaStep, UnwatchedStays, TroubleStays DEF IInv
  <2>4. CASE Telegram!Next /\ UNCHANGED <<wsVars, redisVars, kafkaVars>>
    BY <1>1, <2>4, TelegramStep, UnwatchedStays, TroubleStays DEF IInv
  <2> QED BY <1>1, <2>1, <2>2, <2>3, <2>4 DEF LinkNext
<1>2. CASE UNCHANGED linkVars BY <1>2, UnwatchedStays DEF linkVars, IInv
<1> QED BY <1>1, <1>2

\* Every state of a connection satisfies IInv.
THEOREM LinkInvariant == LinkSpec => []IInv
<1>1. LinkInit => IInv BY Starts
<1>2. IInv /\ [LinkNext]_linkVars => IInv' BY LinkStep
<1> QED BY <1>1, <1>2, PTL DEF LinkSpec


-----------------------------------------------------------------------------
(* What the connections promise.                                           *)

\* There is one socket at most, and none while the loop waits.
LEMMA OneSocket == SocketInv => OneLink
<1> SUFFICES ASSUME SocketInv PROVE OneLink OBVIOUS
<1> DEFINE L == WebSocket!In("open") \cup WebSocket!In("connecting")
<1>1. \A s : s \in L <=> s \in Socket /\ Live(s) BY DEF WebSocket!In, Live
<1>2. Cardinality(L) + retries <= 1
  <2>1. CASE L = {}
    <3>1. Cardinality(L) = 0 BY <2>1, FS_EmptySet
    <3> HIDE DEF L
    <3>2. retries \in {0, 1} BY DEF SocketInv, SocketTypes
    <3> QED BY <3>1, <3>2
  <2>2. CASE L # {}
    <3> HIDE DEF L
    <3>1. PICK s : s \in L BY <2>2
    <3>2. L = {s} /\ retries = 0 BY <1>1, <3>1 DEF SocketInv
    <3>3. Cardinality(L) = 1 BY <3>2, FS_Singleton
    <3> QED BY <3>2, <3>3
  <2> QED BY <2>1, <2>2
<1>3. timer \subseteq {local} \cup WebSocket!In("closing")
  BY DEF SocketInv, SocketTypes, WebSocket!In
<1>4. WebSocket!In("open") \subseteq {local} BY DEF SocketInv, WebSocket!In
<1> QED BY <1>2, <1>3, <1>4 DEF OneLink

\* Linked holds of every behaviour, for any number of sockets and of processes that poll
\* and however often something goes wrong: each connection is single, reported as it is, and
\* watched (connectToWebSocketServer.ts, connectToRedis.ts, connectToKafka.ts), and Telegram
\* is polled by the leader only (connectToTelegram.ts).
THEOREM AlwaysLinked == LinkSpec => []Linked
<1>1. IInv => Linked
  <2> SUFFICES ASSUME IInv PROVE Linked OBVIOUS
  <2>1. WebSocket!TypeOK
    BY DEF IInv, SocketInv, SocketTypes, WebSocket!TypeOK, WebSocket!In,
           WebSocket!NoSocket
  <2>2. Redis!TypeOK BY DEF IInv, RedisInv, RedisTypes, Redis!TypeOK
  <2>3. Kafka!TypeOK BY DEF IInv, KafkaInv, KafkaTypes, Kafka!TypeOK
  <2>4. Telegram!TypeOK
    BY DEF IInv, TelegramInv, TelegramTypes, Telegram!TypeOK, Telegram!Nobody,
           Telegram!Gone
  <2>5. Truthful
    BY DEF IInv, SocketInv, KafkaInv, RedisInv, RedisTypes, Truthful,
           WebSocket!NoSocket
  <2>6. Telegram!OnlyLeaderPolls
    BY DEF IInv, TelegramInv, Telegram!OnlyLeaderPolls, Telegram!Polls, Starting
  <2> QED
    BY <2>1, <2>2, <2>3, <2>4, <2>5, <2>6, OneSocket DEF Linked, LinkTypeOK, IInv, KafkaInv
<1> QED BY <1>1, LinkInvariant, PTL

\* What StaysClosed says of a step.
\* A step of a Kafka client that shuts down.
KafkaClosedStep ==
    /\ kafkaClosing' /\ (connect' = "connecting" => connect = "connecting")
    /\ admin' => admin
    /\ \/ KafkaAttemptSucceeds
       \/ /\ producer' => producer
          /\ kafkaConnected' => kafkaConnected
          /\ interval' => interval

ClosedStep ==
    /\ wsClosing => wsClosing' /\ WebSocket!In("connecting")'
                                    \subseteq WebSocket!In("connecting")
                    /\ WebSocket!In("open")' = {}
    /\ redisClosing => redisClosing' /\ (client' = "connecting" => client = "connecting")
                                     /\ client' # "ready"
    /\ kafkaClosing => KafkaClosedStep

\* A step of a WebSocket client that shuts down opens nothing.
LEMMA SocketStaysClosed ==
    ASSUME SocketInv, WebSocket!Next, wsClosing
    PROVE  wsClosing' /\ \A s \in Socket : socket'[s] = "connecting" => socket[s] = "connecting"
<1> DEFINE Goal == /\ wsClosing'
                   /\ \A s \in Socket : socket'[s] = "connecting" => socket[s] = "connecting"
<1> USE DEF SocketInv, SocketTypes
<1>1. ASSUME NEW s \in Socket, WebSocket!Step(s) PROVE Goal
  <2>1. CASE WebSocket!Opened(s) BY <2>1 DEF WebSocket!Opened
  <2>2. CASE WebSocket!Closed(s) BY <2>2 DEF WebSocket!Closed
  <2>3. CASE WebSocket!Dropped(s) BY <2>3 DEF WebSocket!Dropped
  <2>4. CASE WebSocket!KeepAlive(s) BY <2>4 DEF WebSocket!KeepAlive
  <2>5. CASE WebSocket!Refused(s) BY <2>5 DEF WebSocket!Refused
  <2> QED BY <1>1, <2>1, <2>2, <2>3, <2>4, <2>5 DEF WebSocket!Step
<1>2. ASSUME NEW s \in Socket, WebSocket!Refused(s) PROVE Goal
  BY <1>2 DEF WebSocket!Refused
<1>3. ASSUME NEW s \in Socket, WebSocket!Failed(s) PROVE Goal
  BY <1>3 DEF WebSocket!Failed
<1>4. ASSUME NEW s \in Socket, WebSocket!Pong(s) PROVE Goal
  BY <1>4 DEF WebSocket!Pong
<1>5. ASSUME NEW s \in Socket, WebSocket!Lose(s) PROVE Goal
  BY <1>5 DEF WebSocket!Lose
<1>6. CASE WebSocket!Retry BY <1>6 DEF WebSocket!Retry
<1>7. CASE WebSocket!Reconnect BY <1>7 DEF WebSocket!Reconnect
<1>8. CASE WebSocket!ServerDown BY <1>8 DEF WebSocket!ServerDown
<1>9. CASE WebSocket!ServerUp BY <1>9 DEF WebSocket!ServerUp
<1> QED
  BY <1>1, <1>2, <1>3, <1>4, <1>5, <1>6, <1>7, <1>8, <1>9
  DEF WebSocket!Next, WebSocket!Disconnect

\* Nor does one of the Redis client; a connect that succeeds late is quit at once.
LEMMA RedisStaysClosed ==
    ASSUME RedisInv, Redis!Next, redisClosing
    PROVE  redisClosing' /\ (client' = "connecting" => client = "connecting") /\ client' # "ready"
BY DEF RedisInv, RedisTypes, Redis!Next, Redis!Connected, Redis!ConnectFails,
   Redis!WaitOver, Redis!Attempt, Redis!Drop, Redis!Disconnect,
   Redis!ServerDown, Redis!ServerUp

\* Nor does one of the Kafka client, whose loop looks at shuttingDown before every attempt,
\* but for the one in which the attempt under way succeeds.
LEMMA KafkaStaysClosed ==
    ASSUME KafkaTypes, Kafka!Next, kafkaClosing
    PROVE  KafkaClosedStep
<1> USE DEF KafkaTypes, KafkaClosedStep, KafkaAttemptSucceeds
<1>1. CASE Kafka!Connected BY <1>1 DEF Kafka!Connected, Kafka!Settled
<1>2. CASE Kafka!ConnectFails BY <1>2 DEF Kafka!ConnectFails
<1>3. CASE Kafka!ResetDone
  BY <1>3 DEF Kafka!ResetDone, Kafka!Attempt, Kafka!Settled
<1>4. CASE Kafka!Cleaned BY <1>4 DEF Kafka!Cleaned, Kafka!Settled
<1>5. CASE Kafka!Retry
  BY <1>5 DEF Kafka!Retry, Kafka!Attempt, Kafka!Settled
<1>6. CASE Kafka!Reconnecting
  <2>1. CASE Kafka!TornDown BY <2>1 DEF Kafka!TornDown
  <2>2. CASE Kafka!Reset BY <2>2 DEF Kafka!Reset
  <2> QED BY <1>6, <2>1, <2>2 DEF Kafka!Reconnecting
<1>7. CASE Kafka!Probe \/ Kafka!AdminConnected \/ Kafka!Answered \/ Kafka!ProbeFails
  <2>1. CASE Kafka!Probe BY <2>1 DEF Kafka!Probe
  <2>2. CASE Kafka!AdminConnected BY <2>2 DEF Kafka!AdminConnected
  <2>3. CASE Kafka!Answered BY <2>3 DEF Kafka!Answered
  <2>4. CASE Kafka!ProbeFails BY <2>4 DEF Kafka!ProbeFails
  <2> QED BY <1>7, <2>1, <2>2, <2>3, <2>4
<1>8. CASE Kafka!ProbeEnds BY <1>8 DEF Kafka!ProbeEnds, Kafka!Schedule
<1>9. CASE Kafka!Disconnecting
  <2>1. CASE Kafka!DisconnectProbe BY <2>1 DEF Kafka!DisconnectProbe
  <2>2. CASE Kafka!DisconnectConsumers BY <2>2 DEF Kafka!DisconnectConsumers
  <2>3. CASE Kafka!DisconnectProducer BY <2>3 DEF Kafka!DisconnectProducer
  <2> QED BY <1>9, <2>1, <2>2, <2>3 DEF Kafka!Disconnecting
<1>10. CASE Kafka!ProducerLost BY <1>10 DEF Kafka!ProducerLost, Kafka!Schedule
<1>11. CASE Kafka!Disconnect BY <1>11 DEF Kafka!Disconnect
<1>12. CASE Kafka!ServerDown \/ Kafka!ServerUp
  <2>1. CASE Kafka!ServerDown BY <2>1 DEF Kafka!ServerDown
  <2>2. CASE Kafka!ServerUp BY <2>2 DEF Kafka!ServerUp
  <2> QED BY <1>12, <2>1, <2>2
<1> QED
  BY <1>1, <1>2, <1>3, <1>4, <1>5, <1>6, <1>7, <1>8, <1>9, <1>10, <1>11, <1>12
  DEF Kafka!Next, Kafka!Connecting, Kafka!Probing

\* StaysClosed holds of every behaviour: once disconnected a process opens no connection any
\* more, whatever timer is left of the time before; of an attempt under way only Kafka's may
\* still succeed, and it is the last.
THEOREM AlwaysStaysClosed == LinkSpec => StaysClosed
<1>1. ASSUME IInv, IInv', [LinkNext]_linkVars PROVE ClosedStep
  <2> DEFINE same == UNCHANGED <<wsClosing, socket>>
             still == UNCHANGED <<redisClosing, client>>
             idle == UNCHANGED <<kafkaClosing, connect, admin, producer, kafkaConnected, interval>>
  <2>1. /\ WebSocket!Next \/ same
        /\ Redis!Next \/ still
        /\ Kafka!Next \/ idle
    BY <1>1 DEF LinkNext, linkVars, wsVars, redisVars, kafkaVars
  <2>2. wsClosing => /\ wsClosing'
                     /\ \A s \in Socket : socket'[s] = "connecting" => socket[s] = "connecting"
                     /\ \A s \in Socket : socket'[s] # "open"
    BY <1>1, <2>1, SocketStaysClosed DEF IInv, SocketInv
  <2>3. redisClosing => redisClosing' /\ (client' = "connecting" => client = "connecting")
                                      /\ client' # "ready"
    BY <1>1, <2>1, RedisStaysClosed DEF IInv, RedisInv
  <2>4. kafkaClosing => KafkaClosedStep
    BY <1>1, <2>1, KafkaStaysClosed DEF IInv, KafkaInv, KafkaClosedStep
  <2> QED BY <2>2, <2>3, <2>4 DEF ClosedStep, WebSocket!In
<1>2. IInv /\ IInv' /\ [LinkNext]_linkVars => [ClosedStep]_linkVars BY <1>1
<1> QED BY <1>2, LinkInvariant, PTL DEF LinkSpec, StaysClosed, ClosedStep, KafkaClosedStep

-----------------------------------------------------------------------------
(* The circuit breaker.                                                    *)

USE ConfigAssumption DEF ConfigAssumption

\* An age grows within its cap, and None stays None.
LEMMA OlderType ==
    ASSUME NEW cap \in Nat, NEW age \in 0..cap \cup {None}
    PROVE  Older(age, cap) \in 0..cap \cup {None}
BY DEF Older, None

\* The count never exceeds the threshold and, while a window lasts, counts
\* only failures of that window.  TypeOK alone is not inductive: a CLOSED
\* circuit could already be at its threshold.
LEMMA CountInvInductive == Spec => []CountInv
<1>1. Init => CountInv
  <2> SUFFICES ASSUME Init PROVE CountInv
    OBVIOUS
  <2> USE DEF Init, None
  <2>1. recent \in [1..FailureThreshold -> 0..FailureWindow \cup {None}]
    BY DEF NoFailures
  <2>2. TypeOK
    <3>1. call \in [Call -> {"idle", "plain", "trial"}]
      OBVIOUS
    <3>2. /\ failures \in 0..FailureThreshold
          /\ successes \in 0..(SuccessThreshold - 1)
          /\ budget \in 0..FailureBudget
      OBVIOUS
    <3> QED BY <2>1, <3>1, <3>2 DEF TypeOK, CircuitState
  <2>3. BelowThreshold /\ WindowCovers
    BY DEF BelowThreshold, WindowCovers
  <2> QED BY <2>2, <2>3 DEF CountInv
<1>2. CountInv /\ [Next]_vars => CountInv'
  <2> SUFFICES ASSUME CountInv, [Next]_vars PROVE CountInv'
    OBVIOUS
  <2> USE DEF CountInv, TypeOK, BelowThreshold, WindowCovers, CircuitState, None
  <2>1. ASSUME NEW c \in Call, Execute(c) PROVE CountInv'
    <3>1. /\ state' \in CircuitState
          /\ state' = "CLOSED" => state = "CLOSED"
          /\ successes' \in 0..(SuccessThreshold - 1)
      BY <2>1 DEF Execute, HalfOpened
    <3>2. /\ trialInFlight' \in BOOLEAN
          /\ call' \in [Call -> {"idle", "plain", "trial"}]
      BY <2>1 DEF Execute
    <3>3. UNCHANGED <<failures, windowAge, failureAge, recent, budget>>
      BY <2>1 DEF Execute
    <3> QED BY <3>1, <3>2, <3>3
  <2>2. ASSUME NEW c \in Call, Succeed(c) PROVE CountInv'
    <3>1. CASE state = "HALF_OPEN"
      BY <2>2, <3>1 DEF Succeed, Settle, OnSuccess, NoFailures
    <3>2. CASE state = "CLOSED"
      BY <2>2, <3>2 DEF Succeed, Settle, OnSuccess, FailureWindowExpired
    <3>3. CASE state = "OPEN"
      BY <2>2, <3>3 DEF Succeed, Settle, OnSuccess
    <3> QED BY <3>1, <3>2, <3>3
  <2>3. ASSUME NEW c \in Call, Fail(c) PROVE CountInv'
    <3>1. CASE state # "CLOSED"
      BY <2>3, <3>1 DEF Fail, Settle, OnFailure
    <3>2. CASE state = "CLOSED"
      <4>1. CountedFailures \in 1..FailureThreshold
        BY <3>2 DEF CountedFailures, FailureWindowExpired
      <4>2. /\ failures' = CountedFailures
            /\ recent' = [k \in 1..FailureThreshold |->
                              IF k = 1 THEN 0 ELSE recent[k - 1]]
            /\ windowAge' = IF windowAge = None \/ FailureWindowExpired
                            THEN 0 ELSE windowAge
            /\ state' = IF CountedFailures >= FailureThreshold
                        THEN "OPEN" ELSE state
        BY <2>3, <3>2 DEF Fail, OnFailure
      <4>3. recent' \in [1..FailureThreshold -> 0..FailureWindow \cup {None}]
        BY <4>2
      <4>4. TypeOK'
        <5>1. /\ state' \in CircuitState
              /\ failures' \in 0..FailureThreshold
              /\ windowAge' \in 0..(FailureWindow + 1) \cup {None}
          BY <4>1, <4>2
        <5>2. /\ successes' \in 0..(SuccessThreshold - 1)
              /\ failureAge' \in 0..ResetTimeout \cup {None}
              /\ budget' \in 0..FailureBudget
          BY <2>3, <3>2 DEF Fail, OnFailure
        <5>3. /\ trialInFlight' \in BOOLEAN
              /\ call' \in [Call -> {"idle", "plain", "trial"}]
          BY <2>3 DEF Fail, Settle
        <5> QED BY <4>3, <5>1, <5>2, <5>3
      <4>5. BelowThreshold'
        BY <4>1, <4>2
      <4>6. WindowCovers'
        BY <3>2, <4>1, <4>2 DEF CountedFailures, FailureWindowExpired
      <4> QED BY <4>4, <4>5, <4>6
    <3> QED BY <3>1, <3>2
  <2>4. CASE Reset
    BY <2>4 DEF Reset, NoFailures
  <2>5. CASE Tick
    <3>1. windowAge' \in 0..(FailureWindow + 1) \cup {None}
      BY <2>5, OlderType DEF Tick
    <3>2. failureAge' \in 0..ResetTimeout \cup {None}
      BY <2>5, OlderType DEF Tick
    <3>3. recent' \in [1..FailureThreshold -> 0..FailureWindow \cup {None}]
      BY <2>5, OlderType DEF Tick
    <3>4. WindowCovers'
      BY <2>5 DEF Tick, Older
    <3> QED BY <2>5, <3>1, <3>2, <3>3, <3>4 DEF Tick
  <2>6. CASE UNCHANGED vars
    BY <2>6 DEF vars
  <2> QED BY <2>1, <2>2, <2>3, <2>4, <2>5, <2>6 DEF Next
<1> QED BY <1>1, <1>2, PTL DEF Spec

\* Every reachable state is well typed.
THEOREM TypeCorrect == Spec => []TypeOK
<1>1. CountInv => TypeOK
  BY DEF CountInv
<1> QED BY CountInvInductive, <1>1, PTL

\* The trial flag is up exactly while one trial is in flight, whatever calls
\* of earlier states and manual resets do meanwhile.
THEOREM SingleTrial == Spec => []OneTrialAtATime
<1>1. Init => OneTrialAtATime
  BY DEF Init, OneTrialAtATime
<1>2. TypeOK /\ OneTrialAtATime /\ [Next]_vars => OneTrialAtATime'
  <2> SUFFICES ASSUME TypeOK, OneTrialAtATime, [Next]_vars
               PROVE  OneTrialAtATime'
    OBVIOUS
  <2> USE DEF TypeOK, OneTrialAtATime
  <2>1. ASSUME NEW c \in Call, Execute(c) PROVE OneTrialAtATime'
    BY <2>1 DEF Execute
  <2>2. ASSUME NEW c \in Call, Settle(c) PROVE OneTrialAtATime'
    <3>1. CASE call[c] = "trial"
      BY <2>2, <3>1 DEF Settle
    <3>2. CASE call[c] = "plain"
      BY <2>2, <3>2 DEF Settle
    <3> QED BY <2>2, <3>1, <3>2 DEF Settle
  <2>3. CASE UNCHANGED <<trialInFlight, call>>
    BY <2>3
  <2> QED BY <2>1, <2>2, <2>3 DEF Next, Succeed, Fail, Reset, Tick, vars
<1> QED BY <1>1, <1>2, TypeCorrect, PTL DEF Spec

\* The circuit opens from CLOSED only on FailureThreshold failures of this
\* CLOSED period, all within one window of each other.
THEOREM BurstNeeded == Spec => OpensOnlyOnBurst
<1>1. CountInv /\ [Next]_vars =>
        [state = "CLOSED" /\ state' = "OPEN" => recent'[FailureThreshold] # None]_vars
  <2> SUFFICES ASSUME CountInv, Next, state = "CLOSED", state' = "OPEN"
               PROVE  recent'[FailureThreshold] # None
    OBVIOUS
  <2> USE DEF CountInv, TypeOK, BelowThreshold, WindowCovers, None
  <2>1. PICK c \in Call : Fail(c)
    BY DEF Next, Execute, HalfOpened, Succeed, OnSuccess, Reset, Tick
  <2>2. /\ CountedFailures >= FailureThreshold
        /\ recent' = [k \in 1..FailureThreshold |->
                          IF k = 1 THEN 0 ELSE recent[k - 1]]
    BY <2>1 DEF Fail, OnFailure
  <2>3. CASE FailureThreshold = 1
    BY <2>2, <2>3
  <2>4. CASE FailureThreshold # 1
    <3>1. windowAge \in 0..FailureWindow /\ failures = FailureThreshold - 1
      BY <2>2, <2>4 DEF CountedFailures, FailureWindowExpired
    <3> QED BY <2>2, <2>4, <3>1
  <2> QED BY <2>3, <2>4
<1> QED BY <1>1, CountInvInductive, PTL DEF Spec, OpensOnlyOnBurst
=============================================================================
