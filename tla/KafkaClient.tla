---------------------------- MODULE KafkaClient -----------------------------
(***************************************************************************)
(* The Kafka connection of a process: the producer, the loop and the       *)
(* supervisor that connect it, the metadata probe that notices a broker    *)
(* that has stopped answering, and the disconnect, of                      *)
(* connections/connectToKafka.ts.                                          *)
(*                                                                         *)
(* Each of the four is a sequence of awaits, and its program counter says  *)
(* where it waits; the flags of the code (connectInProgress,               *)
(* reconnectInProgress, metadataProbeRunning) are set exactly while their  *)
(* sequence is under way.  reconnectScheduled is cleared in the step that  *)
(* sets it.                                                                *)
(***************************************************************************)
EXTENDS Naturals

VARIABLES
    producer,       \* the producer is connected
    isConnected, shuttingDown,
    connect,        \* connectWithRetry: none, resetting, connecting, cleaning or waiting
    reconnect,      \* reconnectWithRetry: none, teardown, waiting or connecting
    probe,          \* runKafkaMetadataProbe: none, admin, asking or cleaning
    interval,       \* kafkaMetadataProbeInterval is set
    admin,          \* kafkaMetadataProbeAdmin is set
    disconnect,     \* disconnectFromKafka: none, teardown, consumers, producer or done
    server,         \* the brokers answer
    trouble         \* bound: what may still go wrong

vars == <<producer, isConnected, shuttingDown, connect, reconnect, probe, interval,
          admin, disconnect, server, trouble>>

TypeOK ==
    /\ {producer, isConnected, shuttingDown, interval, admin, server} \subseteq BOOLEAN
    /\ connect \in {"none", "resetting", "connecting", "cleaning", "waiting"}
    /\ reconnect \in {"none", "teardown", "waiting", "connecting"}
    /\ probe \in {"none", "admin", "asking", "cleaning"}
    /\ disconnect \in {"none", "teardown", "consumers", "producer", "done"}
    /\ trouble \in Nat

Trouble == trouble > 0 /\ trouble' = trouble - 1
Troubled == IF server THEN Trouble ELSE UNCHANGED trouble

\* connectToKafka has started connectWithRetry and the probe's interval.
Init ==
    /\ producer = FALSE /\ isConnected = FALSE /\ shuttingDown = FALSE
    /\ connect = "connecting" /\ reconnect = "none" /\ probe = "none"
    /\ interval = TRUE /\ admin = FALSE
    /\ disconnect = "none"
    /\ server = TRUE

-----------------------------------------------------------------------------
(* The loop and the supervisor.                                            *)

\* scheduleReconnectIfNeeded, for a connection that has just been found lost:
\* reconnectWithRetry up to its first await, the teardown of the probe.
Schedule ==
    /\ isConnected' = FALSE
    /\ IF shuttingDown \/ reconnect # "none" \/ connect # "none"
       THEN UNCHANGED <<reconnect, interval>>
       ELSE reconnect' = "teardown" /\ interval' = FALSE

\* The wait for a running probe ends, by its time limit at the latest.
TornDown ==
    /\ reconnect = "teardown"
    /\ IF probe = "none" THEN UNCHANGED trouble ELSE Trouble
    /\ reconnect' = "waiting"
    /\ admin' = FALSE
    /\ UNCHANGED <<producer, isConnected, shuttingDown, connect, probe, interval, disconnect, server>>

\* The wait for CONNECTION_TIMER is over: connectWithRetry resets the producer.
Reset ==
    /\ reconnect = "waiting"
    /\ reconnect' = "connecting"
    /\ connect' = "resetting"
    /\ UNCHANGED <<producer, isConnected, shuttingDown, probe, interval, admin, disconnect,
                   server, trouble>>

\* The end of connectWithRetry and of the supervisor that awaits it, if any.
\* The loop ends without a connection only when the process shuts down.
Settled(connected) ==
    /\ isConnected' = connected
    /\ connect' = "none" /\ reconnect' = "none"
    /\ interval' = (interval \/ (connected /\ reconnect # "none"))

\* The head of the loop.
Attempt ==
    IF shuttingDown THEN Settled(FALSE)
    ELSE connect' = "connecting" /\ isConnected' = FALSE /\ UNCHANGED <<reconnect, interval>>

\* The producer is reset: its "producer.disconnect" finds the loop in progress.
ResetDone ==
    /\ connect = "resetting"
    /\ producer' = FALSE
    /\ Attempt
    /\ UNCHANGED <<shuttingDown, probe, admin, disconnect, server, trouble>>

\* producer.connect() resolves; shuttingDown is not looked at.
Connected ==
    /\ connect = "connecting" /\ server
    /\ producer' = TRUE
    /\ Settled(TRUE)
    /\ UNCHANGED <<shuttingDown, probe, admin, disconnect, server, trouble>>

ConnectFails ==
    /\ connect = "connecting" /\ Troubled
    /\ connect' = "cleaning"
    /\ isConnected' = FALSE
    /\ UNCHANGED <<producer, shuttingDown, reconnect, probe, interval, admin, disconnect, server>>

\* The failed producer is disconnected; the loop waits unless it is to end.
Cleaned ==
    /\ connect = "cleaning"
    /\ producer' = FALSE
    /\ IF shuttingDown THEN Settled(FALSE)
       ELSE connect' = "waiting" /\ UNCHANGED <<isConnected, reconnect, interval>>
    /\ UNCHANGED <<shuttingDown, probe, admin, disconnect, server, trouble>>

Retry ==
    /\ connect = "waiting"
    /\ Attempt
    /\ UNCHANGED <<producer, shuttingDown, probe, admin, disconnect, server, trouble>>

\* The producer's own "producer.disconnect".
ProducerLost ==
    /\ producer /\ connect = "none" /\ Trouble
    /\ producer' = FALSE
    /\ Schedule
    /\ UNCHANGED <<shuttingDown, connect, probe, admin, disconnect, server>>

-----------------------------------------------------------------------------
(* runKafkaMetadataProbe.                                                  *)

\* The interval fires while nothing is in progress.
Probe ==
    /\ interval /\ ~shuttingDown
    /\ connect = "none" /\ reconnect = "none" /\ probe = "none"
    /\ IF isConnected
       THEN /\ probe' = IF admin THEN "asking" ELSE "admin"
            /\ admin' = TRUE
            /\ UNCHANGED <<isConnected, reconnect, interval>>
       ELSE Schedule /\ UNCHANGED <<probe, admin>>
    /\ UNCHANGED <<producer, shuttingDown, connect, disconnect, server, trouble>>

\* The admin client is connected, unless a teardown has taken it away.
AdminConnected ==
    /\ probe = "admin" /\ server
    /\ probe' = IF admin THEN "asking" ELSE "cleaning"
    /\ UNCHANGED <<producer, isConnected, shuttingDown, connect, reconnect, interval, admin,
                   disconnect, server, trouble>>

Answered ==
    /\ probe = "asking" /\ server
    /\ probe' = "none"
    /\ UNCHANGED <<producer, isConnected, shuttingDown, connect, reconnect, interval, admin,
                   disconnect, server, trouble>>

\* The admin client cannot connect, or does not answer in five seconds.
ProbeFails ==
    /\ probe \in {"admin", "asking"} /\ Troubled
    /\ probe' = "cleaning"
    /\ UNCHANGED <<producer, isConnected, shuttingDown, connect, reconnect, interval, admin,
                   disconnect, server>>

\* The failed probe takes the connection down: that of now, which need not be
\* the one it has asked.
ProbeEnds ==
    /\ probe = "cleaning"
    /\ probe' = "none"
    /\ admin' = FALSE
    /\ IF isConnected THEN Schedule ELSE UNCHANGED <<isConnected, reconnect, interval>>
    /\ UNCHANGED <<producer, shuttingDown, connect, disconnect, server, trouble>>

-----------------------------------------------------------------------------
(* disconnectFromKafka, and the brokers.                                   *)

Disconnect ==
    /\ ~shuttingDown
    /\ shuttingDown' = TRUE /\ isConnected' = FALSE
    /\ interval' = FALSE
    /\ disconnect' = "teardown"
    /\ UNCHANGED <<producer, connect, reconnect, probe, admin, server, trouble>>

DisconnectProbe ==
    /\ disconnect = "teardown"
    /\ IF probe = "none" THEN UNCHANGED trouble ELSE Trouble
    /\ admin' = FALSE
    /\ disconnect' = "consumers"
    /\ UNCHANGED <<producer, isConnected, shuttingDown, connect, reconnect, probe, interval, server>>

\* Consumers leave their groups before the producer goes.
DisconnectConsumers ==
    /\ disconnect = "consumers"
    /\ disconnect' = "producer"
    /\ UNCHANGED <<producer, isConnected, shuttingDown, connect, reconnect, probe, interval,
                   admin, server, trouble>>

DisconnectProducer ==
    /\ disconnect = "producer"
    /\ disconnect' = "done"
    /\ producer' = FALSE /\ isConnected' = FALSE
    /\ UNCHANGED <<shuttingDown, connect, reconnect, probe, interval, admin, server, trouble>>

ServerDown ==
    /\ server /\ Trouble
    /\ server' = FALSE
    /\ UNCHANGED <<producer, isConnected, shuttingDown, connect, reconnect, probe, interval,
                   admin, disconnect>>

ServerUp ==
    /\ ~server
    /\ server' = TRUE
    /\ UNCHANGED <<producer, isConnected, shuttingDown, connect, reconnect, probe, interval,
                   admin, disconnect, trouble>>

Connecting == Connected \/ (~server /\ ConnectFails) \/ ResetDone \/ Cleaned \/ Retry
Reconnecting == TornDown \/ Reset
Probing == Probe \/ AdminConnected \/ Answered \/ (~server /\ ProbeFails) \/ ProbeEnds
Disconnecting == DisconnectProbe \/ DisconnectConsumers \/ DisconnectProducer

Next ==
    \/ Connecting \/ Reconnecting \/ Probing \/ Disconnecting
    \/ ConnectFails \/ ProbeFails \/ ProducerLost \/ Disconnect \/ ServerDown \/ ServerUp

Fairness ==
    /\ WF_vars(Connecting) /\ WF_vars(Reconnecting) /\ WF_vars(Probing)
    /\ WF_vars(Disconnecting) /\ WF_vars(ServerUp)

-----------------------------------------------------------------------------

LinkUp == isConnected /\ producer

\* The disconnect is through, and nothing is under way any more.
Quiet ==
    /\ disconnect = "done" /\ connect = "none" /\ reconnect = "none" /\ probe = "none"
    /\ ~admin

\* The attempt that was under way when the process disconnected has succeeded: connectWithRetry
\* reports a connection and reconnectWithRetry starts the probe's interval, unasked.
LateSuccess == shuttingDown /\ isConnected

\* Nothing that connectToKafka has set up is left.
Dismantled == ~producer /\ ~isConnected /\ ~interval
=============================================================================
