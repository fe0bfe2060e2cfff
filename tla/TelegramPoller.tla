--------------------------- MODULE TelegramPoller ---------------------------
(***************************************************************************)
(* The long poll for the Telegram bot's updates: connectToTelegram and     *)
(* disconnectFromTelegram, of connections/connectToTelegram.ts, in several *)
(* processes.  Telegram wants one poller; the supervisors agree on it by a *)
(* lock in Redis, which each asks for, or renews, at every turn of its     *)
(* loop.                                                                   *)
(*                                                                         *)
(* Telegraf's stop() ends a poll, but not a launch that has not come to    *)
(* poll yet: that goes on, and polls without leadership (`stray`), until   *)
(* Telegram refuses one of two pollers with 409.                           *)
(*                                                                         *)
(* The lock is a lease with a fresh owner for every start of a process.    *)
(* Renewed in time it does not expire; a supervisor that stalls for longer *)
(* loses it, and acts on that at its next turn only (`lapsed`).            *)
(*                                                                         *)
(* A process that crashes is restarted, one that was shut down is not.     *)
(***************************************************************************)
EXTENDS Naturals

CONSTANT Poller

VARIABLES
    pollerLock,     \* who holds telegram:poller:leader: a process, "gone" or nobody
    isLeader, pollerDisabled,
    isConnected,
    supervisor,     \* waits, has asked for the lock, or has its answer; or the process is gone
    launch,         \* launchBot: none, starting, greeted (after the hook), polling or stopped
    releasing,      \* the release of the lock is on its way
    stray, lapsed,  \* history
    trouble         \* bound: what may still go wrong

local == <<isLeader, pollerDisabled, isConnected, supervisor, launch, releasing, stray>>
vars == <<pollerLock, local, lapsed, trouble>>

Nobody == "nobody"
Gone == "gone"          \* the owner has died: only the TTL frees the lock

TypeOK ==
    /\ pollerLock \in Poller \cup {Nobody, Gone}
    /\ \A flag \in {isLeader, pollerDisabled, isConnected, releasing, stray, lapsed} :
          flag \in [Poller -> BOOLEAN]
    /\ supervisor \in [Poller -> {"waits", "asked", "won", "lost", "gone"}]
    /\ launch \in [Poller -> {"none", "starting", "greeted", "polling", "stopped"}]
    /\ trouble \in Nat

Trouble == trouble > 0 /\ trouble' = trouble - 1

Nowhere == [p \in Poller |-> FALSE]

Init ==
    /\ pollerLock = Nobody
    /\ isLeader = Nowhere /\ pollerDisabled = Nowhere /\ isConnected = Nowhere
    /\ supervisor = [p \in Poller |-> "waits"]
    /\ launch = [p \in Poller |-> "none"]
    /\ releasing = Nowhere /\ stray = Nowhere /\ lapsed = Nowhere

-----------------------------------------------------------------------------
(* The supervisor.                                                         *)

\* telegrafBot.stop(), if there is anything to stop, and isConnected = false.
Stopped(p) ==
    /\ launch' = [launch EXCEPT ![p] = IF @ = "polling" THEN "stopped" ELSE @]
    /\ stray' = [stray EXCEPT ![p] = @ \/ launch[p] \in {"starting", "greeted"}]
    /\ isConnected' = [isConnected EXCEPT ![p] = FALSE]

ReleasePollerLeadership(p) ==
    /\ isLeader' = [isLeader EXCEPT ![p] = FALSE]
    /\ releasing' = [releasing EXCEPT ![p] = @ \/ isLeader[p]]

\* The head of the loop: a process that was disconnected stands down and idles.
Ask(p) ==
    /\ supervisor[p] = "waits" /\ ~pollerDisabled[p]
    /\ supervisor' = [supervisor EXCEPT ![p] = "asked"]
    /\ UNCHANGED <<pollerLock, isLeader, pollerDisabled, isConnected, launch, releasing,
                   stray, lapsed, trouble>>

Idle(p) ==
    /\ supervisor[p] = "waits" /\ pollerDisabled[p]
    /\ isConnected[p] \/ isLeader[p]
    /\ Stopped(p)
    /\ ReleasePollerLeadership(p)
    /\ UNCHANGED <<pollerLock, pollerDisabled, supervisor, lapsed, trouble>>

\* Redis answers: won if the lock is free or our own.
Serve(p) ==
    /\ supervisor[p] = "asked"
    /\ LET won == pollerLock \in {Nobody, p} IN
       /\ pollerLock' = IF won THEN p ELSE pollerLock
       /\ supervisor' = [supervisor EXCEPT ![p] = IF won THEN "won" ELSE "lost"]
       /\ lapsed' = [lapsed EXCEPT ![p] = @ /\ ~won]
    /\ UNCHANGED <<isLeader, pollerDisabled, isConnected, launch, releasing, stray, trouble>>

\* Redis is out of reach, or its answer is: the process is a follower for this turn.
CheckFails(p) ==
    /\ supervisor[p] \in {"asked", "won"} /\ Trouble
    /\ supervisor' = [supervisor EXCEPT ![p] = "lost"]
    /\ UNCHANGED <<pollerLock, isLeader, pollerDisabled, isConnected, launch, releasing,
                   stray, lapsed>>

\* Somebody else has the lock: stand down at once.
Follow(p) ==
    /\ supervisor[p] = "lost"
    /\ IF isLeader[p] /\ (isConnected[p] \/ launch[p] # "none") THEN Stopped(p)
       ELSE UNCHANGED <<launch, stray, isConnected>>
    /\ isLeader' = [isLeader EXCEPT ![p] = FALSE]
    /\ supervisor' = [supervisor EXCEPT ![p] = "waits"]
    /\ UNCHANGED <<pollerLock, pollerDisabled, releasing, lapsed, trouble>>

\* The lock is ours: poll, unless we do or are about to.
Lead(p) ==
    /\ supervisor[p] = "won"
    /\ isLeader' = [isLeader EXCEPT ![p] = TRUE]
    /\ launch' = [launch EXCEPT ![p] =
                     IF ~isConnected[p] /\ @ = "none" THEN "starting" ELSE @]
    /\ stray' = [stray EXCEPT ![p] = FALSE]
    /\ supervisor' = [supervisor EXCEPT ![p] = "waits"]
    /\ UNCHANGED <<pollerLock, pollerDisabled, isConnected, releasing, lapsed, trouble>>

-----------------------------------------------------------------------------
(* A launch: getMe, the hook, deleteWebhook, then the poll.                *)

Greeted(p) ==
    /\ launch[p] = "starting"
    /\ launch' = [launch EXCEPT ![p] = "greeted"]
    /\ isConnected' = [isConnected EXCEPT ![p] = TRUE]
    /\ UNCHANGED <<pollerLock, isLeader, pollerDisabled, supervisor, releasing, stray, lapsed, trouble>>

StartPolling(p) ==
    /\ launch[p] = "greeted"
    /\ launch' = [launch EXCEPT ![p] = "polling"]
    /\ UNCHANGED <<pollerLock, isLeader, pollerDisabled, isConnected, supervisor, releasing,
                   stray, lapsed, trouble>>

\* The finally of the launch.
LaunchOver(p) ==
    /\ launch' = [launch EXCEPT ![p] = "none"]
    /\ isConnected' = [isConnected EXCEPT ![p] = FALSE]
    /\ stray' = [stray EXCEPT ![p] = FALSE]
    /\ UNCHANGED <<pollerLock, isLeader, pollerDisabled, supervisor, releasing, lapsed>>

StopDone(p) == launch[p] = "stopped" /\ LaunchOver(p) /\ UNCHANGED trouble

LaunchFails(p) == launch[p] \notin {"none", "stopped"} /\ Trouble /\ LaunchOver(p)

Polls(p) == launch[p] = "polling"

\* 409: Telegram ends one of two polls.
Conflict(p) ==
    /\ Polls(p) /\ \E q \in Poller \ {p} : Polls(q)
    /\ LaunchOver(p) /\ UNCHANGED trouble

-----------------------------------------------------------------------------
(* The end of a process, and of its lock.                                  *)

\* gracefulShutdown: disconnectFromTelegram, up to the release of the lock.
Disconnect(p) ==
    /\ supervisor[p] # "gone" /\ ~pollerDisabled[p]
    /\ pollerDisabled' = [pollerDisabled EXCEPT ![p] = TRUE]
    /\ Stopped(p)
    /\ ReleasePollerLeadership(p)
    /\ UNCHANGED <<pollerLock, supervisor, lapsed, trouble>>

\* Redis executes the commands of a process in their order.
Release(p) ==
    /\ releasing[p] /\ supervisor[p] # "asked"
    /\ releasing' = [releasing EXCEPT ![p] = FALSE]
    /\ pollerLock' = IF pollerLock = p THEN Nobody ELSE pollerLock
    /\ UNCHANGED <<isLeader, pollerDisabled, isConnected, supervisor, launch, stray, lapsed, trouble>>

Lowered(flags, p) == [flags EXCEPT ![p] = FALSE]

Ended(p) ==
    /\ supervisor' = [supervisor EXCEPT ![p] = "gone"]
    /\ launch' = [launch EXCEPT ![p] = "none"]
    /\ pollerLock' = IF pollerLock = p THEN Gone ELSE pollerLock
    /\ isLeader' = Lowered(isLeader, p) /\ isConnected' = Lowered(isConnected, p)
    /\ releasing' = Lowered(releasing, p)
    /\ stray' = Lowered(stray, p) /\ lapsed' = Lowered(lapsed, p)
    /\ UNCHANGED pollerDisabled

\* The shutdown goes on when the lock is released, and ends the process.
Exit(p) ==
    /\ pollerDisabled[p] /\ ~releasing[p] /\ supervisor[p] # "gone"
    /\ Ended(p) /\ UNCHANGED trouble

Crash(p) == supervisor[p] # "gone" /\ Trouble /\ Ended(p)

Restart(p) ==
    /\ supervisor[p] = "gone" /\ ~pollerDisabled[p]
    /\ supervisor' = [supervisor EXCEPT ![p] = "waits"]
    /\ UNCHANGED <<pollerLock, isLeader, pollerDisabled, isConnected, launch, releasing,
                   stray, lapsed, trouble>>

\* The TTL: nobody renews the lock of a dead owner...
Expires ==
    /\ pollerLock = Gone
    /\ pollerLock' = Nobody
    /\ UNCHANGED <<local, lapsed, trouble>>

\* ... or its owner stalls.
Lapses ==
    /\ pollerLock \in Poller /\ Trouble
    /\ pollerLock' = Nobody
    /\ lapsed' = [lapsed EXCEPT ![pollerLock] = TRUE]
    /\ UNCHANGED local

-----------------------------------------------------------------------------

Supervise(p) == Ask(p) \/ Idle(p) \/ Serve(p) \/ Follow(p) \/ Lead(p)
Launch(p) == Greeted(p) \/ StartPolling(p) \/ StopDone(p)

Next ==
    \/ \E p \in Poller :
          \/ Supervise(p) \/ CheckFails(p) \/ Launch(p) \/ LaunchFails(p) \/ Conflict(p)
          \/ Disconnect(p) \/ Release(p) \/ Exit(p) \/ Crash(p) \/ Restart(p)
    \/ Expires \/ Lapses

\* Supervisors go round, Redis and Telegram answer, a process that crashed is
\* restarted, and the lock of a dead owner expires.
Fairness ==
    /\ WF_vars(Expires)
    /\ \A p \in Poller :
          /\ WF_vars(Supervise(p)) /\ WF_vars(Launch(p)) /\ WF_vars(Conflict(p))
          /\ WF_vars(Release(p)) /\ WF_vars(Exit(p)) /\ WF_vars(Restart(p))

-----------------------------------------------------------------------------

\* A process leads only on the strength of its lock, and polls only as the
\* leader, but for the three ways the code leaves open: the lock has lapsed,
\* the process is on its way out, or the launch has outlived its stop.
Excused(p) == lapsed[p] \/ pollerDisabled[p]

OnlyLeaderPolls ==
    \A p \in Poller : ~Excused(p) =>
        /\ isLeader[p] => pollerLock = p
        /\ Polls(p) /\ ~stray[p] => isLeader[p]

LinkUp == \E p \in Poller : Polls(p)

\* Every process has been shut down.
Closing == \A p \in Poller : pollerDisabled[p]

Quiet == \A p \in Poller : supervisor[p] = "gone" /\ launch[p] = "none"
=============================================================================
