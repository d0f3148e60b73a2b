--------------------------- MODULE LaunchHandshake ---------------------------
(***************************************************************************)
(* One launch: the CLI process that runs ServerLaunchAttempt over a         *)
(* ManagedOwnedProcess, the detached server process that runs               *)
(* ServerHostEntry, and the IPC channel between them.                      *)
(*                                                                         *)
(*     launcher    <-- booted ---------------    host                      *)
(*                 --- start --------------->                              *)
(*                 <-- ready, or a failure --                              *)
(*                 --- commit -------------->                              *)
(*                 <-- committed ------------                              *)
(*                                                                         *)
(* Once start is handed to the channel (the fence) the attempt no longer    *)
(* stops the host, it only lets go of it; once the host has committed it    *)
(* no longer depends on the launcher.  The user may interrupt, either       *)
(* process may die, and both startup deadlines may pass, at any point.     *)
(* ServerOwnerResource is reduced to what HostedOwner says of it: whether   *)
(* open and start have settled, its outcome, and the lease it holds; its    *)
(* inside is the subject of ServerOwner.                                   *)
(***************************************************************************)
EXTENDS Sequences

VARIABLES
    attempt,     \* AttemptOperation.state; around it, the life of the CLI process
    verdict,     \* the result or error the attempt has claimed
    reported,    \* the promise of the launch has settled
    killer,      \* ManagedOwnedProcess.stopOperation
    interrupted, \* the signal of the launch has been aborted
    exitSeen,    \* ManagedOwnedProcess.exited
    linked,      \* the launcher's end of the channel is open
    toHost,      \* parent messages under way
    toLauncher,  \* child messages under way
    host,        \* ServerHostEntry.state; around it, the life of the process
    signalled,   \* a signal waits to be handled by the host
    readySend,   \* the callback of the ready message is outstanding
    committed,   \* the host has once been committed
    owner,       \* where ServerOwnerService.open, then start and close are
    outcome,     \* ServerOwnerResource.outcome()
    lease        \* the host owns the data directory

launcherVars == <<attempt, verdict, reported, killer, interrupted, exitSeen, linked>>
channelVars  == <<toHost, toLauncher>>
hostVars     == <<host, signalled, readySend, committed>>
ownerVars    == <<owner, outcome, lease>>
vars == <<launcherVars, channelVars, hostVars, ownerVars>>

BeforeFence == {"awaiting-boot", "sending-start"}
AfterFence  == {"awaiting-ready", "sending-commit", "awaiting-ack"}
Cleanups    == {"completed", "retained", "unconfirmed"}

\* "failed" is any failure message that names no cleanup, "busy" excepted
Failures      == {"busy", "failed"} \cup Cleanups
ChildMessages == {"booted", "ready", "committed"} \cup Failures

Verdict(code, cleanup) == [code |-> code, cleanup |-> cleanup]
Verdicts == [code    : {"none", "started", "busy", "cancelled", "failed", "unknown"},
             cleanup : {"none"} \cup Cleanups]

TypeOK ==
    /\ attempt \in {"spawning", "terminal", "gone"} \cup BeforeFence \cup AfterFence
    /\ verdict \in Verdicts
    /\ killer \in {"none", "term", "kill", "stopped", "timeout"}
    /\ {reported, interrupted, exitSeen, linked, signalled, readySend, committed, lease}
          \subseteq BOOLEAN
    /\ toHost \in Seq({"start", "commit"})
    /\ toLauncher \in Seq(ChildMessages)
    /\ host \in {"loading", "booting", "awaiting-start", "starting",
                 "ready-awaiting-commit", "committed", "closing", "finished", "dead"}
    /\ owner \in {"none", "opening", "early", "busy", "failed",
                  "starting", "ready", "closing", "over"}
    /\ outcome \in {"pending", "stopped"} \cup Cleanups

Init ==
    /\ attempt = "spawning" /\ verdict = Verdict("none", "none") /\ reported = FALSE
    /\ killer = "none" /\ interrupted = FALSE /\ exitSeen = FALSE /\ linked = TRUE
    /\ toHost = <<>> /\ toLauncher = <<>>
    /\ host = "loading" /\ signalled = FALSE /\ readySend = FALSE /\ committed = FALSE
    /\ owner = "none" /\ outcome = "pending" /\ lease = FALSE

HostEnded == host \in {"finished", "dead"}

-----------------------------------------------------------------------------
(* The launcher                                                            *)

(* ManagedOwnedProcess.stop: one stop at a time, none for a process that    *)
(* has exited or was released.                                             *)
StopHost ==
    IF exitSeen \/ ~linked \/ killer \in {"term", "kill", "stopped"}
       THEN /\ killer' = IF exitSeen /\ killer = "none" THEN "stopped" ELSE killer
            /\ UNCHANGED signalled
       ELSE killer' = "term" /\ signalled' = (host # "dead")

(* releaseOwnership behind detachCommitted and abandonUncertain: refused    *)
(* while a stop is active.                                                 *)
Release == linked' = (linked /\ killer' # "none")

(* claimTerminal, then process.stop(): the error is reported when the host  *)
(* has exited.                                                             *)
FailBeforeFence(code) ==
    /\ attempt' = "terminal"
    /\ verdict' = Verdict(code, "none")
    /\ reported' = exitSeen
    /\ StopHost
    /\ UNCHANGED linked

(* claimTerminal, then abandonUncertain(): reported whether it is refused   *)
(* or not.                                                                 *)
FailAfterFence(code, cleanup) ==
    /\ attempt' = "terminal"
    /\ verdict' = Verdict(code, cleanup)
    /\ reported' = TRUE
    /\ UNCHANGED <<killer, signalled>>
    /\ Release

FailForState ==
    \/ attempt \in BeforeFence /\ FailBeforeFence("failed")
    \/ attempt \in AfterFence /\ FailAfterFence("unknown", "none")

Proceed(state) ==
    /\ attempt' = state
    /\ UNCHANGED <<verdict, reported, killer, linked, signalled>>

Spawned ==
    /\ attempt = "spawning"
    /\ Proceed("awaiting-boot")
    /\ UNCHANGED <<interrupted, exitSeen, channelVars, host, readySend, committed, ownerVars>>

SpawnFails ==
    /\ attempt = "spawning" /\ host = "loading"
    /\ attempt' = "terminal" /\ verdict' = Verdict("failed", "none") /\ reported' = TRUE
    /\ host' = "dead"
    /\ UNCHANGED <<killer, interrupted, exitSeen, linked, channelVars,
                   signalled, readySend, committed, ownerVars>>

(* A message to the host, refused when the channel is known to be closed.   *)
Send(message, state) ==
    IF host = "dead" THEN FailForState /\ UNCHANGED toHost
    ELSE Proceed(state) /\ toHost' = Append(toHost, message)

HostFailed(message) ==
    CASE message = "busy"      -> FailAfterFence("busy", "none")
      [] message = "completed" -> FailAfterFence("failed", "completed")
      [] message = "failed"    -> FailAfterFence("unknown", "none")
      [] OTHER                 -> FailAfterFence("unknown", message)

(* AttemptOperation.receive; nobody listens after the claim or the exit.    *)
Receive ==
    /\ toLauncher # <<>> /\ ~exitSeen
    /\ attempt \in BeforeFence \cup AfterFence
    /\ toLauncher' = Tail(toLauncher)
    /\ LET message == Head(toLauncher)
       IN CASE attempt = "awaiting-boot" /\ message = "booted"      -> Send("start", "sending-start")
            [] attempt = "awaiting-ready" /\ message = "ready"      -> Send("commit", "sending-commit")
            [] attempt = "awaiting-ready" /\ message \in Failures   ->
                  HostFailed(message) /\ UNCHANGED toHost
            [] attempt = "awaiting-ack" /\ message = "committed"    ->
                  FailAfterFence("started", "none") /\ UNCHANGED toHost
            [] OTHER -> FailForState /\ UNCHANGED toHost
    /\ UNCHANGED <<interrupted, exitSeen, host, readySend, committed, ownerVars>>

(* The callback of process.send: the fence for start.                      *)
Sent ==
    /\ \/ attempt = "sending-start" /\ Proceed("awaiting-ready")
       \/ attempt = "sending-commit" /\ Proceed("awaiting-ack")
    /\ UNCHANGED <<interrupted, exitSeen, channelVars, host, readySend, committed, ownerVars>>

SendFails ==
    /\ attempt \in {"sending-start", "sending-commit"} /\ HostEnded
    /\ FailForState
    /\ UNCHANGED <<interrupted, exitSeen, channelVars, host, readySend, committed, ownerVars>>

LauncherDeadline ==
    /\ attempt \in BeforeFence \cup AfterFence
    /\ FailForState
    /\ UNCHANGED <<interrupted, exitSeen, channelVars, host, readySend, committed, ownerVars>>

(* SIGINT or SIGTERM to the CLI aborts the signal that both the managed     *)
(* process and the attempt listen to, in this order: the stop is under way  *)
(* when the attempt wants to let go.                                       *)
Interrupt ==
    /\ ~interrupted /\ ~reported /\ attempt # "gone"
    /\ interrupted' = TRUE
    /\ CASE attempt = "terminal" -> StopHost /\ UNCHANGED <<attempt, verdict, reported, linked>>
         [] attempt \in AfterFence ->
               /\ StopHost
               /\ attempt' = "terminal" /\ verdict' = Verdict("unknown", "none") /\ reported' = TRUE
               /\ Release
         [] OTHER -> FailBeforeFence("cancelled")
    /\ UNCHANGED <<exitSeen, channelVars, host, readySend, committed, ownerVars>>

-----------------------------------------------------------------------------
(* ManagedOwnedProcess: the end of a stop, and the exit of the process      *)

(* The grace period is over.                                               *)
Escalate ==
    /\ killer = "term" /\ ~exitSeen /\ attempt # "gone"
    /\ killer' = "kill"
    /\ UNCHANGED <<attempt, verdict, reported, interrupted, exitSeen, linked,
                   channelVars, hostVars, ownerVars>>

KillWaitPassesM ==  \* a rejected stop is not caught
    /\ killer = "kill" /\ ~exitSeen /\ attempt # "gone"
    /\ killer' = "timeout"
    /\ UNCHANGED <<attempt, verdict, reported, interrupted, exitSeen, linked,
                   channelVars, hostVars, ownerVars>>

(* SIGKILL had no effect in time: the stop rejects, what waits for it is    *)
(* reported as retained.                                                   *)
KillWaitPasses ==
    /\ killer = "kill" /\ ~exitSeen /\ attempt # "gone"
    /\ killer' = "timeout"
    /\ reported' = TRUE
    /\ verdict' = IF reported THEN verdict ELSE Verdict(verdict.code, "retained")
    /\ UNCHANGED <<attempt, interrupted, exitSeen, linked, channelVars, hostVars, ownerVars>>

SeeExit ==
    /\ host = "dead" /\ ~exitSeen
    /\ attempt \in BeforeFence \cup AfterFence \/ (attempt = "terminal" /\ linked)
    /\ exitSeen' = TRUE
    /\ killer' = IF killer \in {"term", "kill"} \/ attempt \in BeforeFence
                    THEN "stopped" ELSE killer
    /\ attempt' = "terminal"
    /\ reported' = TRUE
    /\ verdict' = CASE attempt \in BeforeFence -> Verdict("failed", "none")
                    [] attempt \in AfterFence  -> Verdict("unknown", "none")
                    [] OTHER                   -> verdict
    /\ linked' = (linked /\ attempt \notin AfterFence)
    /\ UNCHANGED <<interrupted, channelVars, hostVars, ownerVars>>

(* The CLI process is killed, or ends once there is nothing left to wait for. *)
LauncherDies ==
    /\ attempt # "gone"
    /\ attempt' = "gone"
    /\ linked' = FALSE
    /\ UNCHANGED <<verdict, reported, killer, interrupted, exitSeen,
                   channelVars, hostVars, ownerVars>>

-----------------------------------------------------------------------------
(* The host                                                                *)

(* A message to the launcher: lost when its end is closed, and not looked   *)
(* at after the claim.                                                     *)
Tell(message) ==
    toLauncher' = IF linked /\ attempt # "terminal" THEN Append(toLauncher, message)
                  ELSE toLauncher

CloseOwner == owner' = IF owner \in {"starting", "ready"} THEN "closing" ELSE owner

(* beginClose: with an owner the host waits for its outcome, and while open *)
(* is pending for that.                                                    *)
BeginClose ==
    /\ host' = IF HostEnded THEN host
               ELSE IF owner \in {"none", "busy", "failed"} THEN "finished" ELSE "closing"
    /\ CloseOwner

Fail ==
    IF host = "closing" \/ HostEnded
       THEN UNCHANGED <<host, owner, toLauncher>>
       ELSE BeginClose /\ Tell("failed")

(* Nest is up and ServerHostEntry.start runs: a signal or a disconnect that *)
(* came before is replayed.                                                *)
Boot ==
    /\ host = "loading" /\ attempt # "spawning"
    /\ Tell("booted")
    /\ host' = IF signalled \/ ~linked THEN "finished" ELSE "booting"
    /\ signalled' = FALSE
    /\ UNCHANGED <<launcherVars, toHost, readySend, committed, ownerVars>>

LoadFails ==
    /\ host = "loading" /\ attempt # "spawning"
    /\ Tell("failed")
    /\ host' = "finished"
    /\ UNCHANGED <<launcherVars, toHost, signalled, readySend, committed, ownerVars>>

BootSent ==
    /\ host = "booting"
    /\ host' = "awaiting-start"
    /\ UNCHANGED <<launcherVars, channelVars, signalled, readySend, committed, ownerVars>>

BootSendFails ==
    /\ host = "booting"
    /\ Fail
    /\ UNCHANGED <<launcherVars, toHost, signalled, readySend, committed, outcome, lease>>

TakeStart ==
    /\ toHost # <<>> /\ Head(toHost) = "start" /\ host \notin {"loading", "dead"}
    /\ toHost' = Tail(toHost)
    /\ IF host = "awaiting-start"
          THEN /\ host' = "starting"
               /\ owner' = "opening"
               /\ UNCHANGED toLauncher
          ELSE Fail
    /\ UNCHANGED <<launcherVars, signalled, readySend, committed, outcome, lease>>

TakeCommitM ==  \* the acknowledgement goes out before the checks
    /\ toHost # <<>> /\ Head(toHost) = "commit" /\ host \notin {"loading", "dead"}
    /\ toHost' = Tail(toHost)
    /\ Tell("committed")
    /\ \/ /\ host = "ready-awaiting-commit"
          /\ host' = "committed"
          /\ committed' = TRUE
          /\ UNCHANGED owner
       \/ /\ IF host = "closing" \/ HostEnded THEN UNCHANGED <<host, owner>> ELSE BeginClose
          /\ UNCHANGED committed
    /\ UNCHANGED <<launcherVars, signalled, readySend, outcome, lease>>

(* commit is accepted only by a host that is ready, in time.               *)
TakeCommit ==
    /\ toHost # <<>> /\ Head(toHost) = "commit" /\ host \notin {"loading", "dead"}
    /\ toHost' = Tail(toHost)
    /\ \/ /\ host = "ready-awaiting-commit"
          /\ host' = "committed"
          /\ committed' = TRUE
          /\ Tell("committed")
          /\ UNCHANGED owner
       \/ /\ Fail
          /\ UNCHANGED committed
    /\ UNCHANGED <<launcherVars, signalled, readySend, outcome, lease>>

DisconnectedM ==  \* a committed host closes with its launcher
    /\ ~linked /\ toHost = <<>>
    /\ host \notin {"loading", "closing", "finished", "dead"}
    /\ BeginClose
    /\ UNCHANGED <<launcherVars, channelVars, signalled, readySend, committed, outcome, lease>>

DisconnectedWaitingM ==  \* only a host that has something to close closes
    /\ ~linked /\ toHost = <<>>
    /\ host \in {"starting", "ready-awaiting-commit"}
    /\ BeginClose
    /\ UNCHANGED <<launcherVars, channelVars, signalled, readySend, committed, outcome, lease>>

(* The channel ends behind the messages in it.                             *)
Disconnected ==
    /\ ~linked /\ toHost = <<>>
    /\ host \notin {"loading", "committed", "closing", "finished", "dead"}
    /\ BeginClose
    /\ UNCHANGED <<launcherVars, channelVars, signalled, readySend, committed, outcome, lease>>

HostDeadline ==
    /\ host \in {"starting", "ready-awaiting-commit"}
    /\ Fail
    /\ UNCHANGED <<launcherVars, toHost, signalled, readySend, committed, outcome, lease>>

SignalHandled ==
    /\ signalled /\ host \notin {"loading", "dead"}
    /\ signalled' = FALSE
    /\ IF host = "closing" THEN UNCHANGED <<host, owner>> ELSE BeginClose
    /\ UNCHANGED <<launcherVars, channelVars, readySend, committed, outcome, lease>>

ReadySent ==
    /\ readySend /\ host # "dead"
    /\ readySend' = FALSE
    /\ UNCHANGED <<launcherVars, channelVars, host, signalled, committed, ownerVars>>

(* handleOpenFailure: the commit may have overtaken the callback.          *)
ReadySendFails ==
    /\ readySend /\ host # "dead"
    /\ readySend' = FALSE
    /\ IF host = "committed" THEN UNCHANGED <<host, owner, toLauncher>> ELSE Fail
    /\ UNCHANGED <<launcherVars, toHost, signalled, committed, outcome, lease>>

(* Somebody else signals the server process.                               *)
SignalSent ==
    /\ ~signalled /\ host # "dead"
    /\ signalled' = TRUE
    /\ UNCHANGED <<launcherVars, channelVars, host, readySend, committed, ownerVars>>

Die ==
    /\ host' = "dead"
    /\ signalled' = FALSE /\ readySend' = FALSE
    /\ toHost' = <<>>
    /\ lease' = FALSE
    /\ UNCHANGED <<launcherVars, toLauncher, committed, owner, outcome>>

(* finishAfterSends: the channel is closed and the process ends.           *)
HostExits == host = "finished" /\ Die

HostKilled == killer \in {"kill", "timeout"} /\ host # "dead" /\ Die

(* A crash; a signal that comes before a handler is there is one too.       *)
HostCrashes == host # "dead" /\ attempt # "spawning" /\ Die

-----------------------------------------------------------------------------
(* The owner, as the host sees it                                          *)

LeaseTaken ==
    /\ owner = "opening" /\ ~lease /\ host # "dead"
    /\ lease' = TRUE
    /\ UNCHANGED <<launcherVars, channelVars, hostVars, owner, outcome>>

OwnerBusy ==
    /\ owner = "opening" /\ ~lease /\ host # "dead"
    /\ owner' = "busy"
    /\ Tell("busy")
    /\ host' = "finished"
    /\ UNCHANGED <<launcherVars, toHost, signalled, readySend, committed, outcome, lease>>

(* open has returned: a host that closes meanwhile, or knows that its        *)
(* channel is closed, closes the owner at once; an early stop has closed it. *)
OwnerOpened ==
    /\ owner = "early" \/ (owner = "opening" /\ lease)
    /\ host # "dead"
    /\ \/ owner' = "starting" /\ owner = "opening" /\ host = "starting"
       \/ owner' = "closing" /\ (owner = "early" \/ host # "starting" \/ ~linked)
    /\ UNCHANGED <<launcherVars, channelVars, hostVars, outcome, lease>>

(* handleOpenFailure; in the end the process takes a lease with it that     *)
(* open could not release.                                                 *)
OwnerOpenFails ==
    /\ owner = "opening" /\ host # "dead"
    /\ owner' = "failed"
    /\ lease' \in {lease, FALSE}
    /\ host' = "finished"
    /\ IF host = "starting" THEN Tell("failed") ELSE UNCHANGED toLauncher
    /\ UNCHANGED <<launcherVars, toHost, signalled, readySend, committed, outcome>>

OwnerReady ==
    /\ owner = "starting" /\ host # "dead"
    /\ IF host = "starting"
          THEN /\ owner' = "ready"
               /\ host' = "ready-awaiting-commit"
               /\ Tell("ready")
               /\ readySend' = TRUE
          ELSE BeginClose /\ UNCHANGED <<toLauncher, readySend>>
    /\ UNCHANGED <<launcherVars, toHost, signalled, committed, outcome, lease>>

(* A stop over the control endpoint, the exit of Core, a start that failed;  *)
(* a stop that comes while open is pending is waited for within it.         *)
OwnerCloses ==
    /\ \/ owner \in {"starting", "ready"} /\ owner' = "closing"
       \/ owner = "opening" /\ lease /\ owner' = "early"
    /\ host # "dead"
    /\ UNCHANGED <<launcherVars, channelVars, hostVars, outcome, lease>>

(* The outcome resolves, and ownerCompleted runs before anything else.  It   *)
(* says of the lease what is so.                                           *)
OwnerEnds ==
    /\ owner = "closing" /\ host # "dead"
    /\ owner' = "over"
    /\ outcome' \in {"unconfirmed"}
          \cup IF lease THEN {"retained"} ELSE {"stopped", "completed"}
    /\ host' = IF outcome' \in {"stopped", "completed"} THEN "finished" ELSE "closing"
    /\ IF outcome' = "stopped" THEN UNCHANGED toLauncher ELSE Tell(outcome')
    /\ UNCHANGED <<launcherVars, toHost, signalled, readySend, committed, lease>>

(* closeOwned gives the lease back, for a close or, after the outcome, in the *)
(* background; released() then ends the host, unless release has thrown.    *)
LeaseReleased ==
    /\ lease /\ host # "dead"
    /\ owner \in {"early", "closing"} \/ outcome = "retained"
    /\ lease' = FALSE
    /\ host' \in IF outcome = "retained" THEN {"finished", host} ELSE {host}
    /\ UNCHANGED <<launcherVars, channelVars, signalled, readySend, committed, owner, outcome>>

-----------------------------------------------------------------------------
LauncherStep ==
    \/ Spawned \/ SpawnFails \/ Receive \/ Sent \/ SendFails \/ LauncherDeadline
    \/ Escalate \/ KillWaitPasses \/ SeeExit

HostStep ==
    \/ Boot \/ LoadFails \/ BootSent \/ BootSendFails \/ TakeStart \/ TakeCommit
    \/ Disconnected \/ HostDeadline \/ SignalHandled \/ ReadySent \/ ReadySendFails
    \/ HostExits \/ HostKilled

OpenStep == LeaseTaken \/ OwnerBusy \/ OwnerOpened \/ OwnerOpenFails

OwnerStep == OpenStep \/ OwnerReady \/ OwnerCloses \/ OwnerEnds \/ LeaseReleased

OutsideStep == Interrupt \/ LauncherDies \/ SignalSent \/ HostCrashes

Next == LauncherStep \/ HostStep \/ OwnerStep \/ OutsideStep

Spec == Init /\ [][Next]_vars

(* Timers fire, messages and the end of the channel arrive, a pending open  *)
(* settles, and a close that was begun has an outcome (CallsAreAnswered of  *)
(* ServerOwner).  Nobody has to interrupt, signal or crash, no start has to *)
(* succeed and no retained lease has to be given back.                     *)
Fairness ==
    /\ WF_vars(LauncherStep)
    /\ WF_vars(Boot \/ LoadFails) /\ WF_vars(BootSent \/ BootSendFails)
    /\ WF_vars(TakeStart \/ TakeCommit) /\ WF_vars(Disconnected) /\ WF_vars(HostDeadline)
    /\ WF_vars(HostExits) /\ WF_vars(OpenStep) /\ WF_vars(OwnerEnds)

FairSpec == Spec /\ Fairness

-----------------------------------------------------------------------------
(* Properties                                                              *)

(* The owner of this host does what HostedOwner allows, and nothing else.    *)
Owner == INSTANCE HostedOwner WITH
    stage <- IF host = "dead" THEN "dead"
             ELSE CASE owner \in {"none", "opening"} -> "opening"
                    [] owner \in {"busy", "failed"}  -> "refused"
                    [] owner = "early"               -> "closing"
                    [] OTHER                         -> owner

ImplementsHostedOwner == Owner!Spec

(* What the launch reports is so: a started server has committed and is     *)
(* let go, a busy one never owned the directory, one whose failure was      *)
(* cleaned up owns nothing, and a failure without a word on cleanup was     *)
(* reported of a process that was seen to die.                             *)
VerdictIsTrue ==
    /\ verdict.code = "started" => committed /\ killer = "none" /\ ~linked
    /\ verdict.code = "busy" => owner = "busy" /\ ~lease
    /\ verdict.cleanup = "completed" => ~lease /\ outcome = "completed"
    /\ reported /\ verdict.code \in {"cancelled", "failed"} /\ verdict.cleanup = "none"
          => host = "dead"

(* Only a signal or its own owner ends a committed server: not the launcher, *)
(* a deadline, a late callback or a message.                               *)
CommittedStands ==
    [][(host = "committed" /\ host' # "committed") =>
          \/ signalled
          \/ outcome' # "pending"
          \/ host' = "dead"]_vars

(* Giving up after the fence leaves the host alone: abandonUncertain lets   *)
(* go of the process and nothing stops it.                                 *)
AbandonedIsLeftAlone ==
    [][(attempt \in AfterFence /\ attempt' = "terminal") => killer' = "none" /\ ~linked']_vars

(* Every launch is reported, unless the CLI process dies.                  *)
LaunchIsReported == <>(reported \/ attempt = "gone")

(* A server that never committed does not outlive its launcher: it ends, or *)
(* its owner has reported that it could not.                               *)
OrphanEnds ==
    (~linked /\ ~committed) ~> (committed \/ host = "dead" \/ outcome \in {"retained", "unconfirmed"})

=============================================================================
