------------------------------ MODULE CoreHost ------------------------------
(***************************************************************************)
(* Revo Core as a child process: CoreHostProcessResource in the server      *)
(* host, CoreChildEntry and CoreChildRunner in the child, and the IPC       *)
(* channel between them.                                                   *)
(*                                                                         *)
(* In the host, start, the caller's close, the termination that a failed    *)
(* start begins, the late cleanup of a child that was spawned too late, the *)
(* chain of stage callbacks and the messages of the child interleave at     *)
(* every await.  In the child, the messages of the host, the disconnection  *)
(* and the startup of the runtime do.  The host may be killed at any time,  *)
(* the child may crash at any time.                                        *)
(***************************************************************************)
EXTENDS Naturals, Sequences, SequencesExt

CONSTANTS
    StageLimit,     \* stage messages the host takes (8 in the code)
    RuntimeStages   \* stages the runtime reports at most while it starts

ASSUME StageLimitAssumption == StageLimit \in Nat
ASSUME RuntimeStagesAssumption == RuntimeStages \in Nat

VARIABLES
    \* the host: CoreHostProcessResource and the calls it has received
    hostUp,      \* the server host lives
    phase,       \* LifecyclePhase
    failure,     \* the first failure is latched
    spawn,       \* spawnOperation, spawnRejected
    completion,  \* the exit of the child has been observed
    messages,    \* lifecycle messages received and not yet consumed
    received,    \* stage messages accepted: the length of the stageDrain chain
    persisted,   \* stage callbacks that have resolved
    stageFailed, \* the stageDrain chain has rejected
    start,       \* where start() is
    aborted,     \* the caller has aborted its signal
    close,       \* what the last close() has returned
    term,        \* where each terminate() is: of start, of close, of lateCleanup
    \* the channel
    connected, toChild, toHost,
    \* the child
    child,       \* the process
    signalled,   \* it has been sent SIGTERM
    entry,       \* CoreChildEntry
    pending,     \* messages kept until the runner exists
    operation,   \* CoreChildRunner.operation: the start of the runtime
    reported,    \* stages the runtime has reported
    runtime,     \* the Core runtime: database pool, listener; "broken" when
                 \* its close has rejected and they may still be there
    finish,      \* CoreChildRunner.terminalOperation
    exitCode     \* process.exitCode: 1 for a failure

startVars   == <<start, aborted>>
stageVars   == <<received, persisted, stageFailed>>
callVars    == <<close, term>>
hostVars    == <<hostUp, phase, failure, spawn, completion, messages, stageVars, startVars, callVars>>
channelVars == <<connected, toChild, toHost>>
runnerVars  == <<operation, reported, runtime, finish, exitCode>>
childVars   == <<child, signalled, entry, pending, runnerVars>>
vars == <<hostVars, channelVars, childVars>>

Phases == {"idle", "spawning", "booting", "starting", "draining",
           "listening", "stopping", "settled", "failed"}
Waiting == {"spawn", "booted", "listening", "drain"}
Terminator == {"start", "close", "late"}
Active == {"spawn", "send", "grace", "stop"}

TypeOK ==
    /\ hostUp \in BOOLEAN /\ failure \in BOOLEAN /\ completion \in BOOLEAN
    /\ stageFailed \in BOOLEAN /\ aborted \in BOOLEAN
    /\ connected \in BOOLEAN /\ signalled \in BOOLEAN
    /\ phase \in Phases
    /\ spawn \in {"none", "pending", "done", "rejected"}
    /\ messages \subseteq {"booted", "listening"}
    /\ received \in 0..StageLimit /\ persisted \in 0..StageLimit
    /\ start \in {"idle", "cleanup", "ready", "failed"} \cup Waiting
    /\ close \in {"none", "closing", "closed", "failed"}
    /\ term \in [Terminator -> {"none", "armed", "done", "failed"} \cup Active]
    /\ toChild \in Seq({"hello", "start", "shutdown"})
    /\ toHost \in Seq({"booted", "stage", "listening", "failed"})
    /\ child \in {"none", "alive", "exited"}
    /\ entry \in {"waiting", "loading", "booting", "running", "finished"}
    /\ pending \subseteq {"start", "shutdown"}
    /\ operation \in {"none", "create", "prepare", "report", "done", "stopped", "failed"}
    /\ reported \in 0..RuntimeStages
    /\ runtime \in {"none", "open", "closed", "broken"}
    /\ finish \in {"none", "waiting", "closing", "finished"}
    /\ exitCode \in {0, 1}

Init ==
    /\ hostUp = TRUE /\ phase = "idle" /\ failure = FALSE
    /\ spawn = "none" /\ completion = FALSE /\ messages = {}
    /\ received = 0 /\ persisted = 0 /\ stageFailed = FALSE
    /\ start = "idle" /\ aborted = FALSE /\ close = "none"
    /\ term = [w \in Terminator |-> "none"]
    /\ connected = FALSE /\ toChild = <<>> /\ toHost = <<>>
    /\ child = "none" /\ signalled = FALSE
    /\ entry = "waiting" /\ pending = {}
    /\ operation = "none" /\ reported = 0 /\ runtime = "none" /\ finish = "none"
    /\ exitCode = 0

-----------------------------------------------------------------------------
(* The host: start                                                         *)

(* The first failure stays, but whatever the phase was it is "failed" now.  *)
Latch ==
    /\ failure' = TRUE
    /\ phase' = "failed"

(* throwIfUnavailable, but for the deadline.                               *)
Available == ~failure /\ ~completion /\ phase \notin {"stopping", "failed"}

(* waitForWake, and the race of waitForSpawn: a wait of start ends when      *)
(* anything has changed, at the deadline, or with the signal of the caller.  *)
WaitEnds(steps) == hostUp /\ start \in steps

(* retainLateCleanup: a child that is still to come will be terminated.     *)
RetainLateCleanup == [term EXCEPT !["late"] = IF @ = "none" THEN "armed" ELSE @]

(* A send rejects when the channel is down.  A second shutdown is not put   *)
(* behind one that is still under way: the child acts on the first only.    *)
SendToChild(m) ==
    toChild' = IF connected /\ ~Contains(toChild, m) THEN Append(toChild, m) ELSE toChild

(* terminate up to its first await.                                        *)
TermBegins(w) ==
    /\ phase' = "stopping"
    /\ term' = [term EXCEPT ![w] = IF spawn = "done" THEN "send"
                                   ELSE IF spawn = "pending" THEN "spawn" ELSE "done"]

(* start: rejected after a close, or with a signal that is already aborted. *)
Start ==
    /\ hostUp /\ start = "idle"
    /\ IF phase = "idle" /\ ~aborted
          THEN start' = "spawn" /\ phase' = "spawning" /\ spawn' = "pending"
          ELSE start' = "failed" /\ UNCHANGED <<phase, spawn>>
    /\ UNCHANGED <<hostUp, failure, completion, messages, stageVars, aborted, callVars,
                   channelVars, childVars>>

RegisterM ==  \* a child that comes after the end is only taken in
    /\ hostUp /\ spawn = "pending"
    /\ spawn' = "done" /\ child' = "alive" /\ connected' = TRUE
    /\ UNCHANGED <<hostUp, phase, failure, completion, messages, stageVars, startVars, callVars,
                   toChild, toHost, signalled, entry, pending, runnerVars>>

(* The spawn has succeeded.  A resource that is stopping or has failed      *)
(* terminates the child at once, unless retainLateCleanup has arranged it.  *)
Register ==
    /\ hostUp /\ spawn = "pending"
    /\ spawn' = "done" /\ child' = "alive" /\ connected' = TRUE
    /\ IF term["late"] = "armed" \/ (term["late"] = "none" /\ (phase = "stopping" \/ failure))
          THEN /\ term' = [term EXCEPT !["late"] = "send"]
               /\ phase' = "stopping"
          ELSE UNCHANGED <<term, phase>>
    /\ UNCHANGED <<hostUp, failure, completion, messages, stageVars, startVars, close,
                   toChild, toHost, signalled, entry, pending, runnerVars>>

SpawnRejected ==
    /\ hostUp /\ spawn = "pending"
    /\ spawn' = "rejected"
    /\ UNCHANGED <<hostUp, phase, failure, completion, messages, stageVars, startVars, callVars,
                   channelVars, childVars>>

(* waitForSpawn has the child: subscribe and say hello.                    *)
SpawnSeen ==
    /\ WaitEnds({"spawn"}) /\ spawn = "done" /\ Available
    /\ start' = "booted" /\ phase' = "booting"
    /\ SendToChild("hello")
    /\ UNCHANGED <<hostUp, failure, spawn, completion, messages, stageVars, aborted, callVars,
                   connected, toHost, childVars>>

BootedSeen ==
    /\ WaitEnds({"booted"}) /\ "booted" \in messages /\ Available
    /\ messages' = messages \ {"booted"}
    /\ start' = "listening" /\ phase' = "starting"
    /\ SendToChild("start")
    /\ UNCHANGED <<hostUp, failure, spawn, completion, stageVars, aborted, callVars,
                   connected, toHost, childVars>>

ListeningSeen ==
    /\ WaitEnds({"listening"}) /\ "listening" \in messages /\ Available
    /\ messages' = messages \ {"listening"}
    /\ start' = "drain"
    /\ UNCHANGED <<hostUp, phase, failure, spawn, completion, stageVars, aborted, callVars,
                   channelVars, childVars>>

StartReadyM ==  \* the chain of stage callbacks is not waited for
    /\ hostUp /\ start = "drain" /\ Available
    /\ start' = "ready" /\ phase' = "listening"
    /\ UNCHANGED <<hostUp, failure, spawn, completion, messages, stageVars, aborted, callVars,
                   channelVars, childVars>>

(* drainStages, and the last throwIfUnavailable.                           *)
StartReady ==
    /\ WaitEnds({"drain"}) /\ received = persisted /\ ~stageFailed /\ Available
    /\ start' = "ready" /\ phase' = "listening"
    /\ UNCHANGED <<hostUp, failure, spawn, completion, messages, stageVars, aborted, callVars,
                   channelVars, childVars>>

StartFailsM ==  \* a wait of start has no deadline
    /\ WaitEnds(Waiting) /\ ~Available
    /\ failure' = TRUE
    /\ IF spawn = "done"
          THEN start' = "cleanup" /\ TermBegins("start")
          ELSE /\ start' = "failed"
               /\ term' = RetainLateCleanup
               /\ UNCHANGED phase
    /\ UNCHANGED <<hostUp, spawn, completion, messages, stageVars, aborted, close,
                   channelVars, childVars>>

(* The deadline passes, a send fails, or the wait ends and the resource is  *)
(* not available any more.  With a child, start terminates it first;        *)
(* without one, retainLateCleanup terminates it when it comes.             *)
StartFails ==
    /\ WaitEnds(Waiting)
    /\ failure' = TRUE
    /\ IF spawn = "done"
          THEN start' = "cleanup" /\ TermBegins("start")
          ELSE /\ start' = "failed"
               /\ term' = RetainLateCleanup
               /\ UNCHANGED phase
    /\ UNCHANGED <<hostUp, spawn, completion, messages, stageVars, aborted, close,
                   channelVars, childVars>>

(* start rejects, with its failure or with the one of the termination.     *)
CleanupEnds ==
    /\ hostUp /\ start = "cleanup" /\ term["start"] \in {"done", "failed"}
    /\ start' = "failed"
    /\ UNCHANGED <<hostUp, phase, failure, spawn, completion, messages, stageVars, aborted, callVars,
                   channelVars, childVars>>

(* The caller's signal; start listens until it has returned.               *)
Abort ==
    /\ hostUp /\ ~aborted /\ start \in {"idle", "cleanup"} \cup Waiting
    /\ aborted' = TRUE
    /\ IF start = "idle" THEN UNCHANGED <<failure, phase>> ELSE Latch
    /\ UNCHANGED <<hostUp, spawn, completion, messages, stageVars, start, callVars,
                   channelVars, childVars>>

-----------------------------------------------------------------------------
(* The host: receive and the chain of stage callbacks                      *)

Ignoring == phase \in {"stopping", "settled", "failed"}

Allowed(m) ==
    \/ phase = "booting" /\ m \in {"booted", "failed"}
    \/ phase = "starting" /\ m \in {"stage", "listening", "failed"}

(* The message at the head of the channel, as long as the exit, which takes *)
(* the listeners off, has not been seen.                                   *)
Receives(m) ==
    /\ hostUp /\ ~completion
    /\ toHost # <<>> /\ m = Head(toHost)
    /\ toHost' = Tail(toHost)
    /\ UNCHANGED <<hostUp, spawn, completion, persisted, stageFailed, startVars, callVars,
                   connected, toChild, childVars>>

ReceiveNothing ==
    /\ Ignoring
    /\ \E m \in {"booted", "stage", "listening", "failed"} : Receives(m)
    /\ UNCHANGED <<phase, failure, messages, received>>

ReceiveBooted ==
    /\ ~Ignoring /\ Allowed("booted") /\ Receives("booted")
    /\ messages' = messages \cup {"booted"}
    /\ UNCHANGED <<phase, failure, received>>

ReceiveStage ==
    /\ ~Ignoring /\ Allowed("stage") /\ received < StageLimit /\ Receives("stage")
    /\ received' = received + 1
    /\ UNCHANGED <<phase, failure, messages>>

ReceiveListening ==
    /\ ~Ignoring /\ Allowed("listening") /\ Receives("listening")
    /\ messages' = messages \cup {"listening"}
    /\ phase' = "draining"
    /\ UNCHANGED <<failure, received>>

(* Core reports a failure, or breaks the protocol.                         *)
ReceiveFailure ==
    /\ ~Ignoring
    /\ \E m \in {"booted", "stage", "listening", "failed"} :
          /\ Receives(m)
          /\ ~Allowed(m) \/ m = "failed" \/ (m = "stage" /\ received = StageLimit)
    /\ Latch
    /\ UNCHANGED <<messages, received>>

(* onStage, the owner's persistStage, runs for one message after the other, *)
(* and not after a failure.                                                *)
Persist ==
    /\ hostUp /\ persisted < received /\ ~stageFailed
    /\ persisted' = persisted + 1
    /\ UNCHANGED <<hostUp, phase, failure, spawn, completion, messages, received, stageFailed,
                   startVars, callVars, channelVars, childVars>>

PersistFails ==
    /\ hostUp /\ persisted < received /\ ~stageFailed
    /\ stageFailed' = TRUE
    /\ Latch
    /\ UNCHANGED <<hostUp, spawn, completion, messages, received, persisted,
                   startVars, callVars, channelVars, childVars>>

(* The exit event: ManagedOwnedProcess.completion resolves.                 *)
ExitSeen ==
    /\ hostUp /\ spawn = "done" /\ child = "exited" /\ ~completion
    /\ completion' = TRUE
    /\ phase' = IF phase = "failed" THEN "failed" ELSE "settled"
    /\ UNCHANGED <<hostUp, failure, spawn, messages, stageVars, startVars, callVars,
                   channelVars, childVars>>

-----------------------------------------------------------------------------
(* The host: close and terminate                                           *)

CloseCall ==
    /\ hostUp /\ close \in {"none", "failed"}
    /\ close' = "closing"
    /\ TermBegins("close")
    /\ UNCHANGED <<hostUp, failure, spawn, completion, messages, stageVars, startVars,
                   channelVars, childVars>>

CloseSettles ==
    /\ hostUp /\ close = "closing" /\ term["close"] \in {"done", "failed"}
    /\ close' = IF term["close"] = "done" THEN "closed" ELSE "failed"
    /\ UNCHANGED <<hostUp, phase, failure, spawn, completion, messages, stageVars, startVars, term,
                   channelVars, childVars>>

(* What a step of terminate leaves alone.                                  *)
TermStep ==
    /\ hostUp
    /\ UNCHANGED <<hostUp, phase, failure, spawn, completion, messages, stageVars, startVars, close,
                   connected, toHost, child, entry, pending, runnerVars>>

TermSpawnSeen(w) ==
    /\ term[w] = "spawn" /\ spawn \in {"done", "rejected"}
    /\ term' = [term EXCEPT ![w] = IF spawn = "done" THEN "send" ELSE "done"]
    /\ TermStep /\ UNCHANGED <<toChild, signalled>>

TermSpawnLateM(w) ==  \* a spawn that takes too long counts as none
    /\ term[w] = "spawn" /\ spawn = "pending"
    /\ term' = [RetainLateCleanup EXCEPT ![w] = "done"]
    /\ TermStep /\ UNCHANGED <<toChild, signalled>>

(* The deadline passes first: the child will be terminated when it comes.   *)
TermSpawnLate(w) ==
    /\ term[w] = "spawn" /\ spawn = "pending"
    /\ term' = [RetainLateCleanup EXCEPT ![w] = "failed"]
    /\ TermStep /\ UNCHANGED <<toChild, signalled>>

(* A shutdown that cannot be sent is no error.                             *)
TermSend(w) ==
    /\ term[w] = "send"
    /\ term' = [term EXCEPT ![w] = "grace"]
    /\ SendToChild("shutdown")
    /\ TermStep /\ UNCHANGED signalled

TermGone(w) ==
    /\ term[w] \in {"grace", "stop"} /\ completion
    /\ term' = [term EXCEPT ![w] = "done"]
    /\ TermStep /\ UNCHANGED <<toChild, signalled>>

(* The grace period is over: ManagedProcessService.stop, SIGTERM and then   *)
(* SIGKILL, the default action of both ends the child.                     *)
TermStop(w) ==
    /\ term[w] = "grace" /\ ~completion
    /\ term' = [term EXCEPT ![w] = "stop"]
    /\ signalled' = TRUE
    /\ TermStep /\ UNCHANGED toChild

TermStopFails(w) ==
    /\ term[w] = "stop" /\ ~completion
    /\ term' = [term EXCEPT ![w] = "failed"]
    /\ TermStep /\ UNCHANGED <<toChild, signalled>>

(* The host is killed; a child that is being spawned may have been created, *)
(* and nobody reads what was sent to the host.                             *)
HostDies ==
    /\ hostUp
    /\ hostUp' = FALSE
    /\ connected' = FALSE
    /\ child' \in IF spawn = "pending" THEN {"none", "alive"} ELSE {child}
    /\ toHost' = <<>>
    /\ UNCHANGED <<phase, failure, spawn, completion, messages, stageVars, startVars, callVars,
                   toChild, signalled, entry, pending, runnerVars>>

-----------------------------------------------------------------------------
(* The child: CoreChildEntry                                               *)

(* A message the runner or the entry sends: lost when the host is gone.     *)
SendToHost(m) == toHost' = IF connected THEN Append(toHost, m) ELSE toHost

(* terminate of the runner: once, and the signal of the start is aborted.   *)
Terminate == finish' = IF finish = "none" THEN "waiting" ELSE finish

(* The entry is through: the process ends when nothing is left to do, with  *)
(* one of the codes.                                                       *)
Finished(codes) ==
    /\ entry' = "finished"
    /\ connected' = FALSE
    /\ exitCode' \in codes

(* A message the child takes from the channel, before its disconnection.    *)
Takes(m) ==
    /\ child = "alive" /\ entry # "finished"
    /\ toChild # <<>> /\ m = Head(toChild)
    /\ toChild' = Tail(toChild)
    /\ UNCHANGED <<hostVars, connected, toHost, child, signalled, reported, runtime, exitCode>>

TakeHello ==
    /\ entry = "waiting" /\ Takes("hello")
    /\ entry' = "loading"
    /\ UNCHANGED <<pending, operation, finish>>

TakeEarly ==
    /\ entry \in {"waiting", "loading", "booting"}
    /\ \E m \in {"start", "shutdown"} : Takes(m) /\ pending' = pending \cup {m}
    /\ UNCHANGED <<entry, operation, finish>>

(* A start that comes when the host is already gone is not taken.           *)
TakeStart ==
    /\ entry = "running" /\ Takes("start")
    /\ operation' = IF finish = "none" THEN "create" ELSE operation
    /\ UNCHANGED <<entry, pending, finish>>

TakeShutdown ==
    /\ entry = "running" /\ Takes("shutdown")
    /\ Terminate
    /\ UNCHANGED <<entry, pending, operation>>

(* The runner has been imported, unless that failed.                       *)
Loaded ==
    /\ child = "alive" /\ entry = "loading"
    /\ \/ /\ connected
          /\ entry' = "booting"
          /\ SendToHost("booted")
          /\ UNCHANGED <<connected, exitCode>>
       \/ /\ SendToHost("failed")
          /\ Finished(IF connected THEN {1} ELSE {0, 1})
    /\ UNCHANGED <<hostVars, toChild, child, signalled, pending, operation, reported, runtime, finish>>

(* The host has been told: the runner takes what came before, in order.     *)
(* When the host is gone the send fails, the disconnection has been         *)
(* noticed, which is no failure, or it will be.                            *)
Booted ==
    /\ child = "alive" /\ entry = "booting"
    /\ \/ /\ entry' = "running"
          /\ pending' = {}
          /\ operation' = IF "start" \in pending THEN "create" ELSE operation
          /\ finish' = IF "shutdown" \in pending THEN "waiting" ELSE finish
          /\ UNCHANGED <<connected, exitCode>>
       \/ /\ ~connected
          /\ Finished({0, 1})
          /\ UNCHANGED <<pending, operation, finish>>
    /\ UNCHANGED <<hostVars, toChild, toHost, child, signalled, reported, runtime>>

(* handleDisconnect; while the runner is loaded, boot looks for itself.     *)
Disconnected ==
    /\ child = "alive" /\ ~connected
    /\ \/ entry = "waiting" /\ Finished({0}) /\ UNCHANGED finish
       \/ entry = "running" /\ finish = "none" /\ Terminate /\ UNCHANGED <<entry, connected, exitCode>>
    /\ UNCHANGED <<hostVars, toChild, toHost, child, signalled, pending, operation, reported, runtime>>

-----------------------------------------------------------------------------
(* The child: CoreChildRunner, CoreRuntimeService and CoreStageBridge       *)

Stopping == finish # "none"

RunnerStep ==
    /\ child = "alive"
    /\ UNCHANGED <<hostVars, toChild, child, signalled, pending>>

(* What closing the runtime inside the start makes of both: a close that    *)
(* rejects is an error of the start whatever the reason for it was.         *)
Closing(settled) ==
    \/ runtime' = "closed" /\ operation' = settled
    \/ runtime' = "broken" /\ operation' = "failed"

(* createRuntime, which the signal does not interrupt.                      *)
CreateRuntime ==
    /\ operation = "create"
    /\ \/ ~Stopping /\ operation' = "prepare" /\ runtime' = "open"
       \/ Stopping /\ Closing("stopped")
       \/ operation' = "failed" /\ UNCHANGED runtime
    /\ RunnerStep /\ UNCHANGED <<connected, toHost, entry, reported, finish, exitCode>>

ReportStage ==
    /\ operation = "prepare" /\ reported < RuntimeStages
    /\ reported' = reported + 1
    /\ SendToHost("stage")
    /\ RunnerStep /\ UNCHANGED <<connected, entry, operation, runtime, finish, exitCode>>

(* The runtime listens, and is only now known to the runner; an error, or   *)
(* the signal, closes it first.                                            *)
RuntimeStarted ==
    /\ operation = "prepare"
    /\ \/ ~Stopping /\ operation' = "report" /\ UNCHANGED runtime
       \/ Closing(IF Stopping THEN "stopped" ELSE "failed")
    /\ RunnerStep /\ UNCHANGED <<connected, toHost, entry, reported, finish, exitCode>>

(* bridge.drain, and the listening message; a stage that could not be sent  *)
(* fails the start.                                                        *)
ReportListening ==
    /\ operation = "report"
    /\ \/ Stopping /\ Closing("stopped") /\ UNCHANGED toHost
       \/ ~Stopping /\ connected /\ operation' = "done" /\ SendToHost("listening") /\ UNCHANGED runtime
       \/ ~Stopping /\ ~connected /\ operation' = "failed" /\ UNCHANGED <<runtime, toHost>>
    /\ RunnerStep /\ UNCHANGED <<connected, entry, reported, finish, exitCode>>

StartupFailed ==
    /\ operation = "failed" /\ ~Stopping
    /\ Terminate
    /\ RunnerStep /\ UNCHANGED <<connected, toHost, entry, operation, reported, runtime, exitCode>>

CloseRuntimeM ==  \* a start that is under way is not waited for
    /\ finish = "waiting"
    /\ finish' = "closing"
    /\ runtime' \in IF runtime = "open" /\ operation \in {"report", "done", "failed"}
                     THEN {"closed", "broken"} ELSE {runtime}
    /\ RunnerStep /\ UNCHANGED <<connected, toHost, entry, operation, reported, exitCode>>

(* finish waits for the start, then closes the runtime, once; the close may *)
(* reject.                                                                 *)
CloseRuntime ==
    /\ finish = "waiting" /\ operation \in {"none", "done", "stopped", "failed"}
    /\ finish' = "closing"
    /\ runtime' \in IF runtime = "open" THEN {"closed", "broken"} ELSE {runtime}
    /\ RunnerStep /\ UNCHANGED <<connected, toHost, entry, operation, reported, exitCode>>

(* A failed start or a failed close is told to the host, if it listens, and *)
(* left in the exit code.  Either way the entry is through.                 *)
FinishRunner ==
    /\ finish = "closing"
    /\ finish' = "finished"
    /\ IF operation = "failed" \/ runtime = "broken"
          THEN SendToHost("failed") /\ Finished({1})
          ELSE UNCHANGED toHost /\ Finished({0})
    /\ RunnerStep /\ UNCHANGED <<operation, reported, runtime>>

(* The process: it has nothing left to do, the signal ends it, it crashes.  *)
(* What it has sent is still there, what was sent to it is not.             *)
ChildGone ==
    /\ child' = "exited" /\ connected' = FALSE
    /\ toChild' = <<>>
    /\ UNCHANGED <<hostVars, toHost, signalled, entry, pending, runnerVars>>

ChildExits   == child = "alive" /\ entry = "finished" /\ ChildGone
ChildKilled  == child = "alive" /\ signalled /\ ChildGone
ChildCrashes == child = "alive" /\ ChildGone

-----------------------------------------------------------------------------
StartStep ==
    \/ Start \/ SpawnSeen \/ BootedSeen \/ ListeningSeen \/ StartReady
    \/ StartFails \/ CleanupEnds

ReceiveStep ==
    \/ ReceiveNothing \/ ReceiveBooted \/ ReceiveStage \/ ReceiveListening \/ ReceiveFailure
    \/ Persist \/ PersistFails

SpawnStep == Register \/ SpawnRejected

TerminateStep(w) ==
    \/ TermSpawnSeen(w) \/ TermSpawnLate(w) \/ TermSend(w)
    \/ TermGone(w) \/ TermStop(w) \/ TermStopFails(w)

EntryStep ==
    \/ TakeHello \/ TakeEarly \/ TakeStart \/ TakeShutdown
    \/ Loaded \/ Booted \/ Disconnected

RunnerNext ==
    \/ CreateRuntime \/ ReportStage \/ RuntimeStarted \/ ReportListening
    \/ StartupFailed \/ CloseRuntime \/ FinishRunner

Next ==
    \/ StartStep \/ ReceiveStep \/ SpawnStep \/ ExitSeen
    \/ CloseCall \/ CloseSettles \/ \E w \in Terminator : TerminateStep(w)
    \/ Abort \/ HostDies
    \/ EntryStep \/ RunnerNext
    \/ ChildExits \/ ChildKilled \/ ChildCrashes

Spec == Init /\ [][Next]_vars

(* The host's timers and its event loop; SIGKILL; and the child's own       *)
(* steps: the import, the runtime's start and its close all end.  No        *)
(* message has to arrive in time, and the host need not see the exit in     *)
(* time either.  A Core that is through ends when its runtime is closed:    *)
(* what a rejected close has left may keep the process alive for good.      *)
Fairness ==
    /\ WF_vars(StartFails) /\ WF_vars(CleanupEnds) /\ WF_vars(SpawnStep)
    /\ WF_vars(ExitSeen) /\ WF_vars(CloseSettles)
    /\ \A w \in Terminator :
          /\ WF_vars(TermSpawnSeen(w)) /\ WF_vars(TermSpawnLate(w)) /\ WF_vars(TermSend(w))
          /\ WF_vars(TermGone(w)) /\ WF_vars(TermStop(w)) /\ WF_vars(TermStopFails(w))
    /\ WF_vars(Loaded) /\ WF_vars(Booted) /\ WF_vars(Disconnected)
    /\ WF_vars(RunnerNext) /\ WF_vars(runtime # "broken" /\ ChildExits) /\ WF_vars(ChildKilled)

FairSpec == Spec /\ Fairness

-----------------------------------------------------------------------------
(* Properties                                                              *)

(* The resource keeps the promise of OwnedChild, whatever is interleaved:   *)
(* a late spawn, a close during the start, a failure after the close.       *)
Owned == INSTANCE OwnedChild WITH
    start <- IF start \in {"idle", "ready", "failed"} THEN start ELSE "pending",
    child <- IF child = "alive" THEN "alive"
             ELSE IF child = "exited" THEN IF completion THEN "none" ELSE "dead"
             ELSE IF spawn = "pending" THEN "coming" ELSE "none"

ImplementsOwnedChild == Owned!Spec

(* assertRunning of the host.                                              *)
AssertRunning == phase = "listening" /\ ~failure /\ ~completion

(* As long as the host takes Core for running, every stage Core has         *)
(* reported is in the journal, and Core has not given its runtime up.       *)
ListeningIsTrue ==
    (start = "ready" /\ AssertRunning /\ hostUp) =>
        /\ persisted = reported
        /\ operation = "done"
        /\ child = "alive" => runtime = "open" /\ finish = "none"

(* Core is through only when its start is and its runtime was closed, and   *)
(* nothing opens it again: a shutdown, a lost host and a failed start meet  *)
(* the startup anywhere.  If one of the four places that close it was       *)
(* refused, the exit code says so.                                         *)
FinishedMeansClosed ==
    entry = "finished" =>
        /\ operation \notin {"create", "prepare", "report"}
        /\ runtime # "open"
        /\ exitCode = 0 => operation # "failed" /\ runtime # "broken"

(* No Core is left behind by a start that has failed or a close, even if    *)
(* the spawn was still pending then and nobody waits for it any more; nor   *)
(* by a host that is killed, but for a Core whose runtime did not close:    *)
(* only a host would have killed that one.                                 *)
NoCoreIsLeft ==
    child = "alive" /\ (~hostUp \/ start = "failed" \/ close # "none")
        ~> child = "exited" \/ (~hostUp /\ runtime = "broken")

(* start and close settle, whatever Core does.                             *)
CallsSettle ==
    /\ start \in Waiting \cup {"cleanup"} ~> start \in {"ready", "failed"} \/ ~hostUp
    /\ close = "closing" ~> close \in {"closed", "failed"} \/ ~hostUp

=============================================================================
