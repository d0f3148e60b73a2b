---------------------------- MODULE DataDirectory ----------------------------
(***************************************************************************)
(* One Revo data directory, the server processes that want to own it and   *)
(* the CLI processes that look at it.  They share three things on disk and  *)
(* one socket per server:                                                  *)
(*                                                                         *)
(*   .revo-server.lock     an advisory flock, held by the owning server and *)
(*                         for a moment by every CLI that probes it;       *)
(*   .revo-control.json    the locator: which incarnation to talk to;      *)
(*   .revo-control.*.tmp   the locator being written;                      *)
(*   the control endpoint  one private socket per incarnation.             *)
(*                                                                         *)
(* A Server is one incarnation of bin/revo-server (its random instanceId), *)
(* a Client one run of the `revo server` command.  The owned database and  *)
(* Core processes are behind the steps ResourcesStopped, CoreStuck and      *)
(* PostgresStuck; what they do inside is the subject of ServerOwner.       *)
(***************************************************************************)
EXTENDS FiniteSets

CONSTANTS Server,   \* server incarnations
          Client,   \* runs of the CLI
          NoOne     \* neither

ASSUME DistinctParties == /\ NoOne \notin Server \cup Client
                          /\ Server \cap Client = {}

VARIABLES
    lockFile,       \* .revo-server.lock exists; it is never removed
    lock,           \* who holds the flock on .revo-server.lock
    locator,        \* the incarnation .revo-control.json names
    temporary,      \* incarnations whose .revo-control.<id>.tmp exists
    pc,             \* where a server is in PublishedControlService open/close
    settling,       \* HeldControlShutdown.finalize runs in the background
    failures,       \* closeOwned recorded a failure
    phase,          \* ServerOwnerResource.lifecyclePhase
    session,        \* ControlEndpointSession.phase
    closeRequested, \* ControlEndpointSession.closeRequested
    stopRun,        \* progress of the stop the session accepted
    responder,      \* ControlEndpointSession.responder
    command,        \* what a CLI run was asked to do
    step,           \* where it is
    seen,           \* the incarnation in the locator it read
    answer          \* what it reports

diskVars    == <<lockFile, lock, locator, temporary>>
serverVars  == <<pc, settling, failures, phase>>
sessionVars == <<session, closeRequested, stopRun, responder>>
clientVars  == <<command, step, seen, answer>>
vars == <<diskVars, serverVars, sessionVars, clientVars>>

-----------------------------------------------------------------------------
(* The stages of one incarnation.                                          *)

Opening   == {"owning", "listening", "writing"}           \* open, lease held
Serving   == {"published", "held", "closing", "retained"} \* locator published
Retiring  == {"finalizing", "retracting", "unlinking", "leaving", "left"}  \* closeOwned
Aborting  == {"aborting", "erasing", "quitting", "quit"}  \* cleanupStartup
Unlocked  == {"left", "quit"}                             \* release is half done
Owning    == (Opening \cup Serving \cup Retiring \cup Aborting) \ Unlocked
Settled   == {"busy", "aborted", "released", "unconfirmed"} \* open/close ended
Stages    == {"idle", "spawned", "exited"} \cup Owning \cup Unlocked \cup Settled

Phases    == {"starting", "running", "stopping", "stopped", "failed", "none"}
Commands  == {"none", "status", "start", "stop"}
Steps     == {"idle", "reading", "inspecting", "freeing", "clear", "asking",
              "probing", "confirming", "rereading", "reinspecting", "refreeing",
              "spawning", "locating", "requesting", "awaiting", "done"}
Answers   == {"none", "stopped", "starting", "running", "stopping", "failed",
              "unknown", "owned", "unavailable", "launched", "completed",
              "unconfirmed"}

TypeOK ==
    /\ lockFile \in BOOLEAN
    /\ lock \in Server \cup Client \cup {NoOne}
    /\ locator \in Server \cup {NoOne}
    /\ temporary \in SUBSET Server
    /\ pc \in [Server -> Stages]
    /\ settling \in [Server -> BOOLEAN]
    /\ failures \in [Server -> BOOLEAN]
    /\ phase \in [Server -> Phases]
    /\ session \in [Server -> {"closed", "accepting", "stopping", "terminal"}]
    /\ closeRequested \in [Server -> BOOLEAN]
    /\ stopRun \in [Server -> {"none", "accepted", "running",
                               "completed", "retained", "unconfirmed"}]
    /\ responder \in [Server -> Client \cup {NoOne}]
    /\ command \in [Client -> Commands]
    /\ step \in [Client -> Steps]
    /\ seen \in [Client -> Server \cup {NoOne}]
    /\ answer \in [Client -> Answers]

Init ==
    /\ lockFile = FALSE
    /\ lock = NoOne
    /\ locator = NoOne
    /\ temporary = {}
    /\ pc = [s \in Server |-> "idle"]
    /\ settling = [s \in Server |-> FALSE]
    /\ failures = [s \in Server |-> FALSE]
    /\ phase = [s \in Server |-> "none"]
    /\ session = [s \in Server |-> "closed"]
    /\ closeRequested = [s \in Server |-> FALSE]
    /\ stopRun = [s \in Server |-> "none"]
    /\ responder = [s \in Server |-> NoOne]
    /\ command = [c \in Client |-> "none"]
    /\ step = [c \in Client |-> "idle"]
    /\ seen = [c \in Client |-> NoOne]
    /\ answer = [c \in Client |-> "none"]

Go(s, stage) == pc' = [pc EXCEPT ![s] = stage]

Fail(s) == failures' = [failures EXCEPT ![s] = TRUE]

-----------------------------------------------------------------------------
(* Opening: ServerOwnershipService.acquire and PublishedControlService.open *)

(* A definition whose name ends in M is a faulty variant of    *)
(* the one that follows it: no step uses it, and putting it in the place    *)
(* of the original must make a property fail (README, "Mutants").           *)

AcquireM(s) ==  \* flock is not asked for its verdict
    /\ pc[s] = "spawned"
    /\ lock' = s
    /\ lockFile' = TRUE
    /\ Go(s, "owning")
    /\ phase' = [phase EXCEPT ![s] = "starting"]
    /\ UNCHANGED <<locator, temporary, settling, failures, sessionVars, clientVars>>

(* The lock file is created when it is not there, then locked.             *)
Acquire(s) ==
    /\ pc[s] = "spawned"
    /\ lock = NoOne
    /\ lock' = s
    /\ lockFile' = TRUE
    /\ Go(s, "owning")
    /\ phase' = [phase EXCEPT ![s] = "starting"]
    /\ UNCHANGED <<locator, temporary, settling, failures, sessionVars, clientVars>>

(* flock is not blocking: whoever holds it, a probing CLI included, makes  *)
(* the start end as busy.                                                  *)
AcquireBusy(s) ==
    /\ pc[s] = "spawned"
    /\ lock # NoOne
    /\ Go(s, "busy")
    /\ UNCHANGED <<diskVars, settling, failures, phase, sessionVars, clientVars>>

Listen(s) ==
    /\ pc[s] = "owning"
    /\ Go(s, "listening")
    /\ session' = [session EXCEPT ![s] = "accepting"]
    /\ UNCHANGED <<diskVars, settling, failures, phase,
                   closeRequested, stopRun, responder, clientVars>>

(* progress.initialize, then the record is written to the temporary file.  *)
WriteTemporary(s) ==
    /\ pc[s] = "listening"
    /\ temporary' = temporary \cup {s}
    /\ Go(s, "writing")
    /\ UNCHANGED <<lockFile, lock, locator, settling, failures, phase, sessionVars, clientVars>>

(* The rename publishes the locator over whatever is there: from here on a  *)
(* CLI finds the endpoint.                                                 *)
PublishLocator(s) ==
    /\ pc[s] = "writing"
    /\ locator' = s
    /\ temporary' = temporary \ {s}
    /\ Go(s, "published")
    /\ UNCHANGED <<lockFile, lock, settling, failures, phase, sessionVars, clientVars>>

(* open returns and the owner is assigned: a stop that was already waiting  *)
(* for the owner closes it at once.                                        *)
OpenReturns(s) ==
    /\ pc[s] = "published"
    /\ IF stopRun[s] = "running"
          THEN /\ Go(s, "closing")
               /\ phase' = [phase EXCEPT ![s] = "stopping"]
          ELSE /\ Go(s, "held")
               /\ UNCHANGED phase
    /\ UNCHANGED <<diskVars, settling, failures, sessionVars, clientVars>>

(* Any step of open may throw: before the endpoint listens only the lease  *)
(* is given back, later the endpoint and the temporary file go as well.    *)
OpenFails(s) ==
    /\ pc[s] \in Opening
    /\ Go(s, IF pc[s] = "owning" THEN "quitting" ELSE "aborting")
    /\ UNCHANGED <<diskVars, settling, failures, phase, sessionVars, clientVars>>

-----------------------------------------------------------------------------
(* ControlEndpointSession.close: an accepted stop keeps the endpoint until  *)
(* its completion is delivered, otherwise the listener is closed, which may *)
(* fail.                                                                   *)
CloseEndpoint(s) ==
    /\ closeRequested' = [closeRequested EXCEPT ![s] = TRUE]
    /\ session' = IF session[s] = "stopping" THEN session
                  ELSE [session EXCEPT ![s] = "terminal"]
    /\ UNCHANGED failures \/ (session[s] # "stopping" /\ Fail(s))
    /\ UNCHANGED <<stopRun, responder>>

AbortEndpointM(s) ==  \* the temporary file is forgotten
    /\ pc[s] = "aborting"
    /\ CloseEndpoint(s)
    /\ Go(s, "quitting")
    /\ UNCHANGED <<diskVars, settling, phase, clientVars>>

(* cleanupStartup *)
AbortEndpoint(s) ==
    /\ pc[s] = "aborting"
    /\ CloseEndpoint(s)
    /\ Go(s, IF s \in temporary THEN "erasing" ELSE "quitting")
    /\ UNCHANGED <<diskVars, settling, phase, clientVars>>

EraseTemporary(s) ==
    /\ pc[s] = "erasing"
    /\ \/ /\ temporary' = temporary \ {s}
          /\ UNCHANGED failures
       \/ /\ Fail(s)
          /\ UNCHANGED temporary
    /\ Go(s, "quitting")
    /\ UNCHANGED <<lockFile, lock, locator, settling, phase, sessionVars, clientVars>>

SettleM(s, result) ==  \* the ownership of a failed stop is lost on the way
    stopRun' = IF stopRun[s] = "running" /\ result = "retained"
                  THEN [stopRun EXCEPT ![s] = "unconfirmed"]
               ELSE IF stopRun[s] = "running" THEN [stopRun EXCEPT ![s] = result]
               ELSE stopRun

(* The result the running stop callback gets when the owner has closed.    *)
Settle(s, result) ==
    stopRun' = IF stopRun[s] = "running" THEN [stopRun EXCEPT ![s] = result]
               ELSE stopRun

(* lease.release, in two parts: the flock is unlocked ...                  *)
Unlock(s) ==
    /\ pc[s] \in {"leaving", "quitting"}
    /\ \/ lock' = NoOne /\ UNCHANGED failures
       \/ Fail(s) /\ UNCHANGED lock
    /\ Go(s, IF pc[s] = "leaving" THEN "left" ELSE "quit")
    /\ UNCHANGED <<lockFile, locator, temporary, settling, phase, sessionVars, clientVars>>

(* ... and then its descriptor is closed, which drops a flock that could    *)
(* not be unlocked; when this fails as well, the flock stays until the      *)
(* process ends.                                                           *)
CloseLease(s) ==
    LET dropped == IF lock = s THEN NoOne ELSE lock
    IN  \/ lock' = dropped /\ UNCHANGED failures
        \/ lock' \in {lock, dropped} /\ Fail(s)

(* open rejects: the owner a waiting stop was promised never comes.        *)
AbortLease(s) ==
    /\ pc[s] = "quit"
    /\ CloseLease(s)
    /\ Go(s, "aborted")
    /\ phase' = [phase EXCEPT ![s] = "none"]
    /\ Settle(s, "unconfirmed")
    /\ UNCHANGED <<lockFile, locator, temporary, settling,
                   session, closeRequested, responder, clientVars>>

-----------------------------------------------------------------------------
(* Serving: ServerOwnerResource.start and close                            *)

(* performStart ends: database, Core and the ready record are in place.    *)
BecomeRunning(s) ==
    /\ pc[s] = "held"
    /\ phase[s] = "starting"
    /\ phase' = [phase EXCEPT ![s] = "running"]
    /\ UNCHANGED <<diskVars, pc, settling, failures, sessionVars, clientVars>>

BeginCloseM(s) ==  \* lifecyclePhase is not updated
    /\ pc[s] = "held" \/ (pc[s] = "retained" /\ ~settling[s])
    /\ Go(s, "closing")
    /\ UNCHANGED <<diskVars, settling, failures, phase, sessionVars, clientVars>>

(* A signal, a failed start, a lost launcher or the exit of Core.  A close  *)
(* that failed in Core may be repeated.                                    *)
BeginClose(s) ==
    /\ pc[s] = "held" \/ (pc[s] = "retained" /\ ~settling[s])
    /\ Go(s, "closing")
    /\ phase' = [phase EXCEPT ![s] = "stopping"]
    /\ UNCHANGED <<diskVars, settling, failures, sessionVars, clientVars>>

ResourcesStoppedM(s) ==  \* the stop is confirmed before closeOwned
    /\ pc[s] = "closing"
    /\ Go(s, "finalizing")
    /\ Settle(s, "completed")
    /\ UNCHANGED <<diskVars, settling, failures, phase,
                   session, closeRequested, responder, clientVars>>

(* Core and the database have stopped; held.close goes on to closeOwned.   *)
ResourcesStopped(s) ==
    /\ pc[s] = "closing"
    /\ Go(s, "finalizing")
    /\ UNCHANGED <<diskVars, settling, failures, phase, sessionVars, clientVars>>

(* Core did not stop in time: nothing else is closed, and only another      *)
(* close can go on.                                                        *)
CoreStuck(s) ==
    /\ pc[s] = "closing"
    /\ Go(s, "retained")
    /\ phase' = [phase EXCEPT ![s] = "failed"]
    /\ Settle(s, "retained")
    /\ UNCHANGED <<diskVars, settling, failures,
                   session, closeRequested, responder, clientVars>>

(* The database did not stop in time: ownership is kept, and finalize waits *)
(* in the background for the database to settle.                           *)
PostgresStuck(s) ==
    /\ pc[s] = "closing"
    /\ settling' = [settling EXCEPT ![s] = TRUE]
    /\ Go(s, "retained")
    /\ phase' = [phase EXCEPT ![s] = "failed"]
    /\ Settle(s, "retained")
    /\ UNCHANGED <<diskVars, failures, session, closeRequested, responder, clientVars>>

PostgresSettles(s) ==
    /\ pc[s] = "retained"
    /\ settling[s]
    /\ Go(s, "finalizing")
    /\ UNCHANGED <<diskVars, settling, failures, phase, sessionVars, clientVars>>

-----------------------------------------------------------------------------
(* PublishedControlService.closeOwned                                      *)

RetireEndpointM(s) ==  \* the lease is released before the locator is removed
    /\ pc[s] = "finalizing"
    /\ CloseEndpoint(s)
    /\ lock' = NoOne
    /\ Go(s, "retracting")
    /\ UNCHANGED <<lockFile, locator, temporary, settling, phase, clientVars>>

RetireEndpoint(s) ==
    /\ pc[s] = "finalizing"
    /\ CloseEndpoint(s)
    /\ Go(s, "retracting")
    /\ UNCHANGED <<diskVars, settling, phase, clientVars>>

(* discovery.read, and the comparison with the own instanceId and token.   *)
ReadLocator(s) ==
    /\ pc[s] = "retracting"
    /\ \/ /\ Go(s, IF locator = s THEN "unlinking" ELSE "leaving")
          /\ UNCHANGED failures
       \/ /\ Go(s, "leaving")
          /\ Fail(s)
    /\ UNCHANGED <<diskVars, settling, phase, sessionVars, clientVars>>

(* unlink removes whatever the path names by now.                          *)
UnlinkLocator(s) ==
    /\ pc[s] = "unlinking"
    /\ \/ /\ locator' = NoOne
          /\ UNCHANGED failures
       \/ /\ Fail(s)
          /\ UNCHANGED locator
    /\ Go(s, "leaving")
    /\ UNCHANGED <<lockFile, lock, temporary, settling, phase, sessionVars, clientVars>>

(* close() settles with what it could not do.                              *)
ReleaseLease(s) ==
    /\ pc[s] = "left"
    /\ CloseLease(s)
    /\ IF failures'[s]
          THEN /\ Go(s, "unconfirmed")
               /\ phase' = [phase EXCEPT ![s] = "failed"]
               /\ Settle(s, "unconfirmed")
          ELSE /\ Go(s, "released")
               /\ phase' = IF settling[s] THEN phase ELSE [phase EXCEPT ![s] = "stopped"]
               /\ Settle(s, "completed")
    /\ UNCHANGED <<lockFile, locator, temporary, settling,
                   session, closeRequested, responder, clientVars>>

-----------------------------------------------------------------------------
(* The control endpoint's stop, after acceptance: serveStop and onStop     *)

(* The acceptance is written (or is lost, which cancels nothing), then the  *)
(* callback runs stopFromControl.                                          *)
RunStop(s) ==
    /\ stopRun[s] = "accepted"
    /\ \/ /\ pc[s] = "held" \/ (pc[s] = "retained" /\ ~settling[s])
          /\ Go(s, "closing")
          /\ phase' = [phase EXCEPT ![s] = "stopping"]
          /\ stopRun' = [stopRun EXCEPT ![s] = "running"]
       \/ /\ pc[s] \in Opening \cup Aborting \cup {"published", "closing"}
             \/ (pc[s] \in Retiring /\ ~settling[s])
          /\ stopRun' = [stopRun EXCEPT ![s] = "running"]
          /\ UNCHANGED <<pc, phase>>
       \/ /\ settling[s]
          /\ pc[s] \in {"retained"} \cup Retiring
          /\ stopRun' = [stopRun EXCEPT ![s] = "retained"]
          /\ UNCHANGED <<pc, phase>>
       \/ /\ pc[s] = "released"
          /\ stopRun' = [stopRun EXCEPT ![s] = "completed"]
          /\ UNCHANGED <<pc, phase>>
       \/ /\ \/ pc[s] \in {"aborted", "unconfirmed"}
             \/ pc[s] = "released" /\ settling[s]
          /\ stopRun' = [stopRun EXCEPT ![s] = "unconfirmed"]
          /\ UNCHANGED <<pc, phase>>
    /\ UNCHANGED <<diskVars, settling, failures,
                   session, closeRequested, responder, clientVars>>

(* The completion goes to the responder if it still waits, then            *)
(* completeStop: a failed stop that kept ownership opens the endpoint again *)
(* unless the endpoint was asked to close meanwhile.                       *)
CompleteStop(s) ==
    /\ stopRun[s] \in {"completed", "retained", "unconfirmed"}
    /\ session' = [session EXCEPT ![s] =
          IF stopRun[s] = "retained" /\ ~closeRequested[s] THEN "accepting" ELSE "terminal"]
    /\ stopRun' = [stopRun EXCEPT ![s] = "none"]
    /\ responder' = [responder EXCEPT ![s] = NoOne]
    /\ IF responder[s] = NoOne
          THEN UNCHANGED clientVars
          ELSE /\ step' = [step EXCEPT ![responder[s]] = "done"]
               /\ answer' = [answer EXCEPT ![responder[s]] =
                     IF stopRun[s] = "completed" THEN "completed" ELSE "unconfirmed"]
               /\ UNCHANGED <<command, seen>>
    /\ UNCHANGED <<diskVars, serverVars, closeRequested>>

-----------------------------------------------------------------------------
(* The process ends: by itself once it is through (a reply it still owes    *)
(* keeps it alive), or killed at any point.  The kernel drops its flock and *)
(* its socket; whoever waited for a reply sees the connection end.         *)
Vanish(s) ==
    /\ Go(s, "exited")
    /\ lock' = IF lock = s THEN NoOne ELSE lock
    /\ phase' = [phase EXCEPT ![s] = "none"]
    /\ session' = [session EXCEPT ![s] = "closed"]
    /\ stopRun' = [stopRun EXCEPT ![s] = "none"]
    /\ responder' = [responder EXCEPT ![s] = NoOne]
    /\ IF responder[s] = NoOne
          THEN UNCHANGED clientVars
          ELSE /\ step' = [step EXCEPT ![responder[s]] = "done"]
               /\ answer' = [answer EXCEPT ![responder[s]] = "unconfirmed"]
               /\ UNCHANGED <<command, seen>>
    /\ UNCHANGED <<lockFile, locator, temporary, settling, failures, closeRequested>>

Exit(s) ==
    /\ pc[s] \in Settled
    /\ stopRun[s] = "none"
    /\ Vanish(s)

Crash(s) ==
    /\ pc[s] \notin {"idle", "exited"}
    /\ Vanish(s)

-----------------------------------------------------------------------------
(* The CLI: ServerCommandService over status, launcher and stop services   *)

To(c, next) == step' = [step EXCEPT ![c] = next]

Report(c, result) ==
    /\ step' = [step EXCEPT ![c] = "done"]
    /\ answer' = [answer EXCEPT ![c] = result]

ConcludeM(c, kind) ==  \* start trusts an unknown status
    \/ command[c] = "start" /\ kind = "stopped" /\ To(c, "spawning") /\ UNCHANGED answer
    \/ command[c] = "stop" /\ kind # "stopped" /\ To(c, "locating") /\ UNCHANGED answer
    \/ /\ ~(command[c] = "start" /\ kind = "stopped")
       /\ ~(command[c] = "stop" /\ kind # "stopped")
       /\ Report(c, kind)

(* What the command does with the kind ServerStatusService.read returned.  *)
Conclude(c, kind) ==
    \/ /\ command[c] = "start" /\ kind = "stopped"
       /\ To(c, "spawning") /\ UNCHANGED answer
    \/ /\ command[c] = "start" /\ kind = "unknown"
       /\ To(c, "reinspecting") /\ UNCHANGED answer
    \/ /\ command[c] = "stop" /\ kind \notin {"stopped", "unknown"}
       /\ To(c, "locating") /\ UNCHANGED answer
    \/ /\ \/ command[c] = "status"
          \/ command[c] = "start" /\ kind \notin {"stopped", "unknown"}
          \/ command[c] = "stop" /\ kind \in {"stopped", "unknown"}
       /\ Report(c, kind)

Begin(c) ==
    /\ step[c] = "idle"
    /\ \E request \in Commands \ {"none"} :
          command' = [command EXCEPT ![c] = request]
    /\ To(c, "reading")
    /\ UNCHANGED <<diskVars, serverVars, sessionVars, seen, answer>>

ReadDirectoryM(c) ==  \* no locator is taken for no server
    /\ step[c] = "reading"
    /\ seen' = [seen EXCEPT ![c] = locator]
    /\ IF locator = NoOne THEN Conclude(c, "stopped")
       ELSE To(c, "asking") /\ UNCHANGED answer
    /\ UNCHANGED <<diskVars, serverVars, sessionVars, command>>

(* ServerStatusService.read                                                *)
ReadDirectory(c) ==
    /\ step[c] = "reading"
    /\ seen' = [seen EXCEPT ![c] = locator]
    /\ To(c, IF locator = NoOne THEN "inspecting" ELSE "asking")
    /\ UNCHANGED <<diskVars, serverVars, sessionVars, command, answer>>

(* ServerOwnershipService.inspect takes the flock for a moment to see      *)
(* whether it is free.  Without a lock file nobody has ever owned the       *)
(* directory.                                                              *)
Inspect(c) ==
    /\ step[c] = "inspecting"
    /\ \/ /\ ~lockFile
          /\ To(c, "clear") /\ UNCHANGED <<lock, answer>>
       \/ /\ lockFile /\ lock = NoOne
          /\ lock' = c
          /\ To(c, "freeing") /\ UNCHANGED answer
       \/ /\ lock # NoOne
          /\ Conclude(c, "unknown")
          /\ UNCHANGED lock
    /\ UNCHANGED <<lockFile, locator, temporary, serverVars, sessionVars, command, seen>>

(* The probe unlocks; when that throws, the close of the descriptor drops   *)
(* the flock and the inspection has failed.                                *)
InspectFree(c) ==
    /\ step[c] = "freeing"
    /\ lock' = NoOne
    /\ \/ To(c, "clear") /\ UNCHANGED answer
       \/ Conclude(c, "unknown")
    /\ UNCHANGED <<lockFile, locator, temporary, serverVars, sessionVars, command, seen>>

(* The verdict comes after the descriptor is closed, when anybody may have  *)
(* taken the flock.  The close may fail and the deadline may have passed.   *)
InspectConcludes(c) ==
    /\ step[c] = "clear"
    /\ Conclude(c, "stopped") \/ Conclude(c, "unknown")
    /\ UNCHANGED <<diskVars, serverVars, sessionVars, command, seen>>

(* A status request is served only while the endpoint accepts.             *)
Ask(c) ==
    /\ step[c] = "asking"
    /\ \/ /\ session[seen[c]] = "accepting" /\ phase[seen[c]] = "running"
          /\ To(c, "probing") /\ UNCHANGED answer
       \/ /\ session[seen[c]] = "accepting" /\ phase[seen[c]] # "running"
          /\ Conclude(c, phase[seen[c]])
       \/ /\ session[seen[c]] # "accepting"
          /\ Conclude(c, "unknown")
    /\ UNCHANGED <<diskVars, serverVars, sessionVars, command, seen>>

(* probeLive: the GraphQL request on the listener the status named.  Any   *)
(* Core on that port may answer it.                                        *)
ProbeLive(c) ==
    /\ step[c] = "probing"
    /\ \/ To(c, "confirming") /\ UNCHANGED answer
       \/ Conclude(c, "unknown")
    /\ UNCHANGED <<diskVars, serverVars, sessionVars, command, seen>>

Confirm(c) ==
    /\ step[c] = "confirming"
    /\ IF session[seen[c]] = "accepting" /\ phase[seen[c]] = "running"
          THEN To(c, "rereading") /\ UNCHANGED answer
          ELSE Conclude(c, "unknown")
    /\ UNCHANGED <<diskVars, serverVars, sessionVars, command, seen>>

Reread(c) ==
    /\ step[c] = "rereading"
    /\ Conclude(c, IF locator = seen[c] THEN "running" ELSE "unknown")
    /\ UNCHANGED <<diskVars, serverVars, sessionVars, command, seen>>

(* The status deadline, or any other failure of the exchange.              *)
StatusDeadline(c) ==
    /\ step[c] \in {"reading", "inspecting", "asking", "probing",
                    "confirming", "rereading"}
    /\ Conclude(c, "unknown")
    /\ UNCHANGED <<diskVars, serverVars, sessionVars, command, seen>>

(* ServerLauncherService.blockingServer asks for the owner once more when  *)
(* the status is unknown.  It answers unknown as well when there is no lock *)
(* file; "unavailable" is its unknown for an inspection that failed.        *)
InspectAgain(c) ==
    /\ step[c] = "reinspecting"
    /\ \/ /\ ~lockFile
          /\ Report(c, "unknown")
          /\ UNCHANGED lock
       \/ /\ lockFile /\ lock = NoOne
          /\ lock' = c
          /\ To(c, "refreeing") /\ UNCHANGED answer
       \/ /\ lock # NoOne
          /\ Report(c, "owned")
          /\ UNCHANGED lock
       \/ /\ Report(c, "unavailable")
          /\ UNCHANGED lock
    /\ UNCHANGED <<lockFile, locator, temporary, serverVars, sessionVars, command, seen>>

InspectAgainFree(c) ==
    /\ step[c] = "refreeing"
    /\ lock' = NoOne
    /\ \/ To(c, "spawning") /\ UNCHANGED answer
       \/ Report(c, "unavailable")
    /\ UNCHANGED <<lockFile, locator, temporary, serverVars, sessionVars, command, seen>>

(* A host process is started; how the launch ends is the subject of        *)
(* LaunchHandshake.                                                        *)
Spawn(c) ==
    /\ step[c] = "spawning"
    /\ \E s \in Server : pc[s] = "idle" /\ Go(s, "spawned")
    /\ Report(c, "launched")
    /\ UNCHANGED <<diskVars, settling, failures, phase, sessionVars, command, seen>>

(* ServerStopService.stop reads the locator again: it may stop another      *)
(* server than the one whose status was read.                              *)
Locate(c) ==
    /\ step[c] = "locating"
    /\ seen' = [seen EXCEPT ![c] = locator]
    /\ IF locator = NoOne THEN Report(c, "unconfirmed")
       ELSE To(c, "requesting") /\ UNCHANGED answer
    /\ UNCHANGED <<diskVars, serverVars, sessionVars, command>>

(* ControlEndpointSession.acceptStop: the first stop wins, and an endpoint  *)
(* that does not accept drops the connection.                              *)
RequestStop(c) ==
    /\ step[c] = "requesting"
    /\ IF session[seen[c]] = "accepting"
          THEN /\ session' = [session EXCEPT ![seen[c]] = "stopping"]
               /\ stopRun' = [stopRun EXCEPT ![seen[c]] = "accepted"]
               /\ responder' = [responder EXCEPT ![seen[c]] = c]
               /\ To(c, "awaiting") /\ UNCHANGED answer
          ELSE /\ Report(c, "unconfirmed")
               /\ UNCHANGED <<session, stopRun, responder>>
    /\ UNCHANGED <<diskVars, serverVars, closeRequested, command, seen>>

HangUp(c) ==
    responder' = [s \in Server |-> IF responder[s] = c THEN NoOne ELSE responder[s]]

(* No completion within SERVER_STOP_CONFIRMATION_MS, or a broken exchange.  *)
StopDeadline(c) ==
    /\ step[c] \in {"requesting", "awaiting"}
    /\ Report(c, "unconfirmed")
    /\ HangUp(c)
    /\ UNCHANGED <<diskVars, serverVars, session, closeRequested, stopRun, command, seen>>

(* The CLI process is killed.                                              *)
Interrupt(c) ==
    /\ step[c] \notin {"idle", "done"}
    /\ To(c, "done")
    /\ lock' = IF lock = c THEN NoOne ELSE lock
    /\ HangUp(c)
    /\ UNCHANGED <<lockFile, locator, temporary, serverVars, session, closeRequested, stopRun,
                   command, seen, answer>>

-----------------------------------------------------------------------------
ServerProgress(s) ==
    \/ Acquire(s) \/ AcquireBusy(s) \/ Listen(s) \/ WriteTemporary(s)
    \/ PublishLocator(s) \/ OpenReturns(s) \/ AbortEndpoint(s) \/ EraseTemporary(s)
    \/ Unlock(s) \/ AbortLease(s) \/ PostgresSettles(s)
    \/ RetireEndpoint(s) \/ ReadLocator(s) \/ UnlinkLocator(s) \/ ReleaseLease(s)
    \/ RunStop(s) \/ CompleteStop(s) \/ Exit(s)

(* What ends a close: it succeeds, or it keeps the ownership.              *)
CloseEnds(s) == ResourcesStopped(s) \/ CoreStuck(s) \/ PostgresStuck(s)

ServerTrouble(s) == OpenFails(s) \/ Crash(s)

ServerNext(s) ==
    ServerProgress(s) \/ CloseEnds(s) \/ ServerTrouble(s)
    \/ BecomeRunning(s) \/ BeginClose(s)

ClientProgress(c) ==
    \/ ReadDirectory(c) \/ Inspect(c) \/ InspectFree(c) \/ InspectConcludes(c)
    \/ Ask(c) \/ ProbeLive(c)
    \/ Confirm(c) \/ Reread(c) \/ StatusDeadline(c)
    \/ InspectAgain(c) \/ InspectAgainFree(c) \/ Spawn(c)
    \/ Locate(c) \/ RequestStop(c) \/ StopDeadline(c)

ClientNext(c) == Begin(c) \/ ClientProgress(c) \/ Interrupt(c)

Next == (\E s \in Server : ServerNext(s)) \/ (\E c \in Client : ClientNext(c))

Spec == Init /\ [][Next]_vars

(* A step that only computes or waits for local I/O is taken in the end, a  *)
(* CLI step has a deadline, and the owner's close is bounded by            *)
(* CORE_CLOSE_MILLISECONDS and POSTGRES_SHUTDOWN_TIMING.  Users, failures  *)
(* and crashes owe nothing.                                                *)
Fairness ==
    /\ \A s \in Server : WF_vars(ServerProgress(s)) /\ WF_vars(CloseEnds(s))
    /\ \A c \in Client : WF_vars(ClientProgress(c))

FairSpec == Spec /\ Fairness

-----------------------------------------------------------------------------
(* Properties                                                              *)

(* A server that is anywhere between acquire and release holds the flock,   *)
(* so two servers never open, serve or clean up one directory at a time.   *)
OneOwner == \A s \in Server : pc[s] \in Owning => lock = s

(* A server that reports running can be found: it owns the directory and    *)
(* the locator names it.  No step of a dying, failing or starting server    *)
(* takes the locator of a running one away.                                *)
RunningIsPublished ==
    \A s \in Server : phase[s] = "running" =>
        /\ pc[s] = "held"
        /\ lock = s
        /\ locator = s

(* The locator changes only under the flock, and only to name its holder or *)
(* to withdraw its holder's name: the check in closeOwned and the unlink    *)
(* after it never hit the record of a successor.                           *)
LocatorOnlyByOwner ==
    [][locator' # locator =>
          /\ lock \in Server
          /\ \/ locator' = lock
             \/ locator = lock /\ locator' = NoOne]_vars

(* A CLI run that says stopped, or that starts a server because none is     *)
(* there, has seen the directory without an owner: at the instant of its    *)
(* verdict no server owned it.  Until the verdict is used a server may      *)
(* come, which the flock then sorts out.                                   *)
FoundFree(c) == step[c] \in {"clear", "spawning"} \/ answer[c] = "stopped"

StoppedWasFree ==
    [][\A c \in Client : (FoundFree(c)' /\ ~FoundFree(c)) => lock \notin Server]_vars

(* `Server stopped.` is printed only for a server that has let go of the    *)
(* flock and withdrawn its locator, and it stays that way.                 *)
CompletedStopIsFinal ==
    \A c \in Client : answer[c] = "completed" =>
        /\ lock # seen[c]
        /\ locator # seen[c]
        /\ pc[seen[c]] \in {"released", "exited"}

(* A failed start and a clean close leave neither locator, temporary file,  *)
(* flock nor a listening endpoint of that incarnation behind.              *)
CleanEndLeavesNothing ==
    \A s \in Server : (pc[s] \in {"aborted", "released"} /\ ~failures[s]) =>
        /\ lock # s
        /\ locator # s
        /\ s \notin temporary
        /\ session[s] # "accepting"

(* A server whose Core would not stop keeps the directory with nothing      *)
(* going on in the background: it must still be there for the next stop.   *)
StuckServerTakesStops ==
    \A s \in Server : (pc[s] = "retained" /\ ~settling[s] /\ stopRun[s] = "none") =>
        /\ session[s] = "accepting"
        /\ locator = s
        /\ lock = s

(* Seen from outside, the directory is Ownership: probing CLIs do not count *)
(* as owners.                                                              *)
Directory == INSTANCE Ownership WITH
    owner <- IF lock \in Server THEN lock ELSE NoOne,
    published <- locator

ImplementsOwnership == Directory!OwnershipSpec

(* A locator left by a dead server never keeps a start from launching a new *)
(* one: with no server alive and no other CLI around, a start that is not   *)
(* killed launches, unless the lock file cannot be inspected.              *)
AloneWithTheDead(c) ==
    /\ lockFile
    /\ \A s \in Server : pc[s] \in {"idle", "exited"}
    /\ \A d \in Client \ {c} : step[d] = "done"

DeadServerBlocksNoStart ==
    \A c \in Client :
        (command[c] = "start" /\ step[c] = "reading" /\ AloneWithTheDead(c))
            ~> (step[c] = "done" /\ answer[c] \in {"launched", "none", "unavailable"})

(* "An unreachable server that still holds the data directory's ownership   *)
(* lock" is how the launcher describes the answer `owned`.                 *)
OwnedMeansServer ==
    [][\A c \in Client :
          (answer'[c] = "owned" /\ answer[c] # "owned") => lock \in Server]_vars

-----------------------------------------------------------------------------
(* The inductive invariant behind the safety properties                    *)

(* The flock is with whoever acts as its holder, a probing CLI included,    *)
(* and a server that has begun to release it holds it only after a failure. *)
LockInv ==
    /\ OneOwner
    /\ lock # NoOne => lockFile
    /\ \A c \in Client : step[c] \in {"freeing", "refreeing"} => lock = c
    /\ \A s \in Server : lock = s =>
          \/ pc[s] \in Owning
          \/ pc[s] \in Unlocked \cup {"aborted", "unconfirmed"} /\ failures[s]

(* From the rename to the unlink the locator names the server; afterwards,  *)
(* when nothing failed, it does not.                                       *)
LocatorInv ==
    \A s \in Server :
        /\ pc[s] \in Serving \cup {"finalizing", "retracting", "unlinking"} => locator = s
        /\ pc[s] \in {"idle", "spawned", "busy"} \cup Opening \cup Aborting \cup {"aborted"}
              => locator # s
        /\ pc[s] \in {"leaving", "left"} /\ ~failures[s] => locator # s
        /\ pc[s] = "released" => ~failures[s] /\ locator # s
        /\ phase[s] = "running" => pc[s] = "held"
        /\ phase[s] = "stopped" => pc[s] = "released"

(* The endpoint follows the server: it can take stops until it is asked to  *)
(* close, and it is busy with exactly the stop whose callback is under way. *)
SessionInv ==
    \A s \in Server :
        /\ pc[s] \in {"listening", "writing"} \cup Serving =>
              ~closeRequested[s] /\ session[s] \in {"accepting", "stopping"}
        /\ pc[s] \in {"retracting", "unlinking", "leaving", "left", "erasing",
                     "released", "unconfirmed"} => closeRequested[s]
        /\ pc[s] \in {"retracting", "unlinking", "leaving", "left", "erasing",
                     "quitting", "quit"} \cup Settled => session[s] # "accepting"
        /\ pc[s] \in {"idle", "spawned", "owning"} =>
              ~closeRequested[s] /\ session[s] = "closed"
        /\ session[s] = "stopping" <=> stopRun[s] # "none"
        /\ stopRun[s] = "completed" => pc[s] = "released"
        /\ stopRun[s] = "unconfirmed" => pc[s] \in {"aborted", "released", "unconfirmed"}
        /\ stopRun[s] = "retained" =>
              pc[s] \in {"closing", "retained", "released", "unconfirmed"} \cup Retiring
        /\ settling[s] => pc[s] \in {"retained"} \cup Retiring \cup
                                    {"released", "unconfirmed", "exited"}

(* The temporary file is there only while it is written, or after a failure *)
(* to erase it or a crash.                                                 *)
TemporaryInv ==
    \A s \in temporary :
        pc[s] \in {"writing", "aborting", "erasing", "exited"} \/ failures[s]

(* A CLI run talks to the server it has read from the locator, and waits    *)
(* for a completion as the responder of that server only.                  *)
ResponderInv ==
    /\ \A c \in Client :
          step[c] \in {"asking", "probing", "confirming", "rereading", "requesting", "awaiting"}
              => seen[c] \in Server
    /\ \A s \in Server : responder[s] # NoOne =>
          step[responder[s]] = "awaiting" /\ seen[responder[s]] = s
    /\ \A c \in Client : answer[c] = "completed" => step[c] = "done" /\ seen[c] \in Server

IndInv ==
    /\ TypeOK
    /\ LockInv
    /\ LocatorInv
    /\ SessionInv
    /\ TemporaryInv
    /\ ResponderInv
    /\ CompletedStopIsFinal

=============================================================================
