----------------------------- MODULE ServerOwner -----------------------------
(***************************************************************************)
(* One server incarnation from the inside: ServerOwnerResource, which       *)
(* starts the database and Revo Core and closes them again, over            *)
(* HeldControlShutdown, which gives the data directory back once the        *)
(* database is gone.  The database is a PostgreSQL process of the server,   *)
(* or the client of one the user has configured.                           *)
(*                                                                         *)
(* performStart is one asynchronous procedure, performClose another.  They  *)
(* run concurrently: a stop over the control endpoint, a signal, the        *)
(* startup deadline and the exit of Core may all call close() while         *)
(* performStart is at any of its awaits.  start and closing are the program *)
(* counters of the two; the child processes and the background finalization *)
(* have variables of their own.  The module is what happens behind the      *)
(* server steps of DataDirectory between "published" and the end.           *)
(***************************************************************************)

VARIABLES
    start,       \* where ServerOwnerService.open and performStart are
    aborted,     \* ServerOwnerResource.controller has been aborted
    failing,     \* failureCode is set
    closing,     \* where the current or last performClose is
    retryable,   \* retryableCloseFailure
    phase,       \* lifecyclePhase
    ownership,   \* failureOwnership
    outcome,     \* the promise outcome(), resolved once
    hostClosed,  \* the host has called close() (a signal, a lost launcher)
    expired,     \* the startup deadline has passed
    core,        \* the Core process
    observed,    \* observeCoreCompletion is waiting for Core to exit
    database,    \* whose PostgreSQL it is, for good: "embedded" or "external"
    server,      \* the PostgreSQL process, if embedded
    stopFailure, \* a PostgreSQL process could not be stopped
    client,      \* the client of an external database
    lostClient,  \* ExternalPostgresResource.failure, by its reason
    pgClose,     \* closeOperation of the database
    final,       \* HeldControlShutdown.finalClose and finalState
    lock,        \* the lease on the data directory is held
    session,     \* ControlEndpointSession.phase
    stop         \* the stop the session has accepted, and its result

startVars == <<start, aborted, failing, expired>>
closeVars == <<closing, retryable, phase, ownership, outcome, hostClosed>>
coreVars  == <<core, observed>>
ownVars    == <<database, server, stopFailure, pgClose>>
clientVars == <<client, lostClient>>
pgVars     == <<ownVars, clientVars>>
heldVars  == <<final, lock>>
stopVars  == <<session, stop>>
vars == <<startVars, closeVars, coreVars, pgVars, heldVars, stopVars>>

Starting == {"paths", "database", "credential", "core", "probing", "recording"}
Results  == {"completed", "retained", "unconfirmed"}

TypeOK ==
    /\ start \in {"opening", "early", "idle", "failing", "ready", "ended"} \cup Starting
    /\ closing \in {"none", "core", "postgres", "final", "done", "failed"}
    /\ {aborted, failing, expired, retryable, hostClosed, observed, stopFailure, lock} \subseteq BOOLEAN
    /\ phase \in {"starting", "running", "stopping", "stopped", "failed"}
    /\ ownership \in {"retained", "unconfirmed"}
    /\ outcome \in {"pending", "stopped"} \cup Results
    /\ core \in {"none", "spawning", "alive", "dead"}
    /\ database \in {"embedded", "external"}
    /\ server \in {"none", "spawning", "up"}
    /\ client \in {"none", "open", "ending", "ended"}
    /\ lostClient \in {"none", "cancelled", "connection"}
    /\ pgClose \in {"none", "closing", "closed", "failed"}
    /\ final \in {"none", "waiting", "retiring", "unlocked",
                 "released", "dirty", "unconfirmed"}
    /\ session \in {"accepting", "stopping", "terminal"}
    /\ stop \in {"none", "accepted", "waiting"} \cup Results

(* The locator is published, the endpoint listens, and the owner is about   *)
(* to be assigned.                                                         *)
Init ==
    /\ start = "opening" /\ aborted = FALSE /\ failing = FALSE /\ expired = FALSE
    /\ closing = "none" /\ retryable = FALSE /\ hostClosed = FALSE
    /\ phase = "starting" /\ ownership = "unconfirmed" /\ outcome = "pending"
    /\ core = "none" /\ observed = FALSE
    /\ database \in {"embedded", "external"}
    /\ server = "none" /\ stopFailure = FALSE /\ pgClose = "none"
    /\ client = "none" /\ lostClient = "none"
    /\ final = "none" /\ lock = TRUE
    /\ session = "accepting" /\ stop = "none"

-----------------------------------------------------------------------------
(* ServerOwnerResource.close: a close under way, or one that cannot be      *)
(* repeated, is shared by all callers.                                     *)

NoCloseOperation == closing = "none" \/ (closing = "failed" /\ retryable)

BeginCloseM ==  \* lifecyclePhase follows only when the close has ended
    /\ aborted' = TRUE
    /\ closing' = IF NoCloseOperation THEN "core" ELSE closing
    /\ UNCHANGED phase

BeginClose ==
    /\ aborted' = TRUE
    /\ IF NoCloseOperation
          THEN /\ closing' = "core"
               /\ phase' = IF phase = "stopped" THEN phase ELSE "stopping"
          ELSE UNCHANGED <<closing, phase>>

(* endClient, which ends the client once.                                  *)
Ended == IF client = "open" THEN "ending" ELSE client

(* The abort listener of an external start, and cancelStart: the start will *)
(* reject, and its client is ended.  The first failure stays.              *)
CancelStart ==
    IF start = "database" /\ database = "external"
       THEN /\ client' = Ended
            /\ lostClient' = IF lostClient = "none" THEN "cancelled" ELSE lostClient
       ELSE UNCHANGED clientVars

CallClose == BeginClose /\ CancelStart

(* Whoever waits for this close goes on when it settles: stopFromControl has *)
(* its result, an early stop lets ServerOwnerService.open return, and       *)
(* failStart rejects the start.                                            *)
CloseSettled(result) ==
    /\ stop' = IF stop = "waiting" THEN result ELSE stop
    /\ start' = CASE start = "early"   -> "idle"
                  [] start = "failing" -> "ended"
                  [] OTHER             -> start

(* resolveFailure and resolveOutcome: the first result stays.              *)
Resolve(result) == outcome' = IF outcome = "pending" THEN result ELSE outcome

CloseSucceeds ==
    /\ closing' = "done"
    /\ IF failing
          THEN phase' = "failed" /\ ownership' = "unconfirmed" /\ Resolve("completed")
          ELSE phase' = "stopped" /\ Resolve("stopped") /\ UNCHANGED ownership
    /\ CloseSettled("completed")
    /\ UNCHANGED retryable

(* held.close, or before it core.close, has thrown.                        *)
CloseFails(kept) ==
    /\ closing' = "failed"
    /\ retryable' = (kept = "retained")
    /\ phase' = "failed"
    /\ ownership' = IF kept = "retained" THEN "retained" ELSE "unconfirmed"
    /\ Resolve(IF kept = "released" THEN "completed" ELSE kept)
    /\ CloseSettled(IF kept = "retained" THEN "retained" ELSE "unconfirmed")

-----------------------------------------------------------------------------
(* ServerOwnerService.open and performStart                                *)

OwnerAssignedM ==  \* a stop that came before the owner is not waited for
    /\ start = "opening"
    /\ start' = "idle"
    /\ UNCHANGED <<aborted, failing, expired, closeVars, coreVars, pgVars, heldVars, stopVars>>

(* The owner is assigned; a stop that waits for it closes it, and open      *)
(* returns only when that is through.                                      *)
OwnerAssigned ==
    /\ start = "opening"
    /\ IF stop = "waiting"
          THEN start' = "early" /\ CallClose
          ELSE start' = "idle" /\ UNCHANGED <<aborted, closing, phase, clientVars>>
    /\ UNCHANGED <<failing, expired, retryable, ownership, outcome, hostClosed,
                   coreVars, ownVars, heldVars, stopVars>>

Start ==
    /\ start = "idle"
    /\ start' = IF NoCloseOperation /\ ~hostClosed THEN "paths" ELSE "ended"
    /\ UNCHANGED <<aborted, failing, expired, closeVars, coreVars, pgVars, heldVars, stopVars>>

(* Any error in performStart: failStart names the failure and closes, and   *)
(* waits for the close unless that has settled for good.  The start of the  *)
(* database does not listen to the signal any more.                        *)
Fail ==
    /\ start' = IF closing = "done" \/ (closing = "failed" /\ ~retryable)
                   THEN "ended" ELSE "failing"
    /\ failing' = TRUE
    /\ BeginClose

(* Whatever else fails between two awaits, or finds the start cancelled.   *)
StartFails ==
    /\ start \in {"paths", "credential", "probing", "recording"}
    /\ Fail
    /\ UNCHANGED <<expired, retryable, ownership, outcome, hostClosed,
                   coreVars, pgVars, heldVars, stopVars>>

(* start of an external database has a client before its first await.       *)
ClientCreated ==
    /\ client' = IF database = "external" THEN "open" ELSE client
    /\ UNCHANGED lostClient

PathsReady ==
    /\ start = "paths" /\ ~aborted
    /\ start' = "database"
    /\ ClientCreated
    /\ UNCHANGED <<aborted, failing, expired, closeVars, coreVars, ownVars, heldVars, stopVars>>

-----------------------------------------------------------------------------
(* EmbeddedPostgresResource.performStart, while start is "database"         *)

(* startAttempt looks at the signal, then the process is being spawned.     *)
PgSpawn ==
    /\ start = "database" /\ database = "embedded" /\ server = "none" /\ ~aborted
    /\ server' = "spawning"
    /\ UNCHANGED <<startVars, closeVars, coreVars, database, stopFailure, pgClose, clientVars,
                   heldVars, stopVars>>

PgSpawned ==
    /\ server = "spawning"
    /\ server' \in {"up", "none"}
    /\ UNCHANGED <<startVars, closeVars, coreVars, database, stopFailure, pgClose, clientVars,
                   heldVars, stopVars>>

(* startDatabase returns to performStart, which reads the credential.       *)
PgReady ==
    /\ start = "database" /\ server = "up"
    /\ ~aborted /\ pgClose = "none"
    /\ start' = "credential"
    /\ UNCHANGED <<aborted, failing, expired, closeVars, coreVars, pgVars, heldVars, stopVars>>

(* A failed attempt stops its server first; when that fails the process is  *)
(* left and the resource remembers.                                        *)
PgStartFails ==
    /\ start = "database" /\ database = "embedded" /\ server # "spawning"
    /\ stopFailure' = (stopFailure \/ server = "up")
    /\ Fail
    /\ UNCHANGED <<expired, retryable, ownership, outcome, hostClosed,
                   coreVars, database, server, pgClose, clientVars, heldVars, stopVars>>

(* PostgreSQL exits: it was told to, or it crashed.  Nobody in the owner    *)
(* watches a database that is ready.                                       *)
PgExits ==
    /\ server = "up"
    /\ server' = "none"
    /\ UNCHANGED <<startVars, closeVars, coreVars, database, stopFailure, pgClose, clientVars,
                   heldVars, stopVars>>

-----------------------------------------------------------------------------
(* OwnedExternalPostgresResource                                           *)

(* connect and one query have been answered and reported: nothing has       *)
(* failed or been cancelled at any of these awaits.  The client stays.      *)
ExternalReady ==
    /\ start = "database" /\ client = "open"
    /\ ~aborted /\ pgClose = "none" /\ lostClient = "none"
    /\ start' = "credential"
    /\ UNCHANGED <<aborted, failing, expired, closeVars, coreVars, pgVars, heldVars, stopVars>>

(* The timer of the start itself, a moment before the owner's deadline.     *)
ExternalDeadline ==
    /\ start = "database" /\ client = "open"
    /\ CancelStart
    /\ UNCHANGED <<startVars, closeVars, coreVars, ownVars, heldVars, stopVars>>

(* An await fails or is cancelled, and that has been reported: the client,  *)
(* if it was not cancelled, is left to close.                              *)
ExternalFails ==
    /\ start = "database" /\ database = "external"
    /\ Fail
    /\ UNCHANGED <<expired, retryable, ownership, outcome, hostClosed,
                   coreVars, pgVars, heldVars, stopVars>>

(* The connection breaks, during the start or long after it.               *)
ClientError ==
    /\ client \in {"open", "ending"}
    /\ client' = "ending"
    /\ lostClient' = IF lostClient = "none" THEN "connection" ELSE lostClient
    /\ UNCHANGED <<startVars, closeVars, coreVars, ownVars, heldVars, stopVars>>

(* client.end() resolves when the connection is closed, perhaps never.      *)
ClientEnds ==
    /\ client = "ending"
    /\ client' = "ended"
    /\ UNCHANGED <<startVars, closeVars, coreVars, ownVars, lostClient, heldVars, stopVars>>

(* performClose, run once: the end of the client and of the start have a    *)
(* second each, and a connection that was lost makes it fail in any case.   *)
ExternalCloseEnds ==
    /\ pgClose = "closing" /\ database = "external"
    /\ \/ /\ client = "none"
          /\ pgClose' = "closed"
       \/ /\ client = "ended" /\ start # "database"
          /\ pgClose' = IF lostClient = "connection" THEN "failed" ELSE "closed"
       \/ /\ client = "ending" \/ (client = "ended" /\ start = "database")
          /\ pgClose' = "failed"
    /\ UNCHANGED <<startVars, closeVars, coreVars, database, server, stopFailure, clientVars,
                   heldVars, stopVars>>

-----------------------------------------------------------------------------
(* Core                                                                    *)

(* The last look at the signal and coreHosts.open and start are one step:   *)
(* nothing can call close between them.                                    *)
OpenCore ==
    /\ start = "credential" /\ ~aborted
    /\ start' = "core"
    /\ core' = "spawning"
    /\ UNCHANGED <<aborted, failing, expired, closeVars, observed, pgVars, heldVars, stopVars>>

CoreSpawned ==
    /\ core = "spawning"
    /\ core' \in {"alive", "none"}
    /\ UNCHANGED <<startVars, closeVars, observed, pgVars, heldVars, stopVars>>

CoreExits ==
    /\ core = "alive"
    /\ core' = "dead"
    /\ UNCHANGED <<startVars, closeVars, observed, pgVars, heldVars, stopVars>>

CoreListening ==
    /\ start = "core" /\ core = "alive" /\ ~aborted
    /\ start' = "probing"
    /\ observed' = TRUE
    /\ UNCHANGED <<aborted, failing, expired, closeVars, core, pgVars, heldVars, stopVars>>

(* core.start has tried to terminate its child by the time it throws.      *)
CoreStartFails ==
    /\ start = "core"
    /\ core' \in IF core = "alive" THEN {"alive", "dead"} ELSE {core}
    /\ Fail
    /\ UNCHANGED <<expired, retryable, ownership, outcome, hostClosed,
                   observed, pgVars, heldVars, stopVars>>

(* The readiness request was answered and Core is still running.           *)
Probed ==
    /\ start = "probing" /\ core = "alive" /\ ~aborted
    /\ start' = "recording"
    /\ UNCHANGED <<aborted, failing, expired, closeVars, coreVars, pgVars, heldVars, stopVars>>

(* The ready record is written, and the last checks pass.                  *)
BecomeReady ==
    /\ start = "recording" /\ core = "alive" /\ ~aborted
    /\ start' = "ready"
    /\ phase' = "running"
    /\ UNCHANGED <<aborted, failing, expired, closing, retryable, ownership, outcome, hostClosed,
                   coreVars, pgVars, heldVars, stopVars>>

-----------------------------------------------------------------------------
(* Who else calls close                                                    *)

(* The startup deadline: stopUnavailable closes whatever the start waits for. *)
DeadlinePasses ==
    /\ ~expired /\ start \in Starting \cup {"failing"}
    /\ expired' = TRUE
    /\ failing' = TRUE
    /\ CallClose
    /\ UNCHANGED <<start, retryable, ownership, outcome, hostClosed,
                   coreVars, ownVars, heldVars, stopVars>>

(* ServerHostEntry closes once, on a signal or when the launcher is gone:   *)
(* it aborts the signal it gave to start, so a start under way has failed.  *)
HostClose ==
    /\ ~hostClosed /\ start \notin {"opening", "early"}
    /\ hostClosed' = TRUE
    /\ failing' = (failing \/ start \in Starting \cup {"failing"})
    /\ CallClose
    /\ UNCHANGED <<start, expired, retryable, ownership, outcome,
                   coreVars, ownVars, heldVars, stopVars>>

(* observeCoreCompletion: an exit nobody asked for is a failure.           *)
CoreExitObserved ==
    /\ observed /\ core = "dead"
    /\ observed' = FALSE
    /\ IF aborted THEN UNCHANGED <<failing, aborted, closing, phase, clientVars>>
       ELSE failing' = TRUE /\ CallClose
    /\ UNCHANGED <<start, expired, retryable, ownership, outcome, hostClosed,
                   core, ownVars, heldVars, stopVars>>

(* The control endpoint accepts one stop at a time, runs it, and is open    *)
(* for another one only when the stop failed and ownership was retained.    *)
AcceptStop ==
    /\ session = "accepting"
    /\ session' = "stopping"
    /\ stop' = "accepted"
    /\ UNCHANGED <<startVars, closeVars, coreVars, pgVars, heldVars>>

RunStop ==
    /\ stop = "accepted"
    /\ IF start = "opening"
          THEN /\ stop' = "waiting"
               /\ UNCHANGED <<aborted, closing, phase, clientVars>>
          ELSE /\ stop' = IF closing = "done" THEN "completed"
                          ELSE IF closing = "failed" /\ ~retryable THEN "unconfirmed"
                          ELSE "waiting"
               /\ CallClose
    /\ UNCHANGED <<start, failing, expired, retryable, ownership, outcome, hostClosed,
                   coreVars, ownVars, heldVars, session>>

CloseRequested == final \notin {"none", "waiting"}

CompleteStop ==
    /\ stop \in Results
    /\ stop' = "none"
    /\ session' = IF stop = "retained" /\ ~CloseRequested THEN "accepting" ELSE "terminal"
    /\ UNCHANGED <<startVars, closeVars, coreVars, pgVars, heldVars>>

-----------------------------------------------------------------------------
(* performClose                                                            *)

(* close of the database, which runs once: an external one ends its client. *)
CloseDatabase ==
    /\ pgClose' = IF pgClose = "none" THEN "closing" ELSE pgClose
    /\ client' = Ended

CloseCoreM ==  \* only the end of the stop request is waited for
    /\ closing = "core"
    /\ closing' = "postgres"
    /\ CloseDatabase
    /\ UNCHANGED <<startVars, retryable, phase, ownership, outcome, hostClosed,
                   coreVars, database, server, stopFailure, lostClient, heldVars, stopVars>>

(* Core is gone or was never spawned; held.close goes to the database       *)
(* unless the background finalization has given the directory back.        *)
CloseCore ==
    /\ closing = "core" /\ core \in {"none", "dead"}
    /\ IF final = "released"
          THEN /\ CloseSucceeds
               /\ UNCHANGED <<pgClose, client>>
          ELSE /\ closing' = "postgres"
               /\ CloseDatabase
               /\ UNCHANGED <<start, retryable, phase, ownership, outcome, stop>>
    /\ UNCHANGED <<aborted, failing, expired, hostClosed, coreVars, database, server, stopFailure,
                   lostClient, heldVars, session>>

(* Core has not stopped within CORE_CLOSE_MILLISECONDS: nothing else is     *)
(* closed.                                                                 *)
CoreStuck ==
    /\ closing = "core" /\ core \in {"alive", "spawning"}
    /\ CloseFails("retained")
    /\ UNCHANGED <<aborted, failing, expired, hostClosed, coreVars, pgVars, heldVars, session>>

(* EmbeddedPostgresResource.performClose, run once: it fails when a process *)
(* or a start is left, or when readiness or preparation do not drain.      *)
PgCloseEnds ==
    /\ pgClose = "closing" /\ database = "embedded"
    /\ \/ /\ server # "up" /\ start # "database" /\ ~stopFailure
          /\ pgClose' \in {"closed", "failed"}
          /\ UNCHANGED stopFailure
       \/ /\ server # "up" /\ (start = "database" \/ stopFailure)
          /\ pgClose' = "failed"
          /\ UNCHANGED stopFailure
       \/ /\ server = "up"
          /\ pgClose' = "failed"
          /\ stopFailure' = TRUE
    /\ UNCHANGED <<startVars, closeVars, coreVars, database, server, clientVars, heldVars, stopVars>>

HeldCloseM ==  \* a failed database close leaves finalization to the next close
    /\ closing = "postgres" /\ pgClose \in {"closed", "failed"}
    /\ IF pgClose = "closed"
          THEN /\ closing' = "final"
               /\ final' = IF final = "none" THEN "waiting" ELSE final
               /\ UNCHANGED <<start, retryable, phase, ownership, outcome, stop>>
          ELSE CloseFails("retained") /\ UNCHANGED final
    /\ UNCHANGED <<aborted, failing, expired, hostClosed, coreVars, pgVars, lock, session>>

(* HeldControlShutdown.close after the database: either way finalize runs,  *)
(* but after a failure it runs in the background.                          *)
HeldClose ==
    /\ closing = "postgres" /\ pgClose \in {"closed", "failed"}
    /\ final' = IF final = "none" THEN "waiting" ELSE final
    /\ IF pgClose = "closed"
          THEN /\ closing' = "final"
               /\ UNCHANGED <<start, retryable, phase, ownership, outcome, stop>>
          ELSE CloseFails(CASE final \in {"released", "dirty"} -> "released"
                            [] final = "unconfirmed"           -> "unconfirmed"
                            [] OTHER                           -> "retained")
    /\ UNCHANGED <<aborted, failing, expired, hostClosed, coreVars, pgVars, lock, session>>

FinalizeM ==  \* only the process and the client are waited for, not the start of them
    /\ final = "waiting" /\ server # "up" /\ client # "ending"
    /\ final' = "retiring"
    /\ session' = IF session = "stopping" THEN session ELSE "terminal"
    /\ UNCHANGED <<startVars, closeVars, coreVars, pgVars, lock, stop>>

(* postgres.settled: first the start has ended, then the process it may     *)
(* have left, or the client.  closeOwned retires the endpoint.             *)
Finalize ==
    /\ final = "waiting" /\ start # "database" /\ server # "up" /\ client # "ending"
    /\ final' = "retiring"
    /\ session' = IF session = "stopping" THEN session ELSE "terminal"
    /\ UNCHANGED <<startVars, closeVars, coreVars, pgVars, lock, stop>>

(* The rest of closeOwned, up to the first half of lease.release: the flock *)
(* is unlocked, or could not be.                                           *)
Unlock ==
    /\ final = "retiring"
    /\ final' = "unlocked"
    /\ lock' \in BOOLEAN
    /\ UNCHANGED <<startVars, closeVars, coreVars, pgVars, stopVars>>

(* The descriptor is closed, which drops a flock that is still there, and   *)
(* closeOwned settles: only now finalState follows.  "dirty" is a failure   *)
(* before the release.                                                     *)
CloseOwned ==
    /\ final = "unlocked"
    /\ \/ ~lock /\ final' \in {"released", "dirty"} /\ UNCHANGED lock
       \/ final' = "unconfirmed" /\ lock' \in {lock, FALSE}
    /\ UNCHANGED <<startVars, closeVars, coreVars, pgVars, stopVars>>

(* held.close has awaited finalClose.                                      *)
CloseEnds ==
    /\ closing = "final" /\ final \in {"released", "dirty", "unconfirmed"}
    /\ CASE final = "released"    -> CloseSucceeds
         [] final = "dirty"       -> CloseFails("released")
         [] final = "unconfirmed" -> CloseFails("unconfirmed")
    /\ UNCHANGED <<aborted, failing, expired, hostClosed, coreVars, pgVars, heldVars, session>>

-----------------------------------------------------------------------------
StartStep ==
    \/ OwnerAssigned \/ Start \/ PathsReady \/ StartFails
    \/ PgReady \/ PgStartFails \/ ExternalReady \/ ExternalFails
    \/ OpenCore \/ CoreListening \/ CoreStartFails \/ Probed \/ BecomeReady

CloseStep ==
    \/ CloseCore \/ CoreStuck \/ PgCloseEnds \/ ExternalCloseEnds \/ HeldClose
    \/ Finalize \/ Unlock \/ CloseOwned \/ CloseEnds

StopStep == RunStop \/ CompleteStop

ProcessStep ==
    \/ PgSpawn \/ PgSpawned \/ PgExits \/ ExternalDeadline \/ ClientError \/ ClientEnds
    \/ CoreSpawned \/ CoreExits

CallerStep == DeadlinePasses \/ HostClose \/ CoreExitObserved \/ AcceptStop

Next == StartStep \/ CloseStep \/ StopStep \/ ProcessStep \/ CallerStep

Spec == Init /\ [][Next]_vars

(* Each await of the owner ends: startup has a deadline, Core and database  *)
(* have a bounded time to stop, files and replies are local.  That a        *)
(* process exits, an external server closes a connection, a user stops or a *)
(* signal comes is not assumed.                                            *)
Fairness ==
    /\ WF_vars(StartStep) /\ WF_vars(DeadlinePasses)
    /\ WF_vars(CloseCore \/ CoreStuck) /\ WF_vars(PgCloseEnds \/ ExternalCloseEnds)
    /\ WF_vars(HeldClose)
    /\ WF_vars(Finalize) /\ WF_vars(Unlock) /\ WF_vars(CloseOwned) /\ WF_vars(CloseEnds)
    /\ WF_vars(RunStop) /\ WF_vars(CompleteStop)
    /\ WF_vars(PgSpawned) /\ WF_vars(CoreSpawned) /\ WF_vars(CoreExitObserved)

FairSpec == Spec /\ Fairness

-----------------------------------------------------------------------------
(* What the server says of itself                                          *)

Status == IF phase = "failed" THEN [phase |-> phase, ownership |-> ownership]
                              ELSE [phase |-> phase]

-----------------------------------------------------------------------------
(* Properties                                                              *)

(* What the host is promised: any close, wherever the start is, ends the     *)
(* stages of the start, and the first close to settle gives the outcome.    *)
Promise == INSTANCE HostedOwner WITH
    stage <- IF outcome # "pending" THEN "over"
             ELSE IF closing # "none" THEN "closing"
             ELSE IF start \in {"opening", "ready"} THEN start ELSE "starting",
    lease <- lock

ImplementsHostedOwner == Promise!Spec

NothingRuns ==
    /\ core \notin {"spawning", "alive"} /\ server = "none"
    /\ client \in {"none", "ended"} /\ start # "database"

(* The directory is given to others only when neither Core nor PostgreSQL   *)
(* of this server runs, nor a client of it is connected, and none can come  *)
(* up any more: wherever the start was when the close overtook it.         *)
ReleasedMeansGone == ~lock => NothingRuns

(* A status tells the truth: running is reported only before any close, by  *)
(* the owner, with Core started; failed names the ownership as it is, for   *)
(* as long as the endpoint answers.                                        *)
StatusIsTrue ==
    /\ Status.phase = "running" =>
          /\ ~aborted /\ closing = "none" /\ outcome = "pending"
          /\ start = "ready" /\ lock /\ core \in {"alive", "dead"}
    /\ Status.phase = "failed" /\ session = "accepting" => lock /\ Status.ownership = "retained"

(* The flock is gone and its descriptor is being closed in the background:  *)
(* finalState does not know it yet.                                        *)
LettingGo == final = "unlocked" /\ NothingRuns

(* The outcome the host acts on is true when it is given, and given once:   *)
(* stopped and completed mean that nothing is left, retained that the       *)
(* directory is still owned.  The same for the answer to a stop, but for a  *)
(* repeated one that comes while the lease is being released: it is told    *)
(* retained of a directory that is free already, and nothing is left by     *)
(* then.                                                                   *)
ClaimsAreTrue ==
    [][/\ outcome' # outcome =>
             /\ outcome = "pending"
             /\ outcome' \in {"stopped", "completed"} => ~lock' /\ NothingRuns'
             /\ outcome' = "retained" => lock'
       /\ stop' # stop =>
             /\ stop' = "completed" => ~lock' /\ NothingRuns'
             /\ stop' = "retained" => lock' \/ LettingGo']_vars

(* After a failed close of the database the directory is given back without *)
(* anyone asking again, unless PostgreSQL goes on running, or an external   *)
(* one keeps the connection.                                               *)
DirectoryComesBack ==
    pgClose = "failed" ~> (CloseRequested \/ server = "up" \/ client = "ending")

(* Every call is answered: performStart settles, with or without the close  *)
(* that failed it, a close resolves the outcome, and so is every stop, the  *)
(* one that was accepted before the owner existed too.                     *)
CallsAreAnswered ==
    /\ start \in Starting \cup {"failing"} ~> start \in {"ready", "ended"}
    /\ aborted ~> outcome # "pending"
    /\ stop # "none" ~> stop = "none"

=============================================================================
