-------------------------- MODULE EmbeddedPostgres --------------------------
(***************************************************************************)
(* The PostgreSQL process the server owns: OwnedEmbeddedPostgresResource    *)
(* and EmbeddedPostgresReadiness, the SQL that decides whether the process  *)
(* is up.                                                                  *)
(*                                                                         *)
(* A start makes up to Attempts attempts.  Each reserves a loopback port,   *)
(* gives it free again for PostgreSQL to bind, and anyone may take it in    *)
(* between: PostgreSQL then exits with a bind conflict, and meanwhile the   *)
(* SQL of the attempt talks to whoever has the port.  The probe, the exit   *)
(* of the process, the abort of the start (its deadline, the owner) and     *)
(* close race in every attempt.                                            *)
(*                                                                         *)
(* What comes before the first attempt is DatabaseUpgrade and               *)
(* PostmasterLock.                                                         *)
(***************************************************************************)
EXTENDS Naturals

CONSTANT Attempts   \* ATTEMPTS, 3 in the code

ASSUME AttemptsAssumption == Attempts \in Nat \ {0}

VARIABLES
    start,       \* where start() and performStart are
    attempt,     \* the attempt under way
    aborted,     \* the controller of the start is aborted
    retryable,   \* resolveFailedAttempt: the failure may be a bind conflict
    process,     \* "coming" is being spawned, "dead" has exited unobserved
    exit,        \* how the process of this attempt has exited
    bound,       \* whether that process could bind the port
    port,        \* who listens on the port of this attempt
    sql,         \* EmbeddedPostgresReadiness.active
    probe,       \* the attempt active belongs to
    round,       \* its first or second database
    peer,        \* whoever answered it
    verdict,     \* what it will resolve or reject with
    cleanupFailed,
    readinessClose, \* EmbeddedPostgresReadiness.closeOperation
    close,       \* closeOperation
    closeStop,   \* stopServer of performClose
    stopFailure,
    settled      \* where settled(), called after a close, is

startVars == <<start, attempt, aborted, retryable>>
processVars == <<process, exit, bound, port>>
probeVars == <<sql, probe, round, peer, verdict>>
readinessVars == <<probeVars, cleanupFailed, readinessClose>>
closeVars == <<close, closeStop, stopFailure, settled>>
vars == <<startVars, processVars, readinessVars, closeVars>>

Pending == {"preparing", "port", "spawning", "probing", "quieting", "waiting",
            "stopping", "reading", "completing", "failing"}

TypeOK ==
    /\ start \in {"idle", "ready", "failed"} \cup Pending
    /\ attempt \in 0..Attempts
    /\ aborted \in BOOLEAN /\ retryable \in BOOLEAN
    /\ process \in {"none", "coming", "up", "dead"}
    /\ exit \in {"none", "conflict", "other"}
    /\ bound \in {"no", "yes", "conflict"}
    /\ port \in {"free", "own", "foreign"}
    /\ sql \in {"idle", "connecting", "verifying", "asking", "ending"}
    /\ probe \in 0..Attempts /\ round \in {1, 2}
    /\ peer \in {"none", "own", "foreign"}
    /\ verdict \in {"none", "ok", "pending", "mismatch", "terminal", "error"}
    /\ cleanupFailed \in BOOLEAN /\ stopFailure \in BOOLEAN
    /\ readinessClose \in {"none", "closing", "closed", "failed"}
    /\ close \in {"none", "closing", "closed", "failed"}
    /\ closeStop \in {"none", "running", "done", "failed"}
    /\ settled \in {"none", "start", "process", "readiness", "done"}

Init ==
    /\ start = "idle" /\ attempt = 0 /\ aborted = FALSE /\ retryable = FALSE
    /\ process = "none" /\ exit = "none" /\ bound = "no" /\ port = "free"
    /\ sql = "idle" /\ probe = 0 /\ round = 1 /\ peer = "none" /\ verdict = "none"
    /\ cleanupFailed = FALSE /\ readinessClose = "none"
    /\ close = "none" /\ closeStop = "none" /\ stopFailure = FALSE /\ settled = "none"

-----------------------------------------------------------------------------
(* performStart up to the spawn                                            *)

Goto(s) ==
    /\ start' = s
    /\ UNCHANGED <<attempt, aborted, retryable>>

Start ==
    /\ start = "idle"
    /\ Goto(IF close = "none" THEN "preparing" ELSE "failed")
    /\ UNCHANGED <<processVars, readinessVars, closeVars>>

(* The deadline of the start, or the signal of the owner.                  *)
Abort ==
    /\ start \in Pending /\ ~aborted
    /\ aborted' = TRUE
    /\ UNCHANGED <<start, attempt, retryable, processVars, readinessVars, closeVars>>

(* The version is admitted, the cluster prepared, its lock recovered and    *)
(* the version adopted.                                                    *)
Prepared ==
    /\ start = "preparing" /\ ~aborted
    /\ start' = "port" /\ attempt' = 1
    /\ UNCHANGED <<aborted, retryable, processVars, readinessVars, closeVars>>

(* Any step before the spawn fails or finds the start aborted; the reading  *)
(* of the log of a failed attempt does not: it counts as no conflict.       *)
StartFails ==
    /\ start \in {"preparing", "port"}
    /\ Goto("failing")
    /\ UNCHANGED <<processVars, readinessVars, closeVars>>

SpawnM ==  \* the signal is not looked at between the reservation and the spawn
    /\ start = "port"
    /\ Goto("spawning")
    /\ process' = "coming" /\ exit' = "none" /\ bound' = "no" /\ port' = "free"
    /\ UNCHANGED <<readinessVars, closeVars>>

(* A port is reserved and released, the log is opened, and the process is   *)
(* spawned unless the start is aborted by then.                            *)
Spawn ==
    /\ start = "port" /\ ~aborted
    /\ Goto("spawning")
    /\ process' = "coming" /\ exit' = "none" /\ bound' = "no" /\ port' = "free"
    /\ UNCHANGED <<readinessVars, closeVars>>

(* The process is there and the log is closed: it is known from here on,    *)
(* and may have exited already.                                            *)
Spawned ==
    /\ start = "spawning"
    /\ process' \in {"up", "dead"}
    /\ exit' = IF process' = "dead" THEN "other" ELSE "none"
    /\ Goto("probing")
    /\ UNCHANGED <<bound, port, readinessVars, closeVars>>

(* It could not be spawned, or the abort has ended it before that.          *)
SpawnFails ==
    /\ start = "spawning"
    /\ process' = "none"
    /\ Goto("failing")
    /\ UNCHANGED <<exit, bound, port, readinessVars, closeVars>>

-----------------------------------------------------------------------------
(* PostgreSQL and the others on this machine                               *)

ForeignTakes ==
    /\ start \in {"spawning", "probing"} /\ port = "free"
    /\ port' = "foreign"
    /\ UNCHANGED <<startVars, process, exit, bound, readinessVars, closeVars>>

Bind ==
    /\ process = "up" /\ bound = "no"
    /\ \/ port = "free" /\ port' = "own" /\ bound' = "yes"
       \/ port = "foreign" /\ bound' = "conflict" /\ UNCHANGED port
    /\ UNCHANGED <<startVars, process, exit, readinessVars, closeVars>>

(* It was told to, it crashed, or it could not bind.                       *)
Exit ==
    /\ process = "up"
    /\ process' = "dead"
    /\ exit' \in IF bound = "conflict" THEN {"conflict", "other"} ELSE {"other"}
    /\ port' = IF port = "own" THEN "free" ELSE port
    /\ UNCHANGED <<startVars, bound, readinessVars, closeVars>>

(* The completion of the child: server and serverCompletion are unset.      *)
Reap ==
    /\ process = "dead"
    /\ process' = "none"
    /\ UNCHANGED <<startVars, exit, bound, port, readinessVars, closeVars>>

(* attempt.exited                                                          *)
Exited == process = "none" /\ exit # "none"

-----------------------------------------------------------------------------
(* resolveFailedAttempt                                                    *)

(* How an attempt that has failed goes on.  An aborted start first closes   *)
(* the readiness; a failure that a bind conflict may be behind waits for    *)
(* the process to exit; any other stops it.                                *)
AttemptFails(mayBeConflict) ==
    /\ retryable' = mayBeConflict
    /\ IF aborted
          THEN /\ start' = "quieting"
               /\ readinessClose' = IF readinessClose = "none" THEN "closing" ELSE readinessClose
          ELSE /\ start' = IF Exited THEN "reading"
                           ELSE IF mayBeConflict THEN "waiting" ELSE "stopping"
               /\ UNCHANGED readinessClose
    /\ UNCHANGED <<attempt, aborted>>

(* The exit wins the race against the probe.                               *)
ExitWins ==
    /\ start = "probing" /\ Exited
    /\ AttemptFails(TRUE)
    /\ UNCHANGED <<processVars, probeVars, cleanupFailed, closeVars>>

Quieted ==
    /\ start = "quieting" /\ readinessClose \in {"closed", "failed"}
    /\ Goto(IF Exited THEN "failing" ELSE "stopping")
    /\ UNCHANGED <<processVars, readinessVars, closeVars>>

WaitEndsM ==  \* the deadline does not end the wait for the exit
    /\ start = "waiting" /\ Exited
    /\ Goto("reading")
    /\ UNCHANGED <<processVars, readinessVars, closeVars>>

(* The exit that a bind conflict ends in, or the abort of the start.        *)
WaitEnds ==
    /\ start = "waiting"
    /\ \/ Exited /\ Goto("reading")
       \/ aborted /\ Goto("stopping")
    /\ UNCHANGED <<processVars, readinessVars, closeVars>>

StopEnds ==
    /\ start = "stopping"
    /\ \/ Exited /\ Goto("reading") /\ UNCHANGED stopFailure
       \/ process \in {"up", "dead"} /\ Goto("failing") /\ stopFailure' = TRUE
    /\ UNCHANGED <<processVars, readinessVars, close, closeStop, settled>>

(* Only a bind conflict that the log tells of is tried again.              *)
LogRead ==
    /\ start = "reading"
    /\ IF retryable /\ ~aborted /\ exit = "conflict" /\ attempt < Attempts
          THEN start' = "port" /\ attempt' = attempt + 1 /\ UNCHANGED <<aborted, retryable>>
          ELSE Goto("failing")
    /\ UNCHANGED <<processVars, readinessVars, closeVars>>

-----------------------------------------------------------------------------
(* EmbeddedPostgresReadiness                                               *)

Closing == readinessClose # "none"

(* The signal of the probe: of the start, of its attempt, or its own.       *)
Cancelled == aborted \/ Closing \/ start # "probing" \/ probe # attempt

ProbeBegins ==
    /\ start = "probing" /\ ~Exited /\ ~aborted
    /\ sql = "idle" /\ ~Closing /\ ~cleanupFailed
    /\ sql' = "connecting" /\ probe' = attempt /\ round' = 1
    /\ peer' = "none" /\ verdict' = "none"
    /\ UNCHANGED <<startVars, processVars, cleanupFailed, readinessClose, closeVars>>

(* The start is aborted, or initialize rejects: the readiness is closing, a *)
(* clean-up of it has failed, or the probe of an earlier attempt is still   *)
(* active.                                                                 *)
ProbeRefused ==
    /\ start = "probing"
    /\ \/ aborted /\ sql = "idle"
       \/ Closing \/ cleanupFailed
       \/ sql # "idle" /\ probe # attempt
    /\ AttemptFails(TRUE)
    /\ UNCHANGED <<processVars, probeVars, cleanupFailed, closeVars>>

(* The probe goes to the end of its client with what it has found.          *)
Found(v) ==
    /\ sql' = "ending"
    /\ verdict' = v

ProbeStep == UNCHANGED <<startVars, processVars, probe, readinessClose, closeVars>>

(* Nobody listens, or PostgreSQL is still starting up.                     *)
ConnectRefused ==
    /\ sql = "connecting" /\ probe = attempt /\ port # "foreign"
    /\ Found("pending")
    /\ ProbeStep /\ UNCHANGED <<round, peer, cleanupFailed>>

(* The signal is looked at when the connection is there, not before.        *)
Connected ==
    /\ sql = "connecting" /\ probe = attempt /\ port # "free"
    /\ peer' = port
    /\ IF Cancelled THEN Found("error") ELSE sql' = "verifying" /\ UNCHANGED verdict
    /\ ProbeStep /\ UNCHANGED <<round, cleanupFailed>>

(* Whoever has the port does not speak the protocol, or rejects the user.   *)
ConnectFails ==
    /\ sql = "connecting" /\ (probe # attempt \/ port = "foreign")
    /\ \E v \in {"error", "terminal"} : Found(v)
    /\ ProbeStep /\ UNCHANGED <<round, peer, cleanupFailed>>

VerifiedM ==  \* the nonce is not compared
    /\ sql = "verifying"
    /\ IF Cancelled THEN Found("error")
       ELSE sql' = "asking" /\ UNCHANGED verdict
    /\ ProbeStep /\ UNCHANGED <<round, peer, cleanupFailed>>

(* verifyStartupNonce: only the own process has the nonce of this attempt.  *)
Verified ==
    /\ sql = "verifying"
    /\ IF peer = "foreign" THEN Found("mismatch")
       ELSE IF Cancelled THEN Found("error")
       ELSE sql' = "asking" /\ UNCHANGED verdict
    /\ ProbeStep /\ UNCHANGED <<round, peer, cleanupFailed>>

Answered ==
    /\ sql = "asking"
    /\ Found(IF Cancelled THEN "error" ELSE "ok")
    /\ ProbeStep /\ UNCHANGED <<round, peer, cleanupFailed>>

(* The SQL deadline, an error PostgreSQL reports, a broken connection; what *)
(* is still in flight then may not be drained.                             *)
SqlFails ==
    /\ sql \in {"connecting", "verifying", "asking"}
    /\ \E v \in {"error", "terminal"} : Found(v)
    /\ \E undrained \in BOOLEAN : cleanupFailed' = (cleanupFailed \/ undrained)
    /\ ProbeStep /\ UNCHANGED <<round, peer>>

(* The client has ended, or could not.  After the administration database   *)
(* comes the application database; then initialize settles, and whoever     *)
(* still waits for it goes on.                                             *)
ClientEnded ==
    /\ sql = "ending"
    /\ \E stuck \in BOOLEAN : cleanupFailed' = (cleanupFailed \/ stuck)
    /\ IF verdict = "ok" /\ round = 1 /\ ~Cancelled
          THEN /\ sql' = "connecting" /\ round' = 2 /\ verdict' = "none"
               /\ UNCHANGED <<startVars, readinessClose>>
          ELSE /\ sql' = "idle"
               /\ IF start # "probing" \/ probe # attempt
                     THEN UNCHANGED <<startVars, readinessClose>>
                  ELSE IF verdict = "ok" /\ round = 2
                     THEN Goto("completing") /\ UNCHANGED readinessClose
                  ELSE IF verdict = "pending" /\ ~aborted
                     THEN UNCHANGED <<startVars, readinessClose>>
                     ELSE AttemptFails(verdict # "terminal")
               /\ UNCHANGED <<round, verdict>>
    /\ UNCHANGED <<processVars, probe, peer, closeVars>>

(* close of the readiness: the probe has ended, or has not by the deadline. *)
ReadinessCloses ==
    /\ readinessClose = "closing"
    /\ \/ /\ sql = "idle"
          /\ readinessClose' = IF cleanupFailed THEN "failed" ELSE "closed"
          /\ UNCHANGED cleanupFailed
       \/ /\ sql # "idle"
          /\ readinessClose' = "failed"
          /\ cleanupFailed' = TRUE
    /\ UNCHANGED <<startVars, processVars, probeVars, closeVars>>

-----------------------------------------------------------------------------
(* The end of performStart                                                 *)

(* The progress is recorded.  By then the start may be aborted, the         *)
(* resource closing, or the process gone.                                  *)
Completed ==
    /\ start = "completing"
    /\ \/ Goto(IF ~aborted /\ close = "none" /\ process \in {"up", "dead"} THEN "ready" ELSE "failing")
       \/ Goto("failing")
    /\ UNCHANGED <<processVars, readinessVars, closeVars>>

(* The failure is recorded, or that fails too.                             *)
StartRejected ==
    /\ start = "failing"
    /\ Goto("failed")
    /\ UNCHANGED <<processVars, readinessVars, closeVars>>

-----------------------------------------------------------------------------
(* close and settled                                                       *)

CloseCall ==
    /\ close = "none"
    /\ close' = "closing"
    /\ aborted' = TRUE
    /\ readinessClose' = IF readinessClose = "none" THEN "closing" ELSE readinessClose
    /\ closeStop' = IF process \in {"up", "dead"} THEN "running" ELSE "done"
    /\ settled' = "start"
    /\ UNCHANGED <<start, attempt, retryable, processVars, probeVars, cleanupFailed, stopFailure>>

(* stopServer of the close: the process has exited, or has not in time.     *)
CloseStopEnds ==
    /\ closeStop = "running"
    /\ \/ process = "none" /\ closeStop' = "done" /\ UNCHANGED stopFailure
       \/ process # "none" /\ closeStop' = "failed" /\ stopFailure' = TRUE
    /\ UNCHANGED <<startVars, processVars, readinessVars, close, settled>>

(* The preparation is closed last, and may fail.                           *)
CloseSettles ==
    /\ close = "closing"
    /\ readinessClose \in {"closed", "failed"} /\ closeStop \in {"done", "failed"}
    /\ close' \in IF /\ readinessClose = "closed" /\ closeStop = "done" /\ ~stopFailure
                     /\ start \notin Pending /\ process \notin {"up", "dead"}
                  THEN {"closed", "failed"} ELSE {"failed"}
    /\ UNCHANGED <<startVars, processVars, readinessVars, closeStop, stopFailure, settled>>

SettleStep(from, to) ==
    /\ settled = from
    /\ settled' = to
    /\ UNCHANGED <<startVars, processVars, readinessVars, close, closeStop, stopFailure>>

StartSettledM ==  \* settled does not wait for the start
    SettleStep("start", "process")

StartSettled     == start \notin Pending /\ SettleStep("start", "process")
ProcessSettled   == process \notin {"up", "dead"} /\ SettleStep("process", "readiness")
ReadinessSettled == readinessClose \in {"closed", "failed"} /\ SettleStep("readiness", "done")

-----------------------------------------------------------------------------
StartStep ==
    \/ Start \/ Prepared \/ StartFails \/ Spawn \/ Spawned \/ SpawnFails
    \/ ExitWins \/ Quieted \/ WaitEnds \/ StopEnds \/ LogRead
    \/ Completed \/ StartRejected

SqlStep ==
    \/ ConnectRefused \/ Connected \/ ConnectFails \/ Verified \/ Answered \/ SqlFails
    \/ ClientEnded

ProcessStep == ForeignTakes \/ Bind \/ Exit \/ Reap

Next ==
    \/ StartStep \/ ProbeBegins \/ ProbeRefused \/ SqlStep \/ ReadinessCloses
    \/ ProcessStep \/ Abort
    \/ CloseCall \/ CloseStopEnds \/ CloseSettles
    \/ StartSettled \/ ProcessSettled \/ ReadinessSettled

Spec == Init /\ [][Next]_vars

(* Every await ends: files are local, each SQL step, stop and close has a   *)
(* deadline, and the start as a whole has one.  PostgreSQL need not exit.   *)
Fairness ==
    /\ WF_vars(StartStep) /\ WF_vars(Abort) /\ WF_vars(Reap)
    /\ WF_vars(ProbeBegins \/ ProbeRefused) /\ WF_vars(SqlFails) /\ WF_vars(ClientEnded)
    /\ WF_vars(ReadinessCloses) /\ WF_vars(CloseStopEnds) /\ WF_vars(CloseSettles)
    /\ WF_vars(StartSettled) /\ WF_vars(ProcessSettled) /\ WF_vars(ReadinessSettled)

FairSpec == Spec /\ Fairness

-----------------------------------------------------------------------------
(* Properties                                                              *)

(* The resource keeps the promise of OwnedChild: over all its attempts and  *)
(* retries there is one PostgreSQL at a time, none is spawned for a closed  *)
(* resource, and a close that succeeds leaves none.                        *)
Owned == INSTANCE OwnedChild WITH
    start <- IF start \in Pending THEN "pending" ELSE start,
    child <- IF process = "up" THEN "alive" ELSE process

ImplementsOwnedChild == Owned!Spec

(* The database given to Core is the one this server has spawned, however   *)
(* the port changed hands: its own process bound the port and answered.     *)
ReadyIsOurs ==
    start \in {"completing", "ready"} => bound = "yes" /\ peer = "own" /\ probe = attempt

(* After settled, on which the directory is given to others, no PostgreSQL  *)
(* of this server runs, and none comes.                                    *)
SettledMeansGone == settled = "done" => process = "none" /\ start \notin Pending

(* start and close settle whatever PostgreSQL does; settled too, once       *)
(* PostgreSQL has gone.                                                    *)
CallsSettle ==
    /\ start \in Pending ~> start \in {"ready", "failed"}
    /\ close = "closing" ~> close \in {"closed", "failed"}
    /\ settled = "start" ~> (settled = "done" \/ process = "up")

=============================================================================
