--------------------------- MODULE StartupJournal ---------------------------
(***************************************************************************)
(* The progress of a start, from the host to the terminal of the user.      *)
(*                                                                         *)
(* The host's OwnedStartupProgress queues the calls of all its parts, makes *)
(* a sequence of events of them and replaces the journal file by the whole  *)
(* sequence after each.  The launcher's ServerStartupObserver reads that    *)
(* file again and again while the launch attempt is pending, once more when *)
(* it has settled, and calls the sink, which may be slow or hang, with what *)
(* is new; the final event waits for the outcome of the attempt.            *)
(***************************************************************************)
EXTENDS Naturals, SequencesExt

CONSTANT MaxCalls   \* how many calls the host makes

ASSUME MaxCallsAssumption == MaxCalls \in Nat

VARIABLES
    calls,         \* calls made so far
    queued,        \* of them, those whose turn has not come
    history,       \* ProgressOperation.history
    sequence,      \* ProgressOperation.sequence
    persist,       \* where the call that has its turn is
    limited,       \* it is an event too large, made a failure
    disabled,      \* of OwnedStartupProgress, as is closed
    closed,
    lastPersisted,
    initialized,   \* before that the journal is of an earlier start
    file,          \* the events of the journal
    outcome,       \* of the launch attempt
    known,         \* the file told of a failure when the attempt settled
    follow,        \* where the loop of JournalObservation is
    finalRead,     \* this turn of it began after the attempt settled
    late,          \* the deadline of the launch is over
    unread,        \* the last read came back without the journal of this start
    batch,         \* events read and not yet replayed
    cursor,
    ready, failure, \* final events found, kept back
    drained,       \* JournalObservation.closed
    inFlight,      \* ProgressDelivery.inFlight
    observe,       \* what observe() awaits
    warned,        \* Warnings.emitted
    shown          \* the calls of the sink

callVars     == <<calls, queued, closed>>
eventVars    == <<history, sequence, limited>>
writerVars   == <<callVars, eventVars, persist, disabled, lastPersisted, initialized>>
followVars   == <<follow, finalRead, late, unread, batch, cursor, ready, failure, drained>>
deliveryVars == <<inFlight, observe, warned, shown>>
readerVars   == <<outcome, known, followVars, deliveryVars>>
vars == <<writerVars, file, readerVars>>

Statuses == {"started", "progress", "completed", "ready", "failed"}
Final    == {"ready", "failed"}
Event    == [sequence : 1..(2 * MaxCalls + 1), status : Statuses]
NoEvent  == [sequence |-> 0, status |-> "none"]

TypeOK ==
    /\ calls \in 0..MaxCalls /\ queued \in 0..MaxCalls
    /\ history \in Seq(Event) /\ sequence \in Nat
    /\ persist \in {"idle", "writing", "limiting"}
    /\ limited \in BOOLEAN /\ disabled \in BOOLEAN /\ closed \in BOOLEAN
    /\ lastPersisted \in Nat /\ initialized \in BOOLEAN
    /\ file \in Seq(Event)
    /\ outcome \in {"pending", "started", "failed"} /\ known \in BOOLEAN
    /\ follow \in {"reading", "replaying", "delivering", "polling", "ended"}
    /\ finalRead \in BOOLEAN /\ late \in BOOLEAN /\ unread \in BOOLEAN /\ drained \in BOOLEAN
    /\ batch \in Seq(Event) /\ cursor \in Nat
    /\ ready \in Event \cup {NoEvent} /\ failure \in Event \cup {NoEvent}
    /\ inFlight \in BOOLEAN
    /\ observe \in {"attempt", "drain", "sink", "delivery", "done"}
    /\ warned \subseteq {"journal", "output"}
    /\ shown \in Seq(Event)

Init ==
    /\ calls = 0 /\ queued = 0 /\ history = <<>> /\ sequence = 0
    /\ persist = "idle" /\ limited = FALSE /\ disabled = FALSE /\ closed = FALSE
    /\ lastPersisted = 0 /\ initialized = FALSE /\ file = <<>>
    /\ outcome = "pending" /\ known = FALSE
    /\ follow = "reading" /\ finalRead = FALSE /\ late = FALSE /\ unread = FALSE
    /\ batch = <<>> /\ cursor = 0 /\ ready = NoEvent /\ failure = NoEvent
    /\ drained = FALSE /\ inFlight = FALSE /\ observe = "attempt"
    /\ warned = {} /\ shown = <<>>

(* The last event of s, if there is one, has a status of S.                *)
EndsWith(s, S) == s # <<>> /\ Last(s).status \in S

(* The filter of an array: the events of s that are in S, in their order.   *)
Kept(s, S) ==
    LET kept[n \in 0..Len(s)] ==
            IF n = 0 THEN <<>>
            ELSE IF s[n] \in S THEN Append(kept[n - 1], s[n])
            ELSE kept[n - 1]
    IN  kept[Len(s)]

-----------------------------------------------------------------------------
(* OwnedStartupProgress and ProgressOperation                              *)

(* An empty journal of this start takes the place of that of the last one.  *)
Initialize ==
    /\ ~initialized
    /\ initialized' = TRUE
    /\ UNCHANGED <<callVars, eventVars, persist, disabled, lastPersisted, file, readerVars>>

(* Any part of the host reports; a closed or disabled progress refuses.     *)
Call ==
    /\ initialized /\ calls < MaxCalls
    /\ ~closed /\ ~disabled
    /\ calls' = calls + 1 /\ queued' = queued + 1
    /\ UNCHANGED <<closed, eventVars, persist, disabled, lastPersisted, initialized, file,
                   readerVars>>

CloseProgress ==
    /\ initialized /\ ~closed
    /\ closed' = TRUE
    /\ UNCHANGED <<calls, queued, eventVars, persist, disabled, lastPersisted, initialized, file,
                   readerVars>>

(* The turn of a call that comes after the end is lost.                    *)
CallRejected ==
    /\ persist = "idle" /\ queued > 0
    /\ disabled \/ EndsWith(history, Final)
    /\ queued' = queued - 1
    /\ UNCHANGED <<calls, closed, eventVars, persist, disabled, lastPersisted, initialized, file,
                   readerVars>>

EmittedM(status) ==  \* every event drops the transition before it
    LET event == [sequence |-> sequence + 1, status |-> status]
    IN  IF status \in {"started", "progress"} /\ history # <<>>
           THEN Append(Front(history), event)
           ELSE Append(history, event)

(* emit: a started or progress event drops the progress before it.          *)
Emitted(status) ==
    LET event == [sequence |-> sequence + 1, status |-> status]
    IN  IF status \in {"started", "progress"}
           THEN Append(Kept(history, {e \in Event : e.status # "progress"}), event)
           ELSE Append(history, event)

(* A final event that is too large becomes a failure.                      *)
Emit ==
    /\ persist = "idle" /\ queued > 0
    /\ ~disabled /\ ~EndsWith(history, Final)
    /\ queued' = queued - 1
    /\ \/ /\ \E status \in Statuses : history' = Emitted(status)
          /\ limited' = FALSE
       \/ /\ history' = Emitted("failed")
          /\ limited' = TRUE
    /\ sequence' = sequence + 1
    /\ persist' = "writing"
    /\ UNCHANGED <<calls, closed, disabled, lastPersisted, initialized, file, readerVars>>

WriteStep(next) ==
    /\ persist = "writing"
    /\ persist' = next
    /\ UNCHANGED <<callVars, initialized, readerVars>>

(* The temporary file is renamed over the journal.                         *)
Written ==
    /\ WriteStep("idle")
    /\ file' = history
    /\ lastPersisted' = sequence
    /\ disabled' = limited
    /\ UNCHANGED eventVars

(* An input or output error: the next write makes up for it, unless this    *)
(* was the failure.                                                        *)
WriteFails ==
    /\ WriteStep("idle")
    /\ disabled' = EndsWith(history, {"failed"})
    /\ UNCHANGED <<eventVars, lastPersisted, file>>

(* The server is closing, or its time over, when it would become ready.     *)
ReadyRefused ==
    /\ EndsWith(history, {"ready"})
    /\ WriteStep("idle")
    /\ disabled' = TRUE
    /\ UNCHANGED <<eventVars, lastPersisted, file>>

(* The journal is full: after the events it holds it gets a failure.        *)
LimitReached ==
    /\ ~EndsWith(history, Final)
    /\ WriteStep("limiting")
    /\ disabled' = TRUE
    /\ history' = Emitted("failed")
    /\ sequence' = sequence + 1
    /\ UNCHANGED <<limited, lastPersisted, file>>

LimitRecorded ==
    /\ persist = "limiting"
    /\ persist' = "idle"
    /\ \/ file' = Kept(history, {e \in Event : e.sequence \in 1..lastPersisted \cup {sequence}})
       \/ UNCHANGED file
    /\ UNCHANGED <<callVars, eventVars, disabled, lastPersisted, initialized, readerVars>>

-----------------------------------------------------------------------------
(* The launch attempt, and the time                                        *)

(* The attempt succeeds after the ready event, and fails at any time; then  *)
(* drain begins and wakes the loop.                                        *)
Settle ==
    /\ outcome = "pending"
    /\ \/ outcome' = "failed"
       \/ EndsWith(history, {"ready"}) /\ persist = "idle" /\ ~disabled /\ outcome' = "started"
    /\ known' = EndsWith(file, {"failed"})
    /\ observe' = "drain"
    /\ UNCHANGED <<writerVars, file, followVars, inFlight, warned, shown>>

Deadline ==
    /\ ~late
    /\ late' = TRUE
    /\ UNCHANGED <<writerVars, file, outcome, known, follow, finalRead, unread, batch, cursor,
                   ready, failure, drained, deliveryVars>>

-----------------------------------------------------------------------------
(* JournalObservation.follow                                               *)

ReaderStep == UNCHANGED <<writerVars, file, outcome, known>>

(* What the journal of this start has beyond the cursor.  A file that is    *)
(* missing, cannot be opened, is no journal or is that of another start is  *)
(* nothing new and no error; only a read that rejects is a warning.         *)
Read ==
    /\ follow = "reading"
    /\ follow' = "replaying"
    /\ \/ /\ initialized
          /\ batch' = Kept(file, {e \in Event : e.sequence > cursor})
          /\ unread' = FALSE
          /\ UNCHANGED warned
       \/ /\ batch' = <<>>
          /\ unread' = TRUE
          /\ warned' \in {warned, warned \cup {"journal"}}
    /\ ReaderStep
    /\ UNCHANGED <<finalRead, late, cursor, ready, failure, drained, inFlight, observe, shown>>

Replaying == follow = "replaying" /\ batch # <<>> /\ ~drained

Replay ==
    /\ batch' = Tail(batch)
    /\ cursor' = Head(batch).sequence
    /\ ReaderStep
    /\ UNCHANGED <<finalRead, late, unread, drained, observe>>

KeepBack ==
    /\ Replaying /\ Head(batch).status \in Final
    /\ Replay
    /\ ready' = IF Head(batch).status = "ready" THEN Head(batch) ELSE ready
    /\ failure' = IF Head(batch).status = "failed" THEN Head(batch) ELSE failure
    /\ UNCHANGED <<follow, inFlight, warned, shown>>

(* tick: one event is dropped while the sink is busy with another.          *)
DropEvent ==
    /\ Replaying /\ Head(batch).status \notin Final /\ inFlight
    /\ Replay
    /\ warned' = warned \cup {"output"}
    /\ UNCHANGED <<follow, ready, failure, inFlight, shown>>

ShowEvent ==
    /\ Replaying /\ Head(batch).status \notin Final /\ ~inFlight
    /\ Replay
    /\ shown' = Append(shown, Head(batch))
    /\ inFlight' = TRUE
    /\ follow' = "delivering"
    /\ UNCHANGED <<ready, failure, warned>>

(* The sink has settled, or its time is over and it stays in flight.        *)
Delivered ==
    /\ follow = "delivering"
    /\ follow' = "replaying"
    /\ warned' \in {warned, warned \cup {"output"}}
    /\ ReaderStep
    /\ UNCHANGED <<finalRead, late, unread, batch, cursor, ready, failure, drained, inFlight,
                   observe, shown>>

TurnEndsM ==  \* the settled attempt ends the loop at once
    /\ follow = "replaying" /\ (batch = <<>> \/ drained)
    /\ follow' = IF late \/ outcome # "pending" THEN "ended" ELSE "polling"
    /\ UNCHANGED finalRead
    /\ batch' = <<>>
    /\ ReaderStep
    /\ UNCHANGED <<late, unread, cursor, ready, failure, drained, deliveryVars>>

(* A turn that began after the attempt had settled is the last.            *)
TurnEnds ==
    /\ follow = "replaying" /\ (batch = <<>> \/ drained)
    /\ IF finalRead \/ late THEN follow' = "ended" /\ UNCHANGED finalRead
       ELSE IF outcome = "pending" THEN follow' = "polling" /\ UNCHANGED finalRead
       ELSE follow' = "reading" /\ finalRead' = TRUE
    /\ batch' = <<>>
    /\ ReaderStep
    /\ UNCHANGED <<late, unread, cursor, ready, failure, drained, deliveryVars>>

PollEnds ==
    /\ follow = "polling"
    /\ follow' = "reading"
    /\ finalRead' = (outcome # "pending")
    /\ ReaderStep
    /\ UNCHANGED <<late, unread, batch, cursor, ready, failure, drained, deliveryVars>>

-----------------------------------------------------------------------------
(* ServerStartupObserver.observe                                           *)

SinkSettles ==
    /\ inFlight
    /\ inFlight' = FALSE
    /\ ReaderStep
    /\ UNCHANGED <<followVars, observe, warned, shown>>

DrainEndsM ==  \* the loop is not told that it is over
    /\ observe = "drain"
    /\ warned' = IF follow = "ended" THEN warned ELSE warned \cup {"journal"}
    /\ observe' = IF outcome = "failed" /\ failure = NoEvent THEN "done" ELSE "sink"
    /\ ReaderStep
    /\ UNCHANGED <<followVars, inFlight, shown>>

(* The loop has ended, or the time of the drain has.  A failed attempt that *)
(* the journal does not explain ends without a final event.                *)
DrainEnds ==
    /\ observe = "drain"
    /\ warned' = IF follow = "ended" THEN warned ELSE warned \cup {"journal"}
    /\ drained' = TRUE
    /\ observe' = IF outcome = "failed" /\ failure = NoEvent THEN "done" ELSE "sink"
    /\ ReaderStep
    /\ UNCHANGED <<follow, finalRead, late, unread, batch, cursor, ready, failure, inFlight,
                   shown>>

(* reportFailure, and reportReady with an event made here if need be.       *)
FinalEvent ==
    IF outcome = "failed" THEN failure
    ELSE IF ready # NoEvent THEN ready
    ELSE [sequence |-> cursor + 1, status |-> "ready"]

ShowFinalM ==  \* the wait for a busy sink has no end
    /\ observe = "sink" /\ ~inFlight
    /\ shown' = Append(shown, FinalEvent)
    /\ inFlight' = TRUE
    /\ observe' = "delivery"
    /\ ReaderStep
    /\ UNCHANGED <<followVars, warned>>

(* final: the sink is free, or what is left of the drain has passed.        *)
ShowFinal ==
    /\ observe = "sink"
    /\ shown' = Append(shown, FinalEvent)
    /\ inFlight' = TRUE
    /\ observe' = "delivery"
    /\ ReaderStep
    /\ UNCHANGED <<followVars, warned>>

FinalShown ==
    /\ observe = "delivery"
    /\ observe' = "done"
    /\ warned' \in {warned, warned \cup {"output"}}
    /\ ReaderStep
    /\ UNCHANGED <<followVars, inFlight, shown>>

-----------------------------------------------------------------------------
WriterStep ==
    \/ Initialize \/ Call \/ CloseProgress \/ CallRejected \/ Emit
    \/ Written \/ WriteFails \/ ReadyRefused \/ LimitReached \/ LimitRecorded

FollowStep ==
    \/ Read \/ KeepBack \/ DropEvent \/ ShowEvent \/ Delivered \/ TurnEnds \/ PollEnds

Next ==
    \/ WriterStep \/ Settle \/ Deadline \/ FollowStep \/ SinkSettles
    \/ DrainEnds \/ ShowFinal \/ FinalShown

Spec == Init /\ [][Next]_vars

(* drain, the wait for the sink and the last delivery are bounded by timers *)
(* of the observer.  The sink need not settle, nor a read of the journal.   *)
Fairness == WF_vars(DrainEnds) /\ WF_vars(ShowFinal) /\ WF_vars(FinalShown)

FairSpec == Spec /\ Fairness

-----------------------------------------------------------------------------
(* Properties                                                              *)

(* The user sees the events in order, none twice and none after the final   *)
(* one, however reads, writes, a slow sink and the end of the drain fall.   *)
ShownInOrder ==
    \A i, j \in DOMAIN shown : i < j =>
        /\ shown[i].sequence < shown[j].sequence
        /\ shown[i].status \notin Final

(* The final event fits the outcome.  It comes for every start that has     *)
(* succeeded, and for every failure the journal told of when the attempt    *)
(* settled, unless the deadline had passed, the user was warned, or the     *)
(* last read, which began after that, found no journal: what a read misses  *)
(* before it is made up for.                                               *)
EndIsTrue ==
    /\ EndsWith(shown, Final) =>
           Last(shown).status = IF outcome = "started" THEN "ready" ELSE "failed"
    /\ observe = "done" /\ outcome = "started" => EndsWith(shown, {"ready"})
    /\ observe = "done" /\ known /\ outcome = "failed" /\ ~late /\ "journal" \notin warned =>
           EndsWith(shown, {"failed"}) \/ (finalRead /\ unread)

(* The journal only grows: a transition in it stays, in front of what comes *)
(* later, and nothing follows a final event.                               *)
JournalGrows ==
    [][/\ \A e \in ToSet(file) : e.status # "progress" => e \in ToSet(file')
       /\ file' # file => ~EndsWith(file, Final)
       /\ \A i, j \in DOMAIN file' : i < j => file'[i].sequence < file'[j].sequence]_file

(* observe settles once the attempt has, whatever the sink and the journal  *)
(* do.                                                                     *)
ObserveSettles == outcome # "pending" ~> observe = "done"

=============================================================================
