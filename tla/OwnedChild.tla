----------------------------- MODULE OwnedChild -----------------------------
(***************************************************************************)
(* What a part of the server that owns a child process promises to its      *)
(* user, ServerOwnerResource: the part has two asynchronous calls, start    *)
(* and close, which may run at the same time, and at most one child.        *)
(*                                                                         *)
(*   - a child is created only while start is pending, close has not been   *)
(*     called, and the child before it has been reaped;                     *)
(*   - start succeeds only with a child, and never once close is called;    *)
(*   - close succeeds only when the child is gone and reaped, and then      *)
(*     there is never a child again.                                        *)
(*                                                                         *)
(* CoreHost and EmbeddedPostgres implement this specification, each under   *)
(* a mapping of its own state.                                             *)
(***************************************************************************)

VARIABLES
    start,  \* the promise start returned: "idle" before the call
    close,  \* the promise close returned: "none" before the call
    child   \* "coming" is in the hands of spawn, "dead" is not yet reaped

vars == <<start, close, child>>

TypeOK ==
    /\ start \in {"idle", "pending", "ready", "failed"}
    /\ close \in {"none", "closing", "closed", "failed"}
    /\ child \in {"none", "coming", "alive", "dead"}

Init ==
    /\ start = "idle"
    /\ close = "none"
    /\ child = "none"

(* A start that is called after close may reject at once.                   *)
CallStart ==
    /\ start = "idle"
    /\ start' \in {"pending", "failed"}
    /\ UNCHANGED <<close, child>>

Launch ==
    /\ start \in {"idle", "pending"}
    /\ close = "none"
    /\ child = "none"
    /\ start' = "pending"
    /\ child' = "coming"
    /\ UNCHANGED close

Arrive ==
    /\ child = "coming"
    /\ child' \in {"alive", "dead", "none"}
    /\ UNCHANGED <<start, close>>

Exit ==
    /\ child = "alive"
    /\ child' = "dead"
    /\ UNCHANGED <<start, close>>

Reap ==
    /\ child = "dead"
    /\ child' = "none"
    /\ UNCHANGED <<start, close>>

Succeed ==
    /\ start = "pending"
    /\ close = "none"
    /\ child \in {"alive", "dead"}
    /\ start' = "ready"
    /\ UNCHANGED <<close, child>>

Fail ==
    /\ start = "pending"
    /\ start' = "failed"
    /\ UNCHANGED <<close, child>>

CallClose ==
    /\ close \in {"none", "failed"}
    /\ close' = "closing"
    /\ UNCHANGED <<start, child>>

Closed ==
    /\ close = "closing"
    /\ child = "none"
    /\ close' = "closed"
    /\ UNCHANGED <<start, child>>

CloseFails ==
    /\ close = "closing"
    /\ close' = "failed"
    /\ UNCHANGED <<start, child>>

Next ==
    \/ CallStart \/ Launch \/ Arrive \/ Exit \/ Reap
    \/ Succeed \/ Fail
    \/ CallClose \/ Closed \/ CloseFails

Spec == Init /\ [][Next]_vars

=============================================================================
