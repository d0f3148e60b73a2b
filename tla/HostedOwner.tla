----------------------------- MODULE HostedOwner -----------------------------
(***************************************************************************)
(* What ServerOwnerService and the resource it opens promise to the host    *)
(* process, ServerHostEntry: open, start and the outcome of one server,     *)
(* and the lease on the data directory that comes and goes with them.       *)
(*                                                                         *)
(*   - a server that starts or is ready owns the directory; what closes     *)
(*     never starts again;                                                 *)
(*   - there is one outcome, and it is true when it is given: stopped and   *)
(*     completed after the lease was given back, retained before;           *)
(*   - after it the lease may still be given back, but only a retained one. *)
(*                                                                         *)
(* ServerOwner implements this specification from the inside, and the owner *)
(* that LaunchHandshake gives its host implements it as well.              *)
(***************************************************************************)

VARIABLES
    stage,    \* where the server is
    outcome,  \* the promise outcome(), "pending" until it is resolved
    lease     \* the data directory is owned

vars == <<stage, outcome, lease>>

TypeOK ==
    /\ stage \in {"opening", "refused", "starting", "ready", "closing", "over", "dead"}
    /\ outcome \in {"pending", "stopped", "completed", "retained", "unconfirmed"}
    /\ lease \in BOOLEAN

Init ==
    /\ stage = "opening"
    /\ outcome = "pending"
    /\ lease \in BOOLEAN

(* open: the directory is taken, and then the server begins; or open fails, *)
(* and what it could not release is left to the end of the process.         *)
Take ==
    /\ stage = "opening" /\ ~lease
    /\ lease' = TRUE
    /\ UNCHANGED <<stage, outcome>>

Refuse ==
    /\ stage = "opening"
    /\ stage' = "refused"
    /\ lease' \in {lease, FALSE}
    /\ UNCHANGED outcome

Begin ==
    /\ stage = "opening" /\ lease
    /\ stage' = "starting"
    /\ UNCHANGED <<outcome, lease>>

BecomeReady ==
    /\ stage = "starting"
    /\ stage' = "ready"
    /\ UNCHANGED <<outcome, lease>>

(* From open on anything may close the server, for good.                    *)
Close ==
    /\ stage \in {"opening", "starting", "ready"} /\ lease
    /\ stage' = "closing"
    /\ UNCHANGED <<outcome, lease>>

GiveBack ==
    /\ stage = "closing" \/ (stage = "over" /\ outcome = "retained")
    /\ lease
    /\ lease' = FALSE
    /\ UNCHANGED <<stage, outcome>>

End ==
    /\ stage = "closing"
    /\ stage' = "over"
    /\ outcome' \in {"unconfirmed"}
          \cup IF lease THEN {"retained"} ELSE {"stopped", "completed"}
    /\ UNCHANGED lease

(* The process dies, and its lease with it.                                *)
Die ==
    /\ stage # "dead"
    /\ stage' = "dead"
    /\ lease' = FALSE
    /\ UNCHANGED outcome

Next == Take \/ Refuse \/ Begin \/ BecomeReady \/ Close \/ GiveBack \/ End \/ Die

Spec == Init /\ [][Next]_vars

=============================================================================
