---------------------------- MODULE PostmasterLock ----------------------------
(***************************************************************************)
(* How a start decides about postmaster.pid, the lock file of PostgreSQL in  *)
(* the cluster directory, when an earlier host may have left the file, the   *)
(* server, or a process id that now belongs to somebody else.               *)
(*                                                                         *)
(* DataDirectory makes the starts follow one another; DatabaseUpgrade uses   *)
(* the result: what follows a released lock has the cluster for itself.     *)
(* The names of this module differ from those of DatabaseUpgrade: the two    *)
(* make up one start, and PreparationProofs extends both.                   *)
(***************************************************************************)
EXTENDS Naturals

CONSTANTS Pid,   \* process ids, used again and again
          NoPid  \* the content of a lock file without one

ASSUME NoPidIsNone == NoPid \notin Pid

VARIABLES
    process,  \* who has a process id
    lock,     \* what postmaster.pid is
    named,    \* the process id in it
    old,      \* its time is before that of the current boot
    moved,    \* the clock was set since it was written
    step,     \* where the owner of the data directory is
    round,    \* the first inspection or the one after pg_ctl
    target,   \* the process id the inspection has read
    born,     \* the start time it has observed fits the one in the file
    child     \* the postmaster that the owner has spawned and that has not ended

ownerVars == <<step, round, target, born, child>>
lockVars == <<lock, named, old, moved>>
recoveryVars == <<process, lockVars, ownerVars>>

\* A postmaster that has not reached its lock file, has created it, has written
\* it and runs, has removed it; another process of the user with the cluster as
\* its working directory or not; a process of another user.
Postmaster == {"spawned", "locking", "server", "leaving"}
Others == {"inside", "elsewhere", "foreign"}
UsesCluster == {"locking", "server"}

LockFile == {"none", "incomplete", "complete", "other", "unsafe"}

RecoveryTypeOK ==
    /\ process \in [Pid -> Postmaster \cup Others \cup {"none"}]
    /\ lock \in LockFile
    /\ named \in Pid \cup {NoPid}
    /\ old \in BOOLEAN
    /\ moved \in BOOLEAN
    /\ step \in {"idle", "inspecting", "observing", "locating", "stopping", "waiting",
                 "discarding", "released", "starting", "serving", "refused"}
    /\ round \in 1 .. 2
    /\ target \in Pid \cup {NoPid}
    /\ born \in BOOLEAN
    /\ child \in Pid \cup {NoPid}

(* A directory without a lock file, or with what the user or a restored     *)
(* directory has put in its place.                                         *)
RecoveryInit ==
    /\ process \in [Pid -> Others \cup {"none"}]
    /\ lock \in {"none", "incomplete", "other", "unsafe"}
    /\ named = NoPid /\ old \in BOOLEAN /\ moved = FALSE
    /\ step = "idle" /\ round = 1 /\ target = NoPid /\ born = FALSE
    /\ child = NoPid

Recovering == step \in {"inspecting", "observing", "locating", "stopping", "waiting", "discarding"}
NoPostmaster == \A p \in Pid : process[p] \notin Postmaster

Write(kind, p) ==
    lock' = kind /\ named' = p /\ old' = FALSE /\ moved' = FALSE

Unlink == Write("none", NoPid)

Enter(next) == step' = next
Judge(next) == Enter(next) /\ UNCHANGED <<process, lockVars, round, target, born, child>>

-----------------------------------------------------------------------------
(* EmbeddedPostgresLockRecovery                                            *)

(* Assumption Prompt: a postmaster that a killed host has just spawned has   *)
(* come to its lock file, or ended, before the next start gets here.        *)
Prompt == \A p \in Pid : process[p] # "spawned"

Begin ==
    /\ step = "idle"
    /\ Prompt
    /\ Enter("inspecting")
    /\ round' = 1
    /\ UNCHANGED <<process, lockVars, target, born, child>>

(* inspect: what cannot be attributed is stale only if its time is before   *)
(* that of the current boot.                                               *)
InspectLock ==
    /\ step = "inspecting"
    /\ \/ lock = "none" /\ Enter("released")
       \/ lock = "complete" /\ Enter("observing")
       \/ lock \in {"incomplete", "other"} /\ old /\ Enter("discarding")
       \/ lock \in {"incomplete", "other"} /\ ~old /\ Enter("refused")
       \/ lock = "unsafe" /\ Enter("refused")
    /\ target' = named
    /\ UNCHANGED <<process, lockVars, round, born, child>>

(* ProcessIdentityService.observe and ownedByAnotherUser.                   *)
Observe ==
    /\ step = "observing"
    /\ \/ /\ process[target] \in {"none", "foreign"}
          /\ Enter("discarding")
          /\ UNCHANGED born
       \/ /\ process[target] \notin {"none", "foreign"}
          /\ Enter("locating")
          /\ born' = (process[target] \in Postmaster /\ ~moved)
       \/ /\ process[target] # "none"  \* it cannot be inspected
          /\ Enter("refused")
          /\ UNCHANGED born
    /\ UNCHANGED <<process, lockVars, round, target, child>>

(* What a process in the cluster directory is taken for.                    *)
IdentifyM ==  \* another start time is thought to be another process
    IF ~born THEN "discarding" ELSE IF round = 1 THEN "stopping" ELSE "refused"

IdentifyOtherM ==  \* the start time is not compared
    IF round = 1 THEN "stopping" ELSE "refused"

Identify ==
    IF born /\ round = 1 THEN "stopping" ELSE "refused"

(* workingLocation.                                                        *)
Locate ==
    /\ step = "locating"
    /\ \/ process[target] \in {"none", "elsewhere"} /\ Judge("discarding")
       \/ process[target] \in Postmaster \cup {"inside"} /\ Judge(Identify)
       \/ process[target] # "none" /\ Judge("refused")  \* unknown

(* pg_ctl stop reads the file again and signals the process it names.       *)
StopOrphan ==
    /\ step = "stopping"
    /\ Enter(IF lock = "complete" THEN "waiting" ELSE "inspecting")
    /\ round' = round + 1
    /\ UNCHANGED <<process, lockVars, target, born, child>>

StopWaitM ==  \* the end of pg_ctl is taken for the end of the server
    step = "waiting" /\ Judge("discarding")

(* pg_ctl ends: the server has gone, the time is over, or it was cancelled. *)
StopWait == step = "waiting" /\ Judge("inspecting")

(* discardStaleLock: the file of that name is unlinked, or cannot be.       *)
Discard ==
    /\ step = "discarding"
    /\ \/ Unlink /\ Enter("released")
       \/ lock # "none" /\ Enter("refused") /\ UNCHANGED lockVars
    /\ UNCHANGED <<process, round, target, born, child>>

(* The start fails; the user may do what the message says.                  *)
Refuse ==
    /\ step = "refused"
    /\ Enter("idle")
    /\ \/ UNCHANGED lockVars
       \/ NoPostmaster /\ Unlink
    /\ UNCHANGED <<process, round, target, born, child>>

-----------------------------------------------------------------------------
(* The owner's own server                                                  *)

(* spawn: the first attempt, and another when the one before has ended.     *)
SpawnServer(p) ==
    /\ step \in {"released", "starting"}
    /\ child = NoPid
    /\ process[p] = "none"
    /\ process' = [process EXCEPT ![p] = "spawned"]
    /\ child' = p
    /\ Enter("starting")
    /\ UNCHANGED <<lockVars, round, target, born>>

ServerReady ==
    /\ step = "starting"
    /\ child # NoPid
    /\ process[child] = "server"
    /\ Judge("serving")

(* The start has failed after the lock was released, or the server is closed *)
(* and has ended.                                                          *)
End ==
    /\ step \in {"released", "starting", "serving"}
    /\ child = NoPid
    /\ Judge("idle")

OwnerDies ==
    /\ step # "idle"
    /\ Enter("idle")
    /\ child' = NoPid
    /\ UNCHANGED <<process, lockVars, round, target, born>>

-----------------------------------------------------------------------------
(* PostgreSQL                                                              *)

(* The owner learns of the end of its child.                                *)
Ends(p) ==
    /\ process' = [process EXCEPT ![p] = "none"]
    /\ child' = IF child = p THEN NoPid ELSE child

(* CreateLockFile: a file that names no living process of this user is      *)
(* replaced, otherwise the postmaster gives up.                            *)
CreateLock(p) ==
    /\ process[p] = "spawned"
    /\ IF \/ lock = "none"
          \/ lock = "complete" /\ (named = p \/ process[named] \in {"none", "foreign"})
          THEN /\ Write("incomplete", NoPid)
               /\ process' = [process EXCEPT ![p] = "locking"]
               /\ UNCHANGED child
          ELSE /\ Ends(p)
               /\ UNCHANGED lockVars
    /\ UNCHANGED <<step, round, target, born>>

WriteLock(p) ==
    /\ process[p] = "locking"
    /\ Write("complete", p)
    /\ process' = [process EXCEPT ![p] = "server"]
    /\ UNCHANGED ownerVars

(* An orderly end removes the file first.                                  *)
ServerLeaves(p) ==
    /\ process[p] = "server"
    /\ process' = [process EXCEPT ![p] = "leaving"]
    /\ Unlink
    /\ UNCHANGED ownerVars

-----------------------------------------------------------------------------
(* The rest of the machine                                                 *)

(* Any process ends, or is killed and leaves its files.                     *)
ProcessEnds(p) ==
    /\ process[p] # "none"
    /\ Ends(p)
    /\ UNCHANGED <<lockVars, step, round, target, born>>

(* Assumption: the id that a recovery looks at is not given to a new process *)
(* in the moment of the look.                                              *)
ProcessStarts(p) ==
    /\ process[p] = "none"
    /\ Recovering => p # target
    /\ \E kind \in Others : process' = [process EXCEPT ![p] = kind]
    /\ UNCHANGED <<lockVars, ownerVars>>

(* The clock is set.  The boot time is the clock less the uptime and moves   *)
(* with it, so the start time of a process no longer fits a lock file, and  *)
(* any other file may seem older than the boot, or younger.  Assumption:    *)
(* not by more than the uptime between a postmaster's making its lock file  *)
(* and its writing it.                                                     *)
ClockMoves ==
    /\ \/ /\ lock = "complete"
          /\ moved' = TRUE
          /\ UNCHANGED old
       \/ /\ lock \in {"incomplete", "other"}
          /\ \A p \in Pid : process[p] # "locking"
          /\ old' \in BOOLEAN
          /\ UNCHANGED moved
    /\ UNCHANGED <<process, lock, named, ownerVars>>

Reboot ==
    /\ process' = [p \in Pid |-> "none"]
    /\ old' = TRUE
    /\ Enter("idle")
    /\ child' = NoPid
    /\ UNCHANGED <<lock, named, moved, round, target, born>>

-----------------------------------------------------------------------------
RecoveryNext ==
    \/ Begin \/ InspectLock \/ Observe \/ Locate \/ StopOrphan \/ StopWait \/ Discard \/ Refuse
    \/ ServerReady \/ End \/ OwnerDies \/ ClockMoves \/ Reboot
    \/ \E p \in Pid : \/ SpawnServer(p) \/ CreateLock(p) \/ WriteLock(p) \/ ServerLeaves(p)
                      \/ ProcessEnds(p) \/ ProcessStarts(p)

RecoverySpec == RecoveryInit /\ [][RecoveryNext]_recoveryVars

-----------------------------------------------------------------------------
(* Properties                                                              *)

(* A running server keeps its lock file, whatever the next starts make of   *)
(* it; hence there is never a second one on the same cluster.              *)
ServerHoldsLock ==
    \A p \in Pid :
        /\ process[p] = "locking" => lock = "incomplete"
        /\ process[p] = "server" => lock = "complete" /\ named = p

(* A start gets past the recovery only when no PostgreSQL uses the cluster: *)
(* what follows, a backup above all, has it for itself.                     *)
ReleasedMeansStopped ==
    step = "released" => \A p \in Pid : process[p] \notin UsesCluster

(* pg_ctl signals the server of this cluster or nobody: never a process that *)
(* has come by the process id.                                             *)
OnlyTheServerIsSignalled ==
    [][(step = "stopping" /\ step' = "waiting") =>
          process[named] \in Postmaster \cup {"none"}]_recoveryVars

=============================================================================
