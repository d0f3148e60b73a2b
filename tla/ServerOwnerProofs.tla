--------------------------- MODULE ServerOwnerProofs ---------------------------
(* Theorems about ServerOwner: why no order of the start, the closes and    *)
(* the ends of the processes gives a directory back that is still in use.   *)
EXTENDS ServerOwner, TLAPS

(* Core has ended or never was, and will not come up.                       *)
CoreIsGone == core \in {"none", "dead"}

(* Whatever closes aborts first, so nothing new is begun: Core is gone      *)
(* before the database is closed, and what a start of the database may have *)
(* left has ended before the rest of the directory is given up.            *)
GoneInv ==
    /\ closing # "none" \/ outcome # "pending" \/ final # "none" => aborted
    /\ closing \in {"postgres", "final"} \/ final # "none" => CoreIsGone /\ client # "open"
    /\ server # "none" => database = "embedded"
    /\ client # "none" => database = "external"
    /\ server = "spawning" => start = "database"
    /\ CloseRequested => server = "none" /\ client \in {"none", "ended"} /\ start # "database"

(* The lease is given back by closeOwned only, and a close that is done has *)
(* waited for that.                                                        *)
LeaseInv ==
    /\ ~lock => final \in {"unlocked", "released", "dirty", "unconfirmed"}
    /\ final \in {"released", "dirty"} => ~lock
    /\ closing = "done" => final = "released"

(* While the endpoint accepts a stop the directory is not being given back, *)
(* and a failure until then has kept it.                                   *)
StatusInv ==
    /\ CloseRequested => session # "accepting"
    /\ phase = "failed" => CloseRequested \/ ownership = "retained"
    /\ phase = "running" => ~aborted /\ start = "ready" /\ core \in {"alive", "dead"}

(* What aborts closes, and the first close to settle gives the outcome: until *)
(* then only that close goes on to give the directory back, and as long as   *)
(* that has not come to an end there is no better outcome than retained.     *)
OutcomeInv ==
    /\ aborted => closing # "none"
    /\ outcome = "pending" /\ final # "none" => closing = "final"
    /\ final \in {"none", "waiting", "retiring", "unlocked"} => outcome \in {"pending", "retained"}

(* The inductive invariant.                                                *)
IndInv == TypeOK /\ GoneInv /\ LeaseInv /\ StatusInv /\ OutcomeInv

-----------------------------------------------------------------------------
(* Types                                                                   *)

(* Where the procedures of the owner are, and what they have said.         *)
LEMMA StepsTyped ==
    IndInv /\ [Next]_vars =>
        /\ start' \in {"opening", "early", "idle", "failing", "ready", "ended"} \cup Starting
        /\ closing' \in {"none", "core", "postgres", "final", "done", "failed"}
        /\ phase' \in {"starting", "running", "stopping", "stopped", "failed"}
        /\ ownership' \in {"retained", "unconfirmed"}
        /\ outcome' \in {"pending", "stopped"} \cup Results
        /\ session' \in {"accepting", "stopping", "terminal"}
        /\ stop' \in {"none", "accepted", "waiting"} \cup Results
<1> SUFFICES ASSUME TypeOK, [Next]_vars
             PROVE  /\ start' \in {"opening", "early", "idle", "failing", "ready", "ended"} \cup Starting
                    /\ closing' \in {"none", "core", "postgres", "final", "done", "failed"}
                    /\ phase' \in {"starting", "running", "stopping", "stopped", "failed"}
                    /\ ownership' \in {"retained", "unconfirmed"}
                    /\ outcome' \in {"pending", "stopped"} \cup Results
                    /\ session' \in {"accepting", "stopping", "terminal"}
                    /\ stop' \in {"none", "accepted", "waiting"} \cup Results
    BY DEF IndInv
<1>0. /\ start \in {"opening", "early", "idle", "failing", "ready", "ended"} \cup Starting
      /\ closing \in {"none", "core", "postgres", "final", "done", "failed"}
      /\ phase \in {"starting", "running", "stopping", "stopped", "failed"}
      /\ ownership \in {"retained", "unconfirmed"}
      /\ outcome \in {"pending", "stopped"} \cup Results
      /\ session \in {"accepting", "stopping", "terminal"}
      /\ stop \in {"none", "accepted", "waiting"} \cup Results
    BY DEF TypeOK
<1> USE <1>0
    DEF Starting, Results, vars, startVars, closeVars, coreVars, ownVars, clientVars, pgVars,
       heldVars, stopVars
<1>1. CASE OwnerAssigned
    BY <1>1 DEF OwnerAssigned, BeginClose, NoCloseOperation, CallClose, CancelStart, Ended
<1>2. CASE Start
    BY <1>2 DEF Start, NoCloseOperation
<1>3. CASE PathsReady
    BY <1>3 DEF PathsReady, ClientCreated
<1>4. CASE StartFails
    BY <1>4 DEF StartFails, Fail, BeginClose, NoCloseOperation
<1>5. CASE PgReady
    BY <1>5 DEF PgReady
<1>6. CASE PgStartFails
    BY <1>6 DEF PgStartFails, Fail, BeginClose, NoCloseOperation
<1>7. CASE ExternalReady
    BY <1>7 DEF ExternalReady
<1>8. CASE ExternalFails
    BY <1>8 DEF ExternalFails, Fail, BeginClose, NoCloseOperation
<1>9. CASE OpenCore
    BY <1>9 DEF OpenCore
<1>10. CASE CoreListening
    BY <1>10 DEF CoreListening
<1>11. CASE CoreStartFails
    BY <1>11 DEF CoreStartFails, Fail, BeginClose, NoCloseOperation
<1>12. CASE Probed
    BY <1>12 DEF Probed
<1>13. CASE BecomeReady
    BY <1>13 DEF BecomeReady
<1>14. CASE CloseCore
    BY <1>14 DEF CloseCore, CloseSucceeds, CloseFails, CloseSettled, Resolve, CloseDatabase,
       Ended
<1>15. CASE CoreStuck
    BY <1>15 DEF CoreStuck, CloseSucceeds, CloseFails, CloseSettled, Resolve
<1>16. CASE PgCloseEnds
    BY <1>16 DEF PgCloseEnds
<1>17. CASE ExternalCloseEnds
    BY <1>17 DEF ExternalCloseEnds
<1>18. CASE HeldClose
    BY <1>18 DEF HeldClose, CloseSucceeds, CloseFails, CloseSettled, Resolve
<1>19. CASE Finalize
    BY <1>19 DEF Finalize
<1>20. CASE CloseOwned
    BY <1>20 DEF CloseOwned
<1>21. CASE CloseEnds
    BY <1>21 DEF CloseEnds, CloseSucceeds, CloseFails, CloseSettled, Resolve
<1>22. CASE RunStop
    BY <1>22 DEF RunStop, BeginClose, NoCloseOperation, CallClose, CancelStart, Ended
<1>23. CASE CompleteStop
    BY <1>23 DEF CompleteStop
<1>24. CASE PgSpawn
    BY <1>24 DEF PgSpawn
<1>25. CASE PgSpawned
    BY <1>25 DEF PgSpawned
<1>26. CASE PgExits
    BY <1>26 DEF PgExits
<1>27. CASE ExternalDeadline
    BY <1>27 DEF ExternalDeadline, CancelStart, Ended
<1>28. CASE ClientError
    BY <1>28 DEF ClientError
<1>29. CASE ClientEnds
    BY <1>29 DEF ClientEnds
<1>30. CASE CoreSpawned
    BY <1>30 DEF CoreSpawned
<1>31. CASE CoreExits
    BY <1>31 DEF CoreExits
<1>32. CASE DeadlinePasses
    BY <1>32 DEF DeadlinePasses, BeginClose, NoCloseOperation, CallClose, CancelStart, Ended
<1>33. CASE HostClose
    BY <1>33 DEF HostClose, BeginClose, NoCloseOperation, CallClose, CancelStart, Ended
<1>34. CASE CoreExitObserved
    BY <1>34 DEF CoreExitObserved, BeginClose, NoCloseOperation, CallClose, CancelStart, Ended
<1>35. CASE AcceptStop
    BY <1>35 DEF AcceptStop
<1>36. CASE Unlock
    BY <1>36 DEF Unlock
<1>37. CASE UNCHANGED vars
    BY <1>37
<1>38. QED
    BY <1>1, <1>2, <1>3, <1>4, <1>5, <1>6, <1>7, <1>8, <1>9, <1>10, <1>11, <1>12, <1>13, <1>14,
       <1>15, <1>16, <1>17, <1>18, <1>19, <1>20, <1>21, <1>22, <1>23, <1>24, <1>25, <1>26,
       <1>27, <1>28, <1>29, <1>30, <1>31, <1>32, <1>33, <1>34, <1>35, <1>36, <1>37
    DEF Next, StartStep, CloseStep, StopStep, ProcessStep, CallerStep

(* The processes and the connection.                                       *)
LEMMA PartsTyped ==
    IndInv /\ [Next]_vars =>
        /\ core' \in {"none", "spawning", "alive", "dead"}
        /\ database' \in {"embedded", "external"}
        /\ server' \in {"none", "spawning", "up"}
        /\ client' \in {"none", "open", "ending", "ended"}
        /\ lostClient' \in {"none", "cancelled", "connection"}
        /\ pgClose' \in {"none", "closing", "closed", "failed"}
        /\ final' \in {"none", "waiting", "retiring", "unlocked", "released", "dirty", "unconfirmed"}
<1> SUFFICES ASSUME TypeOK, [Next]_vars
             PROVE  /\ core' \in {"none", "spawning", "alive", "dead"}
                    /\ database' \in {"embedded", "external"}
                    /\ server' \in {"none", "spawning", "up"}
                    /\ client' \in {"none", "open", "ending", "ended"}
                    /\ lostClient' \in {"none", "cancelled", "connection"}
                    /\ pgClose' \in {"none", "closing", "closed", "failed"}
                    /\ final' \in {"none", "waiting", "retiring", "unlocked", "released", "dirty", "unconfirmed"}
    BY DEF IndInv
<1>0. /\ core \in {"none", "spawning", "alive", "dead"}
      /\ database \in {"embedded", "external"}
      /\ server \in {"none", "spawning", "up"}
      /\ client \in {"none", "open", "ending", "ended"}
      /\ lostClient \in {"none", "cancelled", "connection"}
      /\ pgClose \in {"none", "closing", "closed", "failed"}
      /\ final \in {"none", "waiting", "retiring", "unlocked", "released", "dirty", "unconfirmed"}
    BY DEF TypeOK
<1> USE <1>0
    DEF vars, startVars, closeVars, coreVars, ownVars, clientVars, pgVars, heldVars, stopVars
<1>1. CASE OwnerAssigned
    BY <1>1 DEF OwnerAssigned, BeginClose, NoCloseOperation, CallClose, CancelStart, Ended
<1>2. CASE Start
    BY <1>2 DEF Start, NoCloseOperation
<1>3. CASE PathsReady
    BY <1>3 DEF PathsReady, ClientCreated
<1>4. CASE StartFails
    BY <1>4 DEF StartFails, Fail, BeginClose, NoCloseOperation
<1>5. CASE PgReady
    BY <1>5 DEF PgReady
<1>6. CASE PgStartFails
    BY <1>6 DEF PgStartFails, Fail, BeginClose, NoCloseOperation
<1>7. CASE ExternalReady
    BY <1>7 DEF ExternalReady
<1>8. CASE ExternalFails
    BY <1>8 DEF ExternalFails, Fail, BeginClose, NoCloseOperation
<1>9. CASE OpenCore
    BY <1>9 DEF OpenCore
<1>10. CASE CoreListening
    BY <1>10 DEF CoreListening
<1>11. CASE CoreStartFails
    BY <1>11 DEF CoreStartFails, Fail, BeginClose, NoCloseOperation
<1>12. CASE Probed
    BY <1>12 DEF Probed
<1>13. CASE BecomeReady
    BY <1>13 DEF BecomeReady
<1>14. CASE CloseCore
    BY <1>14 DEF CloseCore, CloseSucceeds, CloseFails, CloseSettled, Resolve, CloseDatabase,
       Ended
<1>15. CASE CoreStuck
    BY <1>15 DEF CoreStuck, CloseSucceeds, CloseFails, CloseSettled, Resolve
<1>16. CASE PgCloseEnds
    BY <1>16 DEF PgCloseEnds
<1>17. CASE ExternalCloseEnds
    BY <1>17 DEF ExternalCloseEnds
<1>18. CASE HeldClose
    BY <1>18 DEF HeldClose, CloseSucceeds, CloseFails, CloseSettled, Resolve
<1>19. CASE Finalize
    BY <1>19 DEF Finalize
<1>20. CASE CloseOwned
    BY <1>20 DEF CloseOwned
<1>21. CASE CloseEnds
    BY <1>21 DEF CloseEnds, CloseSucceeds, CloseFails, CloseSettled, Resolve
<1>22. CASE RunStop
    BY <1>22 DEF RunStop, BeginClose, NoCloseOperation, CallClose, CancelStart, Ended
<1>23. CASE CompleteStop
    BY <1>23 DEF CompleteStop
<1>24. CASE PgSpawn
    BY <1>24 DEF PgSpawn
<1>25. CASE PgSpawned
    BY <1>25 DEF PgSpawned
<1>26. CASE PgExits
    BY <1>26 DEF PgExits
<1>27. CASE ExternalDeadline
    BY <1>27 DEF ExternalDeadline, CancelStart, Ended
<1>28. CASE ClientError
    BY <1>28 DEF ClientError
<1>29. CASE ClientEnds
    BY <1>29 DEF ClientEnds
<1>30. CASE CoreSpawned
    BY <1>30 DEF CoreSpawned
<1>31. CASE CoreExits
    BY <1>31 DEF CoreExits
<1>32. CASE DeadlinePasses
    BY <1>32 DEF DeadlinePasses, BeginClose, NoCloseOperation, CallClose, CancelStart, Ended
<1>33. CASE HostClose
    BY <1>33 DEF HostClose, BeginClose, NoCloseOperation, CallClose, CancelStart, Ended
<1>34. CASE CoreExitObserved
    BY <1>34 DEF CoreExitObserved, BeginClose, NoCloseOperation, CallClose, CancelStart, Ended
<1>35. CASE AcceptStop
    BY <1>35 DEF AcceptStop
<1>36. CASE Unlock
    BY <1>36 DEF Unlock
<1>37. CASE UNCHANGED vars
    BY <1>37
<1>38. QED
    BY <1>1, <1>2, <1>3, <1>4, <1>5, <1>6, <1>7, <1>8, <1>9, <1>10, <1>11, <1>12, <1>13, <1>14,
       <1>15, <1>16, <1>17, <1>18, <1>19, <1>20, <1>21, <1>22, <1>23, <1>24, <1>25, <1>26,
       <1>27, <1>28, <1>29, <1>30, <1>31, <1>32, <1>33, <1>34, <1>35, <1>36, <1>37
    DEF Next, StartStep, CloseStep, StopStep, ProcessStep, CallerStep

(* The flags.                                                              *)
LEMMA FlagsTyped ==
    IndInv /\ [Next]_vars =>
        /\ aborted' \in BOOLEAN /\ failing' \in BOOLEAN /\ expired' \in BOOLEAN
        /\ retryable' \in BOOLEAN /\ hostClosed' \in BOOLEAN /\ observed' \in BOOLEAN
        /\ stopFailure' \in BOOLEAN /\ lock' \in BOOLEAN
<1> SUFFICES ASSUME TypeOK, [Next]_vars
             PROVE  /\ aborted' \in BOOLEAN /\ failing' \in BOOLEAN /\ expired' \in BOOLEAN
                    /\ retryable' \in BOOLEAN /\ hostClosed' \in BOOLEAN /\ observed' \in BOOLEAN
                    /\ stopFailure' \in BOOLEAN /\ lock' \in BOOLEAN
    BY DEF IndInv
<1>0. /\ aborted \in BOOLEAN /\ failing \in BOOLEAN /\ expired \in BOOLEAN
      /\ retryable \in BOOLEAN /\ hostClosed \in BOOLEAN /\ observed \in BOOLEAN
      /\ stopFailure \in BOOLEAN /\ lock \in BOOLEAN
    BY DEF TypeOK
<1> USE <1>0
    DEF vars, startVars, closeVars, coreVars, ownVars, clientVars, pgVars, heldVars, stopVars
<1>1. CASE OwnerAssigned
    BY <1>1 DEF OwnerAssigned, BeginClose, NoCloseOperation, CallClose, CancelStart, Ended
<1>2. CASE Start
    BY <1>2 DEF Start, NoCloseOperation
<1>3. CASE PathsReady
    BY <1>3 DEF PathsReady, ClientCreated
<1>4. CASE StartFails
    BY <1>4 DEF StartFails, Fail, BeginClose, NoCloseOperation
<1>5. CASE PgReady
    BY <1>5 DEF PgReady
<1>6. CASE PgStartFails
    BY <1>6 DEF PgStartFails, Fail, BeginClose, NoCloseOperation
<1>7. CASE ExternalReady
    BY <1>7 DEF ExternalReady
<1>8. CASE ExternalFails
    BY <1>8 DEF ExternalFails, Fail, BeginClose, NoCloseOperation
<1>9. CASE OpenCore
    BY <1>9 DEF OpenCore
<1>10. CASE CoreListening
    BY <1>10 DEF CoreListening
<1>11. CASE CoreStartFails
    BY <1>11 DEF CoreStartFails, Fail, BeginClose, NoCloseOperation
<1>12. CASE Probed
    BY <1>12 DEF Probed
<1>13. CASE BecomeReady
    BY <1>13 DEF BecomeReady
<1>14. CASE CloseCore
    BY <1>14 DEF CloseCore, CloseSucceeds, CloseFails, CloseSettled, Resolve, CloseDatabase,
       Ended
<1>15. CASE CoreStuck
    BY <1>15 DEF CoreStuck, CloseSucceeds, CloseFails, CloseSettled, Resolve
<1>16. CASE PgCloseEnds
    BY <1>16 DEF PgCloseEnds
<1>17. CASE ExternalCloseEnds
    BY <1>17 DEF ExternalCloseEnds
<1>18. CASE HeldClose
    BY <1>18 DEF HeldClose, CloseSucceeds, CloseFails, CloseSettled, Resolve
<1>19. CASE Finalize
    BY <1>19 DEF Finalize
<1>20. CASE CloseOwned
    BY <1>20 DEF CloseOwned
<1>21. CASE CloseEnds
    BY <1>21 DEF CloseEnds, CloseSucceeds, CloseFails, CloseSettled, Resolve
<1>22. CASE RunStop
    BY <1>22 DEF RunStop, BeginClose, NoCloseOperation, CallClose, CancelStart, Ended
<1>23. CASE CompleteStop
    BY <1>23 DEF CompleteStop
<1>24. CASE PgSpawn
    BY <1>24 DEF PgSpawn
<1>25. CASE PgSpawned
    BY <1>25 DEF PgSpawned
<1>26. CASE PgExits
    BY <1>26 DEF PgExits
<1>27. CASE ExternalDeadline
    BY <1>27 DEF ExternalDeadline, CancelStart, Ended
<1>28. CASE ClientError
    BY <1>28 DEF ClientError
<1>29. CASE ClientEnds
    BY <1>29 DEF ClientEnds
<1>30. CASE CoreSpawned
    BY <1>30 DEF CoreSpawned
<1>31. CASE CoreExits
    BY <1>31 DEF CoreExits
<1>32. CASE DeadlinePasses
    BY <1>32 DEF DeadlinePasses, BeginClose, NoCloseOperation, CallClose, CancelStart, Ended
<1>33. CASE HostClose
    BY <1>33 DEF HostClose, BeginClose, NoCloseOperation, CallClose, CancelStart, Ended
<1>34. CASE CoreExitObserved
    BY <1>34 DEF CoreExitObserved, BeginClose, NoCloseOperation, CallClose, CancelStart, Ended
<1>35. CASE AcceptStop
    BY <1>35 DEF AcceptStop
<1>36. CASE Unlock
    BY <1>36 DEF Unlock
<1>37. CASE UNCHANGED vars
    BY <1>37
<1>38. QED
    BY <1>1, <1>2, <1>3, <1>4, <1>5, <1>6, <1>7, <1>8, <1>9, <1>10, <1>11, <1>12, <1>13, <1>14,
       <1>15, <1>16, <1>17, <1>18, <1>19, <1>20, <1>21, <1>22, <1>23, <1>24, <1>25, <1>26,
       <1>27, <1>28, <1>29, <1>30, <1>31, <1>32, <1>33, <1>34, <1>35, <1>36, <1>37
    DEF Next, StartStep, CloseStep, StopStep, ProcessStep, CallerStep

(* Type correctness is inductive.                                          *)
LEMMA TypeKept == IndInv /\ [Next]_vars => TypeOK'
    BY StepsTyped, PartsTyped, FlagsTyped DEF TypeOK

-----------------------------------------------------------------------------
(* The steps                                                               *)

(* Nothing is left, and nothing comes up.                                  *)
LEMMA GoneKept == IndInv /\ [Next]_vars => GoneInv'
<1> SUFFICES ASSUME TypeOK, GoneInv, [Next]_vars
             PROVE  GoneInv'
    BY DEF IndInv
<1>0. /\ GoneInv
      /\ server \in {"none", "spawning", "up"}
      /\ client \in {"none", "open", "ending", "ended"}
    BY DEF TypeOK
<1> USE <1>0
    DEF GoneInv, CoreIsGone, CloseRequested, vars, startVars, closeVars, coreVars, ownVars,
       clientVars, pgVars, heldVars, stopVars
<1>1. CASE OwnerAssigned
    BY <1>1 DEF OwnerAssigned, BeginClose, NoCloseOperation, CallClose, CancelStart, Ended
<1>2. CASE Start
    BY <1>2 DEF Start, NoCloseOperation
<1>3. CASE PathsReady
    BY <1>3 DEF PathsReady, ClientCreated
<1>4. CASE StartFails
    BY <1>4 DEF StartFails, Fail, BeginClose, NoCloseOperation
<1>5. CASE PgReady
    BY <1>5 DEF PgReady
<1>6. CASE PgStartFails
    BY <1>6 DEF PgStartFails, Fail, BeginClose, NoCloseOperation
<1>7. CASE ExternalReady
    BY <1>7 DEF ExternalReady
<1>8. CASE ExternalFails
    BY <1>8 DEF ExternalFails, Fail, BeginClose, NoCloseOperation
<1>9. CASE OpenCore
    BY <1>9 DEF OpenCore
<1>10. CASE CoreListening
    BY <1>10 DEF CoreListening
<1>11. CASE CoreStartFails
    BY <1>11 DEF CoreStartFails, Fail, BeginClose, NoCloseOperation
<1>12. CASE Probed
    BY <1>12 DEF Probed
<1>13. CASE BecomeReady
    BY <1>13 DEF BecomeReady
<1>14. CASE CloseCore
    BY <1>14 DEF CloseCore, CloseSucceeds, CloseFails, CloseSettled, Resolve, CloseDatabase,
       Ended
<1>15. CASE CoreStuck
    BY <1>15 DEF CoreStuck, CloseSucceeds, CloseFails, CloseSettled, Resolve
<1>16. CASE PgCloseEnds
    BY <1>16 DEF PgCloseEnds
<1>17. CASE ExternalCloseEnds
    BY <1>17 DEF ExternalCloseEnds
<1>18. CASE HeldClose
    BY <1>18 DEF HeldClose, CloseSucceeds, CloseFails, CloseSettled, Resolve
<1>19. CASE Finalize
    BY <1>19 DEF Finalize
<1>20. CASE CloseOwned
    BY <1>20 DEF CloseOwned
<1>21. CASE CloseEnds
    BY <1>21 DEF CloseEnds, CloseSucceeds, CloseFails, CloseSettled, Resolve
<1>22. CASE RunStop
    BY <1>22 DEF RunStop, BeginClose, NoCloseOperation, CallClose, CancelStart, Ended
<1>23. CASE CompleteStop
    BY <1>23 DEF CompleteStop
<1>24. CASE PgSpawn
    BY <1>24 DEF PgSpawn
<1>25. CASE PgSpawned
    BY <1>25 DEF PgSpawned
<1>26. CASE PgExits
    BY <1>26 DEF PgExits
<1>27. CASE ExternalDeadline
    BY <1>27 DEF ExternalDeadline, CancelStart, Ended
<1>28. CASE ClientError
    BY <1>28 DEF ClientError
<1>29. CASE ClientEnds
    BY <1>29 DEF ClientEnds
<1>30. CASE CoreSpawned
    BY <1>30 DEF CoreSpawned
<1>31. CASE CoreExits
    BY <1>31 DEF CoreExits
<1>32. CASE DeadlinePasses
    BY <1>32 DEF DeadlinePasses, BeginClose, NoCloseOperation, CallClose, CancelStart, Ended
<1>33. CASE HostClose
    BY <1>33 DEF HostClose, BeginClose, NoCloseOperation, CallClose, CancelStart, Ended
<1>34. CASE CoreExitObserved
    BY <1>34 DEF CoreExitObserved, BeginClose, NoCloseOperation, CallClose, CancelStart, Ended
<1>35. CASE AcceptStop
    BY <1>35 DEF AcceptStop
<1>36. CASE Unlock
    BY <1>36 DEF Unlock
<1>37. CASE UNCHANGED vars
    BY <1>37
<1>38. QED
    BY <1>1, <1>2, <1>3, <1>4, <1>5, <1>6, <1>7, <1>8, <1>9, <1>10, <1>11, <1>12, <1>13, <1>14,
       <1>15, <1>16, <1>17, <1>18, <1>19, <1>20, <1>21, <1>22, <1>23, <1>24, <1>25, <1>26,
       <1>27, <1>28, <1>29, <1>30, <1>31, <1>32, <1>33, <1>34, <1>35, <1>36, <1>37
    DEF Next, StartStep, CloseStep, StopStep, ProcessStep, CallerStep

(* The lease.                                                              *)
LEMMA LeaseKept == IndInv /\ [Next]_vars => LeaseInv'
<1> SUFFICES ASSUME TypeOK, LeaseInv, [Next]_vars
             PROVE  LeaseInv'
    BY DEF IndInv
<1>0. LeaseInv
    OBVIOUS
<1> USE <1>0
    DEF LeaseInv, vars, startVars, closeVars, coreVars, ownVars, clientVars, pgVars, heldVars,
       stopVars
<1>1. CASE OwnerAssigned
    BY <1>1 DEF OwnerAssigned, BeginClose, NoCloseOperation, CallClose, CancelStart, Ended
<1>2. CASE Start
    BY <1>2 DEF Start, NoCloseOperation
<1>3. CASE PathsReady
    BY <1>3 DEF PathsReady, ClientCreated
<1>4. CASE StartFails
    BY <1>4 DEF StartFails, Fail, BeginClose, NoCloseOperation
<1>5. CASE PgReady
    BY <1>5 DEF PgReady
<1>6. CASE PgStartFails
    BY <1>6 DEF PgStartFails, Fail, BeginClose, NoCloseOperation
<1>7. CASE ExternalReady
    BY <1>7 DEF ExternalReady
<1>8. CASE ExternalFails
    BY <1>8 DEF ExternalFails, Fail, BeginClose, NoCloseOperation
<1>9. CASE OpenCore
    BY <1>9 DEF OpenCore
<1>10. CASE CoreListening
    BY <1>10 DEF CoreListening
<1>11. CASE CoreStartFails
    BY <1>11 DEF CoreStartFails, Fail, BeginClose, NoCloseOperation
<1>12. CASE Probed
    BY <1>12 DEF Probed
<1>13. CASE BecomeReady
    BY <1>13 DEF BecomeReady
<1>14. CASE CloseCore
    BY <1>14 DEF CloseCore, CloseSucceeds, CloseFails, CloseSettled, Resolve, CloseDatabase,
       Ended
<1>15. CASE CoreStuck
    BY <1>15 DEF CoreStuck, CloseSucceeds, CloseFails, CloseSettled, Resolve
<1>16. CASE PgCloseEnds
    BY <1>16 DEF PgCloseEnds
<1>17. CASE ExternalCloseEnds
    BY <1>17 DEF ExternalCloseEnds
<1>18. CASE HeldClose
    BY <1>18 DEF HeldClose, CloseSucceeds, CloseFails, CloseSettled, Resolve
<1>19. CASE Finalize
    BY <1>19 DEF Finalize
<1>20. CASE CloseOwned
    <2>1. lock \in BOOLEAN
        BY DEF TypeOK
    <2>2. CASE ~lock /\ final' \in {"released", "dirty"} /\ UNCHANGED lock
        BY <1>20, <2>2 DEF CloseOwned
    <2>3. CASE final' = "unconfirmed"
        BY <1>20, <2>1, <2>3 DEF CloseOwned
    <2>4. QED
        BY <1>20, <2>2, <2>3 DEF CloseOwned
<1>21. CASE CloseEnds
    BY <1>21 DEF CloseEnds, CloseSucceeds, CloseFails, CloseSettled, Resolve
<1>22. CASE RunStop
    BY <1>22 DEF RunStop, BeginClose, NoCloseOperation, CallClose, CancelStart, Ended
<1>23. CASE CompleteStop
    BY <1>23 DEF CompleteStop
<1>24. CASE PgSpawn
    BY <1>24 DEF PgSpawn
<1>25. CASE PgSpawned
    BY <1>25 DEF PgSpawned
<1>26. CASE PgExits
    BY <1>26 DEF PgExits
<1>27. CASE ExternalDeadline
    BY <1>27 DEF ExternalDeadline, CancelStart, Ended
<1>28. CASE ClientError
    BY <1>28 DEF ClientError
<1>29. CASE ClientEnds
    BY <1>29 DEF ClientEnds
<1>30. CASE CoreSpawned
    BY <1>30 DEF CoreSpawned
<1>31. CASE CoreExits
    BY <1>31 DEF CoreExits
<1>32. CASE DeadlinePasses
    BY <1>32 DEF DeadlinePasses, BeginClose, NoCloseOperation, CallClose, CancelStart, Ended
<1>33. CASE HostClose
    BY <1>33 DEF HostClose, BeginClose, NoCloseOperation, CallClose, CancelStart, Ended
<1>34. CASE CoreExitObserved
    BY <1>34 DEF CoreExitObserved, BeginClose, NoCloseOperation, CallClose, CancelStart, Ended
<1>35. CASE AcceptStop
    BY <1>35 DEF AcceptStop
<1>36. CASE Unlock
    BY <1>36 DEF Unlock
<1>37. CASE UNCHANGED vars
    BY <1>37
<1>38. QED
    BY <1>1, <1>2, <1>3, <1>4, <1>5, <1>6, <1>7, <1>8, <1>9, <1>10, <1>11, <1>12, <1>13, <1>14,
       <1>15, <1>16, <1>17, <1>18, <1>19, <1>20, <1>21, <1>22, <1>23, <1>24, <1>25, <1>26,
       <1>27, <1>28, <1>29, <1>30, <1>31, <1>32, <1>33, <1>34, <1>35, <1>36, <1>37
    DEF Next, StartStep, CloseStep, StopStep, ProcessStep, CallerStep

(* The status.                                                             *)
LEMMA StatusKept == IndInv /\ [Next]_vars => StatusInv'
<1> SUFFICES ASSUME TypeOK, GoneInv, LeaseInv, StatusInv, [Next]_vars
             PROVE  StatusInv'
    BY DEF IndInv
<1> USE DEF GoneInv, LeaseInv, StatusInv, CoreIsGone, CloseRequested, vars, startVars,
       closeVars, coreVars, ownVars, clientVars, pgVars, heldVars, stopVars
<1>1. CASE OwnerAssigned
    BY <1>1 DEF OwnerAssigned, BeginClose, NoCloseOperation, CallClose, CancelStart, Ended
<1>2. CASE Start
    BY <1>2 DEF Start, NoCloseOperation
<1>3. CASE PathsReady
    BY <1>3 DEF PathsReady, ClientCreated
<1>4. CASE StartFails
    BY <1>4 DEF StartFails, Fail, BeginClose, NoCloseOperation
<1>5. CASE PgReady
    BY <1>5 DEF PgReady
<1>6. CASE PgStartFails
    BY <1>6 DEF PgStartFails, Fail, BeginClose, NoCloseOperation
<1>7. CASE ExternalReady
    BY <1>7 DEF ExternalReady
<1>8. CASE ExternalFails
    BY <1>8 DEF ExternalFails, Fail, BeginClose, NoCloseOperation
<1>9. CASE OpenCore
    BY <1>9 DEF OpenCore
<1>10. CASE CoreListening
    BY <1>10 DEF CoreListening
<1>11. CASE CoreStartFails
    BY <1>11 DEF CoreStartFails, Fail, BeginClose, NoCloseOperation
<1>12. CASE Probed
    BY <1>12 DEF Probed
<1>13. CASE BecomeReady
    BY <1>13 DEF BecomeReady
<1>14. CASE CloseCore
    BY <1>14 DEF CloseCore, CloseSucceeds, CloseFails, CloseSettled, Resolve, CloseDatabase,
       Ended
<1>15. CASE CoreStuck
    BY <1>15 DEF CoreStuck, CloseSucceeds, CloseFails, CloseSettled, Resolve
<1>16. CASE PgCloseEnds
    BY <1>16 DEF PgCloseEnds
<1>17. CASE ExternalCloseEnds
    BY <1>17 DEF ExternalCloseEnds
<1>18. CASE HeldClose
    BY <1>18 DEF HeldClose, CloseSucceeds, CloseFails, CloseSettled, Resolve
<1>19. CASE Finalize
    BY <1>19 DEF Finalize
<1>20. CASE CloseOwned
    BY <1>20 DEF CloseOwned
<1>21. CASE CloseEnds
    BY <1>21 DEF CloseEnds, CloseSucceeds, CloseFails, CloseSettled, Resolve
<1>22. CASE RunStop
    BY <1>22 DEF RunStop, BeginClose, NoCloseOperation, CallClose, CancelStart, Ended
<1>23. CASE CompleteStop
    BY <1>23 DEF CompleteStop
<1>24. CASE PgSpawn
    BY <1>24 DEF PgSpawn
<1>25. CASE PgSpawned
    BY <1>25 DEF PgSpawned
<1>26. CASE PgExits
    BY <1>26 DEF PgExits
<1>27. CASE ExternalDeadline
    BY <1>27 DEF ExternalDeadline, CancelStart, Ended
<1>28. CASE ClientError
    BY <1>28 DEF ClientError
<1>29. CASE ClientEnds
    BY <1>29 DEF ClientEnds
<1>30. CASE CoreSpawned
    BY <1>30 DEF CoreSpawned
<1>31. CASE CoreExits
    BY <1>31 DEF CoreExits
<1>32. CASE DeadlinePasses
    BY <1>32 DEF DeadlinePasses, BeginClose, NoCloseOperation, CallClose, CancelStart, Ended
<1>33. CASE HostClose
    BY <1>33 DEF HostClose, BeginClose, NoCloseOperation, CallClose, CancelStart, Ended
<1>34. CASE CoreExitObserved
    BY <1>34 DEF CoreExitObserved, BeginClose, NoCloseOperation, CallClose, CancelStart, Ended
<1>35. CASE AcceptStop
    BY <1>35 DEF AcceptStop
<1>36. CASE Unlock
    BY <1>36 DEF Unlock
<1>37. CASE UNCHANGED vars
    BY <1>37
<1>38. QED
    BY <1>1, <1>2, <1>3, <1>4, <1>5, <1>6, <1>7, <1>8, <1>9, <1>10, <1>11, <1>12, <1>13, <1>14,
       <1>15, <1>16, <1>17, <1>18, <1>19, <1>20, <1>21, <1>22, <1>23, <1>24, <1>25, <1>26,
       <1>27, <1>28, <1>29, <1>30, <1>31, <1>32, <1>33, <1>34, <1>35, <1>36, <1>37
    DEF Next, StartStep, CloseStep, StopStep, ProcessStep, CallerStep

(* The outcome.                                                            *)
LEMMA OutcomeKept == IndInv /\ [Next]_vars => OutcomeInv'
<1> SUFFICES ASSUME TypeOK, GoneInv, OutcomeInv, [Next]_vars
             PROVE  OutcomeInv'
    BY DEF IndInv
<1>0. /\ closing \in {"none", "core", "postgres", "final", "done", "failed"}
      /\ final \in {"none", "waiting", "retiring", "unlocked", "released", "dirty", "unconfirmed"}
      /\ aborted \in BOOLEAN
    BY DEF TypeOK
<1> USE <1>0
    DEF GoneInv, CoreIsGone, OutcomeInv, vars, startVars, closeVars, coreVars, ownVars,
       clientVars, pgVars, heldVars, stopVars
<1>1. CASE OwnerAssigned
    BY <1>1 DEF OwnerAssigned, BeginClose, NoCloseOperation, CallClose, CancelStart, Ended
<1>2. CASE Start
    BY <1>2 DEF Start, NoCloseOperation
<1>3. CASE PathsReady
    BY <1>3 DEF PathsReady, ClientCreated
<1>4. CASE StartFails
    BY <1>4 DEF StartFails, Fail, BeginClose, NoCloseOperation
<1>5. CASE PgReady
    BY <1>5 DEF PgReady
<1>6. CASE PgStartFails
    BY <1>6 DEF PgStartFails, Fail, BeginClose, NoCloseOperation
<1>7. CASE ExternalReady
    BY <1>7 DEF ExternalReady
<1>8. CASE ExternalFails
    BY <1>8 DEF ExternalFails, Fail, BeginClose, NoCloseOperation
<1>9. CASE OpenCore
    BY <1>9 DEF OpenCore
<1>10. CASE CoreListening
    BY <1>10 DEF CoreListening
<1>11. CASE CoreStartFails
    BY <1>11 DEF CoreStartFails, Fail, BeginClose, NoCloseOperation
<1>12. CASE Probed
    BY <1>12 DEF Probed
<1>13. CASE BecomeReady
    BY <1>13 DEF BecomeReady
<1>14. CASE CloseCore
    BY <1>14 DEF CloseCore, CloseSucceeds, CloseFails, CloseSettled, Resolve, CloseDatabase,
       Ended
<1>15. CASE CoreStuck
    BY <1>15 DEF CoreStuck, CloseSucceeds, CloseFails, CloseSettled, Resolve
<1>16. CASE PgCloseEnds
    BY <1>16 DEF PgCloseEnds
<1>17. CASE ExternalCloseEnds
    BY <1>17 DEF ExternalCloseEnds
<1>18. CASE HeldClose
    BY <1>18 DEF HeldClose, CloseSucceeds, CloseFails, CloseSettled, Resolve
<1>19. CASE Finalize
    BY <1>19 DEF Finalize
<1>20. CASE CloseOwned
    BY <1>20 DEF CloseOwned
<1>21. CASE CloseEnds
    BY <1>21 DEF CloseEnds, CloseSucceeds, CloseFails, CloseSettled, Resolve
<1>22. CASE RunStop
    BY <1>22 DEF RunStop, BeginClose, NoCloseOperation, CallClose, CancelStart, Ended
<1>23. CASE CompleteStop
    BY <1>23 DEF CompleteStop
<1>24. CASE PgSpawn
    BY <1>24 DEF PgSpawn
<1>25. CASE PgSpawned
    BY <1>25 DEF PgSpawned
<1>26. CASE PgExits
    BY <1>26 DEF PgExits
<1>27. CASE ExternalDeadline
    BY <1>27 DEF ExternalDeadline, CancelStart, Ended
<1>28. CASE ClientError
    BY <1>28 DEF ClientError
<1>29. CASE ClientEnds
    BY <1>29 DEF ClientEnds
<1>30. CASE CoreSpawned
    BY <1>30 DEF CoreSpawned
<1>31. CASE CoreExits
    BY <1>31 DEF CoreExits
<1>32. CASE DeadlinePasses
    BY <1>32 DEF DeadlinePasses, BeginClose, NoCloseOperation, CallClose, CancelStart, Ended
<1>33. CASE HostClose
    BY <1>33 DEF HostClose, BeginClose, NoCloseOperation, CallClose, CancelStart, Ended
<1>34. CASE CoreExitObserved
    BY <1>34 DEF CoreExitObserved, BeginClose, NoCloseOperation, CallClose, CancelStart, Ended
<1>35. CASE AcceptStop
    BY <1>35 DEF AcceptStop
<1>36. CASE Unlock
    BY <1>36 DEF Unlock
<1>37. CASE UNCHANGED vars
    BY <1>37
<1>38. QED
    BY <1>1, <1>2, <1>3, <1>4, <1>5, <1>6, <1>7, <1>8, <1>9, <1>10, <1>11, <1>12, <1>13, <1>14,
       <1>15, <1>16, <1>17, <1>18, <1>19, <1>20, <1>21, <1>22, <1>23, <1>24, <1>25, <1>26,
       <1>27, <1>28, <1>29, <1>30, <1>31, <1>32, <1>33, <1>34, <1>35, <1>36, <1>37
    DEF Next, StartStep, CloseStep, StopStep, ProcessStep, CallerStep

-----------------------------------------------------------------------------
(* The invariant, and what follows from it                                 *)

(* It holds when the owner is about to be assigned.                         *)
LEMMA InitInv == Init => IndInv
<1> SUFFICES ASSUME Init PROVE IndInv
    OBVIOUS
<1>1. TypeOK
    BY DEF Init, TypeOK
<1>2. GoneInv /\ LeaseInv /\ StatusInv /\ OutcomeInv
    BY DEF Init, GoneInv, LeaseInv, StatusInv, OutcomeInv, CloseRequested
<1>3. QED
    BY <1>1, <1>2 DEF IndInv

(* The inductive invariant holds in every state.                            *)
THEOREM Invariant == Spec => []IndInv
<1>1. IndInv /\ [Next]_vars => IndInv'
    BY TypeKept, GoneKept, LeaseKept, StatusKept, OutcomeKept DEF IndInv
<1>2. QED
    BY <1>1, InitInv, PTL DEF Spec

(* Type correctness: each procedure, process and flag has one of its values. *)
THEOREM TypeCorrect == Spec => []TypeOK
<1>1. IndInv => TypeOK
    BY DEF IndInv
<1>2. QED
    BY <1>1, Invariant, PTL

(* The directory is given to others only when neither Core nor PostgreSQL   *)
(* of this server runs, no client of it is connected, and none can come up. *)
LEMMA Released == IndInv => ReleasedMeansGone
<1> SUFFICES ASSUME IndInv, ~lock PROVE NothingRuns
    BY DEF ReleasedMeansGone
<1>1. CloseRequested /\ final # "none"
    BY DEF IndInv, LeaseInv, CloseRequested
<1>2. QED
    BY <1>1 DEF IndInv, GoneInv, CoreIsGone, NothingRuns

(* The same, as an invariant of the specification.                          *)
THEOREM ReleasedGone == Spec => []ReleasedMeansGone
BY Released, Invariant, PTL

(* A status tells the truth: running before any close only, failed with the *)
(* ownership as it is for as long as the endpoint takes a stop.             *)
THEOREM StatusTrue == Spec => []StatusIsTrue
<1>1. ASSUME IndInv PROVE StatusIsTrue
    <2>1. Status.phase = phase /\ (phase = "failed" => Status.ownership = ownership)
        BY DEF Status
    <2>2. ASSUME phase = "running"
          PROVE  /\ ~aborted /\ closing = "none" /\ outcome = "pending"
                 /\ start = "ready" /\ lock /\ core \in {"alive", "dead"}
        BY <1>1, <2>2 DEF IndInv, StatusInv, GoneInv, LeaseInv
    <2>3. ASSUME phase = "failed", session = "accepting"
          PROVE  lock /\ ownership = "retained"
        BY <1>1, <2>3 DEF IndInv, StatusInv, LeaseInv, CloseRequested
    <2>4. QED
        BY <2>1, <2>2, <2>3 DEF StatusIsTrue
<1>2. QED
    BY <1>1, Invariant, PTL

(* What is said of the lease is said when it is so.                           *)
SaidOfLease ==
    /\ outcome' # outcome =>
          /\ outcome = "pending"
          /\ outcome' \in {"stopped", "completed"} => ~lock'
          /\ outcome' = "retained" => lock'
    /\ stop' # stop =>
          /\ stop' = "completed" => ~lock'
          /\ stop' = "retained" => lock' \/ final' = "unlocked"

(* What is said of the lease, to the host and to a client, is true when it *)
(* is said.                                                                *)
LEMMA LeaseClaims == IndInv /\ [Next]_vars => SaidOfLease
<1> SUFFICES ASSUME TypeOK, GoneInv, LeaseInv, OutcomeInv, [Next]_vars
             PROVE  SaidOfLease
    BY DEF IndInv
<1>0. lock \in BOOLEAN
    BY DEF TypeOK
<1> USE <1>0
    DEF GoneInv, LeaseInv, CoreIsGone, Results, SaidOfLease, vars, startVars, closeVars,
       coreVars, ownVars, clientVars, pgVars, heldVars, stopVars
<1>1. CASE OwnerAssigned
    BY <1>1 DEF OwnerAssigned, BeginClose, NoCloseOperation, CallClose, CancelStart, Ended
<1>2. CASE Start
    BY <1>2 DEF Start, NoCloseOperation
<1>3. CASE PathsReady
    BY <1>3 DEF PathsReady, ClientCreated
<1>4. CASE StartFails
    BY <1>4 DEF StartFails, Fail, BeginClose, NoCloseOperation
<1>5. CASE PgReady
    BY <1>5 DEF PgReady
<1>6. CASE PgStartFails
    BY <1>6 DEF PgStartFails, Fail, BeginClose, NoCloseOperation
<1>7. CASE ExternalReady
    BY <1>7 DEF ExternalReady
<1>8. CASE ExternalFails
    BY <1>8 DEF ExternalFails, Fail, BeginClose, NoCloseOperation
<1>9. CASE OpenCore
    BY <1>9 DEF OpenCore
<1>10. CASE CoreListening
    BY <1>10 DEF CoreListening
<1>11. CASE CoreStartFails
    BY <1>11 DEF CoreStartFails, Fail, BeginClose, NoCloseOperation
<1>12. CASE Probed
    BY <1>12 DEF Probed
<1>13. CASE BecomeReady
    BY <1>13 DEF BecomeReady
<1>14. CASE CloseCore
    BY <1>14 DEF CloseCore, CloseSucceeds, CloseFails, CloseSettled, Resolve, CloseDatabase,
       Ended
<1>15. CASE CoreStuck
    BY <1>15 DEF CoreStuck, CloseSucceeds, CloseFails, CloseSettled, Resolve
<1>16. CASE PgCloseEnds
    BY <1>16 DEF PgCloseEnds
<1>17. CASE ExternalCloseEnds
    BY <1>17 DEF ExternalCloseEnds
<1>18. CASE HeldClose
    <2>1. CASE pgClose = "closed"
        BY <1>18, <2>1 DEF HeldClose
    <2>2. CASE final \in {"released", "dirty"} /\ pgClose # "closed"
        <3>1. CloseFails("released")
            BY <1>18, <2>2 DEF HeldClose
        <3>2. ~lock'
            BY <1>18, <2>2 DEF HeldClose
        <3>3. QED
            BY <3>1, <3>2 DEF CloseFails, CloseSettled, Resolve
    <2>3. CASE final = "unconfirmed" /\ pgClose # "closed"
        <3>1. CloseFails("unconfirmed")
            BY <1>18, <2>3 DEF HeldClose
        <3>2. QED
            BY <3>1 DEF CloseFails, CloseSettled, Resolve
    <2>4. CASE final \notin {"released", "dirty", "unconfirmed"} /\ pgClose # "closed"
        <3>1. CloseFails("retained")
            BY <1>18, <2>4 DEF HeldClose
        <3>2. lock \/ final = "unlocked"
            BY <2>4
        <3>3. lock' \/ final' = "unlocked"
            BY <1>18, <3>2 DEF HeldClose
        <3>4. outcome = "pending" => lock'
            BY <1>18, <2>4 DEF HeldClose, OutcomeInv
        <3>5. QED
            BY <3>1, <3>3, <3>4 DEF CloseFails, CloseSettled, Resolve
    <2>5. QED
        BY <2>1, <2>2, <2>3, <2>4
<1>19. CASE Finalize
    BY <1>19 DEF Finalize
<1>20. CASE CloseOwned
    BY <1>20 DEF CloseOwned
<1>21. CASE CloseEnds
    BY <1>21 DEF CloseEnds, CloseSucceeds, CloseFails, CloseSettled, Resolve
<1>22. CASE RunStop
    BY <1>22 DEF RunStop, BeginClose, NoCloseOperation, CallClose, CancelStart, Ended
<1>23. CASE CompleteStop
    BY <1>23 DEF CompleteStop
<1>24. CASE PgSpawn
    BY <1>24 DEF PgSpawn
<1>25. CASE PgSpawned
    BY <1>25 DEF PgSpawned
<1>26. CASE PgExits
    BY <1>26 DEF PgExits
<1>27. CASE ExternalDeadline
    BY <1>27 DEF ExternalDeadline, CancelStart, Ended
<1>28. CASE ClientError
    BY <1>28 DEF ClientError
<1>29. CASE ClientEnds
    BY <1>29 DEF ClientEnds
<1>30. CASE CoreSpawned
    BY <1>30 DEF CoreSpawned
<1>31. CASE CoreExits
    BY <1>31 DEF CoreExits
<1>32. CASE DeadlinePasses
    BY <1>32 DEF DeadlinePasses, BeginClose, NoCloseOperation, CallClose, CancelStart, Ended
<1>33. CASE HostClose
    BY <1>33 DEF HostClose, BeginClose, NoCloseOperation, CallClose, CancelStart, Ended
<1>34. CASE CoreExitObserved
    BY <1>34 DEF CoreExitObserved, BeginClose, NoCloseOperation, CallClose, CancelStart, Ended
<1>35. CASE AcceptStop
    BY <1>35 DEF AcceptStop
<1>36. CASE Unlock
    BY <1>36 DEF Unlock
<1>37. CASE UNCHANGED vars
    BY <1>37
<1>38. QED
    BY <1>1, <1>2, <1>3, <1>4, <1>5, <1>6, <1>7, <1>8, <1>9, <1>10, <1>11, <1>12, <1>13, <1>14,
       <1>15, <1>16, <1>17, <1>18, <1>19, <1>20, <1>21, <1>22, <1>23, <1>24, <1>25, <1>26,
       <1>27, <1>28, <1>29, <1>30, <1>31, <1>32, <1>33, <1>34, <1>35, <1>36, <1>37
    DEF Next, StartStep, CloseStep, StopStep, ProcessStep, CallerStep

(* The outcome the host acts on, and the answer to a stop, are true: stopped *)
(* and completed leave nothing behind, retained keeps the directory, or is   *)
(* said while a server of which nothing is left lets go of it.              *)
THEOREM ClaimsTrue == Spec => ClaimsAreTrue
<1> DEFINE Claims ==
        /\ outcome' # outcome =>
              /\ outcome = "pending"
              /\ outcome' \in {"stopped", "completed"} => ~lock' /\ NothingRuns'
              /\ outcome' = "retained" => lock'
        /\ stop' # stop =>
              /\ stop' = "completed" => ~lock' /\ NothingRuns'
              /\ stop' = "retained" => lock' \/ LettingGo'
<1>1. ASSUME IndInv, ReleasedMeansGone', [Next]_vars PROVE [Claims]_vars
    <2>1. ~lock' => NothingRuns'
        BY <1>1 DEF ReleasedMeansGone
    <2>2. QED
        BY <1>1, <2>1, LeaseClaims DEF SaidOfLease, LettingGo
<1>2. QED
    BY <1>1, Invariant, ReleasedGone, PTL DEF Spec, ClaimsAreTrue

-----------------------------------------------------------------------------
(* Every step is one of HostedOwner, or none of its business.               *)
LEMMA PromiseKept == IndInv /\ [Next]_vars => [Promise!Next]_(Promise!vars)
<1> SUFFICES ASSUME TypeOK, GoneInv, LeaseInv, OutcomeInv, [Next]_vars
             PROVE  [Promise!Next]_(Promise!vars)
    BY DEF IndInv
<1>0. /\ closing \in {"none", "core", "postgres", "final", "done", "failed"}
      /\ final \in {"none", "waiting", "retiring", "unlocked", "released", "dirty", "unconfirmed"}
      /\ start \in {"opening", "early", "idle", "failing", "ready", "ended"} \cup Starting
      /\ aborted \in BOOLEAN /\ lock \in BOOLEAN
    BY DEF TypeOK
<1> USE <1>0
    DEF GoneInv, LeaseInv, CoreIsGone, OutcomeInv, Starting, vars, startVars, closeVars,
       coreVars, ownVars, clientVars, pgVars, heldVars, stopVars, Promise!vars, Promise!Next,
       Promise!Take, Promise!Refuse, Promise!Begin, Promise!BecomeReady, Promise!Close,
       Promise!GiveBack, Promise!End, Promise!Die
<1>1. CASE OwnerAssigned
    BY <1>1 DEF OwnerAssigned, BeginClose, NoCloseOperation, CallClose, CancelStart, Ended
<1>2. CASE Start
    BY <1>2 DEF Start, NoCloseOperation
<1>3. CASE PathsReady
    BY <1>3 DEF PathsReady, ClientCreated
<1>4. CASE StartFails
    BY <1>4 DEF StartFails, Fail, BeginClose, NoCloseOperation
<1>5. CASE PgReady
    BY <1>5 DEF PgReady
<1>6. CASE PgStartFails
    BY <1>6 DEF PgStartFails, Fail, BeginClose, NoCloseOperation
<1>7. CASE ExternalReady
    BY <1>7 DEF ExternalReady
<1>8. CASE ExternalFails
    BY <1>8 DEF ExternalFails, Fail, BeginClose, NoCloseOperation
<1>9. CASE OpenCore
    BY <1>9 DEF OpenCore
<1>10. CASE CoreListening
    BY <1>10 DEF CoreListening
<1>11. CASE CoreStartFails
    BY <1>11 DEF CoreStartFails, Fail, BeginClose, NoCloseOperation
<1>12. CASE Probed
    BY <1>12 DEF Probed
<1>13. CASE BecomeReady
    BY <1>13 DEF BecomeReady
<1>14. CASE CloseCore
    BY <1>14 DEF CloseCore, CloseSucceeds, CloseFails, CloseSettled, Resolve, CloseDatabase,
       Ended
<1>15. CASE CoreStuck
    BY <1>15 DEF CoreStuck, CloseSucceeds, CloseFails, CloseSettled, Resolve
<1>16. CASE PgCloseEnds
    BY <1>16 DEF PgCloseEnds
<1>17. CASE ExternalCloseEnds
    BY <1>17 DEF ExternalCloseEnds
<1>18. CASE HeldClose
    BY <1>18 DEF HeldClose, CloseSucceeds, CloseFails, CloseSettled, Resolve
<1>19. CASE Finalize
    BY <1>19 DEF Finalize
<1>20. CASE CloseOwned
    BY <1>20 DEF CloseOwned
<1>21. CASE CloseEnds
    BY <1>21 DEF CloseEnds, CloseSucceeds, CloseFails, CloseSettled, Resolve
<1>22. CASE RunStop
    BY <1>22 DEF RunStop, BeginClose, NoCloseOperation, CallClose, CancelStart, Ended
<1>23. CASE CompleteStop
    BY <1>23 DEF CompleteStop
<1>24. CASE PgSpawn
    BY <1>24 DEF PgSpawn
<1>25. CASE PgSpawned
    BY <1>25 DEF PgSpawned
<1>26. CASE PgExits
    BY <1>26 DEF PgExits
<1>27. CASE ExternalDeadline
    BY <1>27 DEF ExternalDeadline, CancelStart, Ended
<1>28. CASE ClientError
    BY <1>28 DEF ClientError
<1>29. CASE ClientEnds
    BY <1>29 DEF ClientEnds
<1>30. CASE CoreSpawned
    BY <1>30 DEF CoreSpawned
<1>31. CASE CoreExits
    BY <1>31 DEF CoreExits
<1>32. CASE DeadlinePasses
    BY <1>32 DEF DeadlinePasses, BeginClose, NoCloseOperation, CallClose, CancelStart, Ended
<1>33. CASE HostClose
    BY <1>33 DEF HostClose, BeginClose, NoCloseOperation, CallClose, CancelStart, Ended
<1>34. CASE CoreExitObserved
    BY <1>34 DEF CoreExitObserved, BeginClose, NoCloseOperation, CallClose, CancelStart, Ended
<1>35. CASE AcceptStop
    BY <1>35 DEF AcceptStop
<1>36. CASE Unlock
    BY <1>36 DEF Unlock
<1>37. CASE UNCHANGED vars
    BY <1>37
<1>38. QED
    BY <1>1, <1>2, <1>3, <1>4, <1>5, <1>6, <1>7, <1>8, <1>9, <1>10, <1>11, <1>12, <1>13, <1>14,
       <1>15, <1>16, <1>17, <1>18, <1>19, <1>20, <1>21, <1>22, <1>23, <1>24, <1>25, <1>26,
       <1>27, <1>28, <1>29, <1>30, <1>31, <1>32, <1>33, <1>34, <1>35, <1>36, <1>37
    DEF Next, StartStep, CloseStep, StopStep, ProcessStep, CallerStep

(* One incarnation keeps the promise that the host is given.                *)
THEOREM OwnerImplementsHostedOwner == Spec => ImplementsHostedOwner
<1>1. Init => Promise!Init
    BY DEF Init, Promise!Init
<1>2. QED
    BY Invariant, PromiseKept, <1>1, PTL DEF Spec, ImplementsHostedOwner, Promise!Spec
================================================================================
