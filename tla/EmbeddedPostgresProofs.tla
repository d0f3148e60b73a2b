----------------------- MODULE EmbeddedPostgresProofs -----------------------
(* Theorems about EmbeddedPostgres, for any number of attempts.             *)
EXTENDS EmbeddedPostgres, TLAPS

(* The process is in the hands of spawn exactly while the start awaits it,  *)
(* and there is none before the spawn and between two attempts.            *)
SpawnInv ==
    /\ process = "coming" <=> start = "spawning"
    /\ start \in {"idle", "preparing", "port", "reading"} => process = "none"

(* A close aborts the start; what is called after it stays within it.       *)
CloseInv ==
    /\ close # "none" => aborted
    /\ settled # "none" => close # "none"
    /\ settled \in {"process", "readiness", "done"} => start \notin Pending
    /\ settled \in {"readiness", "done"} => process = "none"

(* A probe is of this attempt or of an earlier one, which it can be until   *)
(* the process of this attempt is there.                                   *)
AttemptInv ==
    /\ probe <= attempt
    /\ start \in {"idle", "preparing"} => attempt = 0 /\ probe = 0 /\ peer = "none" /\ sql = "idle"
    /\ start \in {"port", "spawning"} => probe # attempt

(* What is known of the peer: an answer came from the process of the        *)
(* attempt, which had the port then.                                       *)
PeerInv ==
    /\ port = "own" => bound = "yes"
    /\ (peer = "own" /\ probe = attempt) => bound = "yes"
    /\ sql = "connecting" => verdict = "none"
    /\ sql = "verifying" => peer # "none" /\ verdict = "none"
    /\ sql = "asking" \/ verdict = "ok" => peer = "own"
    /\ start \in {"completing", "ready"} => sql = "idle"

(* The inductive invariant.                                                *)
IndInv == TypeOK /\ SpawnInv /\ CloseInv /\ AttemptInv /\ PeerInv /\ ReadyIsOurs

(* The initial states satisfy it.                                          *)
LEMMA InitInv == Init => IndInv
<1> SUFFICES ASSUME Init PROVE IndInv
    OBVIOUS
<1> USE AttemptsAssumption DEF Init
<1>1. TypeOK
  <2>1. /\ aborted \in BOOLEAN /\ retryable \in BOOLEAN
        /\ cleanupFailed \in BOOLEAN /\ stopFailure \in BOOLEAN
      BY Zenon
  <2>2. QED
      BY <2>1 DEF TypeOK, Pending
<1>2. SpawnInv /\ CloseInv /\ AttemptInv /\ PeerInv /\ ReadyIsOurs
    BY DEF SpawnInv, CloseInv, AttemptInv, PeerInv, ReadyIsOurs, Pending
<1>3. QED
    BY <1>1, <1>2 DEF IndInv

(* Every step keeps the variables within their types.                       *)
LEMMA TypeStep == TypeOK /\ [Next]_vars => TypeOK'
<1> SUFFICES ASSUME TypeOK, [Next]_vars PROVE TypeOK'
    OBVIOUS
<1> USE AttemptsAssumption
    DEF TypeOK, Pending, vars, startVars, processVars, probeVars, readinessVars, closeVars
<1>1. CASE Start
    BY <1>1 DEF Start, Goto
<1>2. CASE Prepared
    BY <1>2 DEF Prepared
<1>3. CASE StartFails
    BY <1>3 DEF StartFails, Goto
<1>4. CASE Spawn
    BY <1>4 DEF Spawn, Goto
<1>5. CASE Spawned
    BY <1>5 DEF Spawned, Goto
<1>6. CASE SpawnFails
    BY <1>6 DEF SpawnFails, Goto
<1>7. CASE ExitWins
    BY <1>7 DEF ExitWins, AttemptFails, Exited
<1>8. CASE Quieted
    BY <1>8 DEF Quieted, Goto, Exited
<1>9. CASE WaitEnds
    BY <1>9 DEF WaitEnds, Goto, Exited
<1>10. CASE StopEnds
  <2>1. CASE Exited /\ Goto("reading") /\ UNCHANGED stopFailure
      BY <1>10, <2>1 DEF StopEnds, Goto
  <2>2. CASE process \in {"up", "dead"} /\ Goto("failing") /\ stopFailure' = TRUE
      BY <1>10, <2>2 DEF StopEnds, Goto
  <2>3. QED
      BY <1>10, <2>1, <2>2 DEF StopEnds
<1>11. CASE LogRead
    BY <1>11 DEF LogRead, Goto
<1>12. CASE Completed
    BY <1>12 DEF Completed, Goto
<1>13. CASE StartRejected
    BY <1>13 DEF StartRejected, Goto
<1>14. CASE ProbeBegins
    BY <1>14 DEF ProbeBegins
<1>15. CASE ProbeRefused
    BY <1>15 DEF ProbeRefused, AttemptFails, Exited
<1>16. CASE ConnectRefused
    BY <1>16 DEF ConnectRefused, Found, ProbeStep
<1>17. CASE Connected
    BY <1>17 DEF Connected, Found, ProbeStep
<1>18. CASE ConnectFails
    BY <1>18 DEF ConnectFails, Found, ProbeStep
<1>19. CASE Verified
    BY <1>19 DEF Verified, Found, ProbeStep
<1>20. CASE Answered
    BY <1>20 DEF Answered, Found, ProbeStep
<1>21. CASE SqlFails
    BY <1>21 DEF SqlFails, Found, ProbeStep
<1>22. CASE ClientEnded
  <2>1. cleanupFailed' \in BOOLEAN
      BY <1>22, Zenon DEF ClientEnded
  <2>2. /\ sql' \in {"connecting", "idle"} /\ round' \in {1, 2}
        /\ verdict' \in {"none", verdict}
        /\ UNCHANGED <<processVars, probe, peer, closeVars>>
      BY <1>22 DEF ClientEnded
  <2>3. CASE UNCHANGED <<startVars, readinessClose>>
      BY <2>1, <2>2, <2>3
  <2>4. CASE Goto("completing") /\ UNCHANGED readinessClose
      BY <2>1, <2>2, <2>4 DEF Goto
  <2>5. CASE AttemptFails(verdict # "terminal")
    <3>1. retryable' \in BOOLEAN
        BY <2>5, Zenon DEF AttemptFails
    <3>2. QED
        BY <2>1, <2>2, <2>5, <3>1 DEF AttemptFails
  <2>6. QED
      BY <1>22, <2>3, <2>4, <2>5 DEF ClientEnded
<1>23. CASE ReadinessCloses
  <2>1. CASE UNCHANGED cleanupFailed
      BY <1>23, <2>1 DEF ReadinessCloses
  <2>2. CASE readinessClose' = "failed" /\ cleanupFailed' = TRUE
      BY <1>23, <2>2 DEF ReadinessCloses
  <2>3. QED
      BY <1>23, <2>1, <2>2 DEF ReadinessCloses
<1>24. CASE ForeignTakes
    BY <1>24 DEF ForeignTakes
<1>25. CASE Bind
    BY <1>25 DEF Bind
<1>26. CASE Exit
    BY <1>26 DEF Exit
<1>27. CASE Reap
    BY <1>27 DEF Reap
<1>28. CASE Abort
    BY <1>28 DEF Abort
<1>29. CASE CloseCall
    BY <1>29 DEF CloseCall
<1>30. CASE CloseStopEnds
  <2>1. CASE process = "none" /\ closeStop' = "done" /\ UNCHANGED stopFailure
      BY <1>30, <2>1 DEF CloseStopEnds
  <2>2. CASE process # "none" /\ closeStop' = "failed" /\ stopFailure' = TRUE
      BY <1>30, <2>2 DEF CloseStopEnds
  <2>3. QED
      BY <1>30, <2>1, <2>2 DEF CloseStopEnds
<1>31. CASE CloseSettles
    BY <1>31 DEF CloseSettles
<1>32. CASE StartSettled
    BY <1>32 DEF StartSettled, SettleStep
<1>33. CASE ProcessSettled
    BY <1>33 DEF ProcessSettled, SettleStep
<1>34. CASE ReadinessSettled
    BY <1>34 DEF ReadinessSettled, SettleStep
<1>35. CASE UNCHANGED vars
    BY <1>35
<1>36. QED
    BY <1>1, <1>2, <1>3, <1>4, <1>5, <1>6, <1>7, <1>8, <1>9, <1>10, <1>11, <1>12, <1>13, <1>14,
       <1>15, <1>16, <1>17, <1>18, <1>19, <1>20, <1>21, <1>22, <1>23, <1>24, <1>25, <1>26,
       <1>27, <1>28, <1>29, <1>30, <1>31, <1>32, <1>33, <1>34, <1>35 DEF Next, StartStep,
       SqlStep, ProcessStep

(* Every step keeps what is known of the process and of close.              *)
LEMMA ProcessStepInv == IndInv /\ [Next]_vars => SpawnInv' /\ CloseInv'
<1> SUFFICES ASSUME TypeOK, SpawnInv, CloseInv, [Next]_vars PROVE SpawnInv' /\ CloseInv'
    BY DEF IndInv
<1> USE DEF TypeOK, SpawnInv, CloseInv, Pending,
            vars, startVars, processVars, probeVars, readinessVars, closeVars
<1>1. CASE Start
    BY <1>1 DEF Start, Goto
<1>2. CASE Prepared
    BY <1>2 DEF Prepared
<1>3. CASE StartFails
    BY <1>3 DEF StartFails, Goto
<1>4. CASE Spawn
    BY <1>4 DEF Spawn, Goto
<1>5. CASE Spawned
    BY <1>5 DEF Spawned, Goto
<1>6. CASE SpawnFails
    BY <1>6 DEF SpawnFails, Goto
<1>7. CASE ExitWins
    BY <1>7 DEF ExitWins, AttemptFails, Exited
<1>8. CASE Quieted
    BY <1>8 DEF Quieted, Goto, Exited
<1>9. CASE WaitEnds
    BY <1>9 DEF WaitEnds, Goto, Exited
<1>10. CASE StopEnds
    BY <1>10 DEF StopEnds, Goto, Exited
<1>11. CASE LogRead
    BY <1>11 DEF LogRead, Goto
<1>12. CASE Completed
    BY <1>12 DEF Completed, Goto
<1>13. CASE StartRejected
    BY <1>13 DEF StartRejected, Goto
<1>14. CASE ProbeBegins
    BY <1>14 DEF ProbeBegins
<1>15. CASE ProbeRefused
    BY <1>15 DEF ProbeRefused, AttemptFails, Exited
<1>16. CASE ConnectRefused
    BY <1>16 DEF ConnectRefused, Found, ProbeStep
<1>17. CASE Connected
    BY <1>17 DEF Connected, Found, ProbeStep
<1>18. CASE ConnectFails
    BY <1>18 DEF ConnectFails, Found, ProbeStep
<1>19. CASE Verified
    BY <1>19 DEF Verified, Found, ProbeStep
<1>20. CASE Answered
    BY <1>20 DEF Answered, Found, ProbeStep
<1>21. CASE SqlFails
    BY <1>21 DEF SqlFails, Found, ProbeStep
<1>22. CASE ClientEnded
    BY <1>22 DEF ClientEnded, AttemptFails, Exited, Goto
<1>23. CASE ReadinessCloses
    BY <1>23 DEF ReadinessCloses
<1>24. CASE ForeignTakes
    BY <1>24 DEF ForeignTakes
<1>25. CASE Bind
    BY <1>25 DEF Bind
<1>26. CASE Exit
    BY <1>26 DEF Exit
<1>27. CASE Reap
    BY <1>27 DEF Reap
<1>28. CASE Abort
    BY <1>28 DEF Abort
<1>29. CASE CloseCall
    BY <1>29 DEF CloseCall
<1>30. CASE CloseStopEnds
    BY <1>30 DEF CloseStopEnds
<1>31. CASE CloseSettles
    BY <1>31 DEF CloseSettles
<1>32. CASE StartSettled
    BY <1>32 DEF StartSettled, SettleStep
<1>33. CASE ProcessSettled
    BY <1>33 DEF ProcessSettled, SettleStep
<1>34. CASE ReadinessSettled
    BY <1>34 DEF ReadinessSettled, SettleStep
<1>35. CASE UNCHANGED vars
    BY <1>35
<1>36. QED
    BY <1>1, <1>2, <1>3, <1>4, <1>5, <1>6, <1>7, <1>8, <1>9, <1>10, <1>11, <1>12, <1>13, <1>14,
       <1>15, <1>16, <1>17, <1>18, <1>19, <1>20, <1>21, <1>22, <1>23, <1>24, <1>25, <1>26,
       <1>27, <1>28, <1>29, <1>30, <1>31, <1>32, <1>33, <1>34, <1>35 DEF Next, StartStep,
       SqlStep, ProcessStep

(* Every step keeps what is known of the attempts and of the peer.          *)
LEMMA ProbeStepInv == IndInv /\ [Next]_vars => AttemptInv' /\ PeerInv' /\ ReadyIsOurs'
<1> SUFFICES ASSUME TypeOK, SpawnInv, AttemptInv, PeerInv, ReadyIsOurs, [Next]_vars
             PROVE  AttemptInv' /\ PeerInv' /\ ReadyIsOurs'
    BY DEF IndInv
<1> USE AttemptsAssumption
    DEF TypeOK, SpawnInv, AttemptInv, PeerInv, ReadyIsOurs, Pending,
        vars, startVars, processVars, probeVars, readinessVars, closeVars
<1>1. CASE Start
    BY <1>1 DEF Start, Goto
<1>2. CASE Prepared
    BY <1>2 DEF Prepared
<1>3. CASE StartFails
    BY <1>3 DEF StartFails, Goto
<1>4. CASE Spawn
    BY <1>4 DEF Spawn, Goto
<1>5. CASE Spawned
    BY <1>5 DEF Spawned, Goto
<1>6. CASE SpawnFails
    BY <1>6 DEF SpawnFails, Goto
<1>7. CASE ExitWins
    BY <1>7 DEF ExitWins, AttemptFails, Exited
<1>8. CASE Quieted
    BY <1>8 DEF Quieted, Goto, Exited
<1>9. CASE WaitEnds
    BY <1>9 DEF WaitEnds, Goto, Exited
<1>10. CASE StopEnds
    BY <1>10 DEF StopEnds, Goto, Exited
<1>11. CASE LogRead
    BY <1>11 DEF LogRead, Goto
<1>12. CASE Completed
    BY <1>12 DEF Completed, Goto
<1>13. CASE StartRejected
    BY <1>13 DEF StartRejected, Goto
<1>14. CASE ProbeBegins
    BY <1>14 DEF ProbeBegins
<1>15. CASE ProbeRefused
    BY <1>15 DEF ProbeRefused, AttemptFails, Exited
<1>16. CASE ConnectRefused
    BY <1>16 DEF ConnectRefused, Found, ProbeStep
<1>17. CASE Connected
    BY <1>17 DEF Connected, Found, ProbeStep
<1>18. CASE ConnectFails
    BY <1>18 DEF ConnectFails, Found, ProbeStep
<1>19. CASE Verified
    BY <1>19 DEF Verified, Found, ProbeStep
<1>20. CASE Answered
    BY <1>20 DEF Answered, Found, ProbeStep
<1>21. CASE SqlFails
    BY <1>21 DEF SqlFails, Found, ProbeStep
<1>22. CASE ClientEnded
    BY <1>22 DEF ClientEnded, AttemptFails, Exited, Goto
<1>23. CASE ReadinessCloses
    BY <1>23 DEF ReadinessCloses
<1>24. CASE ForeignTakes
    BY <1>24 DEF ForeignTakes
<1>25. CASE Bind
    BY <1>25 DEF Bind
<1>26. CASE Exit
    BY <1>26 DEF Exit
<1>27. CASE Reap
    BY <1>27 DEF Reap
<1>28. CASE Abort
    BY <1>28 DEF Abort
<1>29. CASE CloseCall
    BY <1>29 DEF CloseCall
<1>30. CASE CloseStopEnds
    BY <1>30 DEF CloseStopEnds
<1>31. CASE CloseSettles
    BY <1>31 DEF CloseSettles
<1>32. CASE StartSettled
    BY <1>32 DEF StartSettled, SettleStep
<1>33. CASE ProcessSettled
    BY <1>33 DEF ProcessSettled, SettleStep
<1>34. CASE ReadinessSettled
    BY <1>34 DEF ReadinessSettled, SettleStep
<1>35. CASE UNCHANGED vars
    BY <1>35
<1>36. QED
    BY <1>1, <1>2, <1>3, <1>4, <1>5, <1>6, <1>7, <1>8, <1>9, <1>10, <1>11, <1>12, <1>13, <1>14,
       <1>15, <1>16, <1>17, <1>18, <1>19, <1>20, <1>21, <1>22, <1>23, <1>24, <1>25, <1>26,
       <1>27, <1>28, <1>29, <1>30, <1>31, <1>32, <1>33, <1>34, <1>35 DEF Next, StartStep,
       SqlStep, ProcessStep

(* The inductive invariant holds in every reachable state.                  *)
THEOREM Invariant == Spec => []IndInv
<1>1. IndInv /\ [Next]_vars => IndInv'
    BY TypeStep, ProcessStepInv, ProbeStepInv DEF IndInv
<1>2. QED
    BY InitInv, <1>1, PTL DEF Spec

(* Type correctness.                                                       *)
THEOREM TypeCorrect == Spec => []TypeOK
<1>1. IndInv => TypeOK
    BY DEF IndInv
<1>2. QED
    BY Invariant, <1>1, PTL

(* The database given to Core is the one of this server.                    *)
THEOREM ReadyDatabaseIsOurs == Spec => []ReadyIsOurs
<1>1. IndInv => ReadyIsOurs
    BY DEF IndInv
<1>2. QED
    BY Invariant, <1>1, PTL

(* After settled, no PostgreSQL of this server runs or comes.               *)
THEOREM SettledIsFinal == Spec => []SettledMeansGone
<1>1. IndInv => SettledMeansGone
    BY DEF IndInv, CloseInv, SettledMeansGone
<1>2. QED
    BY Invariant, <1>1, PTL

(* Every step is one of OwnedChild, or none of its business.                *)
LEMMA OwnedStep == IndInv /\ [Next]_vars => [Owned!Next]_(Owned!vars)
<1> SUFFICES ASSUME TypeOK, SpawnInv, CloseInv, [Next]_vars
             PROVE  [Owned!Next]_(Owned!vars)
    BY DEF IndInv
<1> USE DEF TypeOK, SpawnInv, CloseInv, Pending,
            vars, startVars, processVars, probeVars, readinessVars, closeVars,
            Owned!vars, Owned!Next, Owned!CallStart, Owned!Launch, Owned!Arrive, Owned!Exit,
            Owned!Reap, Owned!Succeed, Owned!Fail, Owned!CallClose, Owned!Closed,
            Owned!CloseFails
<1>1. CASE Start
    BY <1>1 DEF Start, Goto
<1>2. CASE Prepared
    BY <1>2 DEF Prepared
<1>3. CASE StartFails
    BY <1>3 DEF StartFails, Goto
<1>4. CASE Spawn
    BY <1>4 DEF Spawn, Goto
<1>5. CASE Spawned
    BY <1>5 DEF Spawned, Goto
<1>6. CASE SpawnFails
    BY <1>6 DEF SpawnFails, Goto
<1>7. CASE ExitWins
    BY <1>7 DEF ExitWins, AttemptFails, Exited
<1>8. CASE Quieted
    BY <1>8 DEF Quieted, Goto, Exited
<1>9. CASE WaitEnds
    BY <1>9 DEF WaitEnds, Goto, Exited
<1>10. CASE StopEnds
    BY <1>10 DEF StopEnds, Goto, Exited
<1>11. CASE LogRead
    BY <1>11 DEF LogRead, Goto
<1>12. CASE Completed
    BY <1>12 DEF Completed, Goto
<1>13. CASE StartRejected
    BY <1>13 DEF StartRejected, Goto
<1>14. CASE ProbeBegins
    BY <1>14 DEF ProbeBegins
<1>15. CASE ProbeRefused
    BY <1>15 DEF ProbeRefused, AttemptFails, Exited
<1>16. CASE ConnectRefused
    BY <1>16 DEF ConnectRefused, Found, ProbeStep
<1>17. CASE Connected
    BY <1>17 DEF Connected, Found, ProbeStep
<1>18. CASE ConnectFails
    BY <1>18 DEF ConnectFails, Found, ProbeStep
<1>19. CASE Verified
    BY <1>19 DEF Verified, Found, ProbeStep
<1>20. CASE Answered
    BY <1>20 DEF Answered, Found, ProbeStep
<1>21. CASE SqlFails
    BY <1>21 DEF SqlFails, Found, ProbeStep
<1>22. CASE ClientEnded
    BY <1>22 DEF ClientEnded, AttemptFails, Exited, Goto
<1>23. CASE ReadinessCloses
    BY <1>23 DEF ReadinessCloses
<1>24. CASE ForeignTakes
    BY <1>24 DEF ForeignTakes
<1>25. CASE Bind
    BY <1>25 DEF Bind
<1>26. CASE Exit
    BY <1>26 DEF Exit
<1>27. CASE Reap
    BY <1>27 DEF Reap
<1>28. CASE Abort
    BY <1>28 DEF Abort
<1>29. CASE CloseCall
    BY <1>29 DEF CloseCall
<1>30. CASE CloseStopEnds
    BY <1>30 DEF CloseStopEnds
<1>31. CASE CloseSettles
    BY <1>31 DEF CloseSettles
<1>32. CASE StartSettled
    BY <1>32 DEF StartSettled, SettleStep
<1>33. CASE ProcessSettled
    BY <1>33 DEF ProcessSettled, SettleStep
<1>34. CASE ReadinessSettled
    BY <1>34 DEF ReadinessSettled, SettleStep
<1>35. CASE UNCHANGED vars
    BY <1>35
<1>36. QED
    BY <1>1, <1>2, <1>3, <1>4, <1>5, <1>6, <1>7, <1>8, <1>9, <1>10, <1>11, <1>12, <1>13, <1>14,
       <1>15, <1>16, <1>17, <1>18, <1>19, <1>20, <1>21, <1>22, <1>23, <1>24, <1>25, <1>26,
       <1>27, <1>28, <1>29, <1>30, <1>31, <1>32, <1>33, <1>34, <1>35 DEF Next, StartStep,
       SqlStep, ProcessStep

(* The resource implements OwnedChild.                                     *)
THEOREM PostgresImplementsOwnedChild == Spec => ImplementsOwnedChild
<1>1. Init => Owned!Init
    BY DEF Init, Owned!Init, Pending
<1>2. QED
    BY Invariant, OwnedStep, <1>1, PTL DEF Spec, ImplementsOwnedChild, Owned!Spec
=============================================================================
