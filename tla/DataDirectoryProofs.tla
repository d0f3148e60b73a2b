------------------------ MODULE DataDirectoryProofs ------------------------
(***************************************************************************)
(* What TLAPS proves of DataDirectory, for every number of incarnations    *)
(* and CLI runs: the inductive invariant IndInv, the safety properties that *)
(* follow from it, and that the directory implements Ownership.            *)
(***************************************************************************)
EXTENDS DataDirectory, TLAPS

(* A failure that may have been recorded keeps failures in its type.       *)
LEMMA FailTyped ==
    ASSUME failures \in [Server -> BOOLEAN], NEW s \in Server, UNCHANGED failures \/ Fail(s)
    PROVE  failures' \in [Server -> BOOLEAN]
<1>1. CASE UNCHANGED failures
  BY <1>1
<1>2. CASE Fail(s)
  BY <1>2 DEF Fail
<1>3. QED
  BY <1>1, <1>2

(* Every step keeps every variable in its type. *)
LEMMA TypeStep == IndInv /\ [Next]_vars => TypeOK'
<1> SUFFICES ASSUME IndInv, [Next]_vars PROVE TypeOK'
  OBVIOUS
<1> USE DistinctParties DEF IndInv, TypeOK, ResponderInv, Stages, Owning, Opening,
     Serving, Retiring, Aborting, Unlocked, Settled, Phases, Commands,
    Steps, Answers, vars, diskVars, serverVars, sessionVars, clientVars, Go, To
<1>1. ASSUME NEW s \in Server, Acquire(s) PROVE TypeOK'
  BY <1>1 DEF Acquire
<1>2. ASSUME NEW s \in Server, AcquireBusy(s) PROVE TypeOK'
  BY <1>2 DEF AcquireBusy
<1>3. ASSUME NEW s \in Server, Listen(s) PROVE TypeOK'
  BY <1>3 DEF Listen
<1>4. ASSUME NEW s \in Server, WriteTemporary(s) PROVE TypeOK'
  BY <1>4 DEF WriteTemporary
<1>5. ASSUME NEW s \in Server, PublishLocator(s) PROVE TypeOK'
  BY <1>5 DEF PublishLocator
<1>6. ASSUME NEW s \in Server, OpenReturns(s) PROVE TypeOK'
  BY <1>6 DEF OpenReturns
<1>7. ASSUME NEW s \in Server, OpenFails(s) PROVE TypeOK'
  BY <1>7 DEF OpenFails
<1>8. ASSUME NEW s \in Server, AbortEndpoint(s) PROVE TypeOK'
  <2>1. failures' \in [Server -> BOOLEAN]
    <3>1. UNCHANGED failures \/ Fail(s)
      BY <1>8 DEF AbortEndpoint, CloseEndpoint
    <3>2. QED
      BY <3>1, FailTyped
  <2>2. session' \in [Server -> {"closed", "accepting", "stopping", "terminal"}]
    BY <1>8 DEF AbortEndpoint, CloseEndpoint
  <2>3. QED
    BY <1>8, <2>1, <2>2 DEF AbortEndpoint, CloseEndpoint
<1>9. ASSUME NEW s \in Server, EraseTemporary(s) PROVE TypeOK'
  <2>1. CASE temporary' = temporary \ {s} /\ UNCHANGED failures
    BY <1>9, <2>1 DEF EraseTemporary, Fail
  <2>2. CASE failures' = [failures EXCEPT ![s] = TRUE] /\ UNCHANGED temporary
    BY <1>9, <2>2 DEF EraseTemporary, Fail
  <2>3. QED
    BY <1>9, <2>1, <2>2 DEF EraseTemporary, Fail
<1>10. ASSUME NEW s \in Server, AbortLease(s) PROVE TypeOK'
  <2>1. failures' \in [Server -> BOOLEAN]
    <3>1. UNCHANGED failures \/ Fail(s)
      BY <1>10 DEF AbortLease, CloseLease
    <3>2. QED
      BY <3>1, FailTyped
  <2>2. lock' \in Server \cup Client \cup {NoOne}
    BY <1>10 DEF AbortLease, CloseLease
  <2>3. stopRun' \in [Server -> {"none", "accepted", "running",
                                 "completed", "retained", "unconfirmed"}]
    BY <1>10 DEF AbortLease, Settle
  <2>4. QED
    BY <1>10, <2>1, <2>2, <2>3 DEF AbortLease
<1>11. ASSUME NEW s \in Server, BecomeRunning(s) PROVE TypeOK'
  BY <1>11 DEF BecomeRunning
<1>12. ASSUME NEW s \in Server, BeginClose(s) PROVE TypeOK'
  BY <1>12 DEF BeginClose
<1>13. ASSUME NEW s \in Server, ResourcesStopped(s) PROVE TypeOK'
  BY <1>13 DEF ResourcesStopped
<1>14. ASSUME NEW s \in Server, CoreStuck(s) PROVE TypeOK'
  BY <1>14 DEF CoreStuck, Settle
<1>15. ASSUME NEW s \in Server, PostgresStuck(s) PROVE TypeOK'
  BY <1>15 DEF PostgresStuck, Settle
<1>16. ASSUME NEW s \in Server, PostgresSettles(s) PROVE TypeOK'
  BY <1>16 DEF PostgresSettles
<1>17. ASSUME NEW s \in Server, RetireEndpoint(s) PROVE TypeOK'
  <2>1. failures' \in [Server -> BOOLEAN]
    <3>1. UNCHANGED failures \/ Fail(s)
      BY <1>17 DEF RetireEndpoint, CloseEndpoint
    <3>2. QED
      BY <3>1, FailTyped
  <2>2. session' \in [Server -> {"closed", "accepting", "stopping", "terminal"}]
    BY <1>17 DEF RetireEndpoint, CloseEndpoint
  <2>3. QED
    BY <1>17, <2>1, <2>2 DEF RetireEndpoint, CloseEndpoint
<1>18. ASSUME NEW s \in Server, ReadLocator(s) PROVE TypeOK'
  <2>1. CASE UNCHANGED failures
    BY <1>18, <2>1 DEF ReadLocator, Fail
  <2>2. CASE failures' = [failures EXCEPT ![s] = TRUE]
    BY <1>18, <2>2 DEF ReadLocator, Fail
  <2>3. QED
    BY <1>18, <2>1, <2>2 DEF ReadLocator, Fail
<1>19. ASSUME NEW s \in Server, UnlinkLocator(s) PROVE TypeOK'
  <2>1. CASE locator' = NoOne /\ UNCHANGED failures
    BY <1>19, <2>1 DEF UnlinkLocator, Fail
  <2>2. CASE failures' = [failures EXCEPT ![s] = TRUE] /\ UNCHANGED locator
    BY <1>19, <2>2 DEF UnlinkLocator, Fail
  <2>3. QED
    BY <1>19, <2>1, <2>2 DEF UnlinkLocator, Fail
<1>20. ASSUME NEW s \in Server, ReleaseLease(s) PROVE TypeOK'
  <2>1. stopRun' \in [Server -> {"none", "accepted", "running",
                                 "completed", "retained", "unconfirmed"}]
    BY <1>20 DEF ReleaseLease, Settle
  <2>2. failures' \in [Server -> BOOLEAN]
    <3>1. UNCHANGED failures \/ Fail(s)
      BY <1>20 DEF ReleaseLease, CloseLease
    <3>2. QED
      BY <3>1, FailTyped
  <2>3. lock' \in Server \cup Client \cup {NoOne}
    BY <1>20 DEF ReleaseLease, CloseLease
  <2>4. phase' \in [Server -> Phases] /\ pc' \in [Server -> Stages]
    <3>1. CASE failures'[s]
      BY <1>20, <3>1 DEF ReleaseLease
    <3>2. CASE ~failures'[s]
      BY <1>20, <3>2 DEF ReleaseLease
    <3>3. QED
      BY <3>1, <3>2
  <2>5. QED
    BY <1>20, <2>1, <2>2, <2>3, <2>4 DEF ReleaseLease
<1>21. ASSUME NEW s \in Server, Unlock(s) PROVE TypeOK'
  <2>1. failures' \in [Server -> BOOLEAN]
    <3>1. UNCHANGED failures \/ Fail(s)
      BY <1>21 DEF Unlock
    <3>2. QED
      BY <3>1, FailTyped
  <2>2. lock' \in Server \cup Client \cup {NoOne} /\ pc' \in [Server -> Stages]
    BY <1>21 DEF Unlock
  <2>3. QED
    BY <1>21, <2>1, <2>2 DEF Unlock
<1>22. ASSUME NEW s \in Server, RunStop(s) PROVE TypeOK'
  BY <1>22 DEF RunStop
<1>23. ASSUME NEW s \in Server, CompleteStop(s) PROVE TypeOK'
  BY <1>23 DEF CompleteStop
<1>24. ASSUME NEW s \in Server, Exit(s) PROVE TypeOK'
  BY <1>24 DEF Exit, Vanish
<1>25. ASSUME NEW s \in Server, Crash(s) PROVE TypeOK'
  BY <1>25 DEF Crash, Vanish
<1>26. ASSUME NEW c \in Client, Begin(c) PROVE TypeOK'
  BY <1>26 DEF Begin
<1>27. ASSUME NEW c \in Client, ReadDirectory(c) PROVE TypeOK'
  BY <1>27 DEF ReadDirectory
<1>28. ASSUME NEW c \in Client, Inspect(c) PROVE TypeOK'
  BY <1>28 DEF Inspect, Conclude, Report
<1>29. ASSUME NEW c \in Client, InspectFree(c) PROVE TypeOK'
  BY <1>29 DEF InspectFree, Conclude, Report
<1>30. ASSUME NEW c \in Client, Ask(c) PROVE TypeOK'
  BY <1>30 DEF Ask, Conclude, Report
<1>31. ASSUME NEW c \in Client, ProbeLive(c) PROVE TypeOK'
  BY <1>31 DEF ProbeLive, Conclude, Report
<1>32. ASSUME NEW c \in Client, Confirm(c) PROVE TypeOK'
  BY <1>32 DEF Confirm, Conclude, Report
<1>33. ASSUME NEW c \in Client, Reread(c) PROVE TypeOK'
  BY <1>33 DEF Reread, Conclude, Report
<1>34. ASSUME NEW c \in Client, StatusDeadline(c) PROVE TypeOK'
  BY <1>34 DEF StatusDeadline, Conclude, Report
<1>35. ASSUME NEW c \in Client, InspectAgain(c) PROVE TypeOK'
  BY <1>35 DEF InspectAgain, Report
<1>36. ASSUME NEW c \in Client, InspectAgainFree(c) PROVE TypeOK'
  BY <1>36 DEF InspectAgainFree, Report
<1>37. ASSUME NEW c \in Client, Spawn(c) PROVE TypeOK'
  BY <1>37 DEF Spawn, Report
<1>38. ASSUME NEW c \in Client, Locate(c) PROVE TypeOK'
  BY <1>38 DEF Locate, Report
<1>39. ASSUME NEW c \in Client, RequestStop(c) PROVE TypeOK'
  <2>1. CASE session[seen[c]] = "accepting"
    BY <1>39, <2>1 DEF RequestStop
  <2>2. CASE session[seen[c]] # "accepting"
    BY <1>39, <2>2 DEF RequestStop, Report
  <2>3. QED
    BY <2>1, <2>2
<1>40. ASSUME NEW c \in Client, StopDeadline(c) PROVE TypeOK'
  BY <1>40 DEF StopDeadline, Report, HangUp
<1>41. ASSUME NEW c \in Client, Interrupt(c) PROVE TypeOK'
  BY <1>41 DEF Interrupt, HangUp
<1>42. ASSUME NEW c \in Client, InspectConcludes(c) PROVE TypeOK'
  BY <1>42 DEF InspectConcludes, Conclude, Report
<1>43. CASE UNCHANGED vars
  BY <1>43
<1>44. QED
  BY <1>1, <1>2, <1>3, <1>4, <1>5, <1>6, <1>7, <1>8, <1>9, <1>10, <1>11, <1>12, <1>13,
     <1>14, <1>15, <1>16, <1>17, <1>18, <1>19, <1>20, <1>21, <1>22, <1>23, <1>24,
     <1>25, <1>26, <1>27, <1>28, <1>29, <1>30, <1>31, <1>32, <1>33, <1>34, <1>35,
     <1>36, <1>37, <1>38, <1>39, <1>40, <1>41, <1>42, <1>43
  DEF Next, ServerNext, ServerProgress, CloseEnds, ServerTrouble, ClientNext,
     ClientProgress

(* Every step keeps the flock with the one party that acts as its holder. *)
LEMMA LockStep == IndInv /\ [Next]_vars => LockInv'
<1> SUFFICES ASSUME IndInv, [Next]_vars PROVE LockInv'
  OBVIOUS
<1> USE DistinctParties DEF IndInv, TypeOK, LockInv, OneOwner, ResponderInv, Stages,
     Owning, Opening, Serving, Retiring, Aborting, Unlocked, Settled,
    Phases, Commands, Steps, Answers, vars, diskVars, serverVars, sessionVars,
    clientVars, Go, To
<1>1. ASSUME NEW s \in Server, Acquire(s) PROVE LockInv'
  BY <1>1 DEF Acquire
<1>2. ASSUME NEW s \in Server, AcquireBusy(s) PROVE LockInv'
  BY <1>2 DEF AcquireBusy
<1>3. ASSUME NEW s \in Server, Listen(s) PROVE LockInv'
  BY <1>3 DEF Listen
<1>4. ASSUME NEW s \in Server, WriteTemporary(s) PROVE LockInv'
  BY <1>4 DEF WriteTemporary
<1>5. ASSUME NEW s \in Server, PublishLocator(s) PROVE LockInv'
  BY <1>5 DEF PublishLocator
<1>6. ASSUME NEW s \in Server, OpenReturns(s) PROVE LockInv'
  BY <1>6 DEF OpenReturns
<1>7. ASSUME NEW s \in Server, OpenFails(s) PROVE LockInv'
  BY <1>7 DEF OpenFails
<1>8. ASSUME NEW s \in Server, AbortEndpoint(s) PROVE LockInv'
  BY <1>8 DEF AbortEndpoint, CloseEndpoint, Fail
<1>9. ASSUME NEW s \in Server, EraseTemporary(s) PROVE LockInv'
  BY <1>9 DEF EraseTemporary, Fail
<1>10. ASSUME NEW s \in Server, AbortLease(s) PROVE LockInv'
  BY <1>10 DEF AbortLease, Settle, CloseLease, Fail
<1>11. ASSUME NEW s \in Server, BecomeRunning(s) PROVE LockInv'
  BY <1>11 DEF BecomeRunning
<1>12. ASSUME NEW s \in Server, BeginClose(s) PROVE LockInv'
  BY <1>12 DEF BeginClose
<1>13. ASSUME NEW s \in Server, ResourcesStopped(s) PROVE LockInv'
  BY <1>13 DEF ResourcesStopped
<1>14. ASSUME NEW s \in Server, CoreStuck(s) PROVE LockInv'
  BY <1>14 DEF CoreStuck, Settle
<1>15. ASSUME NEW s \in Server, PostgresStuck(s) PROVE LockInv'
  BY <1>15 DEF PostgresStuck, Settle
<1>16. ASSUME NEW s \in Server, PostgresSettles(s) PROVE LockInv'
  BY <1>16 DEF PostgresSettles
<1>17. ASSUME NEW s \in Server, RetireEndpoint(s) PROVE LockInv'
  BY <1>17 DEF RetireEndpoint, CloseEndpoint, Fail
<1>18. ASSUME NEW s \in Server, ReadLocator(s) PROVE LockInv'
  BY <1>18 DEF ReadLocator, Fail
<1>19. ASSUME NEW s \in Server, UnlinkLocator(s) PROVE LockInv'
  BY <1>19 DEF UnlinkLocator, Fail
<1>20. ASSUME NEW s \in Server, ReleaseLease(s) PROVE LockInv'
  BY <1>20 DEF ReleaseLease, Settle, CloseLease, Fail
<1>21. ASSUME NEW s \in Server, Unlock(s) PROVE LockInv'
  BY <1>21 DEF Unlock, Fail
<1>22. ASSUME NEW s \in Server, RunStop(s) PROVE LockInv'
  BY <1>22 DEF RunStop
<1>23. ASSUME NEW s \in Server, CompleteStop(s) PROVE LockInv'
  BY <1>23 DEF CompleteStop
<1>24. ASSUME NEW s \in Server, Exit(s) PROVE LockInv'
  BY <1>24 DEF Exit, Vanish
<1>25. ASSUME NEW s \in Server, Crash(s) PROVE LockInv'
  BY <1>25 DEF Crash, Vanish
<1>26. ASSUME NEW c \in Client, Begin(c) PROVE LockInv'
  BY <1>26 DEF Begin
<1>27. ASSUME NEW c \in Client, ReadDirectory(c) PROVE LockInv'
  BY <1>27 DEF ReadDirectory
<1>28. ASSUME NEW c \in Client, Inspect(c) PROVE LockInv'
  BY <1>28 DEF Inspect, Conclude, Report
<1>29. ASSUME NEW c \in Client, InspectFree(c) PROVE LockInv'
  BY <1>29 DEF InspectFree, Conclude, Report
<1>30. ASSUME NEW c \in Client, Ask(c) PROVE LockInv'
  BY <1>30 DEF Ask, Conclude, Report
<1>31. ASSUME NEW c \in Client, ProbeLive(c) PROVE LockInv'
  BY <1>31 DEF ProbeLive, Conclude, Report
<1>32. ASSUME NEW c \in Client, Confirm(c) PROVE LockInv'
  BY <1>32 DEF Confirm, Conclude, Report
<1>33. ASSUME NEW c \in Client, Reread(c) PROVE LockInv'
  BY <1>33 DEF Reread, Conclude, Report
<1>34. ASSUME NEW c \in Client, StatusDeadline(c) PROVE LockInv'
  BY <1>34 DEF StatusDeadline, Conclude, Report
<1>35. ASSUME NEW c \in Client, InspectAgain(c) PROVE LockInv'
  BY <1>35 DEF InspectAgain, Report
<1>36. ASSUME NEW c \in Client, InspectAgainFree(c) PROVE LockInv'
  BY <1>36 DEF InspectAgainFree, Report
<1>37. ASSUME NEW c \in Client, Spawn(c) PROVE LockInv'
  BY <1>37 DEF Spawn, Report
<1>38. ASSUME NEW c \in Client, Locate(c) PROVE LockInv'
  BY <1>38 DEF Locate, Report
<1>39. ASSUME NEW c \in Client, RequestStop(c) PROVE LockInv'
  BY <1>39 DEF RequestStop, Report
<1>40. ASSUME NEW c \in Client, StopDeadline(c) PROVE LockInv'
  BY <1>40 DEF StopDeadline, Report, HangUp
<1>41. ASSUME NEW c \in Client, Interrupt(c) PROVE LockInv'
  BY <1>41 DEF Interrupt, HangUp
<1>42. ASSUME NEW c \in Client, InspectConcludes(c) PROVE LockInv'
  BY <1>42 DEF InspectConcludes, Conclude, Report
<1>43. CASE UNCHANGED vars
  BY <1>43
<1>44. QED
  BY <1>1, <1>2, <1>3, <1>4, <1>5, <1>6, <1>7, <1>8, <1>9, <1>10, <1>11, <1>12, <1>13,
     <1>14, <1>15, <1>16, <1>17, <1>18, <1>19, <1>20, <1>21, <1>22, <1>23, <1>24,
     <1>25, <1>26, <1>27, <1>28, <1>29, <1>30, <1>31, <1>32, <1>33, <1>34, <1>35,
     <1>36, <1>37, <1>38, <1>39, <1>40, <1>41, <1>42, <1>43
  DEF Next, ServerNext, ServerProgress, CloseEnds, ServerTrouble, ClientNext,
     ClientProgress

(* Every step keeps the locator in line with the stage of its server. *)
LEMMA LocatorStep == IndInv /\ [Next]_vars => LocatorInv'
<1> SUFFICES ASSUME IndInv, [Next]_vars PROVE LocatorInv'
  OBVIOUS
<1> USE DistinctParties DEF IndInv, TypeOK, LockInv, OneOwner, LocatorInv, Stages,
     Owning, Opening, Serving, Retiring, Aborting, Unlocked, Settled,
    Phases, vars, diskVars, serverVars, sessionVars, clientVars, Go, To
<1>1. ASSUME NEW s \in Server, Acquire(s) PROVE LocatorInv'
  BY <1>1 DEF Acquire
<1>2. ASSUME NEW s \in Server, AcquireBusy(s) PROVE LocatorInv'
  BY <1>2 DEF AcquireBusy
<1>3. ASSUME NEW s \in Server, Listen(s) PROVE LocatorInv'
  BY <1>3 DEF Listen
<1>4. ASSUME NEW s \in Server, WriteTemporary(s) PROVE LocatorInv'
  BY <1>4 DEF WriteTemporary
<1>5. ASSUME NEW s \in Server, PublishLocator(s) PROVE LocatorInv'
  BY <1>5 DEF PublishLocator
<1>6. ASSUME NEW s \in Server, OpenReturns(s) PROVE LocatorInv'
  BY <1>6 DEF OpenReturns
<1>7. ASSUME NEW s \in Server, OpenFails(s) PROVE LocatorInv'
  BY <1>7 DEF OpenFails
<1>8. ASSUME NEW s \in Server, AbortEndpoint(s) PROVE LocatorInv'
  BY <1>8 DEF AbortEndpoint, CloseEndpoint, Fail
<1>9. ASSUME NEW s \in Server, EraseTemporary(s) PROVE LocatorInv'
  BY <1>9 DEF EraseTemporary, Fail
<1>10. ASSUME NEW s \in Server, AbortLease(s) PROVE LocatorInv'
  BY <1>10 DEF AbortLease, Settle, CloseLease, Fail
<1>11. ASSUME NEW s \in Server, BecomeRunning(s) PROVE LocatorInv'
  BY <1>11 DEF BecomeRunning
<1>12. ASSUME NEW s \in Server, BeginClose(s) PROVE LocatorInv'
  BY <1>12 DEF BeginClose
<1>13. ASSUME NEW s \in Server, ResourcesStopped(s) PROVE LocatorInv'
  BY <1>13 DEF ResourcesStopped
<1>14. ASSUME NEW s \in Server, CoreStuck(s) PROVE LocatorInv'
  BY <1>14 DEF CoreStuck, Settle
<1>15. ASSUME NEW s \in Server, PostgresStuck(s) PROVE LocatorInv'
  BY <1>15 DEF PostgresStuck, Settle
<1>16. ASSUME NEW s \in Server, PostgresSettles(s) PROVE LocatorInv'
  BY <1>16 DEF PostgresSettles
<1>17. ASSUME NEW s \in Server, RetireEndpoint(s) PROVE LocatorInv'
  BY <1>17 DEF RetireEndpoint, CloseEndpoint, Fail
<1>18. ASSUME NEW s \in Server, ReadLocator(s) PROVE LocatorInv'
  BY <1>18 DEF ReadLocator, Fail
<1>19. ASSUME NEW s \in Server, UnlinkLocator(s) PROVE LocatorInv'
  BY <1>19 DEF UnlinkLocator, Fail
<1>20. ASSUME NEW s \in Server, ReleaseLease(s) PROVE LocatorInv'
  BY <1>20 DEF ReleaseLease, Settle, CloseLease, Fail
<1>21. ASSUME NEW s \in Server, Unlock(s) PROVE LocatorInv'
  BY <1>21 DEF Unlock, Fail
<1>22. ASSUME NEW s \in Server, RunStop(s) PROVE LocatorInv'
  BY <1>22 DEF RunStop
<1>23. ASSUME NEW s \in Server, CompleteStop(s) PROVE LocatorInv'
  BY <1>23 DEF CompleteStop
<1>24. ASSUME NEW s \in Server, Exit(s) PROVE LocatorInv'
  BY <1>24 DEF Exit, Vanish
<1>25. ASSUME NEW s \in Server, Crash(s) PROVE LocatorInv'
  BY <1>25 DEF Crash, Vanish
<1>26. ASSUME NEW c \in Client, Begin(c) PROVE LocatorInv'
  BY <1>26 DEF Begin
<1>27. ASSUME NEW c \in Client, ReadDirectory(c) PROVE LocatorInv'
  BY <1>27 DEF ReadDirectory
<1>28. ASSUME NEW c \in Client, Inspect(c) PROVE LocatorInv'
  BY <1>28 DEF Inspect, Conclude, Report
<1>29. ASSUME NEW c \in Client, InspectFree(c) PROVE LocatorInv'
  BY <1>29 DEF InspectFree, Conclude, Report
<1>30. ASSUME NEW c \in Client, Ask(c) PROVE LocatorInv'
  BY <1>30 DEF Ask, Conclude, Report
<1>31. ASSUME NEW c \in Client, ProbeLive(c) PROVE LocatorInv'
  BY <1>31 DEF ProbeLive, Conclude, Report
<1>32. ASSUME NEW c \in Client, Confirm(c) PROVE LocatorInv'
  BY <1>32 DEF Confirm, Conclude, Report
<1>33. ASSUME NEW c \in Client, Reread(c) PROVE LocatorInv'
  BY <1>33 DEF Reread, Conclude, Report
<1>34. ASSUME NEW c \in Client, StatusDeadline(c) PROVE LocatorInv'
  BY <1>34 DEF StatusDeadline, Conclude, Report
<1>35. ASSUME NEW c \in Client, InspectAgain(c) PROVE LocatorInv'
  BY <1>35 DEF InspectAgain, Report
<1>36. ASSUME NEW c \in Client, InspectAgainFree(c) PROVE LocatorInv'
  BY <1>36 DEF InspectAgainFree, Report
<1>37. ASSUME NEW c \in Client, Spawn(c) PROVE LocatorInv'
  BY <1>37 DEF Spawn, Report
<1>38. ASSUME NEW c \in Client, Locate(c) PROVE LocatorInv'
  BY <1>38 DEF Locate, Report
<1>39. ASSUME NEW c \in Client, RequestStop(c) PROVE LocatorInv'
  BY <1>39 DEF RequestStop, Report
<1>40. ASSUME NEW c \in Client, StopDeadline(c) PROVE LocatorInv'
  BY <1>40 DEF StopDeadline, Report, HangUp
<1>41. ASSUME NEW c \in Client, Interrupt(c) PROVE LocatorInv'
  BY <1>41 DEF Interrupt, HangUp
<1>42. ASSUME NEW c \in Client, InspectConcludes(c) PROVE LocatorInv'
  BY <1>42 DEF InspectConcludes, Conclude, Report
<1>43. CASE UNCHANGED vars
  BY <1>43
<1>44. QED
  BY <1>1, <1>2, <1>3, <1>4, <1>5, <1>6, <1>7, <1>8, <1>9, <1>10, <1>11, <1>12, <1>13,
     <1>14, <1>15, <1>16, <1>17, <1>18, <1>19, <1>20, <1>21, <1>22, <1>23, <1>24,
     <1>25, <1>26, <1>27, <1>28, <1>29, <1>30, <1>31, <1>32, <1>33, <1>34, <1>35,
     <1>36, <1>37, <1>38, <1>39, <1>40, <1>41, <1>42, <1>43
  DEF Next, ServerNext, ServerProgress, CloseEnds, ServerTrouble, ClientNext,
     ClientProgress

(* Every step keeps the control endpoint in line with its server. *)
LEMMA SessionStep == IndInv /\ [Next]_vars => SessionInv'
<1> SUFFICES ASSUME IndInv, [Next]_vars PROVE SessionInv'
  OBVIOUS
<1> USE DistinctParties DEF IndInv, TypeOK, SessionInv, Stages, Owning, Opening,
     Serving, Retiring, Aborting, Unlocked, Settled, Phases,
    vars, diskVars, serverVars, sessionVars, clientVars, Go, To
<1>1. ASSUME NEW s \in Server, Acquire(s) PROVE SessionInv'
  BY <1>1 DEF Acquire
<1>2. ASSUME NEW s \in Server, AcquireBusy(s) PROVE SessionInv'
  BY <1>2 DEF AcquireBusy
<1>3. ASSUME NEW s \in Server, Listen(s) PROVE SessionInv'
  BY <1>3 DEF Listen
<1>4. ASSUME NEW s \in Server, WriteTemporary(s) PROVE SessionInv'
  BY <1>4 DEF WriteTemporary
<1>5. ASSUME NEW s \in Server, PublishLocator(s) PROVE SessionInv'
  BY <1>5 DEF PublishLocator
<1>6. ASSUME NEW s \in Server, OpenReturns(s) PROVE SessionInv'
  BY <1>6 DEF OpenReturns
<1>7. ASSUME NEW s \in Server, OpenFails(s) PROVE SessionInv'
  BY <1>7 DEF OpenFails
<1>8. ASSUME NEW s \in Server, AbortEndpoint(s) PROVE SessionInv'
  BY <1>8 DEF AbortEndpoint, CloseEndpoint, Fail
<1>9. ASSUME NEW s \in Server, EraseTemporary(s) PROVE SessionInv'
  BY <1>9 DEF EraseTemporary, Fail
<1>10. ASSUME NEW s \in Server, AbortLease(s) PROVE SessionInv'
  BY <1>10 DEF AbortLease, Settle, CloseLease, Fail
<1>11. ASSUME NEW s \in Server, BecomeRunning(s) PROVE SessionInv'
  BY <1>11 DEF BecomeRunning
<1>12. ASSUME NEW s \in Server, BeginClose(s) PROVE SessionInv'
  BY <1>12 DEF BeginClose
<1>13. ASSUME NEW s \in Server, ResourcesStopped(s) PROVE SessionInv'
  BY <1>13 DEF ResourcesStopped
<1>14. ASSUME NEW s \in Server, CoreStuck(s) PROVE SessionInv'
  BY <1>14 DEF CoreStuck, Settle
<1>15. ASSUME NEW s \in Server, PostgresStuck(s) PROVE SessionInv'
  BY <1>15 DEF PostgresStuck, Settle
<1>16. ASSUME NEW s \in Server, PostgresSettles(s) PROVE SessionInv'
  BY <1>16 DEF PostgresSettles
<1>17. ASSUME NEW s \in Server, RetireEndpoint(s) PROVE SessionInv'
  BY <1>17 DEF RetireEndpoint, CloseEndpoint, Fail
<1>18. ASSUME NEW s \in Server, ReadLocator(s) PROVE SessionInv'
  BY <1>18 DEF ReadLocator, Fail
<1>19. ASSUME NEW s \in Server, UnlinkLocator(s) PROVE SessionInv'
  BY <1>19 DEF UnlinkLocator, Fail
<1>20. ASSUME NEW s \in Server, ReleaseLease(s) PROVE SessionInv'
  BY <1>20 DEF ReleaseLease, Settle, CloseLease, Fail
<1>21. ASSUME NEW s \in Server, Unlock(s) PROVE SessionInv'
  BY <1>21 DEF Unlock, Fail
<1>22. ASSUME NEW s \in Server, RunStop(s) PROVE SessionInv'
  BY <1>22 DEF RunStop
<1>23. ASSUME NEW s \in Server, CompleteStop(s) PROVE SessionInv'
  BY <1>23 DEF CompleteStop
<1>24. ASSUME NEW s \in Server, Exit(s) PROVE SessionInv'
  BY <1>24 DEF Exit, Vanish
<1>25. ASSUME NEW s \in Server, Crash(s) PROVE SessionInv'
  BY <1>25 DEF Crash, Vanish
<1>26. ASSUME NEW c \in Client, Begin(c) PROVE SessionInv'
  BY <1>26 DEF Begin
<1>27. ASSUME NEW c \in Client, ReadDirectory(c) PROVE SessionInv'
  BY <1>27 DEF ReadDirectory
<1>28. ASSUME NEW c \in Client, Inspect(c) PROVE SessionInv'
  BY <1>28 DEF Inspect, Conclude, Report
<1>29. ASSUME NEW c \in Client, InspectFree(c) PROVE SessionInv'
  BY <1>29 DEF InspectFree, Conclude, Report
<1>30. ASSUME NEW c \in Client, Ask(c) PROVE SessionInv'
  BY <1>30 DEF Ask, Conclude, Report
<1>31. ASSUME NEW c \in Client, ProbeLive(c) PROVE SessionInv'
  BY <1>31 DEF ProbeLive, Conclude, Report
<1>32. ASSUME NEW c \in Client, Confirm(c) PROVE SessionInv'
  BY <1>32 DEF Confirm, Conclude, Report
<1>33. ASSUME NEW c \in Client, Reread(c) PROVE SessionInv'
  BY <1>33 DEF Reread, Conclude, Report
<1>34. ASSUME NEW c \in Client, StatusDeadline(c) PROVE SessionInv'
  BY <1>34 DEF StatusDeadline, Conclude, Report
<1>35. ASSUME NEW c \in Client, InspectAgain(c) PROVE SessionInv'
  BY <1>35 DEF InspectAgain, Report
<1>36. ASSUME NEW c \in Client, InspectAgainFree(c) PROVE SessionInv'
  BY <1>36 DEF InspectAgainFree, Report
<1>37. ASSUME NEW c \in Client, Spawn(c) PROVE SessionInv'
  BY <1>37 DEF Spawn, Report
<1>38. ASSUME NEW c \in Client, Locate(c) PROVE SessionInv'
  BY <1>38 DEF Locate, Report
<1>39. ASSUME NEW c \in Client, RequestStop(c) PROVE SessionInv'
  BY <1>39 DEF RequestStop, Report
<1>40. ASSUME NEW c \in Client, StopDeadline(c) PROVE SessionInv'
  BY <1>40 DEF StopDeadline, Report, HangUp
<1>41. ASSUME NEW c \in Client, Interrupt(c) PROVE SessionInv'
  BY <1>41 DEF Interrupt, HangUp
<1>42. ASSUME NEW c \in Client, InspectConcludes(c) PROVE SessionInv'
  BY <1>42 DEF InspectConcludes, Conclude, Report
<1>43. CASE UNCHANGED vars
  BY <1>43
<1>44. QED
  BY <1>1, <1>2, <1>3, <1>4, <1>5, <1>6, <1>7, <1>8, <1>9, <1>10, <1>11, <1>12, <1>13,
     <1>14, <1>15, <1>16, <1>17, <1>18, <1>19, <1>20, <1>21, <1>22, <1>23, <1>24,
     <1>25, <1>26, <1>27, <1>28, <1>29, <1>30, <1>31, <1>32, <1>33, <1>34, <1>35,
     <1>36, <1>37, <1>38, <1>39, <1>40, <1>41, <1>42, <1>43
  DEF Next, ServerNext, ServerProgress, CloseEnds, ServerTrouble, ClientNext,
     ClientProgress

(* Every step accounts for the temporary files that are left. *)
LEMMA TemporaryStep == IndInv /\ [Next]_vars => TemporaryInv'
<1> SUFFICES ASSUME IndInv, [Next]_vars PROVE TemporaryInv'
  OBVIOUS
<1> USE DistinctParties DEF IndInv, TypeOK, TemporaryInv, Stages, Owning, Opening,
     Serving, Retiring, Aborting, Unlocked, Settled,
    vars, diskVars, serverVars, sessionVars, clientVars, Go, To
<1>1. ASSUME NEW s \in Server, Acquire(s) PROVE TemporaryInv'
  BY <1>1 DEF Acquire
<1>2. ASSUME NEW s \in Server, AcquireBusy(s) PROVE TemporaryInv'
  BY <1>2 DEF AcquireBusy
<1>3. ASSUME NEW s \in Server, Listen(s) PROVE TemporaryInv'
  BY <1>3 DEF Listen
<1>4. ASSUME NEW s \in Server, WriteTemporary(s) PROVE TemporaryInv'
  BY <1>4 DEF WriteTemporary
<1>5. ASSUME NEW s \in Server, PublishLocator(s) PROVE TemporaryInv'
  BY <1>5 DEF PublishLocator
<1>6. ASSUME NEW s \in Server, OpenReturns(s) PROVE TemporaryInv'
  BY <1>6 DEF OpenReturns
<1>7. ASSUME NEW s \in Server, OpenFails(s) PROVE TemporaryInv'
  BY <1>7 DEF OpenFails
<1>8. ASSUME NEW s \in Server, AbortEndpoint(s) PROVE TemporaryInv'
  BY <1>8 DEF AbortEndpoint, CloseEndpoint, Fail
<1>9. ASSUME NEW s \in Server, EraseTemporary(s) PROVE TemporaryInv'
  BY <1>9 DEF EraseTemporary, Fail
<1>10. ASSUME NEW s \in Server, AbortLease(s) PROVE TemporaryInv'
  BY <1>10 DEF AbortLease, Settle, CloseLease, Fail
<1>11. ASSUME NEW s \in Server, BecomeRunning(s) PROVE TemporaryInv'
  BY <1>11 DEF BecomeRunning
<1>12. ASSUME NEW s \in Server, BeginClose(s) PROVE TemporaryInv'
  BY <1>12 DEF BeginClose
<1>13. ASSUME NEW s \in Server, ResourcesStopped(s) PROVE TemporaryInv'
  BY <1>13 DEF ResourcesStopped
<1>14. ASSUME NEW s \in Server, CoreStuck(s) PROVE TemporaryInv'
  BY <1>14 DEF CoreStuck, Settle
<1>15. ASSUME NEW s \in Server, PostgresStuck(s) PROVE TemporaryInv'
  BY <1>15 DEF PostgresStuck, Settle
<1>16. ASSUME NEW s \in Server, PostgresSettles(s) PROVE TemporaryInv'
  BY <1>16 DEF PostgresSettles
<1>17. ASSUME NEW s \in Server, RetireEndpoint(s) PROVE TemporaryInv'
  BY <1>17 DEF RetireEndpoint, CloseEndpoint, Fail
<1>18. ASSUME NEW s \in Server, ReadLocator(s) PROVE TemporaryInv'
  BY <1>18 DEF ReadLocator, Fail
<1>19. ASSUME NEW s \in Server, UnlinkLocator(s) PROVE TemporaryInv'
  BY <1>19 DEF UnlinkLocator, Fail
<1>20. ASSUME NEW s \in Server, ReleaseLease(s) PROVE TemporaryInv'
  BY <1>20 DEF ReleaseLease, Settle, CloseLease, Fail
<1>21. ASSUME NEW s \in Server, Unlock(s) PROVE TemporaryInv'
  BY <1>21 DEF Unlock, Fail
<1>22. ASSUME NEW s \in Server, RunStop(s) PROVE TemporaryInv'
  BY <1>22 DEF RunStop
<1>23. ASSUME NEW s \in Server, CompleteStop(s) PROVE TemporaryInv'
  BY <1>23 DEF CompleteStop
<1>24. ASSUME NEW s \in Server, Exit(s) PROVE TemporaryInv'
  BY <1>24 DEF Exit, Vanish
<1>25. ASSUME NEW s \in Server, Crash(s) PROVE TemporaryInv'
  BY <1>25 DEF Crash, Vanish
<1>26. ASSUME NEW c \in Client, Begin(c) PROVE TemporaryInv'
  BY <1>26 DEF Begin
<1>27. ASSUME NEW c \in Client, ReadDirectory(c) PROVE TemporaryInv'
  BY <1>27 DEF ReadDirectory
<1>28. ASSUME NEW c \in Client, Inspect(c) PROVE TemporaryInv'
  BY <1>28 DEF Inspect, Conclude, Report
<1>29. ASSUME NEW c \in Client, InspectFree(c) PROVE TemporaryInv'
  BY <1>29 DEF InspectFree, Conclude, Report
<1>30. ASSUME NEW c \in Client, Ask(c) PROVE TemporaryInv'
  BY <1>30 DEF Ask, Conclude, Report
<1>31. ASSUME NEW c \in Client, ProbeLive(c) PROVE TemporaryInv'
  BY <1>31 DEF ProbeLive, Conclude, Report
<1>32. ASSUME NEW c \in Client, Confirm(c) PROVE TemporaryInv'
  BY <1>32 DEF Confirm, Conclude, Report
<1>33. ASSUME NEW c \in Client, Reread(c) PROVE TemporaryInv'
  BY <1>33 DEF Reread, Conclude, Report
<1>34. ASSUME NEW c \in Client, StatusDeadline(c) PROVE TemporaryInv'
  BY <1>34 DEF StatusDeadline, Conclude, Report
<1>35. ASSUME NEW c \in Client, InspectAgain(c) PROVE TemporaryInv'
  BY <1>35 DEF InspectAgain, Report
<1>36. ASSUME NEW c \in Client, InspectAgainFree(c) PROVE TemporaryInv'
  BY <1>36 DEF InspectAgainFree, Report
<1>37. ASSUME NEW c \in Client, Spawn(c) PROVE TemporaryInv'
  BY <1>37 DEF Spawn, Report
<1>38. ASSUME NEW c \in Client, Locate(c) PROVE TemporaryInv'
  BY <1>38 DEF Locate, Report
<1>39. ASSUME NEW c \in Client, RequestStop(c) PROVE TemporaryInv'
  BY <1>39 DEF RequestStop, Report
<1>40. ASSUME NEW c \in Client, StopDeadline(c) PROVE TemporaryInv'
  BY <1>40 DEF StopDeadline, Report, HangUp
<1>41. ASSUME NEW c \in Client, Interrupt(c) PROVE TemporaryInv'
  BY <1>41 DEF Interrupt, HangUp
<1>42. ASSUME NEW c \in Client, InspectConcludes(c) PROVE TemporaryInv'
  BY <1>42 DEF InspectConcludes, Conclude, Report
<1>43. CASE UNCHANGED vars
  BY <1>43
<1>44. QED
  BY <1>1, <1>2, <1>3, <1>4, <1>5, <1>6, <1>7, <1>8, <1>9, <1>10, <1>11, <1>12, <1>13,
     <1>14, <1>15, <1>16, <1>17, <1>18, <1>19, <1>20, <1>21, <1>22, <1>23, <1>24,
     <1>25, <1>26, <1>27, <1>28, <1>29, <1>30, <1>31, <1>32, <1>33, <1>34, <1>35,
     <1>36, <1>37, <1>38, <1>39, <1>40, <1>41, <1>42, <1>43
  DEF Next, ServerNext, ServerProgress, CloseEnds, ServerTrouble, ClientNext,
     ClientProgress

(* Every step keeps responders and waiting CLI runs matched. *)
LEMMA ResponderStep == IndInv /\ [Next]_vars => ResponderInv'
<1> SUFFICES ASSUME IndInv, [Next]_vars PROVE ResponderInv'
  OBVIOUS
<1> USE DistinctParties DEF IndInv, TypeOK, ResponderInv, Steps, Answers, Commands,
     Phases,
    vars, diskVars, serverVars, sessionVars, clientVars, Go, To
<1>1. ASSUME NEW s \in Server, Acquire(s) PROVE ResponderInv'
  BY <1>1 DEF Acquire
<1>2. ASSUME NEW s \in Server, AcquireBusy(s) PROVE ResponderInv'
  BY <1>2 DEF AcquireBusy
<1>3. ASSUME NEW s \in Server, Listen(s) PROVE ResponderInv'
  BY <1>3 DEF Listen
<1>4. ASSUME NEW s \in Server, WriteTemporary(s) PROVE ResponderInv'
  BY <1>4 DEF WriteTemporary
<1>5. ASSUME NEW s \in Server, PublishLocator(s) PROVE ResponderInv'
  BY <1>5 DEF PublishLocator
<1>6. ASSUME NEW s \in Server, OpenReturns(s) PROVE ResponderInv'
  BY <1>6 DEF OpenReturns
<1>7. ASSUME NEW s \in Server, OpenFails(s) PROVE ResponderInv'
  BY <1>7 DEF OpenFails
<1>8. ASSUME NEW s \in Server, AbortEndpoint(s) PROVE ResponderInv'
  BY <1>8 DEF AbortEndpoint, CloseEndpoint, Fail
<1>9. ASSUME NEW s \in Server, EraseTemporary(s) PROVE ResponderInv'
  BY <1>9 DEF EraseTemporary, Fail
<1>10. ASSUME NEW s \in Server, AbortLease(s) PROVE ResponderInv'
  BY <1>10 DEF AbortLease, Settle, CloseLease, Fail
<1>11. ASSUME NEW s \in Server, BecomeRunning(s) PROVE ResponderInv'
  BY <1>11 DEF BecomeRunning
<1>12. ASSUME NEW s \in Server, BeginClose(s) PROVE ResponderInv'
  BY <1>12 DEF BeginClose
<1>13. ASSUME NEW s \in Server, ResourcesStopped(s) PROVE ResponderInv'
  BY <1>13 DEF ResourcesStopped
<1>14. ASSUME NEW s \in Server, CoreStuck(s) PROVE ResponderInv'
  BY <1>14 DEF CoreStuck, Settle
<1>15. ASSUME NEW s \in Server, PostgresStuck(s) PROVE ResponderInv'
  BY <1>15 DEF PostgresStuck, Settle
<1>16. ASSUME NEW s \in Server, PostgresSettles(s) PROVE ResponderInv'
  BY <1>16 DEF PostgresSettles
<1>17. ASSUME NEW s \in Server, RetireEndpoint(s) PROVE ResponderInv'
  BY <1>17 DEF RetireEndpoint, CloseEndpoint, Fail
<1>18. ASSUME NEW s \in Server, ReadLocator(s) PROVE ResponderInv'
  BY <1>18 DEF ReadLocator, Fail
<1>19. ASSUME NEW s \in Server, UnlinkLocator(s) PROVE ResponderInv'
  BY <1>19 DEF UnlinkLocator, Fail
<1>20. ASSUME NEW s \in Server, ReleaseLease(s) PROVE ResponderInv'
  BY <1>20 DEF ReleaseLease, Settle, CloseLease, Fail
<1>21. ASSUME NEW s \in Server, Unlock(s) PROVE ResponderInv'
  BY <1>21 DEF Unlock, Fail
<1>22. ASSUME NEW s \in Server, RunStop(s) PROVE ResponderInv'
  BY <1>22 DEF RunStop
<1>23. ASSUME NEW s \in Server, CompleteStop(s) PROVE ResponderInv'
  BY <1>23 DEF CompleteStop
<1>24. ASSUME NEW s \in Server, Exit(s) PROVE ResponderInv'
  BY <1>24 DEF Exit, Vanish
<1>25. ASSUME NEW s \in Server, Crash(s) PROVE ResponderInv'
  BY <1>25 DEF Crash, Vanish
<1>26. ASSUME NEW c \in Client, Begin(c) PROVE ResponderInv'
  BY <1>26 DEF Begin
<1>27. ASSUME NEW c \in Client, ReadDirectory(c) PROVE ResponderInv'
  BY <1>27 DEF ReadDirectory
<1>28. ASSUME NEW c \in Client, Inspect(c) PROVE ResponderInv'
  BY <1>28 DEF Inspect, Conclude, Report
<1>29. ASSUME NEW c \in Client, InspectFree(c) PROVE ResponderInv'
  BY <1>29 DEF InspectFree, Conclude, Report
<1>30. ASSUME NEW c \in Client, Ask(c) PROVE ResponderInv'
  BY <1>30 DEF Ask, Conclude, Report
<1>31. ASSUME NEW c \in Client, ProbeLive(c) PROVE ResponderInv'
  BY <1>31 DEF ProbeLive, Conclude, Report
<1>32. ASSUME NEW c \in Client, Confirm(c) PROVE ResponderInv'
  BY <1>32 DEF Confirm, Conclude, Report
<1>33. ASSUME NEW c \in Client, Reread(c) PROVE ResponderInv'
  BY <1>33 DEF Reread, Conclude, Report
<1>34. ASSUME NEW c \in Client, StatusDeadline(c) PROVE ResponderInv'
  BY <1>34 DEF StatusDeadline, Conclude, Report
<1>35. ASSUME NEW c \in Client, InspectAgain(c) PROVE ResponderInv'
  BY <1>35 DEF InspectAgain, Report
<1>36. ASSUME NEW c \in Client, InspectAgainFree(c) PROVE ResponderInv'
  BY <1>36 DEF InspectAgainFree, Report
<1>37. ASSUME NEW c \in Client, Spawn(c) PROVE ResponderInv'
  BY <1>37 DEF Spawn, Report
<1>38. ASSUME NEW c \in Client, Locate(c) PROVE ResponderInv'
  BY <1>38 DEF Locate, Report
<1>39. ASSUME NEW c \in Client, RequestStop(c) PROVE ResponderInv'
  BY <1>39 DEF RequestStop, Report
<1>40. ASSUME NEW c \in Client, StopDeadline(c) PROVE ResponderInv'
  BY <1>40 DEF StopDeadline, Report, HangUp
<1>41. ASSUME NEW c \in Client, Interrupt(c) PROVE ResponderInv'
  BY <1>41 DEF Interrupt, HangUp
<1>42. ASSUME NEW c \in Client, InspectConcludes(c) PROVE ResponderInv'
  BY <1>42 DEF InspectConcludes, Conclude, Report
<1>43. CASE UNCHANGED vars
  BY <1>43
<1>44. QED
  BY <1>1, <1>2, <1>3, <1>4, <1>5, <1>6, <1>7, <1>8, <1>9, <1>10, <1>11, <1>12, <1>13,
     <1>14, <1>15, <1>16, <1>17, <1>18, <1>19, <1>20, <1>21, <1>22, <1>23, <1>24,
     <1>25, <1>26, <1>27, <1>28, <1>29, <1>30, <1>31, <1>32, <1>33, <1>34, <1>35,
     <1>36, <1>37, <1>38, <1>39, <1>40, <1>41, <1>42, <1>43
  DEF Next, ServerNext, ServerProgress, CloseEnds, ServerTrouble, ClientNext,
     ClientProgress

(* A stop that was reported completed stays completed. *)
LEMMA CompletedStep == IndInv /\ [Next]_vars => CompletedStopIsFinal'
<1> SUFFICES ASSUME IndInv, [Next]_vars PROVE CompletedStopIsFinal'
  OBVIOUS
<1> USE DistinctParties DEF IndInv, TypeOK, LockInv, OneOwner, LocatorInv, SessionInv,
     ResponderInv,
    CompletedStopIsFinal, Stages, Owning, Opening, Serving, Retiring, Aborting, Unlocked,
    Settled, Phases, Steps, Answers,
    vars, diskVars, serverVars, sessionVars, clientVars, Go, To
<1>1. ASSUME NEW s \in Server, Acquire(s) PROVE CompletedStopIsFinal'
  BY <1>1 DEF Acquire
<1>2. ASSUME NEW s \in Server, AcquireBusy(s) PROVE CompletedStopIsFinal'
  BY <1>2 DEF AcquireBusy
<1>3. ASSUME NEW s \in Server, Listen(s) PROVE CompletedStopIsFinal'
  BY <1>3 DEF Listen
<1>4. ASSUME NEW s \in Server, WriteTemporary(s) PROVE CompletedStopIsFinal'
  BY <1>4 DEF WriteTemporary
<1>5. ASSUME NEW s \in Server, PublishLocator(s) PROVE CompletedStopIsFinal'
  BY <1>5 DEF PublishLocator
<1>6. ASSUME NEW s \in Server, OpenReturns(s) PROVE CompletedStopIsFinal'
  BY <1>6 DEF OpenReturns
<1>7. ASSUME NEW s \in Server, OpenFails(s) PROVE CompletedStopIsFinal'
  BY <1>7 DEF OpenFails
<1>8. ASSUME NEW s \in Server, AbortEndpoint(s) PROVE CompletedStopIsFinal'
  BY <1>8 DEF AbortEndpoint, CloseEndpoint, Fail
<1>9. ASSUME NEW s \in Server, EraseTemporary(s) PROVE CompletedStopIsFinal'
  BY <1>9 DEF EraseTemporary, Fail
<1>10. ASSUME NEW s \in Server, AbortLease(s) PROVE CompletedStopIsFinal'
  BY <1>10 DEF AbortLease, Settle, CloseLease, Fail
<1>11. ASSUME NEW s \in Server, BecomeRunning(s) PROVE CompletedStopIsFinal'
  BY <1>11 DEF BecomeRunning
<1>12. ASSUME NEW s \in Server, BeginClose(s) PROVE CompletedStopIsFinal'
  BY <1>12 DEF BeginClose
<1>13. ASSUME NEW s \in Server, ResourcesStopped(s) PROVE CompletedStopIsFinal'
  BY <1>13 DEF ResourcesStopped
<1>14. ASSUME NEW s \in Server, CoreStuck(s) PROVE CompletedStopIsFinal'
  BY <1>14 DEF CoreStuck, Settle
<1>15. ASSUME NEW s \in Server, PostgresStuck(s) PROVE CompletedStopIsFinal'
  BY <1>15 DEF PostgresStuck, Settle
<1>16. ASSUME NEW s \in Server, PostgresSettles(s) PROVE CompletedStopIsFinal'
  BY <1>16 DEF PostgresSettles
<1>17. ASSUME NEW s \in Server, RetireEndpoint(s) PROVE CompletedStopIsFinal'
  BY <1>17 DEF RetireEndpoint, CloseEndpoint, Fail
<1>18. ASSUME NEW s \in Server, ReadLocator(s) PROVE CompletedStopIsFinal'
  BY <1>18 DEF ReadLocator, Fail
<1>19. ASSUME NEW s \in Server, UnlinkLocator(s) PROVE CompletedStopIsFinal'
  BY <1>19 DEF UnlinkLocator, Fail
<1>20. ASSUME NEW s \in Server, ReleaseLease(s) PROVE CompletedStopIsFinal'
  BY <1>20 DEF ReleaseLease, Settle, CloseLease, Fail
<1>21. ASSUME NEW s \in Server, Unlock(s) PROVE CompletedStopIsFinal'
  BY <1>21 DEF Unlock, Fail
<1>22. ASSUME NEW s \in Server, RunStop(s) PROVE CompletedStopIsFinal'
  BY <1>22 DEF RunStop
<1>23. ASSUME NEW s \in Server, CompleteStop(s) PROVE CompletedStopIsFinal'
  BY <1>23 DEF CompleteStop
<1>24. ASSUME NEW s \in Server, Exit(s) PROVE CompletedStopIsFinal'
  BY <1>24 DEF Exit, Vanish
<1>25. ASSUME NEW s \in Server, Crash(s) PROVE CompletedStopIsFinal'
  BY <1>25 DEF Crash, Vanish
<1>26. ASSUME NEW c \in Client, Begin(c) PROVE CompletedStopIsFinal'
  BY <1>26 DEF Begin
<1>27. ASSUME NEW c \in Client, ReadDirectory(c) PROVE CompletedStopIsFinal'
  BY <1>27 DEF ReadDirectory
<1>28. ASSUME NEW c \in Client, Inspect(c) PROVE CompletedStopIsFinal'
  BY <1>28 DEF Inspect, Conclude, Report
<1>29. ASSUME NEW c \in Client, InspectFree(c) PROVE CompletedStopIsFinal'
  BY <1>29 DEF InspectFree, Conclude, Report
<1>30. ASSUME NEW c \in Client, Ask(c) PROVE CompletedStopIsFinal'
  BY <1>30 DEF Ask, Conclude, Report
<1>31. ASSUME NEW c \in Client, ProbeLive(c) PROVE CompletedStopIsFinal'
  BY <1>31 DEF ProbeLive, Conclude, Report
<1>32. ASSUME NEW c \in Client, Confirm(c) PROVE CompletedStopIsFinal'
  BY <1>32 DEF Confirm, Conclude, Report
<1>33. ASSUME NEW c \in Client, Reread(c) PROVE CompletedStopIsFinal'
  BY <1>33 DEF Reread, Conclude, Report
<1>34. ASSUME NEW c \in Client, StatusDeadline(c) PROVE CompletedStopIsFinal'
  BY <1>34 DEF StatusDeadline, Conclude, Report
<1>35. ASSUME NEW c \in Client, InspectAgain(c) PROVE CompletedStopIsFinal'
  BY <1>35 DEF InspectAgain, Report
<1>36. ASSUME NEW c \in Client, InspectAgainFree(c) PROVE CompletedStopIsFinal'
  BY <1>36 DEF InspectAgainFree, Report
<1>37. ASSUME NEW c \in Client, Spawn(c) PROVE CompletedStopIsFinal'
  BY <1>37 DEF Spawn, Report
<1>38. ASSUME NEW c \in Client, Locate(c) PROVE CompletedStopIsFinal'
  BY <1>38 DEF Locate, Report
<1>39. ASSUME NEW c \in Client, RequestStop(c) PROVE CompletedStopIsFinal'
  BY <1>39 DEF RequestStop, Report
<1>40. ASSUME NEW c \in Client, StopDeadline(c) PROVE CompletedStopIsFinal'
  BY <1>40 DEF StopDeadline, Report, HangUp
<1>41. ASSUME NEW c \in Client, Interrupt(c) PROVE CompletedStopIsFinal'
  BY <1>41 DEF Interrupt, HangUp
<1>42. ASSUME NEW c \in Client, InspectConcludes(c) PROVE CompletedStopIsFinal'
  BY <1>42 DEF InspectConcludes, Conclude, Report
<1>43. CASE UNCHANGED vars
  BY <1>43
<1>44. QED
  BY <1>1, <1>2, <1>3, <1>4, <1>5, <1>6, <1>7, <1>8, <1>9, <1>10, <1>11, <1>12, <1>13,
     <1>14, <1>15, <1>16, <1>17, <1>18, <1>19, <1>20, <1>21, <1>22, <1>23, <1>24,
     <1>25, <1>26, <1>27, <1>28, <1>29, <1>30, <1>31, <1>32, <1>33, <1>34, <1>35,
     <1>36, <1>37, <1>38, <1>39, <1>40, <1>41, <1>42, <1>43
  DEF Next, ServerNext, ServerProgress, CloseEnds, ServerTrouble, ClientNext,
     ClientProgress

-----------------------------------------------------------------------------
(* The initial state satisfies the invariant.                              *)
LEMMA InitInd == Init => IndInv
<1> SUFFICES ASSUME Init PROVE IndInv
  OBVIOUS
<1> USE DistinctParties DEF Init, Stages, Owning, Opening, Serving, Retiring,
     Aborting, Unlocked, Settled
<1>1. TypeOK
  BY DEF TypeOK, Phases, Commands, Steps, Answers
<1>2. LockInv
  BY DEF LockInv, OneOwner
<1>3. LocatorInv /\ TemporaryInv /\ ResponderInv /\ CompletedStopIsFinal
  BY DEF LocatorInv, TemporaryInv, ResponderInv, CompletedStopIsFinal
<1>4. SessionInv
  BY DEF SessionInv
<1>5. QED
  BY <1>1, <1>2, <1>3, <1>4 DEF IndInv

(* IndInv holds in every reachable state.                                  *)
THEOREM Invariant == Spec => []IndInv
<1>1. IndInv /\ [Next]_vars => IndInv'
  <2> SUFFICES ASSUME IndInv, [Next]_vars PROVE IndInv'
    OBVIOUS
  <2>1. TypeOK' /\ LockInv' /\ LocatorInv' /\ SessionInv'
    BY TypeStep, LockStep, LocatorStep, SessionStep
  <2>2. TemporaryInv' /\ ResponderInv' /\ CompletedStopIsFinal'
    BY TemporaryStep, ResponderStep, CompletedStep
  <2>3. QED
    BY <2>1, <2>2 DEF IndInv
<1>2. QED
  BY InitInd, <1>1, PTL DEF Spec

(* Every variable stays in its type.                                       *)
THEOREM TypeCorrect == Spec => []TypeOK
<1>1. IndInv => TypeOK
  BY DEF IndInv
<1>2. QED
  BY Invariant, <1>1, PTL

(* Mutual exclusion: a server between acquire and release holds the flock,  *)
(* so no two servers open, serve or clean up one directory at a time.      *)
THEOREM MutualExclusion == Spec => []OneOwner
<1>1. IndInv => OneOwner
  BY DEF IndInv, LockInv
<1>2. QED
  BY Invariant, <1>1, PTL

(* A running server owns the directory and is the one the locator names.   *)
THEOREM RunningServerCanBeFound == Spec => []RunningIsPublished
<1>1. IndInv => RunningIsPublished
  BY DEF IndInv, LockInv, OneOwner, LocatorInv, RunningIsPublished, Owning, Serving,
         Unlocked
<1>2. QED
  BY Invariant, <1>1, PTL

(* A failed start and a clean close leave nothing of the server behind.    *)
THEOREM NothingIsLeft == Spec => []CleanEndLeavesNothing
<1>1. IndInv => CleanEndLeavesNothing
  BY DEF IndInv, LockInv, LocatorInv, SessionInv, TemporaryInv, CleanEndLeavesNothing,
         Owning, Opening, Serving, Retiring, Aborting, Unlocked, Settled
<1>2. QED
  BY Invariant, <1>1, PTL

(* A server that kept the directory because of Core can be stopped again.  *)
THEOREM StuckServerCanBeStopped == Spec => []StuckServerTakesStops
<1>1. IndInv => StuckServerTakesStops
  BY DEF IndInv, LockInv, OneOwner, LocatorInv, SessionInv, StuckServerTakesStops,
         Owning, Serving, Unlocked
<1>2. QED
  BY Invariant, <1>1, PTL

(* A stop reported as completed left the directory to others, for good.    *)
THEOREM CompletedStopsAreFinal == Spec => []CompletedStopIsFinal
<1>1. IndInv => CompletedStopIsFinal
  BY DEF IndInv
<1>2. QED
  BY Invariant, <1>1, PTL

-----------------------------------------------------------------------------
(* What a step may do to the flock and the locator, in one place.          *)
DiskEffect ==
    \/ UNCHANGED <<lock, locator>>
    \/ \E s \in Server : lock = NoOne /\ lock' = s /\ UNCHANGED locator
    \/ \E s \in Server : lock = s /\ locator' = s /\ UNCHANGED lock
    \/ \E s \in Server : lock = s /\ locator = s /\ locator' = NoOne /\ UNCHANGED lock
    \/ \E s \in Server : lock = s /\ lock' = NoOne /\ UNCHANGED locator
    \/ \E c \in Client : lock = NoOne /\ lock' = c /\ UNCHANGED locator
    \/ \E c \in Client : lock = c /\ lock' = NoOne /\ UNCHANGED locator

(* Every step has one of these effects.                                    *)
LEMMA DiskStep == IndInv /\ [Next]_vars => DiskEffect
<1> SUFFICES ASSUME IndInv, [Next]_vars PROVE DiskEffect
  OBVIOUS
<1> USE DistinctParties DEF DiskEffect, IndInv, TypeOK, LockInv, OneOwner, LocatorInv,
    Stages, Owning, Opening, Serving, Retiring, Aborting, Unlocked, Settled,
    vars, diskVars, serverVars, sessionVars, clientVars, Go, To
<1>1. ASSUME NEW s \in Server, Acquire(s) PROVE DiskEffect
  BY <1>1 DEF Acquire
<1>2. ASSUME NEW s \in Server, AcquireBusy(s) PROVE DiskEffect
  BY <1>2 DEF AcquireBusy
<1>3. ASSUME NEW s \in Server, Listen(s) PROVE DiskEffect
  BY <1>3 DEF Listen
<1>4. ASSUME NEW s \in Server, WriteTemporary(s) PROVE DiskEffect
  BY <1>4 DEF WriteTemporary
<1>5. ASSUME NEW s \in Server, PublishLocator(s) PROVE DiskEffect
  BY <1>5 DEF PublishLocator
<1>6. ASSUME NEW s \in Server, OpenReturns(s) PROVE DiskEffect
  BY <1>6 DEF OpenReturns
<1>7. ASSUME NEW s \in Server, OpenFails(s) PROVE DiskEffect
  BY <1>7 DEF OpenFails
<1>8. ASSUME NEW s \in Server, AbortEndpoint(s) PROVE DiskEffect
  BY <1>8 DEF AbortEndpoint, CloseEndpoint, Fail
<1>9. ASSUME NEW s \in Server, EraseTemporary(s) PROVE DiskEffect
  BY <1>9 DEF EraseTemporary, Fail
<1>10. ASSUME NEW s \in Server, AbortLease(s) PROVE DiskEffect
  BY <1>10 DEF AbortLease, Settle, CloseLease, Fail
<1>11. ASSUME NEW s \in Server, BecomeRunning(s) PROVE DiskEffect
  BY <1>11 DEF BecomeRunning
<1>12. ASSUME NEW s \in Server, BeginClose(s) PROVE DiskEffect
  BY <1>12 DEF BeginClose
<1>13. ASSUME NEW s \in Server, ResourcesStopped(s) PROVE DiskEffect
  BY <1>13 DEF ResourcesStopped
<1>14. ASSUME NEW s \in Server, CoreStuck(s) PROVE DiskEffect
  BY <1>14 DEF CoreStuck, Settle
<1>15. ASSUME NEW s \in Server, PostgresStuck(s) PROVE DiskEffect
  BY <1>15 DEF PostgresStuck, Settle
<1>16. ASSUME NEW s \in Server, PostgresSettles(s) PROVE DiskEffect
  BY <1>16 DEF PostgresSettles
<1>17. ASSUME NEW s \in Server, RetireEndpoint(s) PROVE DiskEffect
  BY <1>17 DEF RetireEndpoint, CloseEndpoint, Fail
<1>18. ASSUME NEW s \in Server, ReadLocator(s) PROVE DiskEffect
  BY <1>18 DEF ReadLocator, Fail
<1>19. ASSUME NEW s \in Server, UnlinkLocator(s) PROVE DiskEffect
  BY <1>19 DEF UnlinkLocator, Fail
<1>20. ASSUME NEW s \in Server, ReleaseLease(s) PROVE DiskEffect
  BY <1>20 DEF ReleaseLease, Settle, CloseLease, Fail
<1>21. ASSUME NEW s \in Server, Unlock(s) PROVE DiskEffect
  BY <1>21 DEF Unlock, Fail
<1>22. ASSUME NEW s \in Server, RunStop(s) PROVE DiskEffect
  BY <1>22 DEF RunStop
<1>23. ASSUME NEW s \in Server, CompleteStop(s) PROVE DiskEffect
  BY <1>23 DEF CompleteStop
<1>24. ASSUME NEW s \in Server, Exit(s) PROVE DiskEffect
  BY <1>24 DEF Exit, Vanish
<1>25. ASSUME NEW s \in Server, Crash(s) PROVE DiskEffect
  BY <1>25 DEF Crash, Vanish
<1>26. ASSUME NEW c \in Client, Begin(c) PROVE DiskEffect
  BY <1>26 DEF Begin
<1>27. ASSUME NEW c \in Client, ReadDirectory(c) PROVE DiskEffect
  BY <1>27 DEF ReadDirectory
<1>28. ASSUME NEW c \in Client, Inspect(c) PROVE DiskEffect
  BY <1>28 DEF Inspect, Conclude, Report
<1>29. ASSUME NEW c \in Client, InspectFree(c) PROVE DiskEffect
  BY <1>29 DEF InspectFree, Conclude, Report
<1>30. ASSUME NEW c \in Client, Ask(c) PROVE DiskEffect
  BY <1>30 DEF Ask, Conclude, Report
<1>31. ASSUME NEW c \in Client, ProbeLive(c) PROVE DiskEffect
  BY <1>31 DEF ProbeLive, Conclude, Report
<1>32. ASSUME NEW c \in Client, Confirm(c) PROVE DiskEffect
  BY <1>32 DEF Confirm, Conclude, Report
<1>33. ASSUME NEW c \in Client, Reread(c) PROVE DiskEffect
  BY <1>33 DEF Reread, Conclude, Report
<1>34. ASSUME NEW c \in Client, StatusDeadline(c) PROVE DiskEffect
  BY <1>34 DEF StatusDeadline, Conclude, Report
<1>35. ASSUME NEW c \in Client, InspectAgain(c) PROVE DiskEffect
  BY <1>35 DEF InspectAgain, Report
<1>36. ASSUME NEW c \in Client, InspectAgainFree(c) PROVE DiskEffect
  BY <1>36 DEF InspectAgainFree, Report
<1>37. ASSUME NEW c \in Client, Spawn(c) PROVE DiskEffect
  BY <1>37 DEF Spawn, Report
<1>38. ASSUME NEW c \in Client, Locate(c) PROVE DiskEffect
  BY <1>38 DEF Locate, Report
<1>39. ASSUME NEW c \in Client, RequestStop(c) PROVE DiskEffect
  BY <1>39 DEF RequestStop, Report
<1>40. ASSUME NEW c \in Client, StopDeadline(c) PROVE DiskEffect
  BY <1>40 DEF StopDeadline, Report, HangUp
<1>41. ASSUME NEW c \in Client, Interrupt(c) PROVE DiskEffect
  BY <1>41 DEF Interrupt, HangUp
<1>42. ASSUME NEW c \in Client, InspectConcludes(c) PROVE DiskEffect
  BY <1>42 DEF InspectConcludes, Conclude, Report
<1>43. CASE UNCHANGED vars
  BY <1>43
<1>44. QED
  BY <1>1, <1>2, <1>3, <1>4, <1>5, <1>6, <1>7, <1>8, <1>9, <1>10, <1>11, <1>12, <1>13,
     <1>14, <1>15, <1>16, <1>17, <1>18, <1>19, <1>20, <1>21, <1>22, <1>23, <1>24,
     <1>25, <1>26, <1>27, <1>28, <1>29, <1>30, <1>31, <1>32, <1>33, <1>34, <1>35,
     <1>36, <1>37, <1>38, <1>39, <1>40, <1>41, <1>42, <1>43
  DEF Next, ServerNext, ServerProgress, CloseEnds, ServerTrouble, ClientNext,
     ClientProgress

(* The locator is written and withdrawn by the holder of the flock only,    *)
(* and only to name or to withdraw itself.                                 *)
THEOREM LocatorChangesByOwner == Spec => LocatorOnlyByOwner
<1>1. IndInv /\ [Next]_vars =>
        (locator' # locator =>
            lock \in Server /\ (locator' = lock \/ (locator = lock /\ locator' = NoOne)))
  BY DiskStep, DistinctParties DEF DiskEffect
<1>2. QED
  BY Invariant, <1>1, PTL DEF LocatorOnlyByOwner, Spec

(* A CLI run finds the directory free only while nobody owns it.           *)
LEMMA StoppedStep ==
    ASSUME IndInv, [Next]_vars, NEW c \in Client,
           FoundFree(c)', ~FoundFree(c)
    PROVE  lock \notin Server
<1> USE DistinctParties DEF IndInv, TypeOK, LockInv, OneOwner, LocatorInv, SessionInv,
     ResponderInv, FoundFree,
    Stages, Owning, Opening, Serving, Retiring, Aborting, Unlocked, Settled,
    vars, diskVars, serverVars, sessionVars, clientVars, Go, To
<1>1. ASSUME NEW s \in Server, Acquire(s) PROVE lock \notin Server
  BY <1>1 DEF Acquire
<1>2. ASSUME NEW s \in Server, AcquireBusy(s) PROVE lock \notin Server
  BY <1>2 DEF AcquireBusy
<1>3. ASSUME NEW s \in Server, Listen(s) PROVE lock \notin Server
  BY <1>3 DEF Listen
<1>4. ASSUME NEW s \in Server, WriteTemporary(s) PROVE lock \notin Server
  BY <1>4 DEF WriteTemporary
<1>5. ASSUME NEW s \in Server, PublishLocator(s) PROVE lock \notin Server
  BY <1>5 DEF PublishLocator
<1>6. ASSUME NEW s \in Server, OpenReturns(s) PROVE lock \notin Server
  BY <1>6 DEF OpenReturns
<1>7. ASSUME NEW s \in Server, OpenFails(s) PROVE lock \notin Server
  BY <1>7 DEF OpenFails
<1>8. ASSUME NEW s \in Server, AbortEndpoint(s) PROVE lock \notin Server
  BY <1>8 DEF AbortEndpoint, CloseEndpoint, Fail
<1>9. ASSUME NEW s \in Server, EraseTemporary(s) PROVE lock \notin Server
  BY <1>9 DEF EraseTemporary, Fail
<1>10. ASSUME NEW s \in Server, AbortLease(s) PROVE lock \notin Server
  BY <1>10 DEF AbortLease, Settle, CloseLease, Fail
<1>11. ASSUME NEW s \in Server, BecomeRunning(s) PROVE lock \notin Server
  BY <1>11 DEF BecomeRunning
<1>12. ASSUME NEW s \in Server, BeginClose(s) PROVE lock \notin Server
  BY <1>12 DEF BeginClose
<1>13. ASSUME NEW s \in Server, ResourcesStopped(s) PROVE lock \notin Server
  BY <1>13 DEF ResourcesStopped
<1>14. ASSUME NEW s \in Server, CoreStuck(s) PROVE lock \notin Server
  BY <1>14 DEF CoreStuck, Settle
<1>15. ASSUME NEW s \in Server, PostgresStuck(s) PROVE lock \notin Server
  BY <1>15 DEF PostgresStuck, Settle
<1>16. ASSUME NEW s \in Server, PostgresSettles(s) PROVE lock \notin Server
  BY <1>16 DEF PostgresSettles
<1>17. ASSUME NEW s \in Server, RetireEndpoint(s) PROVE lock \notin Server
  BY <1>17 DEF RetireEndpoint, CloseEndpoint, Fail
<1>18. ASSUME NEW s \in Server, ReadLocator(s) PROVE lock \notin Server
  BY <1>18 DEF ReadLocator, Fail
<1>19. ASSUME NEW s \in Server, UnlinkLocator(s) PROVE lock \notin Server
  BY <1>19 DEF UnlinkLocator, Fail
<1>20. ASSUME NEW s \in Server, ReleaseLease(s) PROVE lock \notin Server
  BY <1>20 DEF ReleaseLease, Settle, CloseLease, Fail
<1>21. ASSUME NEW s \in Server, Unlock(s) PROVE lock \notin Server
  BY <1>21 DEF Unlock, Fail
<1>22. ASSUME NEW s \in Server, RunStop(s) PROVE lock \notin Server
  BY <1>22 DEF RunStop
<1>23. ASSUME NEW s \in Server, CompleteStop(s) PROVE lock \notin Server
  BY <1>23 DEF CompleteStop
<1>24. ASSUME NEW s \in Server, Exit(s) PROVE lock \notin Server
  BY <1>24 DEF Exit, Vanish
<1>25. ASSUME NEW s \in Server, Crash(s) PROVE lock \notin Server
  BY <1>25 DEF Crash, Vanish
<1>26. ASSUME NEW d \in Client, Begin(d) PROVE lock \notin Server
  BY <1>26 DEF Begin
<1>27. ASSUME NEW d \in Client, ReadDirectory(d) PROVE lock \notin Server
  BY <1>27 DEF ReadDirectory
<1>28. ASSUME NEW d \in Client, Inspect(d) PROVE lock \notin Server
  BY <1>28 DEF Inspect, Conclude, Report
<1>29. ASSUME NEW d \in Client, InspectFree(d) PROVE lock \notin Server
  BY <1>29 DEF InspectFree, Conclude, Report
<1>30. ASSUME NEW d \in Client, Ask(d) PROVE lock \notin Server
  BY <1>30 DEF Ask, Conclude, Report
<1>31. ASSUME NEW d \in Client, ProbeLive(d) PROVE lock \notin Server
  BY <1>31 DEF ProbeLive, Conclude, Report
<1>32. ASSUME NEW d \in Client, Confirm(d) PROVE lock \notin Server
  BY <1>32 DEF Confirm, Conclude, Report
<1>33. ASSUME NEW d \in Client, Reread(d) PROVE lock \notin Server
  BY <1>33 DEF Reread, Conclude, Report
<1>34. ASSUME NEW d \in Client, StatusDeadline(d) PROVE lock \notin Server
  BY <1>34 DEF StatusDeadline, Conclude, Report
<1>35. ASSUME NEW d \in Client, InspectAgain(d) PROVE lock \notin Server
  BY <1>35 DEF InspectAgain, Report
<1>36. ASSUME NEW d \in Client, InspectAgainFree(d) PROVE lock \notin Server
  BY <1>36 DEF InspectAgainFree, Report
<1>37. ASSUME NEW d \in Client, Spawn(d) PROVE lock \notin Server
  BY <1>37 DEF Spawn, Report
<1>38. ASSUME NEW d \in Client, Locate(d) PROVE lock \notin Server
  BY <1>38 DEF Locate, Report
<1>39. ASSUME NEW d \in Client, RequestStop(d) PROVE lock \notin Server
  BY <1>39 DEF RequestStop, Report
<1>40. ASSUME NEW d \in Client, StopDeadline(d) PROVE lock \notin Server
  BY <1>40 DEF StopDeadline, Report, HangUp
<1>41. ASSUME NEW d \in Client, Interrupt(d) PROVE lock \notin Server
  BY <1>41 DEF Interrupt, HangUp
<1>42. ASSUME NEW d \in Client, InspectConcludes(d) PROVE lock \notin Server
  BY <1>42 DEF InspectConcludes, Conclude, Report
<1>43. CASE UNCHANGED vars
  BY <1>43
<1>44. QED
  BY <1>1, <1>2, <1>3, <1>4, <1>5, <1>6, <1>7, <1>8, <1>9, <1>10, <1>11, <1>12, <1>13,
     <1>14, <1>15, <1>16, <1>17, <1>18, <1>19, <1>20, <1>21, <1>22, <1>23, <1>24,
     <1>25, <1>26, <1>27, <1>28, <1>29, <1>30, <1>31, <1>32, <1>33, <1>34, <1>35,
     <1>36, <1>37, <1>38, <1>39, <1>40, <1>41, <1>42, <1>43
  DEF Next, ServerNext, ServerProgress, CloseEnds, ServerTrouble, ClientNext,
     ClientProgress

(* Whoever reports stopped, or starts a server because none is there, has   *)
(* seen the directory without an owner.                                    *)
THEOREM StoppedReportsAreTrue == Spec => StoppedWasFree
<1>1. IndInv /\ [Next]_vars =>
        \A c \in Client : (FoundFree(c)' /\ ~FoundFree(c)) => lock \notin Server
  <2> SUFFICES ASSUME IndInv, [Next]_vars, NEW c \in Client, FoundFree(c)', ~FoundFree(c)
               PROVE  lock \notin Server
    OBVIOUS
  <2> QED
    BY StoppedStep
<1>2. QED
  BY Invariant, <1>1, PTL DEF StoppedWasFree, Spec

(* The directory implements Ownership, with probing CLIs as nobody.        *)
THEOREM DirectoryImplementsOwnership == Spec => ImplementsOwnership
<1>1. Init => Directory!OwnershipInit
  BY DistinctParties DEF Init, Directory!OwnershipInit
<1>2. IndInv /\ [Next]_vars => [Directory!OwnershipNext]_Directory!ownershipVars
  BY DiskStep, DistinctParties
  DEF DiskEffect, Directory!OwnershipNext, Directory!ownershipVars, Directory!Take,
      Directory!Publish, Directory!Withdraw, Directory!Leave
<1>3. QED
  BY Invariant, <1>1, <1>2, PTL DEF Spec, ImplementsOwnership, Directory!OwnershipSpec
=============================================================================
