--------------------------- MODULE CoreHostProofs ---------------------------
(* Theorems about CoreHost, for any limit of stages on either side.         *)
EXTENDS CoreHost, SequenceTheorems, TLAPS

(* m is under way on channel s.                                            *)
Within(s, m) == \E i \in DOMAIN s : s[i] = m

Gone == {"stopping", "settled", "failed"}

(* The host: start goes with the phases, close and the terminations end     *)
(* them for good.                                                          *)
PhaseInv ==
    /\ phase = "idle" => spawn = "none"
    /\ spawn = "none" => phase \in Gone \cup {"idle"}
    /\ start = "spawn" => phase \in Gone \cup {"spawning"}
    /\ start = "booted" => phase \in Gone \cup {"booting"}
    /\ start = "listening" => phase \in Gone \cup {"starting", "draining"}
    /\ start = "drain" => phase \in Gone \cup {"draining"}
    /\ start \in {"booted", "listening", "drain", "ready"} => spawn = "done"
    /\ "listening" \in messages => phase \in Gone \cup {"draining", "listening"}
    /\ phase = "settled" => completion
    /\ close # "none" => phase \in Gone
    /\ \A w \in Terminator : term[w] \notin {"none", "armed"} => phase \in Gone

(* The child process: when there is one, and when it is known to be gone.   *)
ProcessInv ==
    /\ spawn \in {"none", "rejected"} => child = "none"
    /\ spawn = "pending" /\ hostUp => child = "none"
    /\ spawn = "done" => child # "none"
    /\ completion => spawn = "done" /\ child = "exited"
    /\ child = "none" => entry = "waiting"
    /\ connected => hostUp /\ child = "alive" /\ entry # "finished"
    /\ hostUp /\ child = "alive" /\ ~connected => entry = "finished"
    /\ \A w \in Terminator : term[w] = "done" => completion \/ spawn \in {"none", "rejected"}

(* The runner in the child: it does not exist before the entry runs, and    *)
(* finishes after the startup it has begun, with the outcome in its code.   *)
RunnerInv ==
    /\ entry \in {"waiting", "loading", "booting"} =>
          operation = "none" /\ finish = "none" /\ runtime = "none"
    /\ entry = "finished" =>
          finish = "finished" \/ (operation = "none" /\ finish = "none" /\ runtime = "none")
    /\ entry = "finished" /\ exitCode = 0 => operation # "failed" /\ runtime # "broken"
    /\ finish \in {"closing", "finished"} =>
          operation \notin {"create", "prepare", "report"} /\ runtime # "open"
    /\ operation = "none" => reported = 0
    /\ operation \in {"prepare", "report"} => runtime = "open"
    /\ operation = "done" /\ finish \in {"none", "waiting"} => runtime = "open"

(* What the host tells the child: a start once, and a shutdown only when    *)
(* the resource is stopping.                                               *)
OrderInv ==
    /\ Within(toChild, "shutdown") \/ "shutdown" \in pending => phase \in Gone
    /\ phase \in {"idle", "spawning"} => toChild = <<>>
    /\ phase \in {"idle", "spawning", "booting"} =>
          /\ ~Within(toChild, "start") /\ "start" \notin pending
          /\ operation = "none" /\ received = 0
    /\ \A i, j \in DOMAIN toChild : toChild[i] = "start" /\ toChild[j] = "start" => i = j
    /\ "start" \in pending => ~Within(toChild, "start")
    /\ operation # "none" => ~Within(toChild, "start") /\ "start" \notin pending
    /\ finish # "none" =>
          phase \in Gone \/ ~hostUp \/ child # "alive" \/ operation = "failed"

(* What the child tells the host: every stage before that it listens.       *)
StreamInv ==
    /\ toHost # <<>> \/ messages # {} \/ phase \in {"starting", "draining", "listening"} =>
          entry \notin {"waiting", "loading"}
    /\ phase \in {"idle", "spawning"} =>
          toHost = <<>> /\ messages = {} /\ entry \in {"waiting", "finished"}
    /\ phase = "booting" /\ connected =>
          toHost = <<>> \/ (toHost = <<"booted">> /\ messages = {})
    /\ phase = "starting" /\ connected /\ operation # "done" =>
          received + Len(toHost) = reported
    /\ Within(toHost, "listening") => operation = "done"
    /\ phase = "starting" =>
          \A i \in DOMAIN toHost : toHost[i] = "listening" => received + i = reported + 1
    /\ phase \in {"draining", "listening"} => operation = "done" /\ received = reported
    /\ phase = "listening" => persisted = received

(* The inductive invariant.                                                *)
IndInv == TypeOK /\ PhaseInv /\ ProcessInv /\ RunnerInv /\ OrderInv /\ StreamInv

(* Every step keeps the variables within their types.                      *)
LEMMA TypeStep == IndInv /\ [Next]_vars => TypeOK'
<1> SUFFICES ASSUME TypeOK, [Next]_vars
             PROVE  TypeOK'
    BY DEF IndInv
<1> USE StageLimitAssumption, RuntimeStagesAssumption
    DEF TypeOK, Phases, Waiting, Terminator, Active,
        vars, hostVars, startVars, stageVars, callVars, channelVars, childVars, runnerVars
<1>1. CASE Start
    BY <1>1 DEF Start
<1>2. CASE SpawnSeen
    BY <1>2 DEF SpawnSeen, WaitEnds, Available, SendToChild
<1>3. CASE BootedSeen
    BY <1>3 DEF BootedSeen, WaitEnds, Available, SendToChild
<1>4. CASE ListeningSeen
    BY <1>4 DEF ListeningSeen, WaitEnds, Available
<1>5. CASE StartReady
    BY <1>5 DEF StartReady, WaitEnds, Available
<1>6. CASE StartFails
    BY <1>6 DEF StartFails, WaitEnds, TermBegins, RetainLateCleanup
<1>7. CASE CleanupEnds
    BY <1>7 DEF CleanupEnds
<1>8. CASE ReceiveNothing
    BY <1>8 DEF ReceiveNothing, Receives, Ignoring
<1>9. CASE ReceiveBooted
    BY <1>9 DEF ReceiveBooted, Receives, Ignoring, Allowed
<1>10. CASE ReceiveStage
    BY <1>10 DEF ReceiveStage, Receives, Ignoring, Allowed
<1>11. CASE ReceiveListening
    BY <1>11 DEF ReceiveListening, Receives, Ignoring, Allowed
<1>12. CASE ReceiveFailure
    BY <1>12 DEF ReceiveFailure, Receives, Ignoring, Latch
<1>13. CASE Persist
    BY <1>13 DEF Persist
<1>14. CASE PersistFails
    BY <1>14 DEF PersistFails, Latch
<1>15. CASE Register
    BY <1>15 DEF Register
<1>16. CASE SpawnRejected
    BY <1>16 DEF SpawnRejected
<1>17. CASE ExitSeen
    BY <1>17 DEF ExitSeen
<1>18. CASE CloseCall
    BY <1>18 DEF CloseCall, TermBegins
<1>19. CASE CloseSettles
    BY <1>19 DEF CloseSettles
<1>20. ASSUME NEW v \in Terminator, TermSpawnSeen(v) PROVE TypeOK'
    BY <1>20 DEF TermSpawnSeen, TermStep
<1>21. ASSUME NEW v \in Terminator, TermSpawnLate(v) PROVE TypeOK'
    BY <1>21 DEF TermSpawnLate, TermStep, RetainLateCleanup
<1>22. ASSUME NEW v \in Terminator, TermSend(v) PROVE TypeOK'
    BY <1>22 DEF TermSend, TermStep, SendToChild
<1>23. ASSUME NEW v \in Terminator, TermGone(v) PROVE TypeOK'
    BY <1>23 DEF TermGone, TermStep
<1>24. ASSUME NEW v \in Terminator, TermStop(v) PROVE TypeOK'
    BY <1>24 DEF TermStop, TermStep
<1>25. ASSUME NEW v \in Terminator, TermStopFails(v) PROVE TypeOK'
    BY <1>25 DEF TermStopFails, TermStep
<1>26. CASE Abort
  <2>1. aborted' \in BOOLEAN /\ failure' \in BOOLEAN
      BY <1>26, Zenon DEF Abort, Latch
  <2>2. QED
      BY <1>26, <2>1 DEF Abort, Latch
<1>27. CASE HostDies
  <2>1. hostUp' \in BOOLEAN /\ connected' \in BOOLEAN
      BY <1>27, Zenon DEF HostDies
  <2>2. QED
      BY <1>27, <2>1 DEF HostDies
<1>28. CASE TakeHello
    BY <1>28 DEF TakeHello, Takes
<1>29. CASE TakeEarly
  <2>1. PICK m \in {"start", "shutdown"} : Takes(m) /\ pending' = pending \cup {m}
      BY <1>29 DEF TakeEarly
  <2>2. toChild' \in Seq({"hello", "start", "shutdown"})
      BY <2>1, HeadTailProperties DEF Takes
  <2>3. pending' \subseteq {"start", "shutdown"}
      BY <2>1
  <2>4. QED
      BY <1>29, <2>1, <2>2, <2>3 DEF TakeEarly, Takes
<1>30. CASE TakeStart
    BY <1>30 DEF TakeStart, Takes
<1>31. CASE TakeShutdown
    BY <1>31 DEF TakeShutdown, Takes, Terminate
<1>32. CASE Loaded
  <2>1. connected' \in BOOLEAN
      BY <1>32, Zenon DEF Loaded, SendToHost, Finished
  <2>2. toHost' \in Seq({"booted", "stage", "listening", "failed"})
    <3>1. \A m \in {"booted", "listening", "failed"} :
             Append(toHost, m) \in Seq({"booted", "stage", "listening", "failed"})
        BY AppendProperties
    <3>2. QED
        BY <1>32, <3>1 DEF Loaded, SendToHost, Finished
  <2>3. QED
      BY <1>32, <2>1, <2>2 DEF Loaded, SendToHost, Finished
<1>33. CASE Booted
  <2>1. CASE /\ entry' = "running"
             /\ pending' = {}
             /\ operation' = IF "start" \in pending THEN "create" ELSE operation
             /\ finish' = IF "shutdown" \in pending THEN "waiting" ELSE finish
             /\ UNCHANGED <<connected, exitCode>>
      BY <1>33, <2>1 DEF Booted
  <2>2. CASE Finished({0, 1}) /\ UNCHANGED <<pending, operation, finish>>
    <3>1. connected' \in BOOLEAN
        BY <2>2, Zenon DEF Finished
    <3>2. QED
        BY <1>33, <2>2, <3>1 DEF Booted, Finished
  <2>3. QED
      BY <1>33, <2>1, <2>2 DEF Booted
<1>34. CASE Disconnected
  <2>1. connected' \in BOOLEAN
      BY <1>34, Zenon DEF Disconnected, Terminate, Finished
  <2>2. QED
      BY <1>34, <2>1 DEF Disconnected, Terminate, Finished
<1>35. CASE CreateRuntime
    BY <1>35 DEF CreateRuntime, RunnerStep, Stopping, Closing
<1>36. CASE ReportStage
    BY <1>36 DEF ReportStage, RunnerStep, SendToHost
<1>37. CASE RuntimeStarted
    BY <1>37 DEF RuntimeStarted, RunnerStep, Stopping, Closing
<1>38. CASE ReportListening
  <2>1. connected' \in BOOLEAN
      BY <1>38, Zenon DEF ReportListening, RunnerStep, Stopping, Closing, SendToHost
  <2>2. toHost' \in Seq({"booted", "stage", "listening", "failed"})
    <3>1. \A m \in {"booted", "listening", "failed"} :
             Append(toHost, m) \in Seq({"booted", "stage", "listening", "failed"})
        BY AppendProperties
    <3>2. QED
        BY <1>38, <3>1 DEF ReportListening, RunnerStep, Stopping, Closing, SendToHost
  <2>3. QED
      BY <1>38, <2>1, <2>2 DEF ReportListening, RunnerStep, Stopping, Closing, SendToHost
<1>39. CASE StartupFailed
    BY <1>39 DEF StartupFailed, RunnerStep, Stopping, Terminate
<1>40. CASE CloseRuntime
    BY <1>40 DEF CloseRuntime, RunnerStep
<1>41. CASE FinishRunner
  <2>1. connected' \in BOOLEAN
      BY <1>41, Zenon DEF FinishRunner, RunnerStep, SendToHost, Finished
  <2>2. toHost' \in Seq({"booted", "stage", "listening", "failed"})
    <3>1. \A m \in {"booted", "listening", "failed"} :
             Append(toHost, m) \in Seq({"booted", "stage", "listening", "failed"})
        BY AppendProperties
    <3>2. QED
        BY <1>41, <3>1 DEF FinishRunner, RunnerStep, SendToHost, Finished
  <2>3. QED
      BY <1>41, <2>1, <2>2 DEF FinishRunner, RunnerStep, SendToHost, Finished
<1>42. CASE ChildExits
  <2>1. connected' \in BOOLEAN
      BY <1>42, Zenon DEF ChildExits, ChildGone
  <2>2. QED
      BY <1>42, <2>1 DEF ChildExits, ChildGone
<1>43. CASE ChildKilled
  <2>1. connected' \in BOOLEAN
      BY <1>43, Zenon DEF ChildKilled, ChildGone
  <2>2. QED
      BY <1>43, <2>1 DEF ChildKilled, ChildGone
<1>44. CASE ChildCrashes
  <2>1. connected' \in BOOLEAN
      BY <1>44, Zenon DEF ChildCrashes, ChildGone
  <2>2. QED
      BY <1>44, <2>1 DEF ChildCrashes, ChildGone
<1>45. CASE UNCHANGED vars
    BY <1>45
<1>46. QED
    BY <1>1, <1>2, <1>3, <1>4, <1>5, <1>6, <1>7, <1>8, <1>9, <1>10, <1>11, <1>12, <1>13, <1>14,
       <1>15, <1>16, <1>17, <1>18, <1>19, <1>20, <1>21, <1>22, <1>23, <1>24, <1>25, <1>26,
       <1>27, <1>28, <1>29, <1>30, <1>31, <1>32, <1>33, <1>34, <1>35, <1>36, <1>37, <1>38,
       <1>39, <1>40, <1>41, <1>42, <1>43, <1>44, <1>45
    DEF Next, StartStep, ReceiveStep, SpawnStep, TerminateStep, EntryStep, RunnerNext

(* Every step keeps start, the phase and the terminations in line.         *)
LEMMA PhaseStep == IndInv /\ [Next]_vars => PhaseInv'
<1> SUFFICES ASSUME TypeOK, PhaseInv, ProcessInv, [Next]_vars
             PROVE  PhaseInv'
    BY DEF IndInv
<1> USE StageLimitAssumption, RuntimeStagesAssumption
    DEF PhaseInv, ProcessInv, Gone, TypeOK, Phases, Waiting, Terminator, Active,
        vars, hostVars, startVars, stageVars, callVars, channelVars, childVars, runnerVars
<1>1. CASE Start
    BY <1>1 DEF Start
<1>2. CASE SpawnSeen
    BY <1>2 DEF SpawnSeen, WaitEnds, Available, SendToChild
<1>3. CASE BootedSeen
    BY <1>3 DEF BootedSeen, WaitEnds, Available, SendToChild
<1>4. CASE ListeningSeen
    BY <1>4 DEF ListeningSeen, WaitEnds, Available
<1>5. CASE StartReady
    BY <1>5 DEF StartReady, WaitEnds, Available
<1>6. CASE StartFails
    BY <1>6 DEF StartFails, WaitEnds, TermBegins, RetainLateCleanup
<1>7. CASE CleanupEnds
    BY <1>7 DEF CleanupEnds
<1>8. CASE ReceiveNothing
    BY <1>8 DEF ReceiveNothing, Receives, Ignoring
<1>9. CASE ReceiveBooted
    BY <1>9 DEF ReceiveBooted, Receives, Ignoring, Allowed
<1>10. CASE ReceiveStage
    BY <1>10 DEF ReceiveStage, Receives, Ignoring, Allowed
<1>11. CASE ReceiveListening
    BY <1>11 DEF ReceiveListening, Receives, Ignoring, Allowed
<1>12. CASE ReceiveFailure
    BY <1>12 DEF ReceiveFailure, Receives, Ignoring, Latch
<1>13. CASE Persist
    BY <1>13 DEF Persist
<1>14. CASE PersistFails
    BY <1>14 DEF PersistFails, Latch
<1>15. CASE Register
    BY <1>15 DEF Register
<1>16. CASE SpawnRejected
    BY <1>16 DEF SpawnRejected
<1>17. CASE ExitSeen
    BY <1>17 DEF ExitSeen
<1>18. CASE CloseCall
    BY <1>18 DEF CloseCall, TermBegins
<1>19. CASE CloseSettles
    BY <1>19 DEF CloseSettles
<1>20. ASSUME NEW v \in Terminator, TermSpawnSeen(v) PROVE PhaseInv'
    BY <1>20 DEF TermSpawnSeen, TermStep
<1>21. ASSUME NEW v \in Terminator, TermSpawnLate(v) PROVE PhaseInv'
    BY <1>21 DEF TermSpawnLate, TermStep, RetainLateCleanup
<1>22. ASSUME NEW v \in Terminator, TermSend(v) PROVE PhaseInv'
    BY <1>22 DEF TermSend, TermStep, SendToChild
<1>23. ASSUME NEW v \in Terminator, TermGone(v) PROVE PhaseInv'
    BY <1>23 DEF TermGone, TermStep
<1>24. ASSUME NEW v \in Terminator, TermStop(v) PROVE PhaseInv'
    BY <1>24 DEF TermStop, TermStep
<1>25. ASSUME NEW v \in Terminator, TermStopFails(v) PROVE PhaseInv'
    BY <1>25 DEF TermStopFails, TermStep
<1>26. CASE Abort
    BY <1>26 DEF Abort, Latch
<1>27. CASE HostDies
    BY <1>27 DEF HostDies
<1>28. CASE TakeHello
    BY <1>28 DEF TakeHello, Takes
<1>29. CASE TakeEarly
    BY <1>29 DEF TakeEarly, Takes
<1>30. CASE TakeStart
    BY <1>30 DEF TakeStart, Takes
<1>31. CASE TakeShutdown
    BY <1>31 DEF TakeShutdown, Takes, Terminate
<1>32. CASE Loaded
    BY <1>32 DEF Loaded, SendToHost, Finished
<1>33. CASE Booted
    BY <1>33 DEF Booted, Finished
<1>34. CASE Disconnected
    BY <1>34 DEF Disconnected, Terminate, Finished
<1>35. CASE CreateRuntime
    BY <1>35 DEF CreateRuntime, RunnerStep, Stopping, Closing
<1>36. CASE ReportStage
    BY <1>36 DEF ReportStage, RunnerStep, SendToHost
<1>37. CASE RuntimeStarted
    BY <1>37 DEF RuntimeStarted, RunnerStep, Stopping, Closing
<1>38. CASE ReportListening
    BY <1>38 DEF ReportListening, RunnerStep, Stopping, Closing, SendToHost
<1>39. CASE StartupFailed
    BY <1>39 DEF StartupFailed, RunnerStep, Stopping, Terminate
<1>40. CASE CloseRuntime
    BY <1>40 DEF CloseRuntime, RunnerStep
<1>41. CASE FinishRunner
    BY <1>41 DEF FinishRunner, RunnerStep, SendToHost, Finished
<1>42. CASE ChildExits
    BY <1>42 DEF ChildExits, ChildGone
<1>43. CASE ChildKilled
    BY <1>43 DEF ChildKilled, ChildGone
<1>44. CASE ChildCrashes
    BY <1>44 DEF ChildCrashes, ChildGone
<1>45. CASE UNCHANGED vars
    BY <1>45
<1>46. QED
    BY <1>1, <1>2, <1>3, <1>4, <1>5, <1>6, <1>7, <1>8, <1>9, <1>10, <1>11, <1>12, <1>13, <1>14,
       <1>15, <1>16, <1>17, <1>18, <1>19, <1>20, <1>21, <1>22, <1>23, <1>24, <1>25, <1>26,
       <1>27, <1>28, <1>29, <1>30, <1>31, <1>32, <1>33, <1>34, <1>35, <1>36, <1>37, <1>38,
       <1>39, <1>40, <1>41, <1>42, <1>43, <1>44, <1>45
    DEF Next, StartStep, ReceiveStep, SpawnStep, TerminateStep, EntryStep, RunnerNext

(* Every step keeps what is known of the child process.                    *)
LEMMA ProcessStep == IndInv /\ [Next]_vars => ProcessInv'
<1> SUFFICES ASSUME TypeOK, PhaseInv, ProcessInv, [Next]_vars
             PROVE  ProcessInv'
    BY DEF IndInv
<1> USE StageLimitAssumption, RuntimeStagesAssumption
    DEF PhaseInv, ProcessInv, Gone, TypeOK, Phases, Waiting, Terminator, Active,
        vars, hostVars, startVars, stageVars, callVars, channelVars, childVars, runnerVars
<1>1. CASE Start
    BY <1>1 DEF Start
<1>2. CASE SpawnSeen
    BY <1>2 DEF SpawnSeen, WaitEnds, Available, SendToChild
<1>3. CASE BootedSeen
    BY <1>3 DEF BootedSeen, WaitEnds, Available, SendToChild
<1>4. CASE ListeningSeen
    BY <1>4 DEF ListeningSeen, WaitEnds, Available
<1>5. CASE StartReady
    BY <1>5 DEF StartReady, WaitEnds, Available
<1>6. CASE StartFails
    BY <1>6 DEF StartFails, WaitEnds, TermBegins, RetainLateCleanup
<1>7. CASE CleanupEnds
    BY <1>7 DEF CleanupEnds
<1>8. CASE ReceiveNothing
    BY <1>8 DEF ReceiveNothing, Receives, Ignoring
<1>9. CASE ReceiveBooted
    BY <1>9 DEF ReceiveBooted, Receives, Ignoring, Allowed
<1>10. CASE ReceiveStage
    BY <1>10 DEF ReceiveStage, Receives, Ignoring, Allowed
<1>11. CASE ReceiveListening
    BY <1>11 DEF ReceiveListening, Receives, Ignoring, Allowed
<1>12. CASE ReceiveFailure
    BY <1>12 DEF ReceiveFailure, Receives, Ignoring, Latch
<1>13. CASE Persist
    BY <1>13 DEF Persist
<1>14. CASE PersistFails
    BY <1>14 DEF PersistFails, Latch
<1>15. CASE Register
    BY <1>15 DEF Register
<1>16. CASE SpawnRejected
    BY <1>16 DEF SpawnRejected
<1>17. CASE ExitSeen
    BY <1>17 DEF ExitSeen
<1>18. CASE CloseCall
    BY <1>18 DEF CloseCall, TermBegins
<1>19. CASE CloseSettles
    BY <1>19 DEF CloseSettles
<1>20. ASSUME NEW v \in Terminator, TermSpawnSeen(v) PROVE ProcessInv'
    BY <1>20 DEF TermSpawnSeen, TermStep
<1>21. ASSUME NEW v \in Terminator, TermSpawnLate(v) PROVE ProcessInv'
    BY <1>21 DEF TermSpawnLate, TermStep, RetainLateCleanup
<1>22. ASSUME NEW v \in Terminator, TermSend(v) PROVE ProcessInv'
    BY <1>22 DEF TermSend, TermStep, SendToChild
<1>23. ASSUME NEW v \in Terminator, TermGone(v) PROVE ProcessInv'
    BY <1>23 DEF TermGone, TermStep
<1>24. ASSUME NEW v \in Terminator, TermStop(v) PROVE ProcessInv'
    BY <1>24 DEF TermStop, TermStep
<1>25. ASSUME NEW v \in Terminator, TermStopFails(v) PROVE ProcessInv'
    BY <1>25 DEF TermStopFails, TermStep
<1>26. CASE Abort
    BY <1>26 DEF Abort, Latch
<1>27. CASE HostDies
    BY <1>27 DEF HostDies
<1>28. CASE TakeHello
    BY <1>28 DEF TakeHello, Takes
<1>29. CASE TakeEarly
    BY <1>29 DEF TakeEarly, Takes
<1>30. CASE TakeStart
    BY <1>30 DEF TakeStart, Takes
<1>31. CASE TakeShutdown
    BY <1>31 DEF TakeShutdown, Takes, Terminate
<1>32. CASE Loaded
    BY <1>32 DEF Loaded, SendToHost, Finished
<1>33. CASE Booted
    BY <1>33 DEF Booted, Finished
<1>34. CASE Disconnected
    BY <1>34 DEF Disconnected, Terminate, Finished
<1>35. CASE CreateRuntime
    BY <1>35 DEF CreateRuntime, RunnerStep, Stopping, Closing
<1>36. CASE ReportStage
    BY <1>36 DEF ReportStage, RunnerStep, SendToHost
<1>37. CASE RuntimeStarted
    BY <1>37 DEF RuntimeStarted, RunnerStep, Stopping, Closing
<1>38. CASE ReportListening
    BY <1>38 DEF ReportListening, RunnerStep, Stopping, Closing, SendToHost
<1>39. CASE StartupFailed
    BY <1>39 DEF StartupFailed, RunnerStep, Stopping, Terminate
<1>40. CASE CloseRuntime
    BY <1>40 DEF CloseRuntime, RunnerStep
<1>41. CASE FinishRunner
    BY <1>41 DEF FinishRunner, RunnerStep, SendToHost, Finished
<1>42. CASE ChildExits
    BY <1>42 DEF ChildExits, ChildGone
<1>43. CASE ChildKilled
    BY <1>43 DEF ChildKilled, ChildGone
<1>44. CASE ChildCrashes
    BY <1>44 DEF ChildCrashes, ChildGone
<1>45. CASE UNCHANGED vars
    BY <1>45
<1>46. QED
    BY <1>1, <1>2, <1>3, <1>4, <1>5, <1>6, <1>7, <1>8, <1>9, <1>10, <1>11, <1>12, <1>13, <1>14,
       <1>15, <1>16, <1>17, <1>18, <1>19, <1>20, <1>21, <1>22, <1>23, <1>24, <1>25, <1>26,
       <1>27, <1>28, <1>29, <1>30, <1>31, <1>32, <1>33, <1>34, <1>35, <1>36, <1>37, <1>38,
       <1>39, <1>40, <1>41, <1>42, <1>43, <1>44, <1>45
    DEF Next, StartStep, ReceiveStep, SpawnStep, TerminateStep, EntryStep, RunnerNext

(* Every step keeps what is known of the runner.                           *)
LEMMA RunnerStepInv == IndInv /\ [Next]_vars => RunnerInv'
<1> SUFFICES ASSUME TypeOK, ProcessInv, RunnerInv, [Next]_vars
             PROVE  RunnerInv'
    BY DEF IndInv
<1> USE StageLimitAssumption, RuntimeStagesAssumption
    DEF ProcessInv, RunnerInv, Gone, TypeOK, Phases, Waiting, Terminator, Active,
        vars, hostVars, startVars, stageVars, callVars, channelVars, childVars, runnerVars
<1>1. CASE Start
    BY <1>1 DEF Start
<1>2. CASE SpawnSeen
    BY <1>2 DEF SpawnSeen, WaitEnds, Available, SendToChild
<1>3. CASE BootedSeen
    BY <1>3 DEF BootedSeen, WaitEnds, Available, SendToChild
<1>4. CASE ListeningSeen
    BY <1>4 DEF ListeningSeen, WaitEnds, Available
<1>5. CASE StartReady
    BY <1>5 DEF StartReady, WaitEnds, Available
<1>6. CASE StartFails
    BY <1>6 DEF StartFails, WaitEnds, TermBegins, RetainLateCleanup
<1>7. CASE CleanupEnds
    BY <1>7 DEF CleanupEnds
<1>8. CASE ReceiveNothing
    BY <1>8 DEF ReceiveNothing, Receives, Ignoring
<1>9. CASE ReceiveBooted
    BY <1>9 DEF ReceiveBooted, Receives, Ignoring, Allowed
<1>10. CASE ReceiveStage
    BY <1>10 DEF ReceiveStage, Receives, Ignoring, Allowed
<1>11. CASE ReceiveListening
    BY <1>11 DEF ReceiveListening, Receives, Ignoring, Allowed
<1>12. CASE ReceiveFailure
    BY <1>12 DEF ReceiveFailure, Receives, Ignoring, Latch
<1>13. CASE Persist
    BY <1>13 DEF Persist
<1>14. CASE PersistFails
    BY <1>14 DEF PersistFails, Latch
<1>15. CASE Register
    BY <1>15 DEF Register
<1>16. CASE SpawnRejected
    BY <1>16 DEF SpawnRejected
<1>17. CASE ExitSeen
    BY <1>17 DEF ExitSeen
<1>18. CASE CloseCall
    BY <1>18 DEF CloseCall, TermBegins
<1>19. CASE CloseSettles
    BY <1>19 DEF CloseSettles
<1>20. ASSUME NEW v \in Terminator, TermSpawnSeen(v) PROVE RunnerInv'
    BY <1>20 DEF TermSpawnSeen, TermStep
<1>21. ASSUME NEW v \in Terminator, TermSpawnLate(v) PROVE RunnerInv'
    BY <1>21 DEF TermSpawnLate, TermStep, RetainLateCleanup
<1>22. ASSUME NEW v \in Terminator, TermSend(v) PROVE RunnerInv'
    BY <1>22 DEF TermSend, TermStep, SendToChild
<1>23. ASSUME NEW v \in Terminator, TermGone(v) PROVE RunnerInv'
    BY <1>23 DEF TermGone, TermStep
<1>24. ASSUME NEW v \in Terminator, TermStop(v) PROVE RunnerInv'
    BY <1>24 DEF TermStop, TermStep
<1>25. ASSUME NEW v \in Terminator, TermStopFails(v) PROVE RunnerInv'
    BY <1>25 DEF TermStopFails, TermStep
<1>26. CASE Abort
    BY <1>26 DEF Abort, Latch
<1>27. CASE HostDies
    BY <1>27 DEF HostDies
<1>28. CASE TakeHello
    BY <1>28 DEF TakeHello, Takes
<1>29. CASE TakeEarly
    BY <1>29 DEF TakeEarly, Takes
<1>30. CASE TakeStart
    BY <1>30 DEF TakeStart, Takes
<1>31. CASE TakeShutdown
    BY <1>31 DEF TakeShutdown, Takes, Terminate
<1>32. CASE Loaded
    BY <1>32 DEF Loaded, SendToHost, Finished
<1>33. CASE Booted
    BY <1>33 DEF Booted, Finished
<1>34. CASE Disconnected
    BY <1>34 DEF Disconnected, Terminate, Finished
<1>35. CASE CreateRuntime
    BY <1>35 DEF CreateRuntime, RunnerStep, Stopping, Closing
<1>36. CASE ReportStage
    BY <1>36 DEF ReportStage, RunnerStep, SendToHost
<1>37. CASE RuntimeStarted
    BY <1>37 DEF RuntimeStarted, RunnerStep, Stopping, Closing
<1>38. CASE ReportListening
    BY <1>38 DEF ReportListening, RunnerStep, Stopping, Closing, SendToHost
<1>39. CASE StartupFailed
    BY <1>39 DEF StartupFailed, RunnerStep, Stopping, Terminate
<1>40. CASE CloseRuntime
    BY <1>40 DEF CloseRuntime, RunnerStep
<1>41. CASE FinishRunner
    BY <1>41 DEF FinishRunner, RunnerStep, SendToHost, Finished
<1>42. CASE ChildExits
    BY <1>42 DEF ChildExits, ChildGone
<1>43. CASE ChildKilled
    BY <1>43 DEF ChildKilled, ChildGone
<1>44. CASE ChildCrashes
    BY <1>44 DEF ChildCrashes, ChildGone
<1>45. CASE UNCHANGED vars
    BY <1>45
<1>46. QED
    BY <1>1, <1>2, <1>3, <1>4, <1>5, <1>6, <1>7, <1>8, <1>9, <1>10, <1>11, <1>12, <1>13, <1>14,
       <1>15, <1>16, <1>17, <1>18, <1>19, <1>20, <1>21, <1>22, <1>23, <1>24, <1>25, <1>26,
       <1>27, <1>28, <1>29, <1>30, <1>31, <1>32, <1>33, <1>34, <1>35, <1>36, <1>37, <1>38,
       <1>39, <1>40, <1>41, <1>42, <1>43, <1>44, <1>45
    DEF Next, StartStep, ReceiveStep, SpawnStep, TerminateStep, EntryStep, RunnerNext

(* Every step keeps what is known of the orders to the child.              *)
LEMMA OrderStep == IndInv /\ [Next]_vars => OrderInv'
<1> SUFFICES ASSUME TypeOK, PhaseInv, ProcessInv, RunnerInv, OrderInv, [Next]_vars
             PROVE  OrderInv'
    BY DEF IndInv
<1> USE StageLimitAssumption, RuntimeStagesAssumption
    DEF PhaseInv, ProcessInv, RunnerInv, OrderInv, Within, Gone, TypeOK, Phases, Waiting,
       Terminator, Active,
        vars, hostVars, startVars, stageVars, callVars, channelVars, childVars, runnerVars
<1>1. CASE Start
    BY <1>1 DEF Start
<1>2. CASE SpawnSeen
    BY <1>2 DEF SpawnSeen, WaitEnds, Available, SendToChild
<1>3. CASE BootedSeen
    BY <1>3 DEF BootedSeen, WaitEnds, Available, SendToChild
<1>4. CASE ListeningSeen
    BY <1>4 DEF ListeningSeen, WaitEnds, Available
<1>5. CASE StartReady
    BY <1>5 DEF StartReady, WaitEnds, Available
<1>6. CASE StartFails
    BY <1>6 DEF StartFails, WaitEnds, TermBegins, RetainLateCleanup
<1>7. CASE CleanupEnds
    BY <1>7 DEF CleanupEnds
<1>8. CASE ReceiveNothing
    BY <1>8 DEF ReceiveNothing, Receives, Ignoring
<1>9. CASE ReceiveBooted
    BY <1>9 DEF ReceiveBooted, Receives, Ignoring, Allowed
<1>10. CASE ReceiveStage
    BY <1>10 DEF ReceiveStage, Receives, Ignoring, Allowed
<1>11. CASE ReceiveListening
    BY <1>11 DEF ReceiveListening, Receives, Ignoring, Allowed
<1>12. CASE ReceiveFailure
    BY <1>12 DEF ReceiveFailure, Receives, Ignoring, Latch
<1>13. CASE Persist
    BY <1>13 DEF Persist
<1>14. CASE PersistFails
    BY <1>14 DEF PersistFails, Latch
<1>15. CASE Register
    BY <1>15 DEF Register
<1>16. CASE SpawnRejected
    BY <1>16 DEF SpawnRejected
<1>17. CASE ExitSeen
    BY <1>17 DEF ExitSeen
<1>18. CASE CloseCall
    BY <1>18 DEF CloseCall, TermBegins
<1>19. CASE CloseSettles
    BY <1>19 DEF CloseSettles
<1>20. ASSUME NEW v \in Terminator, TermSpawnSeen(v) PROVE OrderInv'
    BY <1>20 DEF TermSpawnSeen, TermStep
<1>21. ASSUME NEW v \in Terminator, TermSpawnLate(v) PROVE OrderInv'
    BY <1>21 DEF TermSpawnLate, TermStep, RetainLateCleanup
<1>22. ASSUME NEW v \in Terminator, TermSend(v) PROVE OrderInv'
    BY <1>22 DEF TermSend, TermStep, SendToChild
<1>23. ASSUME NEW v \in Terminator, TermGone(v) PROVE OrderInv'
    BY <1>23 DEF TermGone, TermStep
<1>24. ASSUME NEW v \in Terminator, TermStop(v) PROVE OrderInv'
    BY <1>24 DEF TermStop, TermStep
<1>25. ASSUME NEW v \in Terminator, TermStopFails(v) PROVE OrderInv'
    BY <1>25 DEF TermStopFails, TermStep
<1>26. CASE Abort
    BY <1>26 DEF Abort, Latch
<1>27. CASE HostDies
    BY <1>27 DEF HostDies
<1>28. CASE TakeHello
    BY <1>28 DEF TakeHello, Takes
<1>29. CASE TakeEarly
    BY <1>29 DEF TakeEarly, Takes
<1>30. CASE TakeStart
    BY <1>30 DEF TakeStart, Takes
<1>31. CASE TakeShutdown
    BY <1>31 DEF TakeShutdown, Takes, Terminate
<1>32. CASE Loaded
    BY <1>32 DEF Loaded, SendToHost, Finished
<1>33. CASE Booted
    BY <1>33 DEF Booted, Finished
<1>34. CASE Disconnected
    BY <1>34 DEF Disconnected, Terminate, Finished
<1>35. CASE CreateRuntime
    BY <1>35 DEF CreateRuntime, RunnerStep, Stopping, Closing
<1>36. CASE ReportStage
    BY <1>36 DEF ReportStage, RunnerStep, SendToHost
<1>37. CASE RuntimeStarted
    BY <1>37 DEF RuntimeStarted, RunnerStep, Stopping, Closing
<1>38. CASE ReportListening
    BY <1>38 DEF ReportListening, RunnerStep, Stopping, Closing, SendToHost
<1>39. CASE StartupFailed
    BY <1>39 DEF StartupFailed, RunnerStep, Stopping, Terminate
<1>40. CASE CloseRuntime
    BY <1>40 DEF CloseRuntime, RunnerStep
<1>41. CASE FinishRunner
    BY <1>41 DEF FinishRunner, RunnerStep, SendToHost, Finished
<1>42. CASE ChildExits
    BY <1>42 DEF ChildExits, ChildGone
<1>43. CASE ChildKilled
    BY <1>43 DEF ChildKilled, ChildGone
<1>44. CASE ChildCrashes
    BY <1>44 DEF ChildCrashes, ChildGone
<1>45. CASE UNCHANGED vars
    BY <1>45
<1>46. QED
    BY <1>1, <1>2, <1>3, <1>4, <1>5, <1>6, <1>7, <1>8, <1>9, <1>10, <1>11, <1>12, <1>13, <1>14,
       <1>15, <1>16, <1>17, <1>18, <1>19, <1>20, <1>21, <1>22, <1>23, <1>24, <1>25, <1>26,
       <1>27, <1>28, <1>29, <1>30, <1>31, <1>32, <1>33, <1>34, <1>35, <1>36, <1>37, <1>38,
       <1>39, <1>40, <1>41, <1>42, <1>43, <1>44, <1>45
    DEF Next, StartStep, ReceiveStep, SpawnStep, TerminateStep, EntryStep, RunnerNext

(* Every step keeps what is known of the messages of the child.            *)
LEMMA StreamStep == IndInv /\ [Next]_vars => StreamInv'
<1> SUFFICES ASSUME TypeOK, PhaseInv, ProcessInv, RunnerInv, OrderInv, StreamInv, [Next]_vars
             PROVE  StreamInv'
    BY DEF IndInv
<1> USE StageLimitAssumption, RuntimeStagesAssumption
    DEF PhaseInv, ProcessInv, RunnerInv, OrderInv, StreamInv, Within, Gone, TypeOK, Phases,
       Waiting, Terminator, Active,
        vars, hostVars, startVars, stageVars, callVars, channelVars, childVars, runnerVars
<1>1. CASE Start
    BY <1>1 DEF Start
<1>2. CASE SpawnSeen
    BY <1>2 DEF SpawnSeen, WaitEnds, Available, SendToChild
<1>3. CASE BootedSeen
    BY <1>3 DEF BootedSeen, WaitEnds, Available, SendToChild
<1>4. CASE ListeningSeen
    BY <1>4 DEF ListeningSeen, WaitEnds, Available
<1>5. CASE StartReady
    BY <1>5 DEF StartReady, WaitEnds, Available
<1>6. CASE StartFails
    BY <1>6 DEF StartFails, WaitEnds, TermBegins, RetainLateCleanup
<1>7. CASE CleanupEnds
    BY <1>7 DEF CleanupEnds
<1>8. CASE ReceiveNothing
    BY <1>8 DEF ReceiveNothing, Receives, Ignoring
<1>9. CASE ReceiveBooted
    BY <1>9 DEF ReceiveBooted, Receives, Ignoring, Allowed
<1>10. CASE ReceiveStage
  <2>1. /\ toHost # <<>> /\ Len(toHost') = Len(toHost) - 1
        /\ \A k \in DOMAIN toHost' : k + 1 \in DOMAIN toHost /\ toHost'[k] = toHost[k + 1]
      BY <1>10 DEF ReceiveStage, Receives
  <2>2. /\ phase = "starting"
        /\ UNCHANGED <<phase, messages, entry, operation, reported, persisted, connected>>
      BY <1>10 DEF ReceiveStage, Receives, Allowed
  <2>3. received \in Nat /\ received' = received + 1 /\ Len(toHost) \in Nat
      BY <1>10 DEF ReceiveStage
  <2>4. connected' /\ operation' # "done" => received' + Len(toHost') = reported'
      BY <2>1, <2>2, <2>3
  <2>5. ASSUME NEW k \in DOMAIN toHost', toHost'[k] = "listening"
        PROVE  operation' = "done" /\ received' + k = reported' + 1
    <3>1. k + 1 \in DOMAIN toHost /\ toHost[k + 1] = "listening"
        BY <2>1, <2>5
    <3>2. operation = "done" /\ received + (k + 1) = reported + 1
        BY <2>2, <3>1
    <3>3. k \in Nat
        BY <1>10, <2>5 DEF ReceiveStage, Receives
    <3>4. QED
        BY <2>2, <2>3, <3>2, <3>3
  <2>6. entry' \notin {"waiting", "loading"}
      BY <2>2
  <2>7. QED
      BY <2>2, <2>4, <2>5, <2>6
<1>11. CASE ReceiveListening
    BY <1>11 DEF ReceiveListening, Receives, Ignoring, Allowed
<1>12. CASE ReceiveFailure
    BY <1>12 DEF ReceiveFailure, Receives, Ignoring, Latch
<1>13. CASE Persist
    BY <1>13 DEF Persist
<1>14. CASE PersistFails
    BY <1>14 DEF PersistFails, Latch
<1>15. CASE Register
    BY <1>15 DEF Register
<1>16. CASE SpawnRejected
    BY <1>16 DEF SpawnRejected
<1>17. CASE ExitSeen
    BY <1>17 DEF ExitSeen
<1>18. CASE CloseCall
    BY <1>18 DEF CloseCall, TermBegins
<1>19. CASE CloseSettles
    BY <1>19 DEF CloseSettles
<1>20. ASSUME NEW v \in Terminator, TermSpawnSeen(v) PROVE StreamInv'
    BY <1>20 DEF TermSpawnSeen, TermStep
<1>21. ASSUME NEW v \in Terminator, TermSpawnLate(v) PROVE StreamInv'
    BY <1>21 DEF TermSpawnLate, TermStep, RetainLateCleanup
<1>22. ASSUME NEW v \in Terminator, TermSend(v) PROVE StreamInv'
    BY <1>22 DEF TermSend, TermStep, SendToChild
<1>23. ASSUME NEW v \in Terminator, TermGone(v) PROVE StreamInv'
    BY <1>23 DEF TermGone, TermStep
<1>24. ASSUME NEW v \in Terminator, TermStop(v) PROVE StreamInv'
    BY <1>24 DEF TermStop, TermStep
<1>25. ASSUME NEW v \in Terminator, TermStopFails(v) PROVE StreamInv'
    BY <1>25 DEF TermStopFails, TermStep
<1>26. CASE Abort
    BY <1>26 DEF Abort, Latch
<1>27. CASE HostDies
    BY <1>27 DEF HostDies
<1>28. CASE TakeHello
    BY <1>28 DEF TakeHello, Takes
<1>29. CASE TakeEarly
    BY <1>29 DEF TakeEarly, Takes
<1>30. CASE TakeStart
    BY <1>30 DEF TakeStart, Takes
<1>31. CASE TakeShutdown
    BY <1>31 DEF TakeShutdown, Takes, Terminate
<1>32. CASE Loaded
  <2>1. toHost = <<>> /\ messages = {} /\ phase \in Gone \cup {"booting"} /\ operation = "none"
      BY <1>32 DEF Loaded
  <2>2. Append(<<>>, "booted") = <<"booted">> /\ Append(<<>>, "failed") = <<"failed">>
      OBVIOUS
  <2>3. /\ \/ entry' = "booting" /\ toHost' = <<"booted">>
           \/ entry' = "finished" /\ ~connected' /\ toHost' \in {<<>>, <<"failed">>}
        /\ UNCHANGED <<messages, phase, operation, received, reported, persisted>>
      BY <1>32, <2>1, <2>2 DEF Loaded, SendToHost, Finished
  <2>4. QED
      BY <2>1, <2>3
<1>33. CASE Booted
    BY <1>33 DEF Booted, Finished
<1>34. CASE Disconnected
    BY <1>34 DEF Disconnected, Terminate, Finished
<1>35. CASE CreateRuntime
    BY <1>35 DEF CreateRuntime, RunnerStep, Stopping, Closing
<1>36. CASE ReportStage
    BY <1>36 DEF ReportStage, RunnerStep, SendToHost
<1>37. CASE RuntimeStarted
    BY <1>37 DEF RuntimeStarted, RunnerStep, Stopping, Closing
<1>38. CASE ReportListening
  <2>1. ASSUME NEW m \in {"booted", "listening", "failed"}
        PROVE  /\ Append(toHost, m) # <<>> /\ Len(Append(toHost, m)) = Len(toHost) + 1
               /\ DOMAIN Append(toHost, m) = 1 .. Len(toHost) + 1
               /\ \A i \in 1 .. Len(toHost) : Append(toHost, m)[i] = toHost[i]
               /\ Append(toHost, m)[Len(toHost) + 1] = m
      BY AppendProperties
  <2>2. Len(toHost) \in Nat /\ DOMAIN toHost = 1 .. Len(toHost)
      OBVIOUS
  <2>3. /\ operation = "report" /\ ~Within(toHost, "listening")
        /\ UNCHANGED <<phase, messages, received, reported, persisted, connected, entry>>
      BY <1>38 DEF ReportListening, RunnerStep
  <2>4. CASE toHost' = toHost /\ operation' # "report"
      BY <2>3, <2>4
  <2>5. CASE connected /\ operation' = "done" /\ toHost' = Append(toHost, "listening")
    <3>1. toHost' # <<>> /\ entry \notin {"waiting", "loading"}
        BY <2>1, <2>3, <2>5
    <3>2. phase \notin {"idle", "spawning", "booting"}
        BY <2>3
    <3>3. ASSUME phase = "starting", NEW i \in DOMAIN toHost', toHost'[i] = "listening"
          PROVE  received + i = reported + 1
        BY <2>1, <2>2, <2>3, <2>5, <3>3
    <3>4. QED
        BY <2>3, <2>5, <3>1, <3>2, <3>3
  <2>6. QED
      BY <1>38, <2>4, <2>5 DEF ReportListening, SendToHost, Closing
<1>39. CASE StartupFailed
    BY <1>39 DEF StartupFailed, RunnerStep, Stopping, Terminate
<1>40. CASE CloseRuntime
    BY <1>40 DEF CloseRuntime, RunnerStep
<1>41. CASE FinishRunner
  <2>1. ASSUME NEW m \in {"booted", "listening", "failed"}
        PROVE  /\ Append(toHost, m) # <<>> /\ Len(Append(toHost, m)) = Len(toHost) + 1
               /\ DOMAIN Append(toHost, m) = 1 .. Len(toHost) + 1
               /\ \A i \in 1 .. Len(toHost) : Append(toHost, m)[i] = toHost[i]
               /\ Append(toHost, m)[Len(toHost) + 1] = m
      BY AppendProperties
  <2>2. Len(toHost) \in Nat /\ DOMAIN toHost = 1 .. Len(toHost)
      OBVIOUS
  <2>3. /\ ~connected' /\ entry' = "finished" /\ toHost' \in {toHost, Append(toHost, "failed")}
        /\ UNCHANGED <<phase, messages, received, reported, persisted, operation>>
      BY <1>41 DEF FinishRunner, RunnerStep, SendToHost, Finished
  <2>4. CASE toHost' = toHost
      BY <1>41, <2>3, <2>4 DEF FinishRunner, RunnerStep
  <2>5. CASE toHost' = Append(toHost, "failed")
    <3>1. phase \notin {"idle", "spawning"}
        BY <1>41, <2>3, <2>5 DEF FinishRunner, RunnerStep
    <3>2. ASSUME NEW i \in DOMAIN toHost', toHost'[i] = "listening"
          PROVE  i \in DOMAIN toHost /\ toHost[i] = "listening"
      <4>1. i \in 1 .. Len(toHost) + 1 /\ i # Len(toHost) + 1
          BY <2>1, <2>5, <3>2
      <4>2. Append(toHost, "failed")[i] = toHost[i]
          BY <2>1, <2>2, <4>1
      <4>3. i \in DOMAIN toHost
          BY <2>2, <4>1
      <4>4. QED
          BY <2>5, <3>2, <4>2, <4>3
    <3>3. QED
        BY <2>3, <3>1, <3>2
  <2>6. QED
      BY <2>3, <2>4, <2>5
<1>42. CASE ChildExits
    BY <1>42 DEF ChildExits, ChildGone
<1>43. CASE ChildKilled
    BY <1>43 DEF ChildKilled, ChildGone
<1>44. CASE ChildCrashes
    BY <1>44 DEF ChildCrashes, ChildGone
<1>45. CASE UNCHANGED vars
    BY <1>45
<1>46. QED
    BY <1>1, <1>2, <1>3, <1>4, <1>5, <1>6, <1>7, <1>8, <1>9, <1>10, <1>11, <1>12, <1>13, <1>14,
       <1>15, <1>16, <1>17, <1>18, <1>19, <1>20, <1>21, <1>22, <1>23, <1>24, <1>25, <1>26,
       <1>27, <1>28, <1>29, <1>30, <1>31, <1>32, <1>33, <1>34, <1>35, <1>36, <1>37, <1>38,
       <1>39, <1>40, <1>41, <1>42, <1>43, <1>44, <1>45
    DEF Next, StartStep, ReceiveStep, SpawnStep, TerminateStep, EntryStep, RunnerNext

-----------------------------------------------------------------------------
(* The initial states satisfy the inductive invariant.                      *)
LEMMA InitInv == Init => IndInv
<1> SUFFICES ASSUME Init PROVE IndInv
    OBVIOUS
<1> USE StageLimitAssumption, RuntimeStagesAssumption DEF Init, Gone, Within
<1>1. TypeOK
  <2>1. /\ hostUp \in BOOLEAN /\ failure \in BOOLEAN /\ completion \in BOOLEAN
        /\ stageFailed \in BOOLEAN /\ aborted \in BOOLEAN
        /\ connected \in BOOLEAN /\ signalled \in BOOLEAN
      BY Zenon
  <2>2. QED
      BY <2>1 DEF TypeOK, Phases, Terminator
<1>2. PhaseInv /\ ProcessInv /\ RunnerInv
    BY DEF PhaseInv, ProcessInv, RunnerInv, Terminator
<1>3. OrderInv /\ StreamInv
    BY DEF OrderInv, StreamInv
<1>4. QED
    BY <1>1, <1>2, <1>3 DEF IndInv

(* It holds in every reachable state.                                      *)
THEOREM Invariant == Spec => []IndInv
<1>1. IndInv /\ [Next]_vars => IndInv'
    BY TypeStep, PhaseStep, ProcessStep, RunnerStepInv, OrderStep, StreamStep DEF IndInv
<1>2. QED
    BY InitInv, <1>1, PTL DEF Spec

(* Type correctness.                                                       *)
THEOREM TypeCorrect == Spec => []TypeOK
<1>1. IndInv => TypeOK
    BY DEF IndInv
<1>2. QED
    BY Invariant, <1>1, PTL

(* What the host takes for a running Core is one: its stages are all in the *)
(* journal, its runtime is open, and it is not shutting down.              *)
THEOREM ListeningTrue == Spec => []ListeningIsTrue
<1>1. IndInv => ListeningIsTrue
    BY DEF IndInv, TypeOK, RunnerInv, OrderInv, StreamInv, ListeningIsTrue, AssertRunning, Gone
<1>2. QED
    BY Invariant, <1>1, PTL

(* A Core that is through has tried to close its runtime and will not open  *)
(* it; with no failure in its exit code, the runtime is closed.             *)
THEOREM FinishedClosed == Spec => []FinishedMeansClosed
<1>1. IndInv => FinishedMeansClosed
    BY DEF IndInv, RunnerInv, FinishedMeansClosed
<1>2. QED
    BY Invariant, <1>1, PTL

-----------------------------------------------------------------------------

(* Every step is one of OwnedChild, or none of its business.               *)
LEMMA OwnedStep == IndInv /\ [Next]_vars => [Owned!Next]_(Owned!vars)
<1> SUFFICES ASSUME TypeOK, PhaseInv, ProcessInv, [Next]_vars
             PROVE  [Owned!Next]_(Owned!vars)
    BY DEF IndInv
<1> USE StageLimitAssumption, RuntimeStagesAssumption
    DEF PhaseInv, ProcessInv, Gone, TypeOK, Phases, Waiting, Terminator, Active,
        Owned!vars, Owned!Next, Owned!CallStart, Owned!Launch, Owned!Arrive, Owned!Exit,
        Owned!Reap, Owned!Succeed, Owned!Fail, Owned!CallClose, Owned!Closed,
        Owned!CloseFails,
        vars, hostVars, startVars, stageVars, callVars, channelVars, childVars, runnerVars
<1>1. CASE Start
    BY <1>1 DEF Start
<1>2. CASE SpawnSeen
    BY <1>2 DEF SpawnSeen, WaitEnds, Available, SendToChild
<1>3. CASE BootedSeen
    BY <1>3 DEF BootedSeen, WaitEnds, Available, SendToChild
<1>4. CASE ListeningSeen
    BY <1>4 DEF ListeningSeen, WaitEnds, Available
<1>5. CASE StartReady
    BY <1>5 DEF StartReady, WaitEnds, Available
<1>6. CASE StartFails
    BY <1>6 DEF StartFails, WaitEnds, TermBegins, RetainLateCleanup
<1>7. CASE CleanupEnds
    BY <1>7 DEF CleanupEnds
<1>8. CASE ReceiveNothing
    BY <1>8 DEF ReceiveNothing, Receives, Ignoring
<1>9. CASE ReceiveBooted
    BY <1>9 DEF ReceiveBooted, Receives, Ignoring, Allowed
<1>10. CASE ReceiveStage
    BY <1>10 DEF ReceiveStage, Receives, Ignoring, Allowed
<1>11. CASE ReceiveListening
    BY <1>11 DEF ReceiveListening, Receives, Ignoring, Allowed
<1>12. CASE ReceiveFailure
    BY <1>12 DEF ReceiveFailure, Receives, Ignoring, Latch
<1>13. CASE Persist
    BY <1>13 DEF Persist
<1>14. CASE PersistFails
    BY <1>14 DEF PersistFails, Latch
<1>15. CASE Register
    BY <1>15 DEF Register
<1>16. CASE SpawnRejected
    BY <1>16 DEF SpawnRejected
<1>17. CASE ExitSeen
    BY <1>17 DEF ExitSeen
<1>18. CASE CloseCall
    BY <1>18 DEF CloseCall, TermBegins
<1>19. CASE CloseSettles
    BY <1>19 DEF CloseSettles
<1>20. ASSUME NEW v \in Terminator, TermSpawnSeen(v) PROVE [Owned!Next]_(Owned!vars)
    BY <1>20 DEF TermSpawnSeen, TermStep
<1>21. ASSUME NEW v \in Terminator, TermSpawnLate(v) PROVE [Owned!Next]_(Owned!vars)
    BY <1>21 DEF TermSpawnLate, TermStep, RetainLateCleanup
<1>22. ASSUME NEW v \in Terminator, TermSend(v) PROVE [Owned!Next]_(Owned!vars)
    BY <1>22 DEF TermSend, TermStep, SendToChild
<1>23. ASSUME NEW v \in Terminator, TermGone(v) PROVE [Owned!Next]_(Owned!vars)
    BY <1>23 DEF TermGone, TermStep
<1>24. ASSUME NEW v \in Terminator, TermStop(v) PROVE [Owned!Next]_(Owned!vars)
    BY <1>24 DEF TermStop, TermStep
<1>25. ASSUME NEW v \in Terminator, TermStopFails(v) PROVE [Owned!Next]_(Owned!vars)
    BY <1>25 DEF TermStopFails, TermStep
<1>26. CASE Abort
    BY <1>26 DEF Abort, Latch
<1>27. CASE HostDies
    BY <1>27 DEF HostDies
<1>28. CASE TakeHello
    BY <1>28 DEF TakeHello, Takes
<1>29. CASE TakeEarly
    BY <1>29 DEF TakeEarly, Takes
<1>30. CASE TakeStart
    BY <1>30 DEF TakeStart, Takes
<1>31. CASE TakeShutdown
    BY <1>31 DEF TakeShutdown, Takes, Terminate
<1>32. CASE Loaded
    BY <1>32 DEF Loaded, SendToHost, Finished
<1>33. CASE Booted
    BY <1>33 DEF Booted, Finished
<1>34. CASE Disconnected
    BY <1>34 DEF Disconnected, Terminate, Finished
<1>35. CASE CreateRuntime
    BY <1>35 DEF CreateRuntime, RunnerStep, Stopping, Closing
<1>36. CASE ReportStage
    BY <1>36 DEF ReportStage, RunnerStep, SendToHost
<1>37. CASE RuntimeStarted
    BY <1>37 DEF RuntimeStarted, RunnerStep, Stopping, Closing
<1>38. CASE ReportListening
    BY <1>38 DEF ReportListening, RunnerStep, Stopping, Closing, SendToHost
<1>39. CASE StartupFailed
    BY <1>39 DEF StartupFailed, RunnerStep, Stopping, Terminate
<1>40. CASE CloseRuntime
    BY <1>40 DEF CloseRuntime, RunnerStep
<1>41. CASE FinishRunner
    BY <1>41 DEF FinishRunner, RunnerStep, SendToHost, Finished
<1>42. CASE ChildExits
    BY <1>42 DEF ChildExits, ChildGone
<1>43. CASE ChildKilled
    BY <1>43 DEF ChildKilled, ChildGone
<1>44. CASE ChildCrashes
    BY <1>44 DEF ChildCrashes, ChildGone
<1>45. CASE UNCHANGED vars
    BY <1>45
<1>46. QED
    BY <1>1, <1>2, <1>3, <1>4, <1>5, <1>6, <1>7, <1>8, <1>9, <1>10, <1>11, <1>12, <1>13, <1>14,
       <1>15, <1>16, <1>17, <1>18, <1>19, <1>20, <1>21, <1>22, <1>23, <1>24, <1>25, <1>26,
       <1>27, <1>28, <1>29, <1>30, <1>31, <1>32, <1>33, <1>34, <1>35, <1>36, <1>37, <1>38,
       <1>39, <1>40, <1>41, <1>42, <1>43, <1>44, <1>45
    DEF Next, StartStep, ReceiveStep, SpawnStep, TerminateStep, EntryStep, RunnerNext

(* The resource implements OwnedChild.                                     *)
THEOREM CoreImplementsOwnedChild == Spec => ImplementsOwnedChild
<1>1. Init => Owned!Init
    BY DEF Init, Owned!Init
<1>2. QED
    BY Invariant, OwnedStep, <1>1, PTL DEF Spec, ImplementsOwnedChild, Owned!Spec
=============================================================================
