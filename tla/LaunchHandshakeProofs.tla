-------------------------- MODULE LaunchHandshakeProofs --------------------------
(* Theorems about LaunchHandshake.                                         *)
EXTENDS LaunchHandshake, SequenceTheorems, TLAPS

(* m is under way in s.                                                    *)
Within(s, m) == \E i \in DOMAIN s : s[i] = m

(* The variables that are true or false.                                   *)
Flags ==
    {reported, interrupted, exitSeen, linked, signalled, readySend, committed, lease}
       \subseteq BOOLEAN

(* The parts of TypeOK: the stages of the two processes and of the owner,   *)
(* what was claimed, and what is under way to the launcher.                 *)
Stages ==
    /\ attempt \in {"spawning", "terminal", "gone"} \cup BeforeFence \cup AfterFence
    /\ killer \in {"none", "term", "kill", "stopped", "timeout"}
    /\ host \in {"loading", "booting", "awaiting-start", "starting",
                 "ready-awaiting-commit", "committed", "closing", "finished", "dead"}
    /\ owner \in {"none", "opening", "early", "busy", "failed",
                  "starting", "ready", "closing", "over"}
    /\ outcome \in {"pending", "stopped"} \cup Cleanups

Claim == verdict \in Verdicts
Words == toLauncher \in Seq(ChildMessages)

(* The launcher: as long as the attempt is undecided nothing stops the host, *)
(* nothing is claimed, and the channel is open.                            *)
AttemptInv ==
    /\ attempt \notin {"terminal", "gone"} =>
          /\ killer = "none" /\ ~reported /\ ~exitSeen /\ linked
          /\ verdict = Verdict("none", "none")
    /\ attempt = "gone" => ~linked
    /\ exitSeen => host = "dead"

(* What the launcher tells the host: a start to a host without an owner, and *)
(* a commit to one that has been ready; never two messages at a time.       *)
ChannelInv ==
    /\ toHost \in {<<>>, <<"start">>, <<"commit">>}
    /\ attempt \in {"spawning", "awaiting-boot"} => toHost = <<>> /\ owner = "none"
    /\ toHost = <<"start">> => owner = "none"
    /\ toHost = <<"commit">> \/ committed =>
          attempt \in {"sending-commit", "awaiting-ack", "terminal", "gone"} /\ owner # "none"
    /\ committed => toHost = <<>>

(* The host and its owner: the owner comes with start, holds the lease from  *)
(* open until it closes, and has started when the host waits for the commit. *)
OwnerInv ==
    /\ host \in {"loading", "booting", "awaiting-start"} => owner = "none"
    /\ host \in {"ready-awaiting-commit", "committed"} => owner \in {"ready", "closing"}
    /\ host = "committed" => committed
    /\ owner \in {"starting", "ready"} /\ host # "dead" => lease
    /\ owner \in {"none", "busy"} => ~lease
    /\ outcome # "pending" => owner = "over"
    /\ outcome \in {"stopped", "completed"} => ~lease

(* What is under way to the launcher is so, and stays so.                   *)
WordInv ==
    /\ Within(toLauncher, "ready") => owner # "none"
    /\ Within(toLauncher, "busy") => owner = "busy"
    /\ Within(toLauncher, "completed") => outcome = "completed"
    /\ Within(toLauncher, "committed") => committed

(* What is reported is so, and a started server is reported at once.        *)
VerdictInv ==
    /\ VerdictIsTrue
    /\ verdict.code = "started" => reported

(* The inductive invariant.                                                *)
IndInv == TypeOK /\ AttemptInv /\ ChannelInv /\ OwnerInv /\ WordInv /\ VerdictInv

-----------------------------------------------------------------------------
(* What is under way after a message was added: it, or what was before.     *)
LEMMA WithinAppend ==
    ASSUME NEW S, NEW s \in Seq(S), NEW x \in S, NEW m, Within(Append(s, x), m)
    PROVE  Within(s, m) \/ m = x
<1>1. PICK i \in 1 .. Len(s) + 1 : Append(s, x)[i] = m
    BY AppendProperties DEF Within
<1>2. CASE i = Len(s) + 1
    BY <1>1, <1>2, AppendProperties
<1>3. CASE i # Len(s) + 1
  <2>1. i \in 1 .. Len(s) /\ Len(s) \in Nat
      BY <1>3
  <2>2. s[i] = m /\ i \in DOMAIN s
      BY <1>1, <2>1, AppendProperties
  <2>3. QED
      BY <2>2 DEF Within
<1>4. QED
    BY <1>2, <1>3

(* What is taken was under way, and so was what is left.                    *)
LEMMA WithinTail ==
    ASSUME NEW S, NEW s \in Seq(S), s # <<>>
    PROVE  /\ Within(s, Head(s)) /\ Head(s) \in S /\ Tail(s) \in Seq(S)
           /\ \A m : Within(Tail(s), m) => Within(s, m)
<1>1. Head(s) \in S /\ Tail(s) \in Seq(S)
    OBVIOUS
<1>2. Within(s, Head(s))
  <2>1. 1 \in DOMAIN s /\ Head(s) = s[1]
      OBVIOUS
  <2>2. QED
      BY <2>1 DEF Within
<1>3. ASSUME NEW m, Within(Tail(s), m) PROVE Within(s, m)
  <2>1. PICK i \in DOMAIN Tail(s) : Tail(s)[i] = m
      BY <1>3 DEF Within
  <2>2. i + 1 \in DOMAIN s /\ s[i + 1] = m
      BY <2>1
  <2>3. QED
      BY <2>2 DEF Within
<1>4. QED
    BY <1>1, <1>2, <1>3

(* A message to the launcher adds itself and nothing else.                  *)
LEMMA TellFacts ==
    ASSUME TypeOK, NEW x \in ChildMessages, Tell(x)
    PROVE  /\ toLauncher' \in Seq(ChildMessages)
           /\ \A m : Within(toLauncher', m) => Within(toLauncher, m) \/ m = x
<1>1. toLauncher \in Seq(ChildMessages)
    BY DEF TypeOK
<1>2. toLauncher' \in {toLauncher, Append(toLauncher, x)}
    BY DEF Tell
<1>3. toLauncher' \in Seq(ChildMessages)
    BY <1>1, <1>2
<1>4. ASSUME NEW m, Within(toLauncher', m) PROVE Within(toLauncher, m) \/ m = x
  <2>1. CASE toLauncher' = toLauncher
      BY <1>4, <2>1
  <2>2. CASE toLauncher' = Append(toLauncher, x)
    <3>1. Within(Append(toLauncher, x), m)
        BY <1>4, <2>2
    <3>2. QED
        BY <1>1, <3>1, WithinAppend
  <2>3. QED
      BY <1>2, <2>1, <2>2
<1>5. QED
    BY <1>3, <1>4

(* A message to the launcher, if there is one, is one of X.                 *)
Tells(X) == UNCHANGED toLauncher \/ \E x \in X : Tell(x)

LEMMA TellsFacts ==
    ASSUME TypeOK, NEW X \in SUBSET ChildMessages, Tells(X)
    PROVE  /\ toLauncher' \in Seq(ChildMessages)
           /\ \A m : Within(toLauncher', m) => Within(toLauncher, m) \/ m \in X
<1>1. CASE UNCHANGED toLauncher
    BY <1>1 DEF TypeOK
<1>2. ASSUME NEW x \in X, Tell(x)
      PROVE  /\ toLauncher' \in Seq(ChildMessages)
             /\ \A m : Within(toLauncher', m) => Within(toLauncher, m) \/ m \in X
    BY <1>2, TellFacts
<1>3. QED
    BY <1>1, <1>2 DEF Tells

(* Receive takes the first message, and answers it, claims a result, or     *)
(* fails.                                                                  *)
LEMMA ReceiveFacts ==
    ASSUME TypeOK, AttemptInv, Receive
    PROVE  /\ Within(toLauncher, Head(toLauncher)) /\ Head(toLauncher) \in ChildMessages
           /\ toLauncher' \in Seq(ChildMessages)
           /\ \A m : Within(toLauncher', m) => Within(toLauncher, m)
           /\ attempt \in BeforeFence \cup AfterFence
           /\ UNCHANGED <<interrupted, exitSeen, host, readySend, committed, ownerVars>>
           /\ \/ attempt = "awaiting-boot" /\ toHost' = Append(toHost, "start")
                 /\ Proceed("sending-start")
              \/ attempt = "awaiting-ready" /\ Head(toLauncher) = "ready"
                 /\ toHost' = Append(toHost, "commit") /\ Proceed("sending-commit")
              \/ attempt = "awaiting-ready" /\ Head(toLauncher) \in Failures
                 /\ HostFailed(Head(toLauncher)) /\ UNCHANGED toHost
              \/ attempt = "awaiting-ack" /\ Head(toLauncher) = "committed"
                 /\ FailAfterFence("started", "none") /\ UNCHANGED toHost
              \/ FailForState /\ UNCHANGED toHost
<1>1. toLauncher \in Seq(ChildMessages) /\ toLauncher # <<>> /\ toLauncher' = Tail(toLauncher)
    BY DEF TypeOK, Receive
<1>2. /\ Within(toLauncher, Head(toLauncher)) /\ Head(toLauncher) \in ChildMessages
      /\ toLauncher' \in Seq(ChildMessages)
      /\ \A m : Within(toLauncher', m) => Within(toLauncher, m)
    BY <1>1, WithinTail
<1>3. QED
    BY <1>2 DEF Receive, Send

-----------------------------------------------------------------------------
(* Every step keeps AttemptInv.                                            *)
LEMMA AttemptStep == IndInv /\ [Next]_vars => AttemptInv'
<1> SUFFICES ASSUME TypeOK, AttemptInv, [Next]_vars PROVE AttemptInv'
    BY DEF IndInv
<1> USE DEF AttemptInv, HostEnded, BeforeFence, AfterFence, vars, launcherVars, channelVars,
   hostVars, ownerVars, TypeOK, Verdict
<1>1. CASE Spawned
    BY <1>1 DEF Spawned, Proceed
<1>2. CASE SpawnFails
    BY <1>2 DEF SpawnFails
<1>3. CASE Receive
    BY <1>3 DEF Receive, FailForState, FailBeforeFence, FailAfterFence, StopHost, Release,
       Proceed, Send, HostFailed
<1>4. CASE Sent
    BY <1>4 DEF Sent, Proceed
<1>5. CASE SendFails
    BY <1>5 DEF SendFails, FailForState, FailBeforeFence, FailAfterFence, StopHost, Release, Proceed
<1>6. CASE LauncherDeadline
    BY <1>6 DEF LauncherDeadline, FailForState, FailBeforeFence, FailAfterFence, StopHost,
       Release, Proceed
<1>7. CASE Escalate
    BY <1>7 DEF Escalate
<1>8. CASE KillWaitPasses
    BY <1>8 DEF KillWaitPasses
<1>9. CASE SeeExit
    BY <1>9 DEF SeeExit
<1>10. CASE Boot
    BY <1>10 DEF Boot, Tell
<1>11. CASE LoadFails
    BY <1>11 DEF LoadFails, Tell
<1>12. CASE BootSent
    BY <1>12 DEF BootSent
<1>13. CASE BootSendFails
    BY <1>13 DEF BootSendFails, Fail, BeginClose, CloseOwner, Tell
<1>14. CASE TakeStart
    BY <1>14 DEF TakeStart, Fail, BeginClose, CloseOwner, Tell
<1>15. CASE TakeCommit
    BY <1>15 DEF TakeCommit, Fail, BeginClose, CloseOwner, Tell
<1>16. CASE Disconnected
    BY <1>16 DEF Disconnected, BeginClose, CloseOwner
<1>17. CASE HostDeadline
    BY <1>17 DEF HostDeadline, Fail, BeginClose, CloseOwner, Tell
<1>18. CASE SignalHandled
    BY <1>18 DEF SignalHandled, BeginClose, CloseOwner
<1>19. CASE ReadySent
    BY <1>19 DEF ReadySent
<1>20. CASE ReadySendFails
    BY <1>20 DEF ReadySendFails, Fail, BeginClose, CloseOwner, Tell
<1>21. CASE HostExits
    BY <1>21 DEF HostExits, Die
<1>22. CASE HostKilled
    BY <1>22 DEF HostKilled, Die
<1>23. CASE LeaseTaken
    BY <1>23 DEF LeaseTaken
<1>24. CASE OwnerBusy
    BY <1>24 DEF OwnerBusy, Tell
<1>25. CASE OwnerOpened
    BY <1>25 DEF OwnerOpened
<1>26. CASE OwnerOpenFails
    BY <1>26 DEF OwnerOpenFails, Tell
<1>27. CASE OwnerReady
    BY <1>27 DEF OwnerReady, BeginClose, CloseOwner, Tell
<1>28. CASE OwnerCloses
    BY <1>28 DEF OwnerCloses
<1>29. CASE OwnerEnds
    BY <1>29 DEF OwnerEnds, Tell
<1>30. CASE LeaseReleased
    BY <1>30 DEF LeaseReleased
<1>31. CASE Interrupt
    BY <1>31 DEF Interrupt, FailBeforeFence, StopHost, Release
<1>32. CASE LauncherDies
    BY <1>32 DEF LauncherDies
<1>33. CASE SignalSent
    BY <1>33 DEF SignalSent
<1>34. CASE HostCrashes
    BY <1>34 DEF HostCrashes, Die
<1>35. CASE UNCHANGED vars
    BY <1>35
<1>36. QED
    BY <1>1, <1>2, <1>3, <1>4, <1>5, <1>6, <1>7, <1>8, <1>9, <1>10, <1>11, <1>12, <1>13, <1>14,
       <1>15, <1>16, <1>17, <1>18, <1>19, <1>20, <1>21, <1>22, <1>23, <1>24, <1>25, <1>26,
       <1>27, <1>28, <1>29, <1>30, <1>31, <1>32, <1>33, <1>34, <1>35
    DEF Next, LauncherStep, HostStep, OpenStep, OwnerStep, OutsideStep

(* Every step keeps ChannelInv.                                            *)
LEMMA ChannelStep == IndInv /\ [Next]_vars => ChannelInv'
<1> SUFFICES ASSUME TypeOK, AttemptInv, ChannelInv, OwnerInv, WordInv, [Next]_vars PROVE ChannelInv'
    BY DEF IndInv
<1> USE DEF AttemptInv, HostEnded, BeforeFence, AfterFence, vars, launcherVars, channelVars,
   hostVars, ownerVars, TypeOK, ChannelInv, OwnerInv
<1>1. CASE Spawned
    BY <1>1 DEF Spawned, Proceed
<1>2. CASE SpawnFails
    BY <1>2 DEF SpawnFails
<1>3. CASE Receive
  <2>1. /\ Within(toLauncher, Head(toLauncher))
        /\ UNCHANGED <<committed, owner>>
      BY <1>3, ReceiveFacts
  <2>2. CASE attempt = "awaiting-boot" /\ toHost' = Append(toHost, "start")
             /\ Proceed("sending-start")
    <3>1. toHost' = <<"start">>
        BY <2>2
    <3>2. QED
        BY <2>1, <2>2, <3>1 DEF Proceed
  <2>3. CASE attempt = "awaiting-ready" /\ Head(toLauncher) = "ready"
             /\ toHost' = Append(toHost, "commit") /\ Proceed("sending-commit")
    <3>1. owner # "none" /\ toHost = <<>>
        BY <2>1, <2>3 DEF WordInv
    <3>2. toHost' = <<"commit">>
        BY <2>3, <3>1
    <3>3. QED
        BY <2>1, <2>3, <3>1, <3>2 DEF Proceed
  <2>4. CASE UNCHANGED toHost /\ attempt' = "terminal"
      BY <2>1, <2>4
  <2>5. QED
      BY <1>3, <2>2, <2>3, <2>4, ReceiveFacts
      DEF FailForState, FailBeforeFence, FailAfterFence, HostFailed
<1>4. CASE Sent
    BY <1>4 DEF Sent, Proceed
<1>5. CASE SendFails
    BY <1>5 DEF SendFails, FailForState, FailBeforeFence, FailAfterFence, StopHost, Release, Proceed
<1>6. CASE LauncherDeadline
    BY <1>6 DEF LauncherDeadline, FailForState, FailBeforeFence, FailAfterFence, StopHost,
       Release, Proceed
<1>7. CASE Escalate
    BY <1>7 DEF Escalate
<1>8. CASE KillWaitPasses
    BY <1>8 DEF KillWaitPasses
<1>9. CASE SeeExit
    BY <1>9 DEF SeeExit
<1>10. CASE Boot
    BY <1>10 DEF Boot, Tell
<1>11. CASE LoadFails
    BY <1>11 DEF LoadFails, Tell
<1>12. CASE BootSent
    BY <1>12 DEF BootSent
<1>13. CASE BootSendFails
    BY <1>13 DEF BootSendFails, Fail, BeginClose, CloseOwner, Tell
<1>14. CASE TakeStart
    BY <1>14 DEF TakeStart, Fail, BeginClose, CloseOwner, Tell
<1>15. CASE TakeCommit
  <2>1. /\ toHost = <<"commit">> /\ toHost' = <<>> /\ UNCHANGED attempt
        /\ owner # "none" /\ attempt \notin {"spawning", "awaiting-boot"}
      BY <1>15 DEF TakeCommit
  <2>2. owner' # "none"
      BY <1>15, <2>1 DEF TakeCommit, Fail, BeginClose, CloseOwner
  <2>3. QED
      BY <2>1, <2>2
<1>16. CASE Disconnected
    BY <1>16 DEF Disconnected, BeginClose, CloseOwner
<1>17. CASE HostDeadline
    BY <1>17 DEF HostDeadline, Fail, BeginClose, CloseOwner, Tell
<1>18. CASE SignalHandled
    BY <1>18 DEF SignalHandled, BeginClose, CloseOwner
<1>19. CASE ReadySent
    BY <1>19 DEF ReadySent
<1>20. CASE ReadySendFails
    BY <1>20 DEF ReadySendFails, Fail, BeginClose, CloseOwner, Tell
<1>21. CASE HostExits
    BY <1>21 DEF HostExits, Die
<1>22. CASE HostKilled
    BY <1>22 DEF HostKilled, Die
<1>23. CASE LeaseTaken
    BY <1>23 DEF LeaseTaken
<1>24. CASE OwnerBusy
    BY <1>24 DEF OwnerBusy, Tell
<1>25. CASE OwnerOpened
    BY <1>25 DEF OwnerOpened
<1>26. CASE OwnerOpenFails
    BY <1>26 DEF OwnerOpenFails, Tell
<1>27. CASE OwnerReady
    BY <1>27 DEF OwnerReady, BeginClose, CloseOwner, Tell
<1>28. CASE OwnerCloses
    BY <1>28 DEF OwnerCloses
<1>29. CASE OwnerEnds
    BY <1>29 DEF OwnerEnds, Tell
<1>30. CASE LeaseReleased
    BY <1>30 DEF LeaseReleased
<1>31. CASE Interrupt
    BY <1>31 DEF Interrupt, FailBeforeFence, StopHost, Release
<1>32. CASE LauncherDies
    BY <1>32 DEF LauncherDies
<1>33. CASE SignalSent
    BY <1>33 DEF SignalSent
<1>34. CASE HostCrashes
    BY <1>34 DEF HostCrashes, Die
<1>35. CASE UNCHANGED vars
    BY <1>35
<1>36. QED
    BY <1>1, <1>2, <1>3, <1>4, <1>5, <1>6, <1>7, <1>8, <1>9, <1>10, <1>11, <1>12, <1>13, <1>14,
       <1>15, <1>16, <1>17, <1>18, <1>19, <1>20, <1>21, <1>22, <1>23, <1>24, <1>25, <1>26,
       <1>27, <1>28, <1>29, <1>30, <1>31, <1>32, <1>33, <1>34, <1>35
    DEF Next, LauncherStep, HostStep, OpenStep, OwnerStep, OutsideStep

(* Every step keeps OwnerInv.                                              *)
LEMMA OwnerInvStep == IndInv /\ [Next]_vars => OwnerInv'
<1> SUFFICES ASSUME TypeOK, AttemptInv, ChannelInv, OwnerInv, [Next]_vars PROVE OwnerInv'
    BY DEF IndInv
<1> USE DEF AttemptInv, HostEnded, BeforeFence, AfterFence, vars, launcherVars, channelVars,
   hostVars, ownerVars, TypeOK, ChannelInv, OwnerInv, Cleanups
<1>1. CASE Spawned
    BY <1>1 DEF Spawned, Proceed
<1>2. CASE SpawnFails
    BY <1>2 DEF SpawnFails
<1>3. CASE Receive
    BY <1>3 DEF Receive, FailForState, FailBeforeFence, FailAfterFence, StopHost, Release,
       Proceed, Send, HostFailed
<1>4. CASE Sent
    BY <1>4 DEF Sent, Proceed
<1>5. CASE SendFails
    BY <1>5 DEF SendFails, FailForState, FailBeforeFence, FailAfterFence, StopHost, Release, Proceed
<1>6. CASE LauncherDeadline
    BY <1>6 DEF LauncherDeadline, FailForState, FailBeforeFence, FailAfterFence, StopHost,
       Release, Proceed
<1>7. CASE Escalate
    BY <1>7 DEF Escalate
<1>8. CASE KillWaitPasses
    BY <1>8 DEF KillWaitPasses
<1>9. CASE SeeExit
    BY <1>9 DEF SeeExit
<1>10. CASE Boot
    BY <1>10 DEF Boot, Tell
<1>11. CASE LoadFails
    BY <1>11 DEF LoadFails, Tell
<1>12. CASE BootSent
    BY <1>12 DEF BootSent
<1>13. CASE BootSendFails
    BY <1>13 DEF BootSendFails, Fail, BeginClose, CloseOwner, Tell
<1>14. CASE TakeStart
    BY <1>14 DEF TakeStart, Fail, BeginClose, CloseOwner, Tell
<1>15. CASE TakeCommit
    BY <1>15 DEF TakeCommit, Fail, BeginClose, CloseOwner, Tell
<1>16. CASE Disconnected
    BY <1>16 DEF Disconnected, BeginClose, CloseOwner
<1>17. CASE HostDeadline
    BY <1>17 DEF HostDeadline, Fail, BeginClose, CloseOwner, Tell
<1>18. CASE SignalHandled
    BY <1>18 DEF SignalHandled, BeginClose, CloseOwner
<1>19. CASE ReadySent
    BY <1>19 DEF ReadySent
<1>20. CASE ReadySendFails
    BY <1>20 DEF ReadySendFails, Fail, BeginClose, CloseOwner, Tell
<1>21. CASE HostExits
    BY <1>21 DEF HostExits, Die
<1>22. CASE HostKilled
    BY <1>22 DEF HostKilled, Die
<1>23. CASE LeaseTaken
    BY <1>23 DEF LeaseTaken
<1>24. CASE OwnerBusy
    BY <1>24 DEF OwnerBusy, Tell
<1>25. CASE OwnerOpened
    BY <1>25 DEF OwnerOpened
<1>26. CASE OwnerOpenFails
    BY <1>26 DEF OwnerOpenFails, Tell
<1>27. CASE OwnerReady
    BY <1>27 DEF OwnerReady, BeginClose, CloseOwner, Tell
<1>28. CASE OwnerCloses
    BY <1>28 DEF OwnerCloses
<1>29. CASE OwnerEnds
    BY <1>29 DEF OwnerEnds, Tell
<1>30. CASE LeaseReleased
    BY <1>30 DEF LeaseReleased
<1>31. CASE Interrupt
    BY <1>31 DEF Interrupt, FailBeforeFence, StopHost, Release
<1>32. CASE LauncherDies
    BY <1>32 DEF LauncherDies
<1>33. CASE SignalSent
    BY <1>33 DEF SignalSent
<1>34. CASE HostCrashes
    BY <1>34 DEF HostCrashes, Die
<1>35. CASE UNCHANGED vars
    BY <1>35
<1>36. QED
    BY <1>1, <1>2, <1>3, <1>4, <1>5, <1>6, <1>7, <1>8, <1>9, <1>10, <1>11, <1>12, <1>13, <1>14,
       <1>15, <1>16, <1>17, <1>18, <1>19, <1>20, <1>21, <1>22, <1>23, <1>24, <1>25, <1>26,
       <1>27, <1>28, <1>29, <1>30, <1>31, <1>32, <1>33, <1>34, <1>35
    DEF Next, LauncherStep, HostStep, OpenStep, OwnerStep, OutsideStep

(* Every step keeps WordInv.                                               *)
LEMMA WordStep == IndInv /\ [Next]_vars => WordInv'
<1> SUFFICES ASSUME TypeOK, AttemptInv, ChannelInv, OwnerInv, WordInv, [Next]_vars PROVE WordInv'
    BY DEF IndInv
<1> USE DEF AttemptInv, HostEnded, BeforeFence, AfterFence, vars, launcherVars, channelVars,
   hostVars, ownerVars, OwnerInv, WordInv, Cleanups
<1>1. CASE Spawned
    BY <1>1 DEF Spawned, Proceed
<1>2. CASE SpawnFails
    BY <1>2 DEF SpawnFails
<1>3. CASE Receive
  <2>1. /\ \A m : Within(toLauncher', m) => Within(toLauncher, m)
        /\ UNCHANGED <<committed, owner, outcome>>
      BY <1>3, ReceiveFacts
  <2>2. QED
      BY <2>1
<1>4. CASE Sent
    BY <1>4 DEF Sent, Proceed
<1>5. CASE SendFails
    BY <1>5 DEF SendFails, FailForState, FailBeforeFence, FailAfterFence, StopHost, Release, Proceed
<1>6. CASE LauncherDeadline
    BY <1>6 DEF LauncherDeadline, FailForState, FailBeforeFence, FailAfterFence, StopHost,
       Release, Proceed
<1>7. CASE Escalate
    BY <1>7 DEF Escalate
<1>8. CASE KillWaitPasses
    BY <1>8 DEF KillWaitPasses
<1>9. CASE SeeExit
    BY <1>9 DEF SeeExit
<1>10. CASE Boot
  <2>1. Tells({"booted"})
      BY <1>10 DEF Boot, Tells
  <2>2. \A m : Within(toLauncher', m) => Within(toLauncher, m) \/ m \in {"booted"}
      BY <2>1, TellsFacts DEF ChildMessages, Failures
  <2>3. QED
      BY <1>10, <2>2 DEF Boot
<1>11. CASE LoadFails
  <2>1. Tells({"failed"})
      BY <1>11 DEF LoadFails, Tells
  <2>2. \A m : Within(toLauncher', m) => Within(toLauncher, m) \/ m \in {"failed"}
      BY <2>1, TellsFacts DEF ChildMessages, Failures
  <2>3. QED
      BY <1>11, <2>2 DEF LoadFails
<1>12. CASE BootSent
    BY <1>12 DEF BootSent
<1>13. CASE BootSendFails
  <2>1. Tells({"failed"})
      BY <1>13 DEF BootSendFails, Fail, Tells
  <2>2. \A m : Within(toLauncher', m) => Within(toLauncher, m) \/ m \in {"failed"}
      BY <2>1, TellsFacts DEF ChildMessages, Failures
  <2>3. QED
      BY <1>13, <2>2 DEF BootSendFails, Fail, BeginClose, CloseOwner
<1>14. CASE TakeStart
  <2>1. Tells({"failed"})
      BY <1>14 DEF TakeStart, Fail, Tells
  <2>2. \A m : Within(toLauncher', m) => Within(toLauncher, m) \/ m \in {"failed"}
      BY <2>1, TellsFacts DEF ChildMessages, Failures
  <2>3. QED
      BY <1>14, <2>2 DEF TakeStart, Fail, BeginClose, CloseOwner
<1>15. CASE TakeCommit
  <2>1. CASE committed'
    <3>1. Tells({"committed", "failed"})
        BY <1>15 DEF TakeCommit, Fail, Tells
    <3>2. \A m : Within(toLauncher', m) => Within(toLauncher, m) \/ m \in {"committed", "failed"}
        BY <3>1, TellsFacts DEF ChildMessages, Failures
    <3>3. /\ owner # "none" => owner' # "none"
          /\ owner = "busy" => owner' = "busy"
          /\ outcome' = outcome
        BY <1>15 DEF TakeCommit, Fail, BeginClose, CloseOwner
    <3>4. QED
        BY <2>1, <3>2, <3>3
  <2>2. CASE ~committed'
    <3>1. Tells({"failed"})
        BY <1>15, <2>2 DEF TakeCommit, Fail, Tells
    <3>2. \A m : Within(toLauncher', m) => Within(toLauncher, m) \/ m = "failed"
        BY <3>1, TellsFacts DEF ChildMessages, Failures
    <3>3. QED
        BY <1>15, <2>2, <3>2 DEF TakeCommit, Fail, BeginClose, CloseOwner
  <2>3. QED
      BY <2>1, <2>2
<1>16. CASE Disconnected
    BY <1>16 DEF Disconnected, BeginClose, CloseOwner
<1>17. CASE HostDeadline
  <2>1. Tells({"failed"})
      BY <1>17 DEF HostDeadline, Fail, Tells
  <2>2. \A m : Within(toLauncher', m) => Within(toLauncher, m) \/ m \in {"failed"}
      BY <2>1, TellsFacts DEF ChildMessages, Failures
  <2>3. QED
      BY <1>17, <2>2 DEF HostDeadline, Fail, BeginClose, CloseOwner
<1>18. CASE SignalHandled
    BY <1>18 DEF SignalHandled, BeginClose, CloseOwner
<1>19. CASE ReadySent
    BY <1>19 DEF ReadySent
<1>20. CASE ReadySendFails
  <2>1. Tells({"failed"})
      BY <1>20 DEF ReadySendFails, Fail, Tells
  <2>2. \A m : Within(toLauncher', m) => Within(toLauncher, m) \/ m \in {"failed"}
      BY <2>1, TellsFacts DEF ChildMessages, Failures
  <2>3. QED
      BY <1>20, <2>2 DEF ReadySendFails, Fail, BeginClose, CloseOwner
<1>21. CASE HostExits
    BY <1>21 DEF HostExits, Die
<1>22. CASE HostKilled
    BY <1>22 DEF HostKilled, Die
<1>23. CASE LeaseTaken
    BY <1>23 DEF LeaseTaken
<1>24. CASE OwnerBusy
  <2>1. Tells({"busy"})
      BY <1>24 DEF OwnerBusy, Tells
  <2>2. \A m : Within(toLauncher', m) => Within(toLauncher, m) \/ m \in {"busy"}
      BY <2>1, TellsFacts DEF ChildMessages, Failures
  <2>3. QED
      BY <1>24, <2>2 DEF OwnerBusy
<1>25. CASE OwnerOpened
    BY <1>25 DEF OwnerOpened
<1>26. CASE OwnerOpenFails
  <2>1. Tells({"failed"})
      BY <1>26 DEF OwnerOpenFails, Tells
  <2>2. \A m : Within(toLauncher', m) => Within(toLauncher, m) \/ m \in {"failed"}
      BY <2>1, TellsFacts DEF ChildMessages, Failures
  <2>3. QED
      BY <1>26, <2>2 DEF OwnerOpenFails
<1>27. CASE OwnerReady
  <2>1. Tells({"ready"})
      BY <1>27 DEF OwnerReady, Tells
  <2>2. \A m : Within(toLauncher', m) => Within(toLauncher, m) \/ m \in {"ready"}
      BY <2>1, TellsFacts DEF ChildMessages, Failures
  <2>3. QED
      BY <1>27, <2>2 DEF OwnerReady, BeginClose, CloseOwner
<1>28. CASE OwnerCloses
    BY <1>28 DEF OwnerCloses
<1>29. CASE OwnerEnds
  <2>1. /\ owner = "closing" /\ outcome' \in {"stopped"} \cup Cleanups
        /\ IF outcome' = "stopped" THEN UNCHANGED toLauncher ELSE Tell(outcome')
        /\ UNCHANGED committed /\ owner' = "over"
      BY <1>29 DEF OwnerEnds
  <2>2. Tells({outcome'} \ {"stopped"})
      BY <2>1 DEF Tells
  <2>3. \A m : Within(toLauncher', m) => Within(toLauncher, m) \/ m = outcome'
      BY <2>1, <2>2, TellsFacts DEF ChildMessages, Failures
  <2>4. QED
      BY <2>1, <2>3
<1>30. CASE LeaseReleased
    BY <1>30 DEF LeaseReleased
<1>31. CASE Interrupt
    BY <1>31 DEF Interrupt, FailBeforeFence, StopHost, Release
<1>32. CASE LauncherDies
    BY <1>32 DEF LauncherDies
<1>33. CASE SignalSent
    BY <1>33 DEF SignalSent
<1>34. CASE HostCrashes
    BY <1>34 DEF HostCrashes, Die
<1>35. CASE UNCHANGED vars
    BY <1>35
<1>36. QED
    BY <1>1, <1>2, <1>3, <1>4, <1>5, <1>6, <1>7, <1>8, <1>9, <1>10, <1>11, <1>12, <1>13, <1>14,
       <1>15, <1>16, <1>17, <1>18, <1>19, <1>20, <1>21, <1>22, <1>23, <1>24, <1>25, <1>26,
       <1>27, <1>28, <1>29, <1>30, <1>31, <1>32, <1>33, <1>34, <1>35
    DEF Next, LauncherStep, HostStep, OpenStep, OwnerStep, OutsideStep

(* Every step keeps VerdictInv.                                            *)
LEMMA VerdictStep == IndInv /\ [Next]_vars => VerdictInv'
<1> SUFFICES ASSUME TypeOK, AttemptInv, OwnerInv, WordInv, VerdictInv, [Next]_vars PROVE VerdictInv'
    BY DEF IndInv
<1> USE DEF AttemptInv, HostEnded, BeforeFence, AfterFence, vars, launcherVars, channelVars,
   hostVars, ownerVars, TypeOK, OwnerInv, VerdictInv, VerdictIsTrue, Verdict, Cleanups, Failures
<1>1. CASE Spawned
    BY <1>1 DEF Spawned, Proceed
<1>2. CASE SpawnFails
    BY <1>2 DEF SpawnFails
<1>3. CASE Receive
  <2>1. /\ Within(toLauncher, Head(toLauncher)) /\ Head(toLauncher) \in ChildMessages
        /\ attempt \in BeforeFence \cup AfterFence
        /\ UNCHANGED <<host, committed, owner, outcome, lease>>
      BY <1>3, ReceiveFacts
  <2>2. killer = "none" /\ ~reported /\ ~exitSeen
      BY <2>1
  <2>3. ASSUME NEW state, Proceed(state) PROVE VerdictInv'
      BY <2>1, <2>3 DEF Proceed
  <2>4. CASE HostFailed(Head(toLauncher)) /\ Head(toLauncher) \in Failures
    <3>1. /\ Head(toLauncher) = "busy" => owner = "busy"
          /\ Head(toLauncher) = "completed" => outcome = "completed"
        BY <2>1 DEF WordInv
    <3>2. QED
        BY <2>1, <2>2, <2>4, <3>1 DEF HostFailed, FailAfterFence, Release
  <2>5. CASE Head(toLauncher) = "committed" /\ FailAfterFence("started", "none")
    <3>1. committed
        BY <2>1, <2>5 DEF WordInv
    <3>2. QED
        BY <2>1, <2>2, <2>5, <3>1 DEF FailAfterFence, Release
  <2>6. CASE FailForState
      BY <2>1, <2>2, <2>6 DEF FailForState, FailBeforeFence, FailAfterFence, StopHost, Release
  <2>7. QED
      BY <1>3, <2>3, <2>4, <2>5, <2>6, ReceiveFacts
<1>4. CASE Sent
    BY <1>4 DEF Sent, Proceed
<1>5. CASE SendFails
    BY <1>5 DEF SendFails, FailForState, FailBeforeFence, FailAfterFence, StopHost, Release, Proceed
<1>6. CASE LauncherDeadline
    BY <1>6 DEF LauncherDeadline, FailForState, FailBeforeFence, FailAfterFence, StopHost,
       Release, Proceed
<1>7. CASE Escalate
    BY <1>7 DEF Escalate
<1>8. CASE KillWaitPasses
    BY <1>8 DEF KillWaitPasses
<1>9. CASE SeeExit
    BY <1>9 DEF SeeExit
<1>10. CASE Boot
    BY <1>10 DEF Boot, Tell
<1>11. CASE LoadFails
    BY <1>11 DEF LoadFails, Tell
<1>12. CASE BootSent
    BY <1>12 DEF BootSent
<1>13. CASE BootSendFails
    BY <1>13 DEF BootSendFails, Fail, BeginClose, CloseOwner, Tell
<1>14. CASE TakeStart
    BY <1>14 DEF TakeStart, Fail, BeginClose, CloseOwner, Tell
<1>15. CASE TakeCommit
    BY <1>15 DEF TakeCommit, Fail, BeginClose, CloseOwner, Tell
<1>16. CASE Disconnected
    BY <1>16 DEF Disconnected, BeginClose, CloseOwner
<1>17. CASE HostDeadline
    BY <1>17 DEF HostDeadline, Fail, BeginClose, CloseOwner, Tell
<1>18. CASE SignalHandled
    BY <1>18 DEF SignalHandled, BeginClose, CloseOwner
<1>19. CASE ReadySent
    BY <1>19 DEF ReadySent
<1>20. CASE ReadySendFails
    BY <1>20 DEF ReadySendFails, Fail, BeginClose, CloseOwner, Tell
<1>21. CASE HostExits
    BY <1>21 DEF HostExits, Die
<1>22. CASE HostKilled
    BY <1>22 DEF HostKilled, Die
<1>23. CASE LeaseTaken
    BY <1>23 DEF LeaseTaken
<1>24. CASE OwnerBusy
    BY <1>24 DEF OwnerBusy, Tell
<1>25. CASE OwnerOpened
    BY <1>25 DEF OwnerOpened
<1>26. CASE OwnerOpenFails
    BY <1>26 DEF OwnerOpenFails, Tell
<1>27. CASE OwnerReady
    BY <1>27 DEF OwnerReady, BeginClose, CloseOwner, Tell
<1>28. CASE OwnerCloses
    BY <1>28 DEF OwnerCloses
<1>29. CASE OwnerEnds
    BY <1>29 DEF OwnerEnds, Tell
<1>30. CASE LeaseReleased
    BY <1>30 DEF LeaseReleased
<1>31. CASE Interrupt
    BY <1>31 DEF Interrupt, FailBeforeFence, StopHost, Release
<1>32. CASE LauncherDies
    BY <1>32 DEF LauncherDies
<1>33. CASE SignalSent
    BY <1>33 DEF SignalSent
<1>34. CASE HostCrashes
    BY <1>34 DEF HostCrashes, Die
<1>35. CASE UNCHANGED vars
    BY <1>35
<1>36. QED
    BY <1>1, <1>2, <1>3, <1>4, <1>5, <1>6, <1>7, <1>8, <1>9, <1>10, <1>11, <1>12, <1>13, <1>14,
       <1>15, <1>16, <1>17, <1>18, <1>19, <1>20, <1>21, <1>22, <1>23, <1>24, <1>25, <1>26,
       <1>27, <1>28, <1>29, <1>30, <1>31, <1>32, <1>33, <1>34, <1>35
    DEF Next, LauncherStep, HostStep, OpenStep, OwnerStep, OutsideStep

(* Every step keeps the flags true or false.                               *)
LEMMA FlagStep == IndInv /\ [Next]_vars => Flags'
<1> SUFFICES ASSUME TypeOK, AttemptInv, [Next]_vars PROVE Flags'
    BY DEF IndInv
<1> USE DEF HostEnded, BeforeFence, AfterFence, vars, launcherVars, channelVars, hostVars,
   ownerVars, TypeOK, Flags
<1>1. CASE Spawned
    BY <1>1 DEF Spawned, Proceed
<1>2. CASE SpawnFails
    BY <1>2 DEF SpawnFails
<1>3. CASE Receive
    BY <1>3 DEF Receive, FailForState, FailBeforeFence, FailAfterFence, StopHost, Release,
       Proceed, Send, HostFailed
<1>4. CASE Sent
    BY <1>4 DEF Sent, Proceed
<1>5. CASE SendFails
    BY <1>5 DEF SendFails, FailForState, FailBeforeFence, FailAfterFence, StopHost, Release, Proceed
<1>6. CASE LauncherDeadline
    BY <1>6 DEF LauncherDeadline, FailForState, FailBeforeFence, FailAfterFence, StopHost,
       Release, Proceed
<1>7. CASE Escalate
    BY <1>7 DEF Escalate
<1>8. CASE KillWaitPasses
    BY <1>8 DEF KillWaitPasses
<1>9. CASE SeeExit
    BY <1>9 DEF SeeExit
<1>10. CASE Boot
    BY <1>10 DEF Boot, Tell
<1>11. CASE LoadFails
    BY <1>11 DEF LoadFails, Tell
<1>12. CASE BootSent
    BY <1>12 DEF BootSent
<1>13. CASE BootSendFails
    BY <1>13 DEF BootSendFails, Fail, BeginClose, CloseOwner, Tell
<1>14. CASE TakeStart
    BY <1>14 DEF TakeStart, Fail, BeginClose, CloseOwner, Tell
<1>15. CASE TakeCommit
    BY <1>15 DEF TakeCommit, Fail, BeginClose, CloseOwner, Tell
<1>16. CASE Disconnected
    BY <1>16 DEF Disconnected, BeginClose, CloseOwner
<1>17. CASE HostDeadline
    BY <1>17 DEF HostDeadline, Fail, BeginClose, CloseOwner, Tell
<1>18. CASE SignalHandled
    BY <1>18 DEF SignalHandled, BeginClose, CloseOwner
<1>19. CASE ReadySent
    BY <1>19 DEF ReadySent
<1>20. CASE ReadySendFails
    BY <1>20 DEF ReadySendFails, Fail, BeginClose, CloseOwner, Tell
<1>21. CASE HostExits
    BY <1>21 DEF HostExits, Die
<1>22. CASE HostKilled
    BY <1>22 DEF HostKilled, Die
<1>23. CASE LeaseTaken
    BY <1>23 DEF LeaseTaken
<1>24. CASE OwnerBusy
    BY <1>24 DEF OwnerBusy, Tell
<1>25. CASE OwnerOpened
    BY <1>25 DEF OwnerOpened
<1>26. CASE OwnerOpenFails
    BY <1>26 DEF OwnerOpenFails, Tell
<1>27. CASE OwnerReady
    BY <1>27 DEF OwnerReady, BeginClose, CloseOwner, Tell
<1>28. CASE OwnerCloses
    BY <1>28 DEF OwnerCloses
<1>29. CASE OwnerEnds
    BY <1>29 DEF OwnerEnds, Tell
<1>30. CASE LeaseReleased
    BY <1>30 DEF LeaseReleased
<1>31. CASE Interrupt
    BY <1>31 DEF Interrupt, FailBeforeFence, StopHost, Release
<1>32. CASE LauncherDies
    BY <1>32 DEF LauncherDies
<1>33. CASE SignalSent
    BY <1>33 DEF SignalSent
<1>34. CASE HostCrashes
    BY <1>34 DEF HostCrashes, Die
<1>35. CASE UNCHANGED vars
    BY <1>35
<1>36. QED
    BY <1>1, <1>2, <1>3, <1>4, <1>5, <1>6, <1>7, <1>8, <1>9, <1>10, <1>11, <1>12, <1>13, <1>14,
       <1>15, <1>16, <1>17, <1>18, <1>19, <1>20, <1>21, <1>22, <1>23, <1>24, <1>25, <1>26,
       <1>27, <1>28, <1>29, <1>30, <1>31, <1>32, <1>33, <1>34, <1>35
    DEF Next, LauncherStep, HostStep, OpenStep, OwnerStep, OutsideStep

(* Every step sends the launcher what it understands.                      *)
LEMMA WordsStep == IndInv /\ [Next]_vars => Words'
<1> SUFFICES ASSUME TypeOK, AttemptInv, [Next]_vars PROVE Words'
    BY DEF IndInv
<1> USE DEF HostEnded, BeforeFence, AfterFence, vars, launcherVars, channelVars, hostVars,
   ownerVars, Words
<1>0. Words
    BY DEF TypeOK, Words
<1>1. CASE Spawned
    BY <1>1, <1>0 DEF Spawned, Proceed
<1>2. CASE SpawnFails
    BY <1>2, <1>0 DEF SpawnFails
<1>3. CASE Receive
    BY <1>3, ReceiveFacts
<1>4. CASE Sent
    BY <1>4, <1>0 DEF Sent, Proceed
<1>5. CASE SendFails
    BY <1>5, <1>0 DEF SendFails, FailForState, FailBeforeFence, FailAfterFence, StopHost,
       Release, Proceed
<1>6. CASE LauncherDeadline
    BY <1>6, <1>0 DEF LauncherDeadline, FailForState, FailBeforeFence, FailAfterFence, StopHost,
       Release, Proceed
<1>7. CASE Escalate
    BY <1>7, <1>0 DEF Escalate
<1>8. CASE KillWaitPasses
    BY <1>8, <1>0 DEF KillWaitPasses
<1>9. CASE SeeExit
    BY <1>9, <1>0 DEF SeeExit
<1>10. CASE Boot
  <2>1. Tells({"booted"})
      BY <1>10 DEF Boot, Tells
  <2>2. QED
      BY <2>1, TellsFacts DEF ChildMessages, Failures
<1>11. CASE LoadFails
  <2>1. Tells({"failed"})
      BY <1>11 DEF LoadFails, Tells
  <2>2. QED
      BY <2>1, TellsFacts DEF ChildMessages, Failures
<1>12. CASE BootSent
    BY <1>12, <1>0 DEF BootSent
<1>13. CASE BootSendFails
  <2>1. Tells({"failed"})
      BY <1>13 DEF BootSendFails, Fail, Tells
  <2>2. QED
      BY <2>1, TellsFacts DEF ChildMessages, Failures
<1>14. CASE TakeStart
  <2>1. Tells({"failed"})
      BY <1>14 DEF TakeStart, Fail, Tells
  <2>2. QED
      BY <2>1, TellsFacts DEF ChildMessages, Failures
<1>15. CASE TakeCommit
  <2>1. Tells({"committed", "failed"})
      BY <1>15 DEF TakeCommit, Fail, Tells
  <2>2. QED
      BY <2>1, TellsFacts DEF ChildMessages, Failures
<1>16. CASE Disconnected
    BY <1>16, <1>0 DEF Disconnected, BeginClose, CloseOwner
<1>17. CASE HostDeadline
  <2>1. Tells({"failed"})
      BY <1>17 DEF HostDeadline, Fail, Tells
  <2>2. QED
      BY <2>1, TellsFacts DEF ChildMessages, Failures
<1>18. CASE SignalHandled
    BY <1>18, <1>0 DEF SignalHandled, BeginClose, CloseOwner
<1>19. CASE ReadySent
    BY <1>19, <1>0 DEF ReadySent
<1>20. CASE ReadySendFails
  <2>1. Tells({"failed"})
      BY <1>20 DEF ReadySendFails, Fail, Tells
  <2>2. QED
      BY <2>1, TellsFacts DEF ChildMessages, Failures
<1>21. CASE HostExits
    BY <1>21, <1>0 DEF HostExits, Die
<1>22. CASE HostKilled
    BY <1>22, <1>0 DEF HostKilled, Die
<1>23. CASE LeaseTaken
    BY <1>23, <1>0 DEF LeaseTaken
<1>24. CASE OwnerBusy
  <2>1. Tells({"busy"})
      BY <1>24 DEF OwnerBusy, Tells
  <2>2. QED
      BY <2>1, TellsFacts DEF ChildMessages, Failures
<1>25. CASE OwnerOpened
    BY <1>25, <1>0 DEF OwnerOpened
<1>26. CASE OwnerOpenFails
  <2>1. Tells({"failed"})
      BY <1>26 DEF OwnerOpenFails, Tells
  <2>2. QED
      BY <2>1, TellsFacts DEF ChildMessages, Failures
<1>27. CASE OwnerReady
  <2>1. Tells({"ready"})
      BY <1>27 DEF OwnerReady, Tells
  <2>2. QED
      BY <2>1, TellsFacts DEF ChildMessages, Failures
<1>28. CASE OwnerCloses
    BY <1>28, <1>0 DEF OwnerCloses
<1>29. CASE OwnerEnds
  <2>1. Tells(Cleanups)
      BY <1>29 DEF OwnerEnds, Tells, Cleanups
  <2>2. QED
      BY <2>1, TellsFacts DEF ChildMessages, Failures
<1>30. CASE LeaseReleased
    BY <1>30, <1>0 DEF LeaseReleased
<1>31. CASE Interrupt
    BY <1>31, <1>0 DEF Interrupt, FailBeforeFence, StopHost, Release
<1>32. CASE LauncherDies
    BY <1>32, <1>0 DEF LauncherDies
<1>33. CASE SignalSent
    BY <1>33, <1>0 DEF SignalSent
<1>34. CASE HostCrashes
    BY <1>34, <1>0 DEF HostCrashes, Die
<1>35. CASE UNCHANGED vars
    BY <1>35, <1>0
<1>36. QED
    BY <1>1, <1>2, <1>3, <1>4, <1>5, <1>6, <1>7, <1>8, <1>9, <1>10, <1>11, <1>12, <1>13, <1>14,
       <1>15, <1>16, <1>17, <1>18, <1>19, <1>20, <1>21, <1>22, <1>23, <1>24, <1>25, <1>26,
       <1>27, <1>28, <1>29, <1>30, <1>31, <1>32, <1>33, <1>34, <1>35
    DEF Next, LauncherStep, HostStep, OpenStep, OwnerStep, OutsideStep

(* Every step keeps the verdict one of Verdicts.                           *)
LEMMA ClaimStep == IndInv /\ [Next]_vars => Claim'
<1> SUFFICES ASSUME TypeOK, AttemptInv, [Next]_vars PROVE Claim'
    BY DEF IndInv
<1> USE DEF AttemptInv, HostEnded, BeforeFence, AfterFence, vars, launcherVars, channelVars,
   hostVars, ownerVars, TypeOK, Claim, Verdict, Verdicts, Cleanups, Failures
<1>1. CASE Spawned
    BY <1>1 DEF Spawned, Proceed
<1>2. CASE SpawnFails
    BY <1>2 DEF SpawnFails
<1>3. CASE Receive
    BY <1>3 DEF Receive, FailForState, FailBeforeFence, FailAfterFence, StopHost, Release,
       Proceed, Send, HostFailed
<1>4. CASE Sent
    BY <1>4 DEF Sent, Proceed
<1>5. CASE SendFails
    BY <1>5 DEF SendFails, FailForState, FailBeforeFence, FailAfterFence, StopHost, Release, Proceed
<1>6. CASE LauncherDeadline
    BY <1>6 DEF LauncherDeadline, FailForState, FailBeforeFence, FailAfterFence, StopHost,
       Release, Proceed
<1>7. CASE Escalate
    BY <1>7 DEF Escalate
<1>8. CASE KillWaitPasses
    BY <1>8 DEF KillWaitPasses
<1>9. CASE SeeExit
    BY <1>9 DEF SeeExit
<1>10. CASE Boot
    BY <1>10 DEF Boot, Tell
<1>11. CASE LoadFails
    BY <1>11 DEF LoadFails, Tell
<1>12. CASE BootSent
    BY <1>12 DEF BootSent
<1>13. CASE BootSendFails
    BY <1>13 DEF BootSendFails, Fail, BeginClose, CloseOwner, Tell
<1>14. CASE TakeStart
    BY <1>14 DEF TakeStart, Fail, BeginClose, CloseOwner, Tell
<1>15. CASE TakeCommit
    BY <1>15 DEF TakeCommit, Fail, BeginClose, CloseOwner, Tell
<1>16. CASE Disconnected
    BY <1>16 DEF Disconnected, BeginClose, CloseOwner
<1>17. CASE HostDeadline
    BY <1>17 DEF HostDeadline, Fail, BeginClose, CloseOwner, Tell
<1>18. CASE SignalHandled
    BY <1>18 DEF SignalHandled, BeginClose, CloseOwner
<1>19. CASE ReadySent
    BY <1>19 DEF ReadySent
<1>20. CASE ReadySendFails
    BY <1>20 DEF ReadySendFails, Fail, BeginClose, CloseOwner, Tell
<1>21. CASE HostExits
    BY <1>21 DEF HostExits, Die
<1>22. CASE HostKilled
    BY <1>22 DEF HostKilled, Die
<1>23. CASE LeaseTaken
    BY <1>23 DEF LeaseTaken
<1>24. CASE OwnerBusy
    BY <1>24 DEF OwnerBusy, Tell
<1>25. CASE OwnerOpened
    BY <1>25 DEF OwnerOpened
<1>26. CASE OwnerOpenFails
    BY <1>26 DEF OwnerOpenFails, Tell
<1>27. CASE OwnerReady
    BY <1>27 DEF OwnerReady, BeginClose, CloseOwner, Tell
<1>28. CASE OwnerCloses
    BY <1>28 DEF OwnerCloses
<1>29. CASE OwnerEnds
    BY <1>29 DEF OwnerEnds, Tell
<1>30. CASE LeaseReleased
    BY <1>30 DEF LeaseReleased
<1>31. CASE Interrupt
    BY <1>31 DEF Interrupt, FailBeforeFence, StopHost, Release
<1>32. CASE LauncherDies
    BY <1>32 DEF LauncherDies
<1>33. CASE SignalSent
    BY <1>33 DEF SignalSent
<1>34. CASE HostCrashes
    BY <1>34 DEF HostCrashes, Die
<1>35. CASE UNCHANGED vars
    BY <1>35
<1>36. QED
    BY <1>1, <1>2, <1>3, <1>4, <1>5, <1>6, <1>7, <1>8, <1>9, <1>10, <1>11, <1>12, <1>13, <1>14,
       <1>15, <1>16, <1>17, <1>18, <1>19, <1>20, <1>21, <1>22, <1>23, <1>24, <1>25, <1>26,
       <1>27, <1>28, <1>29, <1>30, <1>31, <1>32, <1>33, <1>34, <1>35
    DEF Next, LauncherStep, HostStep, OpenStep, OwnerStep, OutsideStep

(* Every step keeps the two processes and the owner at one of their stages. *)
LEMMA StageStep == IndInv /\ [Next]_vars => Stages'
<1> SUFFICES ASSUME TypeOK, [Next]_vars PROVE Stages'
    BY DEF IndInv
<1> USE DEF HostEnded, BeforeFence, AfterFence, vars, launcherVars, channelVars, hostVars,
   ownerVars, TypeOK, Stages, Cleanups
<1>1. CASE Spawned
    BY <1>1 DEF Spawned, Proceed
<1>2. CASE SpawnFails
    BY <1>2 DEF SpawnFails
<1>3. CASE Receive
    BY <1>3 DEF Receive, FailForState, FailBeforeFence, FailAfterFence, StopHost, Release,
       Proceed, Send, HostFailed
<1>4. CASE Sent
    BY <1>4 DEF Sent, Proceed
<1>5. CASE SendFails
    BY <1>5 DEF SendFails, FailForState, FailBeforeFence, FailAfterFence, StopHost, Release, Proceed
<1>6. CASE LauncherDeadline
    BY <1>6 DEF LauncherDeadline, FailForState, FailBeforeFence, FailAfterFence, StopHost,
       Release, Proceed
<1>7. CASE Escalate
    BY <1>7 DEF Escalate
<1>8. CASE KillWaitPasses
    BY <1>8 DEF KillWaitPasses
<1>9. CASE SeeExit
    BY <1>9 DEF SeeExit
<1>10. CASE Boot
    BY <1>10 DEF Boot, Tell
<1>11. CASE LoadFails
    BY <1>11 DEF LoadFails, Tell
<1>12. CASE BootSent
    BY <1>12 DEF BootSent
<1>13. CASE BootSendFails
    BY <1>13 DEF BootSendFails, Fail, BeginClose, CloseOwner, Tell
<1>14. CASE TakeStart
    BY <1>14 DEF TakeStart, Fail, BeginClose, CloseOwner, Tell
<1>15. CASE TakeCommit
    BY <1>15 DEF TakeCommit, Fail, BeginClose, CloseOwner, Tell
<1>16. CASE Disconnected
    BY <1>16 DEF Disconnected, BeginClose, CloseOwner
<1>17. CASE HostDeadline
    BY <1>17 DEF HostDeadline, Fail, BeginClose, CloseOwner, Tell
<1>18. CASE SignalHandled
    BY <1>18 DEF SignalHandled, BeginClose, CloseOwner
<1>19. CASE ReadySent
    BY <1>19 DEF ReadySent
<1>20. CASE ReadySendFails
    BY <1>20 DEF ReadySendFails, Fail, BeginClose, CloseOwner, Tell
<1>21. CASE HostExits
    BY <1>21 DEF HostExits, Die
<1>22. CASE HostKilled
    BY <1>22 DEF HostKilled, Die
<1>23. CASE LeaseTaken
    BY <1>23 DEF LeaseTaken
<1>24. CASE OwnerBusy
    BY <1>24 DEF OwnerBusy, Tell
<1>25. CASE OwnerOpened
    BY <1>25 DEF OwnerOpened
<1>26. CASE OwnerOpenFails
    BY <1>26 DEF OwnerOpenFails, Tell
<1>27. CASE OwnerReady
    BY <1>27 DEF OwnerReady, BeginClose, CloseOwner, Tell
<1>28. CASE OwnerCloses
    BY <1>28 DEF OwnerCloses
<1>29. CASE OwnerEnds
    BY <1>29 DEF OwnerEnds, Tell
<1>30. CASE LeaseReleased
    BY <1>30 DEF LeaseReleased
<1>31. CASE Interrupt
    BY <1>31 DEF Interrupt, FailBeforeFence, StopHost, Release
<1>32. CASE LauncherDies
    BY <1>32 DEF LauncherDies
<1>33. CASE SignalSent
    BY <1>33 DEF SignalSent
<1>34. CASE HostCrashes
    BY <1>34 DEF HostCrashes, Die
<1>35. CASE UNCHANGED vars
    BY <1>35
<1>36. QED
    BY <1>1, <1>2, <1>3, <1>4, <1>5, <1>6, <1>7, <1>8, <1>9, <1>10, <1>11, <1>12, <1>13, <1>14,
       <1>15, <1>16, <1>17, <1>18, <1>19, <1>20, <1>21, <1>22, <1>23, <1>24, <1>25, <1>26,
       <1>27, <1>28, <1>29, <1>30, <1>31, <1>32, <1>33, <1>34, <1>35
    DEF Next, LauncherStep, HostStep, OpenStep, OwnerStep, OutsideStep

(* Every step keeps the variables within their types.                       *)
LEMMA TypeStep == IndInv /\ [Next]_vars => TypeOK'
<1> SUFFICES ASSUME IndInv, [Next]_vars PROVE TypeOK'
    OBVIOUS
<1>1. Stages' /\ Claim' /\ Flags' /\ Words'
    BY StageStep, ClaimStep, FlagStep, WordsStep
<1>2. (toHost \in Seq({"start", "commit"}))'
  <2>1. toHost' \in {<<>>, <<"start">>, <<"commit">>}
      BY ChannelStep DEF ChannelInv
  <2>2. {<<>>, <<"start">>, <<"commit">>} \subseteq Seq({"start", "commit"})
      OBVIOUS
  <2>3. QED
      BY <2>1, <2>2
<1>3. QED
    BY <1>1, <1>2, Zenon DEF TypeOK, Stages, Claim, Flags, Words, Within

(* The initial state satisfies the inductive invariant.                     *)
LEMMA InitInv == Init => IndInv
<1> SUFFICES ASSUME Init PROVE IndInv
    OBVIOUS
<1> USE DEF Init
<1>1. \A m : ~Within(toLauncher, m)
    BY DEF Within
<1>2. Stages
    BY DEF Stages, BeforeFence, AfterFence, Cleanups
<1>3. Claim
    BY DEF Claim, Verdict, Verdicts
<1>4. Flags
    BY Zenon DEF Flags
<1>5. Words /\ toHost \in Seq({"start", "commit"})
    BY DEF Words
<1>6. TypeOK
    BY <1>2, <1>3, <1>4, <1>5, Zenon DEF TypeOK, Stages, Claim, Flags, Words
<1>7. AttemptInv /\ ChannelInv /\ OwnerInv
    BY DEF AttemptInv, ChannelInv, OwnerInv
<1>8. WordInv
    BY <1>1 DEF WordInv
<1>9. VerdictInv
    BY DEF VerdictInv, VerdictIsTrue, Verdict
<1>10. QED
    BY <1>6, <1>7, <1>8, <1>9 DEF IndInv

(* It holds in every reachable state.                                      *)
THEOREM Invariant == Spec => []IndInv
<1>1. IndInv /\ [Next]_vars => IndInv'
    BY TypeStep, AttemptStep, ChannelStep, OwnerInvStep, WordStep, VerdictStep DEF IndInv
<1>2. QED
    BY InitInv, <1>1, PTL DEF Spec

(* Type correctness.                                                       *)
THEOREM TypeCorrect == Spec => []TypeOK
<1>1. IndInv => TypeOK
    BY DEF IndInv
<1>2. QED
    BY Invariant, <1>1, PTL

(* What a launch reports of the server, and of what it has left, is so.      *)
THEOREM VerdictTrue == Spec => []VerdictIsTrue
<1>1. IndInv => VerdictIsTrue
    BY DEF IndInv, VerdictInv
<1>2. QED
    BY Invariant, <1>1, PTL

(* A committed server has no outcome yet, and owns the data directory until  *)
(* its owner closes it.                                                    *)
THEOREM CommittedOwns ==
    Spec => [](host = "committed" => outcome = "pending" /\ (owner = "ready" => lease))
<1>1. IndInv => (host = "committed" => outcome = "pending" /\ (owner = "ready" => lease))
    BY DEF IndInv, OwnerInv
<1>2. QED
    BY Invariant, <1>1, PTL

-----------------------------------------------------------------------------
(* No step takes a committed server away, but a signal, its owner or death. *)
LEMMA CommittedStep ==
    ASSUME IndInv, [Next]_vars, host = "committed", host' # "committed"
    PROVE  signalled \/ outcome' # "pending" \/ host' = "dead"
<1> SUFFICES ASSUME ~signalled, outcome' = "pending" PROVE host' = "dead"
    OBVIOUS
<1>0. /\ toHost = <<>> /\ owner \in {"ready", "closing"} /\ outcome = "pending" /\ committed
      /\ attempt \notin {"spawning", "awaiting-boot"} /\ (attempt \notin {"terminal", "gone"} => ~exitSeen)
    BY DEF IndInv, OwnerInv, ChannelInv, AttemptInv
<1> USE DEF HostEnded, vars, launcherVars, channelVars, hostVars, ownerVars, Cleanups
<1>1. CASE Spawned
    BY <1>1, <1>0 DEF Spawned, Proceed
<1>2. CASE SpawnFails
    BY <1>2, <1>0 DEF SpawnFails
<1>3. CASE Receive
    BY <1>3, <1>0 DEF Receive, FailForState, FailBeforeFence, FailAfterFence, StopHost, Release,
       Proceed, Send, HostFailed
<1>4. CASE Sent
    BY <1>4, <1>0 DEF Sent, Proceed
<1>5. CASE SendFails
    BY <1>5, <1>0 DEF SendFails, FailForState, FailBeforeFence, FailAfterFence, StopHost,
       Release, Proceed
<1>6. CASE LauncherDeadline
    BY <1>6, <1>0 DEF LauncherDeadline, FailForState, FailBeforeFence, FailAfterFence, StopHost,
       Release, Proceed
<1>7. CASE Escalate
    BY <1>7, <1>0 DEF Escalate
<1>8. CASE KillWaitPasses
    BY <1>8, <1>0 DEF KillWaitPasses
<1>9. CASE SeeExit
    BY <1>9, <1>0 DEF SeeExit
<1>10. CASE Boot
    BY <1>10, <1>0 DEF Boot, Tell
<1>11. CASE LoadFails
    BY <1>11, <1>0 DEF LoadFails, Tell
<1>12. CASE BootSent
    BY <1>12, <1>0 DEF BootSent
<1>13. CASE BootSendFails
    BY <1>13, <1>0 DEF BootSendFails, Fail, BeginClose, CloseOwner, Tell
<1>14. CASE TakeStart
    BY <1>14, <1>0 DEF TakeStart, Fail, BeginClose, CloseOwner, Tell
<1>15. CASE TakeCommit
    BY <1>15, <1>0 DEF TakeCommit, Fail, BeginClose, CloseOwner, Tell
<1>16. CASE Disconnected
    BY <1>16, <1>0 DEF Disconnected, BeginClose, CloseOwner
<1>17. CASE HostDeadline
    BY <1>17, <1>0 DEF HostDeadline, Fail, BeginClose, CloseOwner, Tell
<1>18. CASE SignalHandled
    BY <1>18, <1>0 DEF SignalHandled, BeginClose, CloseOwner
<1>19. CASE ReadySent
    BY <1>19, <1>0 DEF ReadySent
<1>20. CASE ReadySendFails
    BY <1>20, <1>0 DEF ReadySendFails, Fail, BeginClose, CloseOwner, Tell
<1>21. CASE HostExits
    BY <1>21, <1>0 DEF HostExits, Die
<1>22. CASE HostKilled
    BY <1>22, <1>0 DEF HostKilled, Die
<1>23. CASE LeaseTaken
    BY <1>23, <1>0 DEF LeaseTaken
<1>24. CASE OwnerBusy
    BY <1>24, <1>0 DEF OwnerBusy, Tell
<1>25. CASE OwnerOpened
    BY <1>25, <1>0 DEF OwnerOpened
<1>26. CASE OwnerOpenFails
    BY <1>26, <1>0 DEF OwnerOpenFails, Tell
<1>27. CASE OwnerReady
    BY <1>27, <1>0 DEF OwnerReady, BeginClose, CloseOwner, Tell
<1>28. CASE OwnerCloses
    BY <1>28, <1>0 DEF OwnerCloses
<1>29. CASE OwnerEnds
    BY <1>29, <1>0 DEF OwnerEnds, Tell
<1>30. CASE LeaseReleased
    BY <1>30, <1>0 DEF LeaseReleased
<1>31. CASE Interrupt
    BY <1>31, <1>0 DEF Interrupt, FailBeforeFence, StopHost, Release
<1>32. CASE LauncherDies
    BY <1>32, <1>0 DEF LauncherDies
<1>33. CASE SignalSent
    BY <1>33, <1>0 DEF SignalSent
<1>34. CASE HostCrashes
    BY <1>34, <1>0 DEF HostCrashes, Die
<1>35. CASE UNCHANGED vars
    BY <1>35, <1>0
<1>36. QED
    BY <1>1, <1>2, <1>3, <1>4, <1>5, <1>6, <1>7, <1>8, <1>9, <1>10, <1>11, <1>12, <1>13, <1>14,
       <1>15, <1>16, <1>17, <1>18, <1>19, <1>20, <1>21, <1>22, <1>23, <1>24, <1>25, <1>26,
       <1>27, <1>28, <1>29, <1>30, <1>31, <1>32, <1>33, <1>34, <1>35
    DEF Next, LauncherStep, HostStep, OpenStep, OwnerStep, OutsideStep

(* Only a signal, its owner or death takes a committed server away.         *)
THEOREM CommittedServerStands == Spec => CommittedStands
<1>1. IndInv /\ [Next]_vars =>
        [(host = "committed" /\ host' # "committed") =>
           signalled \/ outcome' # "pending" \/ host' = "dead"]_vars
    BY CommittedStep
<1>2. QED
    BY Invariant, <1>1, PTL DEF Spec, CommittedStands

(* An attempt that is decided before the fence has a stop of the host under  *)
(* way, or has seen it die; one that is decided after it has let go and      *)
(* stops nothing, unless it was the user who decided.                      *)
Fence ==
    attempt \in BeforeFence \cup AfterFence /\ attempt' = "terminal" =>
       /\ attempt \in BeforeFence => killer' = "term" \/ exitSeen'
       /\ attempt \in AfterFence /\ interrupted' = interrupted => killer' = "none" /\ ~linked'

LEMMA FenceStep == IndInv /\ [Next]_vars => Fence
<1> SUFFICES ASSUME TypeOK, AttemptInv, [Next]_vars PROVE Fence
    BY DEF IndInv
<1> USE DEF Fence, AttemptInv, BeforeFence, AfterFence, vars, launcherVars
<1>1. CASE Spawned
    BY <1>1 DEF Spawned, Proceed
<1>2. CASE SpawnFails
    BY <1>2 DEF SpawnFails
<1>3. CASE Receive
  <2>1. /\ attempt \in BeforeFence \cup AfterFence /\ UNCHANGED <<interrupted, exitSeen>>
        /\ \/ \E state \in {"sending-start", "sending-commit"} : Proceed(state)
           \/ attempt \in AfterFence /\ HostFailed(Head(toLauncher))
           \/ attempt \in AfterFence /\ FailAfterFence("started", "none")
           \/ FailForState
      BY <1>3, ReceiveFacts
  <2>2. QED
      BY <2>1 DEF Proceed, HostFailed, FailForState, FailBeforeFence, FailAfterFence, StopHost,
         Release
<1>4. CASE Sent
    BY <1>4 DEF Sent, Proceed
<1>5. CASE SendFails
    BY <1>5 DEF SendFails, FailForState, FailBeforeFence, FailAfterFence, StopHost, Release, Proceed
<1>6. CASE LauncherDeadline
    BY <1>6 DEF LauncherDeadline, FailForState, FailBeforeFence, FailAfterFence, StopHost,
       Release, Proceed
<1>7. CASE Escalate
    BY <1>7 DEF Escalate
<1>8. CASE KillWaitPasses
    BY <1>8 DEF KillWaitPasses
<1>9. CASE SeeExit
    BY <1>9 DEF SeeExit
<1>10. CASE Boot
    BY <1>10 DEF Boot, Tell
<1>11. CASE LoadFails
    BY <1>11 DEF LoadFails, Tell
<1>12. CASE BootSent
    BY <1>12 DEF BootSent
<1>13. CASE BootSendFails
    BY <1>13 DEF BootSendFails, Fail, BeginClose, CloseOwner, Tell
<1>14. CASE TakeStart
    BY <1>14 DEF TakeStart, Fail, BeginClose, CloseOwner, Tell
<1>15. CASE TakeCommit
    BY <1>15 DEF TakeCommit, Fail, BeginClose, CloseOwner, Tell
<1>16. CASE Disconnected
    BY <1>16 DEF Disconnected, BeginClose, CloseOwner
<1>17. CASE HostDeadline
    BY <1>17 DEF HostDeadline, Fail, BeginClose, CloseOwner, Tell
<1>18. CASE SignalHandled
    BY <1>18 DEF SignalHandled, BeginClose, CloseOwner
<1>19. CASE ReadySent
    BY <1>19 DEF ReadySent
<1>20. CASE ReadySendFails
    BY <1>20 DEF ReadySendFails, Fail, BeginClose, CloseOwner, Tell
<1>21. CASE HostExits
    BY <1>21 DEF HostExits, Die
<1>22. CASE HostKilled
    BY <1>22 DEF HostKilled, Die
<1>23. CASE LeaseTaken
    BY <1>23 DEF LeaseTaken
<1>24. CASE OwnerBusy
    BY <1>24 DEF OwnerBusy, Tell
<1>25. CASE OwnerOpened
    BY <1>25 DEF OwnerOpened
<1>26. CASE OwnerOpenFails
    BY <1>26 DEF OwnerOpenFails, Tell
<1>27. CASE OwnerReady
    BY <1>27 DEF OwnerReady, BeginClose, CloseOwner, Tell
<1>28. CASE OwnerCloses
    BY <1>28 DEF OwnerCloses
<1>29. CASE OwnerEnds
    BY <1>29 DEF OwnerEnds, Tell
<1>30. CASE LeaseReleased
    BY <1>30 DEF LeaseReleased
<1>31. CASE Interrupt
    BY <1>31 DEF Interrupt, FailBeforeFence, StopHost, Release, TypeOK
<1>32. CASE LauncherDies
    BY <1>32 DEF LauncherDies
<1>33. CASE SignalSent
    BY <1>33 DEF SignalSent
<1>34. CASE HostCrashes
    BY <1>34 DEF HostCrashes, Die
<1>35. CASE UNCHANGED vars
    BY <1>35
<1>36. QED
    BY <1>1, <1>2, <1>3, <1>4, <1>5, <1>6, <1>7, <1>8, <1>9, <1>10, <1>11, <1>12, <1>13, <1>14,
       <1>15, <1>16, <1>17, <1>18, <1>19, <1>20, <1>21, <1>22, <1>23, <1>24, <1>25, <1>26,
       <1>27, <1>28, <1>29, <1>30, <1>31, <1>32, <1>33, <1>34, <1>35
    DEF Next, LauncherStep, HostStep, OpenStep, OwnerStep, OutsideStep

(* The fence: what giving up does to the host.                              *)
THEOREM FenceDecides == Spec => [][Fence]_vars
<1>1. IndInv /\ [Next]_vars => [Fence]_vars
    BY FenceStep
<1>2. QED
    BY Invariant, <1>1, PTL DEF Spec

-----------------------------------------------------------------------------
(* Every step is one of HostedOwner, or none of its business.               *)
LEMMA OwnerStepOrStutter == IndInv /\ [Next]_vars => [Owner!Next]_(Owner!vars)
<1> SUFFICES ASSUME TypeOK, AttemptInv, ChannelInv, OwnerInv, [Next]_vars
             PROVE  [Owner!Next]_(Owner!vars)
    BY DEF IndInv
<1>0. /\ attempt = "spawning" => owner = "none"
      /\ owner = "none" => ~lease
      /\ owner \in {"none", "opening", "early", "busy", "failed",
                    "starting", "ready", "closing", "over"}
      /\ host \in {"loading", "booting", "awaiting-start"} => owner = "none"
      /\ owner \in {"starting", "ready"} /\ host # "dead" => lease
      /\ outcome # "pending" => owner = "over"
    BY DEF TypeOK, ChannelInv, OwnerInv
<1> USE <1>0 DEF HostEnded, vars, launcherVars, channelVars, hostVars, ownerVars,
   Owner!vars, Owner!Next, Owner!Take, Owner!Refuse, Owner!Begin, Owner!BecomeReady, Owner!Close, Owner!GiveBack,
   Owner!End, Owner!Die
<1>1. CASE Spawned
    BY <1>1 DEF Spawned, Proceed
<1>2. CASE SpawnFails
    BY <1>2 DEF SpawnFails
<1>3. CASE Receive
    BY <1>3 DEF Receive
<1>4. CASE Sent
    BY <1>4 DEF Sent, Proceed
<1>5. CASE SendFails
    BY <1>5 DEF SendFails, FailForState, FailBeforeFence, FailAfterFence, StopHost, Release, Proceed
<1>6. CASE LauncherDeadline
    BY <1>6 DEF LauncherDeadline, FailForState, FailBeforeFence, FailAfterFence, StopHost,
       Release, Proceed
<1>7. CASE Escalate
    BY <1>7 DEF Escalate
<1>8. CASE KillWaitPasses
    BY <1>8 DEF KillWaitPasses
<1>9. CASE SeeExit
    BY <1>9 DEF SeeExit
<1>10. CASE Boot
    BY <1>10 DEF Boot, Tell
<1>11. CASE LoadFails
    BY <1>11 DEF LoadFails, Tell
<1>12. CASE BootSent
    BY <1>12 DEF BootSent
<1>13. CASE BootSendFails
    BY <1>13 DEF BootSendFails, Fail, BeginClose, CloseOwner, Tell
<1>14. CASE TakeStart
    BY <1>14 DEF TakeStart, Fail, BeginClose, CloseOwner, Tell
<1>15. CASE TakeCommit
    BY <1>15 DEF TakeCommit, Fail, BeginClose, CloseOwner, Tell
<1>16. CASE Disconnected
    BY <1>16 DEF Disconnected, BeginClose, CloseOwner
<1>17. CASE HostDeadline
    BY <1>17 DEF HostDeadline, Fail, BeginClose, CloseOwner, Tell
<1>18. CASE SignalHandled
    BY <1>18 DEF SignalHandled, BeginClose, CloseOwner
<1>19. CASE ReadySent
    BY <1>19 DEF ReadySent
<1>20. CASE ReadySendFails
    BY <1>20 DEF ReadySendFails, Fail, BeginClose, CloseOwner, Tell
<1>21. CASE HostExits
    BY <1>21 DEF HostExits, Die
<1>22. CASE HostKilled
    BY <1>22 DEF HostKilled, Die
<1>23. CASE LeaseTaken
    BY <1>23 DEF LeaseTaken
<1>24. CASE OwnerBusy
    BY <1>24 DEF OwnerBusy, Tell
<1>25. CASE OwnerOpened
    BY <1>25 DEF OwnerOpened
<1>26. CASE OwnerOpenFails
    BY <1>26 DEF OwnerOpenFails, Tell
<1>27. CASE OwnerReady
    BY <1>27 DEF OwnerReady, BeginClose, CloseOwner, Tell
<1>28. CASE OwnerCloses
    BY <1>28 DEF OwnerCloses
<1>29. CASE OwnerEnds
    BY <1>29 DEF OwnerEnds, Tell
<1>30. CASE LeaseReleased
    BY <1>30 DEF LeaseReleased
<1>31. CASE Interrupt
    BY <1>31 DEF Interrupt, FailBeforeFence
<1>32. CASE LauncherDies
    BY <1>32 DEF LauncherDies
<1>33. CASE SignalSent
    BY <1>33 DEF SignalSent
<1>34. CASE HostCrashes
    BY <1>34 DEF HostCrashes, Die
<1>35. CASE UNCHANGED vars
    BY <1>35
<1>36. QED
    BY <1>1, <1>2, <1>3, <1>4, <1>5, <1>6, <1>7, <1>8, <1>9, <1>10, <1>11, <1>12, <1>13, <1>14,
       <1>15, <1>16, <1>17, <1>18, <1>19, <1>20, <1>21, <1>22, <1>23, <1>24, <1>25, <1>26,
       <1>27, <1>28, <1>29, <1>30, <1>31, <1>32, <1>33, <1>34, <1>35
    DEF Next, LauncherStep, HostStep, OpenStep, OwnerStep, OutsideStep

(* The owner of the host implements HostedOwner.                            *)
THEOREM LaunchImplementsHostedOwner == Spec => ImplementsHostedOwner
<1>1. Init => Owner!Init
    BY DEF Init, Owner!Init
<1>2. QED
    BY Invariant, OwnerStepOrStutter, <1>1, PTL DEF Spec, ImplementsHostedOwner, Owner!Spec
=============================================================================
