------------------------ MODULE ControlSessionProofs ------------------------
(* Theorems about ControlSession, for any set of connections.               *)
EXTENDS ControlSession, SequenceTheorems, TLAPS

(* The stop is being run for c.                                            *)
Busy(c) == serve[c] \in {"accepting", "stopping", "reporting", "completing"}

(* A connection begins once, and is served for what its client asks for.    *)
KindInv ==
    \A c \in Client :
        /\ client[c] = "idle" <=> kind[c] = "none"
        /\ client[c] = "idle" => socket[c] = "none" /\ pipe[c] = <<>>
        /\ socket[c] \in {"none", "backlog"} => serve[c] = "none"
        /\ serve[c] = "answering" => kind[c] = "ask"
        /\ serve[c] = "reporting" => kind[c] = "wait"
        /\ Busy(c) => kind[c] \in {"stop", "wait"}

(* The outcome of a stop is there once its callback has ended.              *)
OutcomeInv ==
    \A c \in Client :
        /\ serve[c] \in {"none", "reading", "answering", "accepting"} => ~sent[c]
        /\ serve[c] \in {"none", "reading", "answering", "accepting", "stopping"} =>
              outcome[c] = "none"
        /\ serve[c] \in {"reporting", "completing"} => outcome[c] # "none"

(* What a waiting client may find in its pipe: of all completions only that *)
(* of its own stop is ever written, and read.                              *)
FramesFor(c) == IF kind[c] = "wait" THEN {"accepted"} \cup ({outcome[c]} \ {"none"}) ELSE Frames

PipeInv ==
    \A c \in Client :
        /\ pipe[c] \in Seq(FramesFor(c))
        /\ client[c] \in Outcomes => outcome[c] = client[c]

(* One stop is run at a time, and as long as it runs the session says so;   *)
(* one that has stopped everything is the last.                            *)
StopInv ==
    \A c \in Client :
        /\ Busy(c) => phase = "stopping" /\ \A d \in Client \ {c} : ~Busy(d)
        /\ Busy(c) /\ kind[c] = "wait" => responder = c
        /\ outcome[c] = "completed" => phase = "terminal" \/ serve[c] \in {"reporting", "completing"}

(* A request can be read only while one would be accepted: the connections  *)
(* that could bring one are cut when a stop is accepted or the endpoint ends. *)
RequestInv ==
    /\ phase # "terminal" => endpoint = "listening"
    /\ \A c \in Client : serve[c] = "reading" /\ socket[c] = "open" => phase = "accepting"

(* The inductive invariant.                                                *)
IndInv ==
    /\ TypeOK /\ KindInv /\ OutcomeInv /\ PipeInv
    /\ StopInv /\ RequestInv /\ ResponderIsKept

-----------------------------------------------------------------------------
(* What the operators of ControlSession do to the pipes and the sockets     *)

(* A write adds the frame to the pipe of its connection at most, and        *)
(* touches no other connection; what is sent was sent on an open socket,    *)
(* which stays open if it is to.                                           *)
LEMMA WriteEffect ==
    ASSUME TypeOK, NEW b \in Client, NEW frame, NEW end \in BOOLEAN, Write(b, frame, end),
           NEW S, frame \in S, pipe[b] \in Seq(S)
    PROVE  /\ pipe' = [pipe EXCEPT ![b] = pipe'[b]] /\ pipe'[b] \in Seq(S)
           /\ sent' = [sent EXCEPT ![b] = sent'[b]] /\ sent'[b] \in BOOLEAN
           /\ socket' = [socket EXCEPT ![b] = socket'[b]]
           /\ socket'[b] \in {"none", "backlog", "open", "ended", "closed"}
           /\ socket[b] = "none" <=> socket'[b] = "none"
           /\ socket[b] # "backlog" => socket'[b] # "backlog"
           /\ sent'[b] /\ ~end => socket'[b] = "open"
<1>1. CASE /\ socket[b] = "open"
           /\ pipe' = [pipe EXCEPT ![b] = Append(@, frame)]
           /\ socket' = IF end THEN [socket EXCEPT ![b] = "ended"] ELSE socket
           /\ sent' = [sent EXCEPT ![b] = TRUE]
  <2>1. Append(pipe[b], frame) \in Seq(S)
      BY AppendProperties
  <2>2. pipe'[b] = Append(pipe[b], frame) /\ pipe' = [pipe EXCEPT ![b] = pipe'[b]]
      BY <1>1 DEF TypeOK
  <2>3. QED
      BY <1>1, <2>1, <2>2 DEF TypeOK
<1>2. CASE Destroy({b}) /\ sent' = [sent EXCEPT ![b] = FALSE] /\ UNCHANGED pipe
    BY <1>2 DEF TypeOK, Destroy
<1>3. QED
    BY <1>1, <1>2 DEF Write

(* Frames of a connection stay those of its kind, if that is not changed.   *)
LEMMA PipeKept ==
    ASSUME KindInv, TypeOK, PipeInv, NEW c \in Client,
           pipe'[c] = pipe[c], client'[c] = client[c] \/ client'[c] \notin Outcomes,
           outcome'[c] = outcome[c] \/ outcome[c] = "none",
           kind'[c] = kind[c] \/ kind[c] = "none"
    PROVE  pipe'[c] \in Seq(FramesFor(c)') /\ (client'[c] \in Outcomes => outcome'[c] = client'[c])
<1>1. CASE kind[c] = "none"
  <2>1. pipe[c] = <<>> /\ client[c] = "idle"
      BY <1>1 DEF KindInv
  <2>2. <<>> \in Seq(FramesFor(c)')
      BY EmptySeq
  <2>3. QED
      BY <2>1, <2>2 DEF Outcomes
<1>2. CASE kind[c] # "none"
  <2>1. FramesFor(c) \subseteq FramesFor(c)'
      BY <1>2 DEF FramesFor
  <2>2. pipe[c] \in Seq(FramesFor(c)')
      BY <2>1, SeqMonotonic DEF PipeInv
  <2>3. QED
      BY <2>2 DEF PipeInv, Outcomes
<1>3. QED
    BY <1>1, <1>2

-----------------------------------------------------------------------------
(* The initial states satisfy it.                                          *)
LEMMA InitInv == Init => IndInv
<1> SUFFICES ASSUME Init PROVE IndInv
    OBVIOUS
<1> USE NoClientAssumption DEF Init, Outcomes, Waiting
<1>1. \A c \in Client : \A S : pipe[c] \in Seq(S)
    BY EmptySeq
<1>2. pipe \in [Client -> Seq(Frames)]
    BY <1>1
<1>3. TypeOK
    BY <1>2 DEF TypeOK
<1>4. KindInv /\ OutcomeInv /\ StopInv /\ RequestInv /\ ResponderIsKept
    BY DEF KindInv, OutcomeInv, StopInv, RequestInv, ResponderIsKept, Busy
<1>5. PipeInv
    BY <1>1 DEF PipeInv
<1>6. QED
    BY <1>3, <1>4, <1>5 DEF IndInv

(* Every step keeps the variables within their types.                       *)
LEMMA TypeStep == IndInv /\ [Next]_vars => TypeOK'
<1> SUFFICES ASSUME TypeOK, KindInv, OutcomeInv, PipeInv, [Next]_vars PROVE TypeOK'
    BY DEF IndInv
<1> USE DEF TypeOK, Outcomes, Waiting, vars, sessionVars, resultVars, serveVars, clientVars
<1>1. ASSUME NEW b \in Client, Connect(b) PROVE TypeOK'
  <2>1. PICK k \in {"ask", "stop", "wait"} : kind' = [kind EXCEPT ![b] = k]
      BY <1>1 DEF Connect
  <2>2. kind' \in [Client -> {"none", "ask", "stop", "wait"}]
      BY <2>1
  <2>3. /\ client' \in [Client -> {"idle", "error", "answered", "told"} \cup Waiting \cup Outcomes]
        /\ socket' \in [Client -> {"none", "backlog", "open", "ended", "closed"}]
    <3>1. CASE endpoint = "listening"
        BY <1>1, <3>1 DEF Connect, Becomes
    <3>2. CASE endpoint # "listening"
        BY <1>1, <3>2 DEF Connect, Becomes
    <3>3. QED
        BY <3>1, <3>2
  <2>4. QED
      BY <1>1, <2>2, <2>3 DEF Connect
<1>2. ASSUME NEW b \in Client, Receive(b) PROVE TypeOK'
  <2>1. Head(pipe[b]) \in FramesFor(b) /\ Tail(pipe[b]) \in Seq(Frames)
      BY <1>2, HeadTailProperties DEF Receive, PipeInv
  <2>2. kind[b] # "none"
      BY <1>2 DEF Receive, KindInv
  <2>3. kind[b] = "wait" => Head(pipe[b]) \in {"accepted"} \cup Outcomes
      BY <2>1 DEF FramesFor
  <2>4. client' \in [Client -> {"idle", "error", "answered", "told"} \cup Waiting \cup Outcomes]
      BY <1>2, <2>2, <2>3 DEF Receive, Becomes
  <2>5. QED
      BY <1>2, <2>1, <2>4 DEF Receive
<1>3. ASSUME NEW b \in Client, ServerGone(b) PROVE TypeOK'
    BY <1>3 DEF ServerGone, Becomes
<1>4. ASSUME NEW b \in Client, GiveUp(b) PROVE TypeOK'
    BY <1>4 DEF GiveUp, Becomes
<1>5. ASSUME NEW b \in Client, Admit(b) PROVE TypeOK'
  <2>1. /\ socket' \in [Client -> {"none", "backlog", "open", "ended", "closed"}]
        /\ serve' \in [Client -> {"none", "reading", "answering", "accepting", "stopping",
                                "reporting", "completing", "draining", "observing", "done"}]
    <3>1. CASE phase = "accepting"
        BY <1>5, <3>1 DEF Admit, Serves
    <3>2. CASE phase # "accepting"
        BY <1>5, <3>2 DEF Admit, Serves
    <3>3. QED
        BY <3>1, <3>2
  <2>2. QED
      BY <1>5, <2>1 DEF Admit
<1>6. ASSUME NEW b \in Client, HangUp(b) PROVE TypeOK'
    BY <1>6 DEF HangUp, Destroy
<1>7. ASSUME NEW b \in Client, ReadFails(b) PROVE TypeOK'
    BY <1>7 DEF ReadFails, Serves, Destroy
<1>8. ASSUME NEW b \in Client, ReadAsk(b) PROVE TypeOK'
    BY <1>8 DEF ReadAsk, Serves
<1>9. ASSUME NEW b \in Client, Answer(b) PROVE TypeOK'
  <2>1. "answer" \in Frames /\ TRUE \in BOOLEAN
      BY <1>9 DEF Answer, Frames, OutcomeInv
  <2>2. pipe[b] \in Seq(Frames)
      OBVIOUS
  <2> HIDE DEF TypeOK
  <2>3. /\ pipe' = [pipe EXCEPT ![b] = pipe'[b]] /\ pipe'[b] \in Seq(Frames)
        /\ sent' = [sent EXCEPT ![b] = sent'[b]] /\ sent'[b] \in BOOLEAN
        /\ socket' = [socket EXCEPT ![b] = socket'[b]]
        /\ socket'[b] \in {"none", "backlog", "open", "ended", "closed"}
      BY <1>9, <2>1, <2>2, WriteEffect DEF Answer
  <2>4. QED
      BY <1>9, <2>3 DEF Answer, Serves, TypeOK
<1>10. ASSUME NEW b \in Client, AcceptStop(b) PROVE TypeOK'
    BY <1>10 DEF AcceptStop, Serves, Destroy
<1>11. ASSUME NEW b \in Client, RunStop(b) PROVE TypeOK'
  <2>1. "accepted" \in Frames /\ (kind[b] = "stop") \in BOOLEAN
      BY <1>11 DEF RunStop, Frames, OutcomeInv
  <2>2. pipe[b] \in Seq(Frames)
      OBVIOUS
  <2> HIDE DEF TypeOK
  <2>3. /\ pipe' = [pipe EXCEPT ![b] = pipe'[b]] /\ pipe'[b] \in Seq(Frames)
        /\ sent' = [sent EXCEPT ![b] = sent'[b]] /\ sent'[b] \in BOOLEAN
        /\ socket' = [socket EXCEPT ![b] = socket'[b]]
        /\ socket'[b] \in {"none", "backlog", "open", "ended", "closed"}
      BY <1>11, <2>1, <2>2, WriteEffect DEF RunStop
  <2>4. QED
      BY <1>11, <2>3 DEF RunStop, Serves, TypeOK
<1>12. ASSUME NEW b \in Client, StopEnds(b) PROVE TypeOK'
    BY <1>12 DEF StopEnds, Serves
<1>13. ASSUME NEW b \in Client, Report(b) PROVE TypeOK'
  <2>1. outcome[b] \in Frames /\ TRUE \in BOOLEAN
      BY <1>13 DEF Report, Frames, OutcomeInv
  <2>2. pipe[b] \in Seq(Frames)
      OBVIOUS
  <2> HIDE DEF TypeOK
  <2>3. /\ pipe' = [pipe EXCEPT ![b] = pipe'[b]] /\ pipe'[b] \in Seq(Frames)
        /\ sent' = [sent EXCEPT ![b] = sent'[b]] /\ sent'[b] \in BOOLEAN
        /\ socket' = [socket EXCEPT ![b] = socket'[b]]
        /\ socket'[b] \in {"none", "backlog", "open", "ended", "closed"}
      BY <1>13, <2>1, <2>2, WriteEffect DEF Report
  <2>4. QED
      BY <1>13, <2>3 DEF Report, Serves, TypeOK
<1>14. ASSUME NEW b \in Client, CompleteStop(b) PROVE TypeOK'
    BY <1>14 DEF CompleteStop, Drain, Serves, Destroy
<1>15. ASSUME NEW b \in Client, ObserveStop(b) PROVE TypeOK'
    BY <1>15 DEF ObserveStop, Serves
<1>16. CASE Close
    BY <1>16 DEF Close, Drain, Destroy
<1>17. CASE Drained
    BY <1>17 DEF Drained
<1>18. CASE UNCHANGED vars
    BY <1>18
<1>19. QED
    BY <1>1, <1>2, <1>3, <1>4, <1>5, <1>6, <1>7, <1>8, <1>9, <1>10, <1>11, <1>12, <1>13, <1>14,
       <1>15, <1>16, <1>17, <1>18 DEF Next, ServerStep, ClientStep

(* A connection goes on as its kind asks for.                               *)
LEMMA KindStep == IndInv /\ [Next]_vars => KindInv'
<1> SUFFICES ASSUME TypeOK, KindInv, PipeInv, [Next]_vars PROVE KindInv'
    BY DEF IndInv
<1> USE DEF TypeOK, KindInv, Busy, Outcomes, Waiting, vars, sessionVars, resultVars, serveVars,
   clientVars
<1>1. ASSUME NEW b \in Client, Connect(b) PROVE KindInv'
    BY <1>1 DEF Connect, Becomes
<1>2. ASSUME NEW b \in Client, Receive(b) PROVE KindInv'
  <2>1. client'[b] # "idle"
    <3>1. Head(pipe[b]) \in FramesFor(b)
        BY <1>2, HeadTailProperties DEF Receive, PipeInv
    <3>2. kind[b] # "none"
        BY <1>2 DEF Receive
    <3>3. QED
        BY <1>2, <3>1, <3>2 DEF Receive, Becomes, FramesFor
  <2>2. QED
      BY <1>2, <2>1 DEF Receive, Becomes
<1>3. ASSUME NEW b \in Client, ServerGone(b) PROVE KindInv'
    BY <1>3 DEF ServerGone, Becomes
<1>4. ASSUME NEW b \in Client, GiveUp(b) PROVE KindInv'
    BY <1>4 DEF GiveUp, Becomes
<1>5. ASSUME NEW b \in Client, Admit(b) PROVE KindInv'
    BY <1>5 DEF Admit, Serves
<1>6. ASSUME NEW b \in Client, HangUp(b) PROVE KindInv'
    BY <1>6 DEF HangUp, Destroy
<1>7. ASSUME NEW b \in Client, ReadFails(b) PROVE KindInv'
    BY <1>7 DEF ReadFails, Serves, Destroy
<1>8. ASSUME NEW b \in Client, ReadAsk(b) PROVE KindInv'
    BY <1>8 DEF ReadAsk, Serves
<1>9. ASSUME NEW b \in Client, Answer(b) PROVE KindInv'
    BY <1>9 DEF Answer, Write, Serves, Destroy
<1>10. ASSUME NEW b \in Client, AcceptStop(b) PROVE KindInv'
    BY <1>10 DEF AcceptStop, Serves, Destroy
<1>11. ASSUME NEW b \in Client, RunStop(b) PROVE KindInv'
    BY <1>11 DEF RunStop, Write, Serves, Destroy
<1>12. ASSUME NEW b \in Client, StopEnds(b) PROVE KindInv'
    BY <1>12 DEF StopEnds, Serves
<1>13. ASSUME NEW b \in Client, Report(b) PROVE KindInv'
    BY <1>13 DEF Report, Write, Serves, Destroy
<1>14. ASSUME NEW b \in Client, CompleteStop(b) PROVE KindInv'
    BY <1>14 DEF CompleteStop, Drain, Serves, Destroy
<1>15. ASSUME NEW b \in Client, ObserveStop(b) PROVE KindInv'
    BY <1>15 DEF ObserveStop, Serves
<1>16. CASE Close
    BY <1>16 DEF Close, Drain, Destroy
<1>17. CASE Drained
    BY <1>17 DEF Drained
<1>18. CASE UNCHANGED vars
    BY <1>18
<1>19. QED
    BY <1>1, <1>2, <1>3, <1>4, <1>5, <1>6, <1>7, <1>8, <1>9, <1>10, <1>11, <1>12, <1>13, <1>14,
       <1>15, <1>16, <1>17, <1>18 DEF Next, ServerStep, ClientStep

(* The outcome is set when the callback ends, and then kept.                *)
LEMMA OutcomeStep == IndInv /\ [Next]_vars => OutcomeInv'
<1> SUFFICES ASSUME TypeOK, KindInv, OutcomeInv, [Next]_vars PROVE OutcomeInv'
    BY DEF IndInv
<1> USE DEF TypeOK, KindInv, OutcomeInv, Outcomes, vars, sessionVars, resultVars, serveVars,
   clientVars
<1>1. ASSUME NEW b \in Client, Connect(b) PROVE OutcomeInv'
    BY <1>1 DEF Connect, Becomes
<1>2. ASSUME NEW b \in Client, Receive(b) PROVE OutcomeInv'
    BY <1>2 DEF Receive, Becomes
<1>3. ASSUME NEW b \in Client, ServerGone(b) PROVE OutcomeInv'
    BY <1>3 DEF ServerGone, Becomes
<1>4. ASSUME NEW b \in Client, GiveUp(b) PROVE OutcomeInv'
    BY <1>4 DEF GiveUp, Becomes
<1>5. ASSUME NEW b \in Client, Admit(b) PROVE OutcomeInv'
    BY <1>5 DEF Admit, Serves
<1>6. ASSUME NEW b \in Client, HangUp(b) PROVE OutcomeInv'
    BY <1>6 DEF HangUp, Destroy
<1>7. ASSUME NEW b \in Client, ReadFails(b) PROVE OutcomeInv'
    BY <1>7 DEF ReadFails, Serves, Destroy
<1>8. ASSUME NEW b \in Client, ReadAsk(b) PROVE OutcomeInv'
    BY <1>8 DEF ReadAsk, Serves
<1>9. ASSUME NEW b \in Client, Answer(b) PROVE OutcomeInv'
    BY <1>9 DEF Answer, Write, Serves, Destroy
<1>10. ASSUME NEW b \in Client, AcceptStop(b) PROVE OutcomeInv'
    BY <1>10 DEF AcceptStop, Serves, Destroy
<1>11. ASSUME NEW b \in Client, RunStop(b) PROVE OutcomeInv'
    BY <1>11 DEF RunStop, Write, Serves, Destroy
<1>12. ASSUME NEW b \in Client, StopEnds(b) PROVE OutcomeInv'
    BY <1>12 DEF StopEnds, Serves
<1>13. ASSUME NEW b \in Client, Report(b) PROVE OutcomeInv'
    BY <1>13 DEF Report, Write, Serves, Destroy
<1>14. ASSUME NEW b \in Client, CompleteStop(b) PROVE OutcomeInv'
    BY <1>14 DEF CompleteStop, Drain, Serves, Destroy
<1>15. ASSUME NEW b \in Client, ObserveStop(b) PROVE OutcomeInv'
    BY <1>15 DEF ObserveStop, Serves
<1>16. CASE Close
    BY <1>16 DEF Close, Drain, Destroy
<1>17. CASE Drained
    BY <1>17 DEF Drained
<1>18. CASE UNCHANGED vars
    BY <1>18
<1>19. QED
    BY <1>1, <1>2, <1>3, <1>4, <1>5, <1>6, <1>7, <1>8, <1>9, <1>10, <1>11, <1>12, <1>13, <1>14,
       <1>15, <1>16, <1>17, <1>18 DEF Next, ServerStep, ClientStep

(* Frames are written and read in their place.                             *)
LEMMA PipeStep == IndInv /\ [Next]_vars => PipeInv'
<1> SUFFICES ASSUME TypeOK, KindInv, OutcomeInv, PipeInv, [Next]_vars, NEW c \in Client
             PROVE  pipe'[c] \in Seq(FramesFor(c)') /\ (client'[c] \in Outcomes => outcome'[c] = client'[c])
    BY DEF IndInv, PipeInv
<1> DEFINE Goal == pipe'[c] \in Seq(FramesFor(c)') /\ (client'[c] \in Outcomes => outcome'[c] = client'[c])
<1> USE PipeKept DEF vars, sessionVars, resultVars, serveVars, clientVars
<1>1. ASSUME NEW b \in Client, Connect(b) PROVE Goal
  <2>1. PICK k : kind' = [kind EXCEPT ![b] = k]
      BY <1>1 DEF Connect
  <2>2. kind'[c] = kind[c] \/ kind[c] = "none"
      BY <1>1, <2>1 DEF Connect, TypeOK, KindInv
  <2>3. client'[c] = client[c] \/ client'[c] \notin Outcomes
      BY <1>1 DEF Connect, Becomes, TypeOK, Outcomes
  <2>4. pipe'[c] = pipe[c] /\ outcome'[c] = outcome[c]
      BY <1>1 DEF Connect
  <2>5. QED
      BY <2>2, <2>3, <2>4
<1>2. ASSUME NEW b \in Client, Receive(b) PROVE Goal
  <2>1. CASE c = b
    <3>1. /\ pipe'[b] = Tail(pipe[b]) /\ FramesFor(b)' = FramesFor(b)
          /\ client'[b] = CASE kind[b] = "ask" -> "answered"
                            [] kind[b] = "stop" -> "told"
                            [] kind[b] = "wait" -> Head(pipe[b])
        BY <1>2 DEF Receive, Becomes, TypeOK, FramesFor
    <3>2. Head(pipe[b]) \in FramesFor(b) /\ Tail(pipe[b]) \in Seq(FramesFor(b))
        BY <1>2, HeadTailProperties DEF Receive, PipeInv
    <3>3. kind[b] \in {"ask", "stop", "wait"}
        BY <1>2 DEF Receive, KindInv, TypeOK, Waiting
    <3>4. client'[b] \in Outcomes => client'[b] = outcome[b]
        BY <3>1, <3>2, <3>3 DEF FramesFor, Outcomes
    <3>5. QED
        BY <1>2, <2>1, <3>1, <3>2, <3>4 DEF Receive
  <2>2. CASE c # b
      BY <1>2, <2>2 DEF Receive, Becomes, TypeOK
  <2>3. QED
      BY <2>1, <2>2
<1>3. ASSUME NEW b \in Client, ServerGone(b) PROVE Goal
    BY <1>3 DEF ServerGone, Becomes, TypeOK, Outcomes
<1>4. ASSUME NEW b \in Client, GiveUp(b) PROVE Goal
    BY <1>4 DEF GiveUp, Becomes, TypeOK, Outcomes
<1>5. ASSUME NEW b \in Client, Admit(b) PROVE Goal
    BY <1>5 DEF Admit, Serves
<1>6. ASSUME NEW b \in Client, HangUp(b) PROVE Goal
    BY <1>6 DEF HangUp, Destroy
<1>7. ASSUME NEW b \in Client, ReadFails(b) PROVE Goal
    BY <1>7 DEF ReadFails, Serves, Destroy
<1>8. ASSUME NEW b \in Client, ReadAsk(b) PROVE Goal
    BY <1>8 DEF ReadAsk, Serves
<1>9. ASSUME NEW b \in Client, Answer(b) PROVE Goal
  <2>1. "answer" \in FramesFor(b) /\ TRUE \in BOOLEAN
      BY <1>9 DEF Answer, KindInv, OutcomeInv, TypeOK, FramesFor, Frames, Busy
  <2>2. pipe' = [pipe EXCEPT ![b] = pipe'[b]] /\ pipe'[b] \in Seq(FramesFor(b))
      BY <1>9, <2>1, WriteEffect DEF Answer, PipeInv
  <2>3. FramesFor(b)' = FramesFor(b)
      BY <1>9 DEF Answer, FramesFor
  <2>4. CASE c = b
      BY <1>9, <2>2, <2>3, <2>4 DEF Answer, PipeInv
  <2>5. CASE c # b
      BY <1>9, <2>2, <2>5 DEF Answer, TypeOK
  <2>6. QED
      BY <2>4, <2>5
<1>10. ASSUME NEW b \in Client, AcceptStop(b) PROVE Goal
    BY <1>10 DEF AcceptStop, Serves, Destroy
<1>11. ASSUME NEW b \in Client, RunStop(b) PROVE Goal
  <2>1. "accepted" \in FramesFor(b) /\ (kind[b] = "stop") \in BOOLEAN
      BY <1>11 DEF RunStop, KindInv, OutcomeInv, TypeOK, FramesFor, Frames, Busy
  <2>2. pipe' = [pipe EXCEPT ![b] = pipe'[b]] /\ pipe'[b] \in Seq(FramesFor(b))
      BY <1>11, <2>1, WriteEffect DEF RunStop, PipeInv
  <2>3. FramesFor(b)' = FramesFor(b)
      BY <1>11 DEF RunStop, FramesFor
  <2>4. CASE c = b
      BY <1>11, <2>2, <2>3, <2>4 DEF RunStop, PipeInv
  <2>5. CASE c # b
      BY <1>11, <2>2, <2>5 DEF RunStop, TypeOK
  <2>6. QED
      BY <2>4, <2>5
<1>12. ASSUME NEW b \in Client, StopEnds(b) PROVE Goal
    BY <1>12 DEF StopEnds, TypeOK, OutcomeInv
<1>13. ASSUME NEW b \in Client, Report(b) PROVE Goal
  <2>1. outcome[b] \in FramesFor(b) /\ TRUE \in BOOLEAN
      BY <1>13 DEF Report, KindInv, OutcomeInv, TypeOK, FramesFor, Frames, Busy
  <2>2. pipe' = [pipe EXCEPT ![b] = pipe'[b]] /\ pipe'[b] \in Seq(FramesFor(b))
      BY <1>13, <2>1, WriteEffect DEF Report, PipeInv
  <2>3. FramesFor(b)' = FramesFor(b)
      BY <1>13 DEF Report, FramesFor
  <2>4. CASE c = b
      BY <1>13, <2>2, <2>3, <2>4 DEF Report, PipeInv
  <2>5. CASE c # b
      BY <1>13, <2>2, <2>5 DEF Report, TypeOK
  <2>6. QED
      BY <2>4, <2>5
<1>14. ASSUME NEW b \in Client, CompleteStop(b) PROVE Goal
    BY <1>14 DEF CompleteStop, Drain, Serves, Destroy
<1>15. ASSUME NEW b \in Client, ObserveStop(b) PROVE Goal
    BY <1>15 DEF ObserveStop, Serves
<1>16. CASE Close
    BY <1>16 DEF Close, Drain, Destroy
<1>17. CASE Drained
    BY <1>17 DEF Drained
<1>18. CASE UNCHANGED vars
    BY <1>18
<1>19. QED
    BY <1>1, <1>2, <1>3, <1>4, <1>5, <1>6, <1>7, <1>8, <1>9, <1>10, <1>11, <1>12, <1>13, <1>14,
       <1>15, <1>16, <1>17, <1>18 DEF Next, ServerStep, ClientStep

(* There is one stop at a time, and its responder keeps its connection.     *)
LEMMA StopStep == IndInv /\ [Next]_vars => StopInv' /\ ResponderIsKept'
<1> SUFFICES ASSUME TypeOK, KindInv, OutcomeInv, StopInv, ResponderIsKept, [Next]_vars
             PROVE  StopInv' /\ ResponderIsKept'
    BY DEF IndInv
<1> USE DEF TypeOK, KindInv, OutcomeInv, StopInv, ResponderIsKept, Busy, Outcomes, Waiting,
            vars, sessionVars, resultVars, serveVars, clientVars
<1>1. ASSUME NEW b \in Client, Connect(b) PROVE StopInv' /\ ResponderIsKept'
    BY <1>1 DEF Connect, Becomes
<1>2. ASSUME NEW b \in Client, Receive(b) PROVE StopInv' /\ ResponderIsKept'
    BY <1>2 DEF Receive, Becomes
<1>3. ASSUME NEW b \in Client, ServerGone(b) PROVE StopInv' /\ ResponderIsKept'
    BY <1>3 DEF ServerGone, Becomes
<1>4. ASSUME NEW b \in Client, GiveUp(b) PROVE StopInv' /\ ResponderIsKept'
    BY <1>4 DEF GiveUp, Becomes
<1>5. ASSUME NEW b \in Client, Admit(b) PROVE StopInv' /\ ResponderIsKept'
    BY <1>5 DEF Admit, Serves
<1>6. ASSUME NEW b \in Client, HangUp(b) PROVE StopInv' /\ ResponderIsKept'
    BY <1>6 DEF HangUp, Destroy
<1>7. ASSUME NEW b \in Client, ReadFails(b) PROVE StopInv' /\ ResponderIsKept'
    BY <1>7 DEF ReadFails, Serves, Destroy
<1>8. ASSUME NEW b \in Client, ReadAsk(b) PROVE StopInv' /\ ResponderIsKept'
    BY <1>8 DEF ReadAsk, Serves
<1>9. ASSUME NEW b \in Client, Answer(b) PROVE StopInv' /\ ResponderIsKept'
    BY <1>9 DEF Answer, Write, Serves, Destroy
<1>10. ASSUME NEW b \in Client, AcceptStop(b) PROVE StopInv' /\ ResponderIsKept'
    BY <1>10 DEF AcceptStop, Serves, Destroy
<1>11. ASSUME NEW b \in Client, RunStop(b) PROVE StopInv' /\ ResponderIsKept'
    BY <1>11 DEF RunStop, Write, Serves, Destroy
<1>12. ASSUME NEW b \in Client, StopEnds(b) PROVE StopInv' /\ ResponderIsKept'
    BY <1>12 DEF StopEnds, Serves
<1>13. ASSUME NEW b \in Client, Report(b) PROVE StopInv' /\ ResponderIsKept'
    BY <1>13 DEF Report, Write, Serves, Destroy
<1>14. ASSUME NEW b \in Client, CompleteStop(b) PROVE StopInv' /\ ResponderIsKept'
  <2>1. \A d \in Client \ {b} : ~Busy(d)
      BY <1>14 DEF CompleteStop
  <2>2. /\ serve' = [serve EXCEPT ![b] = serve'[b]]
        /\ serve'[b] \in {"observing", "draining"}
        /\ phase' = "accepting" => outcome[b] # "completed"
        /\ phase' \in {"accepting", "terminal"}
        /\ UNCHANGED <<outcome, kind, sent>>
      BY <1>14 DEF CompleteStop, Serves
  <2>3. \A d \in Client : ~Busy(d)'
      BY <2>1, <2>2
  <2>4. ASSUME NEW d \in Client, outcome'[d] = "completed" PROVE phase' = "terminal"
    <3>1. outcome[d] = "completed" /\ phase = "stopping"
        BY <1>14, <2>2, <2>4 DEF CompleteStop
    <3>2. d = b
        BY <2>1, <3>1
    <3>3. QED
        BY <2>2, <3>1, <3>2
  <2>5. QED
      BY <2>3, <2>4
<1>15. ASSUME NEW b \in Client, ObserveStop(b) PROVE StopInv' /\ ResponderIsKept'
    BY <1>15 DEF ObserveStop, Serves
<1>16. CASE Close
    BY <1>16 DEF Close, Drain, Destroy
<1>17. CASE Drained
    BY <1>17 DEF Drained
<1>18. CASE UNCHANGED vars
    BY <1>18
<1>19. QED
    BY <1>1, <1>2, <1>3, <1>4, <1>5, <1>6, <1>7, <1>8, <1>9, <1>10, <1>11, <1>12, <1>13, <1>14,
       <1>15, <1>16, <1>17, <1>18 DEF Next, ServerStep, ClientStep

(* No request can be read any more once one has been accepted.              *)
LEMMA RequestStep == IndInv /\ [Next]_vars => RequestInv'
<1> SUFFICES ASSUME TypeOK, KindInv, StopInv, RequestInv, [Next]_vars PROVE RequestInv'
    BY DEF IndInv
<1> USE DEF TypeOK, KindInv, StopInv, RequestInv, Busy, vars, sessionVars, resultVars,
   serveVars, clientVars
<1>1. ASSUME NEW b \in Client, Connect(b) PROVE RequestInv'
    BY <1>1 DEF Connect, Becomes
<1>2. ASSUME NEW b \in Client, Receive(b) PROVE RequestInv'
    BY <1>2 DEF Receive, Becomes
<1>3. ASSUME NEW b \in Client, ServerGone(b) PROVE RequestInv'
    BY <1>3 DEF ServerGone, Becomes
<1>4. ASSUME NEW b \in Client, GiveUp(b) PROVE RequestInv'
    BY <1>4 DEF GiveUp, Becomes
<1>5. ASSUME NEW b \in Client, Admit(b) PROVE RequestInv'
    BY <1>5 DEF Admit, Serves
<1>6. ASSUME NEW b \in Client, HangUp(b) PROVE RequestInv'
    BY <1>6 DEF HangUp, Destroy
<1>7. ASSUME NEW b \in Client, ReadFails(b) PROVE RequestInv'
    BY <1>7 DEF ReadFails, Serves, Destroy
<1>8. ASSUME NEW b \in Client, ReadAsk(b) PROVE RequestInv'
    BY <1>8 DEF ReadAsk, Serves
<1>9. ASSUME NEW b \in Client, Answer(b) PROVE RequestInv'
    BY <1>9 DEF Answer, Write, Serves, Destroy
<1>10. ASSUME NEW b \in Client, AcceptStop(b) PROVE RequestInv'
    BY <1>10 DEF AcceptStop, Serves, Destroy
<1>11. ASSUME NEW b \in Client, RunStop(b) PROVE RequestInv'
    BY <1>11 DEF RunStop, Write, Serves, Destroy
<1>12. ASSUME NEW b \in Client, StopEnds(b) PROVE RequestInv'
    BY <1>12 DEF StopEnds, Serves
<1>13. ASSUME NEW b \in Client, Report(b) PROVE RequestInv'
    BY <1>13 DEF Report, Write, Serves, Destroy
<1>14. ASSUME NEW b \in Client, CompleteStop(b) PROVE RequestInv'
    BY <1>14 DEF CompleteStop, Drain, Serves, Destroy
<1>15. ASSUME NEW b \in Client, ObserveStop(b) PROVE RequestInv'
    BY <1>15 DEF ObserveStop, Serves
<1>16. CASE Close
    BY <1>16 DEF Close, Drain, Destroy
<1>17. CASE Drained
    BY <1>17 DEF Drained
<1>18. CASE UNCHANGED vars
    BY <1>18
<1>19. QED
    BY <1>1, <1>2, <1>3, <1>4, <1>5, <1>6, <1>7, <1>8, <1>9, <1>10, <1>11, <1>12, <1>13, <1>14,
       <1>15, <1>16, <1>17, <1>18 DEF Next, ServerStep, ClientStep

-----------------------------------------------------------------------------
(* The inductive invariant holds in every reachable state.                  *)
THEOREM Invariant == Spec => []IndInv
<1>1. IndInv /\ [Next]_vars => IndInv'
  <2> SUFFICES ASSUME IndInv, [Next]_vars PROVE IndInv'
      OBVIOUS
  <2>1. PipeInv'
      BY PipeStep
  <2>2. QED
      BY <2>1, TypeStep, KindStep, OutcomeStep, StopStep, RequestStep DEF IndInv
<1>2. QED
    BY InitInv, <1>1, PTL DEF Spec

(* Type correctness.                                                       *)
THEOREM TypeCorrect == Spec => []TypeOK
<1>1. IndInv => TypeOK
    BY DEF IndInv
<1>2. QED
    BY Invariant, <1>1, PTL

(* A client that waits for a stop is told how its own stop has ended, and   *)
(* "completed" only by a session that takes no request any more.            *)
THEOREM AnswersTrue == Spec => []AnswersAreTrue
<1>1. IndInv => AnswersAreTrue
    BY DEF IndInv, PipeInv, StopInv, AnswersAreTrue, Outcomes, Busy
<1>2. QED
    BY Invariant, <1>1, PTL

(* One stop callback runs at a time, and whoever waits for it stays         *)
(* connected until it is answered.                                         *)
THEOREM ResponderKept == Spec => []ResponderIsKept
<1>1. IndInv => ResponderIsKept
    BY DEF IndInv
<1>2. QED
    BY Invariant, <1>1, PTL

(* acceptStop never has to refuse a stop: while one runs, or after the last *)
(* one, no connection is left that could bring a request.                  *)
THEOREM NoRequestMeetsAStop ==
    Spec => [](\A c \in Client : serve[c] = "reading" /\ socket[c] = "open" => phase = "accepting")
<1>1. IndInv => \A c \in Client : serve[c] = "reading" /\ socket[c] = "open" => phase = "accepting"
    BY DEF IndInv, RequestInv
<1>2. QED
    BY Invariant, <1>1, PTL
=============================================================================
