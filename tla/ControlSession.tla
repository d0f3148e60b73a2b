--------------------------- MODULE ControlSession ---------------------------
(***************************************************************************)
(* The control endpoint of one server, socket by socket:                    *)
(* ControlEndpointService.serve, serveStop and ControlEndpointSession at     *)
(* one end, exchange and exchangeStop of ControlClientService at the other. *)
(*                                                                         *)
(* A client asks for the status or the identity of the server ("ask"),      *)
(* tells it to stop ("stop"), or does so and waits for the end of the stop  *)
(* ("wait").  One stop at a time is accepted, the other connections are cut *)
(* then, and the session goes on according to how the stop callback ends    *)
(* and to whether close was called meanwhile, usually by that callback.     *)
(*                                                                         *)
(* DataDirectory has the same session, of several servers at once, with one *)
(* step for what is an exchange of frames here.                            *)
(***************************************************************************)
EXTENDS Naturals, Sequences

CONSTANTS
    Client,     \* the connections, one exchange each
    NoClient

ASSUME NoClientAssumption == NoClient \notin Client

VARIABLES
    phase,          \* of ControlEndpointSession
    closeRequested,
    stopAccepted,
    responder,
    endpoint,       \* the listening socket: drainPromise, and whether it has settled
    stopResult,     \* the two promises of the session that tell of the first stop
    stopDelivery,
    serve,          \* serve(): where the handler of each connection is
    socket,         \* the server's end of the connection, "ended" when it has written all
    sent,           \* acceptedSent, then sent, of serveStop
    outcome,        \* the completion of the stop callback run for this connection
    kind,           \* what the client asks for
    pipe,           \* frames written and not yet read by the client
    client          \* the promise of the client

sessionVars == <<phase, closeRequested, stopAccepted, responder, endpoint>>
resultVars  == <<stopResult, stopDelivery>>
serveVars   == <<serve, sent, outcome>>
clientVars  == <<kind, client>>
vars == <<sessionVars, resultVars, serveVars, socket, pipe, clientVars>>

Outcomes == {"completed", "retained", "unconfirmed"}
Frames   == {"answer", "accepted"} \cup Outcomes
Waiting  == {"waiting", "accepted"}

TypeOK ==
    /\ phase \in {"accepting", "stopping", "terminal"}
    /\ closeRequested \in BOOLEAN /\ stopAccepted \in BOOLEAN
    /\ responder \in Client \cup {NoClient}
    /\ endpoint \in {"listening", "draining", "closed"}
    /\ stopResult \in {"pending", "completed", "failed", "not-requested"}
    /\ stopDelivery \in {"pending", "sent", "failed"}
    /\ serve \in [Client -> {"none", "reading", "answering", "accepting", "stopping",
                             "reporting", "completing", "draining", "observing", "done"}]
    /\ socket \in [Client -> {"none", "backlog", "open", "ended", "closed"}]
    /\ sent \in [Client -> BOOLEAN]
    /\ outcome \in [Client -> {"none"} \cup Outcomes]
    /\ kind \in [Client -> {"none", "ask", "stop", "wait"}]
    /\ pipe \in [Client -> Seq(Frames)]
    /\ client \in [Client -> {"idle", "error", "answered", "told"} \cup Waiting \cup Outcomes]

Init ==
    /\ phase = "accepting" /\ closeRequested = FALSE /\ stopAccepted = FALSE
    /\ responder = NoClient /\ endpoint = "listening"
    /\ stopResult = "pending" /\ stopDelivery = "pending"
    /\ serve = [c \in Client |-> "none"]
    /\ socket = [c \in Client |-> "none"]
    /\ sent = [c \in Client |-> FALSE]
    /\ outcome = [c \in Client |-> "none"]
    /\ kind = [c \in Client |-> "none"]
    /\ pipe = [c \in Client |-> <<>>]
    /\ client = [c \in Client |-> "idle"]

Serves(c, s)  == serve' = [serve EXCEPT ![c] = s]
Becomes(c, s) == client' = [client EXCEPT ![c] = s]

(* socket.destroy(): what is written stays readable for the client.         *)
Destroy(C) ==
    socket' = [c \in Client |-> IF c \in C /\ socket[c] # "none" THEN "closed" ELSE socket[c]]

-----------------------------------------------------------------------------
(* The client                                                              *)

(* connect, and the request is written as soon as the socket is connected.  *)
Connect(c) ==
    /\ client[c] = "idle"
    /\ \E k \in {"ask", "stop", "wait"} : kind' = [kind EXCEPT ![c] = k]
    /\ IF endpoint = "listening"
          THEN Becomes(c, "waiting") /\ socket' = [socket EXCEPT ![c] = "backlog"]
          ELSE Becomes(c, "error") /\ UNCHANGED socket
    /\ UNCHANGED <<sessionVars, resultVars, serveVars, pipe>>

(* A stop-and-wait takes two frames, every other exchange one.              *)
Receive(c) ==
    /\ client[c] \in Waiting /\ pipe[c] # <<>>
    /\ pipe' = [pipe EXCEPT ![c] = Tail(@)]
    /\ Becomes(c, CASE kind[c] = "ask" -> "answered"
                    [] kind[c] = "stop" -> "told"
                    [] kind[c] = "wait" -> Head(pipe[c]))
    /\ UNCHANGED <<sessionVars, resultVars, serveVars, socket, kind>>

(* The end of the connection, with all that was written on it read.         *)
ServerGone(c) ==
    /\ client[c] \in Waiting /\ pipe[c] = <<>>
    /\ socket[c] \in {"ended", "closed"}
    /\ Becomes(c, "error")
    /\ UNCHANGED <<sessionVars, resultVars, serveVars, socket, pipe, kind>>

(* The timer of the exchange, or the death of the client.                  *)
GiveUp(c) ==
    /\ client[c] \in Waiting
    /\ Becomes(c, "error")
    /\ UNCHANGED <<sessionVars, resultVars, serveVars, socket, pipe, kind>>

-----------------------------------------------------------------------------
(* Connections and their frames at the server                              *)

Admit(c) ==
    /\ socket[c] = "backlog"
    /\ IF phase = "accepting"
          THEN socket' = [socket EXCEPT ![c] = "open"] /\ Serves(c, "reading")
          ELSE socket' = [socket EXCEPT ![c] = "closed"] /\ UNCHANGED serve
    /\ UNCHANGED <<sessionVars, resultVars, sent, outcome, pipe, clientVars>>

(* The client has gone: the socket closes by itself.                       *)
HangUp(c) ==
    /\ socket[c] \in {"open", "ended"} /\ client[c] \notin Waiting
    /\ Destroy({c})
    /\ UNCHANGED <<sessionVars, resultVars, serveVars, pipe, clientVars>>

(* The deadline of readFrame, or the socket closes first.                  *)
ReadFails(c) ==
    /\ serve[c] = "reading"
    /\ Destroy({c})
    /\ Serves(c, "done")
    /\ UNCHANGED <<sessionVars, resultVars, sent, outcome, pipe, clientVars>>

ReadAsk(c) ==
    /\ serve[c] = "reading" /\ socket[c] = "open" /\ kind[c] = "ask"
    /\ Serves(c, "answering")
    /\ UNCHANGED <<sessionVars, resultVars, sent, outcome, socket, pipe, clientVars>>

(* writeFrame: the frame is flushed, or it fails and the socket is closed.  *)
Write(c, frame, end) ==
    \/ /\ socket[c] = "open"
       /\ pipe' = [pipe EXCEPT ![c] = Append(@, frame)]
       /\ socket' = IF end THEN [socket EXCEPT ![c] = "ended"] ELSE socket
       /\ sent' = [sent EXCEPT ![c] = TRUE]
    \/ /\ Destroy({c})
       /\ sent' = [sent EXCEPT ![c] = FALSE]
       /\ UNCHANGED pipe

(* The facts, the status, or that the client is not authorized.             *)
Answer(c) ==
    /\ serve[c] = "answering"
    /\ Write(c, "answer", TRUE)
    /\ Serves(c, "done")
    /\ UNCHANGED <<sessionVars, resultVars, outcome, clientVars>>

-----------------------------------------------------------------------------
(* serveStop                                                               *)

(* acceptStop: every other connection is cut, so that no second request can  *)
(* be read while the stop runs, and the refusal of one is never needed.     *)
AcceptStop(c) ==
    /\ serve[c] = "reading" /\ socket[c] = "open" /\ kind[c] \in {"stop", "wait"}
    /\ phase = "accepting"
    /\ phase' = "stopping" /\ stopAccepted' = TRUE
    /\ responder' = c
    /\ Destroy({d \in Client : d # c /\ socket[d] # "backlog"})
    /\ Serves(c, "accepting")
    /\ UNCHANGED <<closeRequested, endpoint, resultVars, sent, outcome, pipe, clientVars>>

(* The acceptance is written, or not: the stop is run all the same.  Whoever *)
(* does not wait for its completion is no responder from here on.           *)
RunStop(c) ==
    /\ serve[c] = "accepting"
    /\ Write(c, "accepted", kind[c] = "stop")
    /\ responder' = IF kind[c] = "stop" THEN NoClient ELSE responder
    /\ Serves(c, "stopping")
    /\ UNCHANGED <<phase, closeRequested, stopAccepted, endpoint, resultVars, outcome, clientVars>>

(* onStop resolves; a callback that throws is "unconfirmed".               *)
StopEnds(c) ==
    /\ serve[c] = "stopping"
    /\ \E o \in Outcomes : outcome' = [outcome EXCEPT ![c] = o]
    /\ Serves(c, IF kind[c] = "wait" THEN "reporting" ELSE "completing")
    /\ UNCHANGED <<sessionVars, resultVars, sent, socket, pipe, clientVars>>

Report(c) ==
    /\ serve[c] = "reporting"
    /\ Write(c, outcome[c], TRUE)
    /\ Serves(c, "completing")
    /\ UNCHANGED <<sessionVars, resultVars, outcome, clientVars>>

(* drain, at most once: closeEndpoint with no socket to preserve.           *)
Drain ==
    IF endpoint = "listening"
       THEN endpoint' = "draining" /\ Destroy(Client)
       ELSE UNCHANGED <<endpoint, socket>>

CompleteStopAgainM(c) ==  \* only an unconfirmed stop is final
    /\ serve[c] = "completing"
    /\ responder' = NoClient
    /\ IF outcome[c] # "unconfirmed" /\ ~closeRequested
          THEN phase' = "accepting" /\ Serves(c, "observing") /\ UNCHANGED <<endpoint, socket>>
          ELSE phase' = "terminal" /\ Serves(c, "draining") /\ Drain
    /\ UNCHANGED <<closeRequested, stopAccepted, resultVars, sent, outcome, pipe, clientVars>>

CompleteStopM(c) ==  \* a close that was called meanwhile is forgotten
    /\ serve[c] = "completing"
    /\ responder' = NoClient
    /\ IF outcome[c] = "retained"
          THEN phase' = "accepting" /\ Serves(c, "observing") /\ UNCHANGED <<endpoint, socket>>
          ELSE phase' = "terminal" /\ Serves(c, "draining") /\ Drain
    /\ UNCHANGED <<closeRequested, stopAccepted, resultVars, sent, outcome, pipe, clientVars>>

(* completeStop: a stop that has kept everything may be tried again.        *)
CompleteStop(c) ==
    /\ serve[c] = "completing"
    /\ responder' = NoClient
    /\ IF outcome[c] = "retained" /\ ~closeRequested
          THEN phase' = "accepting" /\ Serves(c, "observing") /\ UNCHANGED <<endpoint, socket>>
          ELSE phase' = "terminal" /\ Serves(c, "draining") /\ Drain
    /\ UNCHANGED <<closeRequested, stopAccepted, resultVars, sent, outcome, pipe, clientVars>>

(* observeStop: both promises keep what they were first resolved with.      *)
ObserveStop(c) ==
    /\ serve[c] = "observing" \/ (serve[c] = "draining" /\ endpoint = "closed")
    /\ stopDelivery' = IF stopDelivery # "pending" THEN stopDelivery
                       ELSE IF sent[c] THEN "sent" ELSE "failed"
    /\ stopResult' = IF stopResult # "pending" THEN stopResult
                     ELSE IF outcome[c] = "completed" THEN "completed" ELSE "failed"
    /\ Serves(c, "done")
    /\ UNCHANGED <<sessionVars, sent, outcome, socket, pipe, clientVars>>

-----------------------------------------------------------------------------
(* ControlEndpointSession.close                                            *)

CloseM ==  \* the connection that waits for the completion is cut too
    /\ ~closeRequested
    /\ closeRequested' = TRUE
    /\ IF phase = "stopping"
          THEN /\ Destroy({c \in Client : socket[c] # "backlog"})
               /\ UNCHANGED <<phase, endpoint>>
          ELSE phase' = "terminal" /\ Drain
    /\ UNCHANGED <<stopAccepted, responder, resultVars, serveVars, pipe, clientVars>>

(* While a stop runs, only the connections that do not wait for it go; the  *)
(* rest is left to completeStop.  Later calls change nothing.               *)
Close ==
    /\ ~closeRequested
    /\ closeRequested' = TRUE
    /\ IF phase = "stopping"
          THEN /\ Destroy({c \in Client : c # responder /\ socket[c] # "backlog"})
               /\ UNCHANGED <<phase, endpoint>>
          ELSE phase' = "terminal" /\ Drain
    /\ UNCHANGED <<stopAccepted, responder, resultVars, serveVars, pipe, clientVars>>

(* All connections have closed, and with them the server.                  *)
Drained ==
    /\ endpoint = "draining"
    /\ endpoint' = "closed"
    /\ stopResult' = IF stopResult = "pending" /\ ~stopAccepted THEN "not-requested"
                     ELSE stopResult
    /\ UNCHANGED <<phase, closeRequested, stopAccepted, responder, stopDelivery, serveVars,
                   socket, pipe, clientVars>>

-----------------------------------------------------------------------------
ServerStep(c) ==
    \/ Admit(c) \/ HangUp(c)
    \/ ReadFails(c) \/ ReadAsk(c) \/ Answer(c)
    \/ AcceptStop(c) \/ RunStop(c) \/ StopEnds(c)
    \/ Report(c) \/ CompleteStop(c) \/ ObserveStop(c)

ClientStep(c) == Receive(c) \/ ServerGone(c)

Next ==
    \/ \E c \in Client : ServerStep(c) \/ ClientStep(c) \/ Connect(c) \/ GiveUp(c)
    \/ Close \/ Drained

Spec == Init /\ [][Next]_vars

(* Every frame is read and written before a deadline, the stop callback     *)
(* ends as ServerOwner lets it end, and both event loops run.  Nobody has   *)
(* to connect, to give up or to close.                                     *)
Fairness ==
    /\ \A c \in Client : WF_vars(ServerStep(c)) /\ WF_vars(ClientStep(c))
    /\ WF_vars(Drained)

FairSpec == Spec /\ Fairness

-----------------------------------------------------------------------------
(* Properties                                                              *)

(* What a waiting client is told is how the callback of its own stop has    *)
(* ended, and one that is told "completed" has stopped the server for good: *)
(* no request is taken after it.                                           *)
AnswersAreTrue ==
    \A c \in Client : client[c] \in Outcomes =>
        /\ outcome[c] = client[c]
        /\ client[c] = "completed" => phase # "accepting"

(* There is one stop callback at a time, and its client keeps its           *)
(* connection until the answer is written, whatever the callback closes.    *)
ResponderIsKept ==
    \A c \in Client : serve[c] \in {"accepting", "stopping", "reporting"} =>
        /\ phase = "stopping"
        /\ \A d \in Client \ {c} : serve[d] \notin {"stopping", "reporting", "completing"}
        /\ kind[c] = "wait" /\ sent[c] /\ client[c] \in Waiting => socket[c] = "open"

(* Nobody depends on a timer of its own: every exchange ends because the    *)
(* server ends it, and a close that found a stop running is made up for.    *)
SessionSettles ==
    /\ \A c \in Client : client[c] \in Waiting ~> client[c] \notin Waiting
    /\ closeRequested ~> endpoint = "closed"
    /\ stopAccepted ~> stopResult # "pending" /\ stopDelivery # "pending"

=============================================================================
