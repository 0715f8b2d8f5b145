---------------------------- MODULE HomeSession -----------------------------
(***************************************************************************)
(* The durable object of one home: it holds the WebSocket of the home's    *)
(* connector and relays HTTP commands over it (durable_objects/            *)
(* HomeSession.ts).  JavaScript runs one handler at a time; a step of this *)
(* module is one handler run up to its next await, the microtasks it       *)
(* resolves included.  Awaits of storage are not interleaving points (the  *)
(* object's input gate is closed); the await of request.json() is.         *)
(***************************************************************************)
EXTENDS FiniteSets

CONSTANTS
    Conns,  \* connection attempts; each is one WebSocket, attached once
    Reqs,   \* HTTP requests to /command; each becomes at most one command
    None    \* JavaScript's null

ASSUME NoneIsNull == None \notin Conns /\ None \notin Reqs

VARIABLES
    conn,                     \* each WebSocket as the object's side sees it
    connectorSocket,          \* the socket commands are sent on, or None
    connectorMeta,            \* whose metadata /status shows, or None
    waitForConnectorResolve,  \* the request in the single wake-up slot
    phase,                    \* where the handler of each request stands
    answer,                   \* the HTTP answer of each request
    sentOn,                   \* the socket each command was sent on
    pending,                  \* the keys of the pending map
    timers,                   \* the requests whose command timer is armed
    lastMetadata              \* the socket the last event message came from

vars == <<conn, connectorSocket, connectorMeta, waitForConnectorResolve, phase,
          answer, sentOn, pending, timers, lastMetadata>>

ConnStates == {"unused", "open", "lost", "errored", "closed"}
Phases == {"idle", "grace", "body", "relayed", "done"}
Verdicts == {"ok", "error", "timeout", "disconnected"}
Refusals == {"offline", "badRequest", "threw"}
Answers == Verdicts \cup Refusals \cup {"aborted"}

TypeOK ==
    /\ conn \in [Conns -> ConnStates]
    /\ connectorSocket \in Conns \cup {None}
    /\ connectorMeta \in Conns \cup {None}
    /\ waitForConnectorResolve \in Reqs \cup {None}
    /\ phase \in [Reqs -> Phases]
    /\ answer \in [Reqs -> Answers \cup {"none"}]
    /\ sentOn \in [Reqs -> Conns \cup {None}]
    /\ pending \subseteq Reqs
    /\ timers \subseteq Reqs
    /\ lastMetadata \in Conns \cup {None}

Init ==
    /\ conn = [c \in Conns |-> "unused"]
    /\ connectorSocket = None
    /\ connectorMeta = None
    /\ waitForConnectorResolve = None
    /\ phase = [r \in Reqs |-> "idle"]
    /\ answer = [r \in Reqs |-> "none"]
    /\ sentOn = [r \in Reqs |-> None]
    /\ pending = {}
    /\ timers = {}
    /\ lastMetadata = None

isConnectorOnline == connectorSocket # None /\ connectorMeta # None

\* Requests R get the answer `out` and their handlers return.
Finish(R, out) ==
    /\ phase' = [r \in Reqs |-> IF r \in R THEN "done" ELSE phase[r]]
    /\ answer' = [r \in Reqs |-> IF r \in R THEN out ELSE answer[r]]

-----------------------------------------------------------------------------
(* The connector's WebSocket *)

\* attachConnector closes the socket in use with 1012; the close event of the
\* old socket comes later.
CloseReplaced(c) ==
    [d \in Conns |-> IF d = c THEN "open"
                     ELSE IF d = connectorSocket /\ conn[d] = "open" THEN "lost"
                     ELSE conn[d]]

\* Mutant: the waiter is woken into a state no handler goes on from.
notifyConnectorAttached_strands ==
    /\ phase' = [r \in Reqs |->
                    IF r = waitForConnectorResolve THEN "woken" ELSE phase[r]]
    /\ waitForConnectorResolve' = None

\* notifyConnectorAttached wakes the one waiter in the slot, which goes on to
\* read its body.
notifyConnectorAttached ==
    /\ phase' = [r \in Reqs |->
                    IF r = waitForConnectorResolve THEN "body" ELSE phase[r]]
    /\ waitForConnectorResolve' = None

\* GET /attach with an upgrade header and the connector's metadata.
attachConnector(c) ==
    /\ conn[c] = "unused"
    /\ conn' = CloseReplaced(c)
    /\ connectorSocket' = c
    /\ connectorMeta' = c
    /\ notifyConnectorAttached
    /\ UNCHANGED <<answer, sentOn, pending, timers, lastMetadata>>

\* The network or the connector ends the connection; the object hears later.
LoseConnection(c) ==
    /\ conn[c] = "open"
    /\ conn' = [conn EXCEPT ![c] = "lost"]
    /\ UNCHANGED <<connectorSocket, connectorMeta, waitForConnectorResolve,
                   phase, answer, sentOn, pending, timers, lastMetadata>>

\* Mutant: the timers of the rejected commands are not cleared.
onClose_leavesTimers ==
    /\ connectorSocket' = None
    /\ connectorMeta' = None
    /\ Finish({r \in pending : phase[r] = "relayed"}, "disconnected")
    /\ pending' = {}
    /\ UNCHANGED timers

\* Mutant: the socket is kept, only the pending commands are rejected.
onClose_keepsSocket ==
    /\ UNCHANGED <<connectorSocket, connectorMeta>>
    /\ Finish({r \in pending : phase[r] = "relayed"}, "disconnected")
    /\ pending' = {}
    /\ timers' = timers \ pending

\* The listener of both "close" and "error": it forgets the socket in use,
\* whichever socket the event is of, and rejects every pending command.
onClose ==
    /\ connectorSocket' = None
    /\ connectorMeta' = None
    /\ Finish({r \in pending : phase[r] = "relayed"}, "disconnected")
    /\ pending' = {}
    /\ timers' = timers \ pending

CloseEvent(c) ==
    /\ conn[c] \in {"lost", "errored"}
    /\ conn' = [conn EXCEPT ![c] = "closed"]
    /\ onClose
    /\ UNCHANGED <<waitForConnectorResolve, sentOn, lastMetadata>>

ErrorEvent(c) ==
    /\ conn[c] \in {"open", "lost"}
    /\ conn' = [conn EXCEPT ![c] = "errored"]
    /\ onClose
    /\ UNCHANGED <<waitForConnectorResolve, sentOn, lastMetadata>>

\* Mutant: the pending map is not consulted, a late response is taken too.
ResponseMessage_unchecked(c, r, ok) ==
    /\ conn[c] \in {"open", "lost"}
    /\ sentOn[r] = c
    /\ timers' = timers \ {r}
    /\ pending' = pending \ {r}
    /\ Finish({r}, IF ok THEN "ok" ELSE "error")
    /\ UNCHANGED <<conn, connectorSocket, connectorMeta,
                   waitForConnectorResolve, sentOn, lastMetadata>>

\* A response message: a known request is settled, its timer cleared; a
\* response to a request that is no longer pending is dropped.  The listener
\* does not ask whether c is still the socket in use.
ResponseMessage(c, r, ok) ==
    /\ conn[c] \in {"open", "lost"}
    /\ sentOn[r] = c
    /\ r \in pending
    /\ timers' = timers \ {r}
    /\ pending' = pending \ {r}
    /\ Finish({r}, IF ok THEN "ok" ELSE "error")
    /\ UNCHANGED <<conn, connectorSocket, connectorMeta,
                   waitForConnectorResolve, sentOn, lastMetadata>>

EventMessage(c) ==
    /\ conn[c] \in {"open", "lost"}
    /\ lastMetadata' = c
    /\ UNCHANGED <<conn, connectorSocket, connectorMeta,
                   waitForConnectorResolve, phase, answer, sentOn, pending, timers>>

-----------------------------------------------------------------------------
(* relayCommand, one action per stretch between awaits *)

\* POST /command while the connector is online: on to the body.
RelayOnline(r) ==
    /\ phase[r] = "idle"
    /\ isConnectorOnline
    /\ phase' = [phase EXCEPT ![r] = "body"]
    /\ UNCHANGED <<conn, connectorSocket, connectorMeta, waitForConnectorResolve,
                   answer, sentOn, pending, timers, lastMetadata>>

\* POST /command while it is offline: waitForConnector puts the request in the
\* slot, over any request already there, and arms a grace timer for it.
waitForConnector(r) ==
    /\ phase[r] = "idle"
    /\ ~isConnectorOnline
    /\ phase' = [phase EXCEPT ![r] = "grace"]
    /\ waitForConnectorResolve' = r
    /\ UNCHANGED <<conn, connectorSocket, connectorMeta,
                   answer, sentOn, pending, timers, lastMetadata>>

\* Mutant: the timer resolves only a wait that met a connector.
GraceTimeout_onlyOnline(r) ==
    /\ phase[r] = "grace"
    /\ isConnectorOnline
    /\ waitForConnectorResolve' = None
    /\ phase' = [phase EXCEPT ![r] = "body"]
    /\ UNCHANGED <<answer, conn, connectorSocket, connectorMeta,
                   sentOn, pending, timers, lastMetadata>>

\* The grace timer of r: it empties the slot, whoever is in it.
GraceTimeout(r) ==
    /\ phase[r] = "grace"
    /\ waitForConnectorResolve' = None
    /\ \/ /\ isConnectorOnline
          /\ phase' = [phase EXCEPT ![r] = "body"]
          /\ UNCHANGED answer
       \/ /\ ~isConnectorOnline
          /\ Finish({r}, "offline")
    /\ UNCHANGED <<conn, connectorSocket, connectorMeta,
                   sentOn, pending, timers, lastMetadata>>

\* The body has no command_type.
BadBody(r) ==
    /\ phase[r] = "body"
    /\ Finish({r}, "badRequest")
    /\ UNCHANGED <<conn, connectorSocket, connectorMeta, waitForConnectorResolve,
                   sentOn, pending, timers, lastMetadata>>

\* The body is read: register the command, arm its timer, send it.  When the
\* socket went away during the read, send throws on null: the handler ends
\* with an exception and leaves the entry and the timer behind.
DispatchCommand(r) ==
    /\ phase[r] = "body"
    /\ pending' = pending \cup {r}
    /\ timers' = timers \cup {r}
    /\ \/ /\ connectorSocket # None
          /\ sentOn' = [sentOn EXCEPT ![r] = connectorSocket]
          /\ phase' = [phase EXCEPT ![r] = "relayed"]
          /\ UNCHANGED answer
       \/ /\ connectorSocket = None
          /\ Finish({r}, "threw")
          /\ UNCHANGED sentOn
    /\ UNCHANGED <<conn, connectorSocket, connectorMeta, waitForConnectorResolve,
                   lastMetadata>>

\* Mutant: the timer rejects but does not delete the entry.
CommandTimeout_keepsEntry(r) ==
    /\ r \in timers
    /\ timers' = timers \ {r}
    /\ Finish({r} \cap {q \in Reqs : phase[q] = "relayed"}, "timeout")
    /\ UNCHANGED <<conn, connectorSocket, connectorMeta, waitForConnectorResolve,
                   sentOn, pending, lastMetadata>>

\* The command timer of r: drop the entry and reject the promise, which nobody
\* awaits any more when the handler threw.
CommandTimeout(r) ==
    /\ r \in timers
    /\ timers' = timers \ {r}
    /\ pending' = pending \ {r}
    /\ Finish({r} \cap {q \in Reqs : phase[q] = "relayed"}, "timeout")
    /\ UNCHANGED <<conn, connectorSocket, connectorMeta, waitForConnectorResolve,
                   sentOn, lastMetadata>>

\* The platform restarts the object: sockets, timers and maps are gone, and the
\* requests it was serving fail at their callers.
Restart ==
    /\ \/ \E c \in Conns : conn[c] \in {"open", "lost", "errored"}
       \/ \E r \in Reqs : phase[r] \notin {"idle", "done"}
    /\ conn' = [c \in Conns |-> IF conn[c] = "unused" THEN "unused" ELSE "closed"]
    /\ connectorSocket' = None
    /\ connectorMeta' = None
    /\ waitForConnectorResolve' = None
    /\ Finish({r \in Reqs : phase[r] \notin {"idle", "done"}}, "aborted")
    /\ pending' = {}
    /\ timers' = {}
    /\ lastMetadata' = None
    /\ UNCHANGED sentOn

-----------------------------------------------------------------------------
ConnectorStep ==
    \E c \in Conns :
        \/ attachConnector(c)
        \/ LoseConnection(c)
        \/ CloseEvent(c)
        \/ ErrorEvent(c)
        \/ EventMessage(c)
        \/ \E r \in Reqs, ok \in BOOLEAN : ResponseMessage(c, r, ok)

ReadBody(r) == BadBody(r) \/ DispatchCommand(r)

RelayStep ==
    \E r \in Reqs :
        \/ RelayOnline(r)
        \/ waitForConnector(r)
        \/ GraceTimeout(r)
        \/ ReadBody(r)
        \/ CommandTimeout(r)

Next == ConnectorStep \/ RelayStep \/ Restart

Spec == Init /\ [][Next]_vars

\* The runtime fires every armed timer and delivers every request body.  No
\* fairness of the connector or of the network is assumed.
Fairness ==
    \A r \in Reqs :
        /\ WF_vars(GraceTimeout(r))
        /\ WF_vars(ReadBody(r))
        /\ WF_vars(CommandTimeout(r))

FairSpec == Spec /\ Fairness

-----------------------------------------------------------------------------
(* Safety properties *)

\* No caller is left waiting for nothing: a handler that awaits a command has
\* its entry in the pending map, and exactly the entries of the map have an
\* armed timer.  Entry and timer are dropped in four places (response, close,
\* timeout, restart), and a place that drops one without the other hangs a
\* caller or lets a dead timer hit a later command.
AwaitedCommandsExpire ==
    /\ pending = timers
    /\ \A r \in Reqs : phase[r] = "relayed" => r \in pending

\* The pending map holds only commands whose caller still waits, and the ones
\* that a send on a null socket left behind; a command that was answered in
\* any way is gone from it, so a late response finds nothing.
PendingIsUnanswered ==
    \A r \in pending : phase[r] = "relayed" \/ answer[r] = "threw"

\* The object never takes a socket for usable whose close or error event it
\* has seen, and the metadata it shows is that of the socket it uses.
NoStaleSocket ==
    /\ connectorMeta = connectorSocket
    /\ connectorSocket # None => conn[connectorSocket] \in {"open", "lost"}

\* Whoever is in the wake-up slot still waits, and the object is offline: an
\* attach never leaves the slot filled, and a timer never leaves its own
\* finished request there for a later attach to wake.
SlotHoldsAWaiter ==
    waitForConnectorResolve # None =>
        /\ phase[waitForConnectorResolve] = "grace"
        /\ ~isConnectorOnline

\* A request has an answer when and only when its handler ended, and what a
\* connector answered or failed to answer is reported only for a command that
\* was sent; a refusal before the send is reported only for one that was not.
AnswersMatchDispatch ==
    \A r \in Reqs :
        /\ phase[r] = "done" <=> answer[r] # "none"
        /\ phase[r] = "relayed" => sentOn[r] # None
        /\ answer[r] \in Verdicts => sentOn[r] # None
        /\ answer[r] \in Refusals => sentOn[r] = None
        /\ phase[r] \in {"idle", "grace", "body"} => sentOn[r] = None

-----------------------------------------------------------------------------
(* Liveness *)

\* Every accepted request is answered, whatever connector and network do.
EveryRequestAnswered ==
    \A r \in Reqs : phase[r] \in {"grace", "body", "relayed"} ~> phase[r] = "done"

-----------------------------------------------------------------------------
(* Refinement of the abstract relay *)

StatusOf(p) ==
    IF p = "idle" THEN "new" ELSE IF p = "done" THEN "answered" ELSE "waiting"

Relay == INSTANCE CommandRelay WITH
    status <- [r \in Reqs |-> StatusOf(phase[r])],
    handedOver <- {r \in Reqs : sentOn[r] # None},
    reply <- answer

\* The object keeps the promises of CommandRelay, liveness included: one answer
\* per request, at most one hand-over, no verdict without a hand-over.
ImplementsRelay == Relay!Spec

-----------------------------------------------------------------------------
(* What the change log says of the grace wait, which the code does not keep *)

\* "relayCommand now waits up to 5 seconds for the connector WebSocket to
\* reconnect before returning 503": no 503 while a reconnected socket is open.
OfflineOnlyWithoutConnector ==
    [][\A r \in Reqs :
          answer[r] = "none" /\ answer'[r] = "offline"
              => \A c \in Conns : conn[c] # "open"]_vars

=============================================================================
