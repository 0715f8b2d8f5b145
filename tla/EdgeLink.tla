------------------------------ MODULE EdgeLink ------------------------------
(***************************************************************************)
(* The durable object of a home (HomeSession) and the add-on's connector   *)
(* (EdgeConnector), joined by the WebSockets between them.  Commands and   *)
(* responses travel on the socket they were sent on, in order towards the  *)
(* connector; what is on the way when a socket ends may be lost.           *)
(***************************************************************************)
EXTENDS EdgeConnector, Sequences, Naturals

VARIABLES
    conn, connectorSocket, connectorMeta, waitForConnectorResolve, phase,
    answer, sentOn, pending, timers, lastMetadata,  \* of HomeSession
    commands,  \* the commands on their way on each socket
    replies    \* the responses on their way on each socket

Object == INSTANCE HomeSession

wireVars == <<commands, replies>>
objectVars == <<conn, connectorSocket, connectorMeta, waitForConnectorResolve,
                phase, answer, sentOn, pending, timers, lastMetadata>>
vars == <<connectorVars, objectVars, wireVars>>

LinkTypeOK ==
    /\ ConnectorTypeOK
    /\ Object!TypeOK
    /\ commands \in [Conns -> Seq(Reqs)]
    /\ replies \in [Conns -> SUBSET (Reqs \X BOOLEAN)]

Init ==
    /\ ConnectorInit
    /\ Object!Init
    /\ commands = [c \in Conns |-> <<>>]
    /\ replies = [c \in Conns |-> {}]

-----------------------------------------------------------------------------
\* The connector's task leaves connection c (None: it had none): the object's
\* side of it hears later.
Leave(c) ==
    IF c # None /\ conn[c] = "open" THEN Object!LoseConnection(c)
    ELSE UNCHANGED objectVars

\* The Worker authenticates the connector and forwards the upgrade.
handleConnectorWebSocket(c) ==
    /\ Dial(c)
    /\ Object!attachConnector(c)
    /\ UNCHANGED wireVars

ConnectorOpens(c) ==
    /\ Opened(c)
    /\ UNCHANGED <<objectVars, wireVars>>

\* What the object sends after the upgrade waits until the connector is up.
ConnectorFails ==
    /\ ConnectFails
    /\ Leave(dialing)
    /\ UNCHANGED wireVars

ConnectorDrops ==
    /\ ConnectionDropped
    /\ Leave(socket)
    /\ UNCHANGED wireVars

\* A clean close needs somebody else to have ended the connection.
ConnectorEnds ==
    /\ ConnectionEnded
    /\ conn[socket] # "open"
    /\ UNCHANGED <<objectVars, wireVars>>

AddonStops ==
    /\ close
    /\ Leave(IF loop = "connecting" THEN dialing ELSE socket)
    /\ UNCHANGED wireVars

ConnectorAlone ==
    /\ start \/ BackoffOver
    /\ UNCHANGED <<objectVars, wireVars>>

\* connector_hello and connector_auth are events to the object.
send_connector_hello ==
    /\ loop = "running"
    /\ Object!EventMessage(socket)
    /\ UNCHANGED <<connectorVars, wireVars>>

\* A command goes onto the socket, and nowhere if that has ended.
Dispatch(r) ==
    /\ Object!DispatchCommand(r)
    /\ commands' = [c \in Conns |->
                       IF sentOn'[r] = c /\ conn[c] = "open"
                       THEN Append(commands[c], r) ELSE commands[c]]
    /\ UNCHANGED <<connectorVars, replies>>

\* The next message of the connection, received before it ended or after.
Take ==
    /\ loop = "running"
    /\ commands[socket] # <<>>
    /\ TakeCommand(Head(commands[socket]))
    /\ commands' = [commands EXCEPT ![socket] = Tail(@)]
    /\ UNCHANGED <<objectVars, replies>>

\* The response is sent on _socket, and is lost if that has ended.
Reply ==
    /\ \E ok \in BOOLEAN :
          /\ CommandDone(ok)
          /\ \/ replies' = [replies EXCEPT ![socket] = @ \cup {<<handling, ok>>}]
             \/ conn[socket] # "open" /\ UNCHANGED replies
    /\ UNCHANGED <<objectVars, commands>>

\* A response reaches the object, which settles the command or, when nothing
\* is pending for it, drops the message.
Deliver(c) ==
    /\ \E m \in replies[c] :
          /\ \/ Object!ResponseMessage(c, m[1], m[2])
             \/ /\ m[1] \notin pending
                /\ conn[c] \in {"open", "lost"}
                /\ UNCHANGED objectVars
          /\ replies' = [replies EXCEPT ![c] = @ \ {m}]
    /\ UNCHANGED <<connectorVars, commands>>

\* The object hears of the end of c; what was on the way to it is gone.
ObjectHears(c) ==
    /\ Object!CloseEvent(c) \/ Object!ErrorEvent(c)
    /\ replies' = [replies EXCEPT ![c] = {}]
    /\ UNCHANGED <<connectorVars, commands>>

NetworkFails(c) ==
    /\ Object!LoseConnection(c)
    /\ UNCHANGED <<connectorVars, wireVars>>

ObjectAlone ==
    /\ \E r \in Reqs :
          \/ Object!RelayOnline(r)
          \/ Object!waitForConnector(r)
          \/ Object!GraceTimeout(r)
          \/ Object!BadBody(r)
          \/ Object!CommandTimeout(r)
    /\ UNCHANGED <<connectorVars, wireVars>>

ObjectRestarts ==
    /\ Object!Restart
    /\ replies' = [c \in Conns |-> {}]
    /\ UNCHANGED <<connectorVars, commands>>

-----------------------------------------------------------------------------
Next ==
    \/ ConnectorAlone
    \/ \E c \in Conns : handleConnectorWebSocket(c) \/ ConnectorOpens(c)
    \/ ConnectorFails \/ ConnectorDrops \/ ConnectorEnds \/ AddonStops
    \/ send_connector_hello
    \/ \E r \in Reqs : Dispatch(r)
    \/ Take
    \/ Reply
    \/ \E c \in Conns : Deliver(c) \/ ObjectHears(c) \/ NetworkFails(c)
    \/ ObjectAlone
    \/ ObjectRestarts

Spec == Init /\ [][Next]_vars

\* The task takes the next message when there is one, and every handler ends:
\* its calls to Music Assistant have timeouts.
Fairness == WF_vars(Take) /\ WF_vars(Reply)

FairSpec == Spec /\ Fairness

-----------------------------------------------------------------------------
\* A response goes back on the socket its command came on, and the command
\* being handled came on the socket in use.  _send_json sends on whatever
\* _socket is when the handler ends; HomeSession's ResponseMessage relies on
\* the two being the same.
RepliesReturnOnTheirSocket ==
    /\ \A c \in Conns : \A m \in replies[c] : sentOn[m[1]] = c
    /\ handling # None => sentOn[handling] = socket

\* The connector serves socket c.
Serving(c) == loop = "running" /\ socket = c

\* A command that is on its way on a socket the connector serves is run, unless
\* the socket is given up first: a slow or failing handler only delays the
\* commands behind it.
ReceivedCommandsRun ==
    \A c \in Conns, r \in Reqs :
        (Serving(c) /\ \E i \in 1..Len(commands[c]) : commands[c][i] = r)
            ~> (r \in executed \/ ~Serving(c))

=============================================================================
