--------------------------- MODULE EdgeLinkProofs ---------------------------
(***************************************************************************)
(* What is proved of EdgeLink for any sockets and commands: within the     *)
(* link the object does only what HomeSession lets it do, so that all that *)
(* is proved of HomeSession holds in the link; types; and that responses   *)
(* return on the socket of their command.                                  *)
(***************************************************************************)
EXTENDS EdgeLink, TLAPS

\* The object's state is as HomeSession keeps it.
Kept == INSTANCE HomeSessionProofs

\* The socket in use is one that was opened, and the command being handled came
\* on it.
ConnectorInv ==
    /\ loop = "running" => socket \in Conns
    /\ handling # None => loop = "running" /\ sentOn[handling] = socket

\* What is on a socket, in either direction, belongs to commands sent on it.
WireInv ==
    \A c \in Conns :
        /\ \A i \in 1..Len(commands[c]) : sentOn[commands[c][i]] = c
        /\ \A m \in replies[c] : sentOn[m[1]] = c

IInv == LinkTypeOK /\ Kept!IInv /\ ConnectorInv /\ WireInv

-----------------------------------------------------------------------------
(* HomeSession as the link and as its proofs name it *)

LEMMA SameNames ==
  /\ Object!ConnStates = Kept!ConnStates /\ Object!Phases = Kept!Phases
  /\ Object!Verdicts = Kept!Verdicts /\ Object!Refusals = Kept!Refusals
  /\ Object!Answers = Kept!Answers
  BY DEF Object!ConnStates, Kept!ConnStates, Object!Phases, Kept!Phases, Object!Verdicts,
         Kept!Verdicts, Object!Refusals, Kept!Refusals, Object!Answers, Kept!Answers

LEMMA SameTypes ==
  /\ Object!TypeOK <=> Kept!TypeOK
  /\ Object!TypeOK' <=> Kept!TypeOK'
  BY SameNames DEF Object!TypeOK, Kept!TypeOK

LEMMA SameInit == Object!Init <=> Kept!Init
  BY DEF Object!Init, Kept!Init

LEMMA SameFinish ==
  ASSUME NEW R, NEW out
  PROVE  Object!Finish(R, out) <=> Kept!Finish(R, out)
  BY DEF Object!Finish, Kept!Finish

LEMMA SameConnectorStep == Object!ConnectorStep => Kept!ConnectorStep
<1> SUFFICES ASSUME NEW c \in Conns
             PROVE  /\ Object!attachConnector(c) => Kept!attachConnector(c)
                    /\ Object!LoseConnection(c) => Kept!LoseConnection(c)
                    /\ Object!CloseEvent(c) => Kept!CloseEvent(c)
                    /\ Object!ErrorEvent(c) => Kept!ErrorEvent(c)
                    /\ Object!EventMessage(c) => Kept!EventMessage(c)
                    /\ \A r \in Reqs, ok \in BOOLEAN :
                          Object!ResponseMessage(c, r, ok) => Kept!ResponseMessage(c, r, ok)
  BY DEF Object!ConnectorStep, Kept!ConnectorStep
<1>1. Object!attachConnector(c) => Kept!attachConnector(c)
  BY DEF Object!attachConnector, Kept!attachConnector, Object!CloseReplaced,
         Kept!CloseReplaced, Object!notifyConnectorAttached, Kept!notifyConnectorAttached
<1>2. Object!LoseConnection(c) => Kept!LoseConnection(c)
  BY DEF Object!LoseConnection, Kept!LoseConnection
<1>3. Object!onClose => Kept!onClose
  BY SameFinish DEF Object!onClose, Kept!onClose
<1>4. /\ Object!CloseEvent(c) => Kept!CloseEvent(c)
      /\ Object!ErrorEvent(c) => Kept!ErrorEvent(c)
  BY <1>3 DEF Object!CloseEvent, Kept!CloseEvent, Object!ErrorEvent, Kept!ErrorEvent
<1>5. Object!EventMessage(c) => Kept!EventMessage(c)
  BY DEF Object!EventMessage, Kept!EventMessage
<1>6. \A r \in Reqs, ok \in BOOLEAN :
        Object!ResponseMessage(c, r, ok) => Kept!ResponseMessage(c, r, ok)
  BY SameFinish DEF Object!ResponseMessage, Kept!ResponseMessage
<1> QED
  BY <1>1, <1>2, <1>4, <1>5, <1>6

LEMMA SameRelayStep == Object!RelayStep => Kept!RelayStep
<1> SUFFICES ASSUME NEW r \in Reqs
             PROVE  /\ Object!RelayOnline(r) => Kept!RelayOnline(r)
                    /\ Object!waitForConnector(r) => Kept!waitForConnector(r)
                    /\ Object!GraceTimeout(r) => Kept!GraceTimeout(r)
                    /\ Object!ReadBody(r) => Kept!ReadBody(r)
                    /\ Object!CommandTimeout(r) => Kept!CommandTimeout(r)
  BY DEF Object!RelayStep, Kept!RelayStep
<1>1. Object!isConnectorOnline <=> Kept!isConnectorOnline
  BY DEF Object!isConnectorOnline, Kept!isConnectorOnline
<1>2. /\ Object!RelayOnline(r) => Kept!RelayOnline(r)
      /\ Object!waitForConnector(r) => Kept!waitForConnector(r)
  BY <1>1 DEF Object!RelayOnline, Kept!RelayOnline, Object!waitForConnector, Kept!waitForConnector
<1>3. Object!GraceTimeout(r) => Kept!GraceTimeout(r)
  BY <1>1, SameFinish DEF Object!GraceTimeout, Kept!GraceTimeout
<1>4. Object!BadBody(r) => Kept!BadBody(r)
  BY SameFinish DEF Object!BadBody, Kept!BadBody
<1>5. Object!DispatchCommand(r) => Kept!DispatchCommand(r)
  BY SameFinish DEF Object!DispatchCommand, Kept!DispatchCommand
<1>6. Object!CommandTimeout(r) => Kept!CommandTimeout(r)
  BY SameFinish DEF Object!CommandTimeout, Kept!CommandTimeout
<1> QED
  BY <1>2, <1>3, <1>4, <1>5, <1>6 DEF Object!ReadBody, Kept!ReadBody

LEMMA SameRestart == Object!Restart => Kept!Restart
  BY SameFinish DEF Object!Restart, Kept!Restart

LEMMA SameSteps == [Object!Next]_(Object!vars) => [Kept!Next]_(Kept!vars)
  BY SameConnectorStep, SameRelayStep, SameRestart
  DEF Object!Next, Kept!Next, Object!vars, Kept!vars

-----------------------------------------------------------------------------
(* The object in the link *)

LEMMA Left ==
  ASSUME NEW c \in Conns \cup {None}, Leave(c)
  PROVE  [Object!Next]_(Object!vars)
<1>1. CASE c \in Conns /\ Object!LoseConnection(c)
  BY <1>1 DEF Object!Next, Object!ConnectorStep
<1>2. CASE UNCHANGED objectVars
  BY <1>2 DEF objectVars, Object!vars
<1> QED
  BY <1>1, <1>2 DEF Leave

\* A step of the link is a step of the object or leaves it alone.
LEMMA ObjectStep ==
  ASSUME IInv, [Next]_vars
  PROVE  [Object!Next]_(Object!vars)
<1>1. /\ socket \in Conns \cup {None} /\ dialing \in Conns \cup {None}
      /\ loop = "running" => socket \in Conns
      /\ \A c \in Conns : replies[c] \subseteq Reqs \X BOOLEAN
  BY DEF IInv, LinkTypeOK, ConnectorTypeOK, ConnectorInv
<1>2. CASE UNCHANGED objectVars
  BY <1>2 DEF objectVars, Object!vars
<1>3. CASE ConnectorFails \/ ConnectorDrops \/ AddonStops
  BY <1>1, <1>3, Left DEF ConnectorFails, ConnectorDrops, AddonStops
<1>4. CASE send_connector_hello
  BY <1>1, <1>4 DEF send_connector_hello, Object!Next, Object!ConnectorStep
<1>5. ASSUME NEW r \in Reqs, Dispatch(r)
      PROVE  [Object!Next]_(Object!vars)
  BY <1>5 DEF Dispatch, Object!Next, Object!RelayStep, Object!ReadBody
<1>6. ASSUME NEW c \in Conns,
             handleConnectorWebSocket(c) \/ ObjectHears(c) \/ NetworkFails(c)
      PROVE  [Object!Next]_(Object!vars)
  BY <1>6
  DEF handleConnectorWebSocket, ObjectHears, NetworkFails, Object!Next, Object!ConnectorStep
<1>7. ASSUME NEW c \in Conns, Deliver(c)
      PROVE  [Object!Next]_(Object!vars)
  <2>1. PICK m \in replies[c] : Object!ResponseMessage(c, m[1], m[2]) \/ UNCHANGED objectVars
    BY <1>7 DEF Deliver
  <2>2. m[1] \in Reqs /\ m[2] \in BOOLEAN
    BY <1>1, <2>1
  <2>3. CASE Object!ResponseMessage(c, m[1], m[2])
    BY <2>2, <2>3 DEF Object!Next, Object!ConnectorStep
  <2> QED
    BY <1>2, <2>1, <2>3
<1>8. CASE ObjectAlone \/ ObjectRestarts
  BY <1>8
  DEF ObjectAlone, ObjectRestarts, Object!Next, Object!RelayStep, Object!ReadBody
<1> QED
  BY <1>2, <1>3, <1>4, <1>5, <1>6, <1>7, <1>8
  DEF Next, vars, ConnectorAlone, ConnectorOpens, ConnectorEnds, Take, Reply

\* What is proved of HomeSession: its invariant is kept by its steps.
LEMMA KeptStep ==
  ASSUME IInv, [Next]_vars
  PROVE  Kept!IInv' /\ Object!TypeOK'
<1>1. Kept!NoneIsNull
  BY NoneIsNoName DEF Kept!NoneIsNull
<1>2. [Kept!Next]_(Kept!vars)
  BY ObjectStep, SameSteps
<1>3. Kept!IInv
  BY DEF IInv
<1>4. Kept!IInv'
  BY <1>1, <1>2, <1>3, Kept!TypeStep, Kept!ExpireStep, Kept!UnansweredStep, Kept!SocketStep,
     Kept!SlotStep, Kept!AnswerStep DEF Kept!IInv
<1>5. Object!TypeOK'
  BY <1>4, SameTypes DEF Kept!IInv
<1> QED
  BY <1>4, <1>5

\* A command once sent stays on record as sent on its socket: a request is
\* dispatched at most once.
LEMMA SentOnce ==
  ASSUME IInv, [Next]_vars, NEW r \in Reqs, sentOn[r] # None
  PROVE  sentOn'[r] = sentOn[r]
<1>1. sentOn \in [Reqs -> Conns \cup {None}] /\ Kept!AnswersMatchDispatch
  BY DEF IInv, Kept!IInv, Kept!TypeOK
<1>2. [Kept!Next]_(Kept!vars)
  BY ObjectStep, SameSteps
<1>3. CASE UNCHANGED sentOn
  BY <1>3
<1>4. ASSUME NEW q \in Reqs, Kept!DispatchCommand(q)
      PROVE  sentOn'[r] = sentOn[r]
  BY <1>1, <1>4 DEF Kept!DispatchCommand, Kept!AnswersMatchDispatch
<1> QED
  BY <1>2, <1>3, <1>4
  DEF Kept!Next, Kept!vars, Kept!ConnectorStep, Kept!RelayStep, Kept!ReadBody,
      Kept!attachConnector, Kept!LoseConnection, Kept!CloseEvent, Kept!ErrorEvent,
      Kept!EventMessage, Kept!ResponseMessage, Kept!RelayOnline, Kept!waitForConnector,
      Kept!GraceTimeout, Kept!BadBody, Kept!CommandTimeout, Kept!Restart

-----------------------------------------------------------------------------
(* The connector and the wires *)

LEMMA Typed ==
  ASSUME IInv
  PROVE  /\ loop \in Loops /\ socket \in Conns \cup {None} /\ dialing \in Conns \cup {None}
         /\ is_connected \in BOOLEAN /\ handling \in Reqs \cup {None} /\ executed \subseteq Reqs
         /\ commands \in [Conns -> Seq(Reqs)]
         /\ replies \in [Conns -> SUBSET (Reqs \X BOOLEAN)]
         /\ sentOn \in [Reqs -> Conns \cup {None}]
         /\ None \notin Conns /\ None \notin Reqs
  BY NoneIsNoName DEF IInv, LinkTypeOK, ConnectorTypeOK, Kept!IInv, Kept!TypeOK

\* The command at the head of the socket in use.
LEMMA HeadOfSocket ==
  ASSUME IInv, loop = "running", commands[socket] # << >>
  PROVE  /\ Head(commands[socket]) \in Reqs
         /\ sentOn[Head(commands[socket])] = socket
         /\ Tail(commands[socket]) \in Seq(Reqs)
<1>1. socket \in Conns /\ commands[socket] \in Seq(Reqs)
  BY Typed DEF IInv, ConnectorInv
<1>2. 1 \in 1..Len(commands[socket]) /\ Head(commands[socket]) = commands[socket][1]
  BY <1>1
<1> QED
  BY <1>1, <1>2 DEF IInv, WireInv

LEMMA ConnectorTypes ==
  ASSUME IInv, [Next]_vars
  PROVE  ConnectorTypeOK' /\ ConnectorInv'
<1> USE DEF ConnectorTypeOK, ConnectorInv, Loops
<1>0. ConnectorTypeOK /\ ConnectorInv
  BY DEF IInv, LinkTypeOK
<1>1. \A r \in Reqs : sentOn[r] # None => sentOn'[r] = sentOn[r]
  BY SentOnce
<1>2. handling # None => sentOn[handling] # None /\ sentOn'[handling] = sentOn[handling]
  BY <1>0, <1>1, Typed
<1>3. CASE UNCHANGED connectorVars
  BY <1>0, <1>2, <1>3 DEF connectorVars
<1>4. CASE Take
  <2>1. Head(commands[socket]) \in Reqs /\ sentOn[Head(commands[socket])] = socket
    BY <1>4, HeadOfSocket DEF Take
  <2>2. sentOn'[Head(commands[socket])] = socket
    BY <1>0, <1>1, <1>4, <2>1, Typed DEF Take
  <2> QED
    BY <1>0, <1>4, <2>1, <2>2 DEF Take, TakeCommand
<1>5. ASSUME NEW c \in Conns, Dial(c) \/ Opened(c)
      PROVE  ConnectorTypeOK' /\ ConnectorInv'
  BY <1>0, <1>2, <1>5 DEF Dial, Opened
<1>6. CASE start \/ ConnectFails \/ ConnectionDropped \/ ConnectionEnded \/ BackoffOver \/ close
  BY <1>0, <1>2, <1>6
  DEF start, ConnectFails, Fail, ConnectionDropped, ConnectionEnded, BackoffOver, close
<1>7. ASSUME NEW ok \in BOOLEAN, CommandDone(ok)
      PROVE  ConnectorTypeOK' /\ ConnectorInv'
  BY <1>0, <1>7 DEF CommandDone
<1> QED
  BY <1>3, <1>4, <1>5, <1>6, <1>7
  DEF Next, vars, ConnectorAlone, handleConnectorWebSocket, ConnectorOpens, ConnectorFails,
      ConnectorDrops, ConnectorEnds, AddonStops, send_connector_hello, Dispatch, Reply,
      Deliver, ObjectHears, NetworkFails, ObjectAlone, ObjectRestarts

WiresTyped ==
    commands \in [Conns -> Seq(Reqs)] /\ replies \in [Conns -> SUBSET (Reqs \X BOOLEAN)]

\* Nothing new on the wires.
LEMMA WiresShrink ==
  ASSUME IInv, [Next]_vars, WiresTyped',
         \A c \in Conns : replies'[c] \subseteq replies[c],
         \A c \in Conns : commands'[c] = commands[c] \/
             (commands[c] # << >> /\ commands'[c] = Tail(commands[c]))
  PROVE  WireInv'
<1>1. \A r \in Reqs : sentOn[r] # None => sentOn'[r] = sentOn[r]
  BY SentOnce
<1> SUFFICES ASSUME NEW c \in Conns
             PROVE  /\ \A i \in 1..Len(commands'[c]) : sentOn'[commands'[c][i]] = c
                    /\ \A m \in replies'[c] : sentOn'[m[1]] = c
  BY DEF WireInv
<1>2. commands[c] \in Seq(Reqs) /\ c # None /\ WireInv
  BY Typed DEF IInv
<1>3. ASSUME NEW i \in 1..Len(commands'[c])
      PROVE  sentOn'[commands'[c][i]] = c
  <2>1. PICK j \in 1..Len(commands[c]) : commands'[c][i] = commands[c][j]
    <3>1. CASE commands'[c] = commands[c]
      BY <1>3, <3>1
    <3>2. CASE commands[c] # << >> /\ commands'[c] = Tail(commands[c])
      <4>1. i + 1 \in 1..Len(commands[c]) /\ commands'[c][i] = commands[c][i + 1]
        BY <1>2, <1>3, <3>2
      <4> QED
        BY <4>1
    <3> QED
      BY <3>1, <3>2
  <2>2. commands[c][j] \in Reqs /\ sentOn[commands[c][j]] = c
    BY <1>2 DEF WireInv
  <2> QED
    BY <1>1, <1>2, <2>1, <2>2
<1>4. ASSUME NEW m \in replies'[c]
      PROVE  sentOn'[m[1]] = c
  <2>1. m \in replies[c] /\ m[1] \in Reqs
    BY <1>4, Typed
  <2> QED
    BY <1>1, <1>2, <2>1 DEF WireInv
<1> QED
  BY <1>3, <1>4

LEMMA WiresAfterDispatch ==
  ASSUME IInv, [Next]_vars, NEW r \in Reqs, Dispatch(r)
  PROVE  WiresTyped' /\ WireInv'
<1>1. \A q \in Reqs : sentOn[q] # None => sentOn'[q] = sentOn[q]
  BY SentOnce
<1>2. WiresTyped /\ WireInv /\ None \notin Conns
  BY Typed DEF IInv, WiresTyped
<1>3. /\ UNCHANGED replies
      /\ \A c \in Conns : \/ commands'[c] = commands[c]
                          \/ commands'[c] = Append(commands[c], r) /\ sentOn'[r] = c
  BY DEF Dispatch
<1>4. WiresTyped'
  <2>1. \A c \in Conns : Append(commands[c], r) \in Seq(Reqs)
    BY <1>2 DEF WiresTyped
  <2>2. commands' \in [Conns -> Seq(Reqs)]
    BY <1>2, <2>1 DEF Dispatch, WiresTyped
  <2> QED
    BY <1>2, <1>3, <2>2 DEF WiresTyped
<1>5. ASSUME NEW c \in Conns, NEW i \in 1..Len(commands'[c])
      PROVE  sentOn'[commands'[c][i]] = c
  <2>1. commands[c] \in Seq(Reqs) /\ \A j \in 1..Len(commands[c]) : sentOn[commands[c][j]] = c
    BY <1>2 DEF WiresTyped, WireInv
  <2>2. CASE i \in 1..Len(commands[c])
    <3>1. commands'[c][i] = commands[c][i] /\ commands[c][i] \in Reqs
      BY <1>3, <2>1, <2>2
    <3> QED
      BY <1>1, <1>2, <2>1, <2>2, <3>1
  <2>3. CASE i \notin 1..Len(commands[c])
    <3>1. commands'[c] = Append(commands[c], r) /\ sentOn'[r] = c
      BY <1>3, <2>3
    <3>2. commands'[c][i] = r
      BY <2>1, <2>3, <3>1
    <3> QED
      BY <3>1, <3>2
  <2> QED
    BY <2>2, <2>3
<1>6. ASSUME NEW c \in Conns, NEW m \in replies'[c]
      PROVE  sentOn'[m[1]] = c
  BY <1>1, <1>2, <1>3, <1>6 DEF WiresTyped, WireInv
<1> QED
  BY <1>4, <1>5, <1>6 DEF WireInv

LEMMA WiresAfterReply ==
  ASSUME IInv, [Next]_vars, Reply
  PROVE  WiresTyped' /\ WireInv'
<1>1. PICK ok \in BOOLEAN :
        /\ handling # None
        /\ replies' = [replies EXCEPT ![socket] = @ \cup {<<handling, ok>>}] \/ UNCHANGED replies
  BY DEF Reply, CommandDone
<1>2. /\ UNCHANGED <<commands, sentOn>> /\ WiresTyped /\ WireInv
      /\ handling \in Reqs /\ socket \in Conns /\ sentOn[handling] = socket
  BY <1>1, Typed DEF Reply, objectVars, IInv, ConnectorInv, WiresTyped
<1>3. \A c \in Conns : \/ replies'[c] = replies[c]
                       \/ c = socket /\ replies'[c] = replies[c] \cup {<<handling, ok>>}
  BY <1>1, <1>2 DEF WiresTyped
<1>4. WiresTyped'
  BY <1>1, <1>2 DEF WiresTyped
<1> QED
  BY <1>2, <1>3, <1>4 DEF WireInv

LEMMA WireStep ==
  ASSUME IInv, [Next]_vars
  PROVE  WiresTyped' /\ WireInv'
<1>0. WiresTyped
  BY Typed DEF WiresTyped
<1>1. CASE Take
  <2>1. /\ socket \in Conns /\ commands[socket] # << >> /\ Tail(commands[socket]) \in Seq(Reqs)
        /\ commands' = [commands EXCEPT ![socket] = Tail(@)] /\ UNCHANGED replies
    BY <1>1, HeadOfSocket DEF Take, IInv, ConnectorInv
  <2>2. WiresTyped'
    BY <1>0, <2>1 DEF WiresTyped
  <2> QED
    BY <1>0, <2>1, <2>2, WiresShrink DEF WiresTyped
<1>2. ASSUME NEW c \in Conns, Deliver(c) \/ ObjectHears(c)
      PROVE  WiresTyped' /\ WireInv'
  <2>1. UNCHANGED commands /\ \E S \in SUBSET replies[c] : replies' = [replies EXCEPT ![c] = S]
    BY <1>2 DEF Deliver, ObjectHears
  <2>2. WiresTyped' /\ \A d \in Conns : replies'[d] \subseteq replies[d]
    BY <1>0, <2>1 DEF WiresTyped
  <2> QED
    BY <2>1, <2>2, WiresShrink
<1>3. CASE ObjectRestarts
  <2>1. UNCHANGED commands /\ replies' = [c \in Conns |-> {}]
    BY <1>3 DEF ObjectRestarts
  <2>2. WiresTyped'
    BY <1>0, <2>1 DEF WiresTyped
  <2> QED
    BY <2>1, <2>2, WiresShrink
<1>4. CASE UNCHANGED wireVars
  <2>1. WiresTyped' /\ UNCHANGED <<commands, replies>>
    BY <1>0, <1>4 DEF WiresTyped, wireVars
  <2> QED
    BY <2>1, WiresShrink
<1> QED
  BY <1>1, <1>2, <1>3, <1>4, WiresAfterDispatch, WiresAfterReply
  DEF Next, vars, ConnectorAlone, handleConnectorWebSocket, ConnectorOpens, ConnectorFails,
      ConnectorDrops, ConnectorEnds, AddonStops, send_connector_hello, NetworkFails, ObjectAlone

-----------------------------------------------------------------------------
(* What holds in every reachable state *)

LEMMA InitIInv == Init => IInv
<1> SUFFICES ASSUME Init PROVE IInv
  OBVIOUS
<1>1. Kept!IInv
  BY NoneIsNoName, SameInit, Kept!InitIInv DEF Init, Kept!NoneIsNull
<1>2. Object!TypeOK
  BY <1>1, SameTypes DEF Kept!IInv
<1>3. WiresTyped
  BY DEF Init, WiresTyped
<1>4. ConnectorTypeOK /\ ConnectorInv
  BY DEF Init, ConnectorInit, ConnectorTypeOK, ConnectorInv, Loops
<1>5. WireInv
  <2>1. \A c \in Conns : Len(commands[c]) = 0 /\ replies[c] = {}
    BY DEF Init
  <2>2. \A c \in Conns : \A i \in 1..Len(commands[c]) : FALSE
    BY <2>1
  <2> QED
    BY <2>1, <2>2 DEF WireInv
<1> QED
  BY <1>1, <1>2, <1>3, <1>4, <1>5 DEF IInv, LinkTypeOK, WiresTyped

LEMMA StepIInv == IInv /\ [Next]_vars => IInv'
  BY KeptStep, ConnectorTypes, WireStep DEF IInv, LinkTypeOK, WiresTyped

\* The inductive invariant holds in every reachable state.
THEOREM Invariance == Spec => []IInv
  BY InitIInv, StepIInv, PTL DEF Spec

\* Type correctness of the object, the connector and the wires.
THEOREM TypeCorrect == Spec => []LinkTypeOK
<1>1. IInv => LinkTypeOK
  BY DEF IInv
<1> QED
  BY <1>1, Invariance, PTL

\* Whatever is lost, dropped, delayed or restarted on either side, a response goes
\* back on the socket its command came on.
THEOREM RepliesReturn == Spec => []RepliesReturnOnTheirSocket
<1>1. IInv => RepliesReturnOnTheirSocket
  BY DEF IInv, WireInv, ConnectorInv, RepliesReturnOnTheirSocket
<1> QED
  BY <1>1, Invariance, PTL

\* The link implements HomeSession: with the connector, its failures and the wires
\* around it, the object does nothing that HomeSession alone does not allow.
THEOREM LinkImplementsHomeSession == Spec => Object!Spec
<1>1. Init => Object!Init
  BY DEF Init
<1>2. IInv /\ [Next]_vars => [Object!Next]_(Object!vars)
  BY ObjectStep
<1> QED
  BY <1>1, <1>2, Invariance, PTL DEF Spec, Object!Spec

\* A caller of the object in the link is promised what CommandRelay says: one
\* answer, at most one hand-over, verdicts only after it and refusals only without.
THEOREM LinkImplementsRelay ==
  Spec => Kept!Relay!Init /\ [][Kept!Relay!Next]_(Kept!Relay!vars)
<1>1. Init => Kept!Relay!Init
  BY SameInit, NoneIsNoName, Kept!RelayInit DEF Init, Kept!NoneIsNull
<1>2. IInv /\ [Next]_vars => [Kept!Relay!Next]_(Kept!Relay!vars)
  BY ObjectStep, SameSteps, NoneIsNoName, Kept!RelayNext DEF IInv, Kept!NoneIsNull
<1> QED
  BY <1>1, <1>2, Invariance, PTL DEF Spec

=============================================================================
