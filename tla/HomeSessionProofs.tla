------------------------- MODULE HomeSessionProofs --------------------------
(***************************************************************************)
(* The safety of HomeSession for every set of connections and requests:    *)
(* type correctness, the five safety invariants, and the refinement of     *)
(* CommandRelay (its initial states and its steps).                        *)
(***************************************************************************)
EXTENDS HomeSession, TLAPS

\* The inductive invariant.  The safety properties are inductive together, not
\* one by one: the slot needs the socket, the answers need the pending map.
IInv ==
    /\ TypeOK
    /\ AwaitedCommandsExpire
    /\ PendingIsUnanswered
    /\ NoStaleSocket
    /\ SlotHoldsAWaiter
    /\ AnswersMatchDispatch

LEMMA InitIInv == Init => IInv
  BY NoneIsNull
  DEF Init, IInv, TypeOK, AwaitedCommandsExpire, PendingIsUnanswered, NoStaleSocket,
      SlotHoldsAWaiter, AnswersMatchDispatch, ConnStates, Phases, Answers,
      Verdicts, Refusals, isConnectorOnline

\* Every action keeps the types.
LEMMA TypeStep == TypeOK /\ [Next]_vars => TypeOK'
<1> SUFFICES ASSUME TypeOK, [Next]_vars PROVE TypeOK'
  OBVIOUS
<1> USE DEF TypeOK, ConnStates, Phases, Answers, Verdicts, Refusals
<1>1. ASSUME NEW c \in Conns, attachConnector(c) PROVE TypeOK'
  BY <1>1 DEF attachConnector, notifyConnectorAttached, CloseReplaced
<1>2. ASSUME NEW c \in Conns, LoseConnection(c) PROVE TypeOK'
  BY <1>2 DEF LoseConnection
<1>3. ASSUME NEW c \in Conns, CloseEvent(c) PROVE TypeOK'
  BY <1>3 DEF CloseEvent, onClose, Finish
<1>4. ASSUME NEW c \in Conns, ErrorEvent(c) PROVE TypeOK'
  BY <1>4 DEF ErrorEvent, onClose, Finish
<1>5. ASSUME NEW c \in Conns, EventMessage(c) PROVE TypeOK'
  BY <1>5 DEF EventMessage
<1>6. ASSUME NEW c \in Conns, NEW r \in Reqs, NEW ok \in BOOLEAN,
             ResponseMessage(c, r, ok)
      PROVE  TypeOK'
  BY <1>6 DEF ResponseMessage, Finish
<1>7. ASSUME NEW r \in Reqs, RelayOnline(r) PROVE TypeOK'
  BY <1>7 DEF RelayOnline
<1>8. ASSUME NEW r \in Reqs, waitForConnector(r) PROVE TypeOK'
  BY <1>8 DEF waitForConnector
<1>9. ASSUME NEW r \in Reqs, GraceTimeout(r) PROVE TypeOK'
  BY <1>9 DEF GraceTimeout, Finish
<1>10. ASSUME NEW r \in Reqs, BadBody(r) PROVE TypeOK'
  BY <1>10 DEF BadBody, Finish
<1>11. ASSUME NEW r \in Reqs, DispatchCommand(r) PROVE TypeOK'
  BY <1>11 DEF DispatchCommand, Finish
<1>12. ASSUME NEW r \in Reqs, CommandTimeout(r) PROVE TypeOK'
  BY <1>12 DEF CommandTimeout, Finish
<1>13. CASE Restart
  BY <1>13 DEF Restart, Finish
<1>14. CASE UNCHANGED vars
  BY <1>14 DEF vars
<1> QED
  BY <1>1, <1>2, <1>3, <1>4, <1>5, <1>6, <1>7, <1>8, <1>9, <1>10, <1>11, <1>12,
     <1>13, <1>14
  DEF Next, ConnectorStep, RelayStep, ReadBody

\* Entries and timers come and go together.
LEMMA ExpireStep == IInv /\ [Next]_vars => AwaitedCommandsExpire'
<1> SUFFICES ASSUME IInv, [Next]_vars PROVE AwaitedCommandsExpire'
  OBVIOUS
<1> USE NoneIsNull DEF IInv, TypeOK, AwaitedCommandsExpire, AnswersMatchDispatch,
       PendingIsUnanswered
<1>1. ASSUME NEW c \in Conns, attachConnector(c) PROVE AwaitedCommandsExpire'
  BY <1>1 DEF attachConnector, notifyConnectorAttached, CloseReplaced
<1>2. ASSUME NEW c \in Conns, LoseConnection(c) PROVE AwaitedCommandsExpire'
  BY <1>2 DEF LoseConnection
<1>3. ASSUME NEW c \in Conns, CloseEvent(c) PROVE AwaitedCommandsExpire'
  BY <1>3 DEF CloseEvent, onClose, Finish
<1>4. ASSUME NEW c \in Conns, ErrorEvent(c) PROVE AwaitedCommandsExpire'
  BY <1>4 DEF ErrorEvent, onClose, Finish
<1>5. ASSUME NEW c \in Conns, EventMessage(c) PROVE AwaitedCommandsExpire'
  BY <1>5 DEF EventMessage
<1>6. ASSUME NEW c \in Conns, NEW r \in Reqs, NEW ok \in BOOLEAN,
             ResponseMessage(c, r, ok)
      PROVE  AwaitedCommandsExpire'
  BY <1>6 DEF ResponseMessage, Finish
<1>7. ASSUME NEW r \in Reqs, RelayOnline(r) PROVE AwaitedCommandsExpire'
  BY <1>7 DEF RelayOnline
<1>8. ASSUME NEW r \in Reqs, waitForConnector(r) PROVE AwaitedCommandsExpire'
  BY <1>8 DEF waitForConnector
<1>9. ASSUME NEW r \in Reqs, GraceTimeout(r) PROVE AwaitedCommandsExpire'
  BY <1>9 DEF GraceTimeout, Finish
<1>10. ASSUME NEW r \in Reqs, BadBody(r) PROVE AwaitedCommandsExpire'
  BY <1>10 DEF BadBody, Finish
<1>11. ASSUME NEW r \in Reqs, DispatchCommand(r) PROVE AwaitedCommandsExpire'
  BY <1>11 DEF DispatchCommand, Finish
<1>12. ASSUME NEW r \in Reqs, CommandTimeout(r) PROVE AwaitedCommandsExpire'
  BY <1>12 DEF CommandTimeout, Finish
<1>13. CASE Restart
  BY <1>13 DEF Restart, Finish
<1>14. CASE UNCHANGED vars
  BY <1>14 DEF vars, isConnectorOnline
<1> QED
  BY <1>1, <1>2, <1>3, <1>4, <1>5, <1>6, <1>7, <1>8, <1>9, <1>10, <1>11, <1>12,
     <1>13, <1>14
  DEF Next, ConnectorStep, RelayStep, ReadBody

\* An entry leaves the map in the step that answers its caller.
LEMMA UnansweredStep == IInv /\ [Next]_vars => PendingIsUnanswered'
<1> SUFFICES ASSUME IInv, [Next]_vars PROVE PendingIsUnanswered'
  OBVIOUS
<1> USE NoneIsNull DEF IInv, TypeOK, PendingIsUnanswered, AwaitedCommandsExpire,
       AnswersMatchDispatch
<1>1. ASSUME NEW c \in Conns, attachConnector(c) PROVE PendingIsUnanswered'
  BY <1>1 DEF attachConnector, notifyConnectorAttached, CloseReplaced,
              SlotHoldsAWaiter
<1>2. ASSUME NEW c \in Conns, LoseConnection(c) PROVE PendingIsUnanswered'
  BY <1>2 DEF LoseConnection
<1>3. ASSUME NEW c \in Conns, CloseEvent(c) PROVE PendingIsUnanswered'
  BY <1>3 DEF CloseEvent, onClose, Finish
<1>4. ASSUME NEW c \in Conns, ErrorEvent(c) PROVE PendingIsUnanswered'
  BY <1>4 DEF ErrorEvent, onClose, Finish
<1>5. ASSUME NEW c \in Conns, EventMessage(c) PROVE PendingIsUnanswered'
  BY <1>5 DEF EventMessage
<1>6. ASSUME NEW c \in Conns, NEW r \in Reqs, NEW ok \in BOOLEAN,
             ResponseMessage(c, r, ok)
      PROVE  PendingIsUnanswered'
  BY <1>6 DEF ResponseMessage, Finish
<1>7. ASSUME NEW r \in Reqs, RelayOnline(r) PROVE PendingIsUnanswered'
  BY <1>7 DEF RelayOnline
<1>8. ASSUME NEW r \in Reqs, waitForConnector(r) PROVE PendingIsUnanswered'
  BY <1>8 DEF waitForConnector
<1>9. ASSUME NEW r \in Reqs, GraceTimeout(r) PROVE PendingIsUnanswered'
  BY <1>9 DEF GraceTimeout, Finish
<1>10. ASSUME NEW r \in Reqs, BadBody(r) PROVE PendingIsUnanswered'
  BY <1>10 DEF BadBody, Finish
<1>11. ASSUME NEW r \in Reqs, DispatchCommand(r) PROVE PendingIsUnanswered'
  BY <1>11 DEF DispatchCommand, Finish
<1>12. ASSUME NEW r \in Reqs, CommandTimeout(r) PROVE PendingIsUnanswered'
  BY <1>12 DEF CommandTimeout, Finish
<1>13. CASE Restart
  BY <1>13 DEF Restart, Finish
<1>14. CASE UNCHANGED vars
  BY <1>14 DEF vars, isConnectorOnline
<1> QED
  BY <1>1, <1>2, <1>3, <1>4, <1>5, <1>6, <1>7, <1>8, <1>9, <1>10, <1>11, <1>12,
     <1>13, <1>14
  DEF Next, ConnectorStep, RelayStep, ReadBody

\* The step that hears a close or an error forgets the socket.
LEMMA SocketStep == IInv /\ [Next]_vars => NoStaleSocket'
<1> SUFFICES ASSUME IInv, [Next]_vars PROVE NoStaleSocket'
  OBVIOUS
<1> USE NoneIsNull DEF IInv, TypeOK, NoStaleSocket
<1>1. ASSUME NEW c \in Conns, attachConnector(c) PROVE NoStaleSocket'
  BY <1>1 DEF attachConnector, notifyConnectorAttached, CloseReplaced
<1>2. ASSUME NEW c \in Conns, LoseConnection(c) PROVE NoStaleSocket'
  BY <1>2 DEF LoseConnection
<1>3. ASSUME NEW c \in Conns, CloseEvent(c) PROVE NoStaleSocket'
  BY <1>3 DEF CloseEvent, onClose, Finish
<1>4. ASSUME NEW c \in Conns, ErrorEvent(c) PROVE NoStaleSocket'
  BY <1>4 DEF ErrorEvent, onClose, Finish
<1>5. ASSUME NEW c \in Conns, EventMessage(c) PROVE NoStaleSocket'
  BY <1>5 DEF EventMessage
<1>6. ASSUME NEW c \in Conns, NEW r \in Reqs, NEW ok \in BOOLEAN,
             ResponseMessage(c, r, ok)
      PROVE  NoStaleSocket'
  BY <1>6 DEF ResponseMessage, Finish
<1>7. ASSUME NEW r \in Reqs, RelayOnline(r) PROVE NoStaleSocket'
  BY <1>7 DEF RelayOnline
<1>8. ASSUME NEW r \in Reqs, waitForConnector(r) PROVE NoStaleSocket'
  BY <1>8 DEF waitForConnector
<1>9. ASSUME NEW r \in Reqs, GraceTimeout(r) PROVE NoStaleSocket'
  BY <1>9 DEF GraceTimeout, Finish
<1>10. ASSUME NEW r \in Reqs, BadBody(r) PROVE NoStaleSocket'
  BY <1>10 DEF BadBody, Finish
<1>11. ASSUME NEW r \in Reqs, DispatchCommand(r) PROVE NoStaleSocket'
  BY <1>11 DEF DispatchCommand, Finish
<1>12. ASSUME NEW r \in Reqs, CommandTimeout(r) PROVE NoStaleSocket'
  BY <1>12 DEF CommandTimeout, Finish
<1>13. CASE Restart
  BY <1>13 DEF Restart, Finish
<1>14. CASE UNCHANGED vars
  BY <1>14 DEF vars, isConnectorOnline
<1> QED
  BY <1>1, <1>2, <1>3, <1>4, <1>5, <1>6, <1>7, <1>8, <1>9, <1>10, <1>11, <1>12,
     <1>13, <1>14
  DEF Next, ConnectorStep, RelayStep, ReadBody

\* The waiter in the slot leaves it in the step that ends its wait.
LEMMA SlotStep == IInv /\ [Next]_vars => SlotHoldsAWaiter'
<1> SUFFICES ASSUME IInv, [Next]_vars PROVE SlotHoldsAWaiter'
  OBVIOUS
<1> USE NoneIsNull DEF IInv, TypeOK, SlotHoldsAWaiter, isConnectorOnline
<1>1. ASSUME NEW c \in Conns, attachConnector(c) PROVE SlotHoldsAWaiter'
  BY <1>1 DEF attachConnector, notifyConnectorAttached, CloseReplaced
<1>2. ASSUME NEW c \in Conns, LoseConnection(c) PROVE SlotHoldsAWaiter'
  BY <1>2 DEF LoseConnection
<1>3. ASSUME NEW c \in Conns, CloseEvent(c) PROVE SlotHoldsAWaiter'
  BY <1>3 DEF CloseEvent, onClose, Finish
<1>4. ASSUME NEW c \in Conns, ErrorEvent(c) PROVE SlotHoldsAWaiter'
  BY <1>4 DEF ErrorEvent, onClose, Finish
<1>5. ASSUME NEW c \in Conns, EventMessage(c) PROVE SlotHoldsAWaiter'
  BY <1>5 DEF EventMessage
<1>6. ASSUME NEW c \in Conns, NEW r \in Reqs, NEW ok \in BOOLEAN,
             ResponseMessage(c, r, ok)
      PROVE  SlotHoldsAWaiter'
  BY <1>6 DEF ResponseMessage, Finish, PendingIsUnanswered, AnswersMatchDispatch
<1>7. ASSUME NEW r \in Reqs, RelayOnline(r) PROVE SlotHoldsAWaiter'
  BY <1>7 DEF RelayOnline
<1>8. ASSUME NEW r \in Reqs, waitForConnector(r) PROVE SlotHoldsAWaiter'
  BY <1>8 DEF waitForConnector
<1>9. ASSUME NEW r \in Reqs, GraceTimeout(r) PROVE SlotHoldsAWaiter'
  BY <1>9 DEF GraceTimeout, Finish
<1>10. ASSUME NEW r \in Reqs, BadBody(r) PROVE SlotHoldsAWaiter'
  BY <1>10 DEF BadBody, Finish
<1>11. ASSUME NEW r \in Reqs, DispatchCommand(r) PROVE SlotHoldsAWaiter'
  BY <1>11 DEF DispatchCommand, Finish
<1>12. ASSUME NEW r \in Reqs, CommandTimeout(r) PROVE SlotHoldsAWaiter'
  BY <1>12 DEF CommandTimeout, Finish
<1>13. CASE Restart
  BY <1>13 DEF Restart, Finish
<1>14. CASE UNCHANGED vars
  BY <1>14 DEF vars, isConnectorOnline
<1> QED
  BY <1>1, <1>2, <1>3, <1>4, <1>5, <1>6, <1>7, <1>8, <1>9, <1>10, <1>11, <1>12,
     <1>13, <1>14
  DEF Next, ConnectorStep, RelayStep, ReadBody

\* Handlers end with an answer that fits what they sent.
LEMMA AnswerStep == IInv /\ [Next]_vars => AnswersMatchDispatch'
<1> SUFFICES ASSUME IInv, [Next]_vars PROVE AnswersMatchDispatch'
  OBVIOUS
<1> USE NoneIsNull DEF IInv, TypeOK, AnswersMatchDispatch, AwaitedCommandsExpire,
       PendingIsUnanswered, SlotHoldsAWaiter, NoStaleSocket, Phases, Answers, Verdicts,
       Refusals
<1>1. ASSUME NEW c \in Conns, attachConnector(c) PROVE AnswersMatchDispatch'
  BY <1>1 DEF attachConnector, notifyConnectorAttached, CloseReplaced
<1>2. ASSUME NEW c \in Conns, LoseConnection(c) PROVE AnswersMatchDispatch'
  BY <1>2 DEF LoseConnection
<1>3. ASSUME NEW c \in Conns, CloseEvent(c) PROVE AnswersMatchDispatch'
  BY <1>3 DEF CloseEvent, onClose, Finish
<1>4. ASSUME NEW c \in Conns, ErrorEvent(c) PROVE AnswersMatchDispatch'
  BY <1>4 DEF ErrorEvent, onClose, Finish
<1>5. ASSUME NEW c \in Conns, EventMessage(c) PROVE AnswersMatchDispatch'
  BY <1>5 DEF EventMessage
<1>6. ASSUME NEW c \in Conns, NEW r \in Reqs, NEW ok \in BOOLEAN,
             ResponseMessage(c, r, ok)
      PROVE  AnswersMatchDispatch'
  BY <1>6 DEF ResponseMessage, Finish
<1>7. ASSUME NEW r \in Reqs, RelayOnline(r) PROVE AnswersMatchDispatch'
  BY <1>7 DEF RelayOnline
<1>8. ASSUME NEW r \in Reqs, waitForConnector(r) PROVE AnswersMatchDispatch'
  BY <1>8 DEF waitForConnector
<1>9. ASSUME NEW r \in Reqs, GraceTimeout(r) PROVE AnswersMatchDispatch'
  BY <1>9 DEF GraceTimeout, Finish
<1>10. ASSUME NEW r \in Reqs, BadBody(r) PROVE AnswersMatchDispatch'
  BY <1>10 DEF BadBody, Finish
<1>11. ASSUME NEW r \in Reqs, DispatchCommand(r) PROVE AnswersMatchDispatch'
  BY <1>11 DEF DispatchCommand, Finish
<1>12. ASSUME NEW r \in Reqs, CommandTimeout(r) PROVE AnswersMatchDispatch'
  BY <1>12 DEF CommandTimeout, Finish
<1>13. CASE Restart
  BY <1>13 DEF Restart, Finish
<1>14. CASE UNCHANGED vars
  BY <1>14 DEF vars, isConnectorOnline
<1> QED
  BY <1>1, <1>2, <1>3, <1>4, <1>5, <1>6, <1>7, <1>8, <1>9, <1>10, <1>11, <1>12,
     <1>13, <1>14
  DEF Next, ConnectorStep, RelayStep, ReadBody

\* The inductive invariant holds in every reachable state.
THEOREM Invariance == Spec => []IInv
<1>1. IInv /\ [Next]_vars => IInv'
  BY TypeStep, ExpireStep, UnansweredStep, SocketStep, SlotStep, AnswerStep DEF IInv
<1> QED
  BY <1>1, InitIInv, PTL DEF Spec

\* Type correctness.
THEOREM TypeCorrect == Spec => []TypeOK
<1>1. IInv => TypeOK
  BY DEF IInv
<1> QED
  BY <1>1, Invariance, PTL

\* No caller of the relay waits without an entry and an armed timer.
THEOREM NoCallerForgotten == Spec => []AwaitedCommandsExpire
<1>1. IInv => AwaitedCommandsExpire
  BY DEF IInv
<1> QED
  BY <1>1, Invariance, PTL

\* An answered command is gone from the pending map.
THEOREM LateResponsesFindNothing == Spec => []PendingIsUnanswered
<1>1. IInv => PendingIsUnanswered
  BY DEF IInv
<1> QED
  BY <1>1, Invariance, PTL

\* Commands are never sent on a socket whose close the object has seen.
THEOREM SocketInUseIsNotClosed == Spec => []NoStaleSocket
<1>1. IInv => NoStaleSocket
  BY DEF IInv
<1> QED
  BY <1>1, Invariance, PTL

\* The wake-up slot never holds a request that stopped waiting.
THEOREM SlotIsFresh == Spec => []SlotHoldsAWaiter
<1>1. IInv => SlotHoldsAWaiter
  BY DEF IInv
<1> QED
  BY <1>1, Invariance, PTL

\* Verdicts are reported for sent commands, refusals for commands not sent.
THEOREM AnswersAreHonest == Spec => []AnswersMatchDispatch
<1>1. IInv => AnswersMatchDispatch
  BY DEF IInv
<1> QED
  BY <1>1, Invariance, PTL

-----------------------------------------------------------------------------
(* The refinement of CommandRelay *)

\* Initial states map to initial states.
LEMMA RelayInit == Init => Relay!Init
  BY DEF Init, Relay!Init, StatusOf

\* Steps that move no request across a phase of the abstract relay.
LEMMA RelayStutter ==
    ASSUME sentOn' = sentOn, answer' = answer,
           \A r \in Reqs : StatusOf(phase'[r]) = StatusOf(phase[r])
    PROVE  UNCHANGED Relay!vars
  BY DEF Relay!vars

\* A set of waiting requests answered at once is one Answer step.
LEMMA RelayAnswer ==
    ASSUME IInv, NEW R \in SUBSET Reqs, R # {}, NEW out \in Answers,
           \A r \in R : phase[r] \notin {"idle", "done"},
           \A r \in R : out \in Verdicts => sentOn[r] # None,
           \A r \in R : out \in Refusals => sentOn[r] = None,
           Finish(R, out), sentOn' = sentOn
    PROVE  Relay!Answer(R)
<1> DEFINE f == [r \in R |-> out]
<1>1. f \in [R -> Relay!Replies]
  BY DEF Relay!Replies, Relay!ConnectorVerdicts, Relay!LocalRefusals, Answers,
         Verdicts, Refusals
<1>2. \A r \in R :
         /\ f[r] \in Relay!ConnectorVerdicts => r \in {q \in Reqs : sentOn[q] # None}
         /\ f[r] \in Relay!LocalRefusals => r \notin {q \in Reqs : sentOn[q] # None}
  BY DEF Relay!ConnectorVerdicts, Relay!LocalRefusals, Verdicts, Refusals
<1>3. answer' = [r \in Reqs |-> IF r \in R THEN f[r] ELSE answer[r]]
  BY DEF Finish
<1>4. [r \in Reqs |-> StatusOf(phase[r])]'
         = [r \in Reqs |-> IF r \in R THEN "answered"
                           ELSE [q \in Reqs |-> StatusOf(phase[q])][r]]
  BY DEF Finish, StatusOf, IInv, TypeOK
<1>5. \A r \in R : [q \in Reqs |-> StatusOf(phase[q])][r] = "waiting"
  BY DEF StatusOf
<1> QED
  BY <1>1, <1>2, <1>3, <1>4, <1>5, Zenon DEF Relay!Answer

\* Finishing nobody changes nothing the abstract relay sees.
LEMMA FinishNobody ==
    ASSUME TypeOK, NEW out, Finish({}, out), sentOn' = sentOn
    PROVE  UNCHANGED Relay!vars
<1>1. phase' = phase /\ answer' = answer
  BY DEF Finish, TypeOK
<1> QED
  BY <1>1, RelayStutter

\* Every step of the object is a step of the abstract relay or a stutter.
LEMMA RelayNext == IInv /\ [Next]_vars => [Relay!Next]_Relay!vars
<1> SUFFICES ASSUME IInv, [Next]_vars
             PROVE  Relay!Next \/ UNCHANGED Relay!vars
  OBVIOUS
<1>0. TypeOK
  BY DEF IInv
<1> USE DEF TypeOK
<1>1. ASSUME NEW c \in Conns, attachConnector(c) PROVE UNCHANGED Relay!vars
  BY <1>1, <1>0, NoneIsNull, RelayStutter
  DEF attachConnector, notifyConnectorAttached, StatusOf, IInv, SlotHoldsAWaiter
<1>2. ASSUME NEW c \in Conns, LoseConnection(c) \/ EventMessage(c)
      PROVE  UNCHANGED Relay!vars
  BY <1>2, RelayStutter DEF LoseConnection, EventMessage
<1>3. ASSUME NEW c \in Conns, CloseEvent(c) \/ ErrorEvent(c)
      PROVE  Relay!Next \/ UNCHANGED Relay!vars
  <2> DEFINE R == {r \in pending : phase[r] = "relayed"}
  <2>1. Finish(R, "disconnected") /\ sentOn' = sentOn
    BY <1>3 DEF CloseEvent, ErrorEvent, onClose
  <2>2. CASE R = {}
    BY <2>1, <2>2, <1>0, FinishNobody
  <2>3. CASE R # {}
    <3>1. R \in SUBSET Reqs /\ \A r \in R : phase[r] = "relayed" /\ sentOn[r] # None
      BY <1>0 DEF IInv, AnswersMatchDispatch
    <3>2. Relay!Answer(R)
      BY <2>1, <2>3, <3>1, RelayAnswer DEF Answers, Verdicts, Refusals
    <3> QED
      BY <3>1, <3>2 DEF Relay!Next
  <2> QED
    BY <2>2, <2>3
<1>4. ASSUME NEW c \in Conns, NEW r \in Reqs, NEW ok \in BOOLEAN,
             ResponseMessage(c, r, ok)
      PROVE  Relay!Next
  <2>1. phase[r] = "relayed" /\ sentOn[r] # None
    BY <1>4, NoneIsNull
    DEF ResponseMessage, IInv, PendingIsUnanswered, AnswersMatchDispatch, Refusals
  <2>2. Relay!Answer({r})
    BY <1>4, <2>1, RelayAnswer DEF ResponseMessage, Answers, Verdicts, Refusals
  <2> QED
    BY <2>2 DEF Relay!Next
<1>5. ASSUME NEW r \in Reqs, RelayOnline(r) \/ waitForConnector(r)
      PROVE  Relay!Next
  <2>1. /\ phase[r] = "idle"
        /\ \E p \in {"body", "grace"} : phase' = [phase EXCEPT ![r] = p]
        /\ answer' = answer /\ sentOn' = sentOn
    BY <1>5 DEF RelayOnline, waitForConnector
  <2>2. Relay!Accept(r)
    BY <1>0, <2>1 DEF Relay!Accept, StatusOf
  <2> QED
    BY <2>2 DEF Relay!Next
<1>6. ASSUME NEW r \in Reqs, GraceTimeout(r)
      PROVE  Relay!Next \/ UNCHANGED Relay!vars
  <2>1. CASE isConnectorOnline
    BY <1>6, <2>1, <1>0, RelayStutter DEF GraceTimeout, StatusOf
  <2>2. CASE ~isConnectorOnline
    <3>1. phase[r] = "grace" /\ sentOn[r] = None /\ sentOn' = sentOn
      BY <1>6 DEF GraceTimeout, IInv, AnswersMatchDispatch
    <3>2. Relay!Answer({r})
      BY <1>6, <2>2, <3>1, RelayAnswer DEF GraceTimeout, Answers, Verdicts, Refusals
    <3> QED
      BY <3>2 DEF Relay!Next
  <2> QED
    BY <2>1, <2>2
<1>7. ASSUME NEW r \in Reqs, BadBody(r) PROVE Relay!Next
  <2>1. phase[r] = "body" /\ sentOn[r] = None /\ sentOn' = sentOn
    BY <1>7 DEF BadBody, IInv, AnswersMatchDispatch
  <2>2. Relay!Answer({r})
    BY <1>7, <2>1, RelayAnswer DEF BadBody, Answers, Verdicts, Refusals
  <2> QED
    BY <2>2 DEF Relay!Next
<1>8. ASSUME NEW r \in Reqs, DispatchCommand(r) PROVE Relay!Next
  <2>1. phase[r] = "body" /\ sentOn[r] = None
    BY <1>8 DEF DispatchCommand, IInv, AnswersMatchDispatch
  <2>2. CASE connectorSocket # None
    <3>1. Relay!HandOver(r)
      BY <1>0, <1>8, <2>1, <2>2, NoneIsNull
      DEF DispatchCommand, Relay!HandOver, StatusOf
    <3> QED
      BY <3>1 DEF Relay!Next
  <2>3. CASE connectorSocket = None
    <3>1. Relay!Answer({r})
      BY <1>8, <2>1, <2>3, RelayAnswer
      DEF DispatchCommand, Answers, Verdicts, Refusals
    <3> QED
      BY <3>1 DEF Relay!Next
  <2> QED
    BY <2>2, <2>3
<1>9. ASSUME NEW r \in Reqs, CommandTimeout(r)
      PROVE  Relay!Next \/ UNCHANGED Relay!vars
  <2> DEFINE R == {r} \cap {q \in Reqs : phase[q] = "relayed"}
  <2>1. Finish(R, "timeout") /\ sentOn' = sentOn
    BY <1>9 DEF CommandTimeout
  <2>2. CASE R = {}
    BY <2>1, <2>2, <1>0, FinishNobody
  <2>3. CASE R # {}
    <3>1. R \in SUBSET Reqs /\ \A q \in R : phase[q] = "relayed" /\ sentOn[q] # None
      BY DEF IInv, AnswersMatchDispatch
    <3>2. Relay!Answer(R)
      BY <2>1, <2>3, <3>1, RelayAnswer DEF Answers, Verdicts, Refusals
    <3> QED
      BY <3>1, <3>2 DEF Relay!Next
  <2> QED
    BY <2>2, <2>3
<1>10. CASE Restart
  <2> DEFINE R == {r \in Reqs : phase[r] \notin {"idle", "done"}}
  <2>1. Finish(R, "aborted") /\ sentOn' = sentOn
    BY <1>10 DEF Restart
  <2>2. CASE R = {}
    BY <2>1, <2>2, <1>0, FinishNobody
  <2>3. CASE R # {}
    <3>1. Relay!Answer(R)
      BY <2>1, <2>3, RelayAnswer DEF Answers, Verdicts, Refusals
    <3> QED
      BY <3>1 DEF Relay!Next
  <2> QED
    BY <2>2, <2>3
<1>11. CASE UNCHANGED vars
  BY <1>11, RelayStutter DEF vars
<1> QED
  BY <1>1, <1>2, <1>3, <1>4, <1>5, <1>6, <1>7, <1>8, <1>9, <1>10, <1>11
  DEF Next, ConnectorStep, RelayStep, ReadBody

\* The object implements the abstract relay: each request is answered once, a
\* command is handed over at most once and before its verdict.
THEOREM RelayRefinement == Spec => Relay!Init /\ [][Relay!Next]_Relay!vars
<1>1. Init => Relay!Init
  BY RelayInit
<1>2. IInv /\ [Next]_vars => [Relay!Next]_Relay!vars
  BY RelayNext
<1> QED
  BY <1>1, <1>2, Invariance, PTL DEF Spec

=============================================================================
