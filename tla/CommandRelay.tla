---------------------------- MODULE CommandRelay ----------------------------
(***************************************************************************)
(* What a caller of a home's command relay is promised, whatever happens   *)
(* to the connector: each request is answered exactly once, a command goes *)
(* to the connector at most once and only while its caller is waiting, and *)
(* a connector's verdict (ok, error, timeout, disconnected) is reported    *)
(* only for a command that was handed over.  HomeSession implements this.  *)
(***************************************************************************)
CONSTANTS Reqs

VARIABLES
    status,      \* "new", "waiting" or "answered"
    handedOver,  \* the requests whose command was given to the connector
    reply        \* the answer of each request, "none" before it is given

vars == <<status, handedOver, reply>>

ConnectorVerdicts == {"ok", "error", "timeout", "disconnected"}
LocalRefusals == {"offline", "badRequest", "threw"}
Replies == ConnectorVerdicts \cup LocalRefusals \cup {"aborted"}

Init ==
    /\ status = [r \in Reqs |-> "new"]
    /\ handedOver = {}
    /\ reply = [r \in Reqs |-> "none"]

Accept(r) ==
    /\ status[r] = "new"
    /\ status' = [status EXCEPT ![r] = "waiting"]
    /\ UNCHANGED <<handedOver, reply>>

HandOver(r) ==
    /\ status[r] = "waiting"
    /\ r \notin handedOver
    /\ handedOver' = handedOver \cup {r}
    /\ UNCHANGED <<status, reply>>

\* A set of requests answered in one step, each as its history allows; one
\* connection loss or one restart may answer many.
Answer(R) ==
    /\ R # {}
    /\ \A r \in R : status[r] = "waiting"
    /\ \E out \in [R -> Replies] :
          /\ \A r \in R :
                /\ out[r] \in ConnectorVerdicts => r \in handedOver
                /\ out[r] \in LocalRefusals => r \notin handedOver
          /\ reply' = [r \in Reqs |-> IF r \in R THEN out[r] ELSE reply[r]]
    /\ status' = [r \in Reqs |-> IF r \in R THEN "answered" ELSE status[r]]
    /\ UNCHANGED handedOver

Next ==
    \/ \E r \in Reqs : Accept(r) \/ HandOver(r)
    \/ \E R \in SUBSET Reqs : Answer(R)

\* Every request that was accepted is answered, whatever the others do.
Spec ==
    /\ Init
    /\ [][Next]_vars
    /\ \A r \in Reqs : WF_vars(\E R \in SUBSET Reqs : r \in R /\ Answer(R))

=============================================================================
