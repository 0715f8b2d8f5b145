--------------------------- MODULE EdgeConnector ----------------------------
(***************************************************************************)
(* The add-on's end of the connector WebSocket in edge mode                *)
(* (edge/client_ws.py, EdgeConnectorWSClient): one task that connects,     *)
(* handles the messages of the connection one after the other, and backs   *)
(* off and reconnects when it ends.  A step is the task's run between two  *)
(* awaits.  send_request has no caller in the add-on, so its pending map   *)
(* stays empty and is left out.                                            *)
(***************************************************************************)
CONSTANTS
    Conns,  \* connection attempts; each is one WebSocket
    Reqs,   \* commands
    None    \* Python's None

ASSUME NoneIsNoName == None \notin Conns \cup Reqs

VARIABLES
    loop,          \* where _run_loop stands
    dialing,       \* the connection being set up, once the Worker has it
    socket,        \* _socket
    is_connected,
    handling,      \* the command whose handler runs
    executed       \* the commands whose handler ran to its end

connectorVars == <<loop, dialing, socket, is_connected, handling, executed>>

Loops == {"stopped", "connecting", "running", "backoff"}

ConnectorTypeOK ==
    /\ loop \in Loops
    /\ dialing \in Conns \cup {None}
    /\ socket \in Conns \cup {None}
    /\ is_connected \in BOOLEAN
    /\ handling \in Reqs \cup {None}
    /\ executed \subseteq Reqs

ConnectorInit ==
    /\ loop = "stopped"
    /\ dialing = None
    /\ socket = None
    /\ is_connected = FALSE
    /\ handling = None
    /\ executed = {}

\* The add-on starts in edge mode with a complete connector configuration.
start ==
    /\ loop = "stopped"
    /\ loop' = "connecting"
    /\ UNCHANGED <<dialing, socket, is_connected, handling, executed>>

\* The upgrade request of connection c has reached the Worker.
Dial(c) ==
    /\ loop = "connecting"
    /\ dialing = None
    /\ dialing' = c
    /\ UNCHANGED <<loop, socket, is_connected, handling, executed>>

\* The 101 answer is in.
Opened(c) ==
    /\ loop = "connecting"
    /\ dialing = c
    /\ dialing' = None
    /\ loop' = "running"
    /\ socket' = c
    /\ is_connected' = TRUE
    /\ UNCHANGED <<handling, executed>>

\* The except branch of _run_loop.
Fail ==
    /\ loop' = "backoff"
    /\ is_connected' = FALSE
    /\ socket' = None
    /\ dialing' = None
    /\ UNCHANGED <<handling, executed>>

\* The Worker refused or could not be reached, or its answer got lost.
ConnectFails ==
    /\ loop = "connecting"
    /\ Fail

\* Mutant: the handler of a command is a task of its own and survives the
\* connection.
ConnectionDropped_handlersSurvive ==
    /\ loop = "running"
    /\ Fail

\* Mutant: is_connected is reset to None.
ConnectionDropped_noneFlag ==
    /\ loop = "running"
    /\ handling = None
    /\ loop' = "backoff"
    /\ is_connected' = None
    /\ socket' = None
    /\ UNCHANGED <<dialing, handling, executed>>

\* recv or send raises.  While a handler runs the task does neither.
ConnectionDropped ==
    /\ loop = "running"
    /\ handling = None
    /\ Fail

\* A close with code 1000 or 1001 ends the "async for" without an exception:
\* is_connected and _socket keep their values.
ConnectionEnded ==
    /\ loop = "running"
    /\ handling = None
    /\ loop' = "backoff"
    /\ UNCHANGED <<dialing, socket, is_connected, handling, executed>>

BackoffOver ==
    /\ loop = "backoff"
    /\ loop' = "connecting"
    /\ UNCHANGED <<dialing, socket, is_connected, handling, executed>>

\* _handle_message of a command, up to the await of its handler.
TakeCommand(r) ==
    /\ loop = "running"
    /\ handling = None
    /\ handling' = r
    /\ UNCHANGED <<loop, dialing, socket, is_connected, executed>>

\* Mutant: after a handler that raised the task is not ready for the next one.
CommandDone_stuckOnError(ok) ==
    /\ handling # None
    /\ executed' = executed \cup {handling}
    /\ handling' = IF ok THEN None ELSE handling
    /\ UNCHANGED <<loop, dialing, socket, is_connected>>

\* The handler returned (ok) or raised (not ok); either is answered.
CommandDone(ok) ==
    /\ handling # None
    /\ executed' = executed \cup {handling}
    /\ handling' = None
    /\ UNCHANGED <<loop, dialing, socket, is_connected>>

\* close: the task is cancelled wherever it stands, a running handler too.
close ==
    /\ loop # "stopped"
    /\ loop' = "stopped"
    /\ is_connected' = FALSE
    /\ socket' = None
    /\ dialing' = None
    /\ handling' = None
    /\ UNCHANGED executed

=============================================================================
