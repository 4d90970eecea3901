------------------------------ MODULE Reconnect ------------------------------
(* The dashboard's connection to /ws (webfs/web/ui/js/app.js): every failure  *)
(* of a WebSocket fires onerror and then onclose, and both schedule a         *)
(* reconnect; timers and the sockets they open keep no track of each other.   *)
(* One callback of the browser is one step.  The server and the network may   *)
(* close any socket at any time; sockets are alike, so they are counted.      *)
(* MaxAttempts is maxReconnectAttempts; MaxSockets bounds a behaviour.        *)
EXTENDS Naturals

CONSTANTS MaxAttempts, MaxSockets

ASSUME BoundsAssumption == MaxAttempts \in Nat /\ MaxSockets \in Nat \ {0}

VARIABLES attempts,    \* reconnectAttempts
          timers,      \* calls of connectWebSocket that setTimeout owes
          connecting,  \* sockets that were created and have not opened
          open,        \* sockets that have opened
          failed,      \* sockets whose onerror has run and onclose has not
          opened,      \* sockets that have ever opened
          created,     \* sockets ever created
          shown        \* the connection status on the page

vars == <<attempts, timers, connecting, open, failed, opened, created, shown>>

\* init() connects at once.
Init ==
  /\ attempts = 0
  /\ timers = 0
  /\ connecting = 1
  /\ open = 0
  /\ failed = 0
  /\ opened = 0
  /\ created = 1
  /\ shown = FALSE
-----------------------------------------------------------------------------
ScheduleOneMore ==                   \* <= for <
  IF attempts <= MaxAttempts
    THEN attempts' = attempts + 1 /\ timers' = timers + 1
    ELSE UNCHANGED <<attempts, timers>>

ScheduleUncounted ==                 \* drops reconnectAttempts++
  IF attempts < MaxAttempts
    THEN timers' = timers + 1 /\ UNCHANGED attempts
    ELSE UNCHANGED <<attempts, timers>>

scheduleReconnect ==
  IF attempts < MaxAttempts
    THEN attempts' = attempts + 1 /\ timers' = timers + 1
    ELSE UNCHANGED <<attempts, timers>>

connectWebSocket ==
  /\ timers > 0
  /\ created < MaxSockets
  /\ timers' = timers - 1
  /\ connecting' = connecting + 1
  /\ created' = created + 1
  /\ UNCHANGED <<attempts, open, failed, opened, shown>>

onopen ==
  /\ connecting > 0
  /\ connecting' = connecting - 1
  /\ open' = open + 1
  /\ opened' = opened + 1
  /\ attempts' = 0
  /\ shown' = TRUE
  /\ UNCHANGED <<timers, failed, created>>

\* A socket that could not connect, or whose connection was lost.
onerror ==
  /\ \/ connecting > 0 /\ connecting' = connecting - 1 /\ UNCHANGED open
     \/ open > 0 /\ open' = open - 1 /\ UNCHANGED connecting
  /\ failed' = failed + 1
  /\ scheduleReconnect
  /\ UNCHANGED <<opened, created, shown>>

OncloseSilent ==                     \* does not update the status
  /\ \/ failed > 0 /\ failed' = failed - 1 /\ UNCHANGED open
     \/ open > 0 /\ open' = open - 1 /\ UNCHANGED failed
  /\ scheduleReconnect
  /\ UNCHANGED <<connecting, opened, created, shown>>

OncloseGivesUp ==                    \* leaves the reconnect to onerror
  /\ \/ failed > 0 /\ failed' = failed - 1 /\ UNCHANGED open
     \/ open > 0 /\ open' = open - 1 /\ UNCHANGED failed
  /\ shown' = FALSE
  /\ UNCHANGED <<attempts, timers, connecting, opened, created>>

\* After onerror, or when the server closes a connection in order.
onclose ==
  /\ \/ failed > 0 /\ failed' = failed - 1 /\ UNCHANGED open
     \/ open > 0 /\ open' = open - 1 /\ UNCHANGED failed
  /\ shown' = FALSE
  /\ scheduleReconnect
  /\ UNCHANGED <<connecting, opened, created>>

Next == connectWebSocket \/ onopen \/ onerror \/ onclose

Spec == Init /\ [][Next]_vars
-----------------------------------------------------------------------------
\* Every counter is one, within the bounds of the behaviour.
TypeOK ==
  /\ attempts \in 0 .. MaxAttempts
  /\ timers \in Nat
  /\ connecting \in Nat
  /\ open \in Nat
  /\ failed \in Nat
  /\ opened \in 0 .. created
  /\ created \in 1 .. MaxSockets
  /\ connecting + open + failed <= created
  /\ connecting + opened <= created
  /\ shown \in BOOLEAN

\* The page never stays disconnected in silence: without a socket or a timer it
\* has used up all its attempts since a connection last opened.
GivesUpOnlyAfterMax ==
  connecting + open + failed + timers = 0 => attempts = MaxAttempts

\* "Connected" is shown only while a connection is open or its end has not
\* been reported yet, however many sockets come and go.  (The converse fails:
\* the close of one socket hides that another is open.)
ShownIsOpen == shown => open + failed > 0

\* Two reconnects per failure multiply sockets.  What limits them is that each
\* connection that opens allows MaxAttempts more, and the first page load one:
\* while the server is down there are never more than 1 + MaxAttempts.
BoundedByOpens == created + timers <= 1 + attempts + MaxAttempts * opened
=============================================================================
