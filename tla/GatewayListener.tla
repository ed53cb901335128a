--------------------------- MODULE GatewayListener ---------------------------
(***************************************************************************)
(* Opening and closing the HTTP server of the gateway API                  *)
(* (startGatewayApi, src/src/llm-gateway-api.ts).  The server binds its    *)
(* port after it was started, and may be closed at any time: before it is  *)
(* bound, between the bind and the event that tells of it, while callers   *)
(* are connected, or after the bind failed.                                *)
(*                                                                         *)
(* The socket and its events are those of Node.js 24: a close cancels a    *)
(* bind that is pending, suppresses the "listening" event that was not     *)
(* emitted yet, and ends in a "close" event when all connections are gone. *)
(***************************************************************************)
EXTENDS Integers

VARIABLES
  socket,      \* pending, bound, serving, closing, or: refused, cancelled, closed
  connected,   \* a caller is connected
  emitted,     \* the events that are still to be handled
  callback,    \* how the callback of server.close will be called, or "none"
  bindState, ready, closeRequested, closeCallInFlight, closeSettled

listenerVars == <<socket, connected, emitted, callback, bindState, ready, closeRequested,
                  closeCallInFlight, closeSettled>>

TypeOK ==
  /\ socket \in {"pending", "bound", "serving", "closing", "refused", "cancelled", "closed"}
  /\ connected \in BOOLEAN /\ emitted \subseteq {"listening", "error", "close"}
  /\ callback \in {"none", "closed", "not running"}
  /\ bindState \in {"pending", "listening", "failed", "closed"}
  /\ ready \in {"open", "resolved", "rejected"}
  /\ {closeRequested, closeCallInFlight, closeSettled} \subseteq BOOLEAN

Init ==
  /\ socket = "pending" /\ connected = FALSE /\ emitted = {} /\ callback = "none"
  /\ bindState = "pending" /\ ready = "open"
  /\ closeRequested = FALSE /\ closeCallInFlight = FALSE /\ closeSettled = FALSE

-----------------------------------------------------------------------------
Bind ==
  /\ socket = "pending"
  /\ \/ socket' = "bound" /\ emitted' = emitted \cup {"listening"}
     \/ socket' = "refused" /\ emitted' = emitted \cup {"error"}
  /\ UNCHANGED <<connected, callback, bindState, ready, closeRequested, closeCallInFlight,
                 closeSettled>>

\* Whether or not the server listens yet, server.close is called, once at a time.
issueClose ==
  IF closeSettled \/ closeCallInFlight
  THEN UNCHANGED <<socket, emitted, callback, closeCallInFlight>>
  ELSE /\ closeCallInFlight' = TRUE
       /\ IF socket \in {"bound", "serving"}
          THEN /\ socket' = "closing" /\ callback' = "closed"
               /\ emitted' = emitted \ {"listening"}
          ELSE /\ socket' = IF socket = "pending" THEN "cancelled" ELSE socket
               /\ callback' = "not running" /\ emitted' = emitted \cup {"close"}

\* A later call is given the promise of the first one.
close ==
  /\ ~closeRequested /\ closeRequested' = TRUE
  /\ ready' = IF ready = "open" THEN "rejected" ELSE ready
  /\ issueClose
  /\ UNCHANGED <<connected, bindState, closeSettled>>

Connect ==
  /\ socket = "serving" /\ ~connected /\ connected' = TRUE
  /\ UNCHANGED <<socket, emitted, callback, bindState, ready, closeRequested,
                 closeCallInFlight, closeSettled>>

Disconnect ==
  /\ connected /\ connected' = FALSE
  /\ UNCHANGED <<socket, emitted, callback, bindState, ready, closeRequested,
                 closeCallInFlight, closeSettled>>

Drain ==
  /\ socket = "closing" /\ ~connected
  /\ socket' = "closed" /\ emitted' = emitted \cup {"close"}
  /\ UNCHANGED <<connected, callback, bindState, ready, closeRequested, closeCallInFlight,
                 closeSettled>>

\* The promise that close returned is settled, if it has been called.
finishClose == closeSettled' = (closeSettled \/ closeRequested)

Listening ==
  /\ "listening" \in emitted /\ emitted' = emitted \ {"listening"}
  /\ socket' = "serving" /\ bindState' = "listening"
  /\ ready' = IF ready = "open" THEN "resolved" ELSE ready
  /\ UNCHANGED <<connected, callback, closeRequested, closeCallInFlight, closeSettled>>

Error ==
  /\ "error" \in emitted /\ emitted' = emitted \ {"error"}
  /\ bindState' = "failed"
  /\ ready' = IF ready = "open" THEN "rejected" ELSE ready
  /\ finishClose
  /\ UNCHANGED <<socket, connected, callback, closeRequested, closeCallInFlight>>

\* The handler of the event, then the callback of the call that is in flight.
Close ==
  /\ "close" \in emitted /\ emitted' = emitted \ {"close"}
  /\ bindState' = "closed" /\ finishClose
  /\ callback' = "none" /\ closeCallInFlight' = FALSE
  /\ UNCHANGED <<socket, connected, ready, closeRequested>>

Next ==
  \/ Bind \/ close \/ Connect \/ Disconnect \/ Drain \/ Listening \/ Error \/ Close

ListenerSpec == Init /\ [][Next]_listenerVars

-----------------------------------------------------------------------------
(* Properties. *)

Over == {"refused", "cancelled", "closed"}

\* When close has returned nothing is bound, and nothing will be: a close that came
\* before the bind leaves no listener behind.
ClosedIsDown == closeSettled => socket \in Over /\ ~connected

\* When nothing more can happen, close has returned and whoever waits for the start
\* has been told, whatever the order of the bind, its failure and the close.
NobodyWaits ==
  /\ closeRequested /\ socket \in Over /\ emitted = {} => closeSettled
  /\ socket # "pending" /\ emitted = {} => ready # "open"
=============================================================================
