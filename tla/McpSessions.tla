---------------------------- MODULE McpSessions ----------------------------
(***************************************************************************)
(* The table of MCP sessions of PiLink's HTTP server (transports and the   *)
(* routes /sse and /messages, src/src/index.ts): reservations, the limits  *)
(* per client and in all, the recycling of quiescent sessions, and their   *)
(* end.                                                                    *)
(*                                                                         *)
(* A request runs until it first waits, and again when what it waits for   *)
(* is done: its end is a step of its own.  What the MCP server does with a *)
(* request is left out, and so is the scope of a token.                    *)
(***************************************************************************)
EXTENDS Integers, FiniteSets

CONSTANTS
  Clients,
  Requests,      \* HTTP requests being handled
  MaxSessions,   \* bound: sessions ever started
  PerClient,     \* maxMcpSessionsPerClient
  Total,         \* maxMcpSessionsTotal
  IdleTimeout, ReclaimGrace, \* in ticks
  MaxVersion, MaxTime        \* bounds

McpSessionsAssumption ==
  /\ {PerClient, Total, IdleTimeout, ReclaimGrace, MaxVersion} \subseteq Nat \ {0}
  /\ {MaxSessions, MaxTime} \subseteq Nat
  /\ IsFiniteSet(Requests)

VARIABLES
  sessions, \* transports, with the sessions that are starting or gone
  handled,  \* what each request is doing
  pending,  \* pendingMcpSessionsTotal and pendingMcpSessionsByClient
  version,  \* the token version of each client
  time

mcpVars == <<sessions, handled, pending, version, time>>

Ids == 1 .. MaxSessions
NoSession == [state |-> "none"]
Gone(how) == [state |-> how]  \* what is left of a session to tell of
Free == [does |-> "nothing"]
Does(what, s) == [does |-> what, session |-> s]

Open(table) == {s \in Ids : table[s].state = "open"}
OpenOf(table, c) == {s \in Open(table) : table[s].client = c}
On(s) == {q \in Requests : /\ handled[q].does \in {"first", "request", "stream"}
                            /\ handled[q].session = s}

TypeOK ==
  /\ \A s \in Ids : sessions[s].state \in {"none", "starting", "open", "closed", "recycled"}
  /\ \A q \in Requests : handled[q].does \in {"nothing", "initialize", "first", "request", "stream"}
  /\ pending.total \in Nat /\ pending.by \in [Clients -> Nat]
  /\ version \in [Clients -> 1 .. MaxVersion] /\ time \in 0 .. MaxTime

Init ==
  /\ sessions = [s \in Ids |-> NoSession]
  /\ handled = [q \in Requests |-> Free]
  /\ pending = [total |-> 0, by |-> [c \in Clients |-> 0]]
  /\ version = [c \in Clients |-> 1]
  /\ time = 0

-----------------------------------------------------------------------------
(* Capacity. *)

\* createManagedTransport
Managed(kind, c) ==
  [state |-> "starting", kind |-> kind, client |-> c, version |-> version[c],
   last |-> time, inFlight |-> 0, openStreams |-> 0, established |-> FALSE]

\* A session in use is touched.
Used(m) == [m EXCEPT !.last = time]

isReclaimable(m) ==
  /\ m.inFlight = 0 /\ m.openStreams = 0
  /\ m.established \/ time - m.last >= ReclaimGrace

oldestReclaimableSession(table, candidates) ==
  LET quiet == {s \in candidates : isReclaimable(table[s])}
  IN {s \in quiet : \A u \in quiet : table[s].last =< table[u].last}

recycleOldestQuiescentSession(table, candidates) ==
  LET oldest == oldestReclaimableSession(table, candidates)
  IN IF oldest = {} THEN {table}
     ELSE {[table EXCEPT ![s] = Gone("recycled")] : s \in oldest}

ClientFull(table, c) == Cardinality(OpenOf(table, c)) + pending.by[c] >= PerClient
TotalFull(table) == Cardinality(Open(table)) + pending.total >= Total

\* The sessions after room was made: of the client's own, then of any.  The
\* limits are never exceeded (WithinLimits), so that one session of each makes
\* the room that the code's loops look for.
reclaimCapacity(c) ==
  UNION {IF TotalFull(table) THEN recycleOldestQuiescentSession(table, Open(table)) ELSE {table} :
           table \in IF ClientFull(sessions, c)
                     THEN recycleOldestQuiescentSession(sessions, OpenOf(sessions, c))
                     ELSE {sessions}}

\* Mutant: a slot is taken without a reservation.
Mutant_Reserved(c, n) == pending

Reserved(c, n) == [total |-> pending.total + n, by |-> [pending.by EXCEPT ![c] = @ + n]]

releaseReservation(c) == Reserved(c, -1)

-----------------------------------------------------------------------------
(* Starting a session. *)

\* Room is made even when the request is refused after all.
reserveSessionSlot(q, c) ==
  /\ handled[q] = Free
  /\ \E s \in Ids, table \in reclaimCapacity(c) :
       /\ sessions[s] = NoSession /\ \A u \in 1 .. s - 1 : sessions[u] # NoSession
       /\ IF TotalFull(table) \/ ClientFull(table, c)
          THEN sessions' = table /\ UNCHANGED <<handled, pending>> \* 429
          ELSE /\ sessions' = [table EXCEPT ![s] = Managed("http", c)]
               /\ pending' = Reserved(c, 1)
               /\ handled' = [handled EXCEPT ![q] = Does("initialize", s)]
  /\ UNCHANGED <<version, time>>

\* GET /sse without a session: the reservation is given back at once, for the
\* session is in the table before the request waits.
legacySession(q, c) ==
  /\ handled[q] = Free
  /\ \E s \in Ids, table \in reclaimCapacity(c) :
       /\ sessions[s] = NoSession /\ \A u \in 1 .. s - 1 : sessions[u] # NoSession
       /\ IF TotalFull(table) \/ ClientFull(table, c)
          THEN sessions' = table /\ UNCHANGED handled
          ELSE /\ sessions' = [table EXCEPT ![s] =
                    [Managed("sse", c) EXCEPT !.state = "open", !.openStreams = 1]]
               /\ handled' = [handled EXCEPT ![q] = Does("stream", s)]
  /\ UNCHANGED <<pending, version, time>>

\* The client hangs up (or the connection of the server fails).
legacyCleanup(q) ==
  LET s == handled[q].session IN
  /\ handled[q].does = "stream" /\ sessions[s].state = "open" /\ sessions[s].kind = "sse"
  /\ sessions' = [sessions EXCEPT ![s] = Gone("closed")]
  /\ handled' = [handled EXCEPT ![q] = Free]
  /\ UNCHANGED <<pending, version, time>>

onsessioninitialized(q) ==
  LET s == handled[q].session IN
  /\ handled[q].does = "initialize"
  /\ sessions' = [sessions EXCEPT ![s] = [Used(@) EXCEPT !.state = "open", !.inFlight = 1]]
  /\ pending' = releaseReservation(sessions[s].client)
  /\ handled' = [handled EXCEPT ![q] = Does("first", s)]
  /\ UNCHANGED <<version, time>>

\* No initialize request, or an error: nothing was put in the table.
initializeFails(q) ==
  LET s == handled[q].session IN
  /\ handled[q].does = "initialize"
  /\ sessions' = [sessions EXCEPT ![s] = Gone("closed")]
  /\ pending' = releaseReservation(sessions[s].client)
  /\ handled' = [handled EXCEPT ![q] = Free]
  /\ UNCHANGED <<version, time>>

-----------------------------------------------------------------------------
(* Using a session. *)

canReuseSession(s, c) == sessions[s].client = c /\ sessions[s].version = version[c]

\* POST with a session, or a message of a legacy one.
withManagedRequest(q, c, s) ==
  /\ handled[q] = Free /\ s \in Open(sessions) /\ canReuseSession(s, c)
  /\ sessions' = [sessions EXCEPT ![s] = [Used(sessions[s]) EXCEPT !.inFlight = @ + 1]]
  /\ handled' = [handled EXCEPT ![q] = Does("request", s)]
  /\ UNCHANGED <<pending, version, time>>

\* A request is done; only the first one of a session does not establish it.
\* If the session is gone, nothing is left to count.
Done(s, m) == sessions' = IF s \in Open(sessions) THEN [sessions EXCEPT ![s] = m] ELSE sessions

requestEnds(q) ==
  LET s == handled[q].session IN
  /\ handled[q].does \in {"first", "request"}
  /\ Done(s, [Used(sessions[s]) EXCEPT !.inFlight = @ - 1,
                                       !.established = @ \/ handled[q].does = "request"])
  /\ handled' = [handled EXCEPT ![q] = Free]
  /\ UNCHANGED <<pending, version, time>>

withManagedStream(q, c, s) ==
  /\ handled[q] = Free /\ s \in Open(sessions) /\ canReuseSession(s, c)
  /\ sessions[s].kind = "http"
  /\ sessions' = [sessions EXCEPT ![s] =
       [Used(sessions[s]) EXCEPT !.openStreams = @ + 1, !.established = TRUE]]
  /\ handled' = [handled EXCEPT ![q] = Does("stream", s)]
  /\ UNCHANGED <<pending, version, time>>

streamEnds(q) ==
  LET s == handled[q].session IN
  /\ handled[q].does = "stream"
  /\ s \in Open(sessions) => sessions[s].kind = "http"
  /\ Done(s, [Used(sessions[s]) EXCEPT !.openStreams = @ - 1])
  /\ handled' = [handled EXCEPT ![q] = Free]
  /\ UNCHANGED <<pending, version, time>>

\* DELETE /sse, or an error of the transport.
closeManagedTransport(s) ==
  /\ s \in Open(sessions)
  /\ sessions' = [sessions EXCEPT ![s] = Gone("closed")]
  /\ UNCHANGED <<handled, pending, version, time>>

sweepIdleMcpSessions ==
  LET idle == {s \in Open(sessions) :
                 /\ sessions[s].inFlight = 0 /\ sessions[s].openStreams = 0
                 /\ time - sessions[s].last >= IdleTimeout}
  IN /\ idle # {}
     /\ sessions' = [s \in Ids |-> IF s \in idle
                                   THEN Gone("recycled")
                                   ELSE sessions[s]]
     /\ UNCHANGED <<handled, pending, version, time>>

\* The credentials of a client change: its sessions are not used any more.
credentialsChange(c) ==
  /\ version[c] < MaxVersion
  /\ version' = [version EXCEPT ![c] = @ + 1]
  /\ UNCHANGED <<sessions, handled, pending, time>>

tick ==
  /\ time < MaxTime
  /\ time' = time + 1
  /\ UNCHANGED <<sessions, handled, pending, version>>

Next ==
  \/ \E q \in Requests, c \in Clients :
       \/ reserveSessionSlot(q, c) \/ legacySession(q, c)
       \/ \E s \in Ids : withManagedRequest(q, c, s) \/ withManagedStream(q, c, s)
  \/ \E q \in Requests :
       \/ onsessioninitialized(q) \/ initializeFails(q)
       \/ requestEnds(q) \/ streamEnds(q) \/ legacyCleanup(q)
  \/ \E s \in Ids : closeManagedTransport(s)
  \/ sweepIdleMcpSessions
  \/ \E c \in Clients : credentialsChange(c)
  \/ tick

-----------------------------------------------------------------------------
(* Properties. *)

\* "Initializations reserve a slot before asynchronous MCP setup, so parallel
\* requests cannot race past the limits" (docs/operations/getting-started.md:110):
\* the sessions in the table and those that are starting are within the limits,
\* and no reservation is lost or given back twice.
Starting(c) == {s \in Ids : sessions[s].state = "starting" /\ sessions[s].client = c}
WithinLimits ==
  /\ \A c \in Clients :
       /\ pending.by[c] = Cardinality(Starting(c))
       /\ Cardinality(OpenOf(sessions, c) \union Starting(c)) =< PerClient
  /\ pending.total = Cardinality(UNION {Starting(c) : c \in Clients})
  /\ Cardinality(Open(sessions)) + pending.total =< Total

\* "Active requests and open streams are never reclaimed" (the same line): a
\* session that was recycled for room or for idleness has no request or stream
\* that began before.
BusyNeverReclaimed ==
  \A s \in Ids : sessions[s].state = "recycled" => On(s) = {}

McpSessionsSpec == Init /\ [][Next]_mcpVars
=============================================================================
