-------------------------- MODULE McpSessionsProofs --------------------------
(***************************************************************************)
(* The table of MCP sessions stays within its limits and recycles no       *)
(* session in use, for any number of clients, requests and sessions.       *)
(*                                                                         *)
(* The counters are what the code decides by, so the invariant ties each   *)
(* to what it counts: a session's inFlight and openStreams to the requests *)
(* that use it, and the reservations to the sessions that are starting,    *)
(* each of which has exactly one request that will settle it.              *)
(***************************************************************************)
EXTENDS McpSessions, FiniteSetTheorems, TLAPS

\* The sessions of the table, the places of the table, and what a request does.
McpManaged ==
  [state : {"starting", "open"}, kind : {"http", "sse"}, client : Clients, version : Nat,
   last : Nat, inFlight : Nat, openStreams : Nat, established : BOOLEAN]

McpEntries == McpManaged \cup {NoSession, Gone("closed"), Gone("recycled")}

\* What a request does with a session that is open.
McpUsing == {"first", "request", "stream"}
McpDoing == {Free} \cup [does : McpUsing \cup {"initialize"}, session : Ids]

\* The requests that do something of a kind with a session.
McpOf(h, s, kinds) == {q \in Requests : h[q].does \in kinds /\ h[q].session = s}

\* What the requests say of a session agrees with what the table counts.
McpFine(h, s, m) ==
  /\ m.state = "none" => McpOf(h, s, McpUsing \cup {"initialize"}) = {}
  /\ m.state = "starting" =>
       /\ m.inFlight = 0 /\ m.openStreams = 0
       /\ McpOf(h, s, McpUsing) = {}
       /\ \E q \in Requests : McpOf(h, s, {"initialize"}) = {q}
  /\ m.state = "open" =>
       /\ McpOf(h, s, {"initialize"}) = {}
       /\ m.inFlight = Cardinality(McpOf(h, s, {"first", "request"}))
       /\ m.openStreams = Cardinality(McpOf(h, s, {"stream"}))
  /\ m.state \in {"closed", "recycled"} => McpOf(h, s, {"initialize"}) = {}
  /\ m.state = "recycled" => McpOf(h, s, McpUsing) = {}

\* The sessions that are starting, of a client and of all.
McpStartingOf(t, c) == {s \in Ids : t[s].state = "starting" /\ t[s].client = c}
McpStarting(t) == {s \in Ids : t[s].state = "starting"}

\* The limits, of a table t and the reservations p: each one is of a session that starts.
McpLimits(t, p) ==
  /\ \A c \in Clients :
       /\ p.by[c] = Cardinality(McpStartingOf(t, c))
       /\ Cardinality(OpenOf(t, c) \cup McpStartingOf(t, c)) <= PerClient
  /\ p.total = Cardinality(McpStarting(t))
  /\ Cardinality(Open(t)) + p.total <= Total

\* Reservations.
McpPending == [total : Nat, by : [Clients -> Nat]]

\* The types.
McpTyped ==
  /\ sessions \in [Ids -> McpEntries]
  /\ handled \in [Requests -> McpDoing]
  /\ pending \in McpPending
  /\ version \in [Clients -> 1 .. MaxVersion] /\ time \in 0 .. MaxTime

\* The invariant: every session is counted right, and the limits hold.
McpTable(h, t) == \A s \in Ids : McpFine(h, s, t[s])

McpInv ==
  /\ McpTyped
  /\ McpTable(handled, sessions)
  /\ McpLimits(sessions, pending)

-----------------------------------------------------------------------------
\* What a place of the table holds, by its state.
LEMMA McpEntryKinds ==
  ASSUME NEW m \in McpEntries
  PROVE  /\ m.state \in {"none", "starting", "open", "closed", "recycled"}
         /\ m.state \in {"starting", "open"} <=> m \in McpManaged
         /\ m.state = "none" => m = NoSession
         /\ m.state = "closed" => m = Gone("closed")
         /\ m.state = "recycled" => m = Gone("recycled")
BY DEF McpEntries, McpManaged, NoSession, Gone

\* The fields of a session in the table.
LEMMA McpMembers ==
  ASSUME NEW m \in McpManaged
  PROVE  /\ m.client \in Clients /\ m.inFlight \in Nat /\ m.openStreams \in Nat
         /\ m.last \in Nat /\ m.established \in BOOLEAN /\ m.kind \in {"http", "sse"}
         /\ m.version \in Nat /\ m.state \in {"starting", "open"}
         /\ m = [state |-> m.state, kind |-> m.kind, client |-> m.client, version |-> m.version,
                 last |-> m.last, inFlight |-> m.inFlight, openStreams |-> m.openStreams,
                 established |-> m.established]
BY DEF McpManaged

\* The constants, as the provers use them.
LEMMA McpConstants ==
  ASSUME McpSessionsAssumption
  PROVE  /\ PerClient \in Nat \ {0} /\ Total \in Nat \ {0} /\ MaxSessions \in Nat /\ MaxTime \in Nat
         /\ MaxVersion \in Nat \ {0} /\ IsFiniteSet(Requests)
BY DEF McpSessionsAssumption

\* Sessions can be counted.
LEMMA McpFinite ==
  ASSUME McpSessionsAssumption, NEW S \in SUBSET Ids
  PROVE  IsFiniteSet(S) /\ Cardinality(S) \in Nat
<1>1. MaxSessions \in Int /\ 1 \in Int
  BY McpConstants
<1>2. IsFiniteSet(Ids)
  BY <1>1, FS_Interval DEF Ids
<1> QED BY <1>2, FS_Subset, FS_CardinalityType

\* Requests can be counted.
LEMMA McpOfFinite ==
  ASSUME McpSessionsAssumption, NEW h, NEW s, NEW kinds
  PROVE  /\ IsFiniteSet(McpOf(h, s, kinds))
         /\ McpOf(h, s, kinds) \in SUBSET Requests
         /\ Cardinality(McpOf(h, s, kinds)) \in Nat
<1>1. McpOf(h, s, kinds) \in SUBSET Requests
  BY DEF McpOf
<1> QED BY <1>1, McpConstants, FS_Subset, FS_CardinalityType

-----------------------------------------------------------------------------
(* The limits. *)

\* The sessions of a kind after the entry of one of them changed.
LEMMA McpCounted ==
  ASSUME NEW t, NEW t2, NEW s \in Ids, NEW m, t \in [Ids -> McpEntries], t2 = [t EXCEPT ![s] = m]
  PROVE  /\ \A c : McpStartingOf(t2, c) = IF m.state = "starting" /\ m.client = c
                                          THEN McpStartingOf(t, c) \cup {s}
                                          ELSE McpStartingOf(t, c) \ {s}
         /\ \A c : OpenOf(t2, c) = IF m.state = "open" /\ m.client = c
                                   THEN OpenOf(t, c) \cup {s} ELSE OpenOf(t, c) \ {s}
         /\ McpStarting(t2) = IF m.state = "starting"
                              THEN McpStarting(t) \cup {s} ELSE McpStarting(t) \ {s}
         /\ Open(t2) = IF m.state = "open" THEN Open(t) \cup {s} ELSE Open(t) \ {s}
BY DEF McpStartingOf, McpStarting, OpenOf, Open

\* They are sets of sessions, and nothing starts that is open.
LEMMA McpSets ==
  ASSUME NEW t, NEW c
  PROVE  /\ McpStartingOf(t, c) \in SUBSET Ids /\ OpenOf(t, c) \in SUBSET Ids
         /\ McpStarting(t) \in SUBSET Ids /\ Open(t) \in SUBSET Ids
         /\ OpenOf(t, c) \cup McpStartingOf(t, c) \in SUBSET Ids
         /\ OpenOf(t, c) \cap McpStartingOf(t, c) = {}
BY DEF McpStartingOf, McpStarting, OpenOf, Open

\* A table that has fewer open sessions, and the same that are starting.
LEMMA McpFewer ==
  ASSUME McpSessionsAssumption, NEW t, NEW t2, NEW p \in McpPending, McpLimits(t, p),
         \A s \in Ids : t2[s] = t[s] \/ (t[s].state = "open" /\ t2[s].state \notin {"starting", "open"})
  PROVE  McpLimits(t2, p)
<1>1. /\ \A c \in Clients : McpStartingOf(t2, c) = McpStartingOf(t, c) /\ OpenOf(t2, c) \subseteq OpenOf(t, c)
      /\ McpStarting(t2) = McpStarting(t) /\ Open(t2) \subseteq Open(t)
  BY DEF McpStartingOf, McpStarting, OpenOf, Open
<1>2. ASSUME NEW c \in Clients
      PROVE  /\ p.by[c] = Cardinality(McpStartingOf(t2, c))
             /\ Cardinality(OpenOf(t2, c) \cup McpStartingOf(t2, c)) <= PerClient
  <2>1. OpenOf(t2, c) \cup McpStartingOf(t2, c) \subseteq OpenOf(t, c) \cup McpStartingOf(t, c)
    BY <1>1
  <2>2. /\ Cardinality(OpenOf(t2, c) \cup McpStartingOf(t2, c)) \in Nat
        /\ Cardinality(OpenOf(t, c) \cup McpStartingOf(t, c)) \in Nat
        /\ IsFiniteSet(OpenOf(t, c) \cup McpStartingOf(t, c))
    BY McpSets, McpFinite
  <2>3. Cardinality(OpenOf(t2, c) \cup McpStartingOf(t2, c)) <= Cardinality(OpenOf(t, c) \cup McpStartingOf(t, c))
    BY <2>1, <2>2, FS_Subset
  <2>4. Cardinality(OpenOf(t, c) \cup McpStartingOf(t, c)) <= PerClient /\ p.by[c] = Cardinality(McpStartingOf(t, c))
    BY DEF McpLimits
  <2> QED BY <1>1, <2>2, <2>3, <2>4, McpConstants
<1>3. Cardinality(Open(t2)) + p.total <= Total
  <2>1. Cardinality(Open(t2)) \in Nat /\ Cardinality(Open(t)) \in Nat /\ IsFiniteSet(Open(t))
    BY McpSets, McpFinite
  <2>2. Cardinality(Open(t2)) <= Cardinality(Open(t))
    BY <1>1, <2>1, FS_Subset
  <2>3. Cardinality(Open(t)) + p.total <= Total /\ p.total \in Nat
    BY DEF McpLimits, McpPending
  <2> QED BY <2>1, <2>2, <2>3, McpConstants
<1> QED BY <1>1, <1>2, <1>3 DEF McpLimits

\* A session that stays as it was for the limits.
LEMMA McpTouched ==
  ASSUME NEW t, NEW s \in Ids, NEW m, NEW p \in McpPending, t \in [Ids -> McpEntries], McpLimits(t, p),
         t[s].state = "open", m.state = "open", m.client = t[s].client
  PROVE  McpLimits([t EXCEPT ![s] = m], p)
<1>1. PICK t2 : t2 = [t EXCEPT ![s] = m]
  OBVIOUS
<1>2. /\ \A c \in Clients : McpStartingOf(t2, c) = McpStartingOf(t, c) /\ OpenOf(t2, c) = OpenOf(t, c)
      /\ McpStarting(t2) = McpStarting(t) /\ Open(t2) = Open(t)
  BY <1>1 DEF McpStartingOf, McpStarting, OpenOf, Open
<1> QED BY <1>1, <1>2 DEF McpLimits

\* More or fewer reservations of a client.
McpGive(p, c, n) == [total |-> p.total + n, by |-> [p.by EXCEPT ![c] = @ + n]]

\* A session begins to start: its slot is reserved.
LEMMA McpReserves ==
  ASSUME McpSessionsAssumption, NEW t, NEW s \in Ids, NEW m, NEW p \in McpPending, NEW c \in Clients,
         t \in [Ids -> McpEntries], McpLimits(t, p),
         t[s].state = "none", m.state = "starting", m.client = c,
         Cardinality(OpenOf(t, c)) + p.by[c] < PerClient, Cardinality(Open(t)) + p.total < Total
  PROVE  McpGive(p, c, 1) \in McpPending /\ McpLimits([t EXCEPT ![s] = m], McpGive(p, c, 1))
<1>1. PICK t2, r : t2 = [t EXCEPT ![s] = m] /\ r = McpGive(p, c, 1)
  OBVIOUS
<1>0. r = [total |-> p.total + 1, by |-> [p.by EXCEPT ![c] = p.by[c] + 1]]
  BY <1>1 DEF McpGive
<1>2. /\ \A d \in Clients : McpStartingOf(t2, d) = IF d = c THEN McpStartingOf(t, d) \cup {s}
                                                   ELSE McpStartingOf(t, d)
      /\ \A d \in Clients : OpenOf(t2, d) = OpenOf(t, d)
      /\ McpStarting(t2) = McpStarting(t) \cup {s}
      /\ Open(t2) = Open(t)
      /\ \A d \in Clients : s \notin McpStartingOf(t, d) /\ s \notin OpenOf(t, d)
      /\ s \notin McpStarting(t)
  BY <1>1 DEF McpStartingOf, McpStarting, OpenOf, Open
<1>3. r.by \in [Clients -> Nat] /\ r.total = p.total + 1 /\ p.total \in Nat /\ p.by \in [Clients -> Nat]
      /\ \A d \in Clients : r.by[d] = IF d = c THEN p.by[d] + 1 ELSE p.by[d]
  BY <1>0 DEF McpPending
<1>4. r \in McpPending
  BY <1>0, <1>3 DEF McpPending
<1>5. ASSUME NEW d \in Clients
      PROVE  /\ r.by[d] = Cardinality(McpStartingOf(t2, d))
             /\ Cardinality(OpenOf(t2, d) \cup McpStartingOf(t2, d)) <= PerClient
  <2>1. p.by[d] = Cardinality(McpStartingOf(t, d)) /\ Cardinality(OpenOf(t, d) \cup McpStartingOf(t, d)) <= PerClient
    BY DEF McpLimits
  <2>2. CASE d # c
    BY <1>2, <1>3, <2>1, <2>2
  <2>3. CASE d = c
    <3>1. /\ IsFiniteSet(McpStartingOf(t, d)) /\ IsFiniteSet(OpenOf(t, d))
          /\ IsFiniteSet(OpenOf(t, d) \cup McpStartingOf(t, d))
          /\ Cardinality(McpStartingOf(t, d)) \in Nat /\ Cardinality(OpenOf(t, d)) \in Nat
      BY McpSets, McpFinite
    <3>2. Cardinality(McpStartingOf(t, d) \cup {s}) = Cardinality(McpStartingOf(t, d)) + 1
      BY <1>2, <3>1, FS_AddElement
    <3>3. Cardinality((OpenOf(t, d) \cup McpStartingOf(t, d)) \cup {s})
            = Cardinality(OpenOf(t, d) \cup McpStartingOf(t, d)) + 1
      BY <1>2, <3>1, FS_AddElement
    <3>4. Cardinality(OpenOf(t, d) \cup McpStartingOf(t, d)) = Cardinality(OpenOf(t, d)) + Cardinality(McpStartingOf(t, d))
      <4>1. OpenOf(t, d) \cap McpStartingOf(t, d) = {}
        BY McpSets
      <4>2. Cardinality(OpenOf(t, d) \cap McpStartingOf(t, d)) = 0
        BY <4>1, FS_EmptySet
      <4>3. Cardinality(OpenOf(t, d) \cup McpStartingOf(t, d))
              = Cardinality(OpenOf(t, d)) + Cardinality(McpStartingOf(t, d))
                - Cardinality(OpenOf(t, d) \cap McpStartingOf(t, d))
        BY <3>1, FS_Union
      <4> QED BY <3>1, <4>2, <4>3
    <3>5. OpenOf(t2, d) \cup McpStartingOf(t2, d) = (OpenOf(t, d) \cup McpStartingOf(t, d)) \cup {s}
      BY <1>2, <2>3
    <3>6. Cardinality(OpenOf(t, d)) + Cardinality(McpStartingOf(t, d)) < PerClient
      BY <2>1, <2>3
    <3>7. Cardinality(OpenOf(t2, d) \cup McpStartingOf(t2, d)) <= PerClient
      <4>1. Cardinality(OpenOf(t2, d) \cup McpStartingOf(t2, d))
              = Cardinality(OpenOf(t, d)) + Cardinality(McpStartingOf(t, d)) + 1
        BY <3>3, <3>4, <3>5
      <4> QED BY <3>1, <3>6, <4>1, McpConstants
    <3>8. r.by[d] = Cardinality(McpStartingOf(t2, d))
      BY <1>2, <1>3, <2>1, <2>3, <3>2
    <3> QED BY <3>7, <3>8
  <2> QED BY <2>2, <2>3
<1>6. r.total = Cardinality(McpStarting(t2)) /\ Cardinality(Open(t2)) + r.total <= Total
  <2>1. /\ IsFiniteSet(McpStarting(t)) /\ Cardinality(McpStarting(t)) \in Nat /\ Cardinality(Open(t)) \in Nat
    BY McpSets, McpFinite
  <2>2. Cardinality(McpStarting(t) \cup {s}) = Cardinality(McpStarting(t)) + 1
    BY <1>2, <2>1, FS_AddElement
  <2>3. p.total = Cardinality(McpStarting(t))
    BY DEF McpLimits
  <2> QED BY <1>2, <1>3, <2>1, <2>2, <2>3, McpConstants
<1> QED BY <1>1, <1>4, <1>5, <1>6 DEF McpLimits

\* A session that is in the table at once.
LEMMA McpOpens ==
  ASSUME McpSessionsAssumption, NEW t, NEW s \in Ids, NEW m, NEW p \in McpPending, NEW c \in Clients,
         t \in [Ids -> McpEntries], McpLimits(t, p),
         t[s].state = "none", m.state = "open", m.client = c,
         Cardinality(OpenOf(t, c)) + p.by[c] < PerClient, Cardinality(Open(t)) + p.total < Total
  PROVE  McpLimits([t EXCEPT ![s] = m], p)
<1>1. PICK t2 : t2 = [t EXCEPT ![s] = m]
  OBVIOUS
<1>2. /\ \A d \in Clients : OpenOf(t2, d) = IF d = c THEN OpenOf(t, d) \cup {s} ELSE OpenOf(t, d)
      /\ \A d \in Clients : McpStartingOf(t2, d) = McpStartingOf(t, d)
      /\ McpStarting(t2) = McpStarting(t)
      /\ Open(t2) = Open(t) \cup {s}
      /\ \A d \in Clients : s \notin McpStartingOf(t, d) /\ s \notin OpenOf(t, d)
      /\ s \notin Open(t)
  BY <1>1 DEF McpStartingOf, McpStarting, OpenOf, Open
<1>3. p.total \in Nat /\ p.by \in [Clients -> Nat]
  BY DEF McpPending
<1>5. ASSUME NEW d \in Clients
      PROVE  /\ p.by[d] = Cardinality(McpStartingOf(t2, d))
             /\ Cardinality(OpenOf(t2, d) \cup McpStartingOf(t2, d)) <= PerClient
  <2>1. p.by[d] = Cardinality(McpStartingOf(t, d)) /\ Cardinality(OpenOf(t, d) \cup McpStartingOf(t, d)) <= PerClient
    BY DEF McpLimits
  <2>2. CASE d # c
    BY <1>2, <1>3, <2>1, <2>2
  <2>3. CASE d = c
    <3>1. /\ IsFiniteSet(McpStartingOf(t, d)) /\ IsFiniteSet(OpenOf(t, d))
          /\ IsFiniteSet(OpenOf(t, d) \cup McpStartingOf(t, d))
          /\ Cardinality(McpStartingOf(t, d)) \in Nat /\ Cardinality(OpenOf(t, d)) \in Nat
      BY McpSets, McpFinite
    <3>3. Cardinality((OpenOf(t, d) \cup McpStartingOf(t, d)) \cup {s})
            = Cardinality(OpenOf(t, d) \cup McpStartingOf(t, d)) + 1
      BY <1>2, <3>1, FS_AddElement
    <3>4. Cardinality(OpenOf(t, d) \cup McpStartingOf(t, d)) = Cardinality(OpenOf(t, d)) + Cardinality(McpStartingOf(t, d))
      <4>1. OpenOf(t, d) \cap McpStartingOf(t, d) = {}
        BY McpSets
      <4>2. Cardinality(OpenOf(t, d) \cap McpStartingOf(t, d)) = 0
        BY <4>1, FS_EmptySet
      <4>3. Cardinality(OpenOf(t, d) \cup McpStartingOf(t, d))
              = Cardinality(OpenOf(t, d)) + Cardinality(McpStartingOf(t, d))
                - Cardinality(OpenOf(t, d) \cap McpStartingOf(t, d))
        BY <3>1, FS_Union
      <4> QED BY <3>1, <4>2, <4>3
    <3>5. OpenOf(t2, d) \cup McpStartingOf(t2, d) = (OpenOf(t, d) \cup McpStartingOf(t, d)) \cup {s}
      BY <1>2, <2>3
    <3>6. Cardinality(OpenOf(t, d)) + Cardinality(McpStartingOf(t, d)) < PerClient
      BY <2>1, <2>3
    <3>7. Cardinality(OpenOf(t2, d) \cup McpStartingOf(t2, d)) <= PerClient
      <4>1. Cardinality(OpenOf(t2, d) \cup McpStartingOf(t2, d))
              = Cardinality(OpenOf(t, d)) + Cardinality(McpStartingOf(t, d)) + 1
        BY <3>3, <3>4, <3>5
      <4> QED BY <3>1, <3>6, <4>1, McpConstants
    <3> QED BY <1>2, <2>1, <3>7
  <2> QED BY <2>2, <2>3
<1>6. p.total = Cardinality(McpStarting(t2)) /\ Cardinality(Open(t2)) + p.total <= Total
  <2>1. /\ IsFiniteSet(Open(t)) /\ Cardinality(Open(t)) \in Nat
    BY McpSets, McpFinite
  <2>2. Cardinality(Open(t) \cup {s}) = Cardinality(Open(t)) + 1
    BY <1>2, <2>1, FS_AddElement
  <2>3. p.total = Cardinality(McpStarting(t))
    BY DEF McpLimits
  <2> QED BY <1>2, <1>3, <2>1, <2>2, <2>3, McpConstants
<1> QED BY <1>1, <1>5, <1>6 DEF McpLimits

\* A session that was starting is in the table, or is not started after all: its
\* reservation is given back.
LEMMA McpSettles ==
  ASSUME McpSessionsAssumption, NEW t, NEW s \in Ids, NEW m, NEW p \in McpPending, NEW c \in Clients,
         t \in [Ids -> McpEntries], McpLimits(t, p),
         t[s].state = "starting", t[s].client = c,
         m.state = "closed" \/ (m.state = "open" /\ m.client = c)
  PROVE  McpGive(p, c, -1) \in McpPending /\ McpLimits([t EXCEPT ![s] = m], McpGive(p, c, -1))
<1>1. PICK t2, r : t2 = [t EXCEPT ![s] = m] /\ r = McpGive(p, c, -1)
  OBVIOUS
<1>0. r = [total |-> p.total + -1, by |-> [p.by EXCEPT ![c] = p.by[c] + -1]]
  BY <1>1 DEF McpGive
<1>2. /\ \A d \in Clients : McpStartingOf(t2, d) = IF d = c THEN McpStartingOf(t, d) \ {s}
                                                   ELSE McpStartingOf(t, d)
      /\ \A d \in Clients : OpenOf(t2, d) \subseteq IF d = c THEN OpenOf(t, d) \cup {s} ELSE OpenOf(t, d)
      /\ McpStarting(t2) = McpStarting(t) \ {s}
      /\ Open(t2) \subseteq Open(t) \cup {s}
      /\ s \in McpStartingOf(t, c) /\ s \in McpStarting(t) /\ s \notin Open(t)
  BY <1>1 DEF McpStartingOf, McpStarting, OpenOf, Open
<1>3. p.total \in Nat /\ p.by \in [Clients -> Nat] /\ r.total = p.total - 1
      /\ r.by = [p.by EXCEPT ![c] = p.by[c] - 1]
  <2>1. p.total \in Nat /\ p.by \in [Clients -> Nat]
    BY DEF McpPending
  <2>2. p.total + -1 = p.total - 1 /\ p.by[c] + -1 = p.by[c] - 1
    BY <2>1
  <2> QED BY <1>0, <2>1, <2>2
<1>4. /\ IsFiniteSet(McpStartingOf(t, c)) /\ Cardinality(McpStartingOf(t, c)) \in Nat
      /\ IsFiniteSet(McpStarting(t)) /\ Cardinality(McpStarting(t)) \in Nat
      /\ IsFiniteSet(Open(t)) /\ Cardinality(Open(t)) \in Nat
      /\ Cardinality(Open(t2)) \in Nat
  BY McpSets, McpFinite
<1>5. /\ Cardinality(McpStartingOf(t, c) \ {s}) = Cardinality(McpStartingOf(t, c)) - 1
      /\ Cardinality(McpStarting(t) \ {s}) = Cardinality(McpStarting(t)) - 1
  BY <1>2, <1>4, FS_RemoveElement
<1>6. Cardinality(McpStartingOf(t, c) \ {s}) \in Nat /\ Cardinality(McpStarting(t) \ {s}) \in Nat
  <2>1. McpStartingOf(t, c) \ {s} \in SUBSET Ids /\ McpStarting(t) \ {s} \in SUBSET Ids
    BY McpSets
  <2> QED BY <2>1, McpFinite
<1>7. p.by[c] = Cardinality(McpStartingOf(t, c)) /\ p.total = Cardinality(McpStarting(t))
  BY DEF McpLimits
<1>8. r.by \in [Clients -> Nat] /\ r.total \in Nat
  <2>1. p.by[c] - 1 \in Nat /\ p.total - 1 \in Nat
    BY <1>4, <1>5, <1>6, <1>7
  <2> QED BY <1>3, <2>1
<1>9. r \in McpPending
  BY <1>0, <1>3, <1>8 DEF McpPending
<1>10. ASSUME NEW d \in Clients
       PROVE  /\ r.by[d] = Cardinality(McpStartingOf(t2, d))
              /\ Cardinality(OpenOf(t2, d) \cup McpStartingOf(t2, d)) <= PerClient
  <2>1. p.by[d] = Cardinality(McpStartingOf(t, d)) /\ Cardinality(OpenOf(t, d) \cup McpStartingOf(t, d)) <= PerClient
    BY DEF McpLimits
  <2>2. OpenOf(t2, d) \cup McpStartingOf(t2, d) \subseteq OpenOf(t, d) \cup McpStartingOf(t, d)
    BY <1>2
  <2>3. /\ IsFiniteSet(OpenOf(t, d) \cup McpStartingOf(t, d))
        /\ Cardinality(OpenOf(t, d) \cup McpStartingOf(t, d)) \in Nat
        /\ Cardinality(OpenOf(t2, d) \cup McpStartingOf(t2, d)) \in Nat
    BY McpSets, McpFinite
  <2>4. Cardinality(OpenOf(t2, d) \cup McpStartingOf(t2, d)) <= Cardinality(OpenOf(t, d) \cup McpStartingOf(t, d))
    BY <2>2, <2>3, FS_Subset
  <2>5. Cardinality(OpenOf(t2, d) \cup McpStartingOf(t2, d)) <= PerClient
    BY <2>1, <2>3, <2>4, McpConstants
  <2>6. r.by[d] = Cardinality(McpStartingOf(t2, d))
    <3>1. CASE d = c
      <4>1. r.by[c] = p.by[c] - 1
        BY <1>3
      <4>2. McpStartingOf(t2, c) = McpStartingOf(t, c) \ {s}
        BY <1>2
      <4> QED BY <1>5, <1>7, <3>1, <4>1, <4>2
    <3>2. CASE d # c
      <4>1. r.by[d] = p.by[d]
        BY <1>3, <3>2
      <4>2. McpStartingOf(t2, d) = McpStartingOf(t, d)
        BY <1>2, <3>2
      <4> QED BY <2>1, <4>1, <4>2
    <3> QED BY <3>1, <3>2
  <2> QED BY <2>5, <2>6
<1>11. r.total = Cardinality(McpStarting(t2))
  BY <1>2, <1>3, <1>5, <1>7
<1>12. Cardinality(Open(t2)) + r.total <= Total
  <2>1. Cardinality(Open(t) \cup {s}) = Cardinality(Open(t)) + 1 /\ IsFiniteSet(Open(t) \cup {s})
    BY <1>2, <1>4, FS_AddElement
  <2>2. Cardinality(Open(t2)) <= Cardinality(Open(t) \cup {s})
    BY <1>2, <2>1, FS_Subset
  <2>3. Cardinality(Open(t)) + p.total <= Total
    BY DEF McpLimits
  <2> QED BY <1>3, <1>4, <2>1, <2>2, <2>3, McpConstants
<1> QED BY <1>1, <1>9, <1>10, <1>11, <1>12 DEF McpLimits

-----------------------------------------------------------------------------
(* Room is made of sessions that nobody uses. *)

\* What the table becomes when sessions are recycled: nobody used them.
McpRecycles(t, t2) ==
  /\ t2 \in [Ids -> McpEntries]
  /\ \A u \in Ids :
       \/ t2[u] = t[u]
       \/ /\ t[u].state = "open" /\ t[u].inFlight = 0 /\ t[u].openStreams = 0
          /\ t2[u] = Gone("recycled")

\* recycleOldestQuiescentSession takes one that is reclaimable.
LEMMA McpRecyclesOne ==
  ASSUME NEW t, t \in [Ids -> McpEntries], NEW candidates, candidates \subseteq Open(t),
         NEW t2 \in recycleOldestQuiescentSession(t, candidates)
  PROVE  McpRecycles(t, t2)
<1>1. t2 = t \/ \E u \in Ids : /\ t[u].state = "open" /\ isReclaimable(t[u])
                               /\ t2 = [t EXCEPT ![u] = Gone("recycled")]
  BY DEF recycleOldestQuiescentSession, oldestReclaimableSession, Open
<1>2. CASE t2 = t
  BY <1>2 DEF McpRecycles
<1>3. ASSUME NEW u \in Ids, t[u].state = "open", isReclaimable(t[u]),
             t2 = [t EXCEPT ![u] = Gone("recycled")]
      PROVE  McpRecycles(t, t2)
  <2>1. t[u].inFlight = 0 /\ t[u].openStreams = 0
    BY <1>3 DEF isReclaimable
  <2>2. Gone("recycled") \in McpEntries
    BY DEF McpEntries
  <2> QED BY <1>3, <2>1, <2>2 DEF McpRecycles
<1> QED BY <1>1, <1>2, <1>3

\* Recycling again is recycling.
LEMMA McpRecyclesTwice ==
  ASSUME NEW t, NEW t2, NEW t3, McpRecycles(t, t2), McpRecycles(t2, t3)
  PROVE  McpRecycles(t, t3)
BY DEF McpRecycles, Gone

\* reclaimCapacity recycles for the client, then for all.
LEMMA McpReclaims ==
  ASSUME McpTyped, NEW c, NEW t2 \in reclaimCapacity(c)
  PROVE  McpRecycles(sessions, t2)
<1>1. sessions \in [Ids -> McpEntries]
  BY DEF McpTyped
<1>2. McpRecycles(sessions, sessions)
  BY <1>1 DEF McpRecycles
<1>3. PICK t : /\ t = sessions \/ t \in recycleOldestQuiescentSession(sessions, OpenOf(sessions, c))
               /\ t2 = t \/ t2 \in recycleOldestQuiescentSession(t, Open(t))
  BY DEF reclaimCapacity
<1>4. OpenOf(sessions, c) \subseteq Open(sessions)
  BY DEF OpenOf
<1>5. McpRecycles(sessions, t)
  BY <1>1, <1>2, <1>3, <1>4, McpRecyclesOne
<1>6. t \in [Ids -> McpEntries]
  BY <1>5 DEF McpRecycles
<1>7. CASE t2 = t
  BY <1>5, <1>7
<1>8. CASE t2 \in recycleOldestQuiescentSession(t, Open(t))
  <2>1. McpRecycles(t, t2)
    BY <1>6, <1>8, McpRecyclesOne
  <2> QED BY <1>5, <2>1, McpRecyclesTwice
<1> QED BY <1>3, <1>7, <1>8

\* A session that nobody uses may be recycled.
LEMMA McpRecycledFine ==
  ASSUME McpSessionsAssumption, NEW h, NEW s, NEW m \in McpEntries, McpFine(h, s, m),
         m.state = "open", m.inFlight = 0, m.openStreams = 0
  PROVE  McpFine(h, s, Gone("recycled"))
<1>1. /\ McpOf(h, s, {"initialize"}) = {}
      /\ Cardinality(McpOf(h, s, {"first", "request"})) = 0
      /\ Cardinality(McpOf(h, s, {"stream"})) = 0
  BY DEF McpFine
<1>2. McpOf(h, s, {"first", "request"}) = {} /\ McpOf(h, s, {"stream"}) = {}
  BY <1>1, McpOfFinite, FS_EmptySet
<1>3. McpOf(h, s, McpUsing) = {}
  BY <1>2 DEF McpOf, McpUsing
<1> QED BY <1>1, <1>3 DEF McpFine, Gone

\* Recycling leaves the requests counted right and the limits kept.
LEMMA McpRecyclesFine ==
  ASSUME McpSessionsAssumption, McpInv, NEW t2, McpRecycles(sessions, t2)
  PROVE  /\ t2 \in [Ids -> McpEntries]
         /\ McpTable(handled, t2)
         /\ McpLimits(t2, pending)
<1>1. t2 \in [Ids -> McpEntries]
  BY DEF McpRecycles
<1>2. ASSUME NEW s \in Ids  PROVE McpFine(handled, s, t2[s])
  <2>1. McpFine(handled, s, sessions[s]) /\ sessions[s] \in McpEntries
    BY DEF McpInv, McpTyped, McpTable
  <2>2. \/ t2[s] = sessions[s]
        \/ /\ sessions[s].state = "open" /\ sessions[s].inFlight = 0 /\ sessions[s].openStreams = 0
           /\ t2[s] = Gone("recycled")
    BY DEF McpRecycles
  <2> QED BY <2>1, <2>2, McpRecycledFine
<1>3. \A s \in Ids : t2[s] = sessions[s] \/ (sessions[s].state = "open" /\ t2[s].state \notin {"starting", "open"})
  BY DEF McpRecycles, Gone
<1>4. pending \in McpPending /\ McpLimits(sessions, pending)
  BY DEF McpInv, McpTyped
<1>5. McpLimits(t2, pending)
  BY <1>3, <1>4, McpFewer
<1> QED BY <1>1, <1>2, <1>5 DEF McpTable

-----------------------------------------------------------------------------
(* What a step makes of the session that it is about. *)

\* One place of a function is changed.
McpPut(f, i, v, g) == g = [f EXCEPT ![i] = v]

\* A request goes over to something else.
McpTurns(h, q, d, h2) ==
  /\ h \in [Requests -> McpDoing] /\ h2 \in [Requests -> McpDoing]
  /\ h2[q] = d /\ \A r \in Requests : r # q => h2[r] = h[r]

\* A change of one request.
LEMMA McpTurnsTo ==
  ASSUME NEW h, h \in [Requests -> McpDoing], NEW q \in Requests, NEW d \in McpDoing, NEW h2,
         h2 = [h EXCEPT ![q] = d]
  PROVE  McpTurns(h, q, d, h2)
BY DEF McpTurns

\* What requests do, told apart.
LEMMA McpDoings ==
  /\ Free \in McpDoing /\ Free.does = "nothing"
  /\ \A kind \in McpUsing \cup {"initialize"}, s \in Ids :
       /\ Does(kind, s) \in McpDoing /\ Does(kind, s) # Free
       /\ Does(kind, s).does = kind /\ Does(kind, s).session = s
BY DEF Free, Does, McpDoing, McpUsing

\* A request that has nothing to do with a session, before or after, does not matter to it.
LEMMA McpElsewhere ==
  ASSUME NEW h, NEW q \in Requests, NEW d \in McpDoing, NEW h2, McpTurns(h, q, d, h2),
         NEW s, NEW m, McpFine(h, s, m),
         h[q] = Free \/ h[q].session # s, d = Free \/ d.session # s
  PROVE  McpFine(h2, s, m)
<1>1. /\ h2[q] = d /\ \A r \in Requests : r # q => h2[r] = h[r]
  BY DEF McpTurns
<1>2. ASSUME NEW kinds \in SUBSET (McpUsing \cup {"initialize"})
      PROVE  McpOf(h2, s, kinds) = McpOf(h, s, kinds)
  <2>1. "nothing" \notin kinds
    BY DEF McpUsing
  <2>2. ~(d.does \in kinds /\ d.session = s)
    BY <2>1 DEF Free
  <2>3. q \notin McpOf(h, s, kinds)
    BY <2>1 DEF McpOf, Free
  <2>4. ASSUME NEW r \in Requests
        PROVE  r \in McpOf(h2, s, kinds) <=> r \in McpOf(h, s, kinds)
    BY <1>1, <2>2, <2>3 DEF McpOf
  <2>5. McpOf(h2, s, kinds) \subseteq Requests /\ McpOf(h, s, kinds) \subseteq Requests
    BY DEF McpOf
  <2> QED BY <2>4, <2>5
<1>3. /\ McpUsing \cup {"initialize"} \in SUBSET (McpUsing \cup {"initialize"})
      /\ McpUsing \in SUBSET (McpUsing \cup {"initialize"})
      /\ {"initialize"} \in SUBSET (McpUsing \cup {"initialize"})
      /\ {"first", "request"} \in SUBSET (McpUsing \cup {"initialize"})
      /\ {"stream"} \in SUBSET (McpUsing \cup {"initialize"})
  BY DEF McpUsing
<1>4. /\ McpOf(h2, s, McpUsing \cup {"initialize"}) = McpOf(h, s, McpUsing \cup {"initialize"})
      /\ McpOf(h2, s, McpUsing) = McpOf(h, s, McpUsing)
      /\ McpOf(h2, s, {"initialize"}) = McpOf(h, s, {"initialize"})
      /\ McpOf(h2, s, {"first", "request"}) = McpOf(h, s, {"first", "request"})
      /\ McpOf(h2, s, {"stream"}) = McpOf(h, s, {"stream"})
  BY <1>2, <1>3
<1> QED BY <1>4 DEF McpFine

\* The requests of a session after a free one began something with it.
McpJoins(h, h2, q, s, kind) ==
  \A kinds \in SUBSET (McpUsing \cup {"initialize"}) :
    /\ q \notin McpOf(h, s, kinds)
    /\ McpOf(h2, s, kinds) = IF kind \in kinds THEN McpOf(h, s, kinds) \cup {q}
                             ELSE McpOf(h, s, kinds)

\* A free request begins something with a session.
LEMMA McpBegun ==
  ASSUME NEW h, NEW q \in Requests, h[q] = Free, NEW s \in Ids,
         NEW kind \in McpUsing \cup {"initialize"}, NEW h2, McpTurns(h, q, Does(kind, s), h2)
  PROVE  McpJoins(h, h2, q, s, kind)
<1>2. ASSUME NEW kinds \in SUBSET (McpUsing \cup {"initialize"})
      PROVE  /\ q \notin McpOf(h, s, kinds)
             /\ McpOf(h2, s, kinds) = IF kind \in kinds THEN McpOf(h, s, kinds) \cup {q}
                                      ELSE McpOf(h, s, kinds)
  <2>1. "nothing" \notin kinds
    BY DEF McpUsing
  <2>2. q \notin McpOf(h, s, kinds)
    BY <2>1 DEF McpOf, Free
  <2>3. h2[q].does = kind /\ h2[q].session = s /\ \A r \in Requests : r # q => h2[r] = h[r]
    <3>1. h2[q] = Does(kind, s) /\ \A r \in Requests : r # q => h2[r] = h[r]
      BY DEF McpTurns
    <3> QED BY <3>1, McpDoings
  <2>4. ASSUME NEW r \in Requests
        PROVE  r \in McpOf(h2, s, kinds) <=> r \in McpOf(h, s, kinds) \/ (kind \in kinds /\ r = q)
    BY <2>2, <2>3 DEF McpOf
  <2>5. McpOf(h2, s, kinds) \subseteq Requests /\ McpOf(h, s, kinds) \subseteq Requests
    BY DEF McpOf
  <2> QED BY <2>2, <2>4, <2>5
<1> QED BY <1>2 DEF McpJoins

\* The requests of a session after one of them turned from one thing to another.
McpAfter(h, h2, q, s, kind, into) ==
  \A kinds \in SUBSET (McpUsing \cup {"initialize"}) :
    /\ q \in McpOf(h, s, kinds) <=> kind \in kinds
    /\ McpOf(h2, s, kinds) = IF into \in kinds THEN McpOf(h, s, kinds) \cup {q}
                             ELSE McpOf(h, s, kinds) \ {q}

\* A request turns from one thing to another, or to nothing.
LEMMA McpTurned ==
  ASSUME NEW h, NEW q \in Requests, NEW s, NEW kind,
         h[q].does = kind, h[q].session = s, NEW d \in McpDoing, d = Free \/ d.session = s,
         NEW h2, McpTurns(h, q, d, h2)
  PROVE  McpAfter(h, h2, q, s, kind, d.does)
<1>1. ASSUME NEW kinds \in SUBSET (McpUsing \cup {"initialize"})
      PROVE  /\ q \in McpOf(h, s, kinds) <=> kind \in kinds
             /\ McpOf(h2, s, kinds) = IF d.does \in kinds THEN McpOf(h, s, kinds) \cup {q}
                                      ELSE McpOf(h, s, kinds) \ {q}
  <2>1. "nothing" \notin kinds
    BY DEF McpUsing
  <2>2. q \in McpOf(h, s, kinds) <=> kind \in kinds
    BY DEF McpOf
  <2>3. h2[q] = d /\ \A r \in Requests : r # q => h2[r] = h[r]
    BY DEF McpTurns
  <2>4. d.does \in kinds => d.session = s
    BY <2>1 DEF Free
  <2>5. ASSUME NEW r \in Requests
        PROVE  r \in McpOf(h2, s, kinds)
                 <=> IF r = q THEN d.does \in kinds ELSE r \in McpOf(h, s, kinds)
    BY <2>3, <2>4 DEF McpOf
  <2>6. McpOf(h2, s, kinds) \subseteq Requests /\ McpOf(h, s, kinds) \subseteq Requests
    BY DEF McpOf
  <2> QED BY <2>2, <2>5, <2>6
<1> QED BY <1>1 DEF McpAfter

\* The kinds that are counted.
LEMMA McpKinds ==
  /\ McpUsing \cup {"initialize"} \in SUBSET (McpUsing \cup {"initialize"})
  /\ McpUsing \in SUBSET (McpUsing \cup {"initialize"})
  /\ {"initialize"} \in SUBSET (McpUsing \cup {"initialize"})
  /\ {"first", "request"} \in SUBSET (McpUsing \cup {"initialize"})
  /\ {"stream"} \in SUBSET (McpUsing \cup {"initialize"})
BY DEF McpUsing

\* The sets of the smaller kinds are within those of the larger ones.
LEMMA McpSmaller ==
  ASSUME NEW h, NEW s
  PROVE  /\ McpOf(h, s, McpUsing) = McpOf(h, s, {"first", "request"}) \cup McpOf(h, s, {"stream"})
         /\ McpOf(h, s, McpUsing \cup {"initialize"}) = McpOf(h, s, McpUsing) \cup McpOf(h, s, {"initialize"})
BY DEF McpOf, McpUsing

\* A free request begins to start, to use or to stream from a session.
LEMMA McpBegins ==
  ASSUME McpSessionsAssumption, NEW h, h \in [Requests -> McpDoing], NEW q \in Requests, h[q] = Free, NEW s \in Ids,
         NEW m0, McpFine(h, s, m0), NEW m,
         NEW kind \in McpUsing \cup {"initialize"}, NEW h2, h2 = [h EXCEPT ![q] = Does(kind, s)],
         \/ /\ m0.state = "none" /\ kind = "initialize"
            /\ m.state = "starting" /\ m.inFlight = 0 /\ m.openStreams = 0
         \/ /\ m0.state = "none" /\ kind = "stream"
            /\ m.state = "open" /\ m.inFlight = 0 /\ m.openStreams = 1
         \/ /\ m0.state = "open" /\ kind = "request"
            /\ m.state = "open" /\ m.inFlight = m0.inFlight + 1 /\ m.openStreams = m0.openStreams
         \/ /\ m0.state = "open" /\ kind = "stream"
            /\ m.state = "open" /\ m.inFlight = m0.inFlight /\ m.openStreams = m0.openStreams + 1
  PROVE  h2 \in [Requests -> McpDoing] /\ McpFine(h2, s, m)
<1> DEFINE all == McpUsing \cup {"initialize"}
<1>1. /\ h2 \in [Requests -> McpDoing]
      /\ q \notin McpOf(h, s, {"first", "request"}) /\ q \notin McpOf(h, s, {"stream"})
      /\ McpOf(h2, s, McpUsing) = IF kind \in McpUsing THEN McpOf(h, s, McpUsing) \cup {q}
                                  ELSE McpOf(h, s, McpUsing)
      /\ McpOf(h2, s, {"initialize"}) = IF kind = "initialize" THEN McpOf(h, s, {"initialize"}) \cup {q}
                                        ELSE McpOf(h, s, {"initialize"})
      /\ McpOf(h2, s, {"first", "request"}) = IF kind \in {"first", "request"}
                                              THEN McpOf(h, s, {"first", "request"}) \cup {q}
                                              ELSE McpOf(h, s, {"first", "request"})
      /\ McpOf(h2, s, {"stream"}) = IF kind = "stream" THEN McpOf(h, s, {"stream"}) \cup {q}
                                    ELSE McpOf(h, s, {"stream"})
  <2>1. McpTurns(h, q, Does(kind, s), h2)
    BY McpDoings, McpTurnsTo
  <2>2. McpJoins(h, h2, q, s, kind)
    BY <2>1, McpBegun
  <2>3. h2 \in [Requests -> McpDoing]
    BY <2>1 DEF McpTurns
  <2> QED BY <2>2, <2>3, McpKinds DEF McpJoins
<1>2. /\ Cardinality(McpOf(h, s, {"first", "request"}) \cup {q}) = Cardinality(McpOf(h, s, {"first", "request"})) + 1
      /\ Cardinality(McpOf(h, s, {"stream"}) \cup {q}) = Cardinality(McpOf(h, s, {"stream"})) + 1
  BY <1>1, McpOfFinite, FS_AddElement
<1>3. CASE m0.state = "none"
  <2>1. McpOf(h, s, all) = {}
    BY <1>3 DEF McpFine
  <2>2. /\ McpOf(h, s, McpUsing) = {} /\ McpOf(h, s, {"initialize"}) = {}
        /\ McpOf(h, s, {"first", "request"}) = {} /\ McpOf(h, s, {"stream"}) = {}
    BY <2>1, McpSmaller
  <2>3. Cardinality(McpOf(h, s, {"first", "request"})) = 0 /\ Cardinality(McpOf(h, s, {"stream"})) = 0
    BY <2>2, FS_EmptySet
  <2>4. CASE kind = "initialize"
    <3>1. m.state = "starting" /\ m.inFlight = 0 /\ m.openStreams = 0
      BY <1>3, <2>4
    <3>2. McpOf(h2, s, McpUsing) = {} /\ McpOf(h2, s, {"initialize"}) = {q}
      BY <1>1, <2>2, <2>4 DEF McpUsing
    <3> QED BY <1>1, <3>1, <3>2 DEF McpFine
  <2>5. CASE kind = "stream"
    <3>1. m.state = "open" /\ m.inFlight = 0 /\ m.openStreams = 1
      BY <1>3, <2>5
    <3>2. McpOf(h2, s, {"initialize"}) = {} /\ McpOf(h2, s, {"first", "request"}) = {}
          /\ McpOf(h2, s, {"stream"}) = {q}
      BY <1>1, <2>2, <2>5
    <3>3. Cardinality({q}) = 1 /\ Cardinality({}) = 0
      BY FS_EmptySet, FS_Singleton
    <3>4. m.inFlight = Cardinality(McpOf(h2, s, {"first", "request"}))
          /\ m.openStreams = Cardinality(McpOf(h2, s, {"stream"}))
      BY <3>1, <3>2, <3>3
    <3> QED BY <1>1, <3>1, <3>2, <3>4 DEF McpFine
  <2> QED BY <1>3, <2>4, <2>5
<1>4. CASE m0.state = "open"
  <2>1. /\ McpOf(h, s, {"initialize"}) = {}
        /\ m0.inFlight = Cardinality(McpOf(h, s, {"first", "request"}))
        /\ m0.openStreams = Cardinality(McpOf(h, s, {"stream"}))
    BY <1>4 DEF McpFine
  <2>2. kind \in {"request", "stream"} /\ m.state = "open"
    BY <1>4
  <2>3. McpOf(h2, s, {"initialize"}) = {}
    BY <1>1, <2>1, <2>2
  <2>4. m.inFlight = Cardinality(McpOf(h2, s, {"first", "request"}))
    BY <1>1, <1>2, <1>4, <2>1, <2>2
  <2>5. m.openStreams = Cardinality(McpOf(h2, s, {"stream"}))
    BY <1>1, <1>2, <1>4, <2>1, <2>2
  <2> QED BY <1>1, <2>2, <2>3, <2>4, <2>5 DEF McpFine
<1> QED BY <1>3, <1>4

\* The initialization is over.
LEMMA McpInitialized ==
  ASSUME NEW h, h \in [Requests -> McpDoing], NEW q \in Requests, NEW s \in Ids,
         h[q].does = "initialize", h[q].session = s,
         NEW m0 \in McpEntries, McpFine(h, s, m0), NEW m, NEW h2,
         \/ /\ m.state = "open" /\ m.inFlight = 1 /\ m.openStreams = 0
            /\ h2 = [h EXCEPT ![q] = Does("first", s)]
         \/ m.state = "closed" /\ h2 = [h EXCEPT ![q] = Free]
  PROVE  m0.state = "starting" /\ h2 \in [Requests -> McpDoing] /\ McpFine(h2, s, m)
<1>1. PICK d \in McpDoing : /\ h2 = [h EXCEPT ![q] = d] /\ (d = Free \/ d.session = s)
                            /\ d = Free => m.state = "closed"
                            /\ d # Free => /\ m.state = "open" /\ m.inFlight = 1 /\ m.openStreams = 0
                                           /\ d.does = "first"
  BY DEF Does, Free, McpDoing, McpUsing
<1>2. /\ h2 \in [Requests -> McpDoing]
      /\ \A kinds \in SUBSET (McpUsing \cup {"initialize"}) :
           /\ q \in McpOf(h, s, kinds) <=> "initialize" \in kinds
           /\ McpOf(h2, s, kinds) = IF d.does \in kinds THEN McpOf(h, s, kinds) \cup {q}
                                    ELSE McpOf(h, s, kinds) \ {q}
  <2>1. McpTurns(h, q, d, h2)
    BY <1>1, McpTurnsTo
  <2>2. h2 \in [Requests -> McpDoing]
    BY <2>1 DEF McpTurns
  <2>3. McpAfter(h, h2, q, s, "initialize", d.does)
    BY <1>1, <2>1, McpTurned
  <2> QED BY <2>2, <2>3 DEF McpAfter
<1>3. q \in McpOf(h, s, {"initialize"}) /\ q \in McpOf(h, s, McpUsing \cup {"initialize"})
  BY <1>2, McpKinds
<1>4. m0.state = "starting"
  BY <1>3, McpEntryKinds DEF McpFine
<1>5. McpOf(h, s, McpUsing) = {} /\ McpOf(h, s, {"initialize"}) = {q}
  BY <1>3, <1>4 DEF McpFine
<1>6. McpOf(h, s, {"first", "request"}) = {} /\ McpOf(h, s, {"stream"}) = {}
  BY <1>5, McpSmaller
<1>7. d.does \in {"nothing", "first"} /\ (d = Free => d.does = "nothing")
  BY <1>1 DEF Free
<1>8. McpOf(h2, s, {"initialize"}) = {}
  BY <1>2, <1>5, <1>7, McpKinds
<1>9. CASE d = Free
  BY <1>1, <1>2, <1>4, <1>8, <1>9 DEF McpFine
<1>10. CASE d # Free
  <2>1. McpOf(h2, s, {"first", "request"}) = {q} /\ McpOf(h2, s, {"stream"}) = {}
    BY <1>1, <1>2, <1>6, <1>10, McpKinds
  <2>2. Cardinality({q}) = 1 /\ Cardinality(McpOf(h2, s, {"stream"})) = 0
    BY <2>1, FS_EmptySet, FS_Singleton
  <2> QED BY <1>1, <1>2, <1>4, <1>8, <1>10, <2>1, <2>2 DEF McpFine
<1> QED BY <1>9, <1>10

\* A session after the end of a request or a stream.
McpLess(m0, m, kind) ==
  \/ m.state = "closed"
  \/ m0.state # "open" /\ m = m0
  \/ /\ m0.state = "open" /\ m.state = "open"
     /\ m.inFlight = IF kind = "stream" THEN m0.inFlight ELSE m0.inFlight - 1
     /\ m.openStreams = IF kind = "stream" THEN m0.openStreams - 1 ELSE m0.openStreams

\* A request or a stream is over; the session may be gone.
LEMMA McpEnds ==
  ASSUME McpSessionsAssumption, NEW h, h \in [Requests -> McpDoing], NEW q \in Requests, NEW s \in Ids,
         NEW kind \in McpUsing, h[q].does = kind, h[q].session = s,
         NEW m0 \in McpEntries, McpFine(h, s, m0), NEW m, NEW h2, McpPut(h, q, Free, h2),
         McpLess(m0, m, kind)
  PROVE  /\ h2 \in [Requests -> McpDoing] /\ McpFine(h2, s, m)
         /\ m0.state \in {"open", "closed"}
         /\ m0.state = "open" => IF kind = "stream" THEN m0.openStreams - 1 \in Nat
                                 ELSE m0.inFlight - 1 \in Nat
<1>1. Free \in McpDoing /\ Free.does = "nothing"
  BY DEF McpDoing, Free
<1>2. /\ h2 \in [Requests -> McpDoing]
      /\ \A kinds \in SUBSET (McpUsing \cup {"initialize"}) :
           /\ q \in McpOf(h, s, kinds) <=> kind \in kinds
           /\ McpOf(h2, s, kinds) = IF Free.does \in kinds THEN McpOf(h, s, kinds) \cup {q}
                                    ELSE McpOf(h, s, kinds) \ {q}
  <2>1. McpTurns(h, q, Free, h2)
    BY <1>1, McpTurnsTo DEF McpPut
  <2>2. h2 \in [Requests -> McpDoing]
    BY <2>1 DEF McpTurns
  <2>3. McpAfter(h, h2, q, s, kind, Free.does)
    BY <1>1, <2>1, McpTurned
  <2> QED BY <2>2, <2>3 DEF McpAfter
<1>3. /\ q \in McpOf(h, s, McpUsing) /\ q \in McpOf(h, s, McpUsing \cup {"initialize"})
      /\ q \in McpOf(h, s, {"stream"}) <=> kind = "stream"
      /\ q \in McpOf(h, s, {"first", "request"}) <=> kind # "stream"
      /\ McpOf(h2, s, {"initialize"}) = McpOf(h, s, {"initialize"}) \ {q}
      /\ McpOf(h2, s, {"first", "request"}) = McpOf(h, s, {"first", "request"}) \ {q}
      /\ McpOf(h2, s, {"stream"}) = McpOf(h, s, {"stream"}) \ {q}
  <2>1. kind \in McpUsing \cup {"initialize"} /\ kind \in {"first", "request", "stream"}
    BY DEF McpUsing
  <2> QED BY <1>1, <1>2, <2>1, McpKinds
<1>4. m0.state \in {"open", "closed"}
  BY <1>3, McpEntryKinds DEF McpFine
<1>5. McpOf(h, s, {"initialize"}) = {}
  BY <1>4 DEF McpFine
<1>6. McpOf(h2, s, {"initialize"}) = {}
  BY <1>3, <1>5
<1>7. /\ kind = "stream" =>
           Cardinality(McpOf(h, s, {"stream"}) \ {q}) = Cardinality(McpOf(h, s, {"stream"})) - 1
      /\ kind # "stream" =>
           Cardinality(McpOf(h, s, {"first", "request"}) \ {q}) = Cardinality(McpOf(h, s, {"first", "request"})) - 1
      /\ Cardinality(McpOf(h2, s, {"stream"})) \in Nat
      /\ Cardinality(McpOf(h2, s, {"first", "request"})) \in Nat
  <2>1. /\ IsFiniteSet(McpOf(h, s, {"stream"})) /\ IsFiniteSet(McpOf(h, s, {"first", "request"}))
        /\ Cardinality(McpOf(h2, s, {"stream"})) \in Nat
        /\ Cardinality(McpOf(h2, s, {"first", "request"})) \in Nat
    BY McpOfFinite
  <2> QED BY <1>3, <2>1, FS_RemoveElement
<1>8. m0.state = "open" => IF kind = "stream" THEN m0.openStreams - 1 \in Nat ELSE m0.inFlight - 1 \in Nat
  BY <1>3, <1>7 DEF McpFine
<1>9. CASE m.state = "closed"
  BY <1>2, <1>4, <1>6, <1>8, <1>9 DEF McpFine
<1>10. CASE m0.state # "open" /\ m = m0
  BY <1>2, <1>4, <1>6, <1>8, <1>10 DEF McpFine
<1>11. CASE /\ m0.state = "open" /\ m.state = "open"
            /\ m.inFlight = IF kind = "stream" THEN m0.inFlight ELSE m0.inFlight - 1
            /\ m.openStreams = IF kind = "stream" THEN m0.openStreams - 1 ELSE m0.openStreams
  <2>1. m0.inFlight = Cardinality(McpOf(h, s, {"first", "request"}))
        /\ m0.openStreams = Cardinality(McpOf(h, s, {"stream"}))
    BY <1>11 DEF McpFine
  <2>2. kind = "stream" => McpOf(h2, s, {"first", "request"}) = McpOf(h, s, {"first", "request"})
    BY <1>3
  <2>3. kind # "stream" => McpOf(h2, s, {"stream"}) = McpOf(h, s, {"stream"})
    BY <1>3
  <2>4. m.inFlight = Cardinality(McpOf(h2, s, {"first", "request"}))
    BY <1>3, <1>7, <1>11, <2>1, <2>2
  <2>5. m.openStreams = Cardinality(McpOf(h2, s, {"stream"}))
    BY <1>3, <1>7, <1>11, <2>1, <2>3
  <2> QED BY <1>2, <1>4, <1>6, <1>8, <1>11, <2>4, <2>5 DEF McpFine
<1> QED BY <1>9, <1>10, <1>11 DEF McpLess

\* The other sessions stay as they are.
LEMMA McpAllFine ==
  ASSUME NEW h, NEW q \in Requests, NEW d \in McpDoing, NEW h2, McpTurns(h, q, d, h2),
         NEW s \in Ids, h[q] = Free \/ h[q].session = s, d = Free \/ d.session = s,
         NEW t, NEW t2, McpTable(h, t), \A u \in Ids : u # s => t2[u] = t[u],
         McpFine(h2, s, t2[s])
  PROVE  McpTable(h2, t2)
<1> SUFFICES ASSUME NEW u \in Ids, u # s PROVE McpFine(h2, u, t2[u])
  BY DEF McpTable
<1>1. t2[u] = t[u] /\ McpFine(h, u, t[u])
  BY DEF McpTable
<1>2. (h[q] = Free \/ h[q].session # u) /\ (d = Free \/ d.session # u)
  OBVIOUS
<1> QED BY <1>1, <1>2, McpElsewhere

\* What a new session is.
LEMMA McpNewSession ==
  ASSUME McpSessionsAssumption, McpTyped, NEW c \in Clients, NEW kind \in {"http", "sse"},
         NEW m, m = Managed(kind, c) \/ m = [Managed(kind, c) EXCEPT !.state = "open", !.openStreams = 1]
  PROVE  /\ m \in McpManaged /\ m.client = c /\ m.inFlight = 0
         /\ m = Managed(kind, c) => m.state = "starting" /\ m.openStreams = 0
         /\ m # Managed(kind, c) => m.state = "open" /\ m.openStreams = 1
<1>1. version[c] \in Nat /\ time \in Nat
  BY McpConstants DEF McpTyped
<1>2. CASE m = Managed(kind, c)
  <2>1. m = [state |-> "starting", kind |-> kind, client |-> c, version |-> version[c],
             last |-> time, inFlight |-> 0, openStreams |-> 0, established |-> FALSE]
    BY <1>2 DEF Managed
  <2> QED BY <1>1, <1>2, <2>1 DEF McpManaged
<1>3. CASE m = [Managed(kind, c) EXCEPT !.state = "open", !.openStreams = 1]
  <2>1. m = [state |-> "open", kind |-> kind, client |-> c, version |-> version[c],
             last |-> time, inFlight |-> 0, openStreams |-> 1, established |-> FALSE]
    BY <1>3 DEF Managed
  <2>2. m # Managed(kind, c)
    BY <2>1 DEF Managed
  <2> QED BY <1>1, <2>1, <2>2 DEF McpManaged
<1> QED BY <1>2, <1>3

\* Room for one more session of a client.
LEMMA McpRoom ==
  ASSUME McpSessionsAssumption, McpTyped, NEW c \in Clients, NEW t2, ~TotalFull(t2), ~ClientFull(t2, c)
  PROVE  /\ Cardinality(OpenOf(t2, c)) + pending.by[c] < PerClient
         /\ Cardinality(Open(t2)) + pending.total < Total
<1>1. Cardinality(OpenOf(t2, c)) \in Nat /\ Cardinality(Open(t2)) \in Nat
  BY McpSets, McpFinite
<1>2. pending.by[c] \in Nat /\ pending.total \in Nat
  BY DEF McpTyped, McpPending
<1> QED BY <1>1, <1>2, McpConstants DEF TotalFull, ClientFull

\* reserveSessionSlot
LEMMA McpReserveKeeps ==
  ASSUME McpSessionsAssumption, McpInv, NEW q \in Requests, NEW c \in Clients, reserveSessionSlot(q, c)
  PROVE  McpInv'
<1>1. PICK s \in Ids, table \in reclaimCapacity(c) :
        /\ sessions[s] = NoSession
        /\ IF TotalFull(table) \/ ClientFull(table, c)
           THEN sessions' = table /\ UNCHANGED <<handled, pending>>
           ELSE /\ sessions' = [table EXCEPT ![s] = Managed("http", c)]
                /\ pending' = Reserved(c, 1)
                /\ handled' = [handled EXCEPT ![q] = Does("initialize", s)]
  BY DEF reserveSessionSlot
<1>2. handled[q] = Free /\ UNCHANGED <<version, time>> /\ McpTyped
  BY DEF reserveSessionSlot, McpInv
<1>3. McpRecycles(sessions, table)
  BY <1>2, McpReclaims
<1>4. /\ table \in [Ids -> McpEntries]
      /\ McpTable(handled, table)
      /\ McpLimits(table, pending)
  BY <1>3, McpRecyclesFine
<1>5. CASE TotalFull(table) \/ ClientFull(table, c)
  <2>1. sessions' = table /\ UNCHANGED <<handled, pending, version, time>>
    BY <1>1, <1>2, <1>5
  <2> QED BY <1>2, <1>4, <2>1 DEF McpInv, McpTyped
<1>6. CASE ~(TotalFull(table) \/ ClientFull(table, c))
  <2>1. PICK m : m = Managed("http", c)
    OBVIOUS
  <2>2. m \in McpManaged /\ m.state = "starting" /\ m.client = c /\ m.inFlight = 0 /\ m.openStreams = 0
    BY ZenonT(30), <1>2, <2>1, McpNewSession
  <2>3. /\ sessions' = [table EXCEPT ![s] = m]
        /\ pending' = McpGive(pending, c, 1)
        /\ handled' = [handled EXCEPT ![q] = Does("initialize", s)]
    BY <1>1, <1>6, <2>1 DEF Reserved, McpGive
  <2>4. table[s] = NoSession /\ table[s].state = "none"
    BY <1>1, <1>3 DEF McpRecycles, NoSession
  <2>5. pending \in McpPending /\ handled \in [Requests -> McpDoing]
    BY <1>2 DEF McpTyped
  <2>6. pending' \in McpPending /\ McpLimits(sessions', pending')
    <3>1. /\ Cardinality(OpenOf(table, c)) + pending.by[c] < PerClient
          /\ Cardinality(Open(table)) + pending.total < Total
      BY <1>2, <1>6, McpRoom
    <3>2. McpGive(pending, c, 1) \in McpPending /\ McpLimits([table EXCEPT ![s] = m], McpGive(pending, c, 1))
      BY <1>4, <2>2, <2>4, <2>5, <3>1, McpReserves
    <3> QED BY <2>3, <3>2
  <2>7. handled' \in [Requests -> McpDoing] /\ McpFine(handled', s, m)
    <3>1. "initialize" \in McpUsing \cup {"initialize"} /\ McpFine(handled, s, table[s])
      BY <1>4 DEF McpTable
    <3> QED BY <1>2, <2>2, <2>3, <2>4, <2>5, <3>1, McpBegins
  <2>8. McpTable(handled', sessions')
    <3>1. /\ Does("initialize", s) \in McpDoing /\ Does("initialize", s).session = s
      BY McpDoings
    <3>2. sessions'[s] = m /\ \A u \in Ids : u # s => sessions'[u] = table[u]
      BY <1>4, <2>3
    <3>3. McpFine(handled', s, sessions'[s])
      BY <2>7, <3>2
    <3>4. McpTurns(handled, q, Does("initialize", s), handled')
      BY <2>3, <2>5, <3>1, McpTurnsTo
    <3> QED BY <1>2, <1>4, <3>1, <3>2, <3>3, <3>4, McpAllFine
  <2>9. sessions' \in [Ids -> McpEntries]
    BY <1>4, <2>2, <2>3 DEF McpEntries
  <2> QED BY <1>2, <2>6, <2>7, <2>8, <2>9 DEF McpInv, McpTyped
<1> QED BY <1>5, <1>6

\* legacySession
LEMMA McpLegacyKeeps ==
  ASSUME McpSessionsAssumption, McpInv, NEW q \in Requests, NEW c \in Clients, legacySession(q, c)
  PROVE  McpInv'
<1>1. PICK s \in Ids, table \in reclaimCapacity(c) :
        /\ sessions[s] = NoSession
        /\ IF TotalFull(table) \/ ClientFull(table, c)
           THEN sessions' = table /\ UNCHANGED handled
           ELSE /\ sessions' = [table EXCEPT ![s] =
                     [Managed("sse", c) EXCEPT !.state = "open", !.openStreams = 1]]
                /\ handled' = [handled EXCEPT ![q] = Does("stream", s)]
  BY DEF legacySession
<1>2. handled[q] = Free /\ UNCHANGED <<pending, version, time>> /\ McpTyped
  BY DEF legacySession, McpInv
<1>3. McpRecycles(sessions, table)
  BY <1>2, McpReclaims
<1>4. /\ table \in [Ids -> McpEntries]
      /\ McpTable(handled, table)
      /\ McpLimits(table, pending)
  BY <1>3, McpRecyclesFine
<1>5. CASE TotalFull(table) \/ ClientFull(table, c)
  <2>1. sessions' = table /\ UNCHANGED <<handled, pending, version, time>>
    BY <1>1, <1>2, <1>5
  <2> QED BY <1>2, <1>4, <2>1 DEF McpInv, McpTyped
<1>6. CASE ~(TotalFull(table) \/ ClientFull(table, c))
  <2>1. PICK m : m = [Managed("sse", c) EXCEPT !.state = "open", !.openStreams = 1]
    OBVIOUS
  <2>2. m \in McpManaged /\ m.state = "open" /\ m.client = c /\ m.inFlight = 0 /\ m.openStreams = 1
    <3>1. m # Managed("sse", c)
      BY <2>1 DEF Managed
    <3> QED BY <1>2, <2>1, <3>1, McpNewSession
  <2>3. /\ sessions' = [table EXCEPT ![s] = m]
        /\ handled' = [handled EXCEPT ![q] = Does("stream", s)]
    BY <1>1, <1>6, <2>1
  <2>4. table[s] = NoSession /\ table[s].state = "none"
    BY <1>1, <1>3 DEF McpRecycles, NoSession
  <2>5. pending \in McpPending /\ handled \in [Requests -> McpDoing]
    BY <1>2 DEF McpTyped
  <2>6. McpLimits(sessions', pending')
    <3>1. /\ Cardinality(OpenOf(table, c)) + pending.by[c] < PerClient
          /\ Cardinality(Open(table)) + pending.total < Total
      BY <1>2, <1>6, McpRoom
    <3>3. McpLimits([table EXCEPT ![s] = m], pending)
      BY <1>4, <2>2, <2>4, <2>5, <3>1, McpOpens
    <3> QED BY <1>2, <2>3, <3>3
  <2>7. handled' \in [Requests -> McpDoing] /\ McpFine(handled', s, m)
    <3>1. "stream" \in McpUsing \cup {"initialize"} /\ McpFine(handled, s, table[s])
      BY <1>4 DEF McpTable, McpUsing
    <3> QED BY ZenonT(30), <1>2, <2>2, <2>3, <2>4, <2>5, <3>1, McpBegins
  <2>8. McpTable(handled', sessions')
    <3>1. /\ Does("stream", s) \in McpDoing /\ Does("stream", s).session = s
      <4>1. "stream" \in McpUsing \cup {"initialize"}
        BY DEF McpUsing
      <4> QED BY <4>1, McpDoings
    <3>2. sessions'[s] = m /\ \A u \in Ids : u # s => sessions'[u] = table[u]
      BY <1>4, <2>3
    <3>3. McpFine(handled', s, sessions'[s])
      BY <2>7, <3>2
    <3>4. McpTurns(handled, q, Does("stream", s), handled')
      BY <2>3, <2>5, <3>1, McpTurnsTo
    <3> QED BY <1>2, <1>4, <3>1, <3>2, <3>3, <3>4, McpAllFine
  <2>9. sessions' \in [Ids -> McpEntries]
    BY <1>4, <2>2, <2>3 DEF McpEntries
  <2> QED BY <1>2, <2>5, <2>6, <2>7, <2>8, <2>9 DEF McpInv, McpTyped
<1> QED BY <1>5, <1>6

\* A step that is about one session and one request.
LEMMA McpOneKeeps ==
  ASSUME McpInv, NEW q \in Requests, NEW s \in Ids, NEW d \in McpDoing, NEW m \in McpEntries,
         handled[q] = Free \/ handled[q].session = s, d = Free \/ d.session = s,
         McpPut(sessions, s, m, sessions'), McpPut(handled, q, d, handled'),
         McpFine(handled', s, m), pending' \in McpPending, McpLimits(sessions', pending'),
         UNCHANGED <<version, time>>
  PROVE  McpInv'
<1>1. sessions \in [Ids -> McpEntries] /\ handled \in [Requests -> McpDoing] /\ McpTable(handled, sessions)
  BY DEF McpInv, McpTyped
<1>2. McpTurns(handled, q, d, handled')
  BY <1>1, McpTurnsTo DEF McpPut
<1>3. sessions'[s] = m /\ \A u \in Ids : u # s => sessions'[u] = sessions[u]
  BY <1>1 DEF McpPut
<1>4. McpTable(handled', sessions')
  <2>1. McpFine(handled', s, sessions'[s])
    BY <1>3
  <2> QED BY <1>1, <1>2, <1>3, <2>1, McpAllFine
<1>5. sessions' \in [Ids -> McpEntries] /\ handled' \in [Requests -> McpDoing]
  <2>1. handled' \in [Requests -> McpDoing]
    BY <1>2 DEF McpTurns
  <2> QED BY <1>1, <2>1 DEF McpPut
<1>6. version' \in [Clients -> 1 .. MaxVersion] /\ time' \in 0 .. MaxTime
  BY DEF McpInv, McpTyped
<1> QED BY <1>4, <1>5, <1>6 DEF McpInv, McpTyped

\* What a request is about.
LEMMA McpAbout ==
  ASSUME McpInv, NEW q \in Requests, handled[q].does \in McpUsing \cup {"initialize"}
  PROVE  /\ handled[q] # Free /\ handled[q].session \in Ids
         /\ sessions[handled[q].session] \in McpEntries
         /\ McpFine(handled, handled[q].session, sessions[handled[q].session])
<1>1. handled[q] \in McpDoing
  BY DEF McpInv, McpTyped
<1>2. handled[q] # Free /\ handled[q].session \in Ids
  BY <1>1 DEF McpDoing, Free, McpUsing
<1> QED BY <1>2 DEF McpInv, McpTyped, McpTable

\* onsessioninitialized, and an initialisation that fails
LEMMA McpInitializedKeeps ==
  ASSUME McpSessionsAssumption, McpInv, NEW q \in Requests, onsessioninitialized(q) \/ initializeFails(q)
  PROVE  McpInv'
<1>1. PICK s : s = handled[q].session
  OBVIOUS
<1>2. handled[q].does = "initialize" /\ UNCHANGED <<version, time>>
  BY DEF onsessioninitialized, initializeFails
<1>3. s \in Ids /\ sessions[s] \in McpEntries /\ McpFine(handled, s, sessions[s]) /\ handled[q] # Free
  BY <1>1, <1>2, McpAbout
<1>4. PICK m0 : m0 = sessions[s]
  OBVIOUS
<1>5. handled \in [Requests -> McpDoing] /\ pending \in McpPending /\ sessions \in [Ids -> McpEntries]
      /\ McpLimits(sessions, pending) /\ time \in Nat
  BY McpConstants DEF McpInv, McpTyped
<1>6. PICK m, d :
        /\ sessions' = [sessions EXCEPT ![s] = m] /\ handled' = [handled EXCEPT ![q] = d]
        /\ pending' = McpGive(pending, m0.client, -1)
        /\ \/ m = [m0 EXCEPT !.last = time, !.state = "open", !.inFlight = 1] /\ d = Does("first", s)
           \/ m = Gone("closed") /\ d = Free
  <2>1. CASE onsessioninitialized(q)
    <3>1. /\ sessions' = [sessions EXCEPT ![s] = [Used(m0) EXCEPT !.state = "open", !.inFlight = 1]]
          /\ pending' = McpGive(pending, m0.client, -1)
          /\ handled' = [handled EXCEPT ![q] = Does("first", s)]
      BY <1>1, <1>3, <1>4, <1>5, <2>1 DEF onsessioninitialized, releaseReservation, Reserved, McpGive
    <3>2. [Used(m0) EXCEPT !.state = "open", !.inFlight = 1]
            = [m0 EXCEPT !.last = time, !.state = "open", !.inFlight = 1]
      BY DEF Used
    <3> QED BY <3>1, <3>2
  <2>2. CASE initializeFails(q)
    BY <1>1, <1>4, <2>2 DEF initializeFails, releaseReservation, Reserved, McpGive
  <2> QED BY <2>1, <2>2
<1>7. m0.state = "starting"
  <2>1. m0 \in McpEntries /\ McpFine(handled, s, m0)
    BY <1>3, <1>4
  <2>2. q \in McpOf(handled, s, {"initialize"}) /\ q \in McpOf(handled, s, McpUsing \cup {"initialize"})
    BY <1>1, <1>2 DEF McpOf
  <2> QED BY <2>1, <2>2, McpEntryKinds DEF McpFine
<1>8. /\ m0 \in McpManaged /\ m0.client \in Clients /\ m0.openStreams = 0
      /\ m0 = [state |-> m0.state, kind |-> m0.kind, client |-> m0.client, version |-> m0.version,
               last |-> m0.last, inFlight |-> m0.inFlight, openStreams |-> m0.openStreams,
               established |-> m0.established]
      /\ m0.kind \in {"http", "sse"} /\ m0.version \in Nat /\ m0.established \in BOOLEAN
  <2>1. m0 \in McpManaged /\ McpFine(handled, s, m0)
    BY <1>3, <1>4, <1>7, McpEntryKinds
  <2>2. m0.openStreams = 0
    BY <1>7, <2>1 DEF McpFine
  <2> QED BY <2>1, <2>2, McpMembers
<1>9. /\ m \in McpEntries /\ d \in McpDoing /\ (d = Free \/ d.session = s)
      /\ \/ m.state = "open" /\ m.client = m0.client /\ m.inFlight = 1 /\ m.openStreams = 0 /\ d = Does("first", s)
         \/ m.state = "closed" /\ d = Free
  <2>1. CASE m = [m0 EXCEPT !.last = time, !.state = "open", !.inFlight = 1] /\ d = Does("first", s)
    <3>1. m = [state |-> "open", kind |-> m0.kind, client |-> m0.client, version |-> m0.version,
               last |-> time, inFlight |-> 1, openStreams |-> m0.openStreams,
               established |-> m0.established]
      BY <1>8, <2>1
    <3>2. "first" \in McpUsing \cup {"initialize"}
      BY DEF McpUsing
    <3>3. d \in McpDoing /\ d.session = s
      BY <1>3, <2>1, <3>2, McpDoings
    <3>4. m \in McpEntries
      BY <1>5, <1>8, <3>1 DEF McpEntries, McpManaged
    <3> QED BY <1>8, <2>1, <3>1, <3>3, <3>4
  <2>2. CASE m = Gone("closed") /\ d = Free
    BY <2>2 DEF McpEntries, Gone, McpDoing
  <2> QED BY <1>6, <2>1, <2>2
<1>10. McpFine(handled', s, m)
  <2>1. handled[q].session = s /\ McpFine(handled, s, m0) /\ m0 \in McpEntries
    BY <1>1, <1>3, <1>4
  <2>2. \/ /\ m.state = "open" /\ m.inFlight = 1 /\ m.openStreams = 0
           /\ handled' = [handled EXCEPT ![q] = Does("first", s)]
        \/ m.state = "closed" /\ handled' = [handled EXCEPT ![q] = Free]
    BY <1>6, <1>9
  <2> QED BY <1>2, <1>3, <1>5, <2>1, <2>2, McpInitialized
<1>11. pending' \in McpPending /\ McpLimits(sessions', pending')
  <2>1. McpGive(pending, m0.client, -1) \in McpPending
        /\ McpLimits([sessions EXCEPT ![s] = m], McpGive(pending, m0.client, -1))
    <3>1. sessions[s].state = "starting" /\ sessions[s].client = m0.client
      BY <1>4, <1>7
    <3>2. m.state = "closed" \/ (m.state = "open" /\ m.client = m0.client)
      BY <1>9
    <3> QED BY <1>3, <1>5, <1>8, <3>1, <3>2, McpSettles
  <2> QED BY <1>6, <2>1
<1>12. /\ handled[q] = Free \/ handled[q].session = s
       /\ McpPut(sessions, s, m, sessions') /\ McpPut(handled, q, d, handled')
  BY <1>1, <1>6 DEF McpPut
<1> QED BY <1>2, <1>3, <1>9, <1>10, <1>11, <1>12, McpOneKeeps

\* A session that is in the table.
LEMMA McpOpened ==
  ASSUME McpSessionsAssumption, McpInv, NEW s \in Ids, NEW m0, m0 = sessions[s], m0.state = "open"
  PROVE  /\ m0 \in McpManaged /\ time \in Nat
         /\ m0.client \in Clients /\ m0.inFlight \in Nat /\ m0.openStreams \in Nat
         /\ m0.last \in Nat /\ m0.established \in BOOLEAN /\ m0.kind \in {"http", "sse"}
         /\ m0.version \in Nat
         /\ m0 = [state |-> m0.state, kind |-> m0.kind, client |-> m0.client, version |-> m0.version,
                  last |-> m0.last, inFlight |-> m0.inFlight, openStreams |-> m0.openStreams,
                  established |-> m0.established]
<1>1. m0 \in McpEntries /\ time \in Nat
  BY McpConstants DEF McpInv, McpTyped
<1>2. m0 \in McpManaged
  BY <1>1, McpEntryKinds
<1> QED BY <1>1, <1>2, McpMembers

\* A session that is touched, with other counts.
McpCounting(m0, i, o, e) ==
  [m0 EXCEPT !.last = time, !.inFlight = i, !.openStreams = o, !.established = e]

\* The session is used once more, or once less.
LEMMA McpUsed ==
  ASSUME McpSessionsAssumption, McpInv, NEW s \in Ids, NEW m0, m0 = sessions[s], m0.state = "open",
         NEW i \in Nat, NEW o \in Nat, NEW e \in BOOLEAN, NEW m, m = McpCounting(m0, i, o, e)
  PROVE  /\ m \in McpEntries /\ m.state = "open" /\ m.client = m0.client
         /\ m.inFlight = i /\ m.openStreams = o
<1>1. /\ m0 \in McpManaged /\ time \in Nat
      /\ m0.client \in Clients /\ m0.kind \in {"http", "sse"} /\ m0.version \in Nat
      /\ m0 = [state |-> m0.state, kind |-> m0.kind, client |-> m0.client, version |-> m0.version,
               last |-> m0.last, inFlight |-> m0.inFlight, openStreams |-> m0.openStreams,
               established |-> m0.established]
  BY McpOpened
<1>2. m = [state |-> "open", kind |-> m0.kind, client |-> m0.client, version |-> m0.version,
           last |-> time, inFlight |-> i, openStreams |-> o, established |-> e]
  BY <1>1 DEF McpCounting
<1>3. m \in McpManaged
  BY <1>1, <1>2 DEF McpManaged
<1> QED BY <1>2, <1>3 DEF McpEntries

\* withManagedRequest and withManagedStream
LEMMA McpBeginsKeeps ==
  ASSUME McpSessionsAssumption, McpInv, NEW q \in Requests, NEW c \in Clients, NEW s \in Ids,
         withManagedRequest(q, c, s) \/ withManagedStream(q, c, s)
  PROVE  McpInv'
<1>1. PICK m0 : m0 = sessions[s]
  OBVIOUS
<1>2. handled[q] = Free /\ UNCHANGED <<pending, version, time>> /\ m0.state = "open"
  BY <1>1 DEF withManagedRequest, withManagedStream, Open
<1>3. /\ m0.inFlight \in Nat /\ m0.openStreams \in Nat /\ m0.established \in BOOLEAN
      /\ m0 = [state |-> m0.state, kind |-> m0.kind, client |-> m0.client, version |-> m0.version,
               last |-> m0.last, inFlight |-> m0.inFlight, openStreams |-> m0.openStreams,
               established |-> m0.established]
      /\ m0 \in McpManaged
  BY <1>1, <1>2, McpOpened
<1>4. PICK kind, i, o, e, m :
        /\ kind \in {"request", "stream"} /\ i \in Nat /\ o \in Nat /\ e \in BOOLEAN
        /\ McpPut(sessions, s, m, sessions') /\ McpPut(handled, q, Does(kind, s), handled')
        /\ m = McpCounting(m0, i, o, e)
        /\ kind = "request" => i = m0.inFlight + 1 /\ o = m0.openStreams
        /\ kind = "stream" => i = m0.inFlight /\ o = m0.openStreams + 1
  <2>0. sessions \in [Ids -> McpEntries]
    BY DEF McpInv, McpTyped
  <2>1. CASE withManagedRequest(q, c, s)
    <3>1. PICK m : m = McpCounting(m0, m0.inFlight + 1, m0.openStreams, m0.established)
      OBVIOUS
    <3>2. PICK u : u = [Used(sessions[s]) EXCEPT !.inFlight = @ + 1]
      OBVIOUS
    <3>3. McpPut(sessions, s, m, sessions') /\ McpPut(handled, q, Does("request", s), handled')
      <4>1. McpPut(sessions, s, u, sessions') /\ McpPut(handled, q, Does("request", s), handled')
        <5>1. sessions' = [sessions EXCEPT ![s] =
                [Used(sessions[s]) EXCEPT !.inFlight = Used(sessions[s]).inFlight + 1]]
          BY <2>1 DEF withManagedRequest
        <5>2. u = [Used(sessions[s]) EXCEPT !.inFlight = Used(sessions[s]).inFlight + 1]
          BY <3>2
        <5>3. sessions' = [sessions EXCEPT ![s] = u]
          BY <5>1, <5>2, Zenon
        <5> QED BY <2>1, <5>3 DEF withManagedRequest, McpPut
      <4>2. u = m
        BY <1>1, <1>3, <3>1, <3>2 DEF Used, McpCounting
      <4> QED BY <4>1, <4>2
    <3>4. m0.inFlight + 1 \in Nat
      BY <1>3
    <3> QED BY <1>3, <3>1, <3>3, <3>4
  <2>2. CASE withManagedStream(q, c, s)
    <3>1. PICK m : m = McpCounting(m0, m0.inFlight, m0.openStreams + 1, TRUE)
      OBVIOUS
    <3>2. PICK u : u = [Used(sessions[s]) EXCEPT !.openStreams = @ + 1, !.established = TRUE]
      OBVIOUS
    <3>3. McpPut(sessions, s, m, sessions') /\ McpPut(handled, q, Does("stream", s), handled')
      <4>1. McpPut(sessions, s, u, sessions') /\ McpPut(handled, q, Does("stream", s), handled')
        <5>1. sessions' = [sessions EXCEPT ![s] =
                [Used(sessions[s]) EXCEPT !.openStreams = Used(sessions[s]).openStreams + 1,
                                          !.established = TRUE]]
          BY <2>2 DEF withManagedStream
        <5>2. u = [Used(sessions[s]) EXCEPT !.openStreams = Used(sessions[s]).openStreams + 1,
                                            !.established = TRUE]
          BY <3>2
        <5>3. sessions' = [sessions EXCEPT ![s] = u]
          BY <5>1, <5>2, Zenon
        <5> QED BY <2>2, <5>3 DEF withManagedStream, McpPut
      <4>2. u = m
        BY <1>1, <1>3, <3>1, <3>2 DEF Used, McpCounting
      <4> QED BY <4>1, <4>2
    <3>4. m0.openStreams + 1 \in Nat
      BY <1>3
    <3> QED BY <1>3, <3>1, <3>3, <3>4
  <2> QED BY <2>1, <2>2
<1>5. /\ m \in McpEntries /\ m.state = "open" /\ m.client = m0.client
      /\ m.inFlight = i /\ m.openStreams = o
  BY <1>1, <1>2, <1>4, McpUsed
<1>6. /\ handled \in [Requests -> McpDoing] /\ pending \in McpPending
      /\ sessions \in [Ids -> McpEntries] /\ McpLimits(sessions, pending)
      /\ McpFine(handled, s, m0)
  BY <1>1 DEF McpInv, McpTyped, McpTable
<1>7. kind \in McpUsing \cup {"initialize"}
  BY <1>4 DEF McpUsing
<1>8. McpFine(handled', s, m)
  <2>1. handled' = [handled EXCEPT ![q] = Does(kind, s)]
    BY <1>4 DEF McpPut
  <2>2. \/ /\ m0.state = "open" /\ kind = "request"
           /\ m.state = "open" /\ m.inFlight = m0.inFlight + 1 /\ m.openStreams = m0.openStreams
        \/ /\ m0.state = "open" /\ kind = "stream"
           /\ m.state = "open" /\ m.inFlight = m0.inFlight /\ m.openStreams = m0.openStreams + 1
    BY <1>2, <1>4, <1>5
  <2> QED BY <1>2, <1>6, <1>7, <2>1, <2>2, McpBegins
<1>9. McpLimits(sessions', pending')
  <2>1. McpLimits([sessions EXCEPT ![s] = m], pending)
    BY <1>1, <1>2, <1>5, <1>6, McpTouched
  <2> QED BY <1>2, <1>4, <2>1 DEF McpPut
<1>10. Does(kind, s) \in McpDoing /\ Does(kind, s).session = s
  BY <1>7, McpDoings
<1>11. pending' \in McpPending /\ UNCHANGED <<version, time>>
  BY <1>2, <1>6
<1> QED BY <1>2, <1>4, <1>5, <1>8, <1>9, <1>10, <1>11, McpOneKeeps

\* The end of a request, of a stream and of a legacy session.
LEMMA McpEndsKeeps ==
  ASSUME McpSessionsAssumption, McpInv, NEW q \in Requests,
         requestEnds(q) \/ streamEnds(q) \/ legacyCleanup(q)
  PROVE  McpInv'
<1>1. PICK s, m0, kind : s = handled[q].session /\ m0 = sessions[s] /\ kind = handled[q].does
  OBVIOUS
<1>2. kind \in McpUsing /\ UNCHANGED <<pending, version, time>>
  BY <1>1 DEF requestEnds, streamEnds, legacyCleanup, McpUsing
<1>3. s \in Ids /\ m0 \in McpEntries /\ McpFine(handled, s, m0) /\ handled[q] # Free
  BY <1>1, <1>2, McpAbout
<1>4. /\ handled \in [Requests -> McpDoing] /\ pending \in McpPending
      /\ sessions \in [Ids -> McpEntries] /\ McpLimits(sessions, pending)
  BY DEF McpInv, McpTyped
<1>5. /\ m0.state \in {"open", "closed"}
      /\ m0.state = "open" => IF kind = "stream" THEN m0.openStreams - 1 \in Nat ELSE m0.inFlight - 1 \in Nat
  <2>1. PICK h2, m : h2 = [handled EXCEPT ![q] = Free] /\ m = Gone("closed")
    OBVIOUS
  <2>2. /\ handled[q].does = kind /\ handled[q].session = s
        /\ McpLess(m0, m, kind) /\ McpPut(handled, q, Free, h2)
    BY <1>1, <2>1 DEF Gone, McpLess, McpPut
  <2> QED BY <1>2, <1>3, <1>4, <2>2, McpEnds
<1>6. PICK m \in McpEntries :
        /\ McpPut(sessions, s, m, sessions') /\ McpPut(handled, q, Free, handled')
        /\ \/ m.state = "closed" /\ m0.state = "open"
           \/ m0.state # "open" /\ m = m0
           \/ /\ m0.state = "open" /\ m.state = "open" /\ m.client = m0.client
              /\ m.inFlight = IF kind = "stream" THEN m0.inFlight ELSE m0.inFlight - 1
              /\ m.openStreams = IF kind = "stream" THEN m0.openStreams - 1 ELSE m0.openStreams
  <2>1. McpPut(handled, q, Free, handled')
    BY DEF requestEnds, streamEnds, legacyCleanup, McpPut
  <2>2. CASE legacyCleanup(q)
    <3>1. McpPut(sessions, s, Gone("closed"), sessions') /\ m0.state = "open"
      BY <1>1, <2>2 DEF legacyCleanup, McpPut
    <3>2. Gone("closed") \in McpEntries /\ Gone("closed").state = "closed"
      BY DEF McpEntries, Gone
    <3> QED BY <2>1, <3>1, <3>2
  <2>3. CASE (requestEnds(q) \/ streamEnds(q)) /\ m0.state # "open"
    <3>1. s \notin Open(sessions)
      BY <1>1, <2>3 DEF Open
    <3>2. sessions' = sessions
      BY <1>1, <2>3, <3>1 DEF requestEnds, streamEnds, Done
    <3>3. McpPut(sessions, s, m0, sessions')
      BY <1>1, <1>4, <3>2 DEF McpPut
    <3> QED BY <1>3, <2>1, <2>3, <3>3
  <2>4. CASE (requestEnds(q) \/ streamEnds(q)) /\ m0.state = "open"
    <3>1. s \in Open(sessions)
      BY <1>1, <1>3, <2>4 DEF Open
    <3>2. /\ m0.inFlight \in Nat /\ m0.openStreams \in Nat /\ m0.established \in BOOLEAN
          /\ m0 = [state |-> m0.state, kind |-> m0.kind, client |-> m0.client, version |-> m0.version,
                   last |-> m0.last, inFlight |-> m0.inFlight, openStreams |-> m0.openStreams,
                   established |-> m0.established]
      BY <1>1, <1>3, <2>4, McpOpened
    <3>3. CASE requestEnds(q)
      <4>1. kind # "stream" /\ m0.inFlight - 1 \in Nat
        BY <1>1, <1>5, <2>4, <3>3 DEF requestEnds
      <4>2. PICK e \in BOOLEAN : e = (m0.established \/ kind = "request")
        BY <3>2
      <4>3. PICK m : m = McpCounting(m0, m0.inFlight - 1, m0.openStreams, e)
        OBVIOUS
      <4>4. m = [Used(m0) EXCEPT !.inFlight = @ - 1, !.established = @ \/ kind = "request"]
        <5>1. Used(m0).established = m0.established /\ Used(m0).inFlight = m0.inFlight
          BY <3>2 DEF Used
        <5> QED BY <3>2, <4>2, <4>3, <5>1 DEF Used, McpCounting
      <4>5. McpPut(sessions, s, m, sessions')
        BY <1>1, <3>1, <3>3, <4>4 DEF requestEnds, Done, McpPut
      <4>6. m \in McpEntries /\ m.state = "open" /\ m.client = m0.client
            /\ m.inFlight = m0.inFlight - 1 /\ m.openStreams = m0.openStreams
        BY <1>1, <1>3, <2>4, <3>2, <4>1, <4>3, McpUsed
      <4> QED BY <2>1, <2>4, <4>1, <4>5, <4>6
    <3>4. CASE streamEnds(q)
      <4>1. kind = "stream" /\ m0.openStreams - 1 \in Nat
        BY <1>1, <1>5, <2>4, <3>4 DEF streamEnds
      <4>3. PICK m : m = McpCounting(m0, m0.inFlight, m0.openStreams - 1, m0.established)
        OBVIOUS
      <4>4. m = [Used(m0) EXCEPT !.openStreams = @ - 1]
        BY <3>2, <4>3 DEF Used, McpCounting
      <4>5. McpPut(sessions, s, m, sessions')
        BY <1>1, <3>1, <3>4, <4>4 DEF streamEnds, Done, McpPut
      <4>6. m \in McpEntries /\ m.state = "open" /\ m.client = m0.client
            /\ m.inFlight = m0.inFlight /\ m.openStreams = m0.openStreams - 1
        BY <1>1, <1>3, <2>4, <3>2, <4>1, <4>3, McpUsed
      <4> QED BY <2>1, <2>4, <4>1, <4>5, <4>6
    <3> QED BY <2>4, <3>3, <3>4
  <2> QED BY <2>2, <2>3, <2>4
<1>7. McpFine(handled', s, m)
  <2>1. McpPut(handled, q, Free, handled') /\ handled[q].does = kind /\ handled[q].session = s
    BY <1>1, <1>6
  <2>2. McpLess(m0, m, kind)
    BY <1>6 DEF McpLess
  <2> QED BY <1>2, <1>3, <1>4, <2>1, <2>2, McpEnds
<1>8. McpLimits(sessions', pending')
  <2>1. CASE m0.state = "open" /\ m.state = "open"
    <3>1. m.client = m0.client
      BY <1>6, <2>1
    <3>2. McpLimits([sessions EXCEPT ![s] = m], pending)
      BY <1>1, <1>3, <1>4, <2>1, <3>1, McpTouched
    <3> QED BY <1>2, <1>6, <3>2 DEF McpPut
  <2>2. CASE m = m0
    <3>1. sessions' = sessions
      BY <1>1, <1>4, <1>6, <2>2 DEF McpPut
    <3> QED BY <1>2, <1>4, <3>1
  <2>3. CASE m.state = "closed" /\ m0.state = "open"
    <3>1. \A u \in Ids : \/ sessions'[u] = sessions[u]
                         \/ sessions[u].state = "open" /\ sessions'[u].state \notin {"starting", "open"}
      BY <1>1, <1>4, <1>6, <2>3 DEF McpPut
    <3>2. McpLimits(sessions', pending)
      BY <1>4, <3>1, McpFewer
    <3> QED BY <1>2, <3>2
  <2> QED BY <1>6, <2>1, <2>2, <2>3
<1>9. Free \in McpDoing /\ handled[q].session = s /\ pending' \in McpPending /\ UNCHANGED <<version, time>>
  BY <1>1, <1>2, <1>4 DEF McpDoing
<1> QED BY <1>3, <1>6, <1>7, <1>8, <1>9, McpOneKeeps

\* A session that is open may be closed while it is in use.
LEMMA McpCloseKeeps ==
  ASSUME McpSessionsAssumption, McpInv, NEW s \in Ids, closeManagedTransport(s)
  PROVE  McpInv'
<1>1. /\ sessions[s].state = "open" /\ McpPut(sessions, s, Gone("closed"), sessions')
      /\ UNCHANGED <<handled, pending, version, time>>
  BY DEF closeManagedTransport, Open, McpPut
<1>2. /\ sessions \in [Ids -> McpEntries] /\ McpTable(handled, sessions)
      /\ McpLimits(sessions, pending) /\ pending \in McpPending
  BY DEF McpInv, McpTyped
<1>3. /\ sessions' \in [Ids -> McpEntries]
      /\ sessions'[s] = Gone("closed") /\ \A u \in Ids : u # s => sessions'[u] = sessions[u]
  BY <1>1, <1>2 DEF McpPut, McpEntries
<1>4. McpTable(handled, sessions')
  <2>1. McpFine(handled, s, sessions[s])
    BY <1>2 DEF McpTable
  <2>2. McpFine(handled, s, Gone("closed"))
    BY <1>1, <2>1 DEF McpFine, Gone
  <2>3. ASSUME NEW u \in Ids PROVE McpFine(handled, u, sessions'[u])
    BY <1>2, <1>3, <2>2 DEF McpTable
  <2> QED BY <2>3 DEF McpTable
<1>5. McpLimits(sessions', pending)
  <2>1. \A u \in Ids : \/ sessions'[u] = sessions[u]
                       \/ sessions[u].state = "open" /\ sessions'[u].state \notin {"starting", "open"}
    BY <1>1, <1>3 DEF Gone
  <2> QED BY <1>2, <2>1, McpFewer
<1> QED BY <1>1, <1>3, <1>4, <1>5 DEF McpInv, McpTyped

\* Sessions that are idle are not in use: the sweep recycles them.
LEMMA McpSweepKeeps ==
  ASSUME McpSessionsAssumption, McpInv, sweepIdleMcpSessions
  PROVE  McpInv'
<1>1. PICK idle :
        /\ \A u \in idle : u \in Ids /\ sessions[u].state = "open"
                           /\ sessions[u].inFlight = 0 /\ sessions[u].openStreams = 0
        /\ sessions' = [s \in Ids |-> IF s \in idle THEN Gone("recycled") ELSE sessions[s]]
        /\ UNCHANGED <<handled, pending, version, time>>
  BY DEF sweepIdleMcpSessions, Open
<1>2. sessions \in [Ids -> McpEntries]
  BY DEF McpInv, McpTyped
<1>3. McpRecycles(sessions, sessions')
  BY <1>1, <1>2 DEF McpRecycles, McpEntries
<1>4. /\ sessions' \in [Ids -> McpEntries]
      /\ McpTable(handled, sessions') /\ McpLimits(sessions', pending)
  BY <1>3, McpRecyclesFine
<1> QED BY <1>1, <1>4 DEF McpInv, McpTyped

\* Time passes, credentials change, or nothing happens.
LEMMA McpClockKeeps ==
  ASSUME McpSessionsAssumption, McpInv,
         tick \/ (\E c \in Clients : credentialsChange(c)) \/ UNCHANGED mcpVars
  PROVE  McpInv'
<1>1. UNCHANGED <<sessions, handled, pending>>
  BY DEF tick, credentialsChange, mcpVars
<1>2. version' \in [Clients -> 1 .. MaxVersion] /\ time' \in 0 .. MaxTime
  <2>1. version \in [Clients -> 1 .. MaxVersion] /\ time \in 0 .. MaxTime
    BY DEF McpInv, McpTyped
  <2>2. CASE tick
    BY <2>1, <2>2, McpConstants DEF tick
  <2>3. ASSUME NEW c \in Clients, credentialsChange(c)
        PROVE  version' \in [Clients -> 1 .. MaxVersion] /\ time' \in 0 .. MaxTime
    <3>1. version[c] + 1 \in 1 .. MaxVersion
      BY <2>1, <2>3, McpConstants DEF credentialsChange
    <3> QED BY <2>1, <2>3, <3>1 DEF credentialsChange
  <2>4. CASE UNCHANGED mcpVars
    BY <2>1, <2>4 DEF mcpVars
  <2> QED BY <2>2, <2>3, <2>4
<1> QED BY <1>1, <1>2 DEF McpInv, McpTyped

\* The table begins empty.
LEMMA McpInitial ==
  ASSUME McpSessionsAssumption, Init
  PROVE  McpInv
<1>1. McpTyped
  <2>1. 0 \in Nat /\ 1 \in 1 .. MaxVersion /\ 0 \in 0 .. MaxTime
    BY McpConstants
  <2> QED BY <2>1 DEF Init, McpTyped, McpEntries, McpDoing, McpPending
<1>2. \A s \in Ids : McpFine(handled, s, sessions[s])
  BY DEF Init, McpFine, McpOf, McpUsing, Free, NoSession
<1>3. /\ \A c \in Clients : McpStartingOf(sessions, c) = {} /\ OpenOf(sessions, c) = {}
      /\ McpStarting(sessions) = {} /\ Open(sessions) = {}
  BY DEF Init, McpStartingOf, McpStarting, OpenOf, Open, NoSession
<1>4. Cardinality({}) = 0
  BY FS_EmptySet
<1>5. \A c \in Clients : pending.by[c] = 0
  BY DEF Init
<1>6. pending.total = 0
  BY DEF Init
<1>7. \A c \in Clients : OpenOf(sessions, c) \cup McpStartingOf(sessions, c) = {}
  BY <1>3
<1>8. McpLimits(sessions, pending)
  BY <1>3, <1>4, <1>5, <1>6, <1>7, McpConstants DEF McpLimits
<1> QED BY <1>1, <1>2, <1>8 DEF McpInv, McpTable

\* Every step keeps the invariant.
LEMMA McpStep ==
  ASSUME McpSessionsAssumption, McpInv, Next
  PROVE  McpInv'
<1>1. ASSUME NEW q \in Requests, NEW c \in Clients, reserveSessionSlot(q, c) \/ legacySession(q, c)
      PROVE  McpInv'
  BY <1>1, McpReserveKeeps, McpLegacyKeeps
<1>2. ASSUME NEW q \in Requests, NEW c \in Clients, NEW s \in Ids,
             withManagedRequest(q, c, s) \/ withManagedStream(q, c, s)
      PROVE  McpInv'
  BY <1>2, McpBeginsKeeps
<1>3. ASSUME NEW q \in Requests, onsessioninitialized(q) \/ initializeFails(q)
      PROVE  McpInv'
  BY <1>3, McpInitializedKeeps
<1>4. ASSUME NEW q \in Requests, requestEnds(q) \/ streamEnds(q) \/ legacyCleanup(q)
      PROVE  McpInv'
  BY <1>4, McpEndsKeeps
<1>5. ASSUME NEW s \in Ids, closeManagedTransport(s)
      PROVE  McpInv'
  BY <1>5, McpCloseKeeps
<1>6. CASE sweepIdleMcpSessions
  BY <1>6, McpSweepKeeps
<1>7. CASE tick \/ \E c \in Clients : credentialsChange(c)
  BY <1>7, McpClockKeeps
<1> QED BY <1>1, <1>2, <1>3, <1>4, <1>5, <1>6, <1>7 DEF Next

\* The invariant implies the properties.
LEMMA McpContained ==
  ASSUME McpSessionsAssumption, McpInv
  PROVE  TypeOK /\ WithinLimits /\ BusyNeverReclaimed
<1>1. TypeOK
  <2>1. ASSUME NEW s \in Ids
        PROVE  sessions[s].state \in {"none", "starting", "open", "closed", "recycled"}
    <3>1. sessions[s] \in McpEntries
      BY DEF McpInv, McpTyped
    <3> QED BY <3>1, McpEntryKinds
  <2>2. ASSUME NEW q \in Requests
        PROVE  handled[q].does \in {"nothing", "initialize", "first", "request", "stream"}
    <3>1. handled[q] \in McpDoing
      BY DEF McpInv, McpTyped
    <3> QED BY <3>1 DEF McpDoing, McpUsing, Free
  <2>3. pending.total \in Nat /\ pending.by \in [Clients -> Nat]
    BY DEF McpInv, McpTyped, McpPending
  <2> QED BY <2>1, <2>2, <2>3 DEF TypeOK, McpInv, McpTyped
<1>2. WithinLimits
  <2>1. McpLimits(sessions, pending) /\ sessions \in [Ids -> McpEntries]
    BY DEF McpInv, McpTyped
  <2>2. \A c \in Clients : Starting(c) = McpStartingOf(sessions, c)
    BY DEF Starting, McpStartingOf
  <2>3. UNION {Starting(c) : c \in Clients} = McpStarting(sessions)
    <3>1. ASSUME NEW s \in Ids, sessions[s].state = "starting"
          PROVE  sessions[s].client \in Clients
      <4>1. sessions[s] \in McpManaged
        BY <2>1, <3>1, McpEntryKinds
      <4> QED BY <4>1, McpMembers
    <3> QED BY <3>1 DEF Starting, McpStarting
  <2> QED BY <2>1, <2>2, <2>3 DEF WithinLimits, McpLimits
<1>3. BusyNeverReclaimed
  <2> SUFFICES ASSUME NEW s \in Ids, sessions[s].state = "recycled"
               PROVE  On(s) = {}
    BY DEF BusyNeverReclaimed
  <2>1. McpOf(handled, s, McpUsing) = {}
    BY DEF McpInv, McpTable, McpFine
  <2> QED BY <2>1 DEF On, McpOf, McpUsing
<1> QED BY <1>1, <1>2, <1>3

\* "Initializations reserve a slot before asynchronous MCP setup", so the table and the
\* reservations stay within both limits, and "active requests and open streams are
\* never reclaimed" (docs/operations/getting-started.md:110), whatever overlaps.
THEOREM McpHolds ==
  ASSUME McpSessionsAssumption
  PROVE  McpSessionsSpec => [](TypeOK /\ WithinLimits /\ BusyNeverReclaimed)
<1>1. Init => McpInv
  BY McpInitial
<1>2. McpInv /\ [Next]_mcpVars => McpInv'
  BY McpStep, McpClockKeeps
<1>3. McpInv => TypeOK /\ WithinLimits /\ BusyNeverReclaimed
  BY McpContained
<1> QED BY <1>1, <1>2, <1>3, PTL DEF McpSessionsSpec

=============================================================================
