---------------------------- MODULE ServicesProofs ----------------------------
(***************************************************************************)
(* Invariants of the services beside the agents, for any number of their   *)
(* requests, supervisors, attempts, sessions, callers and jobs.            *)
(*                                                                         *)
(* A behaviour is one part's alone, so each part has an invariant of its   *)
(* own that no step of another part touches.  That of the wake says what   *)
(* every attempt to wake the worker was decided on, that of the waiting    *)
(* calls that whoever has looked since the last announcement has seen what *)
(* it announced; the MCP sessions and the jobs are proved in their modules.*)
(***************************************************************************)
EXTENDS MCServices, FiniteSetTheorems, SequenceTheorems, WellFoundedInduction, TLAPS

-----------------------------------------------------------------------------
(* The wake of the gateway worker (GatewayWake). *)

\* The bounds.
LEMMA WakeAssumed ==
  /\ MaxRequests \in Nat \ {0} /\ MaxExchanges \in Nat \ {0}
  /\ MaxSupervisors \in Nat \ {0} /\ MaxAttempts \in Nat \ {0} /\ MaxLapses \in Nat
BY PartsAssumption DEF Wake!WakeAssumption

\* The types of the supervisors, of the attempts and of the gateway.
Places == {"none", "timer", "grace", "driver", "outcome", "ended"}

SupervisorRecord ==
  [at : Places, stopped : BOOLEAN, failed : 0 .. 1, seen : BOOLEAN, exchange : 0 .. MaxExchanges,
   head : 0 .. MaxRequests, created : 0 .. MaxRequests, reconnect : BOOLEAN, attempt : 0 .. MaxAttempts]

ReasonRecord ==
  [by : 1 .. MaxSupervisors, exchange : 0 .. MaxExchanges, created : 0 .. MaxRequests,
   head : 0 .. MaxRequests, late : BOOLEAN]

GatewayRecord ==
  [queue : SUBSET (1 .. MaxRequests), created : 0 .. MaxRequests, claim : 0 .. MaxRequests,
   exchange : 0 .. MaxExchanges, recent : BOOLEAN, idle : BOOLEAN, polling : BOOLEAN,
   released : BOOLEAN]

GatewayTyped(g) ==
  g \in GatewayRecord /\ g.queue \subseteq 1 .. g.created /\ g.claim \in 0 .. g.created

\* The types.
WakeTyped ==
  /\ GatewayTyped(gateway)
  /\ approval \in BOOLEAN /\ admission \in BOOLEAN /\ current \in 0 .. MaxSupervisors
  /\ supervisors \in [1 .. MaxSupervisors -> SupervisorRecord]
  /\ tabs \in [1 .. MaxAttempts -> {"none", "open", "sent", "closed"}]
  /\ nonces \in [1 .. MaxAttempts -> {"none", "pending", "confirmed"}]
  /\ attempts \in Seq(ReasonRecord) /\ Len(attempts) <= MaxAttempts
  /\ Wake!Cardinality(lapses) <= MaxLapses

\* The status of the gateway was once what an attempt was decided on: while the
\* worker is not heard, nothing is claimed, and no request comes before its head.
Observed(a) ==
  /\ a.exchange <= gateway.exchange /\ a.created <= gateway.created /\ a.head <= a.created
  /\ gateway.exchange = a.exchange =>
       /\ gateway.claim = 0
       /\ a.head \in gateway.queue => \A q \in gateway.queue : a.head <= q
       /\ a.head = 0 /\ gateway.created = a.created => gateway.queue = {}

\* What an attempt was decided on is no longer so, and does not come back.
Past(a) ==
  \/ gateway.exchange > a.exchange
  \/ gateway.released
  \/ a.head # 0 /\ a.head \notin gateway.queue
  \/ a.head = 0 /\ gateway.created > a.created

\* Two attempts on the same request of the same time.
SameReason(a, b) == a.exchange = b.exchange /\ a.created = b.created /\ a.head = b.head

\* A supervisor held back by an attempt, or a look, that failed over what it observes.
Caused(id, s) ==
  \E cause \in lapses \union {attempts[i] : i \in DOMAIN attempts} :
    /\ cause.by = id /\ cause.exchange = s.exchange
    /\ s.head \in {0, cause.head}

\* How a supervisor stands to the attempts that it has made.
Watching(id, s) ==
  /\ s.exchange <= gateway.exchange
  /\ s.at \in {"grace", "driver", "outcome"} => s.failed = 0
  /\ s.at \in {"driver", "outcome"} => s.reconnect \/ s.head # 0
  /\ s.at = "driver" =>
       /\ Observed(s)
       /\ \A i \in DOMAIN attempts : attempts[i].by = id => ~SameReason(attempts[i], s)
  /\ s.at = "outcome" =>
       /\ s.attempt \in DOMAIN attempts
       /\ attempts[s.attempt].by = id /\ SameReason(attempts[s.attempt], s)
  /\ \A i \in DOMAIN attempts : attempts[i].by = id =>
       \/ Past(attempts[i])
       \/ s.at = "outcome" /\ i = s.attempt
       \/ s.failed = 1 /\ attempts[i].exchange = s.exchange /\ attempts[i].head = s.head
  /\ s.failed = 1 => Caused(id, s)
  /\ \A i \in DOMAIN attempts : attempts[i].by = id /\ attempts[i].late =>
       s.stopped /\ s.at \in {"outcome", "ended"}

\* The attempts: none is made twice, and no supervisor makes two after it was closed.
AttemptsAre ==
  /\ \A i \in DOMAIN attempts : Observed(attempts[i])
  /\ Wake!OncePerReason
  /\ \A i, j \in DOMAIN attempts :
       attempts[i].late /\ attempts[j].late /\ attempts[i].by = attempts[j].by => i = j

\* The tabs: none is open before its attempt, and a confirmed one was heard from.
TabsAre ==
  /\ \A n \in 1 .. MaxAttempts : n > Len(attempts) => tabs[n] = "none" /\ nonces[n] = "none"
  /\ Wake!ConfirmedByContact

\* The inductive invariant of the wake.
WakeInv ==
  /\ WakeTyped /\ AttemptsAre /\ TabsAre
  /\ \A id \in 1 .. MaxSupervisors : Watching(id, supervisors[id])

\* By the well-foundedness of strict inclusion: the least number of a set is the one
\* with the smallest interval below it.
LEMMA LowestIs ==
  ASSUME NEW ids \in SUBSET Nat, ids # {}
  PROVE  Wake!Lowest(ids) \in ids /\ \A j \in ids : Wake!Lowest(ids) <= j
<1> DEFINE R == StrictSubsetOrdering(Nat)
<1> DEFINE T == {0 .. i : i \in ids}
<1>1. IsWellFoundedOn(R, FiniteSubsetsOf(Nat))
  BY FS_StrictSubsetOrderingWellFounded
<1>2. \A i \in ids : 0 .. i \in FiniteSubsetsOf(Nat)
  <2>1. ASSUME NEW i \in ids  PROVE IsFiniteSet(0 .. i) /\ 0 .. i \in SUBSET Nat
    BY FS_Interval, i \in Int, 0 \in Int
  <2> QED BY <2>1 DEF FiniteSubsetsOf
<1>3. T \subseteq FiniteSubsetsOf(Nat) /\ T # {}
  BY <1>2
<1>4. \E t \in T : \A v \in T : <<v, t>> \notin R
  <2> HIDE DEF R, T
  <2> QED BY <1>1, <1>3, WFMin
<1>5. PICK i \in ids : \A v \in T : <<v, 0 .. i>> \notin R
  BY <1>4
<1>6. ASSUME NEW j \in ids  PROVE i <= j
  <2>1. <<0 .. j, 0 .. i>> \notin R
    BY <1>5
  <2>2. SUFFICES ASSUME j < i PROVE FALSE
    BY i \in Nat, j \in Nat
  <2>3. 0 .. j \subseteq 0 .. i /\ i \in 0 .. i /\ i \notin 0 .. j
    BY <2>2, i \in Nat, j \in Nat
  <2>4. 0 .. j \in SUBSET Nat /\ 0 .. i \in SUBSET Nat /\ 0 .. j # 0 .. i
    BY <2>3, i \in Nat, j \in Nat
  <2> QED BY <2>1, <2>3, <2>4 DEF StrictSubsetOrdering
<1> QED BY <1>6 DEF Wake!Lowest

\* The head of the queue.
LEMMA OldestIs ==
  ASSUME WakeTyped
  PROVE  /\ gateway.queue = {} => Wake!Oldest = 0
         /\ gateway.queue # {} => /\ Wake!Oldest \in gateway.queue /\ Wake!Oldest # 0
                                  /\ \A q \in gateway.queue : Wake!Oldest <= q
         /\ Wake!Oldest \in 0 .. gateway.created /\ Wake!Oldest \in 0 .. MaxRequests
<1>1. /\ gateway.queue \in SUBSET Nat /\ gateway.queue \subseteq 1 .. gateway.created
      /\ gateway.created \in 0 .. MaxRequests /\ MaxRequests \in Nat
  BY WakeAssumed DEF WakeTyped, GatewayTyped, GatewayRecord
<1>2. CASE gateway.queue = {}
  BY <1>1, <1>2 DEF Wake!Oldest, Wake!NoHead
<1>3. CASE gateway.queue # {}
  <2>1. Wake!Oldest = Wake!Lowest(gateway.queue)
    BY <1>3 DEF Wake!Oldest
  <2>2. Wake!Oldest \in gateway.queue /\ \A q \in gateway.queue : Wake!Oldest <= q
    BY <1>1, <1>3, <2>1, LowestIs
  <2> QED BY <1>1, <1>3, <2>2
<1> QED BY <1>2, <1>3

-----------------------------------------------------------------------------
\* What the gateway's own steps do: a claim comes only with an exchange, and a
\* request that was neither waiting nor claimed is new.
GatewayMoves ==
  /\ GatewayTyped(gateway')
  /\ gateway'.exchange >= gateway.exchange /\ gateway'.created >= gateway.created
  /\ gateway.released => gateway'.released
  /\ gateway'.exchange = gateway.exchange /\ gateway.claim = 0 =>
       /\ gateway'.claim = 0
       /\ \A r \in gateway'.queue : r \in gateway.queue \/ r > gateway.created
  /\ UNCHANGED <<approval, admission, current, supervisors, tabs, nonces, attempts, lapses>>

\* What an attempt was decided on stays observed, and past once it is past.
LEMMA ObservedStays ==
  ASSUME WakeTyped, GatewayMoves, NEW a, a.exchange \in Nat, a.created \in Nat, a.head \in Nat,
         Observed(a)
  PROVE  Observed(a)' /\ (Past(a) => Past(a)')
<1>1. /\ gateway.exchange \in Nat /\ gateway'.exchange \in Nat
      /\ gateway.created \in Nat /\ gateway'.created \in Nat
      /\ gateway.queue \in SUBSET Nat /\ gateway'.queue \in SUBSET Nat
      /\ gateway'.queue \subseteq 1 .. gateway'.created
  BY WakeAssumed DEF WakeTyped, GatewayMoves, GatewayTyped, GatewayRecord
<1>2. PICK b : b = a
  OBVIOUS
<1>3. b.exchange \in Nat /\ b.created \in Nat /\ b.head \in Nat /\ Observed(b)
  BY <1>2
<1>4. CASE gateway'.exchange = b.exchange
  <2>1. gateway'.exchange = gateway.exchange /\ gateway.claim = 0 /\ gateway'.claim = 0
        /\ \A r \in gateway'.queue : r \in gateway.queue \/ r > gateway.created
    BY <1>1, <1>3, <1>4 DEF Observed, GatewayMoves
  <2>2. b.exchange <= gateway'.exchange /\ b.created <= gateway'.created /\ b.head <= b.created
        /\ b.head <= gateway.created
    BY <1>1, <1>3, <1>4 DEF Observed, GatewayMoves
  <2>3. ASSUME b.head \in gateway'.queue  PROVE \A q \in gateway'.queue : b.head <= q
    <3>1. b.head \in gateway.queue
      BY <1>1, <1>3, <2>1, <2>2, <2>3
    <3>2. \A q \in gateway.queue : b.head <= q
      BY <1>3, <1>4, <2>1, <3>1 DEF Observed
    <3> QED BY <1>1, <1>3, <2>1, <2>2, <3>2
  <2>4. ASSUME b.head = 0, gateway'.created = b.created  PROVE gateway'.queue = {}
    <3>1. gateway.created = b.created
      BY <1>1, <1>3, <2>4 DEF Observed, GatewayMoves
    <3>2. gateway.queue = {}
      BY <1>3, <1>4, <2>1, <2>4, <3>1 DEF Observed
    <3> QED BY <1>1, <2>1, <2>4, <3>1, <3>2
  <2>5. Observed(b)'
    BY <2>1, <2>2, <2>3, <2>4 DEF Observed
  <2>6. ASSUME Past(b)  PROVE Past(b)'
    <3>1. b.head # 0 /\ b.head \notin gateway.queue => b.head \notin gateway'.queue
      BY <1>1, <1>3, <2>1, <2>2
    <3> QED BY <1>1, <1>3, <2>1, <2>6, <3>1 DEF Past, GatewayMoves
  <2> QED BY <1>2, <2>5, <2>6
<1>5. CASE gateway'.exchange # b.exchange
  <2>1. gateway'.exchange > b.exchange /\ b.created <= gateway'.created /\ b.head <= b.created
    BY <1>1, <1>3, <1>5 DEF Observed, GatewayMoves
  <2>2. Observed(b)' /\ Past(b)'
    BY <1>1, <1>3, <1>5, <2>1 DEF Observed, Past
  <2> QED BY <1>2, <2>2
<1> QED BY <1>4, <1>5

\* The fields of an attempt.
LEMMA AttemptTyped ==
  ASSUME WakeTyped, NEW i \in DOMAIN attempts
  PROVE  /\ attempts[i] \in ReasonRecord /\ attempts[i].exchange \in Nat
         /\ attempts[i].created \in Nat /\ attempts[i].head \in Nat
<1>1. attempts \in Seq(ReasonRecord)
  BY DEF WakeTyped
<1>2. attempts[i] \in ReasonRecord
  BY <1>1
<1> QED BY <1>2, WakeAssumed DEF ReasonRecord

\* The fields of a supervisor.
LEMMA SupervisorTyped ==
  ASSUME WakeTyped, NEW id \in 1 .. MaxSupervisors
  PROVE  /\ supervisors[id] \in SupervisorRecord /\ supervisors[id].exchange \in Nat
         /\ supervisors[id].created \in Nat /\ supervisors[id].head \in Nat
BY SMTT(30), WakeAssumed DEF WakeTyped, SupervisorRecord

\* The gateway's own steps keep the invariant.
LEMMA GatewayKeeps ==
  ASSUME WakeInv, GatewayMoves
  PROVE  WakeInv'
<1>1. PICK all : all = attempts
  OBVIOUS
<1>2. attempts = all /\ attempts' = all
      /\ UNCHANGED <<approval, admission, current, supervisors, tabs, nonces, lapses>>
  BY <1>1 DEF GatewayMoves
<1>3. WakeTyped' /\ gateway.exchange \in Nat /\ gateway'.exchange \in Nat /\ gateway'.exchange >= gateway.exchange
  BY WakeAssumed DEF WakeInv, WakeTyped, GatewayMoves, GatewayTyped, GatewayRecord
<1>4. ASSUME NEW i \in DOMAIN all
      PROVE  Observed(all[i])' /\ (Past(all[i]) => Past(all[i])')
  <2>1. PICK a : a = all[i]
    OBVIOUS
  <2>2. a.exchange \in Nat /\ a.created \in Nat /\ a.head \in Nat /\ Observed(a)
    BY <1>1, <2>1, AttemptTyped DEF WakeInv, AttemptsAre
  <2>3. Observed(a)' /\ (Past(a) => Past(a)')
    BY <2>2, ObservedStays DEF WakeInv
  <2> QED BY <2>1, <2>3
<1>5. AttemptsAre'
  <2>1. \A i \in DOMAIN attempts' : Observed(attempts[i])'
    BY <1>2, <1>4 DEF Observed
  <2> QED BY <1>2, <2>1 DEF WakeInv, AttemptsAre, Wake!OncePerReason
<1>6. TabsAre'
  <2>1. ASSUME NEW n \in 1 .. MaxAttempts, nonces[n] = "confirmed" \/ tabs[n] = "closed"
        PROVE  gateway'.exchange > all[n].exchange
    <3>1. gateway.exchange > all[n].exchange
      BY <1>1, <2>1 DEF WakeInv, TabsAre, Wake!ConfirmedByContact, Wake!Attempts
    <3>2. n \in DOMAIN all
      BY <1>1, <2>1 DEF WakeInv, TabsAre, WakeTyped
    <3>3. all[n].exchange \in Nat
      BY <1>1, <3>2, AttemptTyped DEF WakeInv
    <3> QED BY <1>3, <3>1, <3>3
  <2> QED BY <1>2, <2>1 DEF WakeInv, TabsAre, Wake!ConfirmedByContact, Wake!Attempts
<1>7. ASSUME NEW id \in 1 .. MaxSupervisors
      PROVE  Watching(id, supervisors[id])'
  <2>1. PICK s : s = supervisors[id]
    OBVIOUS
  <2>2. Watching(id, s) /\ s.exchange \in Nat /\ s.created \in Nat /\ s.head \in Nat
    BY <2>1, SupervisorTyped DEF WakeInv
  <2>3. Observed(s) => Observed(s)'
    BY <2>2, ObservedStays DEF WakeInv
  <2>4. s.exchange <= gateway'.exchange
    BY <1>3, <2>2 DEF Watching
  <2>5. \A i \in DOMAIN all : Past(all[i]) => Past(all[i])'
    BY <1>4
  <2>6. Watching(id, s)'
    BY <1>2, <2>2, <2>3, <2>4, <2>5 DEF Watching, SameReason, Past, Caused
  <2>7. supervisors'[id] = s
    BY <1>2, <2>1
  <2> QED BY <2>6, <2>7 DEF Watching, SameReason, Observed, Past, Caused
<1> QED BY <1>2, <1>3, <1>5, <1>6, <1>7 DEF WakeInv

\* The fields of the gateway.
LEMMA GatewayTypedIs ==
  ASSUME GatewayTyped(gateway)
  PROVE  /\ gateway = [queue |-> gateway.queue, created |-> gateway.created, claim |-> gateway.claim,
                       exchange |-> gateway.exchange, recent |-> gateway.recent,
                       idle |-> gateway.idle, polling |-> gateway.polling,
                       released |-> gateway.released]
         /\ gateway.queue \in SUBSET Nat /\ gateway.queue \subseteq 1 .. gateway.created
         /\ gateway.created \in 0 .. MaxRequests /\ gateway.claim \in 0 .. gateway.created
         /\ gateway.exchange \in 0 .. MaxExchanges
         /\ gateway.created \in Nat /\ gateway.claim \in Nat /\ gateway.exchange \in Nat
         /\ gateway.recent \in BOOLEAN /\ gateway.idle \in BOOLEAN /\ gateway.polling \in BOOLEAN
         /\ gateway.released \in BOOLEAN
         /\ MaxRequests \in Nat /\ MaxExchanges \in Nat
BY WakeAssumed DEF GatewayTyped, GatewayRecord

\* Each of its steps is such a move.
LEMMA GatewaySteps ==
  ASSUME WakeTyped,
         \/ Wake!Enqueue \/ Wake!Exchange \/ Wake!EndPoll \/ Wake!Wait \/ Wake!GrowStale
         \/ Wake!Release \/ \E r \in Wake!Requests : Wake!EndRequest(r)
  PROVE  GatewayMoves
<1>1. GatewayTyped(gateway)
  BY DEF WakeTyped
<1>2. PICK g : g = gateway'
  OBVIOUS
<1>3. ASSUME NEW queue \in SUBSET (1 .. MaxRequests), NEW made \in 0 .. MaxRequests,
             NEW claim \in 0 .. made, NEW exchange \in 0 .. MaxExchanges,
             NEW recent \in BOOLEAN, NEW idle \in BOOLEAN, NEW polling \in BOOLEAN,
             NEW released \in BOOLEAN, queue \subseteq 1 .. made,
             g = [queue |-> queue, created |-> made, claim |-> claim, exchange |-> exchange,
                  recent |-> recent, idle |-> idle, polling |-> polling, released |-> released]
      PROVE  GatewayTyped(g)
  BY <1>1, <1>3, GatewayTypedIs DEF GatewayTyped, GatewayRecord
<1>4. gateway.queue \subseteq 1 .. MaxRequests
  BY <1>1 DEF GatewayTyped, GatewayRecord
<1>5. CASE Wake!Enqueue
  <2>1. PICK idle \in BOOLEAN :
          g = [queue |-> gateway.queue \union {gateway.created + 1},
               created |-> gateway.created + 1, claim |-> gateway.claim,
               exchange |-> gateway.exchange, recent |-> gateway.recent,
               idle |-> idle, polling |-> gateway.polling, released |-> gateway.released]
    BY <1>1, <1>2, <1>5, GatewayTypedIs DEF Wake!Enqueue
  <2>2. gateway.created + 1 \in 0 .. MaxRequests /\ gateway.claim \in 0 .. (gateway.created + 1)
        /\ gateway.queue \union {gateway.created + 1} \subseteq 1 .. (gateway.created + 1)
    BY <1>1, <1>5, GatewayTypedIs DEF Wake!Enqueue
  <2>3. gateway.queue \union {gateway.created + 1} \in SUBSET (1 .. MaxRequests)
    BY <1>1, <1>4, <2>2, GatewayTypedIs
  <2>4. GatewayTyped(g)
    <3>1. /\ gateway.exchange \in 0 .. MaxExchanges /\ gateway.recent \in BOOLEAN
          /\ gateway.polling \in BOOLEAN /\ gateway.released \in BOOLEAN
      BY <1>1, GatewayTypedIs
    <3> QED BY <1>3, <2>1, <2>2, <2>3, <3>1
  <2>5. /\ g.exchange = gateway.exchange /\ g.created = gateway.created + 1
        /\ g.claim = gateway.claim /\ g.released = gateway.released
        /\ g.queue = gateway.queue \union {gateway.created + 1}
    BY <2>1
  <2>6. /\ g.exchange >= gateway.exchange /\ g.created >= gateway.created
        /\ \A r \in g.queue : r \in gateway.queue \/ r > gateway.created
    BY <1>1, <2>5, GatewayTypedIs
  <2>7. UNCHANGED <<approval, admission, current, supervisors, tabs, nonces, attempts, lapses>>
    BY <1>5 DEF Wake!Enqueue
  <2> QED BY <1>2, <2>4, <2>5, <2>6, <2>7 DEF GatewayMoves
<1>6. CASE Wake!Exchange
  <2>1. PICK next : next = IF gateway.queue = {} THEN 0 ELSE Wake!Lowest(gateway.queue)
    OBVIOUS
  <2>2. PICK polling \in BOOLEAN :
          g = [queue |-> gateway.queue \ {next}, created |-> gateway.created, claim |-> next,
               exchange |-> gateway.exchange + 1, recent |-> TRUE, idle |-> FALSE,
               polling |-> polling, released |-> gateway.released]
    BY <1>1, <1>2, <1>6, <2>1, GatewayTypedIs DEF Wake!Exchange
  <2>3. next \in 0 .. gateway.created
    <3>1. CASE gateway.queue = {}
      BY <1>1, <2>1, <3>1, GatewayTypedIs
    <3>2. CASE gateway.queue # {}
      <4>1. Wake!Lowest(gateway.queue) \in gateway.queue
        BY <1>1, <3>2, LowestIs, GatewayTypedIs
      <4> QED BY <1>1, <2>1, <3>2, <4>1, GatewayTypedIs
    <3> QED BY <3>1, <3>2
  <2>4. gateway.exchange + 1 \in 0 .. MaxExchanges
    BY <1>1, <1>6, GatewayTypedIs DEF Wake!Exchange
  <2>5. GatewayTyped(g)
    <3>1. /\ gateway.queue \ {next} \in SUBSET (1 .. MaxRequests)
          /\ gateway.queue \ {next} \subseteq 1 .. gateway.created
          /\ gateway.created \in 0 .. MaxRequests /\ gateway.released \in BOOLEAN
      BY <1>1, <1>4, GatewayTypedIs
    <3> QED BY <1>3, <2>2, <2>3, <2>4, <3>1
  <2>6. /\ g.exchange = gateway.exchange + 1 /\ g.created = gateway.created
        /\ g.released = gateway.released
    BY <2>2
  <2>7. g.exchange > gateway.exchange /\ g.exchange >= gateway.exchange
        /\ g.exchange # gateway.exchange /\ g.created >= gateway.created
    BY <1>1, <2>6, GatewayTypedIs
  <2>8. UNCHANGED <<approval, admission, current, supervisors, tabs, nonces, attempts, lapses>>
    BY <1>6 DEF Wake!Exchange
  <2> QED BY <1>2, <2>5, <2>6, <2>7, <2>8 DEF GatewayMoves
<1>7. CASE Wake!EndPoll \/ Wake!Wait \/ Wake!Release
  <2>1. \E idle, polling, released \in BOOLEAN :
          /\ gateway.released => released
          /\ g = [queue |-> gateway.queue, created |-> gateway.created, claim |-> gateway.claim,
                  exchange |-> gateway.exchange, recent |-> gateway.recent, idle |-> idle,
                  polling |-> polling, released |-> released]
    <3>1. CASE Wake!EndPoll
      <4>1. g = [gateway EXCEPT !.polling = FALSE]
        BY <1>2, <3>1 DEF Wake!EndPoll
      <4> QED BY <1>1, <4>1, GatewayTypedIs
    <3>2. CASE Wake!Wait
      <4>1. g = [gateway EXCEPT !.idle = TRUE]
        BY <1>2, <3>2 DEF Wake!Wait
      <4> QED BY <1>1, <4>1, GatewayTypedIs
    <3>3. CASE Wake!Release
      <4>1. g = [gateway EXCEPT !.released = TRUE, !.polling = FALSE]
        BY <1>2, <3>3 DEF Wake!Release
      <4> QED BY <1>1, <4>1, GatewayTypedIs
    <3> QED BY <1>7, <3>1, <3>2, <3>3
  <2>2. GatewayTyped(g)
    BY <1>1, <1>3, <1>4, <2>1, GatewayTypedIs
  <2>3. UNCHANGED <<approval, admission, current, supervisors, tabs, nonces, attempts, lapses>>
    BY <1>7 DEF Wake!EndPoll, Wake!Wait, Wake!Release
  <2> QED BY <1>1, <1>2, <2>1, <2>2, <2>3, GatewayTypedIs DEF GatewayMoves
<1>8. CASE Wake!GrowStale
  <2>1. \/ g = [gateway EXCEPT !.recent = FALSE]
        \/ gateway.claim # 0 /\ g = [gateway EXCEPT !.recent = FALSE, !.claim = 0,
                                                    !.queue = @ \union {gateway.claim}]
    BY <1>2, <1>8 DEF Wake!GrowStale
  <2>2. UNCHANGED <<approval, admission, current, supervisors, tabs, nonces, attempts, lapses>>
    BY <1>8 DEF Wake!GrowStale
  <2>3. CASE g = [gateway EXCEPT !.recent = FALSE]
    <3>1. g = [queue |-> gateway.queue, created |-> gateway.created, claim |-> gateway.claim,
               exchange |-> gateway.exchange, recent |-> FALSE, idle |-> gateway.idle,
               polling |-> gateway.polling, released |-> gateway.released]
      BY <1>1, <2>3, GatewayTypedIs
    <3>2. GatewayTyped(g)
      BY ZenonT(60), <1>1, <1>3, <1>4, <3>1, GatewayTypedIs
    <3> QED BY <1>1, <1>2, <2>2, <3>1, <3>2, GatewayTypedIs DEF GatewayMoves
  <2>4. CASE gateway.claim # 0 /\ g = [gateway EXCEPT !.recent = FALSE, !.claim = 0,
                                                      !.queue = @ \union {gateway.claim}]
    <3>1. g = [queue |-> gateway.queue \union {gateway.claim}, created |-> gateway.created,
               claim |-> 0, exchange |-> gateway.exchange, recent |-> FALSE,
               idle |-> gateway.idle, polling |-> gateway.polling, released |-> gateway.released]
      BY <1>1, <2>4, GatewayTypedIs
    <3>2. gateway.queue \union {gateway.claim} \in SUBSET (1 .. MaxRequests)
          /\ gateway.queue \union {gateway.claim} \subseteq 1 .. gateway.created
          /\ 0 \in 0 .. gateway.created
      BY <1>1, <1>4, <2>4, GatewayTypedIs
    <3>3. GatewayTyped(g)
      BY ZenonT(60), <1>1, <1>3, <3>1, <3>2, GatewayTypedIs
    <3> QED BY <1>1, <1>2, <2>2, <2>4, <3>1, <3>3, GatewayTypedIs DEF GatewayMoves
  <2> QED BY <2>1, <2>3, <2>4
<1>9. ASSUME NEW r \in Wake!Requests, Wake!EndRequest(r)  PROVE GatewayMoves
  <2>1. \E idle \in BOOLEAN :
          g = [queue |-> gateway.queue \ {r}, created |-> gateway.created, claim |-> gateway.claim,
               exchange |-> gateway.exchange, recent |-> gateway.recent, idle |-> idle,
               polling |-> gateway.polling, released |-> gateway.released]
    <3>1. g = [gateway EXCEPT !.queue = @ \ {r}, !.idle = @ /\ r # Wake!Lowest(gateway.queue)]
      BY <1>2, <1>9 DEF Wake!EndRequest
    <3> QED BY <1>1, <3>1, GatewayTypedIs
  <2>2. GatewayTyped(g)
    BY <1>1, <1>3, <1>4, <2>1, GatewayTypedIs
  <2>3. /\ g.exchange = gateway.exchange /\ g.created = gateway.created
        /\ g.claim = gateway.claim /\ g.released = gateway.released
        /\ g.queue = gateway.queue \ {r}
    BY <2>1
  <2>4. /\ g.exchange >= gateway.exchange /\ g.created >= gateway.created
        /\ \A u \in g.queue : u \in gateway.queue
    BY <1>1, <2>3, GatewayTypedIs
  <2>5. UNCHANGED <<approval, admission, current, supervisors, tabs, nonces, attempts, lapses>>
    BY <1>9 DEF Wake!EndRequest
  <2> QED BY <1>2, <2>2, <2>3, <2>4, <2>5 DEF GatewayMoves
<1> QED BY <1>5, <1>6, <1>7, <1>8, <1>9

-----------------------------------------------------------------------------
\* A step of a supervisor that opens nothing and tells nothing.
LEMMA SupervisorsKeep ==
  ASSUME WakeInv, UNCHANGED <<gateway, tabs, nonces, attempts, lapses>>,
         approval' \in BOOLEAN, admission' \in BOOLEAN, current' \in 0 .. MaxSupervisors,
         supervisors' \in [1 .. MaxSupervisors -> SupervisorRecord],
         \A id \in 1 .. MaxSupervisors : Watching(id, supervisors'[id])
  PROVE  WakeInv'
<1>1. WakeTyped'
  BY DEF WakeInv, WakeTyped, GatewayTyped
<1>2. AttemptsAre'
  BY SMTT(30) DEF WakeInv, AttemptsAre, Observed, Wake!OncePerReason
<1>3. TabsAre'
  BY DEF WakeInv, TabsAre, Wake!ConfirmedByContact
<1>4. \A id \in 1 .. MaxSupervisors : Watching(id, supervisors[id])'
  <2>1. ASSUME NEW id \in 1 .. MaxSupervisors  PROVE Watching(id, supervisors[id])'
    <3>1. PICK s : s = supervisors'[id]
      OBVIOUS
    <3>2. Watching(id, s)
      BY <3>1
    <3>3. Watching(id, s)'
      BY <3>2 DEF Watching, Observed, Past, SameReason, Caused
    <3> QED BY <3>1, <3>3 DEF Watching, Observed, Past, SameReason, Caused
  <2> QED BY <2>1
<1> QED BY <1>1, <1>2, <1>3, <1>4 DEF WakeInv

\* The fields of a supervisor, one by one.
LEMMA SupervisorIs ==
  ASSUME NEW s \in SupervisorRecord
  PROVE  /\ s.at \in Places /\ s.stopped \in BOOLEAN /\ s.failed \in {0, 1} /\ s.seen \in BOOLEAN
         /\ s.exchange \in 0 .. MaxExchanges /\ s.head \in 0 .. MaxRequests
         /\ s.created \in 0 .. MaxRequests /\ s.reconnect \in BOOLEAN
         /\ s.attempt \in 0 .. MaxAttempts
         /\ s = [at |-> s.at, stopped |-> s.stopped, failed |-> s.failed, seen |-> s.seen,
                 exchange |-> s.exchange, head |-> s.head, created |-> s.created,
                 reconnect |-> s.reconnect, attempt |-> s.attempt]
BY DEF SupervisorRecord

\* What observe leaves: the status of the gateway, and a reason to hold back only if
\* that has not changed since the attempt.
Noted(id, s) ==
  /\ s \in SupervisorRecord /\ s.exchange = gateway.exchange /\ s.head = Wake!Oldest
  /\ \A i \in DOMAIN attempts : attempts[i].by = id =>
       \/ Past(attempts[i])
       \/ s.failed = 1 /\ attempts[i].exchange = s.exchange /\ attempts[i].head = s.head
  /\ s.failed = 1 => Caused(id, s)
  /\ \A i \in DOMAIN attempts : attempts[i].by = id => ~attempts[i].late

\* observe: a failure is forgotten as soon as what it was about is past.
LEMMA ObserveIs ==
  ASSUME WakeInv, NEW id \in 1 .. MaxSupervisors, supervisors[id].at \in {"timer", "grace"}
  PROVE  /\ Noted(id, Wake!observe(supervisors[id]))
         /\ Wake!observe(supervisors[id]).at = supervisors[id].at
         /\ Wake!observe(supervisors[id]).stopped = supervisors[id].stopped
         /\ supervisors[id].failed = 0 => Wake!observe(supervisors[id]).failed = 0
<1>1. PICK s : s = supervisors[id]
  OBVIOUS
<1>2. PICK o : o = Wake!observe(s)
  OBVIOUS
<1>3. s \in SupervisorRecord /\ Watching(id, s)
  BY <1>1, SupervisorTyped DEF WakeInv
<1>4. GatewayTyped(gateway)
  BY DEF WakeInv, WakeTyped
<1>5. PICK moved \in BOOLEAN : moved <=> gateway.exchange # 0 /\ gateway.exchange # s.exchange
  OBVIOUS
<1>6. PICK fresh \in BOOLEAN : fresh <=> Wake!Oldest # 0 /\ Wake!Oldest # s.head
  OBVIOUS
<1>7. \E seen \in BOOLEAN :
        o = [at |-> s.at, stopped |-> s.stopped, failed |-> IF moved \/ fresh THEN 0 ELSE s.failed,
             seen |-> seen, exchange |-> IF moved THEN gateway.exchange ELSE s.exchange,
             head |-> Wake!Oldest, created |-> s.created, reconnect |-> s.reconnect,
             attempt |-> s.attempt]
  <2>1. PICK seen \in BOOLEAN : seen <=> (s.seen \/ Wake!Active \/ gateway.polling
                                          \/ Wake!classifyWorkerContact = "recent")
    OBVIOUS
  <2>2. o = [s EXCEPT !.seen = seen, !.exchange = IF moved THEN gateway.exchange ELSE @,
                      !.head = Wake!Oldest, !.failed = IF moved \/ fresh THEN 0 ELSE @]
    BY <1>2, <1>5, <1>6, <2>1 DEF Wake!observe, Wake!NoHead
  <2>3. PICK failed : failed = IF moved \/ fresh THEN 0 ELSE s.failed
    OBVIOUS
  <2>4. PICK exchange : exchange = IF moved THEN gateway.exchange ELSE s.exchange
    OBVIOUS
  <2>5. o = [s EXCEPT !.seen = seen, !.exchange = exchange, !.head = Wake!Oldest,
                      !.failed = failed]
    BY <2>2, <2>3, <2>4
  <2>6. o = [at |-> s.at, stopped |-> s.stopped, failed |-> failed, seen |-> seen,
             exchange |-> exchange, head |-> Wake!Oldest, created |-> s.created,
             reconnect |-> s.reconnect, attempt |-> s.attempt]
    <3>1. s = [at |-> s.at, stopped |-> s.stopped, failed |-> s.failed, seen |-> s.seen,
               exchange |-> s.exchange, head |-> s.head, created |-> s.created,
               reconnect |-> s.reconnect, attempt |-> s.attempt]
      BY <1>3, SupervisorIs
    <3> QED BY <2>5, <3>1
  <2> QED BY <2>1, <2>3, <2>4, <2>6
<1>8. o.exchange = gateway.exchange
  BY <1>3, <1>4, <1>5, <1>7, SupervisorIs, GatewayTypedIs DEF Watching
<1>9. /\ o.head = Wake!Oldest /\ o.at = s.at /\ o.stopped = s.stopped
      /\ o.failed = IF moved \/ fresh THEN 0 ELSE s.failed
  BY <1>7
<1>10. o \in SupervisorRecord
  <2>1. Wake!Oldest \in 0 .. MaxRequests
    BY OldestIs DEF WakeInv
  <2> QED BY <1>3, <1>4, <1>7, <2>1, SupervisorIs, GatewayTypedIs DEF SupervisorRecord
<1>11. ASSUME NEW i \in DOMAIN attempts, attempts[i].by = id
       PROVE  \/ Past(attempts[i])
              \/ o.failed = 1 /\ attempts[i].exchange = o.exchange /\ attempts[i].head = o.head
  <2>1. PICK a : a = attempts[i]
    OBVIOUS
  <2>2. a.exchange \in Nat /\ a.created \in Nat /\ a.head \in Nat /\ Observed(a)
    BY <2>1, AttemptTyped DEF WakeInv, AttemptsAre
  <2>3. \/ Past(a)
        \/ s.failed = 1 /\ a.exchange = s.exchange /\ a.head = s.head
    BY <1>1, <1>3, <1>11, <2>1 DEF Watching
  <2>4. SUFFICES ASSUME s.failed = 1, a.exchange = s.exchange, a.head = s.head, ~Past(a)
                 PROVE  o.failed = 1 /\ a.exchange = o.exchange /\ a.head = o.head
    BY <2>1, <2>3
  <2>5. gateway.exchange = a.exchange /\ (a.head # 0 => a.head \in gateway.queue)
        /\ (a.head = 0 => gateway.created = a.created)
    BY <1>4, <2>2, <2>4, GatewayTypedIs DEF Past, Observed
  <2>6. ~moved
    BY <1>5, <2>4, <2>5
  <2>7. WakeTyped
    BY DEF WakeInv
  <2>8. a.head = Wake!Oldest
    <3>1. CASE a.head # 0
      <4>1. a.head \in gateway.queue /\ \A v \in gateway.queue : a.head <= v
        BY <2>2, <2>5, <3>1 DEF Observed
      <4>2. Wake!Oldest \in gateway.queue /\ Wake!Oldest <= a.head /\ a.head <= Wake!Oldest
        BY <2>7, <4>1, OldestIs
      <4> QED BY <1>4, <2>2, <4>2, GatewayTypedIs
    <3>2. CASE a.head = 0
      <4>1. gateway.queue = {}
        BY <2>2, <2>5, <3>2 DEF Observed
      <4> QED BY <2>7, <3>2, <4>1, OldestIs
    <3> QED BY <3>1, <3>2
  <2>9. ~fresh
    BY <1>6, <2>4, <2>8
  <2> QED BY <1>8, <1>9, <2>4, <2>5, <2>6, <2>8, <2>9
<1>12. ASSUME o.failed = 1  PROVE Caused(id, o)
  <2>1. ~moved /\ ~fresh /\ s.failed = 1
    BY <1>9, <1>12
  <2>2. o.exchange = s.exchange /\ o.head \in {0, s.head}
    BY <1>6, <1>7, <1>9, <2>1
  <2>3. PICK cause \in lapses \union {attempts[i] : i \in DOMAIN attempts} :
          cause.by = id /\ cause.exchange = s.exchange /\ s.head \in {0, cause.head}
    BY <1>3, <2>1 DEF Watching, Caused
  <2>4. o.head \in {0, cause.head}
    BY <2>2, <2>3
  <2> QED BY <2>2, <2>3, <2>4 DEF Caused
<1>13. \A i \in DOMAIN attempts : attempts[i].by = id => ~attempts[i].late
  BY <1>1, <1>3 DEF Watching
<1>14. s.failed = 0 => o.failed = 0
  BY <1>9
<1>15. Noted(id, o)
  BY <1>8, <1>9, <1>10, <1>11, <1>12, <1>13 DEF Noted
<1> QED BY <1>1, <1>2, <1>9, <1>14, <1>15

\* Only the failure changes.
LEMMA FailedIs ==
  ASSUME NEW s \in SupervisorRecord, NEW failed \in {0, 1}, NEW u,
         u = [s EXCEPT !.failed = failed]
  PROVE  /\ u \in SupervisorRecord /\ u.failed = failed /\ u.stopped = s.stopped
         /\ u.exchange = s.exchange /\ u.head = s.head
<1>1. s = [at |-> s.at, stopped |-> s.stopped, failed |-> s.failed, seen |-> s.seen,
           exchange |-> s.exchange, head |-> s.head, created |-> s.created,
           reconnect |-> s.reconnect, attempt |-> s.attempt]
  BY SupervisorIs
<1>2. u = [at |-> s.at, stopped |-> s.stopped, failed |-> failed, seen |-> s.seen,
           exchange |-> s.exchange, head |-> s.head, created |-> s.created,
           reconnect |-> s.reconnect, attempt |-> s.attempt]
  BY <1>1
<1> QED BY <1>2, SupervisorIs DEF SupervisorRecord

\* The end of a round.
LEMMA AgainIs ==
  ASSUME NEW s \in SupervisorRecord
  PROVE  /\ Wake!Again(s) \in SupervisorRecord /\ Wake!Again(s).failed = s.failed
         /\ Wake!Again(s).stopped = s.stopped
         /\ Wake!Again(s).exchange = s.exchange /\ Wake!Again(s).head = s.head
         /\ Wake!Again(s).at = IF s.stopped THEN "ended" ELSE "timer"
<1>1. PICK at : at = IF s.stopped THEN "ended" ELSE "timer"
  OBVIOUS
<1>2. s = [at |-> s.at, stopped |-> s.stopped, failed |-> s.failed, seen |-> s.seen,
           exchange |-> s.exchange, head |-> s.head, created |-> s.created,
           reconnect |-> s.reconnect, attempt |-> s.attempt]
  BY SupervisorIs
<1>3. PICK u : u = [s EXCEPT !.at = at, !.attempt = 0]
  OBVIOUS
<1>4. u = Wake!Again(s)
  BY <1>1, <1>3 DEF Wake!Again
<1>5. at \in Places /\ 0 \in 0 .. MaxAttempts
  BY <1>1, WakeAssumed DEF Places
<1>6. u = [at |-> at, stopped |-> s.stopped, failed |-> s.failed, seen |-> s.seen,
           exchange |-> s.exchange, head |-> s.head, created |-> s.created,
           reconnect |-> s.reconnect, attempt |-> 0]
  BY <1>2, <1>3
<1>7. /\ u \in SupervisorRecord /\ u.failed = s.failed /\ u.stopped = s.stopped
      /\ u.exchange = s.exchange /\ u.head = s.head /\ u.at = at
  BY <1>5, <1>6, SupervisorIs DEF SupervisorRecord
<1> QED BY <1>1, <1>4, <1>7

\* A supervisor that is stopped, that starts, or whose round is over, watches on.
LEMMA WatchingOn ==
  ASSUME WakeInv, NEW id \in 1 .. MaxSupervisors, NEW s \in SupervisorRecord, Noted(id, s),
         NEW u \in SupervisorRecord,
         u.exchange = s.exchange, u.head = s.head, u.failed = s.failed,
         u.at \in {"timer", "ended"} \/ (u.at = "grace" /\ u.failed = 0)
  PROVE  Watching(id, u)
<1>1. gateway.exchange \in Nat
  BY GatewayTypedIs DEF WakeInv, WakeTyped
<1> QED BY <1>1 DEF Noted, Watching, Caused

\* shouldAutoWakeGateway wakes for a queued request, or for a worker once seen.
LEMMA ShouldWake ==
  ASSUME NEW seen, Wake!shouldAutoWakeGateway(seen)
  PROVE  ~gateway.released /\ gateway.claim = 0 /\ (gateway.queue = {} => seen)
BY DEF Wake!shouldAutoWakeGateway

\* A step of one supervisor alone.
LEMMA OneMoves ==
  ASSUME WakeInv, NEW id \in 1 .. MaxSupervisors, NEW u \in SupervisorRecord, Watching(id, u),
         supervisors' = [supervisors EXCEPT ![id] = u],
         UNCHANGED <<gateway, tabs, nonces, attempts, lapses>>,
         UNCHANGED <<approval, admission, current>>
  PROVE  WakeInv'
<1>1. supervisors \in [1 .. MaxSupervisors -> SupervisorRecord]
  BY DEF WakeInv, WakeTyped
<1>2. /\ supervisors' \in [1 .. MaxSupervisors -> SupervisorRecord]
      /\ \A v \in 1 .. MaxSupervisors : Watching(v, supervisors'[v])
  BY <1>1 DEF WakeInv
<1>3. approval' \in BOOLEAN /\ admission' \in BOOLEAN /\ current' \in 0 .. MaxSupervisors
  BY DEF WakeInv, WakeTyped
<1> QED BY <1>2, <1>3, SupervisorsKeep

\* Look
LEMMA LookKeeps ==
  ASSUME WakeInv, NEW id \in Wake!Supervisors, Wake!Look(id)
  PROVE  WakeInv'
<1>1. id \in 1 .. MaxSupervisors /\ supervisors[id].at = "timer"
  BY DEF Wake!Supervisors, Wake!Look
<1>2. PICK s : s = Wake!observe(supervisors[id])
  OBVIOUS
<1>3. Noted(id, s) /\ s \in SupervisorRecord /\ s.at = "timer"
  BY <1>1, <1>2, ObserveIs DEF Noted
<1>4. PICK u : u = IF Wake!shouldAutoWakeGateway(s.seen) /\ s.failed = 0
                   THEN [s EXCEPT !.at = "grace"] ELSE Wake!Again(s)
  OBVIOUS
<1>5. supervisors' = [supervisors EXCEPT ![id] = u]
  BY <1>2, <1>4 DEF Wake!Look
<1>6. u \in SupervisorRecord /\ Watching(id, u)
  <2>1. CASE u = Wake!Again(s)
    <3>1. u \in SupervisorRecord /\ u.failed = s.failed /\ u.exchange = s.exchange /\ u.head = s.head
          /\ u.at \in {"timer", "ended"}
      BY <1>3, <2>1, AgainIs, SupervisorIs
    <3>2. u \in SupervisorRecord
      BY <3>1
    <3>3. u.at \in {"timer", "ended"}
      BY <3>1
    <3>4. Watching(id, u)
      BY <1>1, <1>3, <3>1, <3>2, <3>3, WatchingOn
    <3> QED BY <3>2, <3>4
  <2>2. CASE s.failed = 0 /\ u = [s EXCEPT !.at = "grace"]
    <3>1. s = [at |-> s.at, stopped |-> s.stopped, failed |-> s.failed, seen |-> s.seen,
               exchange |-> s.exchange, head |-> s.head, created |-> s.created,
               reconnect |-> s.reconnect, attempt |-> s.attempt]
      BY <1>3, SupervisorIs
    <3>2. u = [at |-> "grace", stopped |-> s.stopped, failed |-> s.failed, seen |-> s.seen,
               exchange |-> s.exchange, head |-> s.head, created |-> s.created,
               reconnect |-> s.reconnect, attempt |-> s.attempt]
      BY <2>2, <3>1
    <3>3. u \in SupervisorRecord /\ u.failed = s.failed /\ u.exchange = s.exchange /\ u.head = s.head
          /\ u.at = "grace" /\ u.failed = 0
      BY <1>3, <2>2, <3>2, SupervisorIs DEF SupervisorRecord, Places
    <3> QED BY <1>1, <1>3, <3>3, WatchingOn
  <2>3. CASE Wake!shouldAutoWakeGateway(s.seen) /\ s.failed = 0
    BY <1>4, <2>2, <2>3
  <2>4. CASE ~(Wake!shouldAutoWakeGateway(s.seen) /\ s.failed = 0)
    BY <1>4, <2>1, <2>4
  <2> QED BY <2>3, <2>4
<1> QED BY <1>1, <1>5, <1>6, OneMoves DEF Wake!Look

\* LookAgain, after the grace of a reconnection
LEMMA LookAgainKeeps ==
  ASSUME WakeInv, NEW id \in Wake!Supervisors, Wake!LookAgain(id)
  PROVE  WakeInv'
<1>1. id \in 1 .. MaxSupervisors /\ supervisors[id].at = "grace"
  BY DEF Wake!Supervisors, Wake!LookAgain
<1>2. PICK s : s = Wake!observe(supervisors[id])
  OBVIOUS
<1>3. Noted(id, s) /\ s \in SupervisorRecord
  BY <1>1, <1>2, ObserveIs DEF Noted
<1>4. s.failed = 0
  <2>1. supervisors[id].failed = 0
    BY <1>1 DEF WakeInv, Watching
  <2> QED BY <1>1, <1>2, <2>1, ObserveIs
<1>5. GatewayTyped(gateway) /\ WakeTyped
  BY DEF WakeInv, WakeTyped
<1>6. PICK reconnect \in BOOLEAN : reconnect <=> gateway.queue = {} /\ s.seen
  OBVIOUS
<1>7. PICK u : u = IF Wake!shouldAutoWakeGateway(s.seen)
                   THEN [s EXCEPT !.at = "driver", !.created = gateway.created,
                                  !.reconnect = reconnect]
                   ELSE Wake!Again(s)
  OBVIOUS
<1>8. supervisors' = [supervisors EXCEPT ![id] = u]
  BY <1>2, <1>6, <1>7 DEF Wake!LookAgain
<1>9. CASE ~Wake!shouldAutoWakeGateway(s.seen)
  <2>1. u = Wake!Again(s)
    BY <1>7, <1>9
  <2>2. u \in SupervisorRecord /\ u.failed = s.failed /\ u.exchange = s.exchange /\ u.head = s.head
        /\ u.at \in {"timer", "ended"}
    BY <1>3, <2>1, AgainIs, SupervisorIs
  <2>3. Watching(id, u)
    <3>1. u \in SupervisorRecord
      BY <2>2
    <3>2. u.at \in {"timer", "ended"}
      BY <2>2
    <3> QED BY <1>1, <1>3, <2>2, <3>1, <3>2, WatchingOn
  <2> QED BY <1>1, <1>8, <2>2, <2>3, OneMoves DEF Wake!LookAgain
<1>10. CASE Wake!shouldAutoWakeGateway(s.seen)
  <2>1. s = [at |-> s.at, stopped |-> s.stopped, failed |-> s.failed, seen |-> s.seen,
             exchange |-> s.exchange, head |-> s.head, created |-> s.created,
             reconnect |-> s.reconnect, attempt |-> s.attempt]
    BY <1>3, SupervisorIs
  <2>2. u = [at |-> "driver", stopped |-> s.stopped, failed |-> s.failed, seen |-> s.seen,
             exchange |-> s.exchange, head |-> s.head, created |-> gateway.created,
             reconnect |-> reconnect, attempt |-> s.attempt]
    BY <1>7, <1>10, <2>1
  <2>3. /\ u.at = "driver" /\ u.failed = 0 /\ u.exchange = gateway.exchange
        /\ u.head = Wake!Oldest /\ u.created = gateway.created /\ u.reconnect = reconnect
    BY <1>3, <1>4, <2>2 DEF Noted
  <2>4. u \in SupervisorRecord
    BY <1>3, <1>5, <1>6, <2>2, SupervisorIs, GatewayTypedIs DEF SupervisorRecord, Places
  <2>5. ~gateway.released /\ gateway.claim = 0 /\ (gateway.queue = {} => s.seen)
    BY <1>10, ShouldWake
  <2>6. Observed(u)
    BY <1>5, <2>3, <2>5, OldestIs, GatewayTypedIs DEF Observed
  <2>7. u.reconnect \/ u.head # 0
    BY <1>5, <1>6, <2>3, <2>5, OldestIs
  <2>8. ASSUME NEW i \in DOMAIN attempts, attempts[i].by = id
        PROVE  Past(attempts[i]) /\ ~SameReason(attempts[i], u) /\ ~attempts[i].late
    <3>1. PICK a : a = attempts[i]
      OBVIOUS
    <3>2. a.exchange \in Nat /\ a.created \in Nat /\ a.head \in Nat /\ Observed(a)
      BY <3>1, AttemptTyped DEF WakeInv, AttemptsAre
    <3>3. Past(a) /\ ~a.late
      BY <1>3, <1>4, <2>8, <3>1 DEF Noted
    <3>4. ~SameReason(a, u)
      <4>1. CASE gateway.exchange > a.exchange
        BY <1>5, <2>3, <3>2, <4>1, GatewayTypedIs DEF SameReason
      <4>2. CASE a.head # 0 /\ a.head \notin gateway.queue
        BY <1>5, <2>3, <4>2, OldestIs DEF SameReason
      <4>3. CASE a.head = 0 /\ gateway.created > a.created
        BY <1>5, <2>3, <3>2, <4>3, GatewayTypedIs DEF SameReason
      <4> QED BY <2>5, <3>3, <4>1, <4>2, <4>3 DEF Past
    <3> QED BY <3>1, <3>3, <3>4
  <2>9. Watching(id, u)
    <3>1. u.exchange <= gateway.exchange
      BY <1>5, <2>3, GatewayTypedIs
    <3> QED BY <2>3, <2>6, <2>7, <2>8, <3>1 DEF Watching
  <2> QED BY <1>1, <1>8, <2>4, <2>9, OneMoves DEF Wake!LookAgain
<1> QED BY <1>9, <1>10

\* What Watching asks of a supervisor that is not about to open a tab.
LEMMA WatchingMoved ==
  ASSUME NEW id, NEW s, Watching(id, s), NEW u, u.exchange = s.exchange, u.head = s.head,
         u.created = s.created, u.failed = s.failed, u.reconnect = s.reconnect,
         u.attempt = s.attempt, s.stopped => u.stopped,
         \/ u.at = s.at
         \/ s.at = "none" /\ u.at = "timer"
         \/ s.at = "timer" /\ u.at = "ended"
  PROVE  Watching(id, u)
<1>1. Observed(s) => Observed(u)
  BY DEF Observed
<1>2. \A i \in DOMAIN attempts : SameReason(attempts[i], s) <=> SameReason(attempts[i], u)
  BY DEF SameReason
<1> QED BY <1>1, <1>2 DEF Watching, Caused

\* Refresh closes one supervisor and starts another.
LEMMA RefreshKeeps ==
  ASSUME WakeInv, Wake!Refresh
  PROVE  WakeInv'
<1>1. supervisors \in [1 .. MaxSupervisors -> SupervisorRecord]
      /\ approval \in BOOLEAN /\ admission \in BOOLEAN /\ current \in 0 .. MaxSupervisors
  BY DEF WakeInv, WakeTyped
<1>2. UNCHANGED <<gateway, tabs, nonces, attempts, lapses>> /\ approval' \in BOOLEAN
  BY <1>1 DEF Wake!Refresh
<1>3. CASE admission' = (current # 0) /\ UNCHANGED <<current, supervisors>>
  <2>1. admission' \in BOOLEAN /\ current' \in 0 .. MaxSupervisors
        /\ supervisors' \in [1 .. MaxSupervisors -> SupervisorRecord]
        /\ \A id \in 1 .. MaxSupervisors : Watching(id, supervisors'[id])
    BY <1>1, <1>3 DEF WakeInv
  <2> QED BY <1>2, <2>1, SupervisorsKeep
<1>4. ASSUME NEW id \in Wake!Supervisors, supervisors[id].at = "none", current' = id,
             supervisors' = [supervisors EXCEPT ![id].at = "timer"], admission' = TRUE
      PROVE  WakeInv'
  <2>1. id \in 1 .. MaxSupervisors /\ supervisors[id] \in SupervisorRecord
        /\ Watching(id, supervisors[id])
    BY <1>1 DEF Wake!Supervisors, WakeInv
  <2>2. PICK s : s = supervisors[id]
    OBVIOUS
  <2>3. PICK u : u = [s EXCEPT !.at = "timer"]
    OBVIOUS
  <2>4. supervisors' = [supervisors EXCEPT ![id] = u]
    BY <1>4, <2>2, <2>3
  <2>5. s = [at |-> s.at, stopped |-> s.stopped, failed |-> s.failed, seen |-> s.seen,
             exchange |-> s.exchange, head |-> s.head, created |-> s.created,
             reconnect |-> s.reconnect, attempt |-> s.attempt]
    BY <2>1, <2>2, SupervisorIs
  <2>6. u = [at |-> "timer", stopped |-> s.stopped, failed |-> s.failed, seen |-> s.seen,
             exchange |-> s.exchange, head |-> s.head, created |-> s.created,
             reconnect |-> s.reconnect, attempt |-> s.attempt]
    BY <2>3, <2>5
  <2>7. u \in SupervisorRecord
    BY <2>1, <2>2, <2>6, SupervisorIs DEF SupervisorRecord, Places
  <2>8. Watching(id, u)
    BY <1>4, <2>1, <2>2, <2>6, WatchingMoved
  <2>9. /\ supervisors' \in [1 .. MaxSupervisors -> SupervisorRecord]
        /\ \A v \in 1 .. MaxSupervisors : Watching(v, supervisors'[v])
    BY <1>1, <2>1, <2>4, <2>7, <2>8 DEF WakeInv
  <2>10. admission' \in BOOLEAN /\ current' \in 0 .. MaxSupervisors
    BY <1>4, <2>1, WakeAssumed
  <2> QED BY <1>2, <2>9, <2>10, SupervisorsKeep
<1>5. ASSUME current # 0, current' = 0, admission' = FALSE,
             supervisors' = [supervisors EXCEPT ![current].stopped = TRUE,
                                                ![current].at = IF @ = "timer" THEN "ended" ELSE @]
      PROVE  WakeInv'
  <2>1. current \in 1 .. MaxSupervisors
    BY <1>1, <1>5, WakeAssumed
  <2>2. PICK s : s = supervisors[current]
    OBVIOUS
  <2>3. s \in SupervisorRecord /\ Watching(current, s)
    BY <1>1, <2>1, <2>2 DEF WakeInv
  <2>4. PICK at : at = IF s.at = "timer" THEN "ended" ELSE s.at
    OBVIOUS
  <2>5. s = [at |-> s.at, stopped |-> s.stopped, failed |-> s.failed, seen |-> s.seen,
             exchange |-> s.exchange, head |-> s.head, created |-> s.created,
             reconnect |-> s.reconnect, attempt |-> s.attempt]
    BY <2>3, SupervisorIs
  <2>6. PICK u : u = [at |-> at, stopped |-> TRUE, failed |-> s.failed, seen |-> s.seen,
                      exchange |-> s.exchange, head |-> s.head, created |-> s.created,
                      reconnect |-> s.reconnect, attempt |-> s.attempt]
    OBVIOUS
  <2>7. supervisors' = [supervisors EXCEPT ![current] = u]
    <3>1. PICK w : w = [supervisors EXCEPT ![current].stopped = TRUE]
      OBVIOUS
    <3>2. w[current] = [s EXCEPT !.stopped = TRUE] /\ DOMAIN w = 1 .. MaxSupervisors
      BY <1>1, <2>1, <2>2, <3>1
    <3>3. w[current] = [at |-> s.at, stopped |-> TRUE, failed |-> s.failed, seen |-> s.seen,
                        exchange |-> s.exchange, head |-> s.head, created |-> s.created,
                        reconnect |-> s.reconnect, attempt |-> s.attempt]
      BY <2>5, <3>2
    <3>4. supervisors' = [w EXCEPT ![current].at = IF @ = "timer" THEN "ended" ELSE @]
      BY <1>5, <3>1
    <3>5. supervisors' = [w EXCEPT ![current].at = at]
      BY <2>4, <3>2, <3>3, <3>4
    <3>6. PICK v : v = w[current]
      OBVIOUS
    <3>7. [v EXCEPT !.at = at] = u
      <4>1. v = [at |-> s.at, stopped |-> TRUE, failed |-> s.failed, seen |-> s.seen,
                 exchange |-> s.exchange, head |-> s.head, created |-> s.created,
                 reconnect |-> s.reconnect, attempt |-> s.attempt]
        BY <3>3, <3>6
      <4>2. PICK moved : moved = [v EXCEPT !.at = at]
        OBVIOUS
      <4>3. moved = [at |-> at, stopped |-> TRUE, failed |-> s.failed, seen |-> s.seen,
                     exchange |-> s.exchange, head |-> s.head, created |-> s.created,
                     reconnect |-> s.reconnect, attempt |-> s.attempt]
        BY <4>1, <4>2
      <4> QED BY <2>6, <4>2, <4>3
    <3>8. supervisors' = [w EXCEPT ![current] = u]
      BY <3>5, <3>6, <3>7
    <3>9. supervisors' = [[supervisors EXCEPT ![current].stopped = TRUE] EXCEPT ![current] = u]
      BY <3>1, <3>8
    <3> QED BY <1>1, <2>1, <3>9
  <2>8. at \in Places /\ (at = s.at \/ (s.at = "timer" /\ at = "ended"))
    BY <2>3, <2>4, SupervisorIs DEF Places
  <2>9. u \in SupervisorRecord
    BY <2>3, <2>6, <2>8, SupervisorIs DEF SupervisorRecord
  <2>10. Watching(current, u)
    BY <2>3, <2>6, <2>8, WatchingMoved
  <2>11. /\ supervisors' \in [1 .. MaxSupervisors -> SupervisorRecord]
         /\ \A v \in 1 .. MaxSupervisors : Watching(v, supervisors'[v])
    BY <1>1, <2>1, <2>7, <2>9, <2>10 DEF WakeInv
  <2>12. 0 \in 0 .. MaxSupervisors
    BY WakeAssumed
  <2>13. admission' \in BOOLEAN /\ current' \in 0 .. MaxSupervisors
    BY <1>5, <2>12
  <2> QED BY <1>2, <2>11, <2>13, SupervisorsKeep
<1> QED BY <1>3, <1>4, <1>5 DEF Wake!Refresh

\* Approve
LEMMA ApproveKeeps ==
  ASSUME WakeInv, Wake!Approve
  PROVE  WakeInv'
<1>1. /\ UNCHANGED <<gateway, tabs, nonces, attempts, lapses>>
      /\ approval' \in BOOLEAN /\ admission' \in BOOLEAN /\ current' \in 0 .. MaxSupervisors
      /\ supervisors' \in [1 .. MaxSupervisors -> SupervisorRecord]
  BY DEF Wake!Approve, WakeInv, WakeTyped
<1>2. \A id \in 1 .. MaxSupervisors : Watching(id, supervisors'[id])
  BY DEF Wake!Approve, WakeInv
<1> QED BY <1>1, <1>2, SupervisorsKeep

-----------------------------------------------------------------------------
\* The steps of the browser: only a tab that was sent and a confirmed wake close it.
LEMMA BrowserKeeps ==
  ASSUME WakeInv, NEW n \in Wake!Attempts,
         Wake!Expire(n) \/ Wake!Click(n) \/ Wake!CloseTab(n)
  PROVE  WakeInv'
<1>1. n \in 1 .. MaxAttempts
  BY DEF Wake!Attempts
<1>2. UNCHANGED <<gateway, approval, admission, current, supervisors, attempts, lapses>>
  BY DEF Wake!Expire, Wake!Click, Wake!CloseTab
<1>3. tabs \in [1 .. MaxAttempts -> {"none", "open", "sent", "closed"}]
      /\ nonces \in [1 .. MaxAttempts -> {"none", "pending", "confirmed"}]
  BY DEF WakeInv, WakeTyped
<1>4. PICK tab : tab = tabs'
  OBVIOUS
<1>5. PICK nonce : nonce = nonces'
  OBVIOUS
<1>6. /\ tab \in [1 .. MaxAttempts -> {"none", "open", "sent", "closed"}]
      /\ nonce \in [1 .. MaxAttempts -> {"none", "pending", "confirmed"}]
      /\ \A m \in 1 .. MaxAttempts :
           /\ tabs[m] = "none" /\ nonces[m] = "none" => tab[m] = "none" /\ nonce[m] = "none"
           /\ nonce[m] = "confirmed" \/ tab[m] = "closed"
              => nonces[m] = "confirmed" \/ tabs[m] = "closed"
  <2>1. CASE Wake!Expire(n)
    BY <1>1, <1>3, <1>4, <1>5, <2>1 DEF Wake!Expire
  <2>2. CASE Wake!Click(n)
    BY <1>1, <1>3, <1>4, <1>5, <2>2 DEF Wake!Click
  <2>3. CASE Wake!CloseTab(n)
    BY <1>1, <1>3, <1>4, <1>5, <2>3 DEF Wake!CloseTab
  <2> QED BY <2>1, <2>2, <2>3
<1>7. WakeTyped'
  BY <1>2, <1>4, <1>5, <1>6 DEF WakeInv, WakeTyped, GatewayTyped
<1>8. AttemptsAre'
  BY <1>2 DEF WakeInv, AttemptsAre, Observed, Wake!OncePerReason
<1>9. TabsAre'
  <2>1. \A m \in 1 .. MaxAttempts : m > Len(attempts) => tab[m] = "none" /\ nonce[m] = "none"
    BY <1>6 DEF WakeInv, TabsAre
  <2>2. \A m \in 1 .. MaxAttempts :
          nonce[m] = "confirmed" \/ tab[m] = "closed" => gateway.exchange > attempts[m].exchange
    BY <1>6 DEF WakeInv, TabsAre, Wake!ConfirmedByContact, Wake!Attempts
  <2> QED BY <1>2, <1>4, <1>5, <2>1, <2>2 DEF TabsAre, Wake!ConfirmedByContact, Wake!Attempts
<1>10. \A id \in 1 .. MaxSupervisors : Watching(id, supervisors[id])'
  BY SMTT(30), <1>2 DEF WakeInv, Watching, Observed, Past, SameReason, Caused
<1> QED BY <1>7, <1>8, <1>9, <1>10 DEF WakeInv

\* Await: the outcome of an attempt.
LEMMA AwaitKeeps ==
  ASSUME WakeInv, NEW id \in Wake!Supervisors, Wake!Await(id)
  PROVE  WakeInv'
<1>1. PICK s : s = supervisors[id]
  OBVIOUS
<1>2. id \in 1 .. MaxSupervisors /\ s \in SupervisorRecord /\ Watching(id, s)
      /\ s.at = "outcome"
  BY <1>1 DEF Wake!Supervisors, Wake!Await, WakeInv, WakeTyped
<1>3. GatewayTyped(gateway) /\ s.failed = 0
  BY <1>2 DEF WakeInv, WakeTyped, Watching
<1>4. PICK a : a = attempts[s.attempt]
  OBVIOUS
<1>5. s.attempt \in DOMAIN attempts /\ a.by = id /\ SameReason(a, s) /\ a.exchange = s.exchange
      /\ a.head = s.head
  BY <1>2, <1>4 DEF Watching, SameReason
<1>6. PICK outcome \in {"not_needed", "confirmed", "pending"} :
        /\ nonces' = [nonces EXCEPT ![s.attempt] =
             IF outcome = "confirmed" THEN "confirmed" ELSE "none"]
        /\ supervisors' = [supervisors EXCEPT ![id] =
             IF outcome = "pending" THEN Wake!Failed(s)
             ELSE Wake!Again([s EXCEPT !.failed = 0])]
        /\ outcome = "confirmed" => gateway.exchange # s.exchange
        /\ outcome = "not_needed" => gateway.released \/ (~s.reconnect /\ gateway.queue = {})
  BY <1>1 DEF Wake!Await, Wake!Outcome
<1>7. UNCHANGED <<gateway, approval, admission, current, tabs, attempts, lapses>>
  BY DEF Wake!Await
<1>8. PICK failed \in {0, 1} : failed = IF outcome = "pending" THEN 1 ELSE 0
  OBVIOUS
<1>9. PICK v : v = [s EXCEPT !.failed = failed]
  OBVIOUS
<1>10. PICK u : u = Wake!Again(v)
  OBVIOUS
<1>11. supervisors' = [supervisors EXCEPT ![id] = u]
  <2>1. CASE outcome = "pending"
    <3>1. u = Wake!Failed(s)
      BY <1>8, <1>9, <1>10, <2>1 DEF Wake!Failed
    <3> QED BY <1>6, <2>1, <3>1
  <2>2. CASE outcome # "pending"
    <3>1. u = Wake!Again([s EXCEPT !.failed = 0])
      BY <1>8, <1>9, <1>10, <2>2
    <3> QED BY <1>6, <2>2, <3>1
  <2> QED BY <2>1, <2>2
<1>12. /\ u \in SupervisorRecord /\ u.failed = failed /\ u.stopped = s.stopped
       /\ u.exchange = s.exchange /\ u.head = s.head
       /\ u.at = IF s.stopped THEN "ended" ELSE "timer"
  BY <1>2, <1>9, <1>10, FailedIs, AgainIs
<1>13. outcome # "pending" => Past(a)
  <2>1. CASE outcome = "confirmed"
    BY <1>2, <1>3, <1>5, <1>6, <2>1, SupervisorIs, GatewayTypedIs DEF Watching, Past
  <2>2. CASE outcome = "not_needed"
    <3>1. CASE gateway.released
      BY <3>1 DEF Past
    <3>2. CASE ~s.reconnect /\ gateway.queue = {}
      BY <1>2, <1>5, <3>2 DEF Watching, Past
    <3> QED BY <1>6, <2>2, <3>1, <3>2
  <2> QED BY <2>1, <2>2
<1>14. Watching(id, u)
  <2>1. ASSUME NEW i \in DOMAIN attempts, attempts[i].by = id
        PROVE  \/ Past(attempts[i])
               \/ u.failed = 1 /\ attempts[i].exchange = u.exchange /\ attempts[i].head = u.head
    <3>1. CASE i = s.attempt
      BY <1>4, <1>5, <1>8, <1>12, <1>13, <3>1
    <3>2. CASE i # s.attempt
      BY <1>2, <1>3, <2>1, <3>2 DEF Watching
    <3> QED BY <3>1, <3>2
  <2>2. Caused(id, u)
    <3>1. a.by = id /\ a.exchange = u.exchange /\ u.head \in {0, a.head}
      BY <1>5, <1>12
    <3> QED BY <1>4, <1>5, <3>1 DEF Caused
  <2>3. \A i \in DOMAIN attempts : attempts[i].by = id /\ attempts[i].late => u.stopped /\ u.at = "ended"
    BY <1>2, <1>12 DEF Watching
  <2>4. u.exchange <= gateway.exchange /\ u.at \in {"timer", "ended"}
    BY <1>2, <1>12 DEF Watching
  <2> QED BY <2>1, <2>2, <2>3, <2>4 DEF Watching
<1>15. WakeTyped'
  <2>1. nonces' \in [1 .. MaxAttempts -> {"none", "pending", "confirmed"}]
    BY <1>6 DEF WakeInv, WakeTyped
  <2>2. supervisors' \in [1 .. MaxSupervisors -> SupervisorRecord]
    BY <1>11, <1>12 DEF WakeInv, WakeTyped
  <2> QED BY <1>7, <2>1, <2>2 DEF WakeInv, WakeTyped, GatewayTyped
<1>16. AttemptsAre'
  BY <1>7 DEF WakeInv, AttemptsAre, Observed, Wake!OncePerReason
<1>17. TabsAre'
  <2>1. PICK nonce : nonce = nonces'
    OBVIOUS
  <2>2. nonces \in [1 .. MaxAttempts -> {"none", "pending", "confirmed"}]
        /\ Len(attempts) <= MaxAttempts /\ DOMAIN attempts = 1 .. Len(attempts)
        /\ Len(attempts) \in Nat /\ MaxAttempts \in Nat
    BY WakeAssumed DEF WakeInv, WakeTyped
  <2>3. \A m \in 1 .. MaxAttempts : m # s.attempt => nonce[m] = nonces[m]
    BY <1>6, <2>1, <2>2
  <2>4. nonce[s.attempt] = "confirmed" => gateway.exchange > attempts[s.attempt].exchange
    <3>1. SUFFICES ASSUME nonce[s.attempt] = "confirmed" PROVE gateway.exchange > a.exchange
      BY <1>4
    <3>2. outcome = "confirmed"
      BY <1>5, <1>6, <2>1, <2>2, <3>1
    <3> QED BY <1>2, <1>3, <1>5, <1>6, <3>2, SupervisorIs, GatewayTypedIs DEF Watching
  <2>5. \A m \in 1 .. MaxAttempts : m > Len(attempts) => tabs[m] = "none" /\ nonce[m] = "none"
    BY <1>5, <2>2, <2>3 DEF WakeInv, TabsAre
  <2>6. \A m \in 1 .. MaxAttempts :
          nonce[m] = "confirmed" \/ tabs[m] = "closed" => gateway.exchange > attempts[m].exchange
    BY <2>3, <2>4 DEF WakeInv, TabsAre, Wake!ConfirmedByContact, Wake!Attempts
  <2> QED BY <1>7, <2>1, <2>5, <2>6 DEF TabsAre, Wake!ConfirmedByContact, Wake!Attempts
<1>18. \A m \in 1 .. MaxSupervisors : Watching(m, supervisors[m])'
  <2>1. ASSUME NEW m \in 1 .. MaxSupervisors  PROVE Watching(m, supervisors[m])'
    <3>1. PICK w : w = supervisors'[m]
      OBVIOUS
    <3>2. Watching(m, w)
      BY <1>2, <1>11, <1>14, <3>1 DEF WakeInv, WakeTyped
    <3>3. Watching(m, w)'
      BY <1>7, <3>2 DEF Watching, Observed, Past, SameReason, Caused
    <3> QED BY <3>1, <3>3 DEF Watching, Observed, Past, SameReason, Caused
  <2> QED BY <2>1
<1> QED BY <1>15, <1>16, <1>17, <1>18 DEF WakeInv

\* LookFails: a look at the status that fails is a cause of its own.
LEMMA LookFailsKeeps ==
  ASSUME WakeInv, NEW id \in Wake!Supervisors, Wake!LookFails(id)
  PROVE  WakeInv'
<1>1. PICK s : s = supervisors[id]
  OBVIOUS
<1>2. id \in 1 .. MaxSupervisors /\ s \in SupervisorRecord /\ Watching(id, s)
      /\ s.at \in {"timer", "grace", "outcome"}
  BY <1>1 DEF Wake!Supervisors, Wake!LookFails, WakeInv, WakeTyped
<1>3. PICK v : v = [s EXCEPT !.failed = 1]
  OBVIOUS
<1>4. PICK u : u = Wake!Again(v)
  OBVIOUS
<1>5. supervisors' = [supervisors EXCEPT ![id] = u]
  <2>1. u = Wake!Failed(s)
    BY <1>3, <1>4 DEF Wake!Failed
  <2>2. supervisors' = [supervisors EXCEPT ![id] = Wake!Failed(s)]
    BY <1>1 DEF Wake!LookFails
  <2> QED BY <2>1, <2>2
<1>6. /\ u \in SupervisorRecord /\ u.failed = 1 /\ u.stopped = s.stopped
      /\ u.exchange = s.exchange /\ u.head = s.head
      /\ u.at = IF s.stopped THEN "ended" ELSE "timer"
  BY <1>2, <1>3, <1>4, FailedIs, AgainIs
<1>7. PICK lapse : lapse = [by |-> id, exchange |-> s.exchange, head |-> s.head]
  OBVIOUS
<1>8. /\ lapses' = lapses \union {lapse} /\ Wake!Cardinality(lapses') <= MaxLapses
      /\ UNCHANGED <<gateway, approval, admission, current, tabs, nonces, attempts>>
  BY <1>1, <1>7 DEF Wake!LookFails
<1>9. WakeTyped'
  <2>1. supervisors' \in [1 .. MaxSupervisors -> SupervisorRecord]
    BY <1>5, <1>6 DEF WakeInv, WakeTyped
  <2> QED BY <1>8, <2>1 DEF WakeInv, WakeTyped, GatewayTyped
<1>10. AttemptsAre'
  BY <1>8 DEF WakeInv, AttemptsAre, Observed, Wake!OncePerReason
<1>11. TabsAre'
  BY <1>8 DEF WakeInv, TabsAre, Wake!ConfirmedByContact
<1>12. Watching(id, u)'
  <2>1. ASSUME NEW i \in DOMAIN attempts, attempts[i].by = id
        PROVE  \/ Past(attempts[i])
               \/ u.failed = 1 /\ attempts[i].exchange = u.exchange /\ attempts[i].head = u.head
    <3>1. CASE s.at = "outcome" /\ i = s.attempt
      BY <1>2, <1>6, <3>1 DEF Watching, SameReason
    <3>2. CASE ~(s.at = "outcome" /\ i = s.attempt)
      BY <1>2, <1>6, <2>1, <3>2 DEF Watching
    <3> QED BY <3>1, <3>2
  <2>2. Caused(id, u)'
    <3>1. lapse.by = id /\ lapse.exchange = u.exchange /\ u.head \in {0, lapse.head}
      BY <1>6, <1>7
    <3> QED BY <1>8, <3>1 DEF Caused
  <2>3. \A i \in DOMAIN attempts : attempts[i].by = id /\ attempts[i].late => u.stopped /\ u.at = "ended"
    BY <1>2, <1>6 DEF Watching
  <2>4. u.exchange <= gateway.exchange /\ u.at \in {"timer", "ended"}
    BY <1>2, <1>6 DEF Watching
  <2> QED BY <1>8, <2>1, <2>2, <2>3, <2>4 DEF Watching, Past
<1>13. ASSUME NEW m \in 1 .. MaxSupervisors  PROVE Watching(m, supervisors[m])'
  <2>1. PICK w : w = supervisors'[m]
    OBVIOUS
  <2>2. CASE m = id
    <3>1. w = u
      BY <1>2, <1>5, <2>1, <2>2 DEF WakeInv, WakeTyped
    <3> QED BY <1>12, <2>1, <2>2, <3>1 DEF Watching, Observed, Past, SameReason, Caused
  <2>3. CASE m # id
    <3>1. Watching(m, w)
      BY <1>5, <2>1, <2>3 DEF WakeInv, WakeTyped
    <3>2. Caused(m, w) => Caused(m, w)'
      BY <1>8 DEF Caused
    <3>3. Watching(m, w)'
      BY <1>8, <3>1, <3>2 DEF Watching, Observed, Past, SameReason
    <3> QED BY <2>1, <3>3 DEF Watching, Observed, Past, SameReason, Caused
  <2> QED BY <2>2, <2>3
<1> QED BY <1>9, <1>10, <1>11, <1>13 DEF WakeInv

\* A tab, or the attempt at one, for a status that was never tried before.
LEMMA OpenTabKeeps ==
  ASSUME WakeInv, NEW id \in Wake!Supervisors, Wake!OpenTab(id)
  PROVE  WakeInv'
<1>1. PICK s : s = supervisors[id]
  OBVIOUS
<1>2. id \in 1 .. MaxSupervisors /\ s \in SupervisorRecord /\ Watching(id, s)
      /\ s.at = "driver"
  BY <1>1 DEF Wake!Supervisors, Wake!OpenTab, WakeInv, WakeTyped
<1>3. GatewayTyped(gateway) /\ s.failed = 0
  BY <1>2 DEF WakeInv, WakeTyped, Watching
<1>4. PICK all : all = attempts
  OBVIOUS
<1>5. PICK n : n = Len(all) + 1
  OBVIOUS
<1>6. PICK a : a = Wake!Reason(id)
  OBVIOUS
<1>7. /\ a = [by |-> id, exchange |-> s.exchange, created |-> s.created, head |-> s.head,
              late |-> s.stopped]
      /\ a \in ReasonRecord
  BY <1>1, <1>2, <1>6, SupervisorIs DEF Wake!Reason, ReasonRecord
<1>8. a.by = id /\ a.exchange = s.exchange /\ a.created = s.created /\ a.head = s.head
      /\ a.late = s.stopped
  BY <1>7
<1>9. /\ all \in Seq(ReasonRecord) /\ Len(all) \in Nat /\ n \in 1 .. MaxAttempts
      /\ DOMAIN all = 1 .. Len(all) /\ n \notin DOMAIN all /\ MaxAttempts \in Nat
  BY <1>4, <1>5, WakeAssumed DEF WakeInv, WakeTyped, Wake!OpenTab
<1>10. PICK more : more = attempts'
  OBVIOUS
<1>11. /\ more \in Seq(ReasonRecord) /\ Len(more) = n /\ DOMAIN more = 1 .. n /\ more[n] = a
       /\ \A i \in DOMAIN all : i \in DOMAIN more /\ more[i] = all[i]
       /\ \A i \in DOMAIN more : i = n \/ i \in DOMAIN all
  <2>1. more = Append(all, a)
    BY <1>4, <1>6, <1>10 DEF Wake!OpenTab
  <2> QED BY <1>5, <1>7, <1>9, <2>1
<1>12. UNCHANGED <<gateway, approval, admission, current, lapses>>
  BY DEF Wake!OpenTab
<1>13. PICK v : v = [s EXCEPT !.failed = 1]
  OBVIOUS
<1>15. PICK u :
         /\ supervisors' = [supervisors EXCEPT ![id] = u]
         /\ u \in SupervisorRecord /\ u.stopped = s.stopped
         /\ u.exchange = s.exchange /\ u.head = s.head
         /\ \/ /\ u.at = "outcome" /\ u.attempt = n /\ u.failed = 0
               /\ u.created = s.created /\ u.reconnect = s.reconnect
            \/ u.at = (IF s.stopped THEN "ended" ELSE "timer") /\ u.failed = 1
  <2>1. supervisors \in [1 .. MaxSupervisors -> SupervisorRecord]
    BY DEF WakeInv, WakeTyped
  <2>2. CASE supervisors' = [supervisors EXCEPT ![id] = Wake!Failed(@)]
    <3>1. supervisors' = [supervisors EXCEPT ![id] = Wake!Failed(s)]
      BY <1>1, <2>2
    <3>2. Wake!Failed(s) = Wake!Again(v)
      BY <1>13 DEF Wake!Failed
    <3>3. /\ v \in SupervisorRecord /\ v.failed = 1 /\ v.stopped = s.stopped
          /\ v.exchange = s.exchange /\ v.head = s.head
      BY <1>2, <1>13, FailedIs
    <3>4. /\ Wake!Again(v) \in SupervisorRecord /\ Wake!Again(v).failed = 1
          /\ Wake!Again(v).stopped = s.stopped
          /\ Wake!Again(v).exchange = s.exchange /\ Wake!Again(v).head = s.head
          /\ Wake!Again(v).at = IF s.stopped THEN "ended" ELSE "timer"
      BY <3>3, AgainIs
    <3> QED BY <3>1, <3>2, <3>4
  <2>3. CASE supervisors' = [supervisors EXCEPT ![id].at = "outcome", ![id].attempt = n]
    <3>1. s = [at |-> s.at, stopped |-> s.stopped, failed |-> s.failed, seen |-> s.seen,
               exchange |-> s.exchange, head |-> s.head, created |-> s.created,
               reconnect |-> s.reconnect, attempt |-> s.attempt]
      BY <1>2, SupervisorIs
    <3>2. PICK w : w = [at |-> "outcome", stopped |-> s.stopped, failed |-> s.failed,
                        seen |-> s.seen, exchange |-> s.exchange, head |-> s.head,
                        created |-> s.created, reconnect |-> s.reconnect, attempt |-> n]
      OBVIOUS
    <3>3. supervisors' = [supervisors EXCEPT ![id] = w]
      <4>1. PICK first : first = [supervisors EXCEPT ![id].at = "outcome"]
        OBVIOUS
      <4>2. first[id] = [s EXCEPT !.at = "outcome"] /\ DOMAIN first = 1 .. MaxSupervisors
        BY <1>1, <1>2, <2>1, <4>1
      <4>3. first[id] = [at |-> "outcome", stopped |-> s.stopped, failed |-> s.failed,
                         seen |-> s.seen, exchange |-> s.exchange, head |-> s.head,
                         created |-> s.created, reconnect |-> s.reconnect, attempt |-> s.attempt]
        BY <3>1, <4>2
      <4>4. PICK e : e = first[id]
        OBVIOUS
      <4>5. [e EXCEPT !.attempt = n] = w
        <5>1. PICK moved : moved = [e EXCEPT !.attempt = n]
          OBVIOUS
        <5>2. moved = [at |-> "outcome", stopped |-> s.stopped, failed |-> s.failed,
                       seen |-> s.seen, exchange |-> s.exchange, head |-> s.head,
                       created |-> s.created, reconnect |-> s.reconnect, attempt |-> n]
          BY <4>3, <4>4, <5>1
        <5> QED BY <3>2, <5>1, <5>2
      <4>6. supervisors' = [first EXCEPT ![id].attempt = n]
        BY <2>3, <4>1
      <4>7. supervisors' = [first EXCEPT ![id] = w]
        BY <4>4, <4>5, <4>6
      <4>8. supervisors' = [[supervisors EXCEPT ![id].at = "outcome"] EXCEPT ![id] = w]
        BY <4>1, <4>7
      <4> QED BY <1>2, <2>1, <4>8
    <3>4. /\ w \in SupervisorRecord /\ w.stopped = s.stopped /\ w.exchange = s.exchange
          /\ w.head = s.head /\ w.at = "outcome" /\ w.attempt = n /\ w.failed = 0
          /\ w.created = s.created /\ w.reconnect = s.reconnect
      BY <1>2, <1>3, <1>9, <3>2, SupervisorIs DEF SupervisorRecord, Places
    <3> QED BY <3>3, <3>4
  <2> QED BY <1>4, <1>5, <2>2, <2>3 DEF Wake!OpenTab
<1>16. /\ tabs' \in [1 .. MaxAttempts -> {"none", "open", "sent", "closed"}]
       /\ nonces' \in [1 .. MaxAttempts -> {"none", "pending", "confirmed"}]
       /\ \A m \in 1 .. MaxAttempts :
            /\ m # n => tabs'[m] = tabs[m] /\ nonces'[m] = nonces[m]
            /\ nonces'[n] # "confirmed" /\ tabs'[n] # "closed"
  <2>1. tabs \in [1 .. MaxAttempts -> {"none", "open", "sent", "closed"}]
        /\ nonces \in [1 .. MaxAttempts -> {"none", "pending", "confirmed"}]
        /\ tabs[n] = "none" /\ nonces[n] = "none"
    BY <1>4, <1>5, <1>9 DEF WakeInv, WakeTyped, TabsAre
  <2>2. nonces' = [nonces EXCEPT ![n] = "pending"] \/ nonces' = nonces
    BY <1>4, <1>5 DEF Wake!OpenTab
  <2>3. tabs' = [tabs EXCEPT ![n] = "open"] \/ tabs' = tabs
    BY <1>4, <1>5 DEF Wake!OpenTab
  <2> QED BY <1>9, <2>1, <2>2, <2>3
<1>17. WakeTyped'
  <2>1. supervisors' \in [1 .. MaxSupervisors -> SupervisorRecord]
    BY <1>15 DEF WakeInv, WakeTyped
  <2>2. attempts' \in Seq(ReasonRecord) /\ Len(attempts') <= MaxAttempts
    BY <1>9, <1>10, <1>11
  <2> QED BY <1>12, <1>16, <2>1, <2>2 DEF WakeInv, WakeTyped, GatewayTyped
<1>18. AttemptsAre'
  <2>1. Observed(a)
    BY <1>2, <1>8 DEF Watching, Observed
  <2>2. \A i \in DOMAIN more : Observed(more[i])
    BY <1>4, <1>11, <2>1 DEF WakeInv, AttemptsAre
  <2>3. \A i \in DOMAIN all : all[i].by = id => ~SameReason(all[i], a) /\ ~all[i].late
    BY <1>2, <1>4, <1>8 DEF Watching, SameReason
  <2>4. ASSUME NEW i \in DOMAIN more, NEW j \in DOMAIN more, i < j
        PROVE  \/ more[i].by # more[j].by
               \/ <<more[i].exchange, more[i].created, more[i].head>>
                    # <<more[j].exchange, more[j].created, more[j].head>>
    <3>1. i \in DOMAIN all
      BY <1>9, <1>11, <2>4
    <3>2. CASE j = n
      BY <1>8, <1>11, <2>3, <3>1, <3>2 DEF SameReason
    <3>3. CASE j # n
      <4>1. j \in DOMAIN all /\ more[i] = all[i] /\ more[j] = all[j]
        BY <1>11, <3>1, <3>3
      <4> QED BY <1>4, <2>4, <3>1, <4>1 DEF WakeInv, AttemptsAre, Wake!OncePerReason
    <3> QED BY <3>2, <3>3
  <2>5. ASSUME NEW i \in DOMAIN more, NEW j \in DOMAIN more, more[i].late, more[j].late,
               more[i].by = more[j].by
        PROVE  i = j
    <3>1. CASE i = n /\ j \in DOMAIN all
      BY <1>8, <1>11, <2>3, <2>5, <3>1
    <3>2. CASE j = n /\ i \in DOMAIN all
      BY <1>8, <1>11, <2>3, <2>5, <3>2
    <3>3. CASE i \in DOMAIN all /\ j \in DOMAIN all
      BY <1>4, <1>11, <2>5, <3>3 DEF WakeInv, AttemptsAre
    <3> QED BY <1>11, <3>1, <3>2, <3>3
  <2>6. \A i \in DOMAIN more : Observed(more[i])'
    BY <1>12, <2>2 DEF Observed
  <2> QED BY <1>10, <2>4, <2>5, <2>6 DEF AttemptsAre, Wake!OncePerReason, Observed
<1>19. TabsAre'
  <2>1. \A m \in 1 .. MaxAttempts : m > Len(more) => tabs'[m] = "none" /\ nonces'[m] = "none"
    BY <1>4, <1>5, <1>9, <1>11, <1>16 DEF WakeInv, TabsAre
  <2>2. \A m \in 1 .. MaxAttempts :
          nonces'[m] = "confirmed" \/ tabs'[m] = "closed" => gateway.exchange > more[m].exchange
    <3>1. ASSUME NEW m \in 1 .. MaxAttempts, nonces'[m] = "confirmed" \/ tabs'[m] = "closed"
          PROVE  gateway.exchange > more[m].exchange
      <4>1. m # n /\ (nonces[m] = "confirmed" \/ tabs[m] = "closed")
        BY <1>9, <1>16, <3>1
      <4>2. gateway.exchange > all[m].exchange
        BY <1>4, <4>1 DEF WakeInv, TabsAre, Wake!ConfirmedByContact, Wake!Attempts
      <4>3. m \in DOMAIN all
        BY <1>4, <1>9, <4>1 DEF WakeInv, TabsAre
      <4> QED BY <1>11, <4>2, <4>3
    <3> QED BY <3>1
  <2> QED BY <1>10, <1>12, <2>1, <2>2 DEF TabsAre, Wake!ConfirmedByContact, Wake!Attempts
<1>20. ASSUME NEW m \in 1 .. MaxSupervisors  PROVE Watching(m, supervisors[m])'
  <2>1. PICK w : w = supervisors'[m]
    OBVIOUS
  <2>2. CASE m # id
    <3>1. Watching(m, w)
      BY <1>15, <2>1, <2>2 DEF WakeInv, WakeTyped
    <3>2. \A i \in DOMAIN more : more[i].by = m => i \in DOMAIN all /\ more[i] = all[i]
      BY <1>8, <1>11, <2>2
    <3>3. Caused(m, w) => Caused(m, w)'
      BY <1>4, <1>10, <1>11, <1>12 DEF Caused
    <3>4. Watching(m, w)'
      BY SMTT(30), <1>4, <1>10, <1>11, <1>12, <3>1, <3>2, <3>3
      DEF Watching, Observed, Past, SameReason
    <3> QED BY <2>1, <3>4 DEF Watching, Observed, Past, SameReason, Caused
  <2>3. CASE m = id
    <3>1. w = u
      BY <1>2, <1>15, <2>1, <2>3 DEF WakeInv, WakeTyped
    <3>2. u.exchange <= gateway.exchange /\ u.at # "driver" /\ u.at # "grace"
      BY <1>2, <1>15 DEF Watching
    <3>3. u.at = "outcome" =>
            /\ u.failed = 0 /\ (u.reconnect \/ u.head # 0) /\ u.attempt \in DOMAIN more
            /\ more[u.attempt].by = id /\ SameReason(more[u.attempt], u)
      BY <1>2, <1>8, <1>9, <1>11, <1>15 DEF Watching, SameReason
    <3>4. \A i \in DOMAIN more : more[i].by = id =>
            \/ Past(more[i])
            \/ u.at = "outcome" /\ i = u.attempt
            \/ u.failed = 1 /\ more[i].exchange = u.exchange /\ more[i].head = u.head
      <4>1. \A i \in DOMAIN all : all[i].by = id => Past(all[i])
        BY <1>2, <1>3, <1>4 DEF Watching
      <4> QED BY <1>8, <1>11, <1>15, <4>1
    <3>5. Caused(id, u)'
      <4>1. n \in DOMAIN more /\ more[n] = a
        BY <1>9, <1>11
      <4>2. a.by = id /\ a.exchange = u.exchange /\ u.head \in {0, a.head}
        BY <1>8, <1>15
      <4> QED BY <1>10, <4>1, <4>2 DEF Caused
    <3>6. \A i \in DOMAIN more : more[i].by = id /\ more[i].late =>
            u.stopped /\ u.at \in {"outcome", "ended"}
      <4>1. \A i \in DOMAIN all : all[i].by = id => ~all[i].late
        BY <1>2, <1>4 DEF Watching
      <4> QED BY <1>8, <1>11, <1>15, <4>1
    <3>7. Watching(id, u)'
      BY <1>10, <1>12, <3>2, <3>3, <3>4, <3>5, <3>6 DEF Watching, Past
    <3> QED BY <2>1, <2>3, <3>1, <3>7 DEF Watching, Observed, Past, SameReason, Caused
  <2> QED BY <2>2, <2>3
<1> QED BY <1>17, <1>18, <1>19, <1>20 DEF WakeInv

-----------------------------------------------------------------------------
\* The sizes of sets, there and here.
LEMMA WakeCardinality ==
  ASSUME NEW S
  PROVE  Wake!Cardinality(S) = Cardinality(S)
BY DEF Wake!Cardinality, Cardinality

\* Nobody waits and nobody watches.
LEMMA WakeInitial ==
  ASSUME Wake!Init
  PROVE  WakeInv
<1>1. /\ gateway = [queue |-> {}, created |-> 0, claim |-> 0, exchange |-> 0, recent |-> FALSE,
                    idle |-> FALSE, polling |-> FALSE, released |-> FALSE]
      /\ approval \in BOOLEAN /\ admission = approval /\ current = 0 /\ attempts = <<>>
      /\ lapses = {}
      /\ tabs = [n \in 1 .. MaxAttempts |-> "none"] /\ nonces = [n \in 1 .. MaxAttempts |-> "none"]
      /\ supervisors = [id \in 1 .. MaxSupervisors |-> Wake!NoSupervisor]
  BY DEF Wake!Init, Wake!Attempts, Wake!Supervisors
<1>2. GatewayTyped(gateway)
  BY <1>1, WakeAssumed DEF GatewayTyped, GatewayRecord
<1>3. PICK s : s = Wake!NoSupervisor
  OBVIOUS
<1>4. s = [at |-> "none", stopped |-> FALSE, failed |-> 0, seen |-> FALSE, exchange |-> 0,
           head |-> 0, created |-> 0, reconnect |-> FALSE, attempt |-> 0]
  BY <1>3 DEF Wake!NoSupervisor, Wake!NoHead
<1>5. s \in SupervisorRecord
  BY <1>4, WakeAssumed DEF SupervisorRecord, Places
<1>6. DOMAIN attempts = {} /\ attempts \in Seq(ReasonRecord) /\ Len(attempts) = 0
  BY <1>1
<1>7. WakeTyped
  <2>1. current \in 0 .. MaxSupervisors /\ Len(attempts) <= MaxAttempts
    BY <1>1, <1>6, WakeAssumed
  <2>2. Wake!Cardinality(lapses) <= MaxLapses
    BY <1>1, WakeCardinality, FS_EmptySet, WakeAssumed
  <2> QED BY <1>1, <1>2, <1>3, <1>5, <1>6, <2>1, <2>2 DEF WakeTyped
<1>8. AttemptsAre
  BY <1>6 DEF AttemptsAre, Wake!OncePerReason
<1>9. TabsAre
  BY <1>1 DEF TabsAre, Wake!ConfirmedByContact, Wake!Attempts
<1>10. \A id \in 1 .. MaxSupervisors : Watching(id, supervisors[id])
  <2>1. s.exchange <= gateway.exchange
    BY <1>1, <1>4
  <2>2. \A id : Watching(id, s)
    BY <1>4, <1>6, <2>1 DEF Watching
  <2> QED BY <1>1, <1>3, <2>2
<1> QED BY <1>7, <1>8, <1>9, <1>10 DEF WakeInv

\* Every step of the wake keeps the invariant.
LEMMA WakeInductive ==
  ASSUME WakeInv, Wake!Next
  PROVE  WakeInv'
<1>1. CASE \/ Wake!Enqueue \/ Wake!Exchange \/ Wake!EndPoll \/ Wake!Wait \/ Wake!GrowStale
           \/ Wake!Release \/ \E r \in Wake!Requests : Wake!EndRequest(r)
  BY <1>1, GatewaySteps, GatewayKeeps DEF WakeInv
<1>2. CASE Wake!Approve
  BY <1>2, ApproveKeeps
<1>3. CASE Wake!Refresh
  BY <1>3, RefreshKeeps
<1>4. ASSUME NEW id \in Wake!Supervisors,
             \/ Wake!Look(id) \/ Wake!LookAgain(id) \/ Wake!OpenTab(id) \/ Wake!Await(id)
             \/ Wake!LookFails(id)
      PROVE  WakeInv'
  BY <1>4, LookKeeps, LookAgainKeeps, OpenTabKeeps, AwaitKeeps, LookFailsKeeps
<1>5. ASSUME NEW n \in Wake!Attempts, Wake!Expire(n) \/ Wake!Click(n) \/ Wake!CloseTab(n)
      PROVE  WakeInv'
  BY <1>5, BrowserKeeps
<1> QED BY <1>1, <1>2, <1>3, <1>4, <1>5 DEF Wake!Next

\* So does a step of nothing.
LEMMA WakeUnchanged ==
  ASSUME WakeInv, UNCHANGED wakeVars
  PROVE  WakeInv'
<1>1. /\ UNCHANGED <<gateway, tabs, nonces, attempts, lapses>>
      /\ UNCHANGED <<approval, admission, current, supervisors>>
  BY DEF wakeVars
<1>2. /\ approval' \in BOOLEAN /\ admission' \in BOOLEAN /\ current' \in 0 .. MaxSupervisors
      /\ supervisors' \in [1 .. MaxSupervisors -> SupervisorRecord]
  BY <1>1 DEF WakeInv, WakeTyped
<1>3. \A id \in 1 .. MaxSupervisors : Watching(id, supervisors'[id])
  BY <1>1 DEF WakeInv
<1> QED BY <1>1, <1>2, <1>3, SupervisorsKeep

\* The invariant implies the properties.
LEMMA WakeContained ==
  ASSUME WakeInv
  PROVE  /\ Wake!TypeOK /\ Wake!OncePerReason /\ Wake!SuspendedForCause
         /\ Wake!ConfirmedByContact /\ Wake!OneTabAfterClose
<1>1. Wake!TypeOK
  <2>1. GatewayTyped(gateway)
    BY DEF WakeInv, WakeTyped
  <2>2. gateway.queue \subseteq 1 .. gateway.created /\ gateway.claim \in 0 .. gateway.created
        /\ gateway.exchange \in 0 .. MaxExchanges
    BY <2>1, GatewayTypedIs
  <2>3. \A id \in 1 .. MaxSupervisors :
          supervisors[id].at \in Places /\ supervisors[id].failed \in {0, 1}
    BY SupervisorTyped, SupervisorIs DEF WakeInv
  <2>4. \A id \in 1 .. MaxSupervisors :
          /\ supervisors[id].at \in {"none", "timer", "grace", "driver", "outcome", "ended"}
          /\ supervisors[id].failed \in 0 .. 1
    BY <2>3 DEF Places
  <2> QED BY <2>2, <2>4 DEF WakeInv, WakeTyped, Wake!TypeOK, Wake!Attempts, Wake!Supervisors
<1>2. Wake!SuspendedForCause
  <2>1. ASSUME NEW id \in 1 .. MaxSupervisors, supervisors[id].failed = 1
        PROVE  Caused(id, supervisors[id])
    BY <2>1 DEF WakeInv, Watching
  <2> QED BY <2>1 DEF Caused, Wake!SuspendedForCause, Wake!NoHead, Wake!Supervisors
<1>3. Wake!OneTabAfterClose
  <2>1. ASSUME NEW id \in Wake!Supervisors
        PROVE  Wake!Cardinality({i \in DOMAIN attempts : attempts[i].by = id /\ attempts[i].late}) <= 1
    <3>1. PICK S : S = {i \in DOMAIN attempts : attempts[i].by = id /\ attempts[i].late}
      OBVIOUS
    <3>2. \A i, j \in S : i = j
      BY <3>1 DEF WakeInv, AttemptsAre
    <3>3. S = {} \/ \E i : S = {i}
      BY <3>2
    <3>4. Cardinality(S) = 0 \/ Cardinality(S) = 1
      BY <3>3, FS_EmptySet, FS_Singleton
    <3> QED BY <3>1, <3>4, WakeCardinality
  <2> QED BY <2>1 DEF Wake!OneTabAfterClose
<1> QED BY <1>1, <1>2, <1>3 DEF WakeInv, AttemptsAre, TabsAre

\* Of the part that it is here.
WakePart == part = "wake" => WakeInv

\* No other part touches it.
LEMMA WakePartInvariant == ServicesSpec => []WakePart
<1>1. ServicesInit => WakePart
  BY WakeInitial DEF ServicesInit, Chosen, WakePart
<1>2. WakePart /\ [ServicesNext]_vars => WakePart'
  <2> SUFFICES ASSUME WakePart, [ServicesNext]_vars, part' = "wake"
               PROVE  WakeInv'
    BY DEF WakePart
  <2>1. CASE WakeNext
    BY <2>1, WakeInductive DEF WakePart, WakeNext
  <2>2. CASE part' = part /\ UNCHANGED wakeVars
    BY <2>2, WakeUnchanged DEF WakePart
  <2>3. part' = part /\ (part = "wake" => WakeNext \/ UNCHANGED wakeVars)
    BY DEF ServicesNext, vars, hostVars, SchedulingNext, MemoryNext, TokensNext, ConsentNext, McpNext,
      ActivityNext, AuditNext, GraphNext, JobsNext, WakeNext, LaunchNext, CliNext, HostNext,
      DomainNext, TalkNext, LocalNext, HelperNext, BrowserNext, InstallNext, UpgradeNext,
      LinksNext, ListenerNext, RunNext, WaitsNext
  <2> QED BY <2>1, <2>2, <2>3
<1> QED BY <1>1, <1>2, PTL DEF ServicesSpec

-----------------------------------------------------------------------------
(* Calls that wait for a change of the gateway store (GatewayWaits). *)

\* What a call that waits knows.
WaitRecord ==
  [phase : {"looping", "noted", "looked", "asleep", "over"},
   observed : 0 .. MaxMutations, saw : 0 .. MaxMutations]

\* A call that has looked since the last announcement has seen what it announced.
UpToDate(w, call_) ==
  /\ call_ \in WaitRecord /\ call_.observed <= changeRevision
  /\ call_.phase = "looked" /\ call_.observed = changeRevision => call_.saw >= announced
  /\ call_.phase = "asleep" => call_.saw >= announced /\ w \notin gaveUp

\* The inductive invariant of the calls that wait.
WaitsInv ==
  /\ durable \in 0 .. MaxMutations /\ announced \in 0 .. durable
  /\ changeRevision \in 0 .. durable /\ mutation \in {"idle", "saved"}
  /\ mutation = "saved" => changeRevision < durable
  /\ gaveUp \subseteq Waiters
  /\ waits \in [Waiters -> WaitRecord]
  /\ \A w \in Waiters : UpToDate(w, waits[w])

\* The bound.
LEMMA WaitsAssumed == MaxMutations \in Nat
BY PartsAssumption DEF Sleeping!WaitsAssumption

\* The fields of a call.
LEMMA WaitRecordIs ==
  ASSUME NEW c \in WaitRecord
  PROVE  /\ c.phase \in {"looping", "noted", "looked", "asleep", "over"}
         /\ c.observed \in 0 .. MaxMutations /\ c.saw \in 0 .. MaxMutations
         /\ c = [phase |-> c.phase, observed |-> c.observed, saw |-> c.saw]
BY DEF WaitRecord

\* Nothing has changed yet.
LEMMA WaitsInitial ==
  ASSUME Sleeping!Init
  PROVE  WaitsInv
<1>1. /\ durable = 0 /\ announced = 0 /\ changeRevision = 0 /\ mutation = "idle" /\ gaveUp = {}
      /\ waits = [w \in Waiters |-> [phase |-> "looping", observed |-> 0, saw |-> 0]]
  BY DEF Sleeping!Init
<1>2. [phase |-> "looping", observed |-> 0, saw |-> 0] \in WaitRecord
  BY WaitsAssumed DEF WaitRecord
<1>3. waits \in [Waiters -> WaitRecord] /\ \A w \in Waiters : UpToDate(w, waits[w])
  BY <1>1, <1>2 DEF UpToDate
<1> QED BY <1>1, <1>3, WaitsAssumed DEF WaitsInv

\* A step of one call: nothing changes but what it knows.
LEMMA CallMoves ==
  ASSUME WaitsInv, NEW w \in Waiters, NEW c \in WaitRecord, UpToDate(w, c),
         waits' = [waits EXCEPT ![w] = c],
         UNCHANGED <<durable, announced, changeRevision, mutation, gaveUp>>
  PROVE  WaitsInv'
<1>1. waits' \in [Waiters -> WaitRecord]
  BY DEF WaitsInv
<1>2. \A v \in Waiters : UpToDate(v, waits'[v])
  BY DEF WaitsInv
<1>3. \A v \in Waiters : UpToDate(v, waits[v])'
  BY <1>2 DEF UpToDate
<1> QED BY <1>1, <1>3 DEF WaitsInv

\* A call notes the revision, looks, and answers or sleeps.
LEMMA CallKeeps ==
  ASSUME WaitsInv, NEW w \in Waiters,
         \/ Sleeping!Note(w) \/ Sleeping!Look(w) \/ Sleeping!Answer(w)
         \/ Sleeping!waitForChange(w) \/ Sleeping!TimeOut(w)
  PROVE  WaitsInv'
<1>1. PICK b : b = waits[w]
  OBVIOUS
<1>2. /\ b \in WaitRecord /\ UpToDate(w, b)
      /\ durable \in 0 .. MaxMutations /\ announced \in 0 .. durable
      /\ changeRevision \in 0 .. durable /\ MaxMutations \in Nat
  BY <1>1, WaitsAssumed DEF WaitsInv
<1>3. b = [phase |-> b.phase, observed |-> b.observed, saw |-> b.saw]
  BY <1>2, WaitRecordIs
<1>4. SUFFICES ASSUME TRUE
               PROVE  \E c \in WaitRecord : UpToDate(w, c) /\ waits' = [waits EXCEPT ![w] = c]
  <2>1. UNCHANGED <<durable, announced, changeRevision, mutation, gaveUp>>
    BY DEF Sleeping!Note, Sleeping!Look, Sleeping!Answer, Sleeping!waitForChange,
      Sleeping!TimeOut, Sleeping!Step
  <2> QED BY <2>1, CallMoves
<1>5. ASSUME NEW phase_ \in {"looping", "noted", "over"}, NEW observed \in 0 .. MaxMutations,
             observed <= changeRevision,
             waits' = [waits EXCEPT ![w] = [phase |-> phase_, observed |-> observed, saw |-> b.saw]]
      PROVE  \E c \in WaitRecord : UpToDate(w, c) /\ waits' = [waits EXCEPT ![w] = c]
  <2>1. [phase |-> phase_, observed |-> observed, saw |-> b.saw] \in WaitRecord
    BY <1>2, WaitRecordIs DEF WaitRecord
  <2>2. UpToDate(w, [phase |-> phase_, observed |-> observed, saw |-> b.saw])
    BY <1>5, <2>1 DEF UpToDate
  <2> QED BY <1>5, <2>1, <2>2
<1>6. b.observed \in 0 .. MaxMutations /\ b.observed <= changeRevision
      /\ changeRevision \in 0 .. MaxMutations
  BY <1>2, WaitRecordIs DEF UpToDate
<1>7. CASE Sleeping!Note(w)
  <2>1. CASE w \in gaveUp
    <3>1. waits' = [waits EXCEPT ![w] = [b EXCEPT !.phase = "over"]]
      BY <1>1, <1>7, <2>1 DEF Sleeping!Note, Sleeping!Step
    <3>2. [b EXCEPT !.phase = "over"] = [phase |-> "over", observed |-> b.observed, saw |-> b.saw]
      BY <1>3
    <3> QED BY <1>5, <1>6, <3>1, <3>2
  <2>2. CASE w \notin gaveUp
    <3>1. waits' = [waits EXCEPT ![w] = [b EXCEPT !.phase = "noted", !.observed = changeRevision]]
      BY <1>1, <1>7, <2>2 DEF Sleeping!Note, Sleeping!Step
    <3>2. PICK c : c = [b EXCEPT !.phase = "noted", !.observed = changeRevision]
      OBVIOUS
    <3>3. c = [phase |-> "noted", observed |-> changeRevision, saw |-> b.saw]
      BY <1>3, <3>2
    <3>4. waits' = [waits EXCEPT ![w] = [phase |-> "noted", observed |-> changeRevision,
                                         saw |-> b.saw]]
      BY <3>1, <3>2, <3>3
    <3>5. changeRevision <= changeRevision
      BY <1>2
    <3> QED BY <1>5, <1>6, <3>4, <3>5
  <2> QED BY <2>1, <2>2
<1>8. CASE Sleeping!Answer(w)
  <2>1. waits' = [waits EXCEPT ![w] = [b EXCEPT !.phase = "over"]]
    BY <1>1, <1>8 DEF Sleeping!Answer, Sleeping!Step
  <2>2. [b EXCEPT !.phase = "over"] = [phase |-> "over", observed |-> b.observed, saw |-> b.saw]
    BY <1>3
  <2> QED BY <1>5, <1>6, <2>1, <2>2
<1>9. CASE Sleeping!TimeOut(w)
  <2>1. waits' = [waits EXCEPT ![w] = [b EXCEPT !.phase = "looping"]]
    BY <1>1, <1>9 DEF Sleeping!TimeOut, Sleeping!Step
  <2>2. [b EXCEPT !.phase = "looping"] = [phase |-> "looping", observed |-> b.observed, saw |-> b.saw]
    BY <1>3
  <2> QED BY <1>5, <1>6, <2>1, <2>2
<1>10. CASE Sleeping!Look(w)
  <2>1. PICK c : c = [b EXCEPT !.phase = "looked", !.saw = durable]
    OBVIOUS
  <2>2. c = [phase |-> "looked", observed |-> b.observed, saw |-> durable]
    BY <1>3, <2>1
  <2>3. c \in WaitRecord
    BY <1>2, <1>6, <2>2 DEF WaitRecord
  <2>4. UpToDate(w, c)
    BY <1>2, <1>6, <2>2, <2>3 DEF UpToDate
  <2>5. waits' = [waits EXCEPT ![w] = c]
    BY <1>1, <1>10, <2>1 DEF Sleeping!Look, Sleeping!Step
  <2> QED BY <2>3, <2>4, <2>5
<1>11. CASE Sleeping!waitForChange(w)
  <2>1. CASE w \in gaveUp \/ Sleeping!Missed(w)
    <3>1. PICK phase_ \in {"looping", "over"} : phase_ = IF w \in gaveUp THEN "over" ELSE "looping"
      OBVIOUS
    <3>2. waits' = [waits EXCEPT ![w] = [b EXCEPT !.phase = phase_]]
      BY <1>1, <1>11, <2>1, <3>1 DEF Sleeping!waitForChange, Sleeping!Step
    <3>3. [b EXCEPT !.phase = phase_] = [phase |-> phase_, observed |-> b.observed, saw |-> b.saw]
      BY <1>3
    <3> QED BY <1>5, <1>6, <3>1, <3>2, <3>3
  <2>2. CASE w \notin gaveUp /\ ~Sleeping!Missed(w)
    <3>1. PICK c : c = [b EXCEPT !.phase = "asleep"]
      OBVIOUS
    <3>2. c = [phase |-> "asleep", observed |-> b.observed, saw |-> b.saw]
      BY <1>3, <3>1
    <3>3. c \in WaitRecord
      BY <1>2, <3>2, WaitRecordIs DEF WaitRecord
    <3>4. b.phase = "looked" /\ b.observed = changeRevision
      BY <1>1, <1>11, <2>2 DEF Sleeping!waitForChange, Sleeping!Step, Sleeping!Missed
    <3>5. b.saw >= announced
      BY <1>2, <3>4 DEF UpToDate
    <3>6. UpToDate(w, c)
      BY <1>6, <2>2, <3>2, <3>3, <3>5 DEF UpToDate
    <3>7. waits' = [waits EXCEPT ![w] = c]
      BY <1>1, <1>11, <2>2, <3>1 DEF Sleeping!waitForChange, Sleeping!Step
    <3> QED BY <3>3, <3>6, <3>7
  <2> QED BY <2>1, <2>2
<1> QED BY <1>7, <1>8, <1>9, <1>10, <1>11

\* A change is made durable, and announced to whoever sleeps; a caller gives up.
LEMMA ChangeKeeps ==
  ASSUME WaitsInv, Sleeping!persist \/ Sleeping!emitChange \/ \E w \in Waiters : Sleeping!Abort(w)
  PROVE  WaitsInv'
<1>1. /\ durable \in Nat /\ announced \in Nat /\ changeRevision \in Nat /\ MaxMutations \in Nat
      /\ announced <= durable /\ changeRevision <= durable /\ durable <= MaxMutations
      /\ waits \in [Waiters -> WaitRecord] /\ \A w \in Waiters : UpToDate(w, waits[w])
  BY WaitsAssumed DEF WaitsInv
<1>2. CASE Sleeping!persist
  <2>1. /\ UNCHANGED <<announced, changeRevision, waits, gaveUp>> /\ durable' = durable + 1
        /\ mutation' \in {"saved", "idle"} /\ durable < MaxMutations
    BY <1>2 DEF Sleeping!persist
  <2>2. \A w \in Waiters : UpToDate(w, waits[w])'
    BY <1>1, <2>1 DEF UpToDate
  <2> QED BY <1>1, <2>1, <2>2 DEF WaitsInv
<1>3. CASE Sleeping!emitChange
  <2>1. /\ UNCHANGED <<durable, gaveUp>> /\ mutation' = "idle" /\ mutation = "saved"
        /\ changeRevision' = changeRevision + 1 /\ announced' = durable
    BY <1>3 DEF Sleeping!emitChange
  <2>2. changeRevision < durable
    BY <2>1 DEF WaitsInv
  <2>3. PICK after : after = waits'
    OBVIOUS
  <2>4. ASSUME NEW w \in Waiters
        PROVE  /\ after[w] \in WaitRecord /\ after[w].phase # "asleep"
               /\ after[w].observed = waits[w].observed
    <3>1. PICK b : b = waits[w]
      OBVIOUS
    <3>2. b \in WaitRecord
      BY <1>1, <3>1
    <3>3. b = [phase |-> b.phase, observed |-> b.observed, saw |-> b.saw]
      BY <3>2, WaitRecordIs
    <3>4. after[w] = IF b.phase = "asleep" THEN [b EXCEPT !.phase = "looping"] ELSE b
      BY <1>3, <2>3, <3>1 DEF Sleeping!emitChange
    <3>5. CASE b.phase = "asleep"
      <4>1. PICK c : c = [b EXCEPT !.phase = "looping"]
        OBVIOUS
      <4>2. c = [phase |-> "looping", observed |-> b.observed, saw |-> b.saw]
        BY <3>3, <4>1
      <4>3. c \in WaitRecord
        BY <3>2, <4>2, WaitRecordIs DEF WaitRecord
      <4> QED BY <3>1, <3>4, <3>5, <4>1, <4>2, <4>3
    <3>6. CASE b.phase # "asleep"
      BY <3>1, <3>2, <3>4, <3>6
    <3> QED BY <3>5, <3>6
  <2>5. after \in [Waiters -> WaitRecord]
    <3>1. after = [w \in Waiters |-> after[w]]
      BY <1>3, <2>3 DEF Sleeping!emitChange
    <3> QED BY <2>4, <3>1
  <2>6. ASSUME NEW w \in Waiters
        PROVE  /\ after[w].observed <= changeRevision' /\ after[w].observed # changeRevision'
    <3>1. waits[w].observed <= changeRevision /\ waits[w].observed \in Nat
      BY <1>1, WaitRecordIs DEF UpToDate
    <3> QED BY <1>1, <2>1, <2>4, <3>1
  <2>7. \A w \in Waiters : UpToDate(w, waits[w])'
    BY <2>3, <2>4, <2>6 DEF UpToDate
  <2> QED BY <1>1, <2>1, <2>2, <2>3, <2>5, <2>7 DEF WaitsInv
<1>4. ASSUME NEW w \in Waiters, Sleeping!Abort(w)  PROVE WaitsInv'
  <2>1. UNCHANGED <<durable, announced, changeRevision, mutation>> /\ gaveUp' = gaveUp \cup {w}
    BY <1>4 DEF Sleeping!Abort
  <2>2. PICK b : b = waits[w]
    OBVIOUS
  <2>3. b \in WaitRecord /\ UpToDate(w, b)
    BY <1>1, <2>2
  <2>4. b = [phase |-> b.phase, observed |-> b.observed, saw |-> b.saw]
    BY <2>3, WaitRecordIs
  <2>5. PICK c : c = IF b.phase = "asleep" THEN [b EXCEPT !.phase = "over"] ELSE b
    OBVIOUS
  <2>6. c \in WaitRecord /\ c.phase # "asleep" /\ c.observed = b.observed /\ c.saw = b.saw
        /\ (c.phase = "looked" => b.phase = "looked")
    <3>1. CASE b.phase = "asleep"
      <4>1. c = [phase |-> "over", observed |-> b.observed, saw |-> b.saw]
        BY <2>4, <2>5, <3>1
      <4> QED BY <2>3, <4>1, WaitRecordIs DEF WaitRecord
    <3>2. CASE b.phase # "asleep"
      BY <2>3, <2>5, <3>2
    <3> QED BY <3>1, <3>2
  <2>7. waits' = [waits EXCEPT ![w] = c]
    <3>1. CASE b.phase = "asleep"
      <4>1. waits' = [waits EXCEPT ![w].phase = "over"]
        BY <1>4, <2>2, <3>1 DEF Sleeping!Abort
      <4>2. waits' = [waits EXCEPT ![w] = [b EXCEPT !.phase = "over"]]
        BY <2>2, <4>1
      <4> QED BY <2>5, <3>1, <4>2
    <3>2. CASE b.phase # "asleep"
      BY <1>1, <1>4, <2>2, <2>5, <3>2 DEF Sleeping!Abort
    <3> QED BY <3>1, <3>2
  <2>8. waits' \in [Waiters -> WaitRecord]
    BY <1>1, <2>6, <2>7
  <2>9. ASSUME NEW v \in Waiters  PROVE UpToDate(v, waits[v])'
    <3>1. CASE v = w
      <4>1. waits'[v] = c
        BY <1>1, <2>7, <3>1
      <4>2. c.observed <= changeRevision
            /\ (c.phase = "looked" /\ c.observed = changeRevision => c.saw >= announced)
        BY <2>3, <2>6 DEF UpToDate
      <4> QED BY <2>1, <2>6, <4>1, <4>2 DEF UpToDate
    <3>2. CASE v # w
      <4>1. waits'[v] = waits[v] /\ UpToDate(v, waits[v])
        BY <1>1, <2>7, <3>2
      <4> QED BY <2>1, <3>2, <4>1 DEF UpToDate
    <3> QED BY <3>1, <3>2
  <2> QED BY <2>1, <2>8, <2>9 DEF WaitsInv
<1> QED BY <1>2, <1>3, <1>4

\* The invariant implies the properties.
LEMMA WaitsContained ==
  ASSUME WaitsInv
  PROVE  Sleeping!TypeOK /\ Sleeping!SleepersAreCurrent
<1>1. Sleeping!TypeOK
  BY WaitsAssumed DEF WaitsInv, WaitRecord, Sleeping!TypeOK
<1>2. Sleeping!SleepersAreCurrent
  BY DEF WaitsInv, UpToDate, Sleeping!SleepersAreCurrent
<1> QED BY <1>1, <1>2

\* Of the part that it is here.
WaitsPart == part = "waits" => WaitsInv

\* No other part touches it.
LEMMA WaitsPartInvariant == ServicesSpec => []WaitsPart
<1>1. ServicesInit => WaitsPart
  BY WaitsInitial DEF ServicesInit, Chosen, WaitsPart
<1>2. WaitsPart /\ [ServicesNext]_vars => WaitsPart'
  <2> SUFFICES ASSUME WaitsPart, [ServicesNext]_vars, part' = "waits"
               PROVE  WaitsInv'
    BY DEF WaitsPart
  <2>1. CASE part = "waits" /\ Sleeping!Next
    BY <2>1, CallKeeps, ChangeKeeps DEF WaitsPart, Sleeping!Next
  <2>2. CASE part' = part /\ UNCHANGED waitVars
    <3>1. UNCHANGED <<durable, announced, changeRevision, mutation, waits, gaveUp>> /\ WaitsInv
      BY <2>2 DEF waitVars, WaitsPart
    <3>2. \A w \in Waiters : UpToDate(w, waits[w])'
      BY <3>1 DEF WaitsInv, UpToDate
    <3> QED BY <3>1, <3>2 DEF WaitsInv
  <2>3. part' = part /\ (part = "waits" => WaitsNext \/ UNCHANGED waitVars)
    BY DEF ServicesNext, vars, aroundVars, endVars, SchedulingNext, MemoryNext, TokensNext,
      ConsentNext, McpNext, ActivityNext, AuditNext, GraphNext, JobsNext, WakeNext, LaunchNext,
      CliNext, HostNext, DomainNext, TalkNext, LocalNext, HelperNext, BrowserNext, InstallNext,
      UpgradeNext, LinksNext, ListenerNext, RunNext, WaitsNext
  <2> QED BY <2>1, <2>2, <2>3 DEF WaitsNext
<1> QED BY <1>1, <1>2, PTL DEF ServicesSpec

-----------------------------------------------------------------------------
(* The table of MCP sessions (McpSessions): its proof, of the part that it is here. *)

McpTable == INSTANCE McpSessionsProofs WITH
  sessions <- transports, Clients <- McpClients, Requests <- McpRequests, MaxTime <- MaxMcpTime

\* What its constants are assumed to be.
LEMMA McpTableAssumed == McpTable!McpSessionsAssumption
BY PartsAssumption DEF PartsAssumption, Mcp!IsFiniteSet, McpTable!IsFiniteSet,
  Mcp!McpSessionsAssumption, McpTable!McpSessionsAssumption

\* The part is the module that the proof is about.
LEMMA McpTableInit == Mcp!Init <=> McpTable!Init
BY DEF Mcp!Cardinality, McpTable!Cardinality, Mcp!IsFiniteSet, McpTable!IsFiniteSet, Mcp!Ids,
  McpTable!Ids, Mcp!NoSession, McpTable!NoSession, Mcp!Free, McpTable!Free, Mcp!Init,
  McpTable!Init

\* Its steps are those of the part.
LEMMA McpTableNext == Mcp!Next <=> McpTable!Next
BY DEF Mcp!Cardinality, McpTable!Cardinality, Mcp!IsFiniteSet, McpTable!IsFiniteSet, Mcp!Ids,
  McpTable!Ids, Mcp!NoSession, McpTable!NoSession, Mcp!Gone, McpTable!Gone, Mcp!Free,
  McpTable!Free, Mcp!Does, McpTable!Does, Mcp!Open, McpTable!Open, Mcp!OpenOf, McpTable!OpenOf,
  Mcp!Managed, McpTable!Managed, Mcp!Used, McpTable!Used, Mcp!isReclaimable,
  McpTable!isReclaimable, Mcp!oldestReclaimableSession, McpTable!oldestReclaimableSession,
  Mcp!recycleOldestQuiescentSession, McpTable!recycleOldestQuiescentSession, Mcp!ClientFull,
  McpTable!ClientFull, Mcp!TotalFull, McpTable!TotalFull, Mcp!reclaimCapacity,
  McpTable!reclaimCapacity, Mcp!Reserved, McpTable!Reserved, Mcp!releaseReservation,
  McpTable!releaseReservation, Mcp!reserveSessionSlot, McpTable!reserveSessionSlot,
  Mcp!legacySession, McpTable!legacySession, Mcp!legacyCleanup, McpTable!legacyCleanup,
  Mcp!onsessioninitialized, McpTable!onsessioninitialized, Mcp!initializeFails,
  McpTable!initializeFails, Mcp!canReuseSession, McpTable!canReuseSession,
  Mcp!withManagedRequest, McpTable!withManagedRequest, Mcp!Done, McpTable!Done, Mcp!requestEnds,
  McpTable!requestEnds, Mcp!withManagedStream, McpTable!withManagedStream, Mcp!streamEnds,
  McpTable!streamEnds, Mcp!closeManagedTransport, McpTable!closeManagedTransport,
  Mcp!sweepIdleMcpSessions, McpTable!sweepIdleMcpSessions, Mcp!credentialsChange,
  McpTable!credentialsChange, Mcp!tick, McpTable!tick, Mcp!Next, McpTable!Next

\* Its properties are those of the part.
LEMMA McpTableProperties ==
  McpTable!TypeOK /\ McpTable!WithinLimits /\ McpTable!BusyNeverReclaimed
    => Mcp!TypeOK /\ Mcp!WithinLimits /\ Mcp!BusyNeverReclaimed
BY DEF Mcp!Cardinality, McpTable!Cardinality, Mcp!IsFiniteSet, McpTable!IsFiniteSet, Mcp!Ids,
  McpTable!Ids, Mcp!On, McpTable!On, Mcp!Open, McpTable!Open, Mcp!OpenOf, McpTable!OpenOf,
  Mcp!TypeOK, McpTable!TypeOK, Mcp!Starting, McpTable!Starting, Mcp!WithinLimits,
  McpTable!WithinLimits, Mcp!BusyNeverReclaimed, McpTable!BusyNeverReclaimed

\* Of the part that it is here.
McpPart == part = "mcp" => McpTable!McpInv

\* No other part touches it.
LEMMA McpPartInvariant == ServicesSpec => []McpPart
<1>1. ServicesInit => McpPart
  <2> SUFFICES ASSUME ServicesInit, part = "mcp"
               PROVE  McpTable!McpInv
    BY DEF McpPart
  <2>1. Mcp!Init
    BY DEF ServicesInit, Chosen
  <2> QED BY <2>1, McpTableInit, McpTableAssumed, McpTable!McpInitial
<1>2. McpPart /\ [ServicesNext]_vars => McpPart'
  <2> SUFFICES ASSUME McpPart, [ServicesNext]_vars, part' = "mcp"
               PROVE  McpTable!McpInv'
    BY DEF McpPart
  <2>1. CASE part = "mcp" /\ Mcp!Next
    <3>1. McpTable!Next /\ McpTable!McpInv
      BY <2>1, McpTableNext DEF McpPart
    <3> QED BY <3>1, McpTableAssumed, McpTable!McpStep
  <2>2. CASE part' = part /\ UNCHANGED mcpVars
    <3>1. UNCHANGED McpTable!mcpVars /\ McpTable!McpInv
      BY <2>2 DEF mcpVars, McpTable!mcpVars, McpPart
    <3> QED BY <3>1, McpTableAssumed, McpTable!McpClockKeeps
  <2>3. part' = part /\ (part = "mcp" => McpNext \/ UNCHANGED mcpVars)
    <3>1. CASE ServicesNext
      BY Zenon, <3>1 DEF ServicesNext, SchedulingNext, MemoryNext, TokensNext, ConsentNext, McpNext,
      ActivityNext, AuditNext, GraphNext, JobsNext, WakeNext, LaunchNext, CliNext, HostNext,
      DomainNext, TalkNext, LocalNext, HelperNext, BrowserNext, InstallNext, UpgradeNext, LinksNext,
      ListenerNext, RunNext, WaitsNext
    <3>2. CASE UNCHANGED vars
      BY <3>2 DEF vars, serverVars
    <3> QED BY <3>1, <3>2
  <2> QED BY <2>1, <2>2, <2>3 DEF McpNext
<1> QED BY <1>1, <1>2, PTL DEF ServicesSpec

-----------------------------------------------------------------------------
(* The durable jobs (ExecutionJobs): its proof, of the part that it is here. *)

JobTable == INSTANCE ExecutionJobsProofs WITH
  told <- reported, Callers <- JobCallers, Requests <- JobRequests

\* What its constants are assumed to be.
LEMMA JobTableAssumed == JobTable!JobAssumption
BY PartsAssumption DEF PartsAssumption, Jobs!IsFiniteSet, JobTable!IsFiniteSet,
  Jobs!JobAssumption, JobTable!JobAssumption

\* The part is the module that the proof is about.
LEMMA JobTableInit == Jobs!Init <=> JobTable!Init
BY DEF Jobs!Cardinality, JobTable!Cardinality, Jobs!Jobs, JobTable!Jobs, Jobs!NoCall,
  JobTable!NoCall, Jobs!Init, JobTable!Init

\* Its steps are those of the part.
LEMMA JobTableNext == Jobs!Next <=> JobTable!Next
BY DEF Jobs!Cardinality, JobTable!Cardinality, Jobs!Directory, JobTable!Directory,
  Jobs!Operations, JobTable!Operations, Jobs!Points, JobTable!Points, Jobs!NoCall,
  JobTable!NoCall, Jobs!WorkerAlive, JobTable!WorkerAlive, Jobs!Described, JobTable!Described,
  Jobs!WorkerStarts, JobTable!WorkerStarts, Jobs!CommandEnds, JobTable!CommandEnds,
  Jobs!WorkerReportsZero, JobTable!WorkerReportsZero, Jobs!WorkerFinishes,
  JobTable!WorkerFinishes, Jobs!WorkerEnds, JobTable!WorkerEnds, Jobs!Killed, JobTable!Killed,
  Jobs!Looking, JobTable!Looking, Jobs!StatusByResult, JobTable!StatusByResult, Jobs!Status,
  JobTable!Status, Jobs!ReadFile, JobTable!ReadFile, Jobs!Look, JobTable!Look, Jobs!BeginStatus,
  JobTable!BeginStatus, Jobs!BeginCancel, JobTable!BeginCancel, Jobs!MarkOnly, JobTable!MarkOnly,
  Jobs!Mark, JobTable!Mark, Jobs!Kill, JobTable!Kill, Jobs!ForceKill, JobTable!ForceKill,
  Jobs!BeginStart, JobTable!BeginStart, Jobs!Ended, JobTable!Ended, Jobs!Removable,
  JobTable!Removable, Jobs!Excess, JobTable!Excess, Jobs!Prune, JobTable!Prune, Jobs!Remove,
  JobTable!Remove, Jobs!Spawn, JobTable!Spawn, Jobs!Describe, JobTable!Describe, Jobs!Crash,
  JobTable!Crash, Jobs!CallStep, JobTable!CallStep, Jobs!Begin, JobTable!Begin, Jobs!Next,
  JobTable!Next, Jobs!Jobs, JobTable!Jobs, Jobs!Results, JobTable!Results, Jobs!States,
  JobTable!States, Jobs!Call, JobTable!Call

\* Its properties are those of the part.
LEMMA JobTableProperties ==
  JobTable!TypeOK /\ JobTable!RetentionBounded => Jobs!TypeOK /\ Jobs!RetentionBounded
BY DEF Jobs!Cardinality, JobTable!Cardinality, Jobs!TypeOK, JobTable!TypeOK,
  Jobs!RetentionBounded, JobTable!RetentionBounded, Jobs!Described, JobTable!Described,
  Jobs!Jobs, JobTable!Jobs, Jobs!Results, JobTable!Results, Jobs!States, JobTable!States,
  Jobs!Directory, JobTable!Directory, Jobs!Operations, JobTable!Operations, Jobs!Points,
  JobTable!Points, Jobs!Call, JobTable!Call, Jobs!NoCall, JobTable!NoCall

\* Of the part that it is here.
JobPart == part = "jobs" => JobTable!JobsInv /\ JobTable!RetentionInv

\* No other part touches it.
LEMMA JobPartInvariant == ServicesSpec => []JobPart
<1>1. ServicesInit => JobPart
  <2> SUFFICES ASSUME ServicesInit, part = "jobs"
               PROVE  JobTable!JobsInv /\ JobTable!RetentionInv
    BY DEF JobPart
  <2>1. Jobs!Init
    BY DEF ServicesInit, Chosen
  <2> QED BY <2>1, JobTableInit, JobTableAssumed, JobTable!InitJobs, JobTable!RetentionInitial
<1>2. JobPart /\ [ServicesNext]_vars => JobPart'
  <2> SUFFICES ASSUME JobPart, [ServicesNext]_vars, part' = "jobs"
               PROVE  JobTable!JobsInv' /\ JobTable!RetentionInv'
    BY DEF JobPart
  <2>1. part' = part /\ (part = "jobs" => JobsNext \/ UNCHANGED jobVars)
    <3>1. CASE ServicesNext
      BY Zenon, <3>1 DEF ServicesNext, SchedulingNext, MemoryNext, TokensNext, ConsentNext, McpNext,
      ActivityNext, AuditNext, GraphNext, JobsNext, WakeNext, LaunchNext, CliNext, HostNext,
      DomainNext, TalkNext, LocalNext, HelperNext, BrowserNext, InstallNext, UpgradeNext, LinksNext,
      ListenerNext, RunNext, WaitsNext
    <3>2. CASE UNCHANGED vars
      BY <3>2 DEF vars, serverVars
    <3> QED BY <3>1, <3>2
  <2>2. JobTable!JobsInv /\ JobTable!RetentionInv
    BY <2>1 DEF JobPart
  <2>3. [JobTable!Next]_(JobTable!vars)
    BY <2>1, JobTableNext DEF JobsNext, jobVars, JobTable!vars
  <2>4. JobTable!JobsInv'
    BY <2>2, <2>3, JobTableAssumed, JobTable!StepJobs
  <2>5. JobTable!RetentionInv'
    BY <2>2, <2>3, JobTableAssumed, JobTable!RetentionStep
  <2> QED BY <2>4, <2>5
<1> QED BY <1>1, <1>2, PTL DEF ServicesSpec

-----------------------------------------------------------------------------
\* A stranded request wakes the worker once, a failure suppresses no later request, a tab
\* closes only for a worker that answered, a closed supervisor opens at most one more, and
\* a call that waits sleeps through no change that was announced.
THEOREM WakeBoundedHolds == ServicesSpec => []WakeBounded
<1>1. WakePart /\ WaitsPart => WakeBounded
  BY WakeContained, WaitsContained DEF WakePart, WaitsPart, WakeBounded
<1> QED BY <1>1, WakePartInvariant, WaitsPartInvariant, PTL

\* The tables of MCP sessions and of jobs stay within their limits, and no session
\* that is in use is recycled, however reservations, sweeps, requests and streams, and
\* however starts that prune, overlap.
THEOREM TablesBoundedHolds == ServicesSpec => []TablesBounded
<1>1. McpPart /\ JobPart => TablesBounded
  <2> SUFFICES ASSUME McpPart, JobPart
               PROVE  TablesBounded
    OBVIOUS
  <2>1. CASE part = "mcp"
    <3>1. McpTable!TypeOK /\ McpTable!WithinLimits /\ McpTable!BusyNeverReclaimed
      BY <2>1, McpTableAssumed, McpTable!McpContained DEF McpPart
    <3> QED BY <2>1, <3>1, McpTableProperties DEF TablesBounded
  <2>2. CASE part = "jobs"
    <3>1. JobTable!TypeOK
      BY <2>2 DEF JobPart, JobTable!JobsInv
    <3>2. JobTable!RetentionBounded
      BY <2>2, <3>1, JobTableAssumed, JobTable!RetentionContained DEF JobPart
    <3> QED BY <2>2, <3>1, <3>2, JobTableProperties DEF TablesBounded
  <2> QED BY <2>1, <2>2 DEF TablesBounded
<1> QED BY <1>1, McpPartInvariant, JobPartInvariant, PTL

=============================================================================
