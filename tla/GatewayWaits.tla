----------------------------- MODULE GatewayWaits -----------------------------
(***************************************************************************)
(* How calls wait for a change of the gateway store                        *)
(* (src/src/llm-gateway-store.ts: waitForChange, emitChange and the loops  *)
(* of waitForResult and exchange around them).  A call notes the revision  *)
(* of the changes, looks at the state in the queue of the mutations, and   *)
(* sleeps only when no change was announced in between.                    *)
(*                                                                         *)
(* The state is the number of its changes.  A change is announced after it *)
(* was made durable, in the same mutation; one whose write fails after the *)
(* rename is on disk but is never announced.                               *)
(***************************************************************************)
EXTENDS Integers

CONSTANTS Waiters, MaxChanges

VARIABLES
  durable,         \* the changes on disk
  announced,            \* the last of them that was announced
  changeRevision,
  mutation,        \* idle, or saved: its change is durable and not announced yet
  waits,           \* of each call: its phase, the revision it noted, what it saw
  aborted          \* the calls whose signal is aborted

waitsVars == <<durable, announced, changeRevision, mutation, waits, aborted>>

WaitsAssumption == MaxChanges \in Nat

TypeOK ==
  /\ durable \in 0 .. MaxChanges /\ announced \in 0 .. durable /\ changeRevision \in 0 .. MaxChanges
  /\ mutation \in {"idle", "saved"} /\ aborted \subseteq Waiters
  /\ waits \in [Waiters -> [phase : {"looping", "noted", "looked", "asleep", "over"},
                            observed : 0 .. MaxChanges, saw : 0 .. MaxChanges]]

Init ==
  /\ durable = 0 /\ announced = 0 /\ changeRevision = 0 /\ mutation = "idle" /\ aborted = {}
  /\ waits = [w \in Waiters |-> [phase |-> "looping", observed |-> 0, saw |-> 0]]

-----------------------------------------------------------------------------
(* The mutations of other calls. *)

persist ==
  /\ mutation = "idle" /\ durable < MaxChanges /\ durable' = durable + 1
  /\ mutation' \in {"saved", "idle"}     \* idle: the sync of the directory failed
  /\ UNCHANGED <<announced, changeRevision, waits, aborted>>

\* Every listener is called before the mutation goes on.
emitChange ==
  /\ mutation = "saved" /\ mutation' = "idle"
  /\ changeRevision' = changeRevision + 1 /\ announced' = durable
  /\ waits' = [w \in Waiters |-> IF waits[w].phase = "asleep"
                                 THEN [waits[w] EXCEPT !.phase = "looping"] ELSE waits[w]]
  /\ UNCHANGED <<durable, aborted>>

-----------------------------------------------------------------------------
(* A call. *)

Step(w, from, wait) ==
  /\ waits[w].phase = from
  /\ waits' = [waits EXCEPT ![w] = wait]
  /\ UNCHANGED <<durable, announced, changeRevision, mutation, aborted>>

\* The top of the loop.
Note(w) ==
  Step(w, "looping",
       IF w \in aborted THEN [waits[w] EXCEPT !.phase = "over"]
       ELSE [waits[w] EXCEPT !.phase = "noted", !.observed = changeRevision])

Look(w) == mutation = "idle" /\ Step(w, "noted", [waits[w] EXCEPT !.phase = "looked", !.saw = durable])

\* What it saw may be what it waited for.
Answer(w) == Step(w, "looked", [waits[w] EXCEPT !.phase = "over"])

Missed(w) == changeRevision # waits[w].observed

waitForChange(w) ==
  Step(w, "looked",
       [waits[w] EXCEPT !.phase =
          IF w \in aborted THEN "over" ELSE IF Missed(w) THEN "looping" ELSE "asleep"])

TimeOut(w) == Step(w, "asleep", [waits[w] EXCEPT !.phase = "looping"])

Abort(w) ==
  /\ w \notin aborted /\ waits[w].phase # "over" /\ aborted' = aborted \cup {w}
  /\ waits' = IF waits[w].phase = "asleep" THEN [waits EXCEPT ![w].phase = "over"] ELSE waits
  /\ UNCHANGED <<durable, announced, changeRevision, mutation>>

Next ==
  \/ persist \/ emitChange
  \/ \E w \in Waiters :
       Note(w) \/ Look(w) \/ Answer(w) \/ waitForChange(w) \/ TimeOut(w) \/ Abort(w)

WaitsSpec == Init /\ [][Next]_waitsVars

-----------------------------------------------------------------------------
(* Properties. *)

\* Nobody sleeps on a state that is older than the last change that was announced,
\* also when it was announced between the look and the subscription, and nobody
\* sleeps whose signal is aborted.
SleepersAreCurrent ==
  \A w \in Waiters :
    waits[w].phase = "asleep" => waits[w].saw >= announced /\ w \notin aborted
=============================================================================
