------------------------- MODULE CollaborationProofs -------------------------
(***************************************************************************)
(* Theorems about how agents work together, part by part: the supervisor   *)
(* of the agents, the work loop, the collaboration sessions with the       *)
(* contexts that hold them, the chat, and the coordination of the agents.  *)
(*                                                                         *)
(* Each part has an inductive invariant (ManagerInv, WorkInv, ContextsInv, *)
(* ChatInv, CoordinationInv).  Its actions are first shown to be instances *)
(* of a few shapes of step (Passes, Moves, Registers, Works, Writes, ...), *)
(* each of which says what such a step may change; that a shape preserves  *)
(* the invariant and keeps the action properties is then shown once.       *)
(***************************************************************************)
EXTENDS MCCollaboration, FiniteSetTheorems, SequenceTheorems, TLAPS

-----------------------------------------------------------------------------
(* The supervisor of the agents (AgentManager). *)

AgentStatuses == Manager!Active \cup Manager!Terminal

Agent ==
  [known : BOOLEAN, status : AgentStatuses, handle : {"none", "ready", "failed"},
   released : BOOLEAN, aborted : BOOLEAN, overtaken : BOOLEAN,
   ops : Seq({"send", "cleanup"}), opAt : {"begin", "turn", "release"}, opStatus : AgentStatuses,
   ctl : Seq({"cancel", "stop"}),
   ctlAt : {"begin", "cancel", "handle", "cancel turn", "release"}, ctlStatus : AgentStatuses,
   session : {"none", "live", "disposed"}, stopRequested : BOOLEAN, firstTurn : BOOLEAN]

Has(queue, op) == \E i \in DOMAIN queue : queue[i] = op

\* What the queues and the runtime of an agent have to do with its status.
Placed(a) ==
  /\ a.released <=> a.handle = "failed" \/ a.session = "disposed"
  /\ a.handle = "ready" => a.session # "none"
  /\ a.handle # "ready" => /\ a.session = "none" /\ ~a.firstTurn /\ a.opAt = "begin"
                           /\ a.ctlAt \in {"begin", "handle"} /\ ~Has(a.ops, "cleanup")
  /\ a.handle = "none" => a.status \in {"starting", "stopping"}
  /\ a.opAt = "turn" =>
       a.ops # <<>> /\ Head(a.ops) = "send" /\ a.opStatus \in {"running", "waiting"}
  /\ a.opAt = "release" => a.ops # <<>> /\ Head(a.ops) = "cleanup"
  /\ a.ctlAt = "cancel" =>
       a.ctl # <<>> /\ Head(a.ctl) = "cancel" /\ a.ctlStatus \in {"running", "waiting"}
  /\ a.ctlAt \in {"handle", "cancel turn", "release"} => a.ctl # <<>> /\ Head(a.ctl) = "stop"
  /\ a.status = "stopping" => a.overtaken /\ a.ctlAt # "cancel"
  /\ a.session = "live" /\ a.status \in Manager!Terminal => Has(a.ops, "cleanup") \/ Has(a.ctl, "stop")

Sound(a) == a \in Agent /\ Placed(a)

\* What one step may do to an agent, when the failed stops go from f to g.
Passes(a, b, f, g) ==
  /\ Sound(b)
  /\ b.known = a.known
  /\ a.status = "stopping" =>
       b.status \in {"stopping", "stopped"} \/ (b.status = "stop_failed" /\ g = f + 1)
  /\ a.status \in Manager!Terminal => b.status = a.status \/ (b.status = "stop_failed" /\ g = f + 1)
  /\ b.handle = "none" \/ b.session = "live" =>
       /\ a.handle = "none" \/ a.session = "live"
       /\ Has(a.ctl, "stop") => Has(b.ctl, "stop") \/ g = f + 1

LEMMA AppendHas ==
  ASSUME NEW T, NEW queue \in Seq(T), NEW op \in T, NEW other
  PROVE  /\ Append(queue, op) \in Seq(T)
         /\ Append(queue, op) # <<>>
         /\ queue # <<>> => Head(Append(queue, op)) = Head(queue)
         /\ Has(Append(queue, op), op)
         /\ Has(queue, other) => Has(Append(queue, op), other)
         /\ Has(Append(queue, op), other) => Has(queue, other) \/ op = other
<1> DEFINE longer == Append(queue, op)
<1>a. longer \in Seq(T) /\ Len(longer) = Len(queue) + 1 /\ longer[Len(queue) + 1] = op
  OBVIOUS
<1>b. \A i \in 1 .. Len(queue) : longer[i] = queue[i]
  OBVIOUS
<1>c. queue # <<>> => Head(longer) = Head(queue)
  OBVIOUS
<1>d. longer # <<>>
  BY <1>a
<1>1. /\ longer \in Seq(T) /\ longer # <<>>
      /\ queue # <<>> => Head(longer) = Head(queue)
      /\ Len(longer) = Len(queue) + 1 /\ longer[Len(queue) + 1] = op
      /\ \A i \in 1 .. Len(queue) : longer[i] = queue[i]
  BY <1>a, <1>b, <1>c, <1>d
<1>2. DOMAIN queue = 1 .. Len(queue) /\ DOMAIN longer = 1 .. Len(queue) + 1 /\ Len(queue) \in Nat
  BY <1>1
<1> HIDE DEF longer
<1>3. Has(longer, op)
  BY <1>1, <1>2 DEF Has
<1>4. Has(queue, other) => Has(longer, other)
  BY <1>1, <1>2 DEF Has
<1>5. Has(longer, other) => Has(queue, other) \/ op = other
  BY <1>1, <1>2 DEF Has
<1> QED BY <1>1, <1>3, <1>4, <1>5 DEF longer

LEMMA TailHas ==
  ASSUME NEW T, NEW queue \in Seq(T), queue # <<>>, NEW other
  PROVE  /\ Tail(queue) \in Seq(T)
         /\ Has(queue, other) /\ Head(queue) # other => Has(Tail(queue), other)
         /\ Has(Tail(queue), other) => Has(queue, other)
<1>1. Tail(queue) \in Seq(T)
  OBVIOUS
<1>2. ASSUME Has(queue, other), Head(queue) # other  PROVE Has(Tail(queue), other)
  <2>1. PICK i \in DOMAIN queue : queue[i] = other
    BY <1>2 DEF Has
  <2>2. i # 1
    BY <1>2, <2>1
  <2>3. i - 1 \in DOMAIN Tail(queue) /\ Tail(queue)[i - 1] = other
    BY <2>1, <2>2
  <2> QED BY <2>3 DEF Has
<1>3. ASSUME Has(Tail(queue), other)  PROVE Has(queue, other)
  <2>1. PICK i \in DOMAIN Tail(queue) : Tail(queue)[i] = other
    BY <1>3 DEF Has
  <2>2. i + 1 \in DOMAIN queue /\ queue[i + 1] = other
    BY <2>1
  <2> QED BY <2>2 DEF Has
<1> QED BY <1>1, <1>2, <1>3

LEMMA PassesAll ==
  ASSUME NEW a, NEW b, NEW c, NEW f \in Nat, NEW g \in Nat,
         Passes(a, b, f, f), Passes(b, c, f, g)
  PROVE  Passes(a, c, f, g)
BY DEF Passes, Manager!Terminal

LEMMA SamePasses ==
  ASSUME NEW a, Sound(a), NEW f
  PROVE  Passes(a, a, f, f)
BY DEF Passes, Sound

LEMMA OpOverPasses ==
  ASSUME NEW a, Sound(a), NEW f, a.ops # <<>>,
         Head(a.ops) = "send" \/ a.status \notin Manager!Terminal \/ a.session # "live"
  PROVE  Passes(a, Manager!OpOver(a), f, f)
<1> DEFINE b == Manager!OpOver(a)
<1>1. /\ b = [a EXCEPT !.ops = Tail(a.ops), !.opAt = "begin"]
      /\ a \in Agent
  BY DEF Manager!OpOver, Sound
<1>2. /\ Tail(a.ops) \in Seq({"send", "cleanup"})
      /\ Has(a.ops, "cleanup") /\ Head(a.ops) # "cleanup" => Has(Tail(a.ops), "cleanup")
      /\ Has(Tail(a.ops), "cleanup") => Has(a.ops, "cleanup")
  BY <1>1, TailHas DEF Agent
<1>3. b \in Agent
  BY <1>1, <1>2 DEF Agent
<1>4. Placed(b)
  BY ZenonT(60), <1>1, <1>2 DEF Agent, Placed, Sound
<1> QED BY ZenonT(60), <1>1, <1>3, <1>4 DEF Passes, Sound, Agent, AgentStatuses, Manager!Terminal, Manager!Active

LEMMA CtlOverPasses ==
  ASSUME NEW a, Sound(a), NEW f, a.ctl # <<>>,
         Head(a.ctl) = "cancel" \/ (a.session # "live" /\ a.handle # "none")
  PROVE  Passes(a, Manager!CtlOver(a), f, f)
<1> DEFINE b == Manager!CtlOver(a)
<1>1. /\ b = [a EXCEPT !.ctl = Tail(a.ctl), !.ctlAt = "begin"]
      /\ a \in Agent
  BY DEF Manager!CtlOver, Sound
<1>2. /\ Tail(a.ctl) \in Seq({"cancel", "stop"})
      /\ Has(a.ctl, "stop") /\ Head(a.ctl) # "stop" => Has(Tail(a.ctl), "stop")
      /\ Has(Tail(a.ctl), "stop") => Has(a.ctl, "stop")
  BY <1>1, TailHas DEF Agent
<1>3. b \in Agent
  BY <1>1, <1>2 DEF Agent
<1>4. Placed(b)
  BY ZenonT(60), <1>1, <1>2 DEF Agent, Placed, Sound
<1> QED BY ZenonT(60), <1>1, <1>2, <1>3, <1>4 DEF Passes, Sound, Agent, AgentStatuses, Manager!Terminal, Manager!Active

LEMMA ReportedPasses ==
  ASSUME NEW a, Sound(a), NEW f, a.handle = "ready",
         NEW event \in {"running", "waiting", "completed", "failed"}
  PROVE  /\ Passes(a, Manager!Reported(a, event), f, f)
         /\ Manager!Reported(a, event).opAt = a.opAt
         /\ Manager!Reported(a, event).ctlAt = a.ctlAt
         /\ Manager!Reported(a, event).handle = a.handle
<1> DEFINE b == Manager!Reported(a, event)
<1>0. a \in Agent
  BY DEF Sound
<1>1. CASE ~a.known \/ a.status \in Manager!Terminal \cup {"stopping"}
  BY <1>1, SamePasses DEF Manager!Reported
<1>2. CASE a.known /\ a.status \notin Manager!Terminal \cup {"stopping"} /\ event \in {"running", "waiting"}
  <2>1. b = [a EXCEPT !.status = event]
    BY <1>2 DEF Manager!Reported
  <2>2. b \in Agent
    BY <1>0, <1>2, <2>1 DEF Agent, AgentStatuses, Manager!Active
  <2>3. Placed(b)
    BY ZenonT(60), <1>0, <1>2, <2>1 DEF Agent, Placed, Sound, Manager!Terminal
  <2> QED BY <1>0, <1>2, <2>1, <2>2, <2>3 DEF Passes, Sound, Agent
<1>3. CASE a.known /\ a.status \notin Manager!Terminal \cup {"stopping"} /\ event \in {"completed", "failed"}
  <2>1. b = [a EXCEPT !.status = event, !.ops = Append(a.ops, "cleanup")]
    BY <1>3 DEF Manager!Reported
  <2>2. /\ Append(a.ops, "cleanup") \in Seq({"send", "cleanup"})
        /\ Append(a.ops, "cleanup") # <<>>
        /\ Has(Append(a.ops, "cleanup"), "cleanup")
        /\ a.ops # <<>> => Head(Append(a.ops, "cleanup")) = Head(a.ops)
    <3>1. a.ops \in Seq({"send", "cleanup"})
      BY <1>0 DEF Agent
    <3>2. "cleanup" \in {"send", "cleanup"}
      OBVIOUS
    <3> QED BY <3>1, <3>2, AppendHas
  <2>3. b \in Agent
    BY <1>0, <1>3, <2>1, <2>2 DEF Agent, AgentStatuses, Manager!Terminal
  <2>4. Placed(b)
    BY ZenonT(60), <1>0, <1>3, <2>1, <2>2 DEF Agent, Placed, Sound, Manager!Terminal
  <2> QED BY <1>0, <1>3, <2>1, <2>3, <2>4 DEF Passes, Sound, Agent
<1> QED BY <1>1, <1>2, <1>3

LEMMA AfterTurnPasses ==
  ASSUME NEW a, Sound(a), NEW f, a.handle = "ready", NEW outcome \in {"done", "failed", "rejected"}
  PROVE  /\ Passes(a, Manager!AfterTurn(a, outcome), f, f)
         /\ Manager!AfterTurn(a, outcome).opAt = a.opAt
<1>1. CASE outcome = "done" /\ ~a.stopRequested
  <2>1. Manager!AfterTurn(a, outcome) = Manager!Reported(a, "waiting")
    BY <1>1 DEF Manager!AfterTurn
  <2> QED BY <2>1, ReportedPasses
<1>2. CASE outcome = "failed" /\ ~a.stopRequested /\ ~a.aborted
  <2>1. Manager!AfterTurn(a, outcome) = Manager!Reported(a, "failed")
    BY <1>2 DEF Manager!AfterTurn
  <2> QED BY <2>1, ReportedPasses
<1>3. CASE ~(outcome = "done" /\ ~a.stopRequested) /\ ~(outcome = "failed" /\ ~a.stopRequested /\ ~a.aborted)
  <2>1. Manager!AfterTurn(a, outcome) = a
    BY <1>3 DEF Manager!AfterTurn
  <2> QED BY <2>1, SamePasses
<1> QED BY <1>1, <1>2, <1>3

\* How the releases of a runtime begin and end.
LEMMA ReleasingPasses ==
  ASSUME NEW a, Sound(a), NEW f, NEW opAt, NEW ctlAt, a.handle = "ready",
         \/ ctlAt = a.ctlAt /\ opAt = "release" /\ a.ops # <<>> /\ Head(a.ops) = "cleanup"
         \/ opAt = a.opAt /\ ctlAt = "release" /\ a.ctl # <<>> /\ Head(a.ctl) = "stop"
  PROVE  Passes(a, [Manager!Releasing(a) EXCEPT !.opAt = opAt, !.ctlAt = ctlAt], f, f)
<1> DEFINE b == [Manager!Releasing(a) EXCEPT !.opAt = opAt, !.ctlAt = ctlAt]
<1>1. /\ b = [a EXCEPT !.aborted = TRUE, !.stopRequested = TRUE, !.opAt = opAt, !.ctlAt = ctlAt]
      /\ a \in Agent
  BY DEF Manager!Releasing, Sound
<1>2. b \in Agent
  BY <1>1 DEF Agent
<1>3. Placed(b)
  BY ZenonT(60), <1>1 DEF Agent, Placed, Sound
<1> QED BY ZenonT(60), <1>1, <1>2, <1>3 DEF Passes, Sound, Agent

LEMMA ReleaseEndsPasses ==
  ASSUME NEW a, Sound(a), NEW f, NEW preserve, a.handle = "ready"
  PROVE  /\ Passes(a, Manager!ReleaseEnds(a, preserve), f, f)
         /\ Manager!ReleaseEnds(a, preserve).session = "disposed"
         /\ Manager!ReleaseEnds(a, preserve).handle = "ready"
         /\ Manager!ReleaseEnds(a, preserve).ops = a.ops
         /\ Manager!ReleaseEnds(a, preserve).ctl = a.ctl
<1> DEFINE b == Manager!ReleaseEnds(a, preserve)
<1>1. PICK st : /\ st = (IF preserve \/ a.status \in Manager!Terminal THEN a.status ELSE "stopped")
                /\ b = [a EXCEPT !.released = TRUE, !.session = "disposed", !.status = st]
  BY DEF Manager!ReleaseEnds
<1>2. a \in Agent /\ st \in AgentStatuses /\ st \in {a.status, "stopped"}
  BY <1>1 DEF Sound, Agent, AgentStatuses, Manager!Terminal
<1>3. b \in Agent
  BY <1>1, <1>2 DEF Agent
<1>4. Placed(b)
  BY ZenonT(60), <1>1, <1>2 DEF Agent, Placed, Sound
<1> QED BY <1>1, <1>2, <1>3, <1>4 DEF Passes, Sound, Agent

LEMMA ReleaseFailsPasses ==
  ASSUME NEW a, Sound(a), NEW f, a.handle = "ready"
  PROVE  /\ Passes(a, Manager!ReleaseFails(a), f, f + 1)
         /\ Manager!ReleaseFails(a).ops = a.ops
         /\ Manager!ReleaseFails(a).ctl = a.ctl
         /\ Manager!ReleaseFails(a).status = "stop_failed"
<1> DEFINE b == Manager!ReleaseFails(a)
<1>1. b = [a EXCEPT !.status = "stop_failed"] /\ a \in Agent
  BY DEF Manager!ReleaseFails, Sound
<1>2. b \in Agent
  BY <1>1 DEF Agent, AgentStatuses, Manager!Active
<1>3. Placed(b)
  BY <1>1 DEF Agent, Placed, Sound, Manager!Terminal
<1> QED BY <1>1, <1>2, <1>3 DEF Passes, Sound, Agent

-----------------------------------------------------------------------------
\* An agent that the manager forgot had ended; one that is to be stopped when the
\* manager is disposed of has a stop in its queue, or has ended.
Accounted(a, gone, failed) ==
  /\ a.known \/ a.status \in Manager!Terminal \/ failed > 0
  /\ gone /\ failed = 0 /\ (a.handle = "none" \/ a.session = "live") =>
       Has(a.ctl, "stop") \/ a.status \in Manager!Terminal

ActiveKnown == {k \in Manager!Known : agents[k].status \in Manager!Active}

ManagerInv ==
  /\ agents \in Seq(Agent)
  /\ allDisposed \in BOOLEAN
  /\ failures \in 0 .. MaxFailures
  /\ \A k \in DOMAIN agents : Placed(agents[k]) /\ Accounted(agents[k], allDisposed, failures)
  /\ Cardinality(ActiveKnown) <= MaxConcurrentAgents + failures

\* One agent moves on; g stops have failed.
Changes(k, b, g) ==
  /\ Manager!Become(k, b)
  /\ failures' = g
  /\ g = failures \/ (g = failures + 1 /\ failures < MaxFailures)
  /\ Passes(agents[k], b, failures, g)

AgentMoves(k) == \E b, g : Changes(k, b, g)

LEMMA Quietly ==
  ASSUME NEW k, NEW b, Manager!Become(k, b), UNCHANGED failures, Passes(agents[k], b, failures, failures)
  PROVE  AgentMoves(k)
BY DEF AgentMoves, Changes

LEMMA ManagerAssumed ==
  /\ {MaxConcurrentAgents, MaxRetainedAgents, MaxAgents, MaxWaiting} \subseteq Nat \ {0}
  /\ MaxFailures \in Nat
BY PartsAssumption DEF Manager!ManagerAssumption

LEMMA AgentSound ==
  ASSUME ManagerInv, NEW k \in DOMAIN agents
  PROVE  Sound(agents[k]) /\ failures \in Nat
<1>1. agents[k] \in Agent /\ Placed(agents[k])
  BY DEF ManagerInv
<1>2. failures \in Nat
  BY ManagerAssumed DEF ManagerInv
<1> QED BY <1>1, <1>2 DEF Sound

LEMMA StartMoves ==
  ASSUME ManagerInv, NEW k \in DOMAIN agents, Manager!spawnReturns(k) \/ Manager!spawnFails(k)
  PROVE  AgentMoves(k)
<1> DEFINE a == agents[k]
<1>1. Sound(a) /\ a \in Agent /\ Placed(a)
  BY AgentSound DEF Sound
<1>2. CASE Manager!spawnReturns(k)
  <2>1. PICK st : st = (IF a.status = "starting" THEN "running" ELSE a.status)
    OBVIOUS
  <2> DEFINE b == [a EXCEPT !.handle = "ready", !.session = "live", !.firstTurn = TRUE, !.status = st]
  <2>2. Manager!Become(k, b) /\ UNCHANGED failures /\ a.handle = "none"
    BY <1>2, <2>1 DEF Manager!spawnReturns
  <2>3. st \in {"running", "stopping"} /\ (a.status = "stopping" <=> st = "stopping")
    BY <1>1, <2>1, <2>2 DEF Placed
  <2>4. b \in Agent
    BY <1>1, <2>3 DEF Agent, AgentStatuses, Manager!Active
  <2>5. Placed(b)
    BY <1>1, <2>2, <2>3 DEF Agent, Placed, Manager!Terminal
  <2>6. Passes(a, b, failures, failures)
    BY <1>1, <2>2, <2>3, <2>4, <2>5 DEF Passes, Sound, Agent, Placed, Manager!Terminal
  <2> HIDE DEF b
  <2> QED BY <2>2, <2>6, Quietly
<1>3. CASE Manager!spawnFails(k)
  <2>1. PICK st : st = (IF a.status = "stopping" \/ a.aborted THEN "stopped" ELSE "failed")
    OBVIOUS
  <2> DEFINE b == [a EXCEPT !.handle = "failed", !.released = TRUE, !.status = st]
  <2>2. Manager!Become(k, b) /\ UNCHANGED failures /\ a.handle = "none"
    BY <1>3, <2>1 DEF Manager!spawnFails
  <2>3. st \in {"stopped", "failed"} /\ (a.status = "stopping" => st = "stopped")
    BY <1>1, <2>1
  <2>4. b \in Agent
    BY <1>1, <2>3 DEF Agent, AgentStatuses, Manager!Terminal
  <2>5. Placed(b)
    BY <1>1, <2>2, <2>3 DEF Agent, Placed, Manager!Terminal
  <2>6. Passes(a, b, failures, failures)
    BY <1>1, <2>2, <2>3, <2>4, <2>5 DEF Passes, Sound, Agent, Placed, Manager!Terminal
  <2> HIDE DEF b
  <2> QED BY <2>2, <2>6, Quietly
<1> QED BY <1>2, <1>3

LEMMA ReportMoves ==
  ASSUME ManagerInv, NEW k \in DOMAIN agents, NEW event \in {"running", "waiting", "completed"},
         Manager!report(k, event)
  PROVE  AgentMoves(k)
<1>1. Sound(agents[k]) /\ agents[k].handle = "ready"
  BY AgentSound DEF Sound, Placed, Manager!report
<1>2. Passes(agents[k], Manager!Reported(agents[k], event), failures, failures)
  BY <1>1, ReportedPasses
<1>3. Manager!Become(k, Manager!Reported(agents[k], event)) /\ UNCHANGED failures
  BY DEF Manager!report
<1> QED BY <1>2, <1>3, Quietly

LEMMA FirstTurnMoves ==
  ASSUME ManagerInv, NEW k \in DOMAIN agents, NEW outcome \in {"done", "failed"},
         Manager!firstTurnEnds(k, outcome)
  PROVE  AgentMoves(k)
<1> DEFINE a == agents[k]
           b == [a EXCEPT !.firstTurn = FALSE]
<1>1. Sound(a) /\ a \in Agent /\ a.firstTurn /\ a.handle = "ready"
  BY AgentSound DEF Sound, Placed, Manager!firstTurnEnds
<1>2. b \in Agent
  BY <1>1 DEF Agent
<1>3. Placed(b)
  BY <1>1 DEF Agent, Placed, Sound
<1>4. Passes(a, b, failures, failures) /\ Sound(b) /\ b.handle = "ready"
  BY <1>1, <1>2, <1>3 DEF Passes, Sound, Agent
<1>5. Manager!Become(k, Manager!AfterTurn(b, outcome)) /\ UNCHANGED failures
  BY DEF Manager!firstTurnEnds
<1> HIDE DEF b
<1>6. Passes(b, Manager!AfterTurn(b, outcome), failures, failures)
  BY <1>4, AfterTurnPasses
<1>7. Passes(a, Manager!AfterTurn(b, outcome), failures, failures)
  BY <1>4, <1>6, PassesAll, AgentSound
<1> QED BY <1>5, <1>7, Quietly

LEMMA SendMoves ==
  ASSUME ManagerInv, NEW k \in DOMAIN agents, Manager!send(k)
  PROVE  AgentMoves(k)
<1> DEFINE a == agents[k]
           b == [a EXCEPT !.ops = Append(a.ops, "send")]
<1>1. Sound(a) /\ a \in Agent /\ a.ops \in Seq({"send", "cleanup"}) /\ "send" \in {"send", "cleanup"}
  BY AgentSound DEF Sound, Agent
<1>2. /\ Append(a.ops, "send") \in Seq({"send", "cleanup"})
      /\ Append(a.ops, "send") # <<>>
      /\ a.ops # <<>> => Head(Append(a.ops, "send")) = Head(a.ops)
      /\ Has(a.ops, "cleanup") => Has(Append(a.ops, "send"), "cleanup")
      /\ Has(Append(a.ops, "send"), "cleanup") => Has(a.ops, "cleanup") \/ "send" = "cleanup"
  BY <1>1, AppendHas
<1>3. b \in Agent
  BY <1>1, <1>2 DEF Agent
<1>4. Placed(b)
  BY <1>1, <1>2 DEF Agent, Placed, Sound
<1>5. Passes(a, b, failures, failures)
  BY <1>1, <1>3, <1>4 DEF Passes, Sound, Agent
<1>6. Manager!Become(k, b) /\ UNCHANGED failures
  BY DEF Manager!send
<1> QED BY <1>5, <1>6, Quietly

LEMMA SendBeginsMoves ==
  ASSUME ManagerInv, NEW k \in DOMAIN agents, Manager!sendBegins(k)
  PROVE  AgentMoves(k)
<1> DEFINE a == agents[k]
           b == [a EXCEPT !.opAt = "turn", !.opStatus = a.status, !.overtaken = FALSE,
                          !.status = "running"]
           taken == /\ ~allDisposed
                    /\ a.status \in {"running", "waiting"}
                    /\ a.handle = "ready"
                    /\ ~a.stopRequested
<1>1. Sound(a) /\ a \in Agent /\ a.ops # <<>> /\ Head(a.ops) = "send"
  BY AgentSound DEF Sound, Manager!sendBegins
<1>2. UNCHANGED failures /\ Manager!Become(k, IF taken THEN b ELSE Manager!OpOver(a))
  BY DEF Manager!sendBegins
<1>3. CASE taken
  <2>1. b \in Agent
    BY <1>1, <1>3 DEF Agent, AgentStatuses, Manager!Active
  <2>2. Placed(b)
    BY <1>1, <1>3 DEF Agent, Placed, Sound, Manager!Terminal
  <2>3. Passes(a, b, failures, failures)
    BY <1>1, <1>3, <2>1, <2>2 DEF Passes, Sound, Agent, Manager!Terminal
  <2> QED BY <1>2, <1>3, <2>3, Quietly
<1>4. CASE ~taken
  <2>1. Passes(a, Manager!OpOver(a), failures, failures)
    BY <1>1, OpOverPasses
  <2> QED BY <1>2, <1>4, <2>1, Quietly
<1> QED BY <1>3, <1>4

LEMMA SendEndsMoves ==
  ASSUME ManagerInv, NEW k \in DOMAIN agents, NEW outcome \in {"done", "failed", "rejected"},
         Manager!sendEnds(k, outcome)
  PROVE  AgentMoves(k)
<1> DEFINE a == agents[k]
<1>1. Sound(a) /\ a.opAt = "turn" /\ a.handle = "ready"
  BY AgentSound DEF Sound, Placed, Manager!sendEnds
<1>2. PICK c : c = Manager!AfterTurn(a, outcome)
  OBVIOUS
<1>3. Passes(a, c, failures, failures) /\ Sound(c) /\ c.opAt = "turn"
  BY <1>1, <1>2, AfterTurnPasses DEF Passes
<1>4. c \in Agent /\ c.ops # <<>> /\ Head(c.ops) = "send" /\ c.opStatus \in {"running", "waiting"}
  BY <1>3 DEF Sound, Placed
<1>5. PICK d : d = (IF outcome = "done" THEN c ELSE Manager!Restored(c))
  OBVIOUS
<1>6. d = c \/ (d = [c EXCEPT !.status = c.opStatus] /\ c.status \notin Manager!Terminal /\ ~c.overtaken)
  BY <1>5 DEF Manager!Restored
<1>7. Passes(c, d, failures, failures) /\ d.ops = c.ops
  <2>1. CASE d = c
    BY <2>1, <1>3, SamePasses
  <2>2. CASE d = [c EXCEPT !.status = c.opStatus] /\ c.status \notin Manager!Terminal /\ ~c.overtaken
    <3>1. d \in Agent
      BY <1>4, <2>2 DEF Agent, AgentStatuses
    <3>2. Placed(d)
      BY <1>3, <1>4, <2>2 DEF Agent, Placed, Sound, Manager!Terminal
    <3> QED BY <1>3, <1>4, <2>2, <3>1, <3>2 DEF Passes, Sound, Agent, Placed
  <2> QED BY <1>6, <2>1, <2>2
<1>8. Passes(d, Manager!OpOver(d), failures, failures)
  BY <1>4, <1>7, OpOverPasses DEF Passes
<1>9. Passes(a, Manager!OpOver(d), failures, failures)
  BY <1>3, <1>7, <1>8, PassesAll, AgentSound
<1>10. Manager!Become(k, Manager!OpOver(d)) /\ UNCHANGED failures
  BY <1>2, <1>5 DEF Manager!sendEnds
<1> QED BY <1>9, <1>10, Quietly

LEMMA CleanupMoves ==
  ASSUME ManagerInv, NEW k \in DOMAIN agents, Manager!cleanupBegins(k) \/ Manager!cleanupEnds(k)
  PROVE  AgentMoves(k)
<1> DEFINE a == agents[k]
<1>1. Sound(a) /\ a \in Agent /\ a.ops # <<>> /\ Head(a.ops) = "cleanup" /\ failures \in Nat
  BY AgentSound DEF Sound, Manager!cleanupBegins, Manager!cleanupEnds
<1>2. CASE Manager!cleanupBegins(k)
  <2>1. CASE a.status \notin Manager!Terminal \/ a.released
    <3>1. Manager!Become(k, Manager!OpOver(a)) /\ UNCHANGED failures
      BY <1>2, <2>1 DEF Manager!cleanupBegins
    <3>2. a.status \notin Manager!Terminal \/ a.session # "live"
      BY <1>1, <2>1 DEF Sound, Placed
    <3>3. Passes(a, Manager!OpOver(a), failures, failures)
      BY <1>1, <3>2, OpOverPasses
    <3> QED BY <3>1, <3>3, Quietly
  <2>2. CASE a.status \in Manager!Terminal /\ ~a.released
    <3>1. a.handle = "ready"
      BY <1>1, <2>2 DEF Sound, Placed, Agent, Manager!Terminal
    <3> DEFINE b == [Manager!Releasing(a) EXCEPT !.opAt = "release", !.ctlAt = a.ctlAt]
    <3>2. Passes(a, b, failures, failures)
      BY <1>1, <3>1, ReleasingPasses
    <3>3. b = [Manager!Releasing(a) EXCEPT !.opAt = "release"]
      BY <1>1 DEF Manager!Releasing, Agent
    <3>4. Manager!Become(k, b) /\ UNCHANGED failures
      BY <1>2, <2>2, <3>3 DEF Manager!cleanupBegins
    <3> QED BY <3>2, <3>4, Quietly
  <2> QED BY <2>1, <2>2
<1>3. CASE Manager!cleanupEnds(k)
  <2>0. a.handle = "ready"
    BY <1>1, <1>3 DEF Sound, Placed, Manager!cleanupEnds
  <2>1. CASE Manager!Become(k, Manager!OpOver(Manager!ReleaseEnds(a, TRUE))) /\ UNCHANGED failures
    <3>1. PICK b : b = Manager!ReleaseEnds(a, TRUE)
      OBVIOUS
    <3>2. Passes(a, b, failures, failures) /\ b.ops = a.ops /\ b.session = "disposed"
      BY <1>1, <2>0, <3>1, ReleaseEndsPasses
    <3>3. Passes(b, Manager!OpOver(b), failures, failures)
      BY <1>1, <3>2, OpOverPasses DEF Passes
    <3> QED BY <1>1, <2>1, <3>1, <3>2, <3>3, PassesAll, Quietly
  <2>2. CASE /\ failures < MaxFailures
             /\ failures' = failures + 1
             /\ Manager!Become(k, Manager!OpOver(Manager!ReleaseFails(a)))
    <3>1. PICK b : b = Manager!ReleaseFails(a)
      OBVIOUS
    <3>2. Passes(a, b, failures, failures + 1) /\ b.ops = a.ops /\ b.status = "stop_failed"
      BY <1>1, <2>0, <3>1, ReleaseFailsPasses
    <3>3. Passes(b, Manager!OpOver(b), failures + 1, failures + 1)
      BY <1>1, <3>2, OpOverPasses DEF Passes, Manager!Terminal
    <3>4. b \in Agent /\ Manager!OpOver(b).status = "stop_failed"
      BY <3>2 DEF Passes, Sound, Agent, Manager!OpOver
    <3>5. Passes(a, Manager!OpOver(b), failures, failures + 1)
      BY <1>1, <3>2, <3>3, <3>4 DEF Passes, Manager!Terminal
    <3> QED BY <2>2, <3>1, <3>5 DEF AgentMoves, Changes
  <2> QED BY <1>3, <2>1, <2>2 DEF Manager!cleanupEnds
<1> QED BY <1>2, <1>3

LEMMA WithStop ==
  ASSUME NEW a, Sound(a), NEW op \in {"cancel", "stop"}, NEW f
  PROVE  /\ Passes(a, [a EXCEPT !.ctl = Append(@, op)], f, f)
         /\ op = "stop" => Has([a EXCEPT !.ctl = Append(@, op)].ctl, "stop")
<1> DEFINE b == [a EXCEPT !.ctl = Append(a.ctl, op)]
<1>1. a \in Agent /\ a.ctl \in Seq({"cancel", "stop"})
  BY DEF Sound, Agent
<1>2. /\ Append(a.ctl, op) \in Seq({"cancel", "stop"})
      /\ Append(a.ctl, op) # <<>>
      /\ a.ctl # <<>> => Head(Append(a.ctl, op)) = Head(a.ctl)
      /\ Has(Append(a.ctl, op), op)
      /\ Has(a.ctl, "stop") => Has(Append(a.ctl, op), "stop")
  BY <1>1, AppendHas
<1>3. b \in Agent
  BY <1>1, <1>2 DEF Agent
<1>4. Placed(b)
  BY <1>1, <1>2 DEF Agent, Placed, Sound
<1> QED BY <1>1, <1>2, <1>3, <1>4 DEF Passes, Sound, Agent

LEMMA ControlMoves ==
  ASSUME ManagerInv, NEW k \in DOMAIN agents, NEW op \in {"cancel", "stop"}, Manager!control(k, op)
  PROVE  AgentMoves(k)
<1>1. Manager!Become(k, [agents[k] EXCEPT !.ctl = Append(@, op)]) /\ UNCHANGED failures
  BY DEF Manager!control
<1> QED BY <1>1, WithStop, AgentSound, Quietly

LEMMA CancelBeginsMoves ==
  ASSUME ManagerInv, NEW k \in DOMAIN agents, Manager!cancelBegins(k)
  PROVE  AgentMoves(k)
<1> DEFINE a == agents[k]
           b == [a EXCEPT !.ctlAt = "cancel", !.ctlStatus = a.status, !.overtaken = TRUE,
                          !.status = "cancelling"]
           refused == allDisposed \/ a.status \notin {"running", "waiting"} \/ a.handle # "ready"
<1>1. Sound(a) /\ a \in Agent /\ a.ctl # <<>> /\ Head(a.ctl) = "cancel"
  BY AgentSound DEF Sound, Manager!cancelBegins
<1>2. UNCHANGED failures /\ Manager!Become(k, IF refused THEN Manager!CtlOver(a) ELSE b)
  BY DEF Manager!cancelBegins
<1>3. CASE ~refused
  <2>1. b \in Agent
    BY <1>1, <1>3 DEF Agent, AgentStatuses, Manager!Active
  <2>2. Placed(b)
    BY <1>1, <1>3 DEF Agent, Placed, Sound, Manager!Terminal
  <2>3. Passes(a, b, failures, failures)
    BY <1>1, <1>3, <2>1, <2>2 DEF Passes, Sound, Agent, Manager!Terminal
  <2> QED BY <1>2, <1>3, <2>3, Quietly
<1>4. CASE refused
  <2>1. Passes(a, Manager!CtlOver(a), failures, failures)
    BY <1>1, CtlOverPasses
  <2> QED BY <1>2, <1>4, <2>1, Quietly
<1> QED BY <1>3, <1>4

LEMMA CancelEndsMoves ==
  ASSUME ManagerInv, NEW k \in DOMAIN agents, Manager!cancelEnds(k)
  PROVE  AgentMoves(k)
<1> DEFINE a == agents[k]
<1>1. Sound(a) /\ a \in Agent /\ a.ctlAt = "cancel" /\ a.handle = "ready" /\ failures \in Nat
  BY AgentSound DEF Sound, Placed, Manager!cancelEnds, Agent
<1>2. \E c : /\ Passes(a, c, failures, failures)
             /\ c.ctl # <<>> /\ Head(c.ctl) = "cancel"
             /\ Manager!Become(k, Manager!CtlOver(c))
  <2>1. CASE \E said \in {a, Manager!Reported(a, "waiting")} :
               Manager!Become(k, Manager!CtlOver(Manager!Cancelled(said)))
    <3>1. PICK said \in {a, Manager!Reported(a, "waiting")} :
                 Manager!Become(k, Manager!CtlOver(Manager!Cancelled(said)))
      BY <2>1
    <3>2. Passes(a, said, failures, failures) /\ said.ctlAt = "cancel"
      BY <1>1, <3>1, SamePasses, ReportedPasses
    <3>3. said \in Agent /\ said.ctl # <<>> /\ Head(said.ctl) = "cancel" /\ Sound(said)
      BY <3>2 DEF Passes, Sound, Placed
    <3>4. PICK c : c = Manager!Cancelled(said)
      OBVIOUS
    <3>5. c = said \/ (said.status = "cancelling" /\ c = [said EXCEPT !.status = "waiting"])
      BY <3>4 DEF Manager!Cancelled
    <3>6. Passes(said, c, failures, failures) /\ c.ctl = said.ctl
      <4>1. CASE c = said
        BY <4>1, <3>3, SamePasses
      <4>2. CASE said.status = "cancelling" /\ c = [said EXCEPT !.status = "waiting"]
        <5>1. c \in Agent
          BY <3>3, <4>2 DEF Agent, AgentStatuses, Manager!Active
        <5>2. Placed(c)
          BY <3>3, <4>2 DEF Agent, Placed, Sound, Manager!Terminal
        <5> QED BY <3>3, <4>2, <5>1, <5>2 DEF Passes, Sound, Agent, Manager!Terminal
      <4> QED BY <3>5, <4>1, <4>2
    <3>7. Passes(a, c, failures, failures)
      BY <1>1, <3>2, <3>6, PassesAll
    <3> QED BY <3>1, <3>3, <3>4, <3>6, <3>7
  <2>2. CASE Manager!Become(k, Manager!CtlOver(IF a.status \in Manager!Terminal THEN a
                                               ELSE [a EXCEPT !.status = a.ctlStatus]))
    <3>1. PICK c : c = (IF a.status \in Manager!Terminal THEN a ELSE [a EXCEPT !.status = a.ctlStatus])
      OBVIOUS
    <3>2. Placed(a) /\ a.ctl # <<>> /\ Head(a.ctl) = "cancel" /\ a.ctlStatus \in {"running", "waiting"}
          /\ a.status # "stopping"
      BY <1>1 DEF Sound, Placed
    <3>3. Passes(a, c, failures, failures) /\ c.ctl = a.ctl
      <4>1. CASE a.status \in Manager!Terminal
        BY <4>1, <3>1, <1>1, SamePasses
      <4>2. CASE a.status \notin Manager!Terminal
        <5>0. c = [a EXCEPT !.status = a.ctlStatus]
          BY <3>1, <4>2
        <5>1. c \in Agent
          BY <1>1, <5>0 DEF Agent, AgentStatuses
        <5>2. Placed(c)
          BY <1>1, <3>2, <5>0 DEF Agent, Placed, Manager!Terminal
        <5> QED BY <1>1, <3>2, <4>2, <5>0, <5>1, <5>2 DEF Passes, Sound, Agent, Manager!Terminal
      <4> QED BY <4>1, <4>2
    <3> QED BY <2>2, <3>1, <3>2, <3>3
  <2> QED BY <2>1, <2>2 DEF Manager!cancelEnds
<1>3. PICK c : /\ Passes(a, c, failures, failures)
               /\ c.ctl # <<>> /\ Head(c.ctl) = "cancel"
               /\ Manager!Become(k, Manager!CtlOver(c))
  BY <1>2
<1>4. Passes(c, Manager!CtlOver(c), failures, failures)
  BY <1>3, CtlOverPasses DEF Passes
<1>5. Passes(a, Manager!CtlOver(c), failures, failures)
  BY <1>1, <1>3, <1>4, PassesAll
<1>6. UNCHANGED failures
  BY DEF Manager!cancelEnds
<1> QED BY <1>3, <1>5, <1>6, Quietly

LEMMA StopBeginsMoves ==
  ASSUME ManagerInv, NEW k \in DOMAIN agents, Manager!stopBegins(k)
  PROVE  AgentMoves(k)
<1> DEFINE a == agents[k]
<1>1. Sound(a) /\ a \in Agent /\ a.ctl # <<>> /\ Head(a.ctl) = "stop" /\ a.ctlAt = "begin"
  BY AgentSound DEF Sound, Manager!stopBegins
<1>2. PICK st : st = (IF a.status \in Manager!Terminal THEN a.status ELSE "stopping")
  OBVIOUS
<1> DEFINE b == [a EXCEPT !.ctlAt = "handle", !.ctlStatus = a.status, !.overtaken = TRUE,
                          !.aborted = TRUE, !.status = st]
<1>3. Manager!Become(k, b) /\ UNCHANGED failures
  BY <1>2 DEF Manager!stopBegins
<1>4. /\ st \in AgentStatuses
      /\ a.status \in Manager!Terminal => st = a.status
      /\ a.status \notin Manager!Terminal => st = "stopping"
  BY <1>1, <1>2 DEF Agent, AgentStatuses, Manager!Active
<1>5. b \in Agent
  BY <1>1, <1>4 DEF Agent
<1>6. Placed(b)
  BY <1>1, <1>4 DEF Agent, Placed, Sound, Manager!Terminal
<1>7. Passes(a, b, failures, failures)
  BY <1>1, <1>4, <1>5, <1>6 DEF Passes, Sound, Agent, Manager!Terminal
<1> HIDE DEF b
<1> QED BY <1>3, <1>7, Quietly

\* A stop that goes on to the release of the runtime.
LEMMA ReleasePasses ==
  ASSUME NEW a, Sound(a), NEW f, a.handle # "none", a.ctl # <<>>, Head(a.ctl) = "stop"
  PROVE  Passes(a, Manager!Release(a), f, f)
<1>1. a \in Agent /\ Placed(a)
  BY DEF Sound
<1>2. CASE a.released
  <2>1. a.session # "live" /\ Manager!Release(a) = Manager!CtlOver(a)
    BY <1>1, <1>2 DEF Placed, Agent, Manager!Release
  <2> QED BY <2>1, CtlOverPasses
<1>3. CASE ~a.released
  <2>1. a.handle = "ready"
    BY <1>1, <1>3 DEF Placed, Agent
  <2> DEFINE b == [Manager!Releasing(a) EXCEPT !.opAt = a.opAt, !.ctlAt = "release"]
  <2>2. Passes(a, b, f, f)
    BY <1>1, <2>1, ReleasingPasses
  <2>3. b = Manager!Release(a)
    BY <1>1, <1>3 DEF Manager!Release, Manager!Releasing, Agent
  <2> QED BY <2>2, <2>3
<1> QED BY <1>2, <1>3

LEMMA StopHandleMoves ==
  ASSUME ManagerInv, NEW k \in DOMAIN agents, Manager!stopHandle(k)
  PROVE  AgentMoves(k)
<1> DEFINE a == agents[k]
           b == [a EXCEPT !.ctlAt = "cancel turn"]
<1>1. /\ Sound(a) /\ a \in Agent /\ Placed(a) /\ a.ctlAt = "handle" /\ a.handle # "none"
      /\ a.ctl # <<>> /\ Head(a.ctl) = "stop"
  BY AgentSound DEF Sound, Placed, Manager!stopHandle
<1>2. /\ UNCHANGED failures
      /\ Manager!Become(k, IF a.released THEN Manager!CtlOver(a)
                           ELSE IF a.ctlStatus \in {"running", "cancelling"} THEN b
                           ELSE Manager!Release(a))
  BY DEF Manager!stopHandle
<1>3. CASE ~a.released
  <2>1. b \in Agent
    BY <1>1 DEF Agent
  <2>2. Placed(b)
    BY <1>1, <1>3 DEF Agent, Placed, Manager!Terminal
  <2>3. Passes(a, b, failures, failures)
    BY <1>1, <2>1, <2>2 DEF Passes, Sound, Agent
  <2>4. Passes(a, Manager!Release(a), failures, failures)
    BY <1>1, ReleasePasses
  <2> HIDE DEF b
  <2> QED BY <1>2, <1>3, <2>3, <2>4, Quietly
<1>4. CASE a.released
  <2>1. a.session # "live"
    BY <1>1, <1>4 DEF Placed, Agent
  <2>2. Passes(a, Manager!CtlOver(a), failures, failures)
    BY <1>1, <2>1, CtlOverPasses
  <2> QED BY <1>2, <1>4, <2>2, Quietly
<1> QED BY <1>3, <1>4

LEMMA StopCancelsMoves ==
  ASSUME ManagerInv, NEW k \in DOMAIN agents, Manager!stopCancels(k)
  PROVE  AgentMoves(k)
<1> DEFINE a == agents[k]
<1>1. Sound(a) /\ a.ctlAt = "cancel turn" /\ a.handle = "ready" /\ failures \in Nat
  BY AgentSound DEF Sound, Placed, Manager!stopCancels, Agent
<1>2. PICK said \in {a, Manager!Reported(a, "waiting")} : Manager!Become(k, Manager!Release(said))
  BY DEF Manager!stopCancels
<1>3. Passes(a, said, failures, failures) /\ said.ctlAt = "cancel turn" /\ said.handle = "ready"
  BY <1>1, <1>2, SamePasses, ReportedPasses
<1>4. Sound(said) /\ said.ctl # <<>> /\ Head(said.ctl) = "stop"
  BY <1>3 DEF Passes, Sound, Placed
<1>5. Passes(said, Manager!Release(said), failures, failures)
  BY <1>3, <1>4, ReleasePasses
<1>6. Passes(a, Manager!Release(said), failures, failures)
  BY <1>1, <1>3, <1>5, PassesAll
<1>7. UNCHANGED failures
  BY DEF Manager!stopCancels
<1> QED BY <1>2, <1>6, <1>7, Quietly

LEMMA StopEndsMoves ==
  ASSUME ManagerInv, NEW k \in DOMAIN agents, Manager!stopEnds(k)
  PROVE  AgentMoves(k)
<1> DEFINE a == agents[k]
<1>1. /\ Sound(a) /\ a \in Agent /\ a.ctl # <<>> /\ Head(a.ctl) = "stop" /\ failures \in Nat
      /\ a.handle = "ready"
  BY AgentSound DEF Sound, Placed, Manager!stopEnds
<1>2. CASE /\ Manager!Become(k, Manager!CtlOver(Manager!ReleaseEnds(a, a.ctlStatus \in Manager!Terminal)))
           /\ UNCHANGED failures
  <2>1. PICK b : b = Manager!ReleaseEnds(a, a.ctlStatus \in Manager!Terminal)
    OBVIOUS
  <2>3. Passes(a, b, failures, failures) /\ b.ctl = a.ctl /\ b.session = "disposed" /\ b.handle = "ready"
    BY <1>1, <2>1, ReleaseEndsPasses
  <2>4. Passes(b, Manager!CtlOver(b), failures, failures)
    BY <1>1, <2>3, CtlOverPasses DEF Passes
  <2>5. Manager!Become(k, Manager!CtlOver(b))
    BY <1>2, <2>1
  <2> QED BY <1>1, <1>2, <2>3, <2>4, <2>5, PassesAll, Quietly
<1>3. CASE /\ failures < MaxFailures
           /\ failures' = failures + 1
           /\ Manager!Become(k, Manager!CtlOver(Manager!ReleaseFails(a)))
  <2>1. PICK b : b = Manager!ReleaseFails(a)
    OBVIOUS
  <2>2. Passes(a, b, failures, failures + 1) /\ b.ctl = a.ctl /\ b.status = "stop_failed"
    BY <1>1, <2>1, ReleaseFailsPasses
  <2>3. PICK c : c = Manager!CtlOver(b)
    OBVIOUS
  <2>4. b \in Agent /\ Placed(b) /\ c = [b EXCEPT !.ctl = Tail(b.ctl), !.ctlAt = "begin"]
    BY <2>2, <2>3 DEF Passes, Sound, Manager!CtlOver
  <2>5. Tail(b.ctl) \in Seq({"cancel", "stop"})
    BY <1>1, <2>2, TailHas DEF Agent
  <2>6. c \in Agent
    BY <2>4, <2>5 DEF Agent
  <2>7. Placed(c)
    BY <2>2, <2>4 DEF Agent, Placed, Manager!Terminal
  <2>8. Passes(a, c, failures, failures + 1)
    BY ZenonT(60), <1>1, <2>2, <2>4, <2>6, <2>7 DEF Passes, Sound, Agent, Manager!Terminal
  <2> QED BY <1>3, <2>1, <2>3, <2>8 DEF AgentMoves, Changes
<1> QED BY <1>2, <1>3 DEF Manager!stopEnds

\* Each step but a spawn and the disposal of the manager moves one agent.
LEMMA ManagerSteps ==
  ASSUME ManagerInv, Manager!Next
  PROVE  Manager!spawn \/ Manager!dispose \/ \E k \in DOMAIN agents : AgentMoves(k)
<1> SUFFICES ASSUME NEW k \in DOMAIN agents, ~Manager!spawn, ~Manager!dispose,
               \/ Manager!spawnReturns(k) \/ Manager!spawnFails(k)
               \/ \E event \in {"running", "waiting", "completed"} : Manager!report(k, event)
               \/ \E outcome \in {"done", "failed"} : Manager!firstTurnEnds(k, outcome)
               \/ Manager!send(k) \/ Manager!sendBegins(k)
               \/ \E outcome \in {"done", "failed", "rejected"} : Manager!sendEnds(k, outcome)
               \/ Manager!cleanupBegins(k) \/ Manager!cleanupEnds(k)
               \/ \E op \in {"cancel", "stop"} : Manager!control(k, op)
               \/ Manager!cancelBegins(k) \/ Manager!cancelEnds(k)
               \/ Manager!stopBegins(k) \/ Manager!stopHandle(k) \/ Manager!stopCancels(k)
               \/ Manager!stopEnds(k)
             PROVE  AgentMoves(k)
  BY DEF Manager!Next, Manager!Indices
<1> QED
  BY StartMoves, ReportMoves, FirstTurnMoves, SendMoves, SendBeginsMoves, SendEndsMoves,
     CleanupMoves, ControlMoves, CancelBeginsMoves, CancelEndsMoves, StopBeginsMoves,
     StopHandleMoves, StopCancelsMoves, StopEndsMoves

LEMMA MovedAgents ==
  ASSUME ManagerInv, NEW k \in DOMAIN agents, NEW b, NEW g, Changes(k, b, g)
  PROVE  ManagerInv'
<1>1. /\ agents' = [agents EXCEPT ![k] = b] /\ allDisposed' = allDisposed /\ failures' = g
      /\ agents \in Seq(Agent) /\ failures \in Nat /\ MaxFailures \in Nat /\ MaxConcurrentAgents \in Nat
  BY ManagerAssumed DEF ManagerInv, Changes, Manager!Become
<1>2. b \in Agent /\ Placed(b) /\ b.known = agents[k].known
  BY DEF Changes, Passes, Sound
<1>3. agents' \in Seq(Agent) /\ DOMAIN agents' = DOMAIN agents
  BY <1>1, <1>2
<1>4. \A i \in DOMAIN agents : agents'[i] = IF i = k THEN b ELSE agents[i]
  BY <1>1
<1>5. g \in 0 .. MaxFailures /\ g >= failures /\ (g = failures \/ g = failures + 1)
  BY <1>1 DEF ManagerInv, Changes
<1>6. allDisposed' \in BOOLEAN /\ failures' \in 0 .. MaxFailures
  BY <1>1, <1>5 DEF ManagerInv
<1>7. ASSUME NEW i \in DOMAIN agents'
      PROVE  Placed(agents'[i]) /\ Accounted(agents'[i], allDisposed', failures')
  <2>1. Placed(agents[i]) /\ Accounted(agents[i], allDisposed, failures)
    BY <1>3, <1>7 DEF ManagerInv
  <2>2. CASE i # k
    <3>1. Accounted(agents[i], allDisposed, g)
      BY <2>1, <1>1, <1>5 DEF Accounted
    <3> QED BY <1>1, <1>3, <1>4, <1>7, <2>1, <2>2, <3>1
  <2>3. CASE i = k
    <3>1. Accounted(b, allDisposed, g)
      BY <2>1, <2>3, <1>1, <1>2, <1>5 DEF Accounted, Changes, Passes, Manager!Terminal
    <3> QED BY <1>1, <1>2, <1>4, <2>3, <3>1
  <2> QED BY <2>2, <2>3
<1>8. Cardinality(ActiveKnown') <= MaxConcurrentAgents + failures'
  <2>1. ActiveKnown' \subseteq ActiveKnown \cup {k}
    BY <1>3, <1>4 DEF ActiveKnown, Manager!Known, Manager!Indices
  <2>2. IsFiniteSet(ActiveKnown) /\ Cardinality(ActiveKnown) \in Nat
    <3>0. DOMAIN agents = 1 .. Len(agents) /\ Len(agents) \in Int /\ 1 \in Int
      BY <1>1
    <3>1. IsFiniteSet(DOMAIN agents)
      BY <3>0, FS_Interval
    <3>2. ActiveKnown \subseteq DOMAIN agents
      BY DEF ActiveKnown, Manager!Known, Manager!Indices
    <3> QED BY <3>1, <3>2, FS_Subset, FS_CardinalityType
  <2>3. Cardinality(ActiveKnown) <= MaxConcurrentAgents + failures
    BY DEF ManagerInv
  <2>4. CASE k \in ActiveKnown \/ k \notin ActiveKnown'
    <3>1. ActiveKnown' \subseteq ActiveKnown
      BY <2>1, <2>4
    <3>2. Cardinality(ActiveKnown') <= Cardinality(ActiveKnown) /\ Cardinality(ActiveKnown') \in Nat
      BY <2>2, <3>1, FS_Subset, FS_CardinalityType
    <3> QED BY <1>1, <1>5, <2>2, <2>3, <3>2
  <2>5. CASE k \notin ActiveKnown /\ k \in ActiveKnown'
    <3>1. agents[k] \in Agent /\ b.status \in Manager!Active /\ agents[k].status \notin Manager!Active
      BY <1>1, <1>2, <1>4, <2>5 DEF ActiveKnown, Manager!Known, Manager!Indices
    <3>2. g = failures + 1
      BY <3>1 DEF Agent, AgentStatuses, Manager!Active, Manager!Terminal, Changes, Passes
    <3>3. IsFiniteSet(ActiveKnown \cup {k}) /\ Cardinality(ActiveKnown \cup {k}) = Cardinality(ActiveKnown) + 1
      BY <2>2, <2>5, FS_AddElement
    <3>4. Cardinality(ActiveKnown') <= Cardinality(ActiveKnown \cup {k}) /\ Cardinality(ActiveKnown') \in Nat
      BY <2>1, <3>3, FS_Subset, FS_CardinalityType
    <3> QED BY <1>1, <2>2, <2>3, <3>2, <3>3, <3>4
  <2> QED BY <2>4, <2>5
<1> QED BY <1>3, <1>6, <1>7, <1>8 DEF ManagerInv

LEMMA ManagerCardinality ==
  ASSUME NEW S
  PROVE  Manager!Cardinality(S) = Cardinality(S)
BY DEF Manager!Cardinality, Cardinality

\* What a spawn does to the agents there are.
LEMMA SpawnKeeps ==
  ASSUME ManagerInv, Manager!spawn
  PROVE  /\ agents' \in Seq(Agent)
         /\ Len(agents') = Len(agents) + 1 /\ agents'[Len(agents) + 1] = Manager!Starting
         /\ \A i \in DOMAIN agents :
              \E kept \in BOOLEAN :
                /\ agents'[i] = [agents[i] EXCEPT !.known = kept]
                /\ kept => agents[i].known
                /\ kept \/ agents[i].known = kept \/ agents[i].status \in Manager!Terminal
         /\ allDisposed = FALSE /\ UNCHANGED <<allDisposed, failures>>
         /\ Cardinality(ActiveKnown) < MaxConcurrentAgents
<1>1. PICK forgotten \in Manager!Forgettable :
        agents' = Append([i \in DOMAIN agents |-> [agents[i] EXCEPT !.known = @ /\ i \notin forgotten]],
                         Manager!Starting)
  BY DEF Manager!spawn, Manager!Indices
<1> DEFINE old == [i \in DOMAIN agents |-> [agents[i] EXCEPT !.known = @ /\ i \notin forgotten]]
<1>2. \A i \in forgotten : agents[i].status \in Manager!Terminal
  BY DEF Manager!Forgettable
<1>3. agents \in Seq(Agent) /\ Len(agents) \in Nat /\ DOMAIN agents = 1 .. Len(agents)
  BY DEF ManagerInv
<1>4. ASSUME NEW i \in DOMAIN agents
      PROVE  \E kept \in BOOLEAN :
               /\ old[i] = [agents[i] EXCEPT !.known = kept]
               /\ kept => agents[i].known
               /\ kept \/ agents[i].known = kept \/ agents[i].status \in Manager!Terminal
  <2>0. agents[i] \in Agent
    BY <1>3, <1>4
  <2>1. agents[i] \in Agent /\ agents[i].known \in BOOLEAN
    BY <2>0 DEF Agent
  <2>2. CASE i \in forgotten
    <3>1. old[i] = [agents[i] EXCEPT !.known = FALSE]
      BY <1>4, <2>1, <2>2
    <3> QED BY <1>2, <2>2, <3>1
  <2>3. CASE i \notin forgotten
    <3>1. old[i] = [agents[i] EXCEPT !.known = agents[i].known]
      BY <1>4, <2>1, <2>3
    <3> QED BY <2>1, <3>1
  <2> QED BY <2>2, <2>3
<1>5. \A i \in DOMAIN agents : old[i] \in Agent
  <2> SUFFICES ASSUME NEW i \in DOMAIN agents PROVE old[i] \in Agent
    OBVIOUS
  <2>1. PICK kept \in BOOLEAN : old[i] = [agents[i] EXCEPT !.known = kept]
    BY <1>4
  <2>2. agents[i] \in Agent
    BY <1>3
  <2> HIDE DEF old
  <2> QED BY <2>1, <2>2 DEF Agent
<1>6. old \in [1 .. Len(agents) -> Agent]
  <2>1. old = [i \in 1 .. Len(agents) |-> old[i]]
    BY <1>3
  <2> HIDE DEF old
  <2> QED BY <1>3, <1>5, <2>1
<1> HIDE DEF old
<1>7. old \in Seq(Agent) /\ Len(old) = Len(agents)
  <2>1. old \in Seq(Agent)
    BY <1>3, <1>6, SeqDef
  <2>2. DOMAIN old = 1 .. Len(agents) /\ DOMAIN old = 1 .. Len(old) /\ Len(old) \in Nat
    BY <1>6, <2>1
  <2> QED BY <1>3, <2>1, <2>2
<1>8. Manager!Starting \in Agent
  BY DEF Manager!Starting, Agent, AgentStatuses, Manager!Active
<1>9. /\ agents' \in Seq(Agent) /\ Len(agents') = Len(agents) + 1
      /\ agents'[Len(agents) + 1] = Manager!Starting
      /\ \A i \in DOMAIN agents : agents'[i] = old[i]
  BY <1>1, <1>3, <1>7, <1>8 DEF old
<1>10. /\ allDisposed = FALSE /\ UNCHANGED <<allDisposed, failures>>
       /\ Cardinality(ActiveKnown) < MaxConcurrentAgents
  <2>1. ~allDisposed /\ UNCHANGED <<allDisposed, failures>>
    BY DEF Manager!spawn
  <2>2. allDisposed = FALSE
    BY <2>1 DEF ManagerInv
  <2>3. Cardinality(ActiveKnown) < MaxConcurrentAgents
    <3>1. Manager!Cardinality(ActiveKnown) < MaxConcurrentAgents
      BY DEF Manager!spawn, ActiveKnown
    <3> QED BY <3>1, ManagerCardinality
  <2> QED BY <2>1, <2>2, <2>3
<1> QED BY <1>4, <1>9, <1>10

LEMMA SpawnedAgents ==
  ASSUME ManagerInv, Manager!spawn
  PROVE  ManagerInv'
<1> DEFINE n == Len(agents) + 1
<1>1. /\ agents \in Seq(Agent) /\ Len(agents) \in Nat /\ DOMAIN agents = 1 .. Len(agents)
      /\ failures \in Nat /\ MaxConcurrentAgents \in Nat
  BY ManagerAssumed DEF ManagerInv
<1>2. /\ agents' \in Seq(Agent) /\ Len(agents') = n /\ agents'[n] = Manager!Starting
      /\ allDisposed = FALSE /\ allDisposed' = FALSE /\ failures' = failures
      /\ Cardinality(ActiveKnown) < MaxConcurrentAgents
  BY SpawnKeeps
<1>3. DOMAIN agents' = DOMAIN agents \cup {n}
  BY <1>1, <1>2
<1>4. ASSUME NEW i \in DOMAIN agents
      PROVE  /\ Placed(agents'[i]) /\ Accounted(agents'[i], FALSE, failures)
             /\ agents'[i].known => agents[i].known
             /\ agents'[i].status = agents[i].status
  <2>1. PICK kept \in BOOLEAN :
          /\ agents'[i] = [agents[i] EXCEPT !.known = kept]
          /\ kept => agents[i].known
          /\ kept \/ agents[i].known = kept \/ agents[i].status \in Manager!Terminal
    BY SpawnKeeps
  <2>2. agents[i] \in Agent /\ Placed(agents[i]) /\ Accounted(agents[i], FALSE, failures)
    <3>1. agents[i] \in Agent /\ Placed(agents[i]) /\ Accounted(agents[i], allDisposed, failures)
      BY <1>1, <1>4 DEF ManagerInv
    <3>2. Accounted(agents[i], FALSE, failures)
      BY <3>1 DEF Accounted
    <3> QED BY <3>1, <3>2
  <2>3. PICK a : a = agents[i]
    OBVIOUS
  <2>4. PICK b : b = [a EXCEPT !.known = kept]
    OBVIOUS
  <2>5. Placed(b)
    BY <2>2, <2>3, <2>4 DEF Placed, Agent
  <2>6. /\ Accounted(b, FALSE, failures)
        /\ b.known => a.known
        /\ b.status = a.status
    BY <2>1, <2>2, <2>3, <2>4 DEF Accounted, Agent
  <2> QED BY <2>1, <2>3, <2>4, <2>5, <2>6
<1>5. Placed(Manager!Starting) /\ Accounted(Manager!Starting, FALSE, failures)
  BY DEF Placed, Accounted, Manager!Starting, Manager!Terminal, Has
<1>6. \A i \in DOMAIN agents' : Placed(agents'[i]) /\ Accounted(agents'[i], allDisposed', failures')
  BY <1>2, <1>3, <1>4, <1>5
<1>7. Cardinality(ActiveKnown') <= MaxConcurrentAgents + failures'
  <2>1. ActiveKnown' \subseteq ActiveKnown \cup {n}
    BY <1>3, <1>4 DEF ActiveKnown, Manager!Known, Manager!Indices
  <2>2. IsFiniteSet(ActiveKnown) /\ Cardinality(ActiveKnown) \in Nat /\ n \notin ActiveKnown
    <3>1. IsFiniteSet(DOMAIN agents)
      BY <1>1, FS_Interval
    <3>2. ActiveKnown \subseteq DOMAIN agents
      BY DEF ActiveKnown, Manager!Known, Manager!Indices
    <3> QED BY <1>1, <3>1, <3>2, FS_Subset, FS_CardinalityType
  <2>3. /\ IsFiniteSet(ActiveKnown \cup {n})
        /\ Cardinality(ActiveKnown \cup {n}) = Cardinality(ActiveKnown) + 1
    BY <2>2, FS_AddElement
  <2>4. Cardinality(ActiveKnown') <= Cardinality(ActiveKnown \cup {n}) /\ Cardinality(ActiveKnown') \in Nat
    BY <2>1, <2>3, FS_Subset, FS_CardinalityType
  <2> QED BY <1>1, <1>2, <2>2, <2>3, <2>4
<1>8. failures' \in 0 .. MaxFailures
  BY <1>2 DEF ManagerInv
<1> QED BY <1>2, <1>6, <1>7, <1>8 DEF ManagerInv

LEMMA DisposedAgents ==
  ASSUME ManagerInv, Manager!dispose
  PROVE  /\ ManagerInv'
         /\ DOMAIN agents' = DOMAIN agents
         /\ \A k \in DOMAIN agents : agents'[k].status = agents[k].status
<1> DEFINE stop(a) == IF a.known /\ ~a.released THEN [a EXCEPT !.ctl = Append(@, "stop")] ELSE a
<1>1. /\ agents \in Seq(Agent) /\ Len(agents) \in Nat /\ DOMAIN agents = 1 .. Len(agents)
      /\ failures \in Nat
  BY ManagerAssumed DEF ManagerInv
<1>2. /\ agents' = [k \in DOMAIN agents |-> stop(agents[k])]
      /\ allDisposed' = TRUE /\ failures' = failures
  BY DEF Manager!dispose, Manager!Indices
<1>3. ASSUME NEW k \in DOMAIN agents
      PROVE  /\ agents'[k] \in Agent /\ Placed(agents'[k]) /\ Accounted(agents'[k], TRUE, failures)
             /\ agents'[k].status = agents[k].status /\ agents'[k].known = agents[k].known
  <2>1. PICK a : a = agents[k]
    OBVIOUS
  <2>2. PICK b : b = stop(a)
    OBVIOUS
  <2>3. agents'[k] = b
    BY <1>2, <1>3, <2>1, <2>2
  <2>4. a \in Agent /\ Placed(a) /\ Accounted(a, allDisposed, failures)
    BY <1>1, <1>3, <2>1 DEF ManagerInv
  <2>5. Sound(a)
    BY <2>4 DEF Sound
  <2>6. CASE a.known /\ ~a.released
    <3>1. b = [a EXCEPT !.ctl = Append(@, "stop")]
      BY <2>2, <2>6
    <3>2. Passes(a, b, 0, 0) /\ Has(b.ctl, "stop")
      BY <2>5, <3>1, WithStop
    <3>3. b.status = a.status /\ b.known = a.known
      BY <2>4, <3>1 DEF Agent
    <3>4. b \in Agent /\ Placed(b)
      BY <3>2 DEF Passes, Sound
    <3>5. Accounted(b, TRUE, failures)
      BY <2>6, <3>2, <3>3 DEF Accounted
    <3> QED BY <2>1, <2>3, <3>3, <3>4, <3>5
  <2>7. CASE a.released
    <3>1. b = a
      BY <2>2, <2>7
    <3>2. a.handle # "none" /\ a.session # "live"
      BY <2>4, <2>7 DEF Placed, Agent
    <3>3. Accounted(a, TRUE, failures)
      BY <2>4, <3>2 DEF Accounted
    <3> QED BY <2>1, <2>3, <2>4, <3>1, <3>3
  <2>8. CASE ~a.known /\ ~a.released
    <3>1. b = a
      BY <2>2, <2>8
    <3>3. Accounted(a, TRUE, failures)
      BY <1>1, <2>4, <2>8 DEF Accounted
    <3> QED BY <2>1, <2>3, <2>4, <3>1, <3>3
  <2> QED BY <2>6, <2>7, <2>8
<1>4. DOMAIN agents' = DOMAIN agents
  BY <1>2
<1>5. agents' \in Seq(Agent)
  <2>1. agents' = [k \in 1 .. Len(agents) |-> agents'[k]]
    BY <1>1, <1>2
  <2>2. agents' \in [1 .. Len(agents) -> Agent]
    BY <1>1, <1>3, <2>1
  <2> QED BY <1>1, <2>2, SeqDef
<1>6. \A k \in DOMAIN agents' : Placed(agents'[k]) /\ Accounted(agents'[k], allDisposed', failures')
  BY <1>2, <1>3, <1>4
<1>7. ActiveKnown' = ActiveKnown
  BY <1>3, <1>4 DEF ActiveKnown, Manager!Known, Manager!Indices
<1>8. /\ allDisposed' \in BOOLEAN /\ failures' \in 0 .. MaxFailures
      /\ Cardinality(ActiveKnown') <= MaxConcurrentAgents + failures'
  BY <1>2, <1>7 DEF ManagerInv
<1> QED BY <1>3, <1>4, <1>5, <1>6, <1>8 DEF ManagerInv

LEMMA ManagerInitial ==
  ASSUME Manager!Init
  PROVE  ManagerInv
<1>1. agents = <<>> /\ allDisposed = FALSE /\ failures = 0
  BY DEF Manager!Init
<1>2. ActiveKnown = {}
  BY <1>1 DEF ActiveKnown, Manager!Known, Manager!Indices
<1>3. Cardinality(ActiveKnown) = 0
  BY <1>2, FS_EmptySet
<1>4. agents \in Seq(Agent) /\ DOMAIN agents = {}
  BY <1>1
<1>5. /\ allDisposed \in BOOLEAN /\ failures \in 0 .. MaxFailures
      /\ Cardinality(ActiveKnown) <= MaxConcurrentAgents + failures
  <2>1. MaxConcurrentAgents \in Nat /\ MaxFailures \in Nat
    BY ManagerAssumed
  <2>2. allDisposed \in BOOLEAN
    BY <1>1
  <2> QED BY <1>1, <1>3, <2>1, <2>2
<1> QED BY <1>4, <1>5 DEF ManagerInv

LEMMA ManagerInductive ==
  ASSUME ManagerInv, Manager!Next
  PROVE  ManagerInv'
<1>1. ASSUME NEW k \in DOMAIN agents, AgentMoves(k)  PROVE ManagerInv'
  BY <1>1, MovedAgents DEF AgentMoves
<1> QED BY <1>1, ManagerSteps, SpawnedAgents, DisposedAgents

LEMMA ManagerUnchanged ==
  ASSUME ManagerInv, UNCHANGED managerVars
  PROVE  ManagerInv'
<1>1. ActiveKnown' = ActiveKnown
  BY DEF ActiveKnown, Manager!Known, Manager!Indices, managerVars
<1> QED BY <1>1 DEF ManagerInv, managerVars

LEMMA ManagerDecides ==
  ASSUME ManagerInv, Manager!Next
  PROVE  Manager!StopOwns /\ Manager!EndKept
<1>1. CASE Manager!spawn
  <2>1. ASSUME NEW k \in DOMAIN agents PROVE agents'[k].status = agents[k].status
    <3>1. PICK kept \in BOOLEAN : agents'[k] = [agents[k] EXCEPT !.known = kept]
      BY <1>1, <2>1, SpawnKeeps
    <3>2. agents[k] \in Agent
      BY DEF ManagerInv
    <3> QED BY <3>1, <3>2 DEF Agent
  <2> QED BY <2>1 DEF Manager!StopOwns, Manager!EndKept, Manager!Indices
<1>2. CASE Manager!dispose
  BY <1>2, DisposedAgents DEF Manager!StopOwns, Manager!EndKept, Manager!Indices
<1>3. CASE \E k \in DOMAIN agents : AgentMoves(k)
  <2>0. PICK k \in DOMAIN agents : AgentMoves(k)
    BY <1>3
  <2>1. PICK b, g : Changes(k, b, g)
    BY <2>0 DEF AgentMoves
  <2>2. /\ agents' = [agents EXCEPT ![k] = b]
        /\ agents[k].status = "stopping" => b.status \in {"stopping", "stopped", "stop_failed"}
        /\ agents[k].status \in Manager!Terminal => b.status \in {agents[k].status, "stop_failed"}
    BY <2>1 DEF Changes, Passes, Manager!Become
  <2>3. \A i \in DOMAIN agents : agents'[i] = IF i = k THEN b ELSE agents[i]
    BY <2>2 DEF ManagerInv
  <2> QED BY <2>2, <2>3 DEF Manager!StopOwns, Manager!EndKept, Manager!Indices
<1> QED BY <1>1, <1>2, <1>3, ManagerSteps

LEMMA ManagerContained ==
  ASSUME ManagerInv
  PROVE  Manager!TypeOK /\ Manager!NoStrayRuntime /\ Manager!WithinLimit /\ Manager!DisposeStops
<1>1. ASSUME NEW k \in DOMAIN agents
      PROVE  agents[k] \in Agent /\ Placed(agents[k]) /\ Accounted(agents[k], allDisposed, failures)
  BY DEF ManagerInv
<1>2. failures \in 0 .. MaxFailures /\ allDisposed \in BOOLEAN /\ failures \in Nat
  BY ManagerAssumed DEF ManagerInv
<1>3. \A k \in DOMAIN agents :
        Has(agents[k].ops, "cleanup") \/ Has(agents[k].ctl, "stop") => Manager!Pending(agents[k])
  BY DEF Has, Manager!Pending
<1>4. Manager!TypeOK
  <2>1. ASSUME NEW k \in DOMAIN agents
        PROVE  /\ agents[k].status \in Manager!Active \cup Manager!Terminal
               /\ agents[k].ops \in Seq({"send", "cleanup"})
               /\ agents[k].ctl \in Seq({"cancel", "stop"})
               /\ agents[k].opAt \in {"begin", "turn", "release"}
               /\ agents[k].ctlAt \in {"begin", "cancel", "handle", "cancel turn", "release"}
               /\ agents[k].released <=> agents[k].handle = "failed" \/ agents[k].session = "disposed"
    BY <1>1 DEF Agent, AgentStatuses, Placed
  <2> QED BY <1>2, <2>1 DEF Manager!TypeOK, Manager!Indices
<1>5. Manager!NoStrayRuntime
  <2>1. ASSUME NEW k \in DOMAIN agents, agents[k].session = "live"
        PROVE  \/ agents[k].known /\ agents[k].status \in Manager!Active
               \/ Manager!Pending(agents[k])
               \/ failures > 0 /\ ~agents[k].known
    BY <1>1, <1>3, <2>1 DEF Agent, AgentStatuses, Placed, Accounted
  <2> QED BY <2>1 DEF Manager!NoStrayRuntime, Manager!Indices
<1>6. Manager!WithinLimit
  BY ManagerCardinality DEF ManagerInv, Manager!WithinLimit, ActiveKnown
<1>7. Manager!DisposeStops
  <2>1. ASSUME allDisposed, NEW k \in DOMAIN agents, agents[k].handle = "none" \/ agents[k].session = "live"
        PROVE  Manager!Pending(agents[k]) \/ failures > 0
    <3>1. /\ agents[k] \in Agent /\ Placed(agents[k])
          /\ failures = 0 => Has(agents[k].ctl, "stop") \/ agents[k].status \in Manager!Terminal
      BY <1>1, <2>1 DEF Accounted
    <3>2. agents[k].status \in Manager!Terminal => Has(agents[k].ops, "cleanup") \/ Has(agents[k].ctl, "stop")
      BY <2>1, <3>1 DEF Placed, Manager!Terminal
    <3>3. failures # 0 => failures > 0
      BY <1>2
    <3> QED BY <1>3, <3>1, <3>2, <3>3
  <2> QED BY <2>1 DEF Manager!DisposeStops, Manager!Indices
<1> QED BY <1>4, <1>5, <1>6, <1>7

\* While the behaviour is that of another part, the agents say nothing.
ManagerPart == part = "manager" => ManagerInv

LEMMA ManagerPartInvariant ==
  AllSpec => []ManagerPart
<1>1. AllInit => ManagerPart
  BY ManagerInitial DEF AllInit, ManagerPart
<1>2. ManagerPart /\ [AllNext]_allVars => ManagerPart'
  <2> SUFFICES ASSUME ManagerPart, [AllNext]_allVars, part' = "manager"
               PROVE  ManagerInv'
    BY DEF ManagerPart
  <2>1. part = "manager"
    BY DEF AllNext, ContextsNext, WorkNext, ManagerNext, ChatNext, CoordinationNext, allVars
  <2>2. CASE ManagerNext
    BY <2>1, <2>2, ManagerInductive DEF ManagerPart, ManagerNext
  <2>3. CASE UNCHANGED managerVars
    BY <2>1, <2>3, ManagerUnchanged DEF ManagerPart
  <2> QED BY <2>1, <2>2, <2>3 DEF AllNext, ContextsNext, WorkNext, ChatNext, CoordinationNext, allVars
<1> QED BY <1>1, <1>2, PTL DEF AllSpec

\* No runtime of an agent is ever lost, the limit of agents holds, and disposing of
\* the manager stops all of them, whatever the runtimes report and however the
\* messages, cancels and stops of an agent interleave.
THEOREM AgentsContainedHolds ==
  AllSpec => []AgentsContained
<1>1. ManagerPart => AgentsContained
  BY ManagerContained DEF ManagerPart, AgentsContained
<1> QED BY <1>1, ManagerPartInvariant, PTL

-----------------------------------------------------------------------------
(* The work loop (AgentWork). *)

LEMMA WorkAssumed ==
  /\ Managers \subseteq Ids /\ NoOne \notin Ids
  /\ {MaxParticipants, MaxTimeouts, MaxRevision} \subseteq Nat \ {0}
BY PartsAssumption DEF Loop!WorkAssumption

LEMMA LoopCardinality ==
  ASSUME NEW S
  PROVE  Loop!Cardinality(S) = Cardinality(S)
BY DEF Loop!Cardinality, Cardinality

Participant ==
  {p \in [lifecycle : Loop!Lifecycles, timeouts : 0 .. MaxTimeouts,
          releasedBy : Ids \cup {NoOne}, revision : 1 .. MaxRevision] :
     p.lifecycle = "released" <=> p.releasedBy # NoOne}

CallRecord ==
  [tool : {"none", "claim", "finish", "wait", "release"}, session : Ids \cup {NoOne},
   step : Loop!Steps, target : Ids \cup {NoOne}, revision : 0 .. MaxRevision, active : BOOLEAN,
   raced : BOOLEAN]

BoardTask == [state : {"open", "working", "input_required", "done"}, owner : Ids \cup {NoOne}]

Holds(s) == Loop!Owned(s, "working") \/ Loop!Owned(s, "input_required")

WorkTyped ==
  /\ status \in [Ids -> Loop!Sessions!Statuses]
  /\ DOMAIN participants \subseteq Ids /\ IsFiniteSet(DOMAIN participants)
  /\ Cardinality(DOMAIN participants) <= MaxParticipants
  /\ participants \in [DOMAIN participants -> Participant]
  /\ board \in [Tasks -> BoardTask]
  /\ calls \in [Calls -> CallRecord]
  /\ \A c \in Calls : calls[c] # Loop!Idle => calls[c].session \in Ids
  /\ raced \subseteq Ids

ClaimSteps == {"claim", "claim next"}

\* What a manager has read of a participant: its revision, and then that it owns no
\* task.  Unless the decision is raced, whatever lets a call of it through to a claim
\* changes the revision.
Decided(c) ==
  calls[c].step \in {"list tasks", "release"} /\ ~calls[c].raced =>
    LET s == calls[c].target IN
    /\ s \in DOMAIN participants
    /\ calls[c].revision <= participants[s].revision
    /\ /\ participants[s].revision = calls[c].revision
       /\ participants[s].lifecycle \in {"waiting_for_task", "offline"}
       => /\ \A d \in Calls : calls[d].session = s => calls[d].step \notin ClaimSteps
          /\ calls[c].step = "release" => ~Holds(s)

\* Who was released in time owns nothing, and none of its calls is to claim.
Cleared(s) ==
  participants[s].lifecycle = "released" /\ s \notin raced =>
    /\ ~Holds(s)
    /\ \A d \in Calls : calls[d].session = s => calls[d].step \notin ClaimSteps

WorkInv ==
  /\ WorkTyped
  /\ \A c \in Calls : Decided(c)
  /\ \A s \in DOMAIN participants : Cleared(s)

-----------------------------------------------------------------------------
\* What an operation on the store may do to the participants, if it releases those in
\* `let': whoever was released stays as it was, every change has a new revision, and
\* who joins is working.
Moves(let) ==
  /\ DOMAIN participants' \subseteq Ids /\ IsFiniteSet(DOMAIN participants')
  /\ Cardinality(DOMAIN participants') <= MaxParticipants
  /\ participants' \in [DOMAIN participants' -> Participant]
  /\ \A s \in DOMAIN participants' :
       /\ s \in DOMAIN participants =>
            /\ participants'[s] = participants[s] \/ participants'[s].revision > participants[s].revision
            /\ participants[s].lifecycle = "released" => participants'[s] = participants[s]
       /\ s \notin DOMAIN participants => participants'[s].lifecycle = "working"
       /\ participants'[s].lifecycle = "released" =>
            s \in DOMAIN participants /\ (s \in let \/ participants[s].lifecycle = "released")

LEMMA StillMoves ==
  ASSUME WorkTyped, UNCHANGED participants
  PROVE  Moves({})
<1>1. participants' = participants
  OBVIOUS
<1> QED BY <1>1 DEF WorkTyped, Moves

\* A participant that was not released and moves on.
LEMMA MovedParticipant ==
  ASSUME NEW p \in Participant, NEW next \in {"working", "waiting_for_task", "offline"},
         p.lifecycle # "released", p.revision + 1 <= MaxRevision
  PROVE  /\ Loop!Moved(p, next) \in Participant
         /\ Loop!Moved(p, next).revision = p.revision + 1
         /\ Loop!Moved(p, next).lifecycle = next
         /\ Loop!Moved(p, next).releasedBy = NoOne
<1>1. PICK t : t = IF next = "working" THEN 0 ELSE p.timeouts
  OBVIOUS
<1>2. /\ p \in [lifecycle : Loop!Lifecycles, timeouts : 0 .. MaxTimeouts,
                 releasedBy : Ids \cup {NoOne}, revision : 1 .. MaxRevision]
      /\ p.releasedBy = NoOne
  BY DEF Participant
<1>3. MaxRevision \in Nat /\ MaxTimeouts \in Nat
  BY WorkAssumed
<1>4. t \in 0 .. MaxTimeouts /\ p.revision \in Nat /\ p.revision + 1 \in 1 .. MaxRevision
  BY <1>1, <1>2, <1>3
<1>5. next \in Loop!Lifecycles
  BY DEF Loop!Lifecycles
<1>6. PICK n : n = p.revision + 1
  OBVIOUS
<1>7. PICK q : q = [p EXCEPT !.lifecycle = next, !.revision = n, !.timeouts = t]
  OBVIOUS
<1>8. q = Loop!Moved(p, next)
  BY <1>1, <1>6, <1>7 DEF Loop!Moved
<1>9. /\ q \in [lifecycle : Loop!Lifecycles, timeouts : 0 .. MaxTimeouts,
                 releasedBy : Ids \cup {NoOne}, revision : 1 .. MaxRevision]
      /\ q.lifecycle = next /\ q.revision = n /\ q.releasedBy = NoOne
  BY <1>2, <1>4, <1>5, <1>6, <1>7
<1> QED BY <1>6, <1>8, <1>9 DEF Participant

\* Reading the state settles the participants of the sessions that ended.
LEMMA Reconciled ==
  ASSUME WorkTyped, Loop!Bounded
  PROVE  /\ Loop!readReconciledState \in [DOMAIN participants -> Participant]
         /\ \A s \in DOMAIN participants :
              LET p == Loop!readReconciledState[s] IN
              /\ p.lifecycle # "released" => p.revision + 1 <= MaxRevision
              /\ \/ p = participants[s]
                 \/ /\ p.revision = participants[s].revision + 1
                    /\ p.lifecycle = "offline" /\ ~Loop!Usable(s)
                    /\ participants[s].lifecycle \in {"working", "waiting_for_task"}
<1>1. ASSUME NEW s \in DOMAIN participants
      PROVE  /\ Loop!readReconciledState[s] \in Participant
             /\ Loop!readReconciledState[s].lifecycle # "released" =>
                  Loop!readReconciledState[s].revision + 1 <= MaxRevision
             /\ \/ Loop!readReconciledState[s] = participants[s]
                \/ /\ Loop!readReconciledState[s].revision = participants[s].revision + 1
                   /\ Loop!readReconciledState[s].lifecycle = "offline" /\ ~Loop!Usable(s)
                   /\ participants[s].lifecycle \in {"working", "waiting_for_task"}
  <2>1. PICK p : p = participants[s]
    OBVIOUS
  <2>2. /\ p \in Participant /\ MaxRevision \in Nat /\ MaxTimeouts \in Nat
        /\ p.lifecycle # "released" => p.revision + 2 <= MaxRevision
    BY <1>1, <2>1, WorkAssumed DEF WorkTyped, Loop!Bounded
  <2>3. PICK q : q = Loop!readReconciledState[s]
    OBVIOUS
  <2>4. q = IF p.lifecycle \in {"working", "waiting_for_task"} /\ ~Loop!Usable(s)
              THEN Loop!Moved(p, "offline") ELSE p
    BY <1>1, <2>1, <2>3 DEF Loop!readReconciledState
  <2>5. CASE p.lifecycle \in {"working", "waiting_for_task"} /\ ~Loop!Usable(s)
    <3>1. p.revision + 1 <= MaxRevision
      BY <2>2, <2>5 DEF Participant
    <3>2. q \in Participant /\ q.revision = p.revision + 1 /\ q.lifecycle = "offline"
      BY <2>2, <2>4, <2>5, <3>1, MovedParticipant
    <3> QED BY <2>1, <2>2, <2>3, <2>5, <3>2 DEF Participant
  <2>6. CASE ~(p.lifecycle \in {"working", "waiting_for_task"} /\ ~Loop!Usable(s))
    BY <2>1, <2>2, <2>3, <2>4, <2>6 DEF Participant
  <2> QED BY <2>5, <2>6
<1>2. Loop!readReconciledState = [s \in DOMAIN participants |-> Loop!readReconciledState[s]]
  BY DEF Loop!readReconciledState
<1> QED BY <1>1, <1>2

\* An operation on one participant, which writes q.
LEMMA PutMoves ==
  ASSUME WorkTyped, NEW s \in DOMAIN participants, NEW q \in Participant, NEW let,
         Loop!Put(s, q),
         q = Loop!readReconciledState[s] \/ q.revision = Loop!readReconciledState[s].revision + 1,
         Loop!readReconciledState[s].lifecycle = "released" => q = Loop!readReconciledState[s],
         q.lifecycle = "released" => Loop!readReconciledState[s].lifecycle = "released" \/ s \in let
  PROVE  Moves(let) /\ participants'[s] = q /\ DOMAIN participants' = DOMAIN participants
<1>1. PICK ps : ps = Loop!readReconciledState
  OBVIOUS
<1>2. Loop!Bounded /\ participants' = [ps EXCEPT ![s] = q]
  BY <1>1 DEF Loop!Put
<1>3. /\ ps \in [DOMAIN participants -> Participant]
      /\ \A i \in DOMAIN participants :
           \/ ps[i] = participants[i]
           \/ /\ ps[i].revision = participants[i].revision + 1
              /\ ps[i].lifecycle = "offline" /\ ~Loop!Usable(i)
              /\ participants[i].lifecycle \in {"working", "waiting_for_task"}
  BY <1>1, <1>2, Reconciled
<1>4. /\ participants' \in [DOMAIN participants -> Participant] /\ DOMAIN participants' = DOMAIN participants
      /\ \A i \in DOMAIN participants : participants'[i] = IF i = s THEN q ELSE ps[i]
  BY <1>2, <1>3
<1>5. \A i \in DOMAIN participants : participants[i].revision \in Nat /\ ps[i].revision \in Nat
  BY <1>3, WorkAssumed DEF WorkTyped, Participant
<1>6. ASSUME NEW i \in DOMAIN participants
      PROVE  /\ participants'[i] = participants[i] \/ participants'[i].revision > participants[i].revision
             /\ participants[i].lifecycle = "released" => participants'[i] = participants[i]
             /\ participants'[i].lifecycle = "released" =>
                  i \in let \/ participants[i].lifecycle = "released"
  <2>1. CASE i = s
    BY <1>1, <1>3, <1>4, <1>5, <2>1
  <2>2. CASE i # s
    BY <1>3, <1>4, <1>5, <2>2
  <2> QED BY <2>1, <2>2
<1> QED BY <1>4, <1>6 DEF Moves, WorkTyped

LEMMA LookMoves ==
  ASSUME WorkTyped, Loop!Look
  PROVE  Moves({}) /\ DOMAIN participants' = DOMAIN participants
<1>1. PICK ps : ps = Loop!readReconciledState
  OBVIOUS
<1>2. Loop!Bounded /\ participants' = ps
  BY <1>1 DEF Loop!Look
<1>3. /\ ps \in [DOMAIN participants -> Participant]
      /\ \A i \in DOMAIN participants :
           \/ ps[i] = participants[i]
           \/ /\ ps[i].revision = participants[i].revision + 1
              /\ ps[i].lifecycle = "offline" /\ ~Loop!Usable(i)
              /\ participants[i].lifecycle \in {"working", "waiting_for_task"}
  BY <1>1, <1>2, Reconciled
<1>4. DOMAIN participants' = DOMAIN participants /\ participants' \in [DOMAIN participants -> Participant]
  BY <1>2, <1>3
<1>5. \A i \in DOMAIN participants : participants[i].revision \in Nat
  BY WorkAssumed DEF WorkTyped, Participant
<1>6. ASSUME NEW i \in DOMAIN participants
      PROVE  /\ participants'[i] = participants[i] \/ participants'[i].revision > participants[i].revision
             /\ participants[i].lifecycle = "released" => participants'[i] = participants[i]
             /\ participants'[i].lifecycle = "released" => participants[i].lifecycle = "released"
  BY <1>2, <1>3, <1>5
<1> QED BY <1>4, <1>6 DEF Moves, WorkTyped

\* The participant of s, if it is marked: it does not stay released by that.
LEMMA MarkMoves ==
  ASSUME WorkTyped, NEW s, NEW next \in {"working", "waiting_for_task"},
         Loop!mark(s, next)
  PROVE  /\ Moves({}) /\ s \in DOMAIN participants /\ DOMAIN participants' = DOMAIN participants
         /\ participants'[s].lifecycle \in {next, "released"}
<1>1. PICK p : p = Loop!readReconciledState[s]
  OBVIOUS
<1>2. PICK q : q = IF p.lifecycle \in {"released", next} THEN p ELSE Loop!Moved(p, next)
  OBVIOUS
<1>3. s \in DOMAIN participants /\ Loop!Put(s, q) /\ Loop!Bounded
  BY <1>1, <1>2 DEF Loop!mark, Loop!Put
<1>4. p \in Participant /\ (p.lifecycle # "released" => p.revision + 1 <= MaxRevision)
  BY <1>1, <1>3, Reconciled
<1>5. /\ q \in Participant /\ q.lifecycle \in {next, "released"}
      /\ q = p \/ (q.revision = p.revision + 1 /\ q.lifecycle = next)
      /\ p.lifecycle = "released" => q = p
  BY <1>2, <1>4, MovedParticipant
<1>6. /\ q = Loop!readReconciledState[s] \/ q.revision = Loop!readReconciledState[s].revision + 1
      /\ Loop!readReconciledState[s].lifecycle = "released" => q = Loop!readReconciledState[s]
      /\ q.lifecycle = "released" => Loop!readReconciledState[s].lifecycle = "released" \/ s \in {}
  BY <1>1, <1>5
<1>7. Moves({}) /\ participants'[s] = q /\ DOMAIN participants' = DOMAIN participants
  BY <1>3, <1>5, <1>6, PutMoves
<1> QED BY <1>3, <1>5, <1>7

LEMMA OutcomeMoves ==
  ASSUME WorkTyped, NEW s, NEW changed, NEW active,
         Loop!recordOutcome(s, changed, active)
  PROVE  Moves({}) /\ DOMAIN participants' = DOMAIN participants
<1>1. PICK p : p = Loop!readReconciledState[s]
  OBVIOUS
<1>2. PICK next : next = IF active THEN "working" ELSE "waiting_for_task"
  OBVIOUS
<1>3. PICK n : n = IF changed THEN 0 ELSE IF p.timeouts < MaxTimeouts THEN p.timeouts + 1 ELSE MaxTimeouts
  OBVIOUS
<1>4. PICK q : q = IF p.lifecycle = "released" THEN p ELSE [Loop!Moved(p, next) EXCEPT !.timeouts = n]
  OBVIOUS
<1>5. s \in DOMAIN participants /\ Loop!Put(s, q) /\ Loop!Bounded
  BY <1>1, <1>2, <1>3, <1>4 DEF Loop!recordOutcome, Loop!Put
<1>6. p \in Participant /\ (p.lifecycle # "released" => p.revision + 1 <= MaxRevision)
  BY <1>1, <1>5, Reconciled
<1>7. next \in {"working", "waiting_for_task"} /\ n \in 0 .. MaxTimeouts
  BY <1>2, <1>3, <1>6, WorkAssumed DEF Participant
<1>8. /\ q \in Participant
      /\ q = p \/ (q.revision = p.revision + 1 /\ q.lifecycle = next)
      /\ p.lifecycle = "released" => q = p
  <2>1. CASE p.lifecycle = "released"
    BY <1>4, <1>6, <2>1
  <2>2. CASE p.lifecycle # "released"
    <3>1. PICK r : r = Loop!Moved(p, next)
      OBVIOUS
    <3>2. r \in Participant /\ r.revision = p.revision + 1 /\ r.lifecycle = next /\ r.releasedBy = NoOne
      BY <1>6, <1>7, <2>2, <3>1, MovedParticipant
    <3>3. q = [r EXCEPT !.timeouts = n]
      BY <1>4, <2>2, <3>1
    <3> QED BY <1>7, <2>2, <3>2, <3>3 DEF Participant
  <2> QED BY <2>1, <2>2
<1>9. /\ q = Loop!readReconciledState[s] \/ q.revision = Loop!readReconciledState[s].revision + 1
      /\ Loop!readReconciledState[s].lifecycle = "released" => q = Loop!readReconciledState[s]
      /\ q.lifecycle = "released" => Loop!readReconciledState[s].lifecycle = "released" \/ s \in {}
  BY <1>1, <1>7, <1>8
<1> QED BY <1>5, <1>8, <1>9, PutMoves

LEMMA DisconnectMoves ==
  ASSUME WorkTyped, NEW s, Loop!disconnect(s)
  PROVE  Moves({}) /\ DOMAIN participants' = DOMAIN participants
<1>1. PICK p : p = Loop!readReconciledState[s]
  OBVIOUS
<1>2. PICK q : q = IF p.lifecycle \in {"released", "offline"} THEN p ELSE Loop!Moved(p, "offline")
  OBVIOUS
<1>3. s \in DOMAIN participants /\ Loop!Put(s, q) /\ Loop!Bounded
  BY <1>1, <1>2 DEF Loop!disconnect, Loop!Put
<1>4. p \in Participant /\ (p.lifecycle # "released" => p.revision + 1 <= MaxRevision)
  BY <1>1, <1>3, Reconciled
<1>5. /\ q \in Participant
      /\ q = p \/ (q.revision = p.revision + 1 /\ q.lifecycle = "offline")
      /\ p.lifecycle = "released" => q = p
  BY <1>2, <1>4, MovedParticipant
<1>6. /\ q = Loop!readReconciledState[s] \/ q.revision = Loop!readReconciledState[s].revision + 1
      /\ Loop!readReconciledState[s].lifecycle = "released" => q = Loop!readReconciledState[s]
      /\ q.lifecycle = "released" => Loop!readReconciledState[s].lifecycle = "released" \/ s \in {}
  BY <1>1, <1>5
<1> QED BY <1>3, <1>5, <1>6, PutMoves

LEMMA ReleaseMoves ==
  ASSUME WorkTyped, NEW manager \in Ids, NEW target, NEW revision,
         Loop!mayRelease(manager, target, revision), Loop!releaseByManager(manager, target)
  PROVE  /\ Moves({target}) /\ target \in DOMAIN participants /\ Loop!Bounded
         /\ DOMAIN participants' = DOMAIN participants
         /\ Loop!readReconciledState[target].revision = revision
         /\ Loop!readReconciledState[target].lifecycle \in {"waiting_for_task", "offline"}
<1>1. PICK p : p = Loop!readReconciledState[target]
  OBVIOUS
<1>2. PICK q : q = [Loop!Moved(p, "released") EXCEPT !.releasedBy = manager]
  OBVIOUS
<1>3. /\ target \in DOMAIN participants /\ Loop!Put(target, q) /\ Loop!Bounded
      /\ p.revision = revision /\ p.lifecycle \in {"waiting_for_task", "offline"}
  BY <1>1, <1>2 DEF Loop!mayRelease, Loop!releaseByManager, Loop!Put
<1>4. p \in Participant /\ p.revision + 1 <= MaxRevision
  BY <1>1, <1>3, Reconciled
<1>5. PICK n : n = p.revision + 1
  OBVIOUS
<1>6. q = [p EXCEPT !.lifecycle = "released", !.revision = n, !.timeouts = p.timeouts, !.releasedBy = manager]
  BY <1>2, <1>5 DEF Loop!Moved
<1>7. n \in 1 .. MaxRevision /\ manager # NoOne /\ "released" \in Loop!Lifecycles
  BY <1>4, <1>5, WorkAssumed DEF Participant, Loop!Lifecycles
<1>8. p \in [lifecycle : Loop!Lifecycles, timeouts : 0 .. MaxTimeouts,
             releasedBy : Ids \cup {NoOne}, revision : 1 .. MaxRevision]
  BY <1>4 DEF Participant
<1>9. q \in Participant /\ q.revision = p.revision + 1 /\ q.lifecycle = "released"
  BY <1>5, <1>6, <1>7, <1>8 DEF Participant
<1>10. /\ q = Loop!readReconciledState[target] \/ q.revision = Loop!readReconciledState[target].revision + 1
       /\ Loop!readReconciledState[target].lifecycle = "released" => q = Loop!readReconciledState[target]
       /\ q.lifecycle = "released" =>
            Loop!readReconciledState[target].lifecycle = "released" \/ target \in {target}
  BY <1>1, <1>3, <1>9
<1>11. Moves({target}) /\ DOMAIN participants' = DOMAIN participants
  BY <1>3, <1>9, <1>10, PutMoves
<1> QED BY <1>1, <1>3, <1>11

LEMMA LoopRestrict ==
  ASSUME NEW f, NEW S
  PROVE  Loop!Restrict(f, S) = [x \in S |-> f[x]]
BY DEF Loop!Restrict

\* A session joins, if need be in the place of a participant that is away.
LEMMA RegisterMoves ==
  ASSUME WorkTyped, NEW s \in Ids, Loop!register(s)
  PROVE  Moves({}) /\ s \in DOMAIN participants'
<1>0. Loop!Bounded
  BY DEF Loop!register
<1>1. PICK ps : ps = Loop!readReconciledState
  OBVIOUS
<1>2. /\ ps \in [DOMAIN participants -> Participant]
      /\ \A i \in DOMAIN participants :
           /\ ps[i].lifecycle # "released" => ps[i].revision + 1 <= MaxRevision
           /\ \/ ps[i] = participants[i]
              \/ /\ ps[i].revision = participants[i].revision + 1
                 /\ ps[i].lifecycle = "offline" /\ ~Loop!Usable(i)
                 /\ participants[i].lifecycle \in {"working", "waiting_for_task"}
  BY <1>0, <1>1, Reconciled
<1>3. DOMAIN ps = DOMAIN participants
  BY <1>2
<1>4. \A i \in DOMAIN participants : participants[i].revision \in Nat /\ ps[i].revision \in Nat
  BY <1>2, WorkAssumed DEF WorkTyped, Participant
<1>5. CASE /\ s \in DOMAIN ps
           /\ participants' = IF ps[s].lifecycle = "offline"
                                THEN [ps EXCEPT ![s] = Loop!Moved(@, "working")] ELSE ps
  <2>1. PICK q : q = IF ps[s].lifecycle = "offline" THEN Loop!Moved(ps[s], "working") ELSE ps[s]
    OBVIOUS
  <2>2. participants' = [ps EXCEPT ![s] = q]
    BY <1>2, <1>5, <2>1
  <2>3. ps[s] \in Participant /\ (ps[s].lifecycle # "released" => ps[s].revision + 1 <= MaxRevision)
    BY <1>2, <1>3, <1>5
  <2>4. /\ q \in Participant
        /\ q = ps[s] \/ (q.revision = ps[s].revision + 1 /\ q.lifecycle = "working")
        /\ ps[s].lifecycle = "released" => q = ps[s]
    BY <2>1, <2>3, MovedParticipant
  <2>5. Loop!Put(s, q)
    BY <1>0, <1>1, <2>2 DEF Loop!Put
  <2>6. /\ q = Loop!readReconciledState[s] \/ q.revision = Loop!readReconciledState[s].revision + 1
        /\ Loop!readReconciledState[s].lifecycle = "released" => q = Loop!readReconciledState[s]
        /\ q.lifecycle = "released" => Loop!readReconciledState[s].lifecycle = "released" \/ s \in {}
    BY <1>1, <2>4
  <2> QED BY <1>3, <1>5, <2>4, <2>5, <2>6, PutMoves
<1>6. CASE /\ s \notin DOMAIN ps
           /\ \E room \in Loop!Rooms(ps) :
                participants' = [i \in DOMAIN room \cup {s} |->
                                   IF i = s THEN Loop!NewParticipant ELSE room[i]]
  <2>1. PICK room \in Loop!Rooms(ps) :
          participants' = [i \in DOMAIN room \cup {s} |->
                             IF i = s THEN Loop!NewParticipant ELSE room[i]]
    BY <1>6
  <2>2. /\ IsFiniteSet(DOMAIN ps) /\ Cardinality(DOMAIN ps) \in Nat
        /\ Cardinality(DOMAIN ps) <= MaxParticipants /\ MaxParticipants \in Nat
    BY <1>3, WorkAssumed, FS_CardinalityType DEF WorkTyped
  <2>3. /\ DOMAIN room \subseteq DOMAIN ps
        /\ \A i \in DOMAIN room : room[i] = ps[i]
        /\ \A i \in DOMAIN ps \ DOMAIN room :
             /\ ps[i].lifecycle \in {"released", "offline"}
             /\ Cardinality(DOMAIN ps) >= MaxParticipants
        /\ IsFiniteSet(DOMAIN room) /\ Cardinality(DOMAIN room) + 1 <= MaxParticipants
        /\ Cardinality(DOMAIN room) \in Nat
    <3>1. CASE Cardinality(DOMAIN ps) < MaxParticipants
      <4>1. room = ps
        BY <2>1, <3>1, LoopCardinality DEF Loop!Rooms
      <4> QED BY <2>2, <3>1, <4>1
    <3>2. CASE Cardinality(DOMAIN ps) >= MaxParticipants
      <4>1. PICK gone \in {i \in DOMAIN ps : ps[i].lifecycle \in {"released", "offline"}} :
              room = Loop!Restrict(ps, DOMAIN ps \ {gone})
        BY <2>1, <2>2, <3>2, LoopCardinality DEF Loop!Rooms
      <4>2. room = [i \in DOMAIN ps \ {gone} |-> ps[i]]
        BY <4>1, LoopRestrict
      <4>3. /\ IsFiniteSet(DOMAIN ps \ {gone})
            /\ Cardinality(DOMAIN ps \ {gone}) = Cardinality(DOMAIN ps) - 1
        BY <2>2, <4>1, FS_RemoveElement
      <4>4. Cardinality(DOMAIN ps \ {gone}) \in Nat
        BY <4>3, FS_CardinalityType
      <4>5. DOMAIN room = DOMAIN ps \ {gone}
        BY <4>2
      <4>6. /\ DOMAIN room \subseteq DOMAIN ps
            /\ \A i \in DOMAIN room : room[i] = ps[i]
            /\ \A i \in DOMAIN ps \ DOMAIN room : ps[i].lifecycle \in {"released", "offline"}
        BY <4>1, <4>2, <4>5
      <4>7. /\ IsFiniteSet(DOMAIN room) /\ Cardinality(DOMAIN room) \in Nat
            /\ Cardinality(DOMAIN room) = Cardinality(DOMAIN ps) - 1
        BY <4>3, <4>4, <4>5
      <4>8. Cardinality(DOMAIN room) + 1 <= MaxParticipants
        BY <2>2, <4>7
      <4> QED BY <3>2, <4>6, <4>7, <4>8
    <3> QED BY <2>2, <3>1, <3>2
  <2>4. Loop!NewParticipant \in Participant /\ Loop!NewParticipant.lifecycle = "working"
    BY WorkAssumed DEF Loop!NewParticipant, Participant, Loop!Lifecycles
  <2>5. /\ DOMAIN participants' = DOMAIN room \cup {s}
        /\ participants'[s] = Loop!NewParticipant
        /\ \A i \in DOMAIN room : i # s /\ participants'[i] = ps[i]
    BY <1>6, <2>1, <2>3
  <2>6. /\ IsFiniteSet(DOMAIN participants') /\ Cardinality(DOMAIN participants') <= MaxParticipants
        /\ DOMAIN participants' \subseteq Ids
    <3>1. s \notin DOMAIN room
      BY <1>6, <2>3
    <3>2. /\ IsFiniteSet(DOMAIN room \cup {s})
          /\ Cardinality(DOMAIN room \cup {s}) = Cardinality(DOMAIN room) + 1
      BY <2>3, <3>1, FS_AddElement
    <3> QED BY <1>3, <2>3, <2>5, <3>2 DEF WorkTyped
  <2>7. participants' \in [DOMAIN participants' -> Participant]
    <3>1. \A i \in DOMAIN participants' : participants'[i] \in Participant
      BY <1>2, <1>3, <2>3, <2>4, <2>5
    <3>2. participants' = [i \in DOMAIN participants' |-> participants'[i]]
      BY <2>1
    <3> QED BY <3>1, <3>2
  <2>8. ASSUME NEW i \in DOMAIN participants'
        PROVE  /\ i \in DOMAIN participants =>
                    /\ participants'[i] = participants[i] \/ participants'[i].revision > participants[i].revision
                    /\ participants[i].lifecycle = "released" => participants'[i] = participants[i]
               /\ i \notin DOMAIN participants => participants'[i].lifecycle = "working"
               /\ participants'[i].lifecycle = "released" =>
                    i \in DOMAIN participants /\ (i \in {} \/ participants[i].lifecycle = "released")
    <3>1. CASE i = s
      BY <1>3, <1>6, <2>4, <2>5, <3>1
    <3>2. CASE i # s
      <4>1. i \in DOMAIN room /\ i \in DOMAIN participants /\ participants'[i] = ps[i]
        BY <1>3, <2>3, <2>5, <2>8, <3>2
      <4> QED BY <1>2, <1>4, <4>1
    <3> QED BY <3>1, <3>2
  <2> QED BY <2>5, <2>6, <2>7, <2>8 DEF Moves
<1> QED BY <1>1, <1>5, <1>6 DEF Loop!register

-----------------------------------------------------------------------------
\* The other calls stay where they are; a decision on a participant that is dropped
\* is raced from then on.
CallKept(d) ==
  /\ calls'[d].session = calls[d].session /\ calls'[d].step = calls[d].step
  /\ calls'[d].target = calls[d].target /\ calls'[d].revision = calls[d].revision
  /\ calls[d] = Loop!Idle => calls'[d] = Loop!Idle
  /\ ~calls'[d].raced => ~calls[d].raced /\ ~Loop!Dropped(d)

\* What a step of a call does: the call goes on as `new', its operation releases
\* those in `let', and only its session may claim.
CallStep(c, new, let) ==
  /\ calls' \in [Calls -> CallRecord] /\ calls'[c] = new
  /\ new # Loop!Idle => new.session \in Ids
  /\ \A d \in Calls \ {c} : CallKept(d)
  /\ UNCHANGED status
  /\ Moves(let)
  /\ board' \in [Tasks -> BoardTask]
  /\ let = {} => UNCHANGED raced
  /\ let # {} =>
       /\ new = Loop!Idle /\ calls[c].step = "release" /\ let = {calls[c].target}
       /\ calls[c].target \in DOMAIN participants /\ Loop!Bounded /\ UNCHANGED board
       /\ Loop!readReconciledState[calls[c].target].revision = calls[c].revision
       /\ Loop!readReconciledState[calls[c].target].lifecycle \in {"waiting_for_task", "offline"}
       /\ raced' = IF calls[c].raced THEN raced \cup let ELSE raced \ let
  \* it claims what its session did not own only where a claim is due
  /\ \A s \in Ids : Holds(s)' =>
       Holds(s) \/ (s = calls[c].session /\ calls[c].step \in ClaimSteps)
  /\ new.step \in ClaimSteps =>
       /\ new.session \in DOMAIN participants'
       /\ participants'[new.session].lifecycle = "working"
  \* the manager reads the states, then the tasks
  /\ new.step = "list tasks" =>
       /\ new.target \in DOMAIN participants'
       /\ new.revision = participants'[new.target].revision
       /\ ~new.raced =>
            \A d \in Calls \ {c} : calls[d].session = new.target => calls[d].step \notin ClaimSteps
  /\ new.step = "release" =>
       /\ calls[c].step = "list tasks" /\ new.target = calls[c].target
       /\ new.revision = calls[c].revision /\ new.raced = calls[c].raced
       /\ UNCHANGED participants /\ ~Holds(new.target)'

CallSteps(c) == \E new, let : CallStep(c, new, let)

LEMMA CallTyped ==
  ASSUME WorkInv, NEW c \in Calls
  PROVE  /\ calls \in [Calls -> CallRecord] /\ calls[c] \in CallRecord
         /\ calls[c] # Loop!Idle => calls[c].session \in Ids
         /\ calls[c].step # "idle" => calls[c].session \in Ids /\ calls[c] # Loop!Idle
         /\ Loop!Idle \in CallRecord /\ Loop!Idle.step = "idle"
<1>1. Loop!Idle \in CallRecord /\ Loop!Idle.step = "idle"
  BY WorkAssumed DEF Loop!Idle, CallRecord, Loop!Steps
<1>2. /\ calls \in [Calls -> CallRecord] /\ calls[c] \in CallRecord
      /\ calls[c] # Loop!Idle => calls[c].session \in Ids
  BY DEF WorkInv, WorkTyped
<1> QED BY <1>1, <1>2

\* A call that becomes `new', while the others do not change.
LEMMA OneCall ==
  ASSUME WorkInv, NEW c \in Calls, NEW new \in CallRecord, calls' = [calls EXCEPT ![c] = new],
         DOMAIN participants \subseteq DOMAIN participants'
  PROVE  /\ calls' \in [Calls -> CallRecord] /\ calls'[c] = new
         /\ \A d \in Calls \ {c} : CallKept(d)
<1>1. calls \in [Calls -> CallRecord]
  BY CallTyped
<1>2. /\ calls' \in [Calls -> CallRecord] /\ calls'[c] = new
      /\ \A d \in Calls \ {c} : calls'[d] = calls[d]
  BY <1>1
<1> QED BY <1>2 DEF CallKept, Loop!Dropped

\* The board without a change.
LEMMA SameBoard ==
  ASSUME WorkInv, UNCHANGED board
  PROVE  /\ board' \in [Tasks -> BoardTask]
         /\ \A s : Holds(s)' <=> Holds(s)
BY DEF WorkInv, WorkTyped, Holds, Loop!Owned

\* A call goes on, or is over.
LEMMA GoSteps ==
  ASSUME WorkInv, NEW c \in Calls, NEW next \in Loop!Steps, calls[c] # Loop!Idle,
         next \notin {"list tasks", "release"},
         next \in ClaimSteps =>
           /\ calls[c].session \in DOMAIN participants'
           /\ participants'[calls[c].session].lifecycle = "working",
         Loop!Go(c, next), UNCHANGED <<status, raced>>,
         Moves({}), DOMAIN participants \subseteq DOMAIN participants',
         board' \in [Tasks -> BoardTask],
         \A s \in Ids : Holds(s)' =>
           Holds(s) \/ (s = calls[c].session /\ calls[c].step \in ClaimSteps)
  PROVE  CallSteps(c)
<1>1. PICK a : a = calls[c]
  OBVIOUS
<1>2. a \in CallRecord /\ a.session \in Ids
  BY <1>1, CallTyped
<1>3. PICK new : new = [a EXCEPT !.step = next]
  OBVIOUS
<1>4. /\ calls' = [calls EXCEPT ![c] = new] /\ new \in CallRecord
      /\ new.session = a.session /\ new.step = next
  BY <1>1, <1>2, <1>3 DEF Loop!Go, CallRecord
<1>5. CallStep(c, new, {})
  BY <1>1, <1>2, <1>4, OneCall DEF CallStep
<1> QED BY <1>5 DEF CallSteps

LEMMA ReturnSteps ==
  ASSUME WorkInv, NEW c \in Calls, Loop!Return(c), UNCHANGED <<status, raced>>,
         Moves({}), DOMAIN participants \subseteq DOMAIN participants',
         board' \in [Tasks -> BoardTask],
         \A s \in Ids : Holds(s)' =>
           Holds(s) \/ (s = calls[c].session /\ calls[c].step \in ClaimSteps)
  PROVE  CallSteps(c)
<1>1. calls' = [calls EXCEPT ![c] = Loop!Idle]
  BY DEF Loop!Return
<1>2. Loop!Idle \in CallRecord /\ Loop!Idle.step = "idle"
  BY CallTyped
<1>3. CallStep(c, Loop!Idle, {})
  BY <1>1, <1>2, OneCall DEF CallStep, ClaimSteps
<1> QED BY <1>3 DEF CallSteps

LEMMA BeginSteps ==
  ASSUME WorkInv, NEW c \in Calls, NEW s \in Ids, NEW tool \in DOMAIN Loop!Starts, Loop!Begin(c, s, tool)
  PROVE  CallSteps(c)
<1>1. PICK new : new = [Loop!Idle EXCEPT !.tool = tool, !.session = s, !.step = Loop!Starts[tool]]
  OBVIOUS
<1>2. calls' = [calls EXCEPT ![c] = new] /\ UNCHANGED <<status, participants, board, raced>>
  BY <1>1 DEF Loop!Begin
<1>3. /\ tool \in {"claim", "finish", "wait", "release"}
      /\ Loop!Starts[tool] \in {"mark working", "finish", "register", "list states"}
  <2>1. DOMAIN Loop!Starts = {"claim", "finish", "wait", "release"}
    BY DEF Loop!Starts
  <2>2. /\ Loop!Starts["claim"] = "mark working" /\ Loop!Starts["finish"] = "finish"
        /\ Loop!Starts["wait"] = "register" /\ Loop!Starts["release"] = "list states"
    BY DEF Loop!Starts
  <2> QED BY <2>1, <2>2
<1>4. Loop!Starts[tool] \in Loop!Steps
  BY <1>3 DEF Loop!Steps
<1>5. /\ new \in CallRecord /\ new.session = s
      /\ new.step \notin {"claim", "claim next", "list tasks", "release"}
  <2>1. PICK step : step = Loop!Starts[tool]
    OBVIOUS
  <2>2. new = [tool |-> tool, session |-> s, step |-> step, target |-> NoOne, revision |-> 0,
               active |-> FALSE, raced |-> FALSE]
    BY <1>1, <2>1 DEF Loop!Idle
  <2>3. 0 \in 0 .. MaxRevision
    BY WorkAssumed
  <2> QED BY <1>3, <1>4, <2>1, <2>2, <2>3 DEF CallRecord
<1>6. Moves({})
  BY <1>2, StillMoves DEF WorkInv
<1>7. CallStep(c, new, {})
  BY <1>2, <1>5, <1>6, SameBoard, OneCall DEF CallStep, ClaimSteps
<1> QED BY <1>7 DEF CallSteps

LEMMA FailsSteps ==
  ASSUME WorkInv, NEW c \in Calls, Loop!Fails(c)
  PROVE  CallSteps(c)
<1>1. calls[c] # Loop!Idle /\ UNCHANGED <<status, participants, board, raced>>
  BY DEF Loop!Fails
<1>2. Loop!Go(c, "report waiting") \/ Loop!Return(c)
  BY DEF Loop!Fails
<1>3. Moves({}) /\ board' \in [Tasks -> BoardTask] /\ (\A s \in Ids : Holds(s)' => Holds(s))
  BY <1>1, StillMoves, SameBoard DEF WorkInv
<1>4. CASE Loop!Go(c, "report waiting")
  <2>1. "report waiting" \in Loop!Steps /\ "report waiting" \notin ClaimSteps
    BY DEF Loop!Steps, ClaimSteps
  <2> QED BY <1>1, <1>3, <1>4, <2>1, GoSteps
<1>5. CASE Loop!Return(c)
  BY <1>1, <1>3, <1>5, ReturnSteps
<1> QED BY <1>2, <1>4, <1>5

\* An operation on the participants, and then the call goes on or is over.
LEMMA OperationSteps ==
  ASSUME WorkInv, NEW c \in Calls, NEW next \in Loop!Steps, calls[c] # Loop!Idle,
         Moves({}), DOMAIN participants \subseteq DOMAIN participants',
         UNCHANGED <<status, board, raced>>,
         next \notin {"claim", "claim next", "list tasks", "release"},
         Loop!Go(c, next) \/ Loop!Return(c) \/ Loop!GoUnlessReleased(c, next)
  PROVE  CallSteps(c)
<1>1. board' \in [Tasks -> BoardTask] /\ (\A s \in Ids : Holds(s)' => Holds(s))
  BY SameBoard
<1>2. Loop!Go(c, next) \/ Loop!Return(c)
  BY DEF Loop!GoUnlessReleased
<1>3. CASE Loop!Go(c, next)
  BY <1>1, <1>3, GoSteps DEF ClaimSteps
<1>4. CASE Loop!Return(c)
  BY <1>1, <1>4, ReturnSteps
<1> QED BY <1>2, <1>3, <1>4

LEMMA MarkWorkingSteps ==
  ASSUME WorkInv, NEW c \in Calls, Loop!MarkWorking(c)
  PROVE  CallSteps(c)
<1> DEFINE s == calls[c].session
<1>1. /\ calls[c].step = "mark working" /\ Loop!mark(s, "working")
      /\ UNCHANGED <<status, board, raced>>
      /\ Loop!GoUnlessReleased(c, IF calls[c].tool = "claim" THEN "claim" ELSE "claim next")
  BY DEF Loop!MarkWorking, Loop!At
<1>2. calls[c] # Loop!Idle
  BY <1>1, CallTyped
<1>3. /\ Moves({}) /\ s \in DOMAIN participants' /\ DOMAIN participants' = DOMAIN participants
      /\ participants'[s].lifecycle \in {"working", "released"}
  BY <1>1, MarkMoves DEF WorkInv
<1>4. board' \in [Tasks -> BoardTask] /\ (\A i \in Ids : Holds(i)' => Holds(i))
  BY <1>1, SameBoard
<1>5. CASE participants'[s].lifecycle = "released"
  <2>1. Loop!Return(c)
    BY <1>1, <1>5 DEF Loop!GoUnlessReleased
  <2> QED BY <1>1, <1>3, <1>4, <2>1, ReturnSteps
<1>6. CASE participants'[s].lifecycle = "working"
  <2>1. PICK next \in {"claim", "claim next"} : Loop!Go(c, next)
    BY <1>1, <1>6 DEF Loop!GoUnlessReleased
  <2>2. next \in Loop!Steps /\ next \notin {"list tasks", "release"}
    BY <2>1 DEF Loop!Steps
  <2> HIDE DEF s
  <2>3. calls[c].session = s
    BY DEF s
  <2> QED BY <1>1, <1>2, <1>3, <1>4, <1>6, <2>1, <2>2, <2>3, GoSteps
<1> QED BY <1>3, <1>5, <1>6

\* A task that is claimed for s.
LEMMA ClaimedHolds ==
  ASSUME WorkInv, NEW t \in Tasks, NEW s \in Ids, Loop!Claimed(t, s)
  PROVE  /\ board' \in [Tasks -> BoardTask]
         /\ \A i \in Ids : Holds(i)' => Holds(i) \/ i = s
<1>1. PICK new : new = [state |-> "working", owner |-> s]
  OBVIOUS
<1>2. board' = [board EXCEPT ![t] = new] /\ board \in [Tasks -> BoardTask]
  BY <1>1 DEF Loop!Claimed, WorkInv, WorkTyped
<1>3. new \in BoardTask /\ new.owner = s
  BY <1>1 DEF BoardTask
<1>4. \A u \in Tasks : board'[u] = IF u = t THEN new ELSE board[u]
  BY <1>2
<1> QED BY <1>2, <1>3, <1>4 DEF Holds, Loop!Owned

LEMMA ClaimingSteps ==
  ASSUME WorkInv, NEW c \in Calls, Loop!Claim(c) \/ Loop!ClaimNext(c)
  PROVE  CallSteps(c)
<1>1. /\ calls[c].step \in ClaimSteps /\ UNCHANGED <<status, participants, raced>>
      /\ Loop!Return(c) \/ Loop!Go(c, "report working") \/ Loop!Go(c, "report waiting")
      /\ UNCHANGED board \/ \E t \in Tasks : Loop!Claimed(t, calls[c].session)
  BY DEF Loop!Claim, Loop!ClaimNext, Loop!At, ClaimSteps
<1>2. calls[c] # Loop!Idle /\ calls[c].session \in Ids
  BY <1>1, CallTyped DEF ClaimSteps
<1>3. /\ board' \in [Tasks -> BoardTask]
      /\ \A s \in Ids : Holds(s)' => Holds(s) \/ s = calls[c].session
  BY <1>1, <1>2, ClaimedHolds, SameBoard
<1>4. Moves({})
  BY <1>1, StillMoves DEF WorkInv
<1>5. \A s \in Ids : Holds(s)' =>
        Holds(s) \/ (s = calls[c].session /\ calls[c].step \in ClaimSteps)
  BY <1>1, <1>3
<1>6. CASE Loop!Return(c)
  BY <1>1, <1>3, <1>4, <1>5, <1>6, ReturnSteps
<1>7. ASSUME NEW next \in {"report working", "report waiting"}, Loop!Go(c, next)
      PROVE  CallSteps(c)
  <2>1. next \in Loop!Steps /\ next \notin ClaimSteps
    BY <1>7 DEF Loop!Steps, ClaimSteps
  <2> QED BY <1>1, <1>2, <1>3, <1>4, <1>5, <1>7, <2>1, GoSteps
<1> QED BY <1>1, <1>6, <1>7

LEMMA FinishSteps ==
  ASSUME WorkInv, NEW c \in Calls, Loop!Finish(c)
  PROVE  CallSteps(c)
<1>1. PICK t \in Tasks : board' = [board EXCEPT ![t] = [state |-> "done", owner |-> NoOne]]
  BY DEF Loop!Finish
<1>2. /\ calls[c].step = "finish" /\ UNCHANGED <<status, participants, raced>>
      /\ Loop!Go(c, "register")
  BY DEF Loop!Finish, Loop!At
<1>3. calls[c] # Loop!Idle
  BY <1>2, CallTyped
<1>4. PICK new : new = [state |-> "done", owner |-> NoOne]
  OBVIOUS
<1>5. board' = [board EXCEPT ![t] = new] /\ board \in [Tasks -> BoardTask] /\ new \in BoardTask
      /\ new.state = "done"
  BY <1>1, <1>4 DEF BoardTask, WorkInv, WorkTyped
<1>6. \A u \in Tasks : board'[u] = IF u = t THEN new ELSE board[u]
  BY <1>5
<1>7. board' \in [Tasks -> BoardTask] /\ (\A s \in Ids : Holds(s)' => Holds(s))
  BY <1>5, <1>6 DEF Holds, Loop!Owned
<1>8. "register" \in Loop!Steps /\ "register" \notin ClaimSteps /\ Moves({})
  BY <1>2, StillMoves DEF Loop!Steps, ClaimSteps, WorkInv
<1> QED BY <1>2, <1>3, <1>7, <1>8, GoSteps

LEMMA RegisterSteps ==
  ASSUME WorkInv, NEW c \in Calls, Loop!Register(c)
  PROVE  CallSteps(c)
<1>1. /\ calls[c].step = "register" /\ Loop!register(calls[c].session)
      /\ UNCHANGED <<status, board, raced>>
  BY DEF Loop!Register, Loop!At
<1>2. calls[c].session \in Ids /\ calls[c] \in CallRecord /\ calls \in [Calls -> CallRecord]
  BY <1>1, CallTyped
<1>3. Moves({})
  BY <1>1, <1>2, RegisterMoves DEF WorkInv
<1>4. PICK step \in {"idle", "look for own", "snapshot"} :
        calls' = [d \in Calls |->
                    IF d = c THEN IF step = "idle" THEN Loop!Idle ELSE [calls[c] EXCEPT !.step = step]
                    ELSE [calls[d] EXCEPT !.raced = @ \/ Loop!Dropped(d)]]
  <2>1. PICK step : step = IF participants'[calls[c].session].lifecycle = "released" THEN "idle"
                           ELSE IF calls[c].tool = "finish" THEN "look for own" ELSE "snapshot"
    OBVIOUS
  <2>2. calls' = [d \in Calls |->
                    IF d = c THEN IF step = "idle" THEN Loop!Idle ELSE [calls[c] EXCEPT !.step = step]
                    ELSE [calls[d] EXCEPT !.raced = @ \/ Loop!Dropped(d)]]
    BY <2>1, Zenon DEF Loop!Register
  <2> QED BY <2>1, <2>2
<1>5. PICK new : new = IF step = "idle" THEN Loop!Idle ELSE [calls[c] EXCEPT !.step = step]
  OBVIOUS
<1>6. calls'[c] = new
  BY <1>4, <1>5
<1>7. /\ new \in CallRecord
      /\ new # Loop!Idle => new.session \in Ids
      /\ new.step \notin {"claim", "claim next", "list tasks", "release"}
  <2>1. CASE step = "idle"
    BY <1>5, <2>1, CallTyped
  <2>2. CASE step # "idle"
    <3>1. step \in Loop!Steps
      BY <1>4 DEF Loop!Steps
    <3>2. new = [calls[c] EXCEPT !.step = step]
      BY <1>5, <2>2
    <3> QED BY <1>2, <1>4, <2>2, <3>1, <3>2 DEF CallRecord
  <2> QED BY <2>1, <2>2
<1>8. ASSUME NEW d \in Calls \ {c}
      PROVE  CallKept(d) /\ calls'[d] \in CallRecord
  <2>1. PICK a : a = calls[d]
    OBVIOUS
  <2>2. PICK r : r = (calls[d].raced \/ Loop!Dropped(d))
    OBVIOUS
  <2>3. calls'[d] = [a EXCEPT !.raced = r]
    <3>1. calls'[d] = [calls[d] EXCEPT !.raced = calls[d].raced \/ Loop!Dropped(d)]
      BY <1>4, <1>8
    <3> QED BY <2>1, <2>2, <3>1, Zenon
  <2>4. a \in CallRecord /\ r \in BOOLEAN /\ (~r => ~a.raced /\ ~Loop!Dropped(d))
    <3>1. a \in CallRecord
      BY <1>2, <2>1
    <3>2. r \in BOOLEAN
      BY <2>2, Zenon
    <3>3. ~r => ~a.raced /\ ~Loop!Dropped(d)
      BY <2>1, <2>2, Zenon
    <3> QED BY <3>1, <3>2, <3>3
  <2>5. /\ calls'[d] \in CallRecord
        /\ calls'[d].session = a.session /\ calls'[d].step = a.step
        /\ calls'[d].target = a.target /\ calls'[d].revision = a.revision
        /\ calls'[d].raced = r
    BY <2>3, <2>4 DEF CallRecord
  <2>6. a = Loop!Idle => calls'[d] = Loop!Idle
    <3>1. SUFFICES ASSUME a = Loop!Idle PROVE calls'[d] = Loop!Idle
      OBVIOUS
    <3>2. a.target = NoOne /\ a.raced = FALSE
      BY <3>1 DEF Loop!Idle
    <3>3. ~Loop!Dropped(d)
      BY <2>1, <3>2, WorkAssumed DEF Loop!Dropped, WorkInv, WorkTyped
    <3>4. ~r
      BY <2>1, <2>2, <3>2, <3>3, Zenon
    <3>5. calls'[d] = [a EXCEPT !.raced = FALSE]
      BY <2>3, <2>4, <3>4
    <3> QED BY <2>4, <3>1, <3>5 DEF Loop!Idle
  <2>7. ~calls'[d].raced => ~a.raced /\ ~Loop!Dropped(d)
    BY <2>4, <2>5
  <2>8. /\ calls'[d].session = calls[d].session /\ calls'[d].step = calls[d].step
        /\ calls'[d].target = calls[d].target /\ calls'[d].revision = calls[d].revision
        /\ calls[d] = Loop!Idle => calls'[d] = Loop!Idle
        /\ ~calls'[d].raced => ~calls[d].raced /\ ~Loop!Dropped(d)
    BY <2>1, <2>5, <2>6, <2>7
  <2>9. CallKept(d)
    BY <2>8, Zenon DEF CallKept
  <2> QED BY <2>5, <2>9
<1>9. calls' \in [Calls -> CallRecord]
  <2>1. calls' = [d \in Calls |-> calls'[d]]
    <3> DEFINE F(d) == IF d = c THEN IF step = "idle" THEN Loop!Idle ELSE [calls[c] EXCEPT !.step = step]
                       ELSE [calls[d] EXCEPT !.raced = @ \/ Loop!Dropped(d)]
    <3>1. calls' = [d \in Calls |-> F(d)]
      BY <1>4, Zenon
    <3> HIDE DEF F
    <3> QED BY <3>1
  <2>2. \A d \in Calls : calls'[d] \in CallRecord
    <3> SUFFICES ASSUME NEW d \in Calls PROVE calls'[d] \in CallRecord
      OBVIOUS
    <3>1. CASE d = c
      BY <1>6, <1>7, <3>1
    <3>2. CASE d # c
      BY <1>8, <3>2
    <3> QED BY <3>1, <3>2
  <2> QED BY <2>1, <2>2
<1>10. CallStep(c, new, {})
  BY <1>1, <1>3, <1>6, <1>7, <1>8, <1>9, SameBoard DEF CallStep, ClaimSteps
<1> QED BY <1>10 DEF CallSteps

LEMMA LookForOwnSteps ==
  ASSUME WorkInv, NEW c \in Calls, Loop!LookForOwn(c)
  PROVE  CallSteps(c)
<1>1. calls[c].step = "look for own" /\ UNCHANGED <<status, participants, board, raced>>
  BY DEF Loop!LookForOwn, Loop!At
<1>2. PICK next \in {"report working", "report waiting", "mark working"} : Loop!Go(c, next)
  BY DEF Loop!LookForOwn
<1>3. next \in Loop!Steps /\ next \notin {"claim", "claim next", "list tasks", "release"}
  BY <1>2 DEF Loop!Steps
<1>4. Moves({}) /\ calls[c] # Loop!Idle
  BY <1>1, StillMoves, CallTyped DEF WorkInv
<1> QED BY <1>1, <1>2, <1>3, <1>4, OperationSteps

LEMMA ReportSteps ==
  ASSUME WorkInv, NEW c \in Calls, Loop!Report(c)
  PROVE  CallSteps(c)
<1>1. PICK next \in {"working", "waiting_for_task"} :
        calls[c].step \in {"report working", "report waiting"}
          /\ Loop!mark(calls[c].session, next)
  BY DEF Loop!Report, Loop!At
<1>2. Loop!Return(c) /\ UNCHANGED <<status, board, raced>>
  BY DEF Loop!Report
<1>3. calls[c] # Loop!Idle
  BY <1>1, CallTyped
<1>4. Moves({}) /\ DOMAIN participants' = DOMAIN participants
  BY <1>1, MarkMoves DEF WorkInv
<1>5. "idle" \in Loop!Steps
  BY DEF Loop!Steps
<1> QED BY <1>2, <1>3, <1>4, <1>5, OperationSteps

LEMMA WaitSteps ==
  ASSUME WorkInv, NEW c \in Calls, Loop!Wait(c)
  PROVE  CallSteps(c)
<1>1. /\ calls[c].step = "wait" /\ Loop!mark(calls[c].session, "waiting_for_task")
      /\ UNCHANGED <<status, board, raced>> /\ Loop!GoUnlessReleased(c, "poll")
  BY DEF Loop!Wait, Loop!At
<1>2. calls[c] # Loop!Idle
  BY <1>1, CallTyped
<1>3. Moves({}) /\ DOMAIN participants' = DOMAIN participants
  BY <1>1, MarkMoves DEF WorkInv
<1>4. "poll" \in Loop!Steps
  BY DEF Loop!Steps
<1> QED BY <1>1, <1>2, <1>3, <1>4, OperationSteps

LEMMA RecordSteps ==
  ASSUME WorkInv, NEW c \in Calls, Loop!Record(c)
  PROVE  CallSteps(c)
<1>1. /\ calls[c].step = "record"
      /\ Loop!recordOutcome(calls[c].session, calls[c].revision = 1, calls[c].active)
      /\ UNCHANGED <<status, board, raced>> /\ Loop!Return(c)
  BY DEF Loop!Record, Loop!At
<1>2. calls[c] # Loop!Idle
  BY <1>1, CallTyped
<1>3. Moves({}) /\ DOMAIN participants' = DOMAIN participants
  BY <1>1, OutcomeMoves DEF WorkInv
<1>4. "idle" \in Loop!Steps
  BY DEF Loop!Steps
<1> QED BY <1>1, <1>2, <1>3, <1>4, OperationSteps

\* A call that goes on to record what it found.
LEMMA FoundSteps ==
  ASSUME WorkInv, NEW c \in Calls, calls[c] # Loop!Idle, UNCHANGED <<status, board, raced>>,
         Moves({}), DOMAIN participants \subseteq DOMAIN participants',
         NEW changed \in {0, 1}, NEW active \in BOOLEAN,
         calls' = [calls EXCEPT ![c].step = "record", ![c].revision = changed, ![c].active = active]
  PROVE  CallSteps(c)
<1>1. PICK a : a = calls[c]
  OBVIOUS
<1>2. a \in CallRecord /\ a.session \in Ids
  BY <1>1, CallTyped
<1>3. PICK new : new = [a EXCEPT !.step = "record", !.revision = changed, !.active = active]
  OBVIOUS
<1>4. changed \in 0 .. MaxRevision /\ "record" \in Loop!Steps
  BY WorkAssumed DEF Loop!Steps
<1>5. new \in CallRecord /\ new.session = a.session /\ new.step = "record"
  BY <1>2, <1>3, <1>4 DEF CallRecord
<1>6. calls' = [calls EXCEPT ![c] = new]
  BY <1>1, <1>2, <1>3 DEF CallRecord, WorkInv, WorkTyped
<1>7. CallStep(c, new, {})
  BY <1>2, <1>5, <1>6, SameBoard, OneCall DEF CallStep, ClaimSteps
<1> QED BY <1>7 DEF CallSteps

LEMMA SnapshotSteps ==
  ASSUME WorkInv, NEW c \in Calls, Loop!Snapshot(c)
  PROVE  CallSteps(c)
<1>1. calls[c].step = "snapshot" /\ UNCHANGED <<status, participants, board, raced>>
  BY DEF Loop!Snapshot, Loop!At
<1>2. calls[c] # Loop!Idle /\ Moves({})
  BY <1>1, CallTyped, StillMoves DEF WorkInv
<1>3. CASE Loop!Go(c, "wait")
  <2>1. "wait" \in Loop!Steps
    BY DEF Loop!Steps
  <2> QED BY <1>1, <1>2, <1>3, <2>1, OperationSteps
<1>4. CASE calls' = [calls EXCEPT ![c].step = "record",
                                  ![c].active = Loop!Owned(calls[c].session, "working"),
                                  ![c].revision = 1]
  <2> DEFINE own == Loop!Owned(calls[c].session, "working")
  <2>1. own \in BOOLEAN
    BY DEF Loop!Owned
  <2>2. calls' = [calls EXCEPT ![c].step = "record", ![c].revision = 1, ![c].active = own]
    <3>1. calls[c] \in CallRecord /\ calls \in [Calls -> CallRecord]
      BY CallTyped DEF WorkInv, WorkTyped
    <3>2. PICK b : b = own
      OBVIOUS
    <3>3. calls' = [calls EXCEPT ![c].step = "record", ![c].active = b, ![c].revision = 1]
      BY <1>4, <3>2
    <3>4. calls' = [calls EXCEPT ![c].step = "record", ![c].revision = 1, ![c].active = b]
      BY <3>1, <3>3 DEF CallRecord
    <3> QED BY <3>2, <3>4
  <2> HIDE DEF own
  <2> QED BY <1>1, <1>2, <2>1, <2>2, FoundSteps
<1> QED BY <1>3, <1>4 DEF Loop!Snapshot

LEMMA PollSteps ==
  ASSUME WorkInv, NEW c \in Calls, Loop!Poll(c)
  PROVE  CallSteps(c)
<1>1. calls[c].step = "poll" /\ UNCHANGED <<status, board, raced>> /\ Loop!Look
  BY DEF Loop!Poll, Loop!At
<1>2. calls[c] # Loop!Idle /\ Moves({}) /\ DOMAIN participants' = DOMAIN participants
  BY <1>1, CallTyped, LookMoves DEF WorkInv
<1>3. CASE Loop!GoUnlessReleased(c, "poll")
  <2>1. "poll" \in Loop!Steps
    BY DEF Loop!Steps
  <2> QED BY <1>1, <1>2, <1>3, <2>1, OperationSteps
<1>4. CASE \E changed \in {0, 1} :
             calls' = [calls EXCEPT ![c].step = "record", ![c].revision = changed,
                         ![c].active = changed = 1 /\ Loop!Owned(calls[c].session, "working")]
  <2>1. PICK changed \in {0, 1} :
          calls' = [calls EXCEPT ![c].step = "record", ![c].revision = changed,
                      ![c].active = changed = 1 /\ Loop!Owned(calls[c].session, "working")]
    BY <1>4
  <2> DEFINE own == changed = 1 /\ Loop!Owned(calls[c].session, "working")
  <2>2. own \in BOOLEAN
    OBVIOUS
  <2>3. calls' = [calls EXCEPT ![c].step = "record", ![c].revision = changed, ![c].active = own]
    BY <2>1
  <2> HIDE DEF own
  <2> QED BY <1>1, <1>2, <2>2, <2>3, FoundSteps
<1> QED BY <1>3, <1>4 DEF Loop!Poll

LEMMA ListStatesSteps ==
  ASSUME WorkInv, NEW c \in Calls, Loop!ListStates(c)
  PROVE  CallSteps(c)
<1>1. /\ calls[c].step = "list states" /\ UNCHANGED <<status, board, raced>>
      /\ Loop!Look /\ Loop!Bounded
  BY DEF Loop!ListStates, Loop!At, Loop!Look
<1>2. PICK target \in DOMAIN participants :
        calls' = [calls EXCEPT ![c].step = "list tasks", ![c].target = target,
                               ![c].revision = Loop!readReconciledState[target].revision,
                               ![c].raced = Loop!Claiming(target)]
  BY DEF Loop!ListStates
<1>3. /\ Moves({}) /\ DOMAIN participants' = DOMAIN participants
      /\ calls[c].session \in Ids
  BY <1>1, CallTyped, LookMoves DEF WorkInv
<1>4. PICK revision : revision = Loop!readReconciledState[target].revision
  OBVIOUS
<1>5. participants'[target].revision = revision
  BY <1>1, <1>4 DEF Loop!Look
<1>6. revision \in 0 .. MaxRevision /\ target \in Ids
  <2>1. Loop!readReconciledState[target] \in Participant
    BY <1>1, <1>2, Reconciled DEF WorkInv
  <2>2. revision \in 1 .. MaxRevision
    BY <1>4, <2>1 DEF Participant
  <2>3. MaxRevision \in Nat
    BY WorkAssumed
  <2>4. target \in Ids
    BY <1>2 DEF WorkInv, WorkTyped
  <2> QED BY <2>2, <2>3, <2>4
<1>7. PICK claiming : claiming = Loop!Claiming(target)
  OBVIOUS
<1>8. /\ claiming \in BOOLEAN
      /\ ~claiming => \A d \in Calls : calls[d].session = target => calls[d].step \notin ClaimSteps
  BY <1>7 DEF Loop!Claiming, ClaimSteps
<1>9. PICK a : a = calls[c]
  OBVIOUS
<1>10. a \in CallRecord /\ calls \in [Calls -> CallRecord] /\ "list tasks" \in Loop!Steps
  BY <1>9, CallTyped DEF Loop!Steps
<1>11. PICK new : new = [a EXCEPT !.step = "list tasks", !.target = target, !.revision = revision,
                                  !.raced = claiming]
  OBVIOUS
<1>12. /\ new \in CallRecord /\ new.session = a.session /\ new.step = "list tasks"
       /\ new.target = target /\ new.revision = revision /\ new.raced = claiming
  BY <1>6, <1>8, <1>10, <1>11 DEF CallRecord
<1>13. calls' = [calls EXCEPT ![c] = new]
  BY <1>2, <1>4, <1>7, <1>9, <1>10, <1>11 DEF CallRecord
<1>14. CallStep(c, new, {})
  BY <1>1, <1>2, <1>3, <1>5, <1>8, <1>9, <1>12, <1>13, SameBoard, OneCall DEF CallStep, ClaimSteps
<1> QED BY <1>14 DEF CallSteps

LEMMA ListTasksSteps ==
  ASSUME WorkInv, NEW c \in Calls, Loop!ListTasks(c)
  PROVE  CallSteps(c)
<1>1. /\ calls[c].step = "list tasks" /\ UNCHANGED <<status, participants, board, raced>>
      /\ ~Holds(calls[c].target) /\ Loop!Go(c, "release")
  BY DEF Loop!ListTasks, Loop!At, Holds
<1>2. calls[c].session \in Ids /\ Moves({})
  BY <1>1, CallTyped, StillMoves DEF WorkInv
<1>3. PICK a : a = calls[c]
  OBVIOUS
<1>4. a \in CallRecord /\ "release" \in Loop!Steps
  BY <1>3, CallTyped DEF Loop!Steps
<1>5. PICK new : new = [a EXCEPT !.step = "release"]
  OBVIOUS
<1>6. /\ new \in CallRecord /\ new.session = a.session /\ new.step = "release"
      /\ new.target = a.target /\ new.revision = a.revision /\ new.raced = a.raced
  BY <1>4, <1>5 DEF CallRecord
<1>7. calls' = [calls EXCEPT ![c] = new]
  BY <1>1, <1>3, <1>5 DEF Loop!Go
<1>8. ~Holds(new.target)'
  BY <1>1, <1>3, <1>6, SameBoard
<1>9. CallStep(c, new, {})
  BY <1>1, <1>2, <1>3, <1>6, <1>7, <1>8, SameBoard, OneCall DEF CallStep, ClaimSteps
<1> QED BY <1>9 DEF CallSteps

LEMMA ReleaseSteps ==
  ASSUME WorkInv, NEW c \in Calls, Loop!Release(c)
  PROVE  CallSteps(c)
<1> DEFINE target == calls[c].target
<1>1. /\ calls[c].step = "release" /\ UNCHANGED <<status, board>>
      /\ Loop!mayRelease(calls[c].session, target, calls[c].revision)
      /\ Loop!releaseByManager(calls[c].session, target)
      /\ raced' = IF calls[c].raced THEN raced \cup {target} ELSE raced \ {target}
      /\ Loop!Return(c)
  BY DEF Loop!Release, Loop!At
<1>2. calls[c].session \in Ids
  BY <1>1, CallTyped
<1>3. /\ Moves({target}) /\ target \in DOMAIN participants /\ Loop!Bounded
      /\ DOMAIN participants' = DOMAIN participants
      /\ Loop!readReconciledState[target].revision = calls[c].revision
      /\ Loop!readReconciledState[target].lifecycle \in {"waiting_for_task", "offline"}
  BY <1>1, <1>2, ReleaseMoves DEF WorkInv
<1>4. calls' = [calls EXCEPT ![c] = Loop!Idle] /\ Loop!Idle \in CallRecord /\ Loop!Idle.step = "idle"
  BY <1>1, CallTyped DEF Loop!Return
<1>5. CallStep(c, Loop!Idle, {target})
  BY <1>1, <1>3, <1>4, SameBoard, OneCall DEF CallStep, ClaimSteps
<1> QED BY <1>5 DEF CallSteps

LEMMA AllCallSteps ==
  ASSUME WorkInv, NEW c \in Calls,
         \/ \E s \in Ids, tool \in DOMAIN Loop!Starts : Loop!Begin(c, s, tool)
         \/ Loop!Fails(c)
         \/ Loop!Proceed(c)
  PROVE  CallSteps(c)
BY BeginSteps, FailsSteps, MarkWorkingSteps, ClaimingSteps, FinishSteps, RegisterSteps,
   LookForOwnSteps, ReportSteps, SnapshotSteps, WaitSteps, PollSteps, RecordSteps,
   ListStatesSteps, ListTasksSteps, ReleaseSteps
   DEF Loop!Proceed

-----------------------------------------------------------------------------
\* The other steps: a session moves on, its transport goes away, the board changes.
OtherStep ==
  /\ UNCHANGED <<calls, raced>> /\ Moves({}) /\ DOMAIN participants' = DOMAIN participants
  /\ status' \in [Ids -> Loop!Sessions!Statuses]
  /\ board' \in [Tasks -> BoardTask]
  /\ \A s \in Ids : Holds(s)' => Holds(s)

LEMMA LoopAfter ==
  ASSUME NEW st, NEW next \in Loop!Sessions!After(st)
  PROVE  next \in Loop!Sessions!Statuses
BY DEF Loop!Sessions!After, Loop!Sessions!Statuses, Loop!Sessions!Usable

TaskChanges(t) ==
  \E new : /\ board' = [board EXCEPT ![t] = new] /\ new \in BoardTask
           /\ \/ new.state = "open"
              \/ /\ new.owner = board[t].owner
                 /\ board[t].state \in {"working", "input_required"}

LEMMA BoardChanges ==
  ASSUME NEW t \in Tasks, board \in [Tasks -> BoardTask], Loop!BoardStep(t)
  PROVE  TaskChanges(t)
<1>1. PICK a : a = board[t]
  OBVIOUS
<1>2. a \in BoardTask
  BY <1>1
<1>3. ASSUME board' = [board EXCEPT ![t] = [state |-> "open", owner |-> NoOne]]
      PROVE  TaskChanges(t)
  <2>1. PICK new : new = [state |-> "open", owner |-> NoOne]
    OBVIOUS
  <2>2. new \in BoardTask /\ new.state = "open"
    BY <2>1 DEF BoardTask
  <2>3. board' = [board EXCEPT ![t] = new]
    BY <1>3, <2>1
  <2> QED BY <2>2, <2>3 DEF TaskChanges
<1>4. ASSUME NEW st \in {"working", "input_required"}, a.state \in {"working", "input_required"},
             board' = [board EXCEPT ![t].state = st]
      PROVE  TaskChanges(t)
  <2>1. PICK new : new = [a EXCEPT !.state = st]
    OBVIOUS
  <2>2. new \in BoardTask /\ new.owner = a.owner
    BY <1>2, <2>1 DEF BoardTask
  <2>3. board' = [board EXCEPT ![t] = new]
    BY <1>1, <1>4, <2>1
  <2> QED BY <1>1, <1>4, <2>2, <2>3 DEF TaskChanges
<1>5. CASE board' = [board EXCEPT ![t] = [state |-> "open", owner |-> NoOne]]
  BY <1>3, <1>5
<1>6. CASE board[t].state = "working" /\ board' = [board EXCEPT ![t].state = "input_required"]
  BY <1>1, <1>4, <1>6
<1>7. CASE board[t].state = "input_required" /\ board' = [board EXCEPT ![t].state = "working"]
  BY <1>1, <1>4, <1>7
<1> QED BY <1>5, <1>6, <1>7 DEF Loop!BoardStep

LEMMA OtherSteps ==
  ASSUME WorkInv,
         \/ \E s \in Ids : Loop!SessionStep(s) \/ Loop!Disconnect(s)
         \/ \E t \in Tasks : Loop!BoardStep(t)
  PROVE  OtherStep
<1>0. status \in [Ids -> Loop!Sessions!Statuses] /\ board \in [Tasks -> BoardTask]
  BY DEF WorkInv, WorkTyped
<1>1. ASSUME NEW s \in Ids, Loop!SessionStep(s)  PROVE OtherStep
  <2>1. PICK next \in Loop!Sessions!After(status[s]) : status' = [status EXCEPT ![s] = next]
    BY <1>1 DEF Loop!SessionStep
  <2>2. UNCHANGED <<participants, board, calls, raced>>
    BY <1>1 DEF Loop!SessionStep
  <2>3. next \in Loop!Sessions!Statuses
    BY LoopAfter
  <2>4. Moves({})
    BY <2>2, StillMoves DEF WorkInv
  <2>5. status' \in [Ids -> Loop!Sessions!Statuses]
    BY <1>0, <2>1, <2>3
  <2> QED BY <2>2, <2>4, <2>5, SameBoard DEF OtherStep
<1>2. ASSUME NEW s \in Ids, Loop!Disconnect(s)  PROVE OtherStep
  <2>1. Loop!disconnect(s) /\ UNCHANGED <<status, board, calls, raced>>
    BY <1>2 DEF Loop!Disconnect
  <2>2. Moves({}) /\ DOMAIN participants' = DOMAIN participants
    BY <2>1, DisconnectMoves DEF WorkInv
  <2> QED BY <1>0, <2>1, <2>2, SameBoard DEF OtherStep
<1>3. ASSUME NEW t \in Tasks, Loop!BoardStep(t)  PROVE OtherStep
  <2>1. UNCHANGED <<status, participants, calls, raced>>
    BY <1>3 DEF Loop!BoardStep
  <2>2. PICK new : /\ board' = [board EXCEPT ![t] = new] /\ new \in BoardTask
                   /\ \/ new.state = "open"
                      \/ /\ new.owner = board[t].owner
                         /\ board[t].state \in {"working", "input_required"}
    BY <1>0, <1>3, BoardChanges DEF TaskChanges
  <2>3. Moves({})
    BY <2>1, StillMoves DEF WorkInv
  <2>4. board' \in [Tasks -> BoardTask] /\ \A u \in Tasks : board'[u] = IF u = t THEN new ELSE board[u]
    BY <1>0, <2>2
  <2>5. \A s \in Ids : Holds(s)' => Holds(s)
    BY <2>2, <2>4 DEF Holds, Loop!Owned
  <2> QED BY <1>0, <2>1, <2>3, <2>4, <2>5 DEF OtherStep
<1> QED BY <1>1, <1>2, <1>3

LEMMA WorkSteps ==
  ASSUME WorkInv, Loop!Next
  PROVE  (\E c \in Calls : CallSteps(c)) \/ OtherStep
BY AllCallSteps, OtherSteps DEF Loop!Next

-----------------------------------------------------------------------------
(* The release of participants. *)

\* A participant that is neither dropped nor changed in its revision is the same.
LEMMA RevisionTells ==
  ASSUME WorkTyped, NEW let, Moves(let), NEW s \in DOMAIN participants, s \in DOMAIN participants'
  PROVE  /\ participants[s].revision \in Nat /\ participants'[s].revision \in Nat
         /\ participants'[s].revision >= participants[s].revision
         /\ participants'[s].revision = participants[s].revision => participants'[s] = participants[s]
<1>1. participants[s] \in Participant /\ participants'[s] \in Participant
  BY DEF Moves, WorkTyped
<1>2. participants[s].revision \in Nat /\ participants'[s].revision \in Nat
  BY <1>1, WorkAssumed DEF Participant
<1>3. participants'[s] = participants[s] \/ participants'[s].revision > participants[s].revision
  BY DEF Moves
<1> QED BY <1>2, <1>3

\* What a step may do to the calls and the board, as far as claims go: who comes to
\* claim has a working participant, and who comes to own a task was to claim.
ClaimsDue ==
  /\ \A d \in Calls : calls'[d].step \in ClaimSteps =>
       \/ calls[d].step \in ClaimSteps /\ calls'[d].session = calls[d].session
       \/ /\ calls'[d].session \in DOMAIN participants'
          /\ participants'[calls'[d].session].lifecycle = "working"
  /\ \A s \in Ids : Holds(s)' =>
       Holds(s) \/ \E d \in Calls : calls[d].session = s /\ calls[d].step \in ClaimSteps

\* Who owned nothing and was not to claim is in the same position after a step that
\* does not leave its participant working.
LEMMA StaysIdle ==
  ASSUME WorkInv, ClaimsDue, NEW s \in Ids, s \in DOMAIN participants',
         participants'[s].lifecycle # "working",
         \A d \in Calls : calls[d].session = s => calls[d].step \notin ClaimSteps
  PROVE  /\ \A d \in Calls : calls'[d].session = s => calls'[d].step \notin ClaimSteps
         /\ ~Holds(s) => ~Holds(s)'
<1>1. ASSUME NEW d \in Calls, calls'[d].session = s, calls'[d].step \in ClaimSteps  PROVE FALSE
  BY <1>1 DEF ClaimsDue
<1>2. ~Holds(s) => ~Holds(s)'
  BY DEF ClaimsDue
<1> QED BY <1>1, <1>2

\* What a manager has read of a participant stays true through the steps of others.
LEMMA DecidedKept ==
  ASSUME WorkInv, NEW let, Moves(let), ClaimsDue, NEW d \in Calls, CallKept(d)
  PROVE  Decided(d)'
<1>1. PICK s : s = calls[d].target
  OBVIOUS
<1>2. PICK r : r = calls[d].revision
  OBVIOUS
<1>3. calls'[d].target = s /\ calls'[d].revision = r /\ calls'[d].step = calls[d].step
  BY <1>1, <1>2 DEF CallKept
<1>4. CASE calls[d].step \in {"list tasks", "release"} /\ ~calls'[d].raced
  <2>1. /\ s \in DOMAIN participants /\ s \in DOMAIN participants'
        /\ r <= participants[s].revision
        /\ participants[s].revision = r /\ participants[s].lifecycle \in {"waiting_for_task", "offline"}
           => /\ \A e \in Calls : calls[e].session = s => calls[e].step \notin ClaimSteps
              /\ calls[d].step = "release" => ~Holds(s)
    BY <1>1, <1>2, <1>4 DEF WorkInv, Decided, CallKept, Loop!Dropped
  <2>2. /\ participants[s].revision \in Nat /\ participants'[s].revision \in Nat
        /\ participants'[s].revision >= participants[s].revision
        /\ participants'[s].revision = participants[s].revision => participants'[s] = participants[s]
    BY <2>1, RevisionTells DEF WorkInv
  <2>3. r \in Nat
    <3>1. calls[d] \in CallRecord /\ MaxRevision \in Nat
      BY CallTyped, WorkAssumed
    <3> QED BY <1>2, <3>1 DEF CallRecord
  <2>4. r <= participants'[s].revision
    BY <2>1, <2>2, <2>3
  <2>5. ASSUME participants'[s].revision = r, participants'[s].lifecycle \in {"waiting_for_task", "offline"}
        PROVE  /\ \A e \in Calls : calls'[e].session = s => calls'[e].step \notin ClaimSteps
               /\ calls[d].step = "release" => ~Holds(s)'
    <3>1. participants'[s] = participants[s]
      BY <2>1, <2>2, <2>3, <2>5
    <3>2. /\ \A e \in Calls : calls[e].session = s => calls[e].step \notin ClaimSteps
          /\ calls[d].step = "release" => ~Holds(s)
      BY <2>1, <2>5, <3>1
    <3>3. s \in Ids
      BY <2>1 DEF WorkInv, WorkTyped
    <3>4. participants'[s].lifecycle # "working"
      BY <2>5
    <3> QED BY <2>1, <3>2, <3>3, <3>4, StaysIdle
  <2>6. calls'[d].step = "release" => calls[d].step = "release"
    BY <1>3
  <2> HIDE DEF Holds
  <2> QED BY <1>3, <2>1, <2>4, <2>5, <2>6 DEF Decided, Holds, Loop!Owned
<1>5. CASE ~(calls[d].step \in {"list tasks", "release"} /\ ~calls'[d].raced)
  BY <1>3, <1>5 DEF Decided
<1> QED BY <1>4, <1>5

\* Who stays released owned nothing and does not claim.
LEMMA SettledKept ==
  ASSUME WorkInv, NEW let, Moves(let), ClaimsDue, NEW s \in DOMAIN participants', s \notin let,
         s \notin raced' => s \notin raced
  PROVE  Cleared(s)'
<1> SUFFICES ASSUME participants'[s].lifecycle = "released", s \notin raced'
             PROVE  /\ ~Holds(s)'
                    /\ \A d \in Calls : calls'[d].session = s => calls'[d].step \notin ClaimSteps
  BY DEF Cleared, Holds, Loop!Owned
<1>1. s \in DOMAIN participants /\ participants[s].lifecycle = "released" /\ s \in Ids
  BY DEF Moves, WorkInv, WorkTyped
<1>2. ~Holds(s) /\ \A d \in Calls : calls[d].session = s => calls[d].step \notin ClaimSteps
  BY <1>1 DEF WorkInv, Cleared
<1>3. participants'[s].lifecycle # "working"
  OBVIOUS
<1> QED BY <1>1, <1>2, <1>3, StaysIdle

LEMMA CallClaimsDue ==
  ASSUME WorkInv, NEW c \in Calls, NEW new, NEW let, CallStep(c, new, let)
  PROVE  ClaimsDue
<1>1. ASSUME NEW d \in Calls, calls'[d].step \in ClaimSteps
      PROVE  \/ calls[d].step \in ClaimSteps /\ calls'[d].session = calls[d].session
             \/ /\ calls'[d].session \in DOMAIN participants'
                /\ participants'[calls'[d].session].lifecycle = "working"
  <2>1. CASE d = c
    BY <1>1, <2>1 DEF CallStep
  <2>2. CASE d # c
    BY <1>1, <2>2 DEF CallStep, CallKept
  <2> QED BY <2>1, <2>2
<1>2. ASSUME NEW s \in Ids, Holds(s)'
      PROVE  Holds(s) \/ \E d \in Calls : calls[d].session = s /\ calls[d].step \in ClaimSteps
  BY <1>2 DEF CallStep
<1> QED BY <1>1, <1>2 DEF ClaimsDue

\* The manager releases the participant that it has read of.
LEMMA ReleasedSettled ==
  ASSUME WorkInv, NEW c \in Calls, NEW new, NEW let, CallStep(c, new, let),
         NEW s \in let
  PROVE  Cleared(s)'
<1>1. /\ calls[c].step = "release" /\ s = calls[c].target /\ s \in DOMAIN participants
      /\ Loop!Bounded /\ UNCHANGED board /\ let = {s} /\ new = Loop!Idle
      /\ Loop!readReconciledState[s].revision = calls[c].revision
      /\ Loop!readReconciledState[s].lifecycle \in {"waiting_for_task", "offline"}
      /\ raced' = IF calls[c].raced THEN raced \cup let ELSE raced \ let
  BY DEF CallStep
<1>2. CASE calls[c].raced
  BY <1>1, <1>2 DEF Cleared
<1>3. CASE ~calls[c].raced
  <2>1. PICK p : p = participants[s]
    OBVIOUS
  <2>2. PICK r : r = calls[c].revision
    OBVIOUS
  <2>3. /\ r <= p.revision
        /\ p.revision = r /\ p.lifecycle \in {"waiting_for_task", "offline"}
           => /\ \A d \in Calls : calls[d].session = s => calls[d].step \notin ClaimSteps
              /\ ~Holds(s)
    BY <1>1, <1>3, <2>1, <2>2 DEF WorkInv, Decided
  <2>4. r \in Nat /\ p.revision \in Nat /\ s \in Ids
    <3>1. calls[c] \in CallRecord /\ MaxRevision \in Nat
      BY CallTyped, WorkAssumed
    <3>2. r \in Nat
      BY <2>2, <3>1 DEF CallRecord
    <3>3. p \in Participant /\ s \in Ids
      BY <1>1, <2>1 DEF WorkInv, WorkTyped
    <3>4. p.revision \in Nat
      BY <3>1, <3>3 DEF Participant
    <3> QED BY <3>2, <3>3, <3>4
  <2>5. Loop!readReconciledState[s] = p
    <3>1. \/ Loop!readReconciledState[s] = p
          \/ Loop!readReconciledState[s].revision = p.revision + 1
      BY <1>1, <2>1, Reconciled DEF WorkInv
    <3> QED BY <1>1, <2>2, <2>3, <2>4, <3>1
  <2>6. ~Holds(s) /\ \A d \in Calls : calls[d].session = s => calls[d].step \notin ClaimSteps
    BY <1>1, <2>2, <2>3, <2>5
  <2>7. ~Holds(s)'
    BY <1>1, <2>6, SameBoard
  <2>8. ASSUME NEW d \in Calls, calls'[d].session = s  PROVE calls'[d].step \notin ClaimSteps
    <3>1. CASE d = c
      BY <1>1, <3>1, CallTyped DEF CallStep, ClaimSteps
    <3>2. CASE d # c
      BY <2>6, <2>8, <3>2 DEF CallStep, CallKept
    <3> QED BY <3>1, <3>2
  <2> QED BY <2>7, <2>8 DEF Cleared, Holds, Loop!Owned
<1> QED BY <1>2, <1>3

LEMMA CallStepInductive ==
  ASSUME WorkInv, NEW c \in Calls, NEW new, NEW let, CallStep(c, new, let)
  PROVE  WorkInv'
<1>1. /\ calls' \in [Calls -> CallRecord] /\ calls'[c] = new /\ Moves(let) /\ ClaimsDue
      /\ \A d \in Calls \ {c} : CallKept(d)
  BY CallClaimsDue DEF CallStep
<1>2. WorkTyped'
  <2>1. /\ status' \in [Ids -> Loop!Sessions!Statuses] /\ board' \in [Tasks -> BoardTask]
        /\ DOMAIN participants' \subseteq Ids /\ IsFiniteSet(DOMAIN participants')
        /\ Cardinality(DOMAIN participants') <= MaxParticipants
        /\ participants' \in [DOMAIN participants' -> Participant]
    BY <1>1 DEF CallStep, Moves, WorkInv, WorkTyped
  <2>2. ASSUME NEW d \in Calls, calls'[d] # Loop!Idle  PROVE calls'[d].session \in Ids
    <3>1. CASE d = c
      BY <1>1, <2>2, <3>1 DEF CallStep
    <3>2. CASE d # c
      BY <1>1, <2>2, <3>2 DEF CallKept, WorkInv, WorkTyped
    <3> QED BY <3>1, <3>2
  <2>3. raced' \subseteq Ids
    <3>1. let \subseteq Ids
      BY DEF CallStep, WorkInv, WorkTyped
    <3> QED BY <3>1 DEF CallStep, WorkInv, WorkTyped
  <2> QED BY <1>1, <2>1, <2>2, <2>3 DEF WorkTyped, Loop!Idle
<1>3. ASSUME NEW d \in Calls \ {c}  PROVE Decided(d)'
  BY <1>1, DecidedKept
<1>4. Decided(c)'
  <2>1. PICK s : s = new.target
    OBVIOUS
  <2>2. new.revision \in Nat
    <3>1. new \in CallRecord /\ MaxRevision \in Nat
      BY <1>1, WorkAssumed
    <3> QED BY <3>1 DEF CallRecord
  <2>3. CASE new.step = "list tasks" /\ ~new.raced
    <3>1. /\ s \in DOMAIN participants' /\ new.revision = participants'[s].revision
          /\ \A d \in Calls \ {c} : calls[d].session = s => calls[d].step \notin ClaimSteps
      BY <2>1, <2>3 DEF CallStep
    <3>2. new.revision <= participants'[s].revision
      BY <2>2, <3>1
    <3>3. ASSUME NEW d \in Calls, calls'[d].session = s  PROVE calls'[d].step \notin ClaimSteps
      <4>1. CASE d = c
        BY <1>1, <2>3, <4>1 DEF ClaimSteps
      <4>2. CASE d # c
        BY <1>1, <3>1, <3>3, <4>2 DEF CallKept
      <4> QED BY <4>1, <4>2
    <3>4. new.step # "release"
      BY <2>3
    <3> QED BY <1>1, <2>1, <3>1, <3>2, <3>3, <3>4 DEF Decided
  <2>4. CASE new.step = "release" /\ ~new.raced
    <3>1. /\ calls[c].step = "list tasks" /\ s = calls[c].target /\ new.revision = calls[c].revision
          /\ ~calls[c].raced /\ UNCHANGED participants /\ ~Holds(s)'
      <4>1. ~Holds(new.target)' <=> ~(\/ \E t \in Tasks : board'[t].owner = new.target' /\ board'[t].state = "working"
                                     \/ \E t \in Tasks : board'[t].owner = new.target' /\ board'[t].state = "input_required")
        BY DEF Holds, Loop!Owned
      <4> QED BY <2>1, <2>4, <4>1 DEF CallStep, Holds, Loop!Owned
    <3>2. /\ s \in DOMAIN participants' /\ new.revision <= participants'[s].revision
          /\ participants'[s].revision = new.revision
             /\ participants'[s].lifecycle \in {"waiting_for_task", "offline"}
             => \A d \in Calls : calls[d].session = s => calls[d].step \notin ClaimSteps
      BY <3>1 DEF WorkInv, Decided
    <3>3. ASSUME NEW d \in Calls, calls'[d].session = s,
                 \A e \in Calls : calls[e].session = s => calls[e].step \notin ClaimSteps
          PROVE  calls'[d].step \notin ClaimSteps
      <4>1. CASE d = c
        BY <1>1, <2>4, <4>1 DEF ClaimSteps
      <4>2. CASE d # c
        BY <1>1, <3>3, <4>2 DEF CallKept
      <4> QED BY <4>1, <4>2
    <3> QED BY <1>1, <2>1, <3>1, <3>2, <3>3 DEF Decided, Holds, Loop!Owned
  <2>5. CASE new.step \notin {"list tasks", "release"} \/ new.raced
    BY <1>1, <2>5 DEF Decided
  <2> QED BY <2>3, <2>4, <2>5
<1>5. ASSUME NEW s \in DOMAIN participants'  PROVE Cleared(s)'
  <2>1. CASE s \in let
    BY <2>1, ReleasedSettled
  <2>2. CASE s \notin let
    <3>1. s \notin raced' => s \notin raced
      BY <2>2 DEF CallStep
    <3> QED BY <1>1, <2>2, <3>1, SettledKept
  <2> QED BY <2>1, <2>2
<1>6. \A d \in Calls : Decided(d)'
  BY <1>3, <1>4
<1> QED BY <1>2, <1>5, <1>6 DEF WorkInv

LEMMA OtherStepInductive ==
  ASSUME WorkInv, OtherStep
  PROVE  WorkInv'
<1>1. /\ calls' = calls /\ raced' = raced /\ Moves({}) /\ DOMAIN participants' = DOMAIN participants
  BY DEF OtherStep
<1>2. WorkTyped'
  BY <1>1 DEF Moves, WorkInv, WorkTyped, OtherStep, Loop!Idle
<1>3. ClaimsDue
  BY <1>1 DEF OtherStep, ClaimsDue
<1>4. ASSUME NEW d \in Calls  PROVE Decided(d)'
  <2>1. CallKept(d)
    BY <1>1 DEF CallKept, Loop!Dropped
  <2> QED BY <1>1, <1>3, <2>1, DecidedKept
<1>5. ASSUME NEW s \in DOMAIN participants'  PROVE Cleared(s)'
  BY <1>1, <1>3, SettledKept
<1> QED BY <1>2, <1>4, <1>5 DEF WorkInv

LEMMA WorkInitial ==
  ASSUME Loop!Init
  PROVE  WorkInv
<1>1. /\ status = [i \in Ids |-> "none"] /\ participants = [s \in {} |-> Loop!Idle]
      /\ board = [t \in Tasks |-> [state |-> "open", owner |-> NoOne]]
      /\ calls = [c \in Calls |-> Loop!Idle] /\ raced = {}
  BY DEF Loop!Init, Loop!Sessions!Init
<1>2. DOMAIN participants = {}
  BY <1>1
<1>3. /\ DOMAIN participants \subseteq Ids /\ IsFiniteSet(DOMAIN participants)
      /\ Cardinality(DOMAIN participants) <= MaxParticipants
  BY <1>2, FS_EmptySet, WorkAssumed
<1>4. participants \in [DOMAIN participants -> Participant]
  <2>1. participants = [s \in DOMAIN participants |-> participants[s]]
    BY <1>1
  <2> QED BY <1>2, <2>1
<1>5. status \in [Ids -> Loop!Sessions!Statuses]
  BY <1>1 DEF Loop!Sessions!Statuses
<1>6. board \in [Tasks -> BoardTask]
  <2>1. [state |-> "open", owner |-> NoOne] \in BoardTask
    BY DEF BoardTask
  <2> QED BY <1>1, <2>1
<1>7. calls \in [Calls -> CallRecord] /\ \A c \in Calls : calls[c] = Loop!Idle
  <2>1. Loop!Idle \in CallRecord
    BY WorkAssumed DEF Loop!Idle, CallRecord, Loop!Steps
  <2> QED BY <1>1, <2>1
<1>8. ASSUME NEW c \in Calls  PROVE Decided(c)
  <2>1. Loop!Idle.step = "idle"
    BY DEF Loop!Idle
  <2> QED BY <1>7, <2>1 DEF Decided
<1>9. \A s \in DOMAIN participants : Cleared(s)
  BY <1>2
<1> QED BY <1>1, <1>3, <1>4, <1>5, <1>6, <1>7, <1>8, <1>9 DEF WorkInv, WorkTyped

LEMMA WorkInductive ==
  ASSUME WorkInv, Loop!Next
  PROVE  WorkInv'
BY WorkSteps, CallStepInductive, OtherStepInductive DEF CallSteps

LEMMA WorkUnchanged ==
  ASSUME WorkInv, UNCHANGED workVars
  PROVE  WorkInv'
<1>1. UNCHANGED <<status, participants, board, calls, raced>>
  BY DEF workVars
<1>2. WorkTyped'
  BY <1>1 DEF WorkInv, WorkTyped, Loop!Idle
<1>3. \A c \in Calls : Decided(c)'
  BY <1>1 DEF WorkInv, Decided, Holds, Loop!Owned
<1>4. \A s \in DOMAIN participants' : Cleared(s)'
  BY <1>1 DEF WorkInv, Cleared, Holds, Loop!Owned
<1> QED BY <1>2, <1>3, <1>4 DEF WorkInv

\* While the behaviour is that of another part, the participants say nothing.
WorkPart == part = "work" => WorkInv

LEMMA WorkPartInvariant ==
  AllSpec => []WorkPart
<1>1. AllInit => WorkPart
  BY WorkInitial DEF AllInit, WorkPart
<1>2. WorkPart /\ [AllNext]_allVars => WorkPart'
  <2> SUFFICES ASSUME WorkPart, [AllNext]_allVars, part' = "work"
               PROVE  WorkInv'
    BY DEF WorkPart
  <2>1. part = "work"
    BY DEF AllNext, ContextsNext, WorkNext, ManagerNext, ChatNext, CoordinationNext, allVars
  <2>2. CASE WorkNext
    BY <2>1, <2>2, WorkInductive DEF WorkPart, WorkNext
  <2>3. CASE UNCHANGED workVars
    BY <2>1, <2>3, WorkUnchanged DEF WorkPart
  <2> QED BY <2>1, <2>2, <2>3 DEF AllNext, ContextsNext, ManagerNext, ChatNext, CoordinationNext, allVars
<1> QED BY <1>1, <1>2, PTL DEF AllSpec

\* Every step of the work loop is an operation that moves participants as it may.
LEMMA WorkReleases ==
  ASSUME WorkInv, Loop!Next
  PROVE  Loop!ReleaseFinal
<1>1. PICK let : Moves(let)
  BY ZenonT(60), WorkSteps DEF CallSteps, CallStep, OtherStep
<1> QED BY <1>1 DEF Moves, Loop!ReleaseFinal

\* A release of a participant is final whatever calls of its session still run, a
\* stop decides how an agent ends, and an end stays.
THEOREM DecisionsFinalHolds ==
  AllSpec => DecisionsFinal
<1>1. WorkPart /\ ManagerPart /\ [AllNext]_allVars
        => [/\ part = "work" => Loop!ReleaseFinal
            /\ part = "manager" => Manager!StopOwns /\ Manager!EndKept]_<<workVars, managerVars>>
  <2> SUFFICES ASSUME WorkPart, ManagerPart, AllNext, <<workVars, managerVars>>' # <<workVars, managerVars>>
               PROVE  /\ part = "work" => Loop!ReleaseFinal
                      /\ part = "manager" => Manager!StopOwns /\ Manager!EndKept
    BY DEF allVars
  <2>1. CASE WorkNext
    BY <2>1, WorkReleases DEF WorkPart, WorkNext
  <2>2. CASE ManagerNext
    BY <2>2, ManagerDecides DEF ManagerPart, ManagerNext
  <2> QED BY <2>1, <2>2 DEF AllNext, ContextsNext, ChatNext, CoordinationNext
<1> QED BY <1>1, WorkPartInvariant, ManagerPartInvariant, PTL DEF AllSpec, DecisionsFinal

LEMMA WorkIsTyped ==
  ASSUME WorkTyped
  PROVE  Loop!TypeOK
<1>1. \A s \in DOMAIN participants : Loop!validateStoredParticipant(participants[s])
  BY DEF WorkTyped, Participant, Loop!validateStoredParticipant
<1>2. Loop!validateStoredState
  BY <1>1, LoopCardinality DEF WorkTyped, Loop!validateStoredState
<1> QED BY <1>2 DEF WorkTyped, BoardTask, CallRecord, Loop!TypeOK

\* A participant that was released for good owns no task, however many calls of its
\* session overlap, however old what the manager decided on is, and whoever is dropped
\* and joins again: unless a call of it was already let through to a claim when the
\* manager looked, or it was dropped after that.
THEOREM ReleasedOwnsNothingHolds ==
  AllSpec => []ReleasedOwnsNothing
<1>1. WorkPart => ReleasedOwnsNothing
  BY WorkIsTyped DEF WorkPart, WorkInv, Cleared, Holds, ReleasedOwnsNothing,
     Loop!ReleasedOwnsNothing
<1> QED BY <1>1, WorkPartInvariant, PTL

-----------------------------------------------------------------------------
(* The sessions and the contexts over them (CollaborationContexts). *)

LEMMA ContextsAssumed ==
  /\ {MaxSessions, MaxRefs, MaxQueue, MaxContexts, MaxCreated, MaxStarts, MaxBoots, MaxTime}
       \subseteq Nat \ {0}
  /\ MaxFaults \in Nat /\ Pids \subseteq Nat \ {0} /\ ResumeGrace \in Nat
  /\ {DefaultTtl, ResumeRecovery, MaxLivePerActor} \subseteq Nat \ {0}
  /\ None \notin Nat /\ None \notin Recoveries
  /\ \A k, g \in Nat : <<k, g>> # NoRequest
BY ContextsAssumption, SessionsAssumption, NothingAssumption

Owners  == [instance : Runtimes, pid : Pids, boot : Nat, start : Nat]
Secrets == [generation : Nat, request : Requests]

SessionRecord ==
  [actor : Actors, owner : Owners \cup {None}, status : Live \cup Ended, lost : BOOLEAN,
   expiresAt : Nat, resumeUntil : Nat, generation : Nat \ {0}, verifier : Secrets,
   rotatedAt : Nat \cup {None}, recovery : Recoveries \cup {None},
   releasedAt : BOOLEAN, revokedAt : BOOLEAN]

\* A stored session: the store will read it, and its recovery window is of the
\* length that it should have.
GoodSession(s) ==
  /\ s \in SessionRecord
  /\ StoredSessionValid(s)
  /\ s.recovery # None => s.recovery.until = s.recovery.rotatedAt + ResumeRecovery

\* The session that readAndExpire leaves.
Settle(s, me) ==
  LET recoverable == s.recovery # None => s.recovery.until >= now
      kept == IF recoverable THEN s ELSE [s EXCEPT !.recovery = None]
  IN  IF Orphaned(s, me, host.starts)
        THEN [s EXCEPT !.status = "revoked", !.owner = None, !.lost = TRUE,
                       !.revokedAt = TRUE, !.recovery = None]
      ELSE IF s.status = "active" /\ s.expiresAt <= now
        THEN [kept EXCEPT !.status = "expired"]
      ELSE kept

LEMMA SettledFile ==
  ASSUME NEW me
  PROVE  readAndExpire(file, me, host.starts, now) = [id \in DOMAIN file |-> Settle(file[id], me)]
BY DEF readAndExpire, Settle

\* What a step of a process with the identity `me' may make of any session.
Succeeds(s, t, me) ==
  /\ GoodSession(t) /\ t.actor = s.actor
  /\ t.status = s.status \/ t.status \in Lifecycle!After(s.status)
  /\ LiveOrResumable(t, now) => LiveOrResumable(s, now)
  /\ t.lost => s.lost \/ Orphaned(s, me, host.starts)

\* The rest of a live session is its holder's.
Untouched(s, t) ==
  t.status \in Live =>
    /\ s.status \in Live /\ t.owner = s.owner /\ t.verifier = s.verifier
    /\ t.generation = s.generation /\ t.rotatedAt = s.rotatedAt
    /\ \/ t.recovery = s.recovery
       \/ t.recovery = None /\ s.recovery # None /\ s.recovery.until < now

\* A session that nobody can use any more.
Unusable(s, me) ==
  \/ ~LiveOrResumable(s, now)
  \/ s.expiresAt <= now /\ s.resumeUntil < now
  \/ Orphaned(s, me, host.starts)

LEMMA SettleSucceeds ==
  ASSUME NEW s, GoodSession(s), NEW me, now \in Nat, NEW t, t = Settle(s, me)
  PROVE  /\ Succeeds(s, t, me) /\ Untouched(s, t)
         /\ ~LiveOrResumable(t, now) => Unusable(s, me)
         /\ t.status \in Live => s.status \in Live
<1>1. /\ s \in SessionRecord /\ StoredSessionValid(s)
      /\ s.recovery # None => s.recovery \in Recoveries /\ s.recovery.until \in Nat
  BY DEF GoodSession, SessionRecord, Recoveries
<1>2. CASE Orphaned(s, me, host.starts)
  <2>1. t = [s EXCEPT !.status = "revoked", !.owner = None, !.lost = TRUE,
                      !.revokedAt = TRUE, !.recovery = None]
    BY <1>2 DEF Settle
  <2>2. s.status \in Live
    BY <1>2 DEF Orphaned
  <2>3. t \in SessionRecord
    BY <1>1, <2>1 DEF SessionRecord, Ended
  <2>4. /\ t.status = "revoked" /\ t.owner = None /\ t.recovery = None /\ t.actor = s.actor
        /\ t.resumeUntil = s.resumeUntil /\ t.expiresAt = s.expiresAt /\ t.verifier = s.verifier
        /\ t.generation = s.generation /\ t.rotatedAt = s.rotatedAt /\ t.releasedAt = s.releasedAt
        /\ t.revokedAt = TRUE
    BY <1>1, <2>1 DEF SessionRecord
  <2>5. StoredSessionValid(t)
    BY <1>1, <2>2, <2>4 DEF StoredSessionValid, Live, Ended
  <2>6. t.status \in Lifecycle!After(s.status)
    BY <2>2, <2>4 DEF Lifecycle!After, Lifecycle!Usable, Lifecycle!Statuses, Live
  <2>7. ~LiveOrResumable(t, now) /\ t.status \notin Live
    BY <2>4 DEF LiveOrResumable, Live
  <2> QED BY <1>2, <2>3, <2>4, <2>5, <2>6, <2>7 DEF Succeeds, GoodSession, Untouched, Unusable
<1>3. CASE ~Orphaned(s, me, host.starts)
  <2>1. PICK kept : kept = IF s.recovery # None => s.recovery.until >= now
                             THEN s ELSE [s EXCEPT !.recovery = None]
    OBVIOUS
  <2>2. t = IF s.status = "active" /\ s.expiresAt <= now THEN [kept EXCEPT !.status = "expired"] ELSE kept
    BY <1>3, <2>1 DEF Settle
  <2>3. /\ kept \in SessionRecord /\ kept.status = s.status /\ kept.owner = s.owner /\ kept.actor = s.actor
        /\ kept.resumeUntil = s.resumeUntil /\ kept.expiresAt = s.expiresAt /\ kept.verifier = s.verifier
        /\ kept.generation = s.generation /\ kept.rotatedAt = s.rotatedAt
        /\ kept.releasedAt = s.releasedAt /\ kept.revokedAt = s.revokedAt /\ kept.lost = s.lost
        /\ \/ kept.recovery = s.recovery
           \/ kept.recovery = None /\ s.recovery # None /\ s.recovery.until < now
    BY <1>1, <2>1 DEF SessionRecord
  <2>4. GoodSession(kept)
    BY <1>1, <2>3 DEF GoodSession, StoredSessionValid
  <2>5. CASE s.status = "active" /\ s.expiresAt <= now
    <3>1. t = [kept EXCEPT !.status = "expired"]
      BY <2>2, <2>5
    <3>2. /\ t \in SessionRecord /\ t.status = "expired" /\ t.owner = s.owner /\ t.actor = s.actor
          /\ t.resumeUntil = s.resumeUntil /\ t.expiresAt = s.expiresAt /\ t.verifier = s.verifier
          /\ t.generation = s.generation /\ t.rotatedAt = s.rotatedAt
          /\ t.releasedAt = kept.releasedAt /\ t.revokedAt = kept.revokedAt /\ t.lost = s.lost
          /\ t.recovery = kept.recovery
      BY <2>3, <3>1 DEF SessionRecord, Live
    <3>3. StoredSessionValid(t)
      BY <2>3, <2>4, <2>5, <3>2 DEF GoodSession, StoredSessionValid, Live, Ended
    <3>4. GoodSession(t)
      BY <2>4, <3>2, <3>3 DEF GoodSession
    <3>5. t.status \in Lifecycle!After(s.status) /\ s.status \in Live
      BY <2>5, <3>2 DEF Lifecycle!After, Lifecycle!Usable, Lifecycle!Statuses, Live
    <3>6. ~LiveOrResumable(t, now) => s.expiresAt <= now /\ s.resumeUntil < now
      BY <1>1, <2>5, <3>2 DEF LiveOrResumable, SessionRecord
    <3>7. LiveOrResumable(s, now)
      BY <2>5 DEF LiveOrResumable
    <3> QED BY <2>3, <3>2, <3>4, <3>5, <3>6, <3>7 DEF Succeeds, Untouched, Unusable
  <2>6. CASE ~(s.status = "active" /\ s.expiresAt <= now)
    <3>1. t = kept
      BY <2>2, <2>6
    <3>2. LiveOrResumable(t, now) <=> LiveOrResumable(s, now)
      BY <2>3, <3>1 DEF LiveOrResumable
    <3> QED BY <2>3, <2>4, <3>1, <3>2 DEF Succeeds, Untouched, Unusable
  <2> QED BY <2>5, <2>6
<1> QED BY <1>2, <1>3

LEMMA ReleasedSucceeds ==
  ASSUME NEW s, GoodSession(s), NEW me, NEW a, Succeeds(s, a, me), NEW t, t = Released(a),
         a.status \in Live \cup {"released"}
  PROVE  Succeeds(s, t, me) /\ t.status = "released" /\ Untouched(s, t)
<1>1. a \in SessionRecord /\ StoredSessionValid(a) /\ GoodSession(a)
  BY DEF GoodSession, Succeeds
<1>2. CASE a.status = "released"
  BY <1>2 DEF Released, Untouched, Live
<1>3. CASE a.status \in Live
  <2>1. a.status # "released"
    BY <1>3 DEF Live
  <2>2. t = [a EXCEPT !.status = "released", !.owner = None, !.lost = FALSE, !.releasedAt = TRUE,
                      !.recovery = None]
    BY <2>1 DEF Released
  <2>3. t \in SessionRecord
    BY <1>1, <2>2 DEF SessionRecord, Ended
  <2>4. /\ t.status = "released" /\ t.owner = None /\ t.recovery = None /\ t.actor = a.actor
        /\ t.resumeUntil = a.resumeUntil /\ t.expiresAt = a.expiresAt /\ t.verifier = a.verifier
        /\ t.generation = a.generation /\ t.rotatedAt = a.rotatedAt /\ t.releasedAt = TRUE
        /\ t.revokedAt = a.revokedAt /\ t.lost = FALSE
    BY <1>1, <2>2 DEF SessionRecord
  <2>5. StoredSessionValid(t)
    BY <1>1, <1>3, <2>4 DEF StoredSessionValid, Live, Ended
  <2>6. s.status \in Live
    BY <1>3 DEF Succeeds, Lifecycle!After, Lifecycle!Usable, Lifecycle!Statuses, Live, GoodSession, SessionRecord, Ended
  <2>7. t.status \in Lifecycle!After(s.status)
    BY <2>4, <2>6 DEF Lifecycle!After, Lifecycle!Usable, Lifecycle!Statuses, Live
  <2>8. ~LiveOrResumable(t, now) /\ t.status \notin Live
    BY <2>4 DEF LiveOrResumable, Live
  <2> QED BY <2>3, <2>4, <2>5, <2>7, <2>8 DEF Succeeds, GoodSession, Untouched
<1> QED BY <1>2, <1>3

LEMMA RevokedSucceeds ==
  ASSUME NEW s, GoodSession(s), NEW me, NEW a, Succeeds(s, a, me), NEW t, t = Revoked(a)
  PROVE  Succeeds(s, t, me) /\ Untouched(s, t)
<1>1. a \in SessionRecord /\ StoredSessionValid(a) /\ GoodSession(a)
  BY DEF GoodSession, Succeeds
<1>2. CASE a.status = "revoked"
  BY <1>2 DEF Revoked, Untouched, Live
<1>3. CASE a.status # "revoked"
  <2>2. t = [a EXCEPT !.status = "revoked", !.owner = None, !.lost = FALSE, !.revokedAt = TRUE,
                      !.releasedAt = FALSE, !.recovery = None]
    BY <1>3 DEF Revoked
  <2>3. t \in SessionRecord
    BY <1>1, <2>2 DEF SessionRecord, Ended
  <2>4. /\ t.status = "revoked" /\ t.owner = None /\ t.recovery = None /\ t.actor = a.actor
        /\ t.resumeUntil = a.resumeUntil /\ t.expiresAt = a.expiresAt /\ t.verifier = a.verifier
        /\ t.generation = a.generation /\ t.rotatedAt = a.rotatedAt /\ t.releasedAt = FALSE
        /\ t.revokedAt = TRUE /\ t.lost = FALSE
    BY <1>1, <2>2 DEF SessionRecord
  <2>5. StoredSessionValid(t)
    BY <1>1, <2>4 DEF StoredSessionValid, Live, Ended
  <2>6. s.status \in Live \cup Ended
    BY DEF GoodSession, SessionRecord
  <2>7. t.status = s.status \/ t.status \in Lifecycle!After(s.status)
    BY <2>4, <2>6 DEF Lifecycle!After, Lifecycle!Usable, Lifecycle!Statuses, Live, Ended
  <2>8. ~LiveOrResumable(t, now) /\ t.status \notin Live
    BY <2>4 DEF LiveOrResumable, Live
  <2> QED BY <2>3, <2>4, <2>5, <2>7, <2>8 DEF Succeeds, GoodSession, Untouched
<1> QED BY <1>2, <1>3

LEMMA RotatedSucceeds ==
  ASSUME NEW s, GoodSession(s), now \in Nat, NEW me \in Owners, me # None, NEW a, Succeeds(s, a, me),
         a.status \in Live => s.status \in Live,
         NEW handle, NEW request \in Requests, MayRotate(a, me, handle, request, now),
         NEW t, t = Rotated(a, me, request, now)
  PROVE  /\ Succeeds(s, t, me)
         /\ t.status = "active" /\ t.owner = me /\ t.actor = s.actor
         /\ t.verifier # handle.secret /\ t.rotatedAt = now
         /\ MayRecover(t, me, handle, request, now)
<1>1. /\ a \in SessionRecord /\ StoredSessionValid(a) /\ a.actor = s.actor
      /\ a.verifier = handle.secret /\ a.status \in Live /\ s.status \in Live
      /\ a.status = "expired" => now <= a.resumeUntil
      /\ DefaultTtl \in Nat /\ ResumeGrace \in Nat /\ ResumeRecovery \in Nat /\ None \notin Recoveries
      /\ None \notin Nat
  BY ContextsAssumed DEF Succeeds, GoodSession, MayRotate
<1>2. /\ a.generation \in Nat \ {0} /\ a.verifier \in Secrets /\ a.verifier.generation = a.generation
  BY <1>1 DEF SessionRecord, StoredSessionValid
<1>3. PICK target : target = a.generation + 1
  OBVIOUS
<1>4. PICK secret : secret = Secret(target, request)
  OBVIOUS
<1>5. PICK recovery : recovery = [source |-> a.generation, target |-> target, previous |-> a.verifier,
                                  request |-> request, until |-> now + ResumeRecovery,
                                  rotatedAt |-> now]
  OBVIOUS
<1>6. /\ target \in Nat \ {0} /\ secret \in Secrets /\ secret.generation = target
      /\ recovery \in Recoveries
  BY <1>1, <1>2, <1>3, <1>4, <1>5 DEF Secret, Secrets, Recoveries
<1>7. recovery # None
  BY <1>1, <1>6
<1>8. /\ recovery.source = a.generation /\ recovery.target = target /\ recovery.previous = a.verifier
      /\ recovery.request = request /\ recovery.until = now + ResumeRecovery
      /\ recovery.rotatedAt = now
  BY <1>5
<1>9. PICK expiry, limit : expiry = now + DefaultTtl /\ limit = now + DefaultTtl + ResumeGrace
  OBVIOUS
<1>10. expiry \in Nat /\ limit \in Nat /\ limit >= expiry
  BY <1>1, <1>9
<1>11. t = [a EXCEPT !.status = "active", !.owner = me, !.lost = FALSE,
                     !.expiresAt = expiry, !.resumeUntil = limit,
                     !.generation = target, !.verifier = secret, !.rotatedAt = now,
                     !.releasedAt = FALSE, !.revokedAt = FALSE, !.recovery = recovery]
  BY <1>3, <1>4, <1>5, <1>9 DEF Rotated
<1>12. /\ t.status = "active" /\ t.owner = me /\ t.actor = a.actor /\ t.lost = FALSE
       /\ t.expiresAt = expiry /\ t.resumeUntil = limit /\ t.generation = target
       /\ t.verifier = secret /\ t.rotatedAt = now /\ t.releasedAt = FALSE /\ t.revokedAt = FALSE
       /\ t.recovery = recovery
  BY <1>1, <1>11 DEF SessionRecord
<1>13. t \in SessionRecord
  BY ZenonT(60), <1>1, <1>6, <1>10, <1>11 DEF SessionRecord, Live
<1>14. StoredSessionValid(t)
  BY <1>1, <1>2, <1>3, <1>6, <1>8, <1>10, <1>12 DEF StoredSessionValid, Live, Ended
<1>15. GoodSession(t)
  BY <1>8, <1>12, <1>13, <1>14 DEF GoodSession
<1>16. secret # handle.secret
  BY <1>1, <1>2, <1>3, <1>6
<1>17. MayRecover(t, me, handle, request, now)
  BY <1>1, <1>4, <1>7, <1>8, <1>12, <1>16 DEF MayRecover, CurrentRuntime, SameRuntimeOwner
<1>18. LiveOrResumable(s, now)
  <2>1. LiveOrResumable(a, now)
    BY <1>1 DEF LiveOrResumable, Live, SessionRecord
  <2> QED BY <2>1 DEF Succeeds
<1>19. t.status \in Lifecycle!After(s.status)
  BY <1>1, <1>12 DEF Lifecycle!After, Lifecycle!Usable, Lifecycle!Statuses, Live
<1> QED BY <1>1, <1>12, <1>15, <1>16, <1>17, <1>18, <1>19 DEF Succeeds

\* The first session of its id.
First(t, me, actor) ==
  /\ GoodSession(t) /\ t.status = "active" /\ t.lost = FALSE /\ t.owner = me /\ t.actor = actor
  /\ t.verifier = Secret(1, NoRequest)

LEMMA NewIsGood ==
  ASSUME now \in Nat, NEW me \in Owners, me # None, NEW actor \in Actors,
         NEW t, t = NewSession(actor, me, now)
  PROVE  First(t, me, actor)
<1>1. DefaultTtl \in Nat /\ ResumeGrace \in Nat
  BY ContextsAssumed
<1>2. Secret(1, NoRequest) \in Secrets /\ Secret(1, NoRequest).generation = 1
  BY DEF Secret, Secrets, Requests
<1>3. t \in SessionRecord
  BY <1>1, <1>2 DEF NewSession, SessionRecord, Live
<1>4. /\ t.status = "active" /\ t.lost = FALSE /\ t.owner = me /\ t.actor = actor
      /\ t.verifier = Secret(1, NoRequest) /\ t.recovery = None /\ t.generation = 1
      /\ t.expiresAt = now + DefaultTtl /\ t.resumeUntil = now + DefaultTtl + ResumeGrace
      /\ t.releasedAt = FALSE /\ t.revokedAt = FALSE
  BY DEF NewSession
<1>5. StoredSessionValid(t)
  BY <1>1, <1>2, <1>4 DEF StoredSessionValid, Live, Ended
<1> QED BY <1>3, <1>4, <1>5 DEF GoodSession, First

-----------------------------------------------------------------------------
\* The processes of the host: those that run PiLink signed what is true of them, and
\* no two have the same process id.
HostInv ==
  /\ host \in [boot : Nat, started : Nat, starts : [Pids -> Int], used : SUBSET Runtimes]
  /\ runtime \in [Runtimes -> Owners \cup {None}]
  /\ \A r \in Runtimes : runtime[r] # None =>
       /\ runtime[r] \in Owners /\ r \in host.used
       /\ host.starts[runtime[r].pid] \notin {Unknown, Refused}
       /\ runtime[r].boot = IF Linux THEN host.boot ELSE Unknown
       /\ runtime[r].start = IF Linux THEN host.starts[runtime[r].pid] ELSE Unknown
  /\ \A q, r \in Runtimes :
       q # r /\ runtime[q] # None /\ runtime[r] # None => runtime[q].pid # runtime[r].pid

\* Whoever is judged to be gone is not there.
LEMMA OrphansAreGone ==
  ASSUME HostInv, NEW q \in Runtimes, runtime[q] # None, NEW s, Orphaned(s, runtime[q], host.starts),
         NEW r \in Runtimes, runtime[r] # None
  PROVE  ~SameRuntimeOwner(runtime[r], s.owner)
<1>1. SUFFICES ASSUME s.owner = runtime[r]  PROVE FALSE
  BY DEF SameRuntimeOwner
<1>2. PICK me, you, starts : me = runtime[q] /\ you = runtime[r] /\ starts = host.starts
  OBVIOUS
<1>3. /\ starts \in [Pids -> Int] /\ you.pid \in Pids /\ starts[you.pid] \notin {Unknown, Refused}
      /\ you.boot = IF Linux THEN host.boot ELSE Unknown
      /\ me.boot = IF Linux THEN host.boot ELSE Unknown
      /\ you.start = IF Linux THEN starts[you.pid] ELSE Unknown
      /\ me = you \/ me.pid # you.pid
  BY <1>2 DEF HostInv, Owners
<1>4. classifyPersistedRuntimeOwner(you, me, Linux, starts) = "dead"
  BY <1>1, <1>2 DEF Orphaned
<1>5. PICK existence, observed :
        /\ existence = ProcessExistence(starts, you.pid)
        /\ observed = IF Linux /\ existence = "exists" THEN starts[you.pid] ELSE Unknown
  OBVIOUS
<1>6. existence = "exists" /\ observed = you.start
  BY <1>3, <1>5 DEF ProcessExistence
<1>7. classifyRuntimeOwnerLiveness(you, me, Linux, existence, observed) = "dead"
  BY <1>4, <1>5 DEF classifyPersistedRuntimeOwner
<1>8. CASE me = you
  BY <1>7, <1>8 DEF classifyRuntimeOwnerLiveness, SameRuntimeOwner
<1>9. CASE me # you
  <2>1. you.pid # me.pid /\ you.boot = me.boot
    BY <1>3, <1>9
  <2> QED BY <1>6, <1>7, <1>9, <2>1 DEF classifyRuntimeOwnerLiveness, SameRuntimeOwner
<1> QED BY <1>8, <1>9

-----------------------------------------------------------------------------
Operations == {"initialize", "verify", "lastVerify", "dispose"}

NoOrHandle == {NoHandle} \cup [id : Nat \ {0}, secret : Secrets]

Context ==
  [runtime : Runtimes, binding : Bindings, mapped : BOOLEAN,
   mode : {"pristine", "bootstrapping", "bootstrapped", "generic_locked"}, refs : 0 .. MaxRefs,
   timer : BOOLEAN, disposing : {"no", "verifying", "releasing", "done"}, queue : Seq(Operations),
   at : {"begin", "start", "authenticate", "resume", "inspect", "release"}, handle : NoOrHandle,
   pending : Requests, disposeRequested : BOOLEAN]

\* The calls of a context: a disposal is the last of them, a last verification
\* comes once and before it.
Queued(c) ==
  /\ c.disposeRequested <=> c.disposing \in {"releasing", "done"}
  /\ c.disposing = "done" => c.queue = <<>>
  /\ \A i \in DOMAIN c.queue : c.queue[i] = "dispose" => c.disposing = "releasing" /\ i = Len(c.queue)
  /\ \A i \in DOMAIN c.queue : c.queue[i] = "lastVerify" =>
       c.disposing = "verifying" /\ \A j \in DOMAIN c.queue : c.queue[j] = "lastVerify" => i = j

\* A start is that of a context without a session, and a resume has a request.
Ordered(c) ==
  /\ Queued(c)
  /\ c.at # "begin" => c.queue # <<>>
  /\ c.at = "start" => c.handle = NoHandle
  /\ c.at = "resume" => c.pending # NoRequest

OrderedContext(c) == c \in Context /\ Ordered(c)

\* What is done to a context without its holding the store.
Tends(c, d) ==
  /\ OrderedContext(d)
  /\ d.runtime = c.runtime /\ d.binding = c.binding /\ d.handle = c.handle /\ d.pending = c.pending
  /\ d.disposing = "done" => c.disposing = "done" \/ d.handle = NoHandle

LEMMA NewIsOrdered ==
  ASSUME NEW r \in Runtimes, NEW b \in Bindings, NEW d, d = NewContext(r, b)
  PROVE  /\ OrderedContext(d) /\ d.handle = NoHandle /\ d.runtime = r /\ d.binding = b
<1>1. 0 \in 0 .. MaxRefs /\ 1 \in 0 .. MaxRefs
  BY ContextsAssumed
<1>2. d \in Context
  BY <1>1 DEF NewContext, Context, NoOrHandle, Requests, Operations
<1>3. d.queue = <<>> /\ d.at = "begin" /\ d.disposeRequested = FALSE /\ d.disposing = "no"
  BY DEF NewContext
<1>4. Ordered(d)
  BY <1>3 DEF Ordered, Queued
<1> QED BY <1>2, <1>4 DEF OrderedContext, NewContext

-----------------------------------------------------------------------------
LEMMA Appended ==
  ASSUME NEW queue \in Seq(Operations), NEW op \in Operations, NEW longer, longer = Append(queue, op)
  PROVE  /\ longer \in Seq(Operations) /\ longer # <<>>
         /\ queue # <<>> => Head(longer) = Head(queue)
         /\ Len(queue) \in Nat /\ Len(longer) = Len(queue) + 1
         /\ DOMAIN queue = 1 .. Len(queue) /\ DOMAIN longer = 1 .. Len(queue) + 1
         /\ longer[Len(queue) + 1] = op
         /\ \A i \in 1 .. Len(queue) : longer[i] = queue[i]
<1>1. longer \in Seq(Operations) /\ Len(longer) = Len(queue) + 1 /\ longer[Len(queue) + 1] = op
  OBVIOUS
<1>2. \A i \in 1 .. Len(queue) : longer[i] = queue[i]
  OBVIOUS
<1>3. queue # <<>> => Head(longer) = Head(queue)
  OBVIOUS
<1>4. longer # <<>>
  BY <1>1
<1>5. DOMAIN queue = 1 .. Len(queue) /\ DOMAIN longer = 1 .. Len(queue) + 1 /\ Len(queue) \in Nat
  BY <1>1
<1> QED BY <1>1, <1>2, <1>3, <1>4, <1>5

LEMMA Shortened ==
  ASSUME NEW queue \in Seq(Operations), queue # <<>>, NEW shorter, shorter = Tail(queue)
  PROVE  /\ shorter \in Seq(Operations) /\ Len(queue) \in Nat /\ Len(shorter) = Len(queue) - 1
         /\ DOMAIN queue = 1 .. Len(queue) /\ DOMAIN shorter = 1 .. Len(queue) - 1
         /\ Head(queue) = queue[1] /\ 1 \in DOMAIN queue
         /\ \A i \in DOMAIN shorter : i + 1 \in DOMAIN queue /\ shorter[i] = queue[i + 1]
         /\ Len(queue) = 1 => shorter = <<>>
OBVIOUS

\* A context whose disposal was not asked for.
Undisposed(c) ==
  /\ c \in Context
  /\ c.at # "begin" => c.queue # <<>>
  /\ c.at = "start" => c.handle = NoHandle
  /\ c.at = "resume" => c.pending # NoRequest
  /\ c.queue \in Seq(Operations \ {"dispose", "lastVerify"})

LEMMA WithDisposeOrdered ==
  ASSUME NEW c, Undisposed(c), NEW d, d = WithDispose(c)
  PROVE  /\ OrderedContext(d)
         /\ d.runtime = c.runtime /\ d.binding = c.binding /\ d.handle = c.handle
         /\ d.pending = c.pending /\ d.disposing = "releasing"
<1>1. PICK queue, longer : queue = c.queue /\ longer = Append(queue, "dispose")
  OBVIOUS
<1>2. c \in Context /\ queue \in Seq(Operations)
  BY <1>1 DEF Undisposed, Context
<1>3. "dispose" \in Operations
  BY DEF Operations
<1>4. d = [c EXCEPT !.disposing = "releasing", !.disposeRequested = TRUE, !.queue = longer]
  BY <1>1 DEF WithDispose
<1>5. /\ longer \in Seq(Operations) /\ longer # <<>>
      /\ Len(queue) \in Nat /\ Len(longer) = Len(queue) + 1
      /\ DOMAIN queue = 1 .. Len(queue) /\ DOMAIN longer = 1 .. Len(queue) + 1
      /\ longer[Len(queue) + 1] = "dispose"
      /\ \A i \in 1 .. Len(queue) : longer[i] = queue[i]
  BY <1>1, <1>2, <1>3, Appended
<1>6. /\ d \in Context /\ d.runtime = c.runtime /\ d.binding = c.binding /\ d.handle = c.handle
      /\ d.pending = c.pending /\ d.disposing = "releasing" /\ d.disposeRequested = TRUE
      /\ d.queue = longer /\ d.at = c.at
  BY <1>2, <1>4, <1>5 DEF Context
<1>7. \A i \in 1 .. Len(queue) : queue[i] \in Operations \ {"dispose", "lastVerify"}
  BY <1>1, <1>5 DEF Undisposed
<1>8. \A i \in DOMAIN longer : longer[i] = "dispose" => i = Len(longer)
  BY <1>5, <1>7
<1>9. \A i \in DOMAIN longer : longer[i] # "lastVerify"
  BY <1>5, <1>7
<1>10. Ordered(d)
  BY <1>5, <1>6, <1>8, <1>9 DEF Ordered, Queued, Undisposed
<1> QED BY <1>6, <1>10 DEF OrderedContext

LEMMA CallTends ==
  ASSUME NEW c, OrderedContext(c), ~c.disposeRequested, NEW op \in {"initialize", "verify"},
         NEW mode \in {"pristine", "bootstrapping", "bootstrapped", "generic_locked"},
         NEW d, d = [c EXCEPT !.mode = mode, !.queue = Append(c.queue, op)]
  PROVE  Tends(c, d)
<1>1. PICK queue, longer : queue = c.queue /\ longer = Append(queue, op)
  OBVIOUS
<1>2. c \in Context /\ Ordered(c) /\ queue \in Seq(Operations)
  BY <1>1 DEF OrderedContext, Context
<1>3. op \in Operations
  BY DEF Operations
<1>5. /\ longer \in Seq(Operations) /\ longer # <<>>
      /\ Len(queue) \in Nat /\ Len(longer) = Len(queue) + 1
      /\ DOMAIN queue = 1 .. Len(queue) /\ DOMAIN longer = 1 .. Len(queue) + 1
      /\ longer[Len(queue) + 1] = op
      /\ \A i \in 1 .. Len(queue) : longer[i] = queue[i]
  BY <1>1, <1>2, <1>3, Appended
<1>6. /\ d \in Context /\ d.runtime = c.runtime /\ d.binding = c.binding /\ d.handle = c.handle
      /\ d.pending = c.pending /\ d.disposing = c.disposing /\ d.disposeRequested = c.disposeRequested
      /\ d.queue = longer /\ d.at = c.at
  BY <1>1, <1>2, <1>5 DEF Context
<1>7. c.disposing \notin {"releasing", "done"}
  BY <1>2 DEF Ordered, Queued
<1>8. \A i \in DOMAIN longer : longer[i] # "dispose"
  BY <1>1, <1>2, <1>5, <1>7 DEF Ordered, Queued
<1>9. \A i \in DOMAIN longer : longer[i] = "lastVerify" => i \in DOMAIN queue /\ queue[i] = "lastVerify"
  BY <1>5
<1>10. \A i \in DOMAIN longer : longer[i] = "lastVerify" =>
         d.disposing = "verifying" /\ \A j \in DOMAIN longer : longer[j] = "lastVerify" => i = j
  BY <1>1, <1>2, <1>6, <1>9 DEF Ordered, Queued
<1>11. Ordered(d)
  BY <1>2, <1>5, <1>6, <1>7, <1>8, <1>10 DEF Ordered, Queued
<1> QED BY <1>6, <1>7, <1>11 DEF OrderedContext, Tends

LEMMA DisposalTends ==
  ASSUME NEW c, OrderedContext(c), NEW d, d = Disposal(c)
  PROVE  Tends(c, d)
<1>1. PICK a : a = [c EXCEPT !.mapped = FALSE, !.timer = FALSE]
  OBVIOUS
<1>2. c \in Context /\ Ordered(c)
  BY DEF OrderedContext
<1>3. /\ a \in Context /\ a.runtime = c.runtime /\ a.binding = c.binding /\ a.handle = c.handle
      /\ a.pending = c.pending /\ a.disposing = c.disposing /\ a.disposeRequested = c.disposeRequested
      /\ a.queue = c.queue /\ a.at = c.at
  BY <1>1, <1>2 DEF Context
<1>4. Ordered(a)
  BY <1>2, <1>3 DEF Ordered, Queued
<1>5. CASE c.disposing # "no"
  <2>1. d = a
    BY <1>1, <1>5 DEF Disposal
  <2> QED BY <1>3, <1>4, <2>1 DEF Tends, OrderedContext
<1>6. CASE c.disposing = "no"
  <2>1. Undisposed(a)
    <3>1. /\ a.queue \in Seq(Operations)
          /\ \A i \in 1 .. Len(a.queue) : a.queue[i] \in Operations \ {"dispose", "lastVerify"}
      BY <1>3, <1>4, <1>6 DEF Ordered, Queued, Context
    <3>2. a.queue \in Seq(Operations \ {"dispose", "lastVerify"})
      BY <3>1
    <3> QED BY <1>3, <1>4, <3>2 DEF Undisposed, Ordered, Queued
  <2>2. CASE c.handle = NoHandle
    <3>1. d = WithDispose(a)
      BY <1>1, <1>6, <2>2 DEF Disposal
    <3> QED BY <1>3, <2>1, <3>1, WithDisposeOrdered DEF Tends
  <2>3. CASE c.handle # NoHandle
    <3>1. PICK queue, longer : queue = a.queue /\ longer = Append(queue, "lastVerify")
      OBVIOUS
    <3>2. d = [a EXCEPT !.disposing = "verifying", !.queue = longer]
      BY <1>1, <1>6, <2>3, <3>1 DEF Disposal
    <3>3. "lastVerify" \in Operations /\ queue \in Seq(Operations)
      BY <1>3, <3>1 DEF Operations, Context
    <3>4. /\ longer \in Seq(Operations) /\ longer # <<>>
          /\ Len(queue) \in Nat /\ Len(longer) = Len(queue) + 1
          /\ DOMAIN queue = 1 .. Len(queue) /\ DOMAIN longer = 1 .. Len(queue) + 1
          /\ longer[Len(queue) + 1] = "lastVerify"
          /\ \A i \in 1 .. Len(queue) : longer[i] = queue[i]
      BY <3>1, <3>3, Appended
    <3>5. /\ d \in Context /\ d.runtime = a.runtime /\ d.binding = a.binding /\ d.handle = a.handle
          /\ d.pending = a.pending /\ d.disposing = "verifying" /\ d.queue = longer
          /\ d.disposeRequested = a.disposeRequested /\ d.at = a.at
      BY <1>3, <3>2, <3>4 DEF Context
    <3>6. \A i \in 1 .. Len(queue) : queue[i] \in Operations \ {"dispose", "lastVerify"}
      BY <2>1, <3>1, <3>4 DEF Undisposed
    <3>7. \A i \in DOMAIN longer : longer[i] # "dispose" /\ (longer[i] = "lastVerify" => i = Len(longer))
      BY <3>4, <3>6
    <3>8. Ordered(d)
      BY <1>3, <1>4, <1>6, <3>4, <3>5, <3>7 DEF Ordered, Queued
    <3> QED BY <1>3, <3>5, <3>8 DEF Tends, OrderedContext
  <2> QED BY <2>2, <2>3
<1> QED BY <1>5, <1>6

\* A call is over, whatever became of its session.
LEMMA OverOrdered ==
  ASSUME NEW c \in Context, Queued(c), c.queue # <<>>, NEW d, d = Over(c)
  PROVE  /\ OrderedContext(d)
         /\ d.runtime = c.runtime /\ d.binding = c.binding /\ d.handle = c.handle
         /\ d.pending = c.pending
         /\ d.disposing = "done" => Head(c.queue) = "dispose"
<1>1. PICK queue, shorter : queue = c.queue /\ shorter = Tail(queue)
  OBVIOUS
<1>2. queue \in Seq(Operations) /\ queue # <<>>
  BY <1>1 DEF Context
<1>3. /\ shorter \in Seq(Operations) /\ Len(queue) \in Nat /\ Len(shorter) = Len(queue) - 1
      /\ DOMAIN queue = 1 .. Len(queue) /\ DOMAIN shorter = 1 .. Len(queue) - 1
      /\ Head(queue) = queue[1] /\ 1 \in DOMAIN queue
      /\ \A i \in DOMAIN shorter : i + 1 \in DOMAIN queue /\ shorter[i] = queue[i + 1]
      /\ Len(queue) = 1 => shorter = <<>>
  BY <1>1, <1>2, Shortened
<1>4. PICK mode : mode = IF c.mode = "bootstrapping" /\ Head(c.queue) = "initialize"
                           THEN IF c.handle = NoHandle THEN "pristine" ELSE "bootstrapped"
                           ELSE c.mode
  OBVIOUS
<1>5. mode \in {"pristine", "bootstrapping", "bootstrapped", "generic_locked"}
  BY <1>4 DEF Context
<1>6. PICK over : over = [c EXCEPT !.queue = shorter, !.at = "begin", !.mode = mode]
  OBVIOUS
<1>7. /\ over \in Context /\ over.runtime = c.runtime /\ over.binding = c.binding
      /\ over.handle = c.handle /\ over.pending = c.pending /\ over.disposing = c.disposing
      /\ over.disposeRequested = c.disposeRequested /\ over.queue = shorter /\ over.at = "begin"
  BY <1>3, <1>5, <1>6 DEF Context
<1>8. d = CASE Head(queue) = "lastVerify" -> WithDispose(over)
            [] Head(queue) = "dispose"    -> [over EXCEPT !.disposing = "done"]
            [] OTHER                      -> over
  BY <1>1, <1>4, <1>6 DEF Over
<1>9. /\ c.disposing # "done"
      /\ c.disposeRequested <=> c.disposing = "releasing"
      /\ \A i \in DOMAIN queue : queue[i] = "dispose" => c.disposing = "releasing" /\ i = Len(queue)
      /\ \A i \in DOMAIN queue : queue[i] = "lastVerify" =>
           c.disposing = "verifying" /\ \A j \in DOMAIN queue : queue[j] = "lastVerify" => i = j
  BY <1>1, <1>2 DEF Queued
<1>10. CASE Head(queue) = "lastVerify"
  <2>1. d = WithDispose(over) /\ c.disposing = "verifying"
    BY <1>3, <1>8, <1>9, <1>10
  <2>2. \A i \in DOMAIN shorter : shorter[i] # "dispose" /\ shorter[i] # "lastVerify"
    BY <1>3, <1>9, <1>10, <2>1
  <2>3. \A i \in 1 .. Len(shorter) : shorter[i] \in Operations \ {"dispose", "lastVerify"}
    BY <1>3, <2>2
  <2>4. shorter \in Seq(Operations \ {"dispose", "lastVerify"})
    BY <1>3, <2>3
  <2>5. Undisposed(over)
    BY <1>7, <2>4 DEF Undisposed
  <2> QED BY <1>7, <2>1, <2>5, WithDisposeOrdered
<1>11. CASE Head(queue) = "dispose"
  <2>1. d = [over EXCEPT !.disposing = "done"] /\ c.disposing = "releasing" /\ shorter = <<>>
    BY <1>3, <1>8, <1>9, <1>11
  <2>2. /\ d \in Context /\ d.runtime = c.runtime /\ d.binding = c.binding
        /\ d.handle = c.handle /\ d.pending = c.pending /\ d.disposing = "done"
        /\ d.disposeRequested = c.disposeRequested /\ d.queue = <<>> /\ d.at = "begin"
    BY <1>7, <2>1 DEF Context
  <2>3. DOMAIN d.queue = {}
    BY <2>2
  <2>4. Ordered(d)
    BY <1>9, <2>1, <2>2, <2>3 DEF Ordered, Queued
  <2> QED BY <1>1, <1>11, <2>2, <2>4 DEF OrderedContext
<1>12. CASE Head(queue) \notin {"lastVerify", "dispose"}
  <2>1. d = over
    BY <1>8, <1>12
  <2>2. \A i \in DOMAIN shorter : shorter[i] = "dispose" => c.disposing = "releasing" /\ i = Len(shorter)
    BY <1>3, <1>9
  <2>3. ASSUME NEW i \in DOMAIN shorter, shorter[i] = "lastVerify"
        PROVE  c.disposing = "verifying" /\ \A j \in DOMAIN shorter : shorter[j] = "lastVerify" => i = j
    <3>1. \A j \in DOMAIN shorter : shorter[j] = "lastVerify" => i + 1 = j + 1
      BY <1>3, <1>9, <2>3
    <3>2. i \in Nat /\ \A j \in DOMAIN shorter : j \in Nat
      BY <1>3
    <3>3. \A j \in DOMAIN shorter : shorter[j] = "lastVerify" => i = j
      BY <3>1, <3>2
    <3> QED BY <1>3, <1>9, <2>3, <3>3
  <2>4. Ordered(over)
    BY <1>7, <1>9, <2>2, <2>3 DEF Ordered, Queued
  <2> QED BY <1>7, <1>9, <2>1, <2>4 DEF OrderedContext
<1> QED BY <1>10, <1>11, <1>12

-----------------------------------------------------------------------------
\* How the holder of a live session, a running context, stands to it: its handle is
\* the current one, or a write has failed and the new one can be asked for again,
\* until the recovery window is over.
Holding(s, c, me, f, n) ==
  /\ s.owner = me /\ s.actor = ActorOf[c.binding]
  /\ \/ s.verifier = c.handle.secret
     \/ f > 0 /\ c.pending # NoRequest /\ MayRecover(s, me, c.handle, c.pending, n)
     \/ f > 0 /\ s.rotatedAt \in Nat /\ s.rotatedAt + ResumeRecovery < n
  /\ c.disposing = "done" => f > 0

LEMMA HoldingKept ==
  ASSUME NEW s, NEW t, NEW c, NEW d, NEW me, NEW f \in Nat, NEW g \in Nat, now \in Nat, f <= g,
         Holding(s, c, me, f, now), GoodSession(s), t.status \in Live, Untouched(s, t),
         t.actor = s.actor, d.handle = c.handle, d.binding = c.binding,
         d.pending = c.pending \/ c.pending = NoRequest,
         d.disposing = "done" => c.disposing = "done" \/ g > 0
  PROVE  Holding(t, d, me, g, now)
<1>1. /\ t.owner = s.owner /\ t.verifier = s.verifier
      /\ t.generation = s.generation /\ t.rotatedAt = s.rotatedAt
      /\ \/ t.recovery = s.recovery
         \/ t.recovery = None /\ s.recovery # None /\ s.recovery.until < now
  BY DEF Untouched
<1>2. CASE c.pending # NoRequest /\ MayRecover(s, me, c.handle, c.pending, now)
  <2>1. s.recovery # None /\ s.recovery.until >= now /\ s.recovery.until \in Nat
    BY <1>2 DEF MayRecover, GoodSession, SessionRecord, Recoveries
  <2>2. t.recovery = s.recovery
    BY <1>1, <2>1
  <2>3. d.pending = c.pending
    BY <1>2
  <2>4. s.status \in Live
    BY DEF Untouched
  <2>5. MayRecover(t, me, d.handle, d.pending, now)
    BY <1>1, <1>2, <2>2, <2>3, <2>4 DEF MayRecover, CurrentRuntime, Holding, SameRuntimeOwner
  <2>6. f > 0 => g > 0
    OBVIOUS
  <2> QED BY <1>1, <1>2, <2>3, <2>5, <2>6 DEF Holding
<1>3. CASE ~(c.pending # NoRequest /\ MayRecover(s, me, c.handle, c.pending, now))
  BY <1>1, <1>3 DEF Holding
<1> QED BY <1>2, <1>3

LEMMA HoldingTicks ==
  ASSUME NEW s, NEW c, NEW me, NEW f, NEW n \in Nat, Holding(s, c, me, f, n), GoodSession(s)
  PROVE  Holding(s, c, me, f, n + 1)
<1>0. ResumeRecovery \in Nat
  BY ContextsAssumed
<1>1. CASE c.pending # NoRequest /\ MayRecover(s, me, c.handle, c.pending, n)
  <2>1. /\ s.recovery # None /\ s.recovery \in Recoveries
        /\ s.rotatedAt = s.recovery.rotatedAt
        /\ s.recovery.until = s.recovery.rotatedAt + ResumeRecovery
    BY <1>1 DEF MayRecover, GoodSession, SessionRecord, StoredSessionValid
  <2>2. s.rotatedAt \in Nat /\ s.recovery.until \in Nat
    BY <2>1 DEF Recoveries
  <2>3. CASE s.recovery.until >= n + 1
    <3>1. MayRecover(s, me, c.handle, c.pending, n + 1)
      BY <1>1, <2>3 DEF MayRecover
    <3> QED BY <1>1, <3>1 DEF Holding
  <2>4. CASE ~(s.recovery.until >= n + 1)
    <3>1. s.rotatedAt + ResumeRecovery < n + 1
      BY <1>0, <2>1, <2>2, <2>4
    <3> QED BY <2>2, <3>1 DEF Holding
  <2> QED BY <2>3, <2>4
<1>2. CASE s.rotatedAt \in Nat /\ s.rotatedAt + ResumeRecovery < n
  <2>1. s.rotatedAt + ResumeRecovery < n + 1
    BY <1>0, <1>2
  <2> QED BY <1>2, <2>1 DEF Holding
<1>3. CASE s.verifier = c.handle.secret
  BY <1>3 DEF Holding
<1> QED BY <1>1, <1>2, <1>3 DEF Holding

\* The sessions of an actor that count against its limit.
Using(f, actor, n) == {id \in SessionsOf(f, actor) : LiveOrResumable(f[id], n)}

SessionsInv ==
  /\ created \in 0 .. MaxCreated /\ now \in 1 .. MaxTime /\ faults \in 0 .. MaxFaults
  /\ disposed \subseteq Runtimes
  /\ DOMAIN file \subseteq 1 .. created /\ IsFiniteSet(DOMAIN file)
  /\ Cardinality(DOMAIN file) <= MaxSessions
  /\ \A id \in DOMAIN file : GoodSession(file[id])
  /\ \A actor \in Actors : Cardinality(Using(file, actor, now)) <= MaxLivePerActor

\* No two contexts hold the same session.
ContextsTyped ==
  /\ contexts \in Seq(Context)
  /\ \A k \in DOMAIN contexts :
       /\ Ordered(contexts[k]) /\ contexts[k].runtime \in host.used
       /\ contexts[k].handle # NoHandle => contexts[k].handle.id \in 1 .. created
  /\ \A k, l \in DOMAIN contexts :
       k # l /\ contexts[k].handle # NoHandle /\ contexts[l].handle # NoHandle
         => contexts[k].handle.id # contexts[l].handle.id

Held(k) ==
  /\ Me(k) # None /\ contexts[k].handle # NoHandle
  /\ contexts[k].handle.id \in DOMAIN file /\ file[contexts[k].handle.id].status \in Live

HandlesInv ==
  \A k \in DOMAIN contexts :
    Held(k) => Holding(file[contexts[k].handle.id], contexts[k], Me(k), faults, now)

ContextsInv == HostInv /\ SessionsInv /\ ContextsTyped /\ HandlesInv

\* What an operation of the process with identity `me' may do to the sessions.
FileMoves(me) ==
  /\ created' \in {created, created + 1} /\ created' \in 0 .. MaxCreated
  /\ DOMAIN file' \subseteq 1 .. created' /\ IsFiniteSet(DOMAIN file')
  /\ Cardinality(DOMAIN file') <= MaxSessions
  /\ \A id \in DOMAIN file' :
       \/ id \in DOMAIN file /\ Succeeds(file[id], file'[id], me)
       \/ /\ id \notin DOMAIN file /\ id = created + 1 /\ created' = created + 1
          /\ GoodSession(file'[id]) /\ file'[id].status = "active" /\ file'[id].lost = FALSE
  /\ created' = created + 1 => created + 1 \in DOMAIN file'
  /\ \A id \in DOMAIN file : id \in DOMAIN file' \/ Unusable(file[id], me)
  /\ \A actor \in Actors : Cardinality(Using(file', actor, now)) <= MaxLivePerActor

LEMMA FileMovesKeep ==
  ASSUME SessionsInv, NEW me, FileMoves(me), now' = now, faults' \in 0 .. MaxFaults,
         disposed' \subseteq Runtimes
  PROVE  SessionsInv'
BY DEF SessionsInv, FileMoves, Succeeds, Using

\* A step that leaves the sessions alone.
LEMMA SessionsStay ==
  ASSUME SessionsInv, UNCHANGED <<file, created, faults, now>>, disposed' \subseteq Runtimes
  PROVE  SessionsInv'
BY DEF SessionsInv, Using, SessionsOf

\* A context that keeps its handle, while its session is not renewed.
LEMMA StillHeld ==
  ASSUME ContextsInv, NEW k \in DOMAIN contexts, k \in DOMAIN contexts',
         contexts'[k].handle = contexts[k].handle, contexts'[k].binding = contexts[k].binding,
         contexts'[k].pending = contexts[k].pending \/ contexts[k].pending = NoRequest,
         contexts'[k].disposing = "done" =>
           contexts[k].disposing = "done" \/ faults' > 0 \/ contexts'[k].handle = NoHandle,
         Me(k)' # None => Me(k)' = Me(k),
         faults' \in Nat, faults' >= faults, now' = now,
         contexts[k].handle.id \in DOMAIN file' =>
           \/ file'[contexts[k].handle.id].status \notin Live
           \/ /\ contexts[k].handle.id \in DOMAIN file
              /\ Untouched(file[contexts[k].handle.id], file'[contexts[k].handle.id])
              /\ file'[contexts[k].handle.id].actor = file[contexts[k].handle.id].actor,
         Held(k)'
  PROVE  Holding(file[contexts[k].handle.id], contexts[k], Me(k), faults, now)'
<1>1. PICK c, d, me : c = contexts[k] /\ d = contexts'[k] /\ me = Me(k)
  OBVIOUS
<1>2. PICK id : id = c.handle.id
  OBVIOUS
<1>3. PICK s, t : s = file[id] /\ t = file'[id]
  OBVIOUS
<1>4. /\ Me(k)' = me /\ me # None /\ d.handle = c.handle /\ c.handle # NoHandle
      /\ id \in DOMAIN file' /\ t.status \in Live
  BY <1>1, <1>2, <1>3 DEF Held
<1>5. id \in DOMAIN file /\ Untouched(s, t) /\ t.actor = s.actor
  BY <1>1, <1>2, <1>3, <1>4
<1>6. s.status \in Live
  BY <1>4, <1>5 DEF Untouched
<1>7. Held(k)
  BY <1>1, <1>2, <1>3, <1>4, <1>5, <1>6 DEF Held
<1>8. Holding(s, c, me, faults, now)
  BY <1>1, <1>2, <1>3, <1>7 DEF ContextsInv, HandlesInv
<1>9. GoodSession(s) /\ faults \in Nat /\ now \in Nat
  BY <1>3, <1>5, ContextsAssumed DEF ContextsInv, SessionsInv
<1>10. Holding(t, d, me, faults', now)
  <2>1. /\ t.status \in Live /\ Untouched(s, t) /\ t.actor = s.actor /\ d.handle = c.handle
        /\ d.binding = c.binding /\ (d.pending = c.pending \/ c.pending = NoRequest)
        /\ (d.disposing = "done" => c.disposing = "done" \/ faults' > 0)
        /\ faults <= faults' /\ faults' \in Nat
    BY <1>1, <1>4, <1>5, <1>9
  <2> QED BY <1>8, <1>9, <2>1, HoldingKept
<1> QED BY <1>1, <1>2, <1>3, <1>4, <1>10

\* The steps of the registry and of the bootstraps that do not touch the store.
Registers ==
  /\ UNCHANGED <<file, created, faults, runtime, host, now>> /\ disposed' \subseteq Runtimes
  /\ contexts' \in Seq(Context) /\ DOMAIN contexts \subseteq DOMAIN contexts'
  /\ \A k \in DOMAIN contexts : Tends(contexts[k], contexts'[k])
  /\ \A k \in DOMAIN contexts' \ DOMAIN contexts :
       OrderedContext(contexts'[k]) /\ contexts'[k].handle = NoHandle /\ contexts'[k].runtime \in host.used

LEMMA UntouchedSelf ==
  ASSUME NEW s
  PROVE  Untouched(s, s)
BY DEF Untouched

LEMMA RegistersInductive ==
  ASSUME ContextsInv, Registers
  PROVE  ContextsInv'
<1>1. HostInv'
  BY DEF ContextsInv, Registers, HostInv
<1>2. SessionsInv'
  BY SessionsStay DEF ContextsInv, Registers
<1>3. ContextsTyped'
  <2>1. \A k \in DOMAIN contexts' :
          /\ Ordered(contexts'[k]) /\ contexts'[k].runtime \in host.used
          /\ contexts'[k].handle # NoHandle => k \in DOMAIN contexts /\ contexts'[k].handle = contexts[k].handle
    BY DEF Registers, Tends, OrderedContext, ContextsInv, ContextsTyped
  <2> QED BY <2>1 DEF Registers, ContextsInv, ContextsTyped
<1>4. HandlesInv'
  <2> SUFFICES ASSUME NEW k \in DOMAIN contexts', Held(k)'
               PROVE  Holding(file[contexts[k].handle.id], contexts[k], Me(k), faults, now)'
    BY DEF HandlesInv
  <2>1. k \in DOMAIN contexts /\ Tends(contexts[k], contexts'[k])
    BY DEF Registers, Held
  <2>2. Me(k)' = Me(k)
    BY <2>1 DEF Tends, Registers, Me
  <2>3. faults \in Nat
    BY ContextsAssumed DEF ContextsInv, SessionsInv
  <2> QED BY <2>1, <2>2, <2>3, StillHeld, UntouchedSelf DEF Tends, Registers, Held
<1> QED BY <1>1, <1>2, <1>3, <1>4 DEF ContextsInv

\* The steps of the host: processes come and go.
HostSteps ==
  /\ UNCHANGED <<file, created, faults, now, disposed>> /\ HostInv' /\ host.used \subseteq host'.used
  /\ contexts' \in Seq(Context) /\ DOMAIN contexts' = DOMAIN contexts
  /\ \A k \in DOMAIN contexts :
       \/ /\ contexts'[k] = contexts[k]
          /\ Me(k)' # None => Me(k)' = Me(k)
       \/ /\ OrderedContext(contexts'[k]) /\ contexts'[k].handle = NoHandle
          /\ contexts'[k].runtime = contexts[k].runtime

LEMMA HostStepsInductive ==
  ASSUME ContextsInv, HostSteps
  PROVE  ContextsInv'
<1>1. SessionsInv'
  BY SessionsStay DEF ContextsInv, SessionsInv, HostSteps
<1>2. ContextsTyped'
  <2>1. \A k \in DOMAIN contexts' :
          /\ Ordered(contexts'[k]) /\ contexts'[k].runtime \in host'.used
          /\ contexts'[k].handle # NoHandle => k \in DOMAIN contexts /\ contexts'[k].handle = contexts[k].handle
    BY DEF HostSteps, OrderedContext, ContextsInv, ContextsTyped
  <2> QED BY <2>1 DEF HostSteps, ContextsInv, ContextsTyped
<1>3. HandlesInv'
  <2> SUFFICES ASSUME NEW k \in DOMAIN contexts', Held(k)'
               PROVE  Holding(file[contexts[k].handle.id], contexts[k], Me(k), faults, now)'
    BY DEF HandlesInv
  <2>1. k \in DOMAIN contexts /\ contexts'[k] = contexts[k] /\ (Me(k)' # None => Me(k)' = Me(k))
    BY DEF HostSteps, Held
  <2>2. faults \in Nat
    BY ContextsAssumed DEF ContextsInv, SessionsInv
  <2> QED BY <2>1, <2>2, StillHeld, UntouchedSelf DEF HostSteps, Held
<1> QED BY <1>1, <1>2, <1>3 DEF ContextsInv, HostSteps

LEMMA TickInductive ==
  ASSUME ContextsInv, Tick
  PROVE  ContextsInv'
<1>1. now \in Nat /\ now' = now + 1 /\ now' \in 1 .. MaxTime
  BY ContextsAssumed DEF Tick, ContextsInv, SessionsInv
<1>2. HostInv' /\ ContextsTyped'
  BY DEF ContextsInv, HostInv, ContextsTyped, Tick
<1>3. SessionsInv'
  <2>1. ASSUME NEW actor \in Actors
        PROVE  Cardinality(Using(file, actor, now + 1)) <= MaxLivePerActor
    <3>1. Using(file, actor, now + 1) \subseteq Using(file, actor, now)
      <4> SUFFICES ASSUME NEW id \in DOMAIN file, LiveOrResumable(file[id], now + 1)
                   PROVE  LiveOrResumable(file[id], now)
        BY DEF Using, SessionsOf
      <4>1. file[id].resumeUntil \in Nat
        BY DEF ContextsInv, SessionsInv, GoodSession, SessionRecord
      <4> QED BY <1>1, <4>1 DEF LiveOrResumable
    <3>2. IsFiniteSet(Using(file, actor, now))
      <4>1. Using(file, actor, now) \subseteq DOMAIN file
        BY DEF Using, SessionsOf
      <4>2. IsFiniteSet(DOMAIN file)
        BY DEF ContextsInv, SessionsInv
      <4> QED BY <4>1, <4>2, FS_Subset
    <3>3. /\ IsFiniteSet(Using(file, actor, now + 1))
          /\ Cardinality(Using(file, actor, now + 1)) <= Cardinality(Using(file, actor, now))
      BY <3>1, <3>2, FS_Subset
    <3>4. Cardinality(Using(file, actor, now)) <= MaxLivePerActor
      BY DEF ContextsInv, SessionsInv
    <3>5. Cardinality(Using(file, actor, now)) \in Nat /\ Cardinality(Using(file, actor, now + 1)) \in Nat
      BY <3>2, <3>3, FS_CardinalityType
    <3> QED BY <3>3, <3>4, <3>5, ContextsAssumed
  <2> QED BY <1>1, <2>1 DEF ContextsInv, SessionsInv, Tick, Using, SessionsOf
<1>4. HandlesInv'
  <2> SUFFICES ASSUME NEW k \in DOMAIN contexts', Held(k)'
               PROVE  Holding(file[contexts[k].handle.id], contexts[k], Me(k), faults, now)'
    BY DEF HandlesInv
  <2>1. k \in DOMAIN contexts /\ Held(k) /\ Me(k)' = Me(k)
    BY DEF Held, Tick, Me
  <2>2. Holding(file[contexts[k].handle.id], contexts[k], Me(k), faults, now)
    BY <2>1 DEF ContextsInv, HandlesInv
  <2>3. GoodSession(file[contexts[k].handle.id])
    BY <2>1 DEF Held, ContextsInv, SessionsInv
  <2>4. Holding(file[contexts[k].handle.id], contexts[k], Me(k), faults, now + 1)
    BY <1>1, <2>2, <2>3, HoldingTicks
  <2> QED BY <1>1, <2>1, <2>4 DEF Tick
<1> QED BY <1>2, <1>3, <1>4 DEF ContextsInv

\* If a set of sessions only shrinks, or loses its usable ones, no actor gets more.
LEMMA UsingShrinks ==
  ASSUME SessionsInv, NEW f, DOMAIN f \subseteq DOMAIN file,
         \A id \in DOMAIN f : f[id].actor = file[id].actor
           /\ (LiveOrResumable(f[id], now) => LiveOrResumable(file[id], now)),
         NEW actor \in Actors
  PROVE  /\ Using(f, actor, now) \subseteq Using(file, actor, now)
         /\ IsFiniteSet(Using(f, actor, now)) /\ Cardinality(Using(f, actor, now)) \in Nat
         /\ Cardinality(Using(f, actor, now)) <= MaxLivePerActor
<1>1. Using(f, actor, now) \subseteq Using(file, actor, now)
  BY DEF Using, SessionsOf
<1>2. IsFiniteSet(Using(file, actor, now))
  <2>1. Using(file, actor, now) \subseteq DOMAIN file
    BY DEF Using, SessionsOf
  <2>2. IsFiniteSet(DOMAIN file)
    BY DEF SessionsInv
  <2> QED BY <2>1, <2>2, FS_Subset
<1>3. /\ IsFiniteSet(Using(f, actor, now))
      /\ Cardinality(Using(f, actor, now)) <= Cardinality(Using(file, actor, now))
  BY <1>1, <1>2, FS_Subset
<1>4. Cardinality(Using(file, actor, now)) <= MaxLivePerActor
  BY DEF SessionsInv
<1>5. Cardinality(Using(file, actor, now)) \in Nat /\ Cardinality(Using(f, actor, now)) \in Nat
  BY <1>2, <1>3, FS_CardinalityType
<1> QED BY <1>1, <1>3, <1>4, <1>5, ContextsAssumed

\* What an operation of the store begins with.
LEMMA SettledFirst ==
  ASSUME SessionsInv, NEW me, NEW f, f = readAndExpire(file, me, host.starts, now)
  PROVE  /\ DOMAIN f = DOMAIN file
         /\ \A id \in DOMAIN file :
              /\ Succeeds(file[id], f[id], me) /\ Untouched(file[id], f[id])
              /\ ~LiveOrResumable(f[id], now) => Unusable(file[id], me)
              /\ f[id].status \in Live => file[id].status \in Live
<1>1. f = [id \in DOMAIN file |-> Settle(file[id], me)]
  BY SettledFile
<1>2. now \in Nat /\ \A id \in DOMAIN file : GoodSession(file[id])
  BY ContextsAssumed DEF SessionsInv
<1>3. ASSUME NEW id \in DOMAIN file
      PROVE  /\ Succeeds(file[id], f[id], me) /\ Untouched(file[id], f[id])
             /\ ~LiveOrResumable(f[id], now) => Unusable(file[id], me)
             /\ f[id].status \in Live => file[id].status \in Live
  <2>1. f[id] = Settle(file[id], me) /\ GoodSession(file[id])
    BY <1>1, <1>2, <1>3
  <2> QED BY <1>2, <2>1, SettleSucceeds
<1> QED BY <1>1, <1>3

LEMMA SessionsMove ==
  ASSUME SessionsInv, NEW me, created' = created, DOMAIN file' = DOMAIN file,
         \A id \in DOMAIN file : Succeeds(file[id], file'[id], me)
  PROVE  FileMoves(me)
<1>1. PICK f : f = file'
  OBVIOUS
<1>2. \A id \in DOMAIN f : f[id].actor = file[id].actor
        /\ (LiveOrResumable(f[id], now) => LiveOrResumable(file[id], now))
  BY <1>1 DEF Succeeds
<1>3. DOMAIN f \subseteq DOMAIN file
  BY <1>1
<1>4. \A actor \in Actors : Cardinality(Using(f, actor, now)) <= MaxLivePerActor
  BY <1>2, <1>3, UsingShrinks
<1>5. created \in Nat /\ created \in 0 .. MaxCreated
  BY ContextsAssumed DEF SessionsInv
<1> QED BY <1>1, <1>4, <1>5 DEF FileMoves, SessionsInv

\* A session is started: what had to make room was of no use to anyone, and the
\* actor had room for one more.
LEMMA StartedMoves ==
  ASSUME SessionsInv, NEW me, created < MaxCreated, created' = created + 1,
         NEW f, DOMAIN f = DOMAIN file,
         \A id \in DOMAIN file : Succeeds(file[id], f[id], me)
           /\ (~LiveOrResumable(f[id], now) => Unusable(file[id], me)),
         NEW room \in Rooms(f, MaxSessions, now), NEW actor \in Actors,
         hasActorSessionCapacity(f, actor, now),
         NEW new, GoodSession(new), new.status = "active", new.lost = FALSE, new.actor = actor,
         file' = [i \in DOMAIN room \cup {created + 1} |-> IF i = created + 1 THEN new ELSE room[i]]
  PROVE  FileMoves(me)
<1>1. PICK id : id = created + 1
  OBVIOUS
<1>2. PICK g : g = file'
  OBVIOUS
<1>3. /\ created \in Nat /\ MaxCreated \in Nat /\ created \in 0 .. MaxCreated
      /\ DOMAIN file \subseteq 1 .. created /\ IsFiniteSet(DOMAIN file)
      /\ Cardinality(DOMAIN file) <= MaxSessions
      /\ MaxSessions \in Nat \ {0} /\ MaxLivePerActor \in Nat /\ now \in Nat
  BY ContextsAssumed DEF SessionsInv
<1>4. id \notin DOMAIN file /\ id \in 1 .. created + 1 /\ created + 1 \in 0 .. MaxCreated
  BY <1>1, <1>3
<1>5. Cardinality(DOMAIN file) \in Nat
  BY <1>3, FS_CardinalityType
<1>6. /\ DOMAIN room \subseteq DOMAIN file /\ \A i \in DOMAIN room : room[i] = f[i]
      /\ IsFiniteSet(DOMAIN room) /\ Cardinality(DOMAIN room) + 1 <= MaxSessions
      /\ \A i \in DOMAIN file : i \in DOMAIN room \/ ~LiveOrResumable(f[i], now)
  <2>1. CASE Cardinality(DOMAIN f) < MaxSessions
    <3>1. room = f
      BY <2>1 DEF Rooms
    <3>2. Cardinality(DOMAIN room) < MaxSessions /\ DOMAIN room = DOMAIN file
      BY <2>1, <3>1
    <3> QED BY <1>3, <1>5, <3>1, <3>2
  <2>2. CASE ~(Cardinality(DOMAIN f) < MaxSessions)
    <3>1. PICK gone \in DOMAIN f : ~LiveOrResumable(f[gone], now) /\ room = Restrict(f, DOMAIN f \ {gone})
      BY <2>2 DEF Rooms
    <3>2. DOMAIN room = DOMAIN file \ {gone} /\ \A i \in DOMAIN room : room[i] = f[i]
      BY <3>1 DEF Restrict
    <3>3. /\ IsFiniteSet(DOMAIN file \ {gone})
          /\ Cardinality(DOMAIN file \ {gone}) = Cardinality(DOMAIN file) - 1
      BY <1>3, <3>1, FS_RemoveElement
    <3>4. /\ IsFiniteSet(DOMAIN room) /\ Cardinality(DOMAIN room) + 1 <= MaxSessions
      BY <1>3, <1>5, <3>2, <3>3
    <3>5. \A i \in DOMAIN file : i \in DOMAIN room \/ ~LiveOrResumable(f[i], now)
      BY <3>1, <3>2
    <3> QED BY <3>2, <3>4, <3>5
  <2> QED BY <2>1, <2>2
<1>7. Cardinality(DOMAIN room) \in Nat
  BY <1>6, FS_CardinalityType
<1>8. /\ DOMAIN g = DOMAIN room \cup {id} /\ id \notin DOMAIN room
      /\ g[id] = new /\ \A i \in DOMAIN room : g[i] = f[i]
  BY <1>1, <1>2, <1>4, <1>6
<1>9. IsFiniteSet(DOMAIN g) /\ Cardinality(DOMAIN g) <= MaxSessions
  <2>1. /\ IsFiniteSet(DOMAIN room \cup {id})
        /\ Cardinality(DOMAIN room \cup {id}) = Cardinality(DOMAIN room) + 1
    BY <1>6, <1>8, FS_AddElement
  <2> QED BY <1>6, <1>8, <2>1
<1>10. \A i \in DOMAIN g :
         \/ i \in DOMAIN file /\ Succeeds(file[i], g[i], me)
         \/ /\ i \notin DOMAIN file /\ i = created + 1
            /\ GoodSession(g[i]) /\ g[i].status = "active" /\ g[i].lost = FALSE
  BY <1>1, <1>4, <1>6, <1>8
<1>11. \A i \in DOMAIN file : i \in DOMAIN g \/ Unusable(file[i], me)
  BY <1>6, <1>8
<1>12. ASSUME NEW a \in Actors
       PROVE  Cardinality(Using(g, a, now)) <= MaxLivePerActor
  <2>0. /\ \A i \in DOMAIN f : f[i].actor = file[i].actor
             /\ (LiveOrResumable(f[i], now) => LiveOrResumable(file[i], now))
        /\ DOMAIN f \subseteq DOMAIN file
    BY DEF Succeeds
  <2>1. IsFiniteSet(Using(f, a, now)) /\ Cardinality(Using(f, a, now)) \in Nat
        /\ Cardinality(Using(f, a, now)) <= MaxLivePerActor
    BY <2>0, UsingShrinks
  <2>2. CASE a # actor
    <3>1. Using(g, a, now) \subseteq Using(f, a, now)
      BY <1>6, <1>8, <2>2 DEF Using, SessionsOf
    <3>2. /\ IsFiniteSet(Using(g, a, now))
          /\ Cardinality(Using(g, a, now)) <= Cardinality(Using(f, a, now))
      BY <2>1, <3>1, FS_Subset
    <3>3. Cardinality(Using(g, a, now)) \in Nat
      BY <3>2, FS_CardinalityType
    <3> QED BY <1>3, <2>1, <3>2, <3>3
  <2>3. CASE a = actor
    <3>1. Cardinality(Using(f, a, now)) < MaxLivePerActor
      BY <2>3 DEF hasActorSessionCapacity, Using
    <3>2. Using(g, a, now) \subseteq Using(f, a, now) \cup {id}
      BY <1>6, <1>8, <2>3 DEF Using, SessionsOf
    <3>3. id \notin Using(f, a, now)
      BY <1>4 DEF Using, SessionsOf
    <3>4. /\ IsFiniteSet(Using(f, a, now) \cup {id})
          /\ Cardinality(Using(f, a, now) \cup {id}) = Cardinality(Using(f, a, now)) + 1
      BY <2>1, <3>3, FS_AddElement
    <3>5. /\ IsFiniteSet(Using(g, a, now))
          /\ Cardinality(Using(g, a, now)) <= Cardinality(Using(f, a, now) \cup {id})
      BY <3>2, <3>4, FS_Subset
    <3>6. Cardinality(Using(g, a, now)) \in Nat
      BY <3>5, FS_CardinalityType
    <3> QED BY <1>3, <2>1, <3>1, <3>4, <3>5, <3>6
  <2> QED BY <2>2, <2>3
<1>13. DOMAIN g \subseteq 1 .. created + 1 /\ id \in DOMAIN g
  BY <1>1, <1>3, <1>4, <1>6, <1>8
<1> QED BY <1>1, <1>2, <1>4, <1>9, <1>10, <1>11, <1>12, <1>13 DEF FileMoves

\* The steps of a bootstrap that hold the store: the context becomes `d', and only
\* its own session is renewed, or a new one started for it.
Works(k, d) ==
  /\ contexts' = [contexts EXCEPT ![k] = d] /\ UNCHANGED <<runtime, disposed, host, now>>
  /\ OrderedContext(d) /\ d.runtime = contexts[k].runtime /\ d.binding = contexts[k].binding
  /\ FileMoves(Me(k)) /\ faults' \in 0 .. MaxFaults /\ faults' >= faults
  /\ d.handle # NoHandle =>
       \/ contexts[k].handle # NoHandle /\ d.handle.id = contexts[k].handle.id
       \/ contexts[k].handle = NoHandle /\ d.handle.id = created + 1 /\ created' = created + 1
  /\ \A id \in DOMAIN file' \ {contexts[k].handle.id} :
       id = created + 1 \/ Untouched(file[id], file'[id])
  /\ Held(k)' => Holding(file[contexts[k].handle.id], contexts[k], Me(k), faults, now)'

LEMMA WorksInductive ==
  ASSUME ContextsInv, NEW k \in DOMAIN contexts, NEW d, Works(k, d)
  PROVE  ContextsInv'
<1>1. HostInv'
  BY DEF ContextsInv, Works, HostInv
<1>2. SessionsInv'
  <2>1. SessionsInv /\ FileMoves(Me(k)) /\ now' = now /\ faults' \in 0 .. MaxFaults /\ disposed' \subseteq Runtimes
    BY DEF ContextsInv, SessionsInv, Works
  <2> QED BY <2>1, FileMovesKeep
<1>3. /\ created \in Nat /\ faults \in Nat /\ faults' \in Nat
      /\ created' \in {created, created + 1}
  BY ContextsAssumed DEF ContextsInv, SessionsInv, Works, FileMoves
<1>4. /\ contexts' \in Seq(Context) /\ DOMAIN contexts' = DOMAIN contexts /\ contexts'[k] = d
      /\ \A l \in DOMAIN contexts \ {k} : contexts'[l] = contexts[l]
  <2>1. contexts \in Seq(Context) /\ d \in Context
    BY DEF ContextsInv, ContextsTyped, Works, OrderedContext
  <2> QED BY <2>1 DEF Works
<1>5. ContextsTyped'
  <2>1. \A l \in DOMAIN contexts :
          /\ Ordered(contexts'[l]) /\ contexts'[l].runtime \in host'.used
          /\ contexts'[l].handle # NoHandle => contexts'[l].handle.id \in 1 .. created'
    <3>1. ASSUME NEW l \in DOMAIN contexts, l # k
          PROVE  /\ Ordered(contexts'[l]) /\ contexts'[l].runtime \in host'.used
                 /\ contexts'[l].handle # NoHandle => contexts'[l].handle.id \in 1 .. created'
      BY <1>3, <1>4, <3>1 DEF ContextsInv, ContextsTyped, Works
    <3>2. /\ Ordered(d) /\ d.runtime \in host'.used
      BY DEF ContextsInv, ContextsTyped, Works, OrderedContext
    <3>3. d.handle # NoHandle => d.handle.id \in 1 .. created'
      BY <1>3 DEF ContextsInv, ContextsTyped, Works
    <3> QED BY <1>4, <3>1, <3>2, <3>3
  <2>2. ASSUME NEW l \in DOMAIN contexts, l # k, contexts[l].handle # NoHandle, d.handle # NoHandle
        PROVE  contexts[l].handle.id # d.handle.id
    <3>1. contexts[l].handle.id \in 1 .. created
      BY <2>2 DEF ContextsInv, ContextsTyped
    <3>2. CASE contexts[k].handle # NoHandle
      BY <2>2, <3>2 DEF ContextsInv, ContextsTyped, Works
    <3>3. CASE contexts[k].handle = NoHandle
      BY <1>3, <2>2, <3>1, <3>3 DEF Works
    <3> QED BY <3>2, <3>3
  <2>3. \A l, m \in DOMAIN contexts :
          l # m /\ contexts'[l].handle # NoHandle /\ contexts'[m].handle # NoHandle
            => contexts'[l].handle.id # contexts'[m].handle.id
    BY <1>4, <2>2 DEF ContextsInv, ContextsTyped
  <2> QED BY <1>4, <2>1, <2>3 DEF ContextsTyped
<1>6. HandlesInv'
  <2> SUFFICES ASSUME NEW l \in DOMAIN contexts', Held(l)'
               PROVE  Holding(file[contexts[l].handle.id], contexts[l], Me(l), faults, now)'
    BY DEF HandlesInv
  <2>1. CASE l = k
    BY <2>1 DEF Works
  <2>2. CASE l # k
    <3>1. l \in DOMAIN contexts /\ contexts'[l] = contexts[l]
      BY <1>4, <2>2
    <3>2. contexts[l].handle # NoHandle /\ contexts[l].handle.id \in 1 .. created
      BY <3>1 DEF Held, ContextsInv, ContextsTyped
    <3>3. contexts[l].handle.id # contexts[k].handle.id
      <4>1. CASE contexts[k].handle = NoHandle
        BY <3>2, <4>1 DEF NoHandle
      <4>2. CASE contexts[k].handle # NoHandle
        BY <2>2, <3>1, <3>2, <4>2 DEF ContextsInv, ContextsTyped
      <4> QED BY <4>1, <4>2
    <3>4. contexts[l].handle.id # created + 1
      BY <1>3, <3>2
    <3>5. ASSUME contexts[l].handle.id \in DOMAIN file'
          PROVE  /\ contexts[l].handle.id \in DOMAIN file
                 /\ Untouched(file[contexts[l].handle.id], file'[contexts[l].handle.id])
                 /\ file'[contexts[l].handle.id].actor = file[contexts[l].handle.id].actor
      BY <3>3, <3>4, <3>5 DEF Works, FileMoves, Succeeds
    <3>6. Me(l)' = Me(l)
      BY <3>1 DEF Me, Works
    <3>7. now' = now /\ faults' >= faults
      BY DEF Works
    <3> QED BY <1>3, <1>4, <3>1, <3>5, <3>6, <3>7, StillHeld
  <2> QED BY <2>1, <2>2
<1> QED BY <1>1, <1>2, <1>5, <1>6 DEF ContextsInv

\* The steps of others who use the store.
Settles(r) ==
  /\ UNCHANGED <<created, contexts, faults, runtime, disposed, host, now>>
  /\ FileMoves(runtime[r])
  /\ \A id \in DOMAIN file' : id \in DOMAIN file /\ Untouched(file[id], file'[id])

LEMMA SettlesInductive ==
  ASSUME ContextsInv, NEW r, Settles(r)
  PROVE  ContextsInv'
<1>1. HostInv'
  BY DEF ContextsInv, Settles, HostInv
<1>2. SessionsInv'
  <2>1. SessionsInv /\ FileMoves(runtime[r]) /\ now' = now /\ faults' \in 0 .. MaxFaults /\ disposed' \subseteq Runtimes
    BY DEF ContextsInv, SessionsInv, Settles
  <2> QED BY <2>1, FileMovesKeep
<1>3. ContextsTyped'
  BY DEF ContextsInv, ContextsTyped, Settles
<1>4. HandlesInv'
  <2> SUFFICES ASSUME NEW l \in DOMAIN contexts', Held(l)'
               PROVE  Holding(file[contexts[l].handle.id], contexts[l], Me(l), faults, now)'
    BY DEF HandlesInv
  <2>1. l \in DOMAIN contexts /\ contexts' = contexts /\ Me(l)' = Me(l)
    BY DEF Settles, Me
  <2>2. faults' \in Nat /\ faults' >= faults /\ now' = now
    BY ContextsAssumed DEF ContextsInv, SessionsInv, Settles
  <2>3. ASSUME contexts[l].handle.id \in DOMAIN file'
        PROVE  /\ contexts[l].handle.id \in DOMAIN file
               /\ Untouched(file[contexts[l].handle.id], file'[contexts[l].handle.id])
               /\ file'[contexts[l].handle.id].actor = file[contexts[l].handle.id].actor
    <3>1. contexts[l].handle.id \in DOMAIN file /\ Untouched(file[contexts[l].handle.id], file'[contexts[l].handle.id])
      BY <2>3 DEF Settles
    <3>2. contexts[l].handle.id # created + 1
      BY <3>1, ContextsAssumed DEF ContextsInv, SessionsInv
    <3> QED BY <2>3, <3>1, <3>2 DEF Settles, FileMoves, Succeeds
  <2>4. contexts'[l].disposing = "done" => contexts[l].disposing = "done"
    BY <2>1
  <2> QED BY <2>1, <2>2, <2>3, <2>4, StillHeld
<1> QED BY <1>1, <1>2, <1>3, <1>4 DEF ContextsInv

LEMMA StartRuntimeHosts ==
  ASSUME ContextsInv, NEW r \in Runtimes, StartRuntime(r)
  PROVE  HostSteps
<1>1. PICK p \in Pids :
        /\ host.starts[p] = Unknown
        /\ host' = [host EXCEPT !.started = @ + 1, !.starts[p] = host.started + 1,
                                !.used = @ \cup {r}]
        /\ runtime' = [runtime EXCEPT ![r] = LocalRuntimeOwner(r, p)]
  BY DEF StartRuntime
<1>2. PICK me : me = LocalRuntimeOwner(r, p)
  OBVIOUS
<1>3. HostInv /\ host.boot \in Nat /\ host.started \in Nat /\ host.starts \in [Pids -> Int]
  BY DEF ContextsInv, HostInv
<1>4. /\ me \in Owners /\ me.pid = p
      /\ me.boot = IF Linux THEN host.boot ELSE Unknown
      /\ me.start = IF Linux THEN host.started + 1 ELSE Unknown
  BY <1>2, <1>3, SessionsAssumption DEF LocalRuntimeOwner, Owners, Unknown
<1>5. /\ host' \in [boot : Nat, started : Nat, starts : [Pids -> Int], used : SUBSET Runtimes]
      /\ host'.boot = host.boot /\ host'.used = host.used \cup {r}
      /\ host'.starts[p] = host.started + 1
      /\ \A q \in Pids \ {p} : host'.starts[q] = host.starts[q]
  <2>1. PICK starts, used : starts = [host.starts EXCEPT ![p] = host.started + 1] /\ used = host.used \cup {r}
    OBVIOUS
  <2>2. host' = [host EXCEPT !.started = host.started + 1, !.starts = starts, !.used = used]
    BY <1>1, <2>1
  <2>3. /\ starts \in [Pids -> Int] /\ starts[p] = host.started + 1
        /\ \A q \in Pids \ {p} : starts[q] = host.starts[q]
    BY <1>3, <2>1
  <2>4. used \in SUBSET Runtimes
    BY <1>3, <2>1 DEF HostInv
  <2>5. host \in [boot : Nat, started : Nat, starts : [Pids -> Int], used : SUBSET Runtimes]
    BY <1>3 DEF HostInv
  <2>6. host.started + 1 \in Nat
    BY <1>3
  <2> QED BY <2>1, <2>2, <2>3, <2>4, <2>5, <2>6
<1>6. /\ runtime' \in [Runtimes -> Owners \cup {None}] /\ runtime'[r] = me
      /\ \A q \in Runtimes \ {r} : runtime'[q] = runtime[q]
  BY <1>1, <1>2, <1>3, <1>4 DEF HostInv
<1>7. \A q \in Runtimes \ {r} : runtime[q] # None => runtime[q].pid \in Pids \ {p}
  BY <1>1, <1>3 DEF HostInv, Owners
<1>8. HostInv'
  <2>1. ASSUME NEW q \in Runtimes, runtime'[q] # None
        PROVE  /\ runtime'[q] \in Owners /\ q \in host'.used
               /\ host'.starts[runtime'[q].pid] \notin {Unknown, Refused}
               /\ runtime'[q].boot = IF Linux THEN host'.boot ELSE Unknown
               /\ runtime'[q].start = IF Linux THEN host'.starts[runtime'[q].pid] ELSE Unknown
    <3>1. CASE q = r
      <4>1. host.started + 1 \notin {Unknown, Refused}
        BY <1>3 DEF Unknown, Refused
      <4> QED BY <1>4, <1>5, <1>6, <3>1, <4>1
    <3>2. CASE q # r
      <4>1. /\ runtime'[q] = runtime[q] /\ runtime[q].pid \in Pids \ {p}
        BY <1>6, <1>7, <2>1, <3>2
      <4>2. host'.starts[runtime[q].pid] = host.starts[runtime[q].pid]
        BY <1>5, <4>1
      <4> QED BY <1>3, <1>5, <2>1, <4>1, <4>2 DEF HostInv
    <3> QED BY <3>1, <3>2
  <2>2. \A q, s \in Runtimes :
          q # s /\ runtime'[q] # None /\ runtime'[s] # None => runtime'[q].pid # runtime'[s].pid
    BY <1>3, <1>4, <1>6, <1>7 DEF HostInv
  <2> QED BY <1>5, <1>6, <2>1, <2>2 DEF HostInv
<1>9. \A k \in DOMAIN contexts : Me(k)' = Me(k)
  <2>1. \A k \in DOMAIN contexts : contexts[k].runtime \in Runtimes \ {r}
    BY DEF ContextsInv, ContextsTyped, StartRuntime, HostInv
  <2> QED BY <1>6, <2>1 DEF StartRuntime, Me
<1>10. contexts \in Seq(Context) /\ contexts' = contexts
  BY DEF ContextsInv, ContextsTyped, StartRuntime
<1> QED BY <1>5, <1>8, <1>9, <1>10 DEF HostSteps, StartRuntime

LEMMA OtherProcessHosts ==
  ASSUME ContextsInv, OtherProcess
  PROVE  HostSteps
<1>1. PICK p \in Pids, shown \in {host.started + 1, Refused} :
        /\ host.starts[p] = Unknown
        /\ host' = [host EXCEPT !.started = @ + 1, !.starts[p] = shown]
  BY DEF OtherProcess, Spawn
<1>2. /\ host' \in [boot : Nat, started : Nat, starts : [Pids -> Int], used : SUBSET Runtimes]
      /\ host'.boot = host.boot /\ host'.used = host.used
      /\ \A q \in Pids \ {p} : host'.starts[q] = host.starts[q]
  <2>1. PICK starts : starts = [host.starts EXCEPT ![p] = shown]
    OBVIOUS
  <2>2. host' = [host EXCEPT !.started = host.started + 1, !.starts = starts]
    BY <1>1, <2>1
  <2>3. host \in [boot : Nat, started : Nat, starts : [Pids -> Int], used : SUBSET Runtimes]
    BY DEF ContextsInv, HostInv
  <2>4. /\ starts \in [Pids -> Int]
        /\ \A q \in Pids \ {p} : starts[q] = host.starts[q]
    <3>1. shown \in Int
      BY <1>1, <2>3 DEF Refused
    <3> QED BY <2>1, <2>3, <3>1
  <2>5. host.started + 1 \in Nat /\ host.boot \in Nat /\ host.used \in SUBSET Runtimes
    BY <2>3
  <2> QED BY <2>2, <2>3, <2>4, <2>5
<1>3. \A q \in Runtimes : runtime[q] # None => runtime[q].pid \in Pids \ {p}
  BY <1>1 DEF ContextsInv, HostInv, Owners
<1>4. HostInv'
  BY <1>2, <1>3 DEF OtherProcess, ContextsInv, HostInv
<1>5. contexts \in Seq(Context) /\ contexts' = contexts
  BY DEF ContextsInv, ContextsTyped, OtherProcess
<1> QED BY <1>2, <1>4, <1>5 DEF HostSteps, OtherProcess, Me

\* The contexts of a process that is gone mean nothing any more.
LEMMA ForgetsContexts ==
  ASSUME ContextsInv, NEW Gone,
         contexts' = [k \in DOMAIN contexts |->
           IF contexts[k].runtime \in Gone THEN NewContext(contexts[k].runtime, contexts[k].binding)
           ELSE contexts[k]],
         UNCHANGED <<file, created, faults, now, disposed>>, HostInv', host.used \subseteq host'.used,
         \A r \in Runtimes : runtime'[r] = runtime[r] \/ runtime'[r] = None
  PROVE  HostSteps
<1>1. contexts \in Seq(Context)
  BY DEF ContextsInv, ContextsTyped
<1>2. ASSUME NEW k \in DOMAIN contexts
      PROVE  /\ contexts'[k] \in Context
             /\ \/ contexts'[k] = contexts[k] /\ (Me(k)' # None => Me(k)' = Me(k))
                \/ /\ OrderedContext(contexts'[k]) /\ contexts'[k].handle = NoHandle
                   /\ contexts'[k].runtime = contexts[k].runtime
  <2>3. contexts[k] \in Context
    BY <1>1
  <2>0. contexts[k] \in Context /\ contexts[k].runtime \in Runtimes /\ contexts[k].binding \in Bindings
    BY <2>3 DEF Context
  <2>1. CASE contexts[k].runtime \in Gone
    <3>1. contexts'[k] = NewContext(contexts[k].runtime, contexts[k].binding)
      BY <2>1
    <3> QED BY <2>0, <3>1, NewIsOrdered DEF OrderedContext
  <2>2. CASE contexts[k].runtime \notin Gone
    <3>1. contexts'[k] = contexts[k]
      BY <2>2
    <3> QED BY <2>0, <3>1 DEF Me
  <2> QED BY <2>1, <2>2
<1>3. contexts' \in Seq(Context) /\ DOMAIN contexts' = DOMAIN contexts
  <2>1. DOMAIN contexts = 1 .. Len(contexts) /\ Len(contexts) \in Nat
    BY <1>1
  <2>2. contexts' \in [1 .. Len(contexts) -> Context]
    BY <1>2, <2>1
  <2> QED BY <2>1, <2>2
<1> QED BY <1>2, <1>3 DEF HostSteps

LEMMA CrashHosts ==
  ASSUME ContextsInv, NEW r \in Runtimes, Crash(r)
  PROVE  HostSteps
<1>1. HostInv /\ runtime[r] # None
  BY DEF ContextsInv, Crash
<1>2. runtime[r] \in Owners /\ runtime[r].pid \in Pids
  BY <1>1 DEF HostInv, Owners
<1>3. PICK p : p = runtime[r].pid
  OBVIOUS
<1>4. /\ host' \in [boot : Nat, started : Nat, starts : [Pids -> Int], used : SUBSET Runtimes]
      /\ host'.boot = host.boot /\ host'.used = host.used
      /\ \A q \in Pids \ {p} : host'.starts[q] = host.starts[q]
  <2>1. PICK starts : starts = [host.starts EXCEPT ![p] = Unknown]
    OBVIOUS
  <2>2. host' = [host EXCEPT !.starts = starts]
    BY <1>3, <2>1 DEF Crash
  <2>3. host \in [boot : Nat, started : Nat, starts : [Pids -> Int], used : SUBSET Runtimes]
    BY <1>1 DEF HostInv
  <2>4. /\ starts \in [Pids -> Int]
        /\ \A q \in Pids \ {p} : starts[q] = host.starts[q]
    <3>1. Unknown \in Int
      BY DEF Unknown
    <3> QED BY <2>1, <2>3, <3>1
  <2>5. host.started \in Nat /\ host.boot \in Nat /\ host.used \in SUBSET Runtimes
    BY <2>3
  <2> QED BY <2>2, <2>3, <2>4, <2>5
<1>5. /\ runtime' \in [Runtimes -> Owners \cup {None}] /\ runtime'[r] = None
      /\ \A q \in Runtimes \ {r} : runtime'[q] = runtime[q]
  BY <1>1 DEF HostInv, Crash
<1>6. \A q \in Runtimes \ {r} : runtime[q] # None => runtime[q].pid \in Pids \ {p}
  BY <1>1, <1>3 DEF HostInv, Owners
<1>7. HostInv'
  <2>1. ASSUME NEW q \in Runtimes, runtime'[q] # None
        PROVE  /\ runtime'[q] \in Owners /\ q \in host'.used
               /\ host'.starts[runtime'[q].pid] \notin {Unknown, Refused}
               /\ runtime'[q].boot = IF Linux THEN host'.boot ELSE Unknown
               /\ runtime'[q].start = IF Linux THEN host'.starts[runtime'[q].pid] ELSE Unknown
    <3>1. /\ q # r /\ runtime'[q] = runtime[q] /\ runtime[q].pid \in Pids \ {p}
      BY <1>5, <1>6, <2>1
    <3>2. host'.starts[runtime[q].pid] = host.starts[runtime[q].pid]
      BY <1>4, <3>1
    <3> QED BY <1>1, <1>4, <2>1, <3>1, <3>2 DEF HostInv
  <2>2. \A q, s \in Runtimes :
          q # s /\ runtime'[q] # None /\ runtime'[s] # None => runtime'[q].pid # runtime'[s].pid
    BY <1>1, <1>5 DEF HostInv
  <2> QED BY <1>4, <1>5, <2>1, <2>2 DEF HostInv
<1>8. contexts' = [k \in DOMAIN contexts |->
           IF contexts[k].runtime \in {r} THEN NewContext(contexts[k].runtime, contexts[k].binding)
           ELSE contexts[k]]
  BY DEF Crash
<1> QED BY <1>4, <1>5, <1>7, <1>8, ForgetsContexts DEF Crash

LEMMA RebootHosts ==
  ASSUME ContextsInv, Reboot
  PROVE  HostSteps
<1>1. HostInv
  BY DEF ContextsInv
<1>2. /\ host' \in [boot : Nat, started : Nat, starts : [Pids -> Int], used : SUBSET Runtimes]
      /\ host'.used = host.used
  <2>1. PICK starts : starts = [p \in Pids |-> Unknown]
    OBVIOUS
  <2>2. host' = [host EXCEPT !.boot = host.boot + 1, !.started = 0, !.starts = starts]
    BY <2>1 DEF Reboot
  <2>3. starts \in [Pids -> Int]
    BY <2>1 DEF Unknown
  <2>4. host \in [boot : Nat, started : Nat, starts : [Pids -> Int], used : SUBSET Runtimes]
    BY <1>1 DEF HostInv
  <2>5. host.boot + 1 \in Nat /\ host.used \in SUBSET Runtimes
    BY <2>4
  <2> QED BY <2>2, <2>3, <2>4, <2>5
<1>3. runtime' \in [Runtimes -> Owners \cup {None}] /\ \A r \in Runtimes : runtime'[r] = None
  BY DEF Reboot
<1>4. HostInv'
  BY <1>2, <1>3 DEF HostInv
<1>5. ASSUME NEW k \in DOMAIN contexts
      PROVE  contexts[k].runtime \in Runtimes
  <2>1. contexts[k] \in Context
    BY DEF ContextsInv, ContextsTyped
  <2> QED BY <2>1 DEF Context
<1>6. contexts' = [k \in DOMAIN contexts |->
           IF contexts[k].runtime \in Runtimes THEN NewContext(contexts[k].runtime, contexts[k].binding)
           ELSE contexts[k]]
  BY <1>5 DEF Reboot
<1> QED BY <1>2, <1>3, <1>4, <1>6, ForgetsContexts DEF Reboot

-----------------------------------------------------------------------------
LEMMA ContextsAre ==
  ASSUME ContextsInv
  PROVE  /\ contexts \in Seq(Context) /\ disposed \subseteq Runtimes
         /\ \A k \in DOMAIN contexts :
              /\ OrderedContext(contexts[k]) /\ contexts[k] \in Context /\ Ordered(contexts[k])
              /\ contexts[k].runtime \in Runtimes /\ contexts[k].runtime \in host.used
              /\ contexts[k].binding \in Bindings
<1>1. contexts \in Seq(Context) /\ disposed \subseteq Runtimes
  BY DEF ContextsInv, ContextsTyped, SessionsInv
<1>2. ASSUME NEW k \in DOMAIN contexts
      PROVE  /\ OrderedContext(contexts[k]) /\ contexts[k] \in Context /\ Ordered(contexts[k])
             /\ contexts[k].runtime \in Runtimes /\ contexts[k].runtime \in host.used
             /\ contexts[k].binding \in Bindings
  <2>1. contexts[k] \in Context
    BY <1>1
  <2>2. contexts[k].runtime \in Runtimes /\ contexts[k].binding \in Bindings
    BY <2>1 DEF Context
  <2>3. Ordered(contexts[k]) /\ contexts[k].runtime \in host.used
    BY DEF ContextsInv, ContextsTyped
  <2> QED BY <2>1, <2>2, <2>3 DEF OrderedContext
<1> QED BY <1>1, <1>2

LEMMA TendsSelf ==
  ASSUME NEW c, OrderedContext(c)
  PROVE  Tends(c, c)
BY DEF Tends

LEMMA OneRegisters ==
  ASSUME ContextsInv, NEW k \in DOMAIN contexts, NEW d, Tends(contexts[k], d),
         contexts' = [contexts EXCEPT ![k] = d],
         UNCHANGED <<file, created, faults, runtime, disposed, host, now>>
  PROVE  Registers
<1>1. contexts \in Seq(Context) /\ d \in Context /\ disposed \subseteq Runtimes
  BY ContextsAre DEF Tends, OrderedContext
<1>2. contexts' \in Seq(Context) /\ DOMAIN contexts' = DOMAIN contexts
  BY <1>1
<1>3. \A l \in DOMAIN contexts : Tends(contexts[l], contexts'[l])
  BY <1>1, ContextsAre, TendsSelf
<1> QED BY <1>1, <1>2, <1>3 DEF Registers

\* What only counts or marks tends to the same.
LEMMA MarkTends ==
  ASSUME NEW c, OrderedContext(c), NEW d \in Context,
         d.runtime = c.runtime, d.binding = c.binding, d.handle = c.handle, d.pending = c.pending,
         d.disposing = c.disposing, d.disposeRequested = c.disposeRequested, d.queue = c.queue,
         d.at = c.at \/ (d.at = "start" /\ c.handle = NoHandle /\ c.queue # <<>>)
  PROVE  Tends(c, d)
BY DEF Tends, OrderedContext, Ordered, Queued

LEMMA AttachRegisters ==
  ASSUME ContextsInv, NEW r \in Runtimes, NEW b \in Bindings, attach(r, b)
  PROVE  Registers
<1>1. UNCHANGED <<file, created, faults, runtime, disposed, host, now>> /\ runtime[r] # None
  BY DEF attach, UnchangedStore, UnchangedHost
<1>2. CASE \E k \in DOMAIN contexts :
             /\ contexts[k].refs < MaxRefs
             /\ contexts' = [contexts EXCEPT ![k].refs = @ + 1, ![k].timer = FALSE]
  <2>1. PICK k \in DOMAIN contexts :
             /\ contexts[k].refs < MaxRefs
             /\ contexts' = [contexts EXCEPT ![k].refs = @ + 1, ![k].timer = FALSE]
    BY <1>2
  <2>2. PICK c : c = contexts[k]
    OBVIOUS
  <2>3. PICK d : d = [c EXCEPT !.refs = c.refs + 1, !.timer = FALSE]
    OBVIOUS
  <2>4. contexts' = [contexts EXCEPT ![k] = d]
    BY <2>1, <2>2, <2>3, ContextsAre
  <2>5. OrderedContext(c) /\ c \in Context /\ MaxRefs \in Nat
    BY <2>2, ContextsAre, ContextsAssumed
  <2>6. /\ d \in Context /\ d.runtime = c.runtime /\ d.binding = c.binding /\ d.handle = c.handle
        /\ d.pending = c.pending /\ d.disposing = c.disposing /\ d.queue = c.queue /\ d.at = c.at
        /\ d.disposeRequested = c.disposeRequested
    <3>1. c.refs + 1 \in 0 .. MaxRefs
      BY <2>1, <2>2, <2>5 DEF Context
    <3> QED BY <2>3, <2>5, <3>1 DEF Context
  <2>7. Tends(contexts[k], d)
    BY <2>2, <2>5, <2>6, MarkTends
  <2> QED BY <1>1, <2>4, <2>7, OneRegisters
<1>3. CASE contexts' = Append(contexts, NewContext(r, b))
  <2>1. PICK d : d = NewContext(r, b)
    OBVIOUS
  <2>2. OrderedContext(d) /\ d.handle = NoHandle /\ d.runtime = r /\ d \in Context
    BY <2>1, NewIsOrdered DEF OrderedContext
  <2>3. r \in host.used
    BY <1>1 DEF ContextsInv, HostInv
  <2>4. contexts \in Seq(Context) /\ contexts' = Append(contexts, d)
    BY <1>3, <2>1, ContextsAre
  <2>5. /\ contexts' \in Seq(Context) /\ Len(contexts) \in Nat
        /\ DOMAIN contexts = 1 .. Len(contexts) /\ DOMAIN contexts' = 1 .. Len(contexts) + 1
        /\ contexts'[Len(contexts) + 1] = d
        /\ \A k \in 1 .. Len(contexts) : contexts'[k] = contexts[k]
    BY <2>2, <2>4
  <2>6. \A k \in DOMAIN contexts : Tends(contexts[k], contexts'[k])
    BY <2>5, ContextsAre, TendsSelf
  <2>7. \A k \in DOMAIN contexts' \ DOMAIN contexts : contexts'[k] = d
    BY <2>5
  <2>8. disposed \subseteq Runtimes /\ DOMAIN contexts \subseteq DOMAIN contexts'
    BY <2>5, ContextsAre
  <2> QED BY <1>1, <2>2, <2>3, <2>5, <2>6, <2>7, <2>8 DEF Registers
<1> QED BY <1>2, <1>3 DEF attach

LEMMA DetachRegisters ==
  ASSUME ContextsInv, NEW k \in DOMAIN contexts,
         detach(k) \/ prepareSharedProjectAccess(k)
  PROVE  Registers
<1>1. UNCHANGED <<file, created, faults, runtime, disposed, host, now>> /\ contexts[k].refs > 0
  BY DEF detach, prepareSharedProjectAccess, UnchangedStore, UnchangedHost
<1>2. PICK c : c = contexts[k]
  OBVIOUS
<1>3. OrderedContext(c) /\ c \in Context /\ MaxRefs \in Nat
  BY <1>2, ContextsAre, ContextsAssumed
<1>4. c.refs - 1 \in 0 .. MaxRefs
  BY <1>1, <1>2, <1>3 DEF Context
<1>5. CASE detach(k)
  <2>1. PICK on : on = (c.timer \/ (c.refs = 1 /\ c.disposing = "no" /\ c.runtime \notin disposed))
    OBVIOUS
  <2>2. PICK d : d = [c EXCEPT !.refs = c.refs - 1, !.timer = on]
    OBVIOUS
  <2>3. contexts' = [contexts EXCEPT ![k] = d]
    BY <1>2, <1>5, <2>1, <2>2, ContextsAre DEF detach
  <2>4. on \in BOOLEAN
    BY <1>3, <2>1 DEF Context
  <2>5. /\ d \in Context /\ d.runtime = c.runtime /\ d.binding = c.binding /\ d.handle = c.handle
        /\ d.pending = c.pending /\ d.disposing = c.disposing /\ d.queue = c.queue /\ d.at = c.at
        /\ d.disposeRequested = c.disposeRequested
    BY <1>3, <1>4, <2>2, <2>4 DEF Context
  <2>6. Tends(contexts[k], d)
    BY <1>2, <1>3, <2>5, MarkTends
  <2> QED BY <1>1, <2>3, <2>6, OneRegisters
<1>6. CASE prepareSharedProjectAccess(k)
  <2>2. PICK d : d = [c EXCEPT !.mode = "generic_locked"]
    OBVIOUS
  <2>3. contexts' = [contexts EXCEPT ![k] = d]
    BY <1>2, <1>6, <2>2, ContextsAre DEF prepareSharedProjectAccess
  <2>5. /\ d \in Context /\ d.runtime = c.runtime /\ d.binding = c.binding /\ d.handle = c.handle
        /\ d.pending = c.pending /\ d.disposing = c.disposing /\ d.queue = c.queue /\ d.at = c.at
        /\ d.disposeRequested = c.disposeRequested
    BY <1>3, <2>2 DEF Context
  <2>6. Tends(contexts[k], d)
    BY <1>2, <1>3, <2>5, MarkTends
  <2> QED BY <1>1, <2>3, <2>6, OneRegisters
<1> QED BY <1>5, <1>6

LEMMA DisposeTimerRegisters ==
  ASSUME ContextsInv, NEW k \in DOMAIN contexts, disposeTimer(k)
  PROVE  Registers
<1>1. UNCHANGED <<file, created, faults, runtime, disposed, host, now>>
  BY DEF disposeTimer, UnchangedStore, UnchangedHost
<1>2. PICK c : c = contexts[k]
  OBVIOUS
<1>3. OrderedContext(c) /\ c \in Context
  BY <1>2, ContextsAre
<1>4. PICK d : d = IF c.refs > 0 \/ ~c.mapped THEN [c EXCEPT !.timer = FALSE] ELSE Disposal(c)
  OBVIOUS
<1>5. contexts' = [contexts EXCEPT ![k] = d]
  BY <1>2, <1>4, ContextsAre DEF disposeTimer
<1>6. Tends(c, d)
  <2>1. CASE c.refs > 0 \/ ~c.mapped
    <3>1. d = [c EXCEPT !.timer = FALSE]
      BY <1>4, <2>1
    <3>2. /\ d \in Context /\ d.runtime = c.runtime /\ d.binding = c.binding /\ d.handle = c.handle
          /\ d.pending = c.pending /\ d.disposing = c.disposing /\ d.queue = c.queue /\ d.at = c.at
          /\ d.disposeRequested = c.disposeRequested
      BY <1>3, <3>1 DEF Context
    <3> QED BY <1>3, <3>2, MarkTends
  <2>2. CASE ~(c.refs > 0 \/ ~c.mapped)
    <3>1. d = Disposal(c)
      BY <1>4, <2>2
    <3> QED BY <1>3, <3>1, DisposalTends
  <2> QED BY <2>1, <2>2
<1> QED BY <1>1, <1>2, <1>5, <1>6, OneRegisters

LEMMA DisposeAllRegisters ==
  ASSUME ContextsInv, NEW r \in Runtimes, disposeAll(r)
  PROVE  Registers
<1>1. UNCHANGED <<file, created, faults, runtime, host, now>> /\ disposed' \subseteq Runtimes
  BY ContextsAre DEF disposeAll, UnchangedStore
<1>2. contexts' = [k \in DOMAIN contexts |->
         IF contexts[k].mapped /\ contexts[k].runtime = r
           THEN Disposal(contexts[k]) ELSE contexts[k]]
  BY DEF disposeAll
<1>3. ASSUME NEW k \in DOMAIN contexts
      PROVE  Tends(contexts[k], contexts'[k])
  <2>1. OrderedContext(contexts[k])
    BY ContextsAre
  <2>2. contexts'[k] = contexts[k] \/ contexts'[k] = Disposal(contexts[k])
    BY <1>2
  <2> QED BY <2>1, <2>2, TendsSelf, DisposalTends
<1>4. contexts' \in Seq(Context) /\ DOMAIN contexts' = DOMAIN contexts
  <2>1. DOMAIN contexts = 1 .. Len(contexts) /\ Len(contexts) \in Nat
    BY ContextsAre
  <2>2. \A k \in DOMAIN contexts : contexts'[k] \in Context
    BY <1>3 DEF Tends, OrderedContext
  <2>3. contexts' \in [1 .. Len(contexts) -> Context]
    BY <1>2, <2>1, <2>2
  <2> QED BY <2>1, <2>3
<1> QED BY <1>1, <1>3, <1>4 DEF Registers

LEMMA CallRegisters ==
  ASSUME ContextsInv, NEW k \in DOMAIN contexts, initializeEntry(k) \/ verify(k)
  PROVE  Registers
<1>1. UNCHANGED <<file, created, faults, runtime, disposed, host, now>> /\ ~contexts[k].disposeRequested
  BY DEF initializeEntry, verify, UnchangedStore, UnchangedHost
<1>2. PICK c : c = contexts[k]
  OBVIOUS
<1>3. OrderedContext(c) /\ c \in Context
  BY <1>2, ContextsAre
<1>4. c.mode \in {"pristine", "bootstrapping", "bootstrapped", "generic_locked"}
  BY <1>3 DEF Context
<1>5. CASE initializeEntry(k)
  <2>1. PICK mode : mode = IF c.mode = "pristine" THEN "bootstrapping" ELSE c.mode
    OBVIOUS
  <2>2. PICK d : d = [c EXCEPT !.mode = mode, !.queue = Append(c.queue, "initialize")]
    OBVIOUS
  <2>3. contexts' = [contexts EXCEPT ![k] = d]
    BY <1>2, <1>5, <2>1, <2>2, ContextsAre DEF initializeEntry
  <2>4. mode \in {"pristine", "bootstrapping", "bootstrapped", "generic_locked"}
    BY <1>4, <2>1
  <2>5. Tends(c, d)
    BY <1>1, <1>2, <1>3, <2>2, <2>4, CallTends
  <2> QED BY <1>1, <1>2, <2>3, <2>5, OneRegisters
<1>6. CASE verify(k)
  <2>2. PICK d : d = [c EXCEPT !.mode = c.mode, !.queue = Append(c.queue, "verify")]
    OBVIOUS
  <2>3. d = [c EXCEPT !.queue = Append(c.queue, "verify")]
    BY <1>3, <2>2 DEF Context
  <2>4. contexts' = [contexts EXCEPT ![k] = d]
    BY <1>2, <1>6, <2>3, ContextsAre DEF verify, Call
  <2>5. Tends(c, d)
    BY <1>1, <1>2, <1>3, <1>4, <2>2, CallTends
  <2> QED BY <1>1, <1>2, <2>4, <2>5, OneRegisters
<1> QED BY <1>5, <1>6

LEMMA BeginRegisters ==
  ASSUME ContextsInv, NEW k \in DOMAIN contexts, beginInitialize(k) \/ disposeNothing(k)
  PROVE  Registers
<1>1. UNCHANGED <<file, created, faults, runtime, disposed, host, now>>
  BY DEF beginInitialize, disposeNothing, UnchangedStore, UnchangedHost
<1>2. PICK c : c = contexts[k]
  OBVIOUS
<1>3. /\ OrderedContext(c) /\ c \in Context /\ Queued(c) /\ c.queue # <<>>
      /\ Head(c.queue) = IF beginInitialize(k) THEN "initialize" ELSE "dispose"
  BY <1>2, ContextsAre DEF Ordered, beginInitialize, disposeNothing, At
<1>4. CASE contexts' = [contexts EXCEPT ![k] = Over(c)]
           /\ (beginInitialize(k) \/ c.handle = NoHandle)
  <2>1. PICK d : d = Over(c)
    OBVIOUS
  <2>2. /\ OrderedContext(d)
        /\ d.runtime = c.runtime /\ d.binding = c.binding /\ d.handle = c.handle
        /\ d.pending = c.pending
        /\ d.disposing = "done" => Head(c.queue) = "dispose"
    BY <1>3, <2>1, OverOrdered
  <2>3. Tends(c, d)
    BY <1>3, <1>4, <2>2 DEF Tends
  <2>4. contexts' = [contexts EXCEPT ![k] = d]
    BY <1>4, <2>1
  <2> QED BY <1>1, <1>2, <2>3, <2>4, OneRegisters
<1>5. CASE contexts' = [contexts EXCEPT ![k] = [c EXCEPT !.at = "start"]] /\ c.handle = NoHandle
  <2>1. PICK d : d = [c EXCEPT !.at = "start"]
    OBVIOUS
  <2>2. /\ d \in Context /\ d.runtime = c.runtime /\ d.binding = c.binding /\ d.handle = c.handle
        /\ d.pending = c.pending /\ d.disposing = c.disposing /\ d.queue = c.queue /\ d.at = "start"
        /\ d.disposeRequested = c.disposeRequested
    BY <1>3, <2>1 DEF Context
  <2>3. Tends(c, d)
    BY <1>3, <1>5, <2>2, MarkTends
  <2>4. contexts' = [contexts EXCEPT ![k] = d]
    BY <1>5, <2>1
  <2> QED BY <1>1, <1>2, <2>3, <2>4, OneRegisters
<1>6. CASE beginInitialize(k)
  <2>1. contexts' = [contexts EXCEPT ![k] = IF c.disposeRequested THEN Over(c) ELSE [c EXCEPT !.at = "start"]]
        /\ (c.disposeRequested \/ c.handle = NoHandle)
    BY <1>2, <1>6 DEF beginInitialize
  <2> QED BY <1>4, <1>5, <1>6, <2>1
<1>7. CASE disposeNothing(k)
  <2>1. contexts' = [contexts EXCEPT ![k] = Over(c)] /\ c.handle = NoHandle
    BY <1>2, <1>7, ContextsAre DEF disposeNothing
  <2> QED BY <1>4, <2>1
<1> QED BY <1>6, <1>7

-----------------------------------------------------------------------------
LEMMA RunningIs ==
  ASSUME ContextsInv, NEW k \in Running
  PROVE  /\ k \in DOMAIN contexts /\ k \in Nat /\ Me(k) \in Owners /\ Me(k) # None
         /\ ActorAt(k) \in Actors /\ contexts[k].runtime \in Runtimes
         /\ Me(k) = runtime[contexts[k].runtime]
<1>1. k \in DOMAIN contexts /\ Me(k) # None
  BY DEF Running
<1>2. contexts[k].runtime \in Runtimes /\ contexts[k].binding \in Bindings
  BY <1>1, ContextsAre
<1>3. k \in Nat
  BY <1>1, ContextsAre
<1>4. Me(k) \in Owners
  BY <1>1, <1>2 DEF Me, ContextsInv, HostInv
<1> QED BY <1>1, <1>2, <1>3, <1>4 DEF ActorAt, Actors, Me

LEMMA SucceedsSelf ==
  ASSUME NEW s, GoodSession(s), NEW me
  PROVE  Succeeds(s, s, me)
BY DEF Succeeds

\* Nothing or the settling of the sessions was written.
LEMMA SettledQuietly ==
  ASSUME SessionsInv, NEW k, file' \in {file, Settled(k)}
  PROVE  /\ DOMAIN file' = DOMAIN file
         /\ \A id \in DOMAIN file : Succeeds(file[id], file'[id], Me(k)) /\ Untouched(file[id], file'[id])
<1>1. CASE file' = file
  BY <1>1, SucceedsSelf, UntouchedSelf DEF SessionsInv
<1>2. CASE file' = Settled(k)
  BY <1>2, SettledFirst DEF Settled
<1> QED BY <1>1, <1>2

\* A write that renews no session.
LEMMA QuietWorks ==
  ASSUME ContextsInv, NEW k \in DOMAIN contexts, NEW d, OrderedContext(d),
         contexts' = [contexts EXCEPT ![k] = d], UNCHANGED <<created, runtime, disposed, host, now>>,
         d.runtime = contexts[k].runtime, d.binding = contexts[k].binding,
         d.handle = contexts[k].handle,
         d.pending = contexts[k].pending \/ contexts[k].pending = NoRequest,
         DOMAIN file' = DOMAIN file,
         \A id \in DOMAIN file : Succeeds(file[id], file'[id], Me(k)) /\ Untouched(file[id], file'[id]),
         faults' \in 0 .. MaxFaults, faults' >= faults,
         d.disposing = "done" => contexts[k].disposing = "done" \/ faults' > 0 \/ ~Held(k)'
  PROVE  Works(k, d)
<1>1. FileMoves(Me(k))
  BY SessionsMove DEF ContextsInv
<1>2. contexts'[k] = d
  BY ContextsAre
<1>3. faults' \in Nat
  BY ContextsAssumed
<1>4. d.handle # NoHandle => contexts[k].handle # NoHandle /\ d.handle.id = contexts[k].handle.id
  OBVIOUS
<1>5. ASSUME Held(k)'
      PROVE  Holding(file[contexts[k].handle.id], contexts[k], Me(k), faults, now)'
  <2>1. k \in DOMAIN contexts'
    BY <1>2, ContextsAre
  <2>2. Me(k)' = Me(k)
    BY <1>2 DEF Me
  <2>3. contexts'[k].disposing = "done" => contexts[k].disposing = "done" \/ faults' > 0
    BY <1>2, <1>5
  <2>4. contexts[k].handle.id \in DOMAIN file' =>
          /\ contexts[k].handle.id \in DOMAIN file
          /\ Untouched(file[contexts[k].handle.id], file'[contexts[k].handle.id])
          /\ file'[contexts[k].handle.id].actor = file[contexts[k].handle.id].actor
    BY DEF Succeeds
  <2> QED BY <1>2, <1>3, <1>5, <2>1, <2>2, <2>3, <2>4, StillHeld
<1> QED BY <1>1, <1>4, <1>5 DEF Works

\* A call that the store fails, before its own write.
LEMMA FailedWorks ==
  ASSUME ContextsInv, NEW k \in Running, contexts[k].queue # <<>>,
         faults < MaxFaults, faults' = faults + 1, file' \in {file, Settled(k)}, created' = created,
         contexts' = [contexts EXCEPT ![k] = Over(@)], UNCHANGED <<runtime, disposed, host, now>>
  PROVE  Works(k, Over(contexts[k]))
<1>1. k \in DOMAIN contexts /\ contexts[k] \in Context /\ Queued(contexts[k])
  BY RunningIs, ContextsAre DEF Ordered
<1>2. PICK d : d = Over(contexts[k])
  OBVIOUS
<1>3. /\ OrderedContext(d)
      /\ d.runtime = contexts[k].runtime /\ d.binding = contexts[k].binding
      /\ d.handle = contexts[k].handle /\ d.pending = contexts[k].pending
  BY <1>1, <1>2, OverOrdered
<1>4. contexts' = [contexts EXCEPT ![k] = d]
  BY <1>2
<1>5. faults \in Nat /\ MaxFaults \in Nat
  BY ContextsAssumed DEF ContextsInv, SessionsInv
<1>6. faults' \in 0 .. MaxFaults /\ faults' >= faults /\ faults' > 0
  BY <1>5
<1>7. /\ DOMAIN file' = DOMAIN file
      /\ \A id \in DOMAIN file : Succeeds(file[id], file'[id], Me(k)) /\ Untouched(file[id], file'[id])
  BY SettledQuietly DEF ContextsInv
<1>8. Works(k, d)
  BY <1>1, <1>3, <1>4, <1>6, <1>7, QuietWorks
<1> QED BY <1>2, <1>8

\* An operation that only reads, if it does not fail.
LEMMA ReadWorks ==
  ASSUME ContextsInv, NEW k \in Running, contexts[k].queue # <<>>, NEW d, Read(k, d), OrderedContext(d),
         UNCHANGED <<created, runtime, disposed, host, now>>,
         d.runtime = contexts[k].runtime, d.binding = contexts[k].binding,
         d.handle = contexts[k].handle,
         d.pending = contexts[k].pending \/ contexts[k].pending = NoRequest,
         d.disposing = "done" /\ file' = Settled(k) /\ faults' = faults =>
           contexts[k].disposing = "done" \/ faults' > 0 \/ ~Held(k)'
  PROVE  \E e : Works(k, e)
<1>1. CASE faults < MaxFaults /\ faults' = faults + 1 /\ file' \in {file, Settled(k)}
           /\ contexts' = [contexts EXCEPT ![k] = Over(@)]
  BY <1>1, FailedWorks
<1>2. CASE file' = Settled(k) /\ contexts' = [contexts EXCEPT ![k] = d] /\ faults' = faults
  <2>1. /\ DOMAIN file' = DOMAIN file
        /\ \A id \in DOMAIN file : Succeeds(file[id], file'[id], Me(k)) /\ Untouched(file[id], file'[id])
    BY <1>2, SettledQuietly DEF ContextsInv
  <2>2. faults' \in 0 .. MaxFaults /\ faults' >= faults
    BY <1>2, ContextsAssumed DEF ContextsInv, SessionsInv
  <2>3. k \in DOMAIN contexts
    BY RunningIs
  <2>4. Works(k, d)
    BY <1>2, <2>1, <2>2, <2>3, QuietWorks
  <2> QED BY <2>4
<1> QED BY <1>1, <1>2 DEF Read, Store

LEMMA OverIs ==
  ASSUME ContextsInv, NEW k \in Running, contexts[k].queue # <<>>, NEW d, d = Over(contexts[k])
  PROVE  /\ OrderedContext(d)
         /\ d.runtime = contexts[k].runtime /\ d.binding = contexts[k].binding
         /\ d.handle = contexts[k].handle /\ d.pending = contexts[k].pending
         /\ d.disposing = "done" => Head(contexts[k].queue) = "dispose"
<1>1. contexts[k] \in Context /\ Queued(contexts[k])
  BY RunningIs, ContextsAre DEF Ordered
<1> QED BY <1>1, OverOrdered

LEMMA EnsureActiveWorks ==
  ASSUME ContextsInv, NEW k \in Running, ensureActive(k)
  PROVE  \E d : Works(k, d)
<1>1. PICK c : c = contexts[k]
  OBVIOUS
<1>2. /\ c.queue # <<>> /\ Head(c.queue) \in {"initialize", "verify", "lastVerify"} /\ c.at = "begin"
      /\ c.handle # NoHandle /\ c.pending = NoRequest
      /\ UNCHANGED <<created, runtime, disposed, host, now>>
  BY <1>1 DEF ensureActive, Verifying, At, UnchangedHost
<1>3. OrderedContext(c) /\ c \in Context /\ Ordered(c) /\ k \in Nat
  BY <1>1, RunningIs, ContextsAre
<1>4. PICK pending : pending = <<k, c.handle.secret.generation>>
  OBVIOUS
<1>5. pending \in Requests /\ pending # NoRequest
  <2>1. c.handle \in [id : Nat \ {0}, secret : Secrets]
    BY <1>2, <1>3 DEF Context, NoOrHandle
  <2>2. c.handle.secret \in Secrets
    BY <2>1
  <2>3. c.handle.secret.generation \in Nat
    BY <2>2 DEF Secrets
  <2>4. pending \in Nat \X Nat
    BY <1>3, <1>4, <2>3
  <2>5. pending # NoRequest
    BY <2>4, NothingAssumption
  <2> QED BY <2>4, <2>5 DEF Requests
<1>6. CASE Read(k, [c EXCEPT !.at = "authenticate"])
  <2>1. PICK d : d = [c EXCEPT !.at = "authenticate"]
    OBVIOUS
  <2>2. /\ d \in Context /\ d.runtime = c.runtime /\ d.binding = c.binding /\ d.handle = c.handle
        /\ d.pending = c.pending /\ d.disposing = c.disposing /\ d.queue = c.queue /\ d.at = "authenticate"
        /\ d.disposeRequested = c.disposeRequested
    BY <1>3, <2>1 DEF Context
  <2>3. OrderedContext(d)
    BY <1>2, <1>3, <2>2 DEF OrderedContext, Ordered, Queued
  <2>4. Read(k, d)
    BY <1>6, <2>1
  <2> QED BY <1>1, <1>2, <2>2, <2>3, <2>4, ReadWorks
<1>7. CASE Read(k, [c EXCEPT !.at = "resume", !.pending = pending])
  <2>1. PICK d : d = [c EXCEPT !.at = "resume", !.pending = pending]
    OBVIOUS
  <2>2. /\ d \in Context /\ d.runtime = c.runtime /\ d.binding = c.binding /\ d.handle = c.handle
        /\ d.pending = pending /\ d.disposing = c.disposing /\ d.queue = c.queue /\ d.at = "resume"
        /\ d.disposeRequested = c.disposeRequested
    BY <1>3, <1>5, <2>1 DEF Context
  <2>3. OrderedContext(d)
    BY <1>2, <1>3, <1>5, <2>2 DEF OrderedContext, Ordered, Queued
  <2>4. Read(k, d)
    BY <1>7, <2>1
  <2> QED BY <1>1, <1>2, <2>2, <2>3, <2>4, ReadWorks
<1>8. CASE Read(k, Over(c))
  <2>1. PICK d : d = Over(c)
    OBVIOUS
  <2>2. /\ OrderedContext(d)
        /\ d.runtime = c.runtime /\ d.binding = c.binding
        /\ d.handle = c.handle /\ d.pending = c.pending
        /\ d.disposing = "done" => Head(c.queue) = "dispose"
    BY <1>1, <1>2, <2>1, OverIs
  <2>3. Read(k, d) /\ d.disposing # "done"
    BY <1>2, <1>8, <2>1, <2>2
  <2> QED BY <1>1, <1>2, <2>2, <2>3, ReadWorks
<1>9. Read(k, CASE StatusFor(k) = "active"  -> [c EXCEPT !.at = "authenticate"]
                [] StatusFor(k) = "expired" -> [c EXCEPT !.at = "resume", !.pending = pending]
                [] OTHER                    -> Over(c))
  BY <1>1, <1>4 DEF ensureActive
<1>10. CASE StatusFor(k) = "active"
  BY <1>6, <1>9, <1>10
<1>11. CASE StatusFor(k) = "expired"
  BY <1>7, <1>9, <1>11
<1>12. CASE StatusFor(k) \notin {"active", "expired"}
  BY <1>8, <1>9, <1>12
<1> QED BY <1>10, <1>11, <1>12

LEMMA AuthenticateWorks ==
  ASSUME ContextsInv, NEW k \in Running, authenticate(k)
  PROVE  \E d : Works(k, d)
<1>1. PICK c, d : c = contexts[k] /\ d = Over(c)
  OBVIOUS
<1>2. /\ c.queue # <<>> /\ Head(c.queue) \in {"initialize", "verify", "lastVerify"}
      /\ UNCHANGED <<created, runtime, disposed, host, now>> /\ Read(k, d)
  BY <1>1 DEF authenticate, At, UnchangedHost
<1>3. /\ OrderedContext(d)
      /\ d.runtime = c.runtime /\ d.binding = c.binding
      /\ d.handle = c.handle /\ d.pending = c.pending
      /\ d.disposing = "done" => Head(c.queue) = "dispose"
  BY <1>1, <1>2, OverIs
<1>4. d.disposing # "done"
  BY <1>2, <1>3
<1> QED BY <1>1, <1>2, <1>3, <1>4, ReadWorks

\* As long as the store has not failed, a context is let at its live session.
LEMMA LetAtIt ==
  ASSUME ContextsInv, NEW k \in Running, contexts[k].handle # NoHandle, faults = 0,
         contexts[k].handle.id \in DOMAIN file, Settled(k)[contexts[k].handle.id].status \in Live
  PROVE  StatusFor(k) \in Live
<1>1. PICK c, id, f, me : /\ c = contexts[k] /\ id = contexts[k].handle.id
                          /\ f = Settled(k) /\ me = Me(k)
  OBVIOUS
<1>2. DOMAIN f = DOMAIN file /\ Succeeds(file[id], f[id], me) /\ Untouched(file[id], f[id])
  BY <1>1, SettledFirst DEF Settled, ContextsInv
<1>3. Held(k)
  BY <1>1, <1>2, RunningIs DEF Held, Untouched
<1>4. Holding(file[id], c, me, faults, now)
  BY <1>1, <1>3, RunningIs DEF ContextsInv, HandlesInv
<1>5. file[id].owner = me /\ file[id].actor = ActorOf[c.binding] /\ file[id].verifier = c.handle.secret
  BY <1>4 DEF Holding
<1>6. f[id].owner = me /\ f[id].actor = ActorOf[c.binding] /\ f[id].verifier = c.handle.secret
  BY <1>1, <1>2, <1>5 DEF Untouched, Succeeds
<1>7. Authorised(f, ActorAt(k), me, c.handle)
  BY <1>1, <1>2, <1>6 DEF Authorised, CurrentRuntime, SameRuntimeOwner, ActorAt
<1> QED BY <1>1, <1>7 DEF StatusFor

LEMMA InspectWorks ==
  ASSUME ContextsInv, NEW k \in Running, inspect(k)
  PROVE  \E d : Works(k, d)
<1>1. PICK c : c = contexts[k]
  OBVIOUS
<1>2. /\ c.queue # <<>> /\ UNCHANGED <<created, runtime, disposed, host, now>>
      /\ \/ Head(c.queue) = "dispose" /\ c.handle # NoHandle
         \/ Head(c.queue) = "initialize"
  BY <1>1 DEF inspect, At, UnchangedHost
<1>3. OrderedContext(c) /\ c \in Context /\ Ordered(c)
  BY <1>1, RunningIs, ContextsAre
<1>4. CASE StatusFor(k) \in Live
  <2>1. PICK d : d = [c EXCEPT !.at = "release"]
    OBVIOUS
  <2>2. /\ d \in Context /\ d.runtime = c.runtime /\ d.binding = c.binding /\ d.handle = c.handle
        /\ d.pending = c.pending /\ d.disposing = c.disposing /\ d.queue = c.queue /\ d.at = "release"
        /\ d.disposeRequested = c.disposeRequested
    BY <1>3, <2>1 DEF Context
  <2>3. OrderedContext(d)
    BY <1>2, <1>3, <2>2 DEF OrderedContext, Ordered, Queued
  <2>4. Read(k, d)
    BY <1>1, <1>4, <2>1 DEF inspect
  <2> QED BY <1>1, <1>2, <2>2, <2>3, <2>4, ReadWorks
<1>5. CASE StatusFor(k) \notin Live
  <2>1. PICK d : d = Over(c)
    OBVIOUS
  <2>2. /\ OrderedContext(d)
        /\ d.runtime = c.runtime /\ d.binding = c.binding
        /\ d.handle = c.handle /\ d.pending = c.pending
        /\ d.disposing = "done" => Head(c.queue) = "dispose"
    BY <1>1, <1>2, <2>1, OverIs
  <2>3. Read(k, d)
    BY <1>1, <1>5, <2>1 DEF inspect
  <2>4. ASSUME d.disposing = "done", file' = Settled(k), faults' = faults, ~(faults' > 0), Held(k)',
               contexts' = [contexts EXCEPT ![k] = d]
        PROVE  FALSE
    <3>1. c.handle # NoHandle /\ faults = 0
      BY <1>2, <2>2, <2>4, ContextsAssumed DEF ContextsInv, SessionsInv
    <3>2. contexts'[k].handle = c.handle
      BY <1>1, <2>2, <2>4, RunningIs, ContextsAre
    <3>3. c.handle.id \in DOMAIN Settled(k) /\ Settled(k)[c.handle.id].status \in Live
      BY <2>4, <3>2 DEF Held
    <3>4. DOMAIN Settled(k) = DOMAIN file
      BY SettledFirst DEF Settled, ContextsInv
    <3> QED BY <1>1, <1>5, <3>1, <3>3, <3>4, LetAtIt
  <2>5. CASE contexts' = [contexts EXCEPT ![k] = d]
    <3>1. d.disposing = "done" /\ file' = Settled(k) /\ faults' = faults =>
           contexts[k].disposing = "done" \/ faults' > 0 \/ ~Held(k)'
      BY <2>4, <2>5
    <3> QED BY <1>1, <1>2, <2>2, <2>3, <3>1, ReadWorks
  <2>6. CASE /\ faults < MaxFaults /\ faults' = faults + 1 /\ file' \in {file, Settled(k)}
             /\ contexts' = [contexts EXCEPT ![k] = Over(@)]
    BY <1>1, <1>2, <2>6, FailedWorks
  <2> QED BY <2>3, <2>5, <2>6 DEF Read, Store
<1> QED BY <1>4, <1>5

LEMMA ReleaseWorks ==
  ASSUME ContextsInv, NEW k \in Running, release(k)
  PROVE  \E d : Works(k, d)
<1>1. PICK c, id, f : c = contexts[k] /\ id = contexts[k].handle.id /\ f = Settled(k)
  OBVIOUS
<1>2. PICK new : new = IF StatusFor(k) \in Live \cup {"released"}
                         THEN [f EXCEPT ![id] = Released(f[id])] ELSE f
  OBVIOUS
<1>3. PICK d : d = Over(c)
  OBVIOUS
<1>4. /\ c.queue # <<>> /\ Head(c.queue) \in {"dispose", "initialize"}
      /\ UNCHANGED <<created, runtime, disposed, host, now>> /\ Store(k, new, d)
  BY <1>1, <1>2, <1>3 DEF release, At, UnchangedHost
<1>5. /\ OrderedContext(d)
      /\ d.runtime = c.runtime /\ d.binding = c.binding
      /\ d.handle = c.handle /\ d.pending = c.pending
      /\ d.disposing = "done" => Head(c.queue) = "dispose"
  BY <1>1, <1>3, <1>4, OverIs
<1>6. /\ DOMAIN f = DOMAIN file
      /\ \A i \in DOMAIN file : Succeeds(file[i], f[i], Me(k)) /\ Untouched(file[i], f[i])
  BY <1>1, SettledFirst DEF Settled, ContextsInv
<1>7. StatusFor(k) \in Live \cup {"released"} => id \in DOMAIN file /\ f[id].status = StatusFor(k)
  <2>1. "unknown" \notin Live \cup {"released"}
    BY DEF Live
  <2> QED BY <1>1, <1>6, <2>1 DEF StatusFor, Authorised
<1>8. /\ DOMAIN new = DOMAIN file
      /\ \A i \in DOMAIN file : Succeeds(file[i], new[i], Me(k)) /\ Untouched(file[i], new[i])
      /\ StatusFor(k) \in Live => new[id].status = "released"
  <2>1. CASE StatusFor(k) \in Live \cup {"released"}
    <3>1. new = [f EXCEPT ![id] = Released(f[id])] /\ id \in DOMAIN file /\ f[id].status \in Live \cup {"released"}
      BY <1>2, <1>7, <2>1
    <3>2. DOMAIN new = DOMAIN file /\ new[id] = Released(f[id]) /\ \A i \in DOMAIN file \ {id} : new[i] = f[i]
      BY <1>6, <3>1
    <3>3. GoodSession(file[id]) /\ Succeeds(file[id], f[id], Me(k))
      BY <1>6, <3>1 DEF ContextsInv, SessionsInv
    <3>4. Succeeds(file[id], new[id], Me(k)) /\ new[id].status = "released" /\ Untouched(file[id], new[id])
      BY <3>1, <3>2, <3>3, ReleasedSucceeds
    <3> QED BY <1>6, <3>2, <3>4
  <2>2. CASE StatusFor(k) \notin Live \cup {"released"}
    BY <1>2, <1>6, <2>2
  <2> QED BY <2>1, <2>2
<1>9. CASE /\ faults < MaxFaults /\ faults' = faults + 1 /\ file' \in {file, Settled(k)}
           /\ contexts' = [contexts EXCEPT ![k] = Over(@)]
  BY <1>1, <1>4, <1>9, FailedWorks
<1>10. CASE file' = new /\ contexts' = [contexts EXCEPT ![k] = d]
            /\ (faults' = faults \/ (faults < MaxFaults /\ faults' = faults + 1))
  <2>1. faults' \in 0 .. MaxFaults /\ faults' >= faults
    BY <1>10, ContextsAssumed DEF ContextsInv, SessionsInv
  <2>2. ASSUME d.disposing = "done", ~(faults' > 0), Held(k)'
        PROVE  FALSE
    <3>1. faults = 0
      BY <2>1, <2>2, ContextsAssumed DEF ContextsInv, SessionsInv
    <3>2. contexts'[k].handle = c.handle
      BY <1>1, <1>5, <1>10, RunningIs, ContextsAre
    <3>3. c.handle # NoHandle /\ id \in DOMAIN new /\ new[id].status \in Live
      BY <1>1, <1>10, <2>2, <3>2 DEF Held
    <3>4. StatusFor(k) \notin Live
      BY <1>8, <3>3 DEF Live
    <3>5. new = f \/ (id \in DOMAIN file /\ f[id].status = "released")
      BY <1>2, <1>7, <3>4
    <3>6. f[id].status \in Live \/ f[id].status = "released"
      BY <3>3, <3>5
    <3>7. CASE f[id].status \in Live
      BY <1>1, <1>8, <3>1, <3>3, <3>4, <3>7, LetAtIt
    <3>8. CASE f[id].status = "released"
      <4>1. new[id] = f[id]
        BY <1>2, <1>7, <1>6, <3>4, <3>8 DEF Released
      <4> QED BY <3>3, <3>8, <4>1 DEF Live
    <3> QED BY <3>6, <3>7, <3>8
  <2>3. k \in DOMAIN contexts
    BY RunningIs
  <2>4. Works(k, d)
    BY <1>1, <1>4, <1>5, <1>8, <1>10, <2>1, <2>2, <2>3, QuietWorks
  <2> QED BY <2>4
<1> QED BY <1>1, <1>3, <1>4, <1>9, <1>10 DEF Store

\* The resume is answered: the context has the new handle.
Answered(c, id, secret) == Over([c EXCEPT !.handle = Handle(id, secret), !.pending = NoRequest])

LEMMA AnsweredIs ==
  ASSUME ContextsInv, NEW k \in Running, contexts[k].queue # <<>>, Head(contexts[k].queue) # "dispose",
         NEW id \in Nat \ {0}, NEW secret \in Secrets,
         NEW d, d = Answered(contexts[k], id, secret)
  PROVE  /\ OrderedContext(d)
         /\ d.runtime = contexts[k].runtime /\ d.binding = contexts[k].binding
         /\ d.handle # NoHandle /\ d.handle.id = id /\ d.handle.secret = secret
         /\ d.disposing # "done"
<1>1. PICK c, handle, a : /\ c = contexts[k] /\ handle = Handle(id, secret)
                          /\ a = [contexts[k] EXCEPT !.handle = Handle(id, secret), !.pending = NoRequest]
  OBVIOUS
<1>2. c \in Context /\ Queued(c)
  BY <1>1, RunningIs, ContextsAre DEF Ordered
<1>3. /\ handle \in NoOrHandle /\ handle.id = id /\ handle.secret = secret /\ handle # NoHandle
  <2>1. handle \in [id : Nat \ {0}, secret : Secrets] /\ handle.id = id /\ handle.secret = secret
    BY <1>1 DEF Handle
  <2>2. NoHandle.id = 0
    BY DEF NoHandle
  <2> QED BY <2>1, <2>2 DEF NoOrHandle
<1>4. a = [c EXCEPT !.handle = handle, !.pending = NoRequest]
  BY <1>1
<1>5. NoRequest \in Requests
  BY DEF Requests
<1>6. /\ a \in Context /\ a.runtime = c.runtime /\ a.binding = c.binding /\ a.handle = handle
      /\ a.disposing = c.disposing /\ a.disposeRequested = c.disposeRequested
      /\ a.queue = c.queue
  BY <1>2, <1>3, <1>4, <1>5 DEF Context
<1>7. Queued(a) /\ a.queue # <<>>
  BY <1>1, <1>2, <1>6 DEF Queued
<1>8. /\ OrderedContext(d)
      /\ d.runtime = a.runtime /\ d.binding = a.binding /\ d.handle = a.handle
      /\ d.disposing = "done" => Head(a.queue) = "dispose"
  BY <1>1, <1>6, <1>7, OverOrdered DEF Answered
<1> QED BY <1>1, <1>3, <1>6, <1>8

LEMMA ResumeWorks ==
  ASSUME ContextsInv, NEW k \in Running, resume(k)
  PROVE  \E d : Works(k, d)
<1>1. PICK c, id, f, me : /\ c = contexts[k] /\ id = contexts[k].handle.id
                          /\ f = Settled(k) /\ me = Me(k)
  OBVIOUS
<1>2. /\ c.queue # <<>> /\ Head(c.queue) \in {"initialize", "verify", "lastVerify"}
      /\ c.pending # NoRequest /\ c.pending \in Requests
      /\ UNCHANGED <<created, runtime, disposed, host, now>>
  <2>1. Ordered(c) /\ c \in Context
    BY <1>1, RunningIs, ContextsAre
  <2>2. c.pending \in Requests
    BY <2>1 DEF Context
  <2> QED BY <1>1, <2>1, <2>2 DEF resume, Verifying, At, UnchangedHost, Ordered
<1> DEFINE known    == id \in DOMAIN f /\ f[id].actor = ActorAt(k)
           recovers == known /\ MayRecover(f[id], me, c.handle, c.pending, now)
           rotates  == known /\ MayRotate(f[id], me, c.handle, c.pending, now)
<1>3. PICK s : s = Rotated(f[id], me, c.pending, now)
  OBVIOUS
<1>4. /\ DOMAIN f = DOMAIN file
      /\ \A i \in DOMAIN file :
           /\ Succeeds(file[i], f[i], me) /\ Untouched(file[i], f[i])
           /\ f[i].status \in Live => file[i].status \in Live
  BY <1>1, SettledFirst DEF Settled, ContextsInv
<1>5. /\ k \in DOMAIN contexts /\ me \in Owners /\ me # None
      /\ now \in Nat /\ created \in Nat /\ faults \in Nat /\ MaxFaults \in Nat
      /\ DOMAIN file \subseteq 1 .. created /\ faults \in 0 .. MaxFaults
  BY <1>1, RunningIs, ContextsAssumed DEF ContextsInv, SessionsInv
<1>6. CASE recovers
  <2>1. PICK secret, d : secret = f[id].verifier /\ d = Answered(c, id, f[id].verifier)
    OBVIOUS
  <2>2. id \in DOMAIN file /\ id \in Nat \ {0} /\ f[id].actor = ActorAt(k)
        /\ MayRecover(f[id], me, c.handle, c.pending, now)
    BY <1>3, <1>4, <1>5, <1>6
  <2>3. secret \in Secrets
    BY <1>4, <2>1, <2>2 DEF Succeeds, GoodSession, SessionRecord
  <2>4. /\ OrderedContext(d)
        /\ d.runtime = c.runtime /\ d.binding = c.binding
        /\ d.handle # NoHandle /\ d.handle.id = id /\ d.handle.secret = secret
        /\ d.disposing # "done"
    <3>1. contexts[k].queue # <<>> /\ Head(contexts[k].queue) # "dispose"
      BY <1>1, <1>2
    <3>2. d = Answered(contexts[k], id, secret)
      BY <1>1, <2>1
    <3> QED BY <1>1, <2>2, <2>3, <3>1, <3>2, AnsweredIs
  <2>5. Read(k, d)
    <3>1. ~rotates
      BY <2>2 DEF MayRecover, MayRotate
    <3> QED BY <1>1, <1>6, <2>1, <3>1 DEF resume, Answered
  <2>6. CASE /\ faults < MaxFaults /\ faults' = faults + 1 /\ file' \in {file, Settled(k)}
             /\ contexts' = [contexts EXCEPT ![k] = Over(@)]
    BY <1>1, <1>2, <2>6, FailedWorks
  <2>7. CASE file' = f /\ contexts' = [contexts EXCEPT ![k] = d] /\ faults' = faults
    <3>1. FileMoves(me)
      <4>1. created' = created /\ DOMAIN file' = DOMAIN file /\ SessionsInv
            /\ \A i \in DOMAIN file : Succeeds(file[i], file'[i], me)
        BY <1>2, <1>4, <2>7 DEF ContextsInv
      <4> QED BY <4>1, SessionsMove
    <3>2. contexts'[k] = d
      BY <1>5, <2>7, ContextsAre
    <3>3. Me(k)' = me
      BY <1>1, <1>2, <2>4, <3>2 DEF Me
    <3>4. f[id].status \in Live => f[id].owner = me
      BY <2>2 DEF MayRecover, CurrentRuntime, SameRuntimeOwner, Live, Ended
    <3>5. Held(k)' => Holding(f[id], d, me, faults', now)
      BY <2>1, <2>2, <2>4, <2>7, <3>2, <3>4, <1>1 DEF Held, Holding, ActorAt
    <3>6. c.handle # NoHandle
      BY <1>1, <2>2 DEF NoHandle
    <3>7. Held(k)' => Holding(file[contexts[k].handle.id], contexts[k], Me(k), faults, now)'
      <4>1. file'[contexts'[k].handle.id] = f[id] /\ now' = now
        BY <1>2, <2>4, <2>7, <3>2
      <4> QED BY <3>2, <3>3, <3>5, <4>1
    <3>8. Works(k, d)
      BY <1>1, <1>2, <1>4, <1>5, <2>4, <2>7, <3>1, <3>6, <3>7 DEF Works
    <3> QED BY <3>8
  <2> QED BY <1>1, <2>5, <2>6, <2>7 DEF Read, Store
<1>7. CASE rotates
  <2>1. PICK new, d : new = [f EXCEPT ![id] = s] /\ d = Answered(c, id, s.verifier)
    OBVIOUS
  <2>2. id \in DOMAIN file /\ id \in Nat \ {0} /\ f[id].actor = ActorAt(k)
        /\ MayRotate(f[id], me, c.handle, c.pending, now)
    BY <1>3, <1>4, <1>5, <1>7
  <2>3. /\ Succeeds(file[id], s, me)
        /\ s.status = "active" /\ s.owner = me /\ s.actor = file[id].actor
        /\ MayRecover(s, me, c.handle, c.pending, now)
    <3>1. /\ GoodSession(file[id]) /\ Succeeds(file[id], f[id], me)
          /\ (f[id].status \in Live => file[id].status \in Live)
      BY <1>4, <2>2 DEF ContextsInv, SessionsInv
    <3> QED BY <1>2, <1>3, <1>5, <2>2, <3>1, RotatedSucceeds
  <2>4. s.actor = ActorAt(k)
    BY <1>4, <2>2, <2>3 DEF Succeeds
  <2>5. /\ DOMAIN new = DOMAIN file /\ new[id] = s /\ \A i \in DOMAIN file \ {id} : new[i] = f[i]
    BY <1>4, <2>1, <2>2
  <2>6. s.verifier \in Secrets
    BY <2>3 DEF Succeeds, GoodSession, SessionRecord
  <2>7. /\ OrderedContext(d)
        /\ d.runtime = c.runtime /\ d.binding = c.binding
        /\ d.handle # NoHandle /\ d.handle.id = id /\ d.handle.secret = s.verifier
        /\ d.disposing # "done"
    <3>1. contexts[k].queue # <<>> /\ Head(contexts[k].queue) # "dispose"
      BY <1>1, <1>2
    <3>2. d = Answered(contexts[k], id, s.verifier)
      BY <1>1, <2>1
    <3> QED BY <1>1, <2>2, <2>6, <3>1, <3>2, AnsweredIs
  <2>8. ~recovers
    BY <1>3, <2>2 DEF MayRecover, MayRotate
  <2>9. Store(k, new, d)
    BY <1>1, <1>3, <1>7, <2>1, <2>8 DEF resume, Answered
  <2>10. c.handle # NoHandle
    BY <1>1, <2>2 DEF NoHandle
  <2>11. CASE /\ faults < MaxFaults /\ faults' = faults + 1 /\ file' \in {file, Settled(k)}
              /\ contexts' = [contexts EXCEPT ![k] = Over(@)]
    BY <1>1, <1>2, <2>11, FailedWorks
  <2>12. ASSUME file' = new
         PROVE  FileMoves(me) /\ \A i \in DOMAIN file' \ {id} : Untouched(file[i], file'[i])
    <3>1. created' = created /\ DOMAIN file' = DOMAIN file /\ SessionsInv
          /\ \A i \in DOMAIN file : Succeeds(file[i], file'[i], me)
      BY <1>2, <1>4, <2>3, <2>5, <2>12 DEF ContextsInv
    <3> QED BY <1>4, <2>5, <2>12, <3>1, SessionsMove
  <2>13. CASE file' = new /\ contexts' = [contexts EXCEPT ![k] = d] /\ faults' = faults
    <3>2. contexts'[k] = d
      BY <1>5, <2>13, ContextsAre
    <3>3. Me(k)' = me
      BY <1>1, <1>2, <2>7, <3>2 DEF Me
    <3>5. Holding(s, d, me, faults', now)
      BY <1>1, <2>3, <2>4, <2>7 DEF Holding, ActorAt
    <3>7. Holding(file[contexts[k].handle.id], contexts[k], Me(k), faults, now)'
      <4>1. file'[contexts'[k].handle.id] = s /\ now' = now
        BY <1>2, <2>5, <2>7, <2>13, <3>2
      <4> QED BY <3>2, <3>3, <3>5, <4>1
    <3>8. Works(k, d)
      BY <1>1, <1>2, <1>5, <2>7, <2>10, <2>12, <2>13, <3>7 DEF Works
    <3> QED BY <3>8
  <2>14. CASE /\ faults < MaxFaults /\ faults' = faults + 1 /\ file' = new
              /\ contexts' = [contexts EXCEPT ![k] = Over(@)]
    <3>1. PICK e : e = Over(c)
      OBVIOUS
    <3>2. /\ OrderedContext(e) /\ e.runtime = c.runtime /\ e.binding = c.binding
          /\ e.handle = c.handle /\ e.pending = c.pending
      BY <1>1, <1>2, <3>1, OverIs
    <3>3. contexts' = [contexts EXCEPT ![k] = e] /\ contexts'[k] = e
      BY <1>1, <1>5, <2>14, <3>1, ContextsAre
    <3>4. Me(k)' = me
      BY <1>1, <1>2, <3>2, <3>3 DEF Me
    <3>5. faults' \in 0 .. MaxFaults /\ faults' > 0 /\ faults' >= faults
      BY <1>5, <2>14
    <3>6. Holding(s, e, me, faults', now)
      BY <1>1, <1>2, <2>3, <2>4, <3>2, <3>5 DEF Holding, ActorAt
    <3>7. Holding(file[contexts[k].handle.id], contexts[k], Me(k), faults, now)'
      <4>1. file'[contexts'[k].handle.id] = s /\ now' = now
        BY <1>1, <1>2, <2>5, <2>14, <3>2, <3>3
      <4> QED BY <3>3, <3>4, <3>6, <4>1
    <3>8. Works(k, e)
      BY <1>1, <1>2, <2>10, <2>12, <2>14, <3>2, <3>3, <3>5, <3>7 DEF Works
    <3> QED BY <3>8
  <2> QED BY <1>1, <2>9, <2>11, <2>13, <2>14 DEF Store
<1>8. CASE ~recovers /\ ~rotates
  <2>1. PICK d : d = Over(c)
    OBVIOUS
  <2>2. /\ OrderedContext(d)
        /\ d.runtime = c.runtime /\ d.binding = c.binding
        /\ d.handle = c.handle /\ d.pending = c.pending
        /\ d.disposing = "done" => Head(c.queue) = "dispose"
    BY <1>1, <1>2, <2>1, OverIs
  <2>3. Read(k, d) /\ d.disposing # "done"
    BY <1>1, <1>2, <1>3, <1>8, <2>1, <2>2 DEF resume
  <2> QED BY <1>1, <1>2, <2>2, <2>3, ReadWorks
<1> QED BY <1>6, <1>7, <1>8

LEMMA RoomIs ==
  ASSUME NEW f, NEW limit, NEW room \in Rooms(f, limit, now)
  PROVE  DOMAIN room \subseteq DOMAIN f /\ \A i \in DOMAIN room : room[i] = f[i]
BY DEF Rooms, Restrict

\* The context of a session that was just started.
Started(c, id) == [c EXCEPT !.handle = Handle(id, Secret(1, NoRequest))]

AfterStart(c, id) ==
  IF c.disposeRequested THEN [Started(c, id) EXCEPT !.at = "inspect"] ELSE Over(Started(c, id))

Begun(d, c, id) ==
  /\ OrderedContext(d) /\ d.runtime = c.runtime /\ d.binding = c.binding
  /\ d.handle # NoHandle /\ d.handle.id = id /\ d.handle.secret = Secret(1, NoRequest)
  /\ d.disposing # "done"

LEMMA StartedIs ==
  ASSUME ContextsInv, NEW k \in Running, contexts[k].queue # <<>>, Head(contexts[k].queue) = "initialize",
         NEW id \in Nat \ {0},
         NEW d, d = AfterStart(contexts[k], id)
  PROVE  Begun(d, contexts[k], id)
<1>1. PICK c, handle, a : /\ c = contexts[k] /\ handle = Handle(id, Secret(1, NoRequest))
                          /\ a = Started(contexts[k], id)
  OBVIOUS
<1>2. c \in Context /\ Queued(c) /\ Ordered(c)
  BY <1>1, RunningIs, ContextsAre DEF Ordered
<1>3. /\ handle \in NoOrHandle /\ handle.id = id /\ handle.secret = Secret(1, NoRequest) /\ handle # NoHandle
  <2>1. Secret(1, NoRequest) \in Secrets
    BY DEF Secret, Secrets, Requests
  <2>2. handle \in [id : Nat \ {0}, secret : Secrets] /\ handle.id = id /\ handle.secret = Secret(1, NoRequest)
    BY <1>1, <2>1 DEF Handle
  <2>3. NoHandle.id = 0
    BY DEF NoHandle
  <2> QED BY <2>2, <2>3 DEF NoOrHandle
<1>4. a = [c EXCEPT !.handle = handle]
  BY <1>1 DEF Started
<1>5. /\ a \in Context /\ a.runtime = c.runtime /\ a.binding = c.binding /\ a.handle = handle
      /\ a.disposing = c.disposing /\ a.disposeRequested = c.disposeRequested
      /\ a.queue = c.queue
  BY <1>2, <1>3, <1>4 DEF Context
<1>6. Queued(a) /\ a.queue # <<>>
  BY <1>1, <1>2, <1>5 DEF Queued
<1>7. CASE c.disposeRequested
  <2>1. d = [a EXCEPT !.at = "inspect"]
    BY <1>1, <1>7 DEF AfterStart
  <2>2. /\ d \in Context /\ d.runtime = c.runtime /\ d.binding = c.binding /\ d.handle = handle
        /\ d.disposing = c.disposing /\ d.disposeRequested = c.disposeRequested
        /\ d.queue = c.queue /\ d.at = "inspect"
    BY <1>5, <2>1 DEF Context
  <2>3. d.disposing # "done"
    BY <1>1, <1>2, <2>2 DEF Queued
  <2>4. OrderedContext(d)
    BY <1>1, <1>2, <2>2 DEF OrderedContext, Ordered, Queued
  <2> QED BY <1>1, <1>3, <2>2, <2>3, <2>4 DEF Begun
<1>8. CASE ~c.disposeRequested
  <2>1. d = Over(a)
    BY <1>1, <1>8 DEF AfterStart
  <2>2. /\ OrderedContext(d)
        /\ d.runtime = a.runtime /\ d.binding = a.binding /\ d.handle = a.handle
        /\ d.disposing = "done" => Head(a.queue) = "dispose"
    BY <1>5, <1>6, <2>1, OverOrdered
  <2>3. Head(a.queue) = "initialize"
    BY <1>1, <1>5
  <2> QED BY <1>1, <1>3, <1>5, <2>2, <2>3 DEF Begun
<1> QED BY <1>7, <1>8

LEMMA StartWorks ==
  ASSUME ContextsInv, NEW k \in Running, start(k)
  PROVE  \E d : Works(k, d)
<1>1. PICK c, id, f, me : /\ c = contexts[k] /\ id = created + 1
                          /\ f = Settled(k) /\ me = Me(k)
  OBVIOUS
<1>2. /\ c.queue # <<>> /\ Head(c.queue) = "initialize" /\ c.handle = NoHandle
      /\ created < MaxCreated /\ created' = IF id \in DOMAIN file' THEN id ELSE created
      /\ UNCHANGED <<runtime, disposed, host, now>>
  <2>1. Ordered(c)
    BY <1>1, RunningIs, ContextsAre
  <2> QED BY <1>1, <2>1 DEF start, At, UnchangedHost, Ordered
<1>4. /\ DOMAIN f = DOMAIN file
      /\ \A i \in DOMAIN file :
           /\ Succeeds(file[i], f[i], me) /\ Untouched(file[i], f[i])
           /\ ~LiveOrResumable(f[i], now) => Unusable(file[i], me)
  BY <1>1, SettledFirst DEF Settled, ContextsInv
<1>5. /\ k \in DOMAIN contexts /\ me \in Owners /\ me # None /\ ActorAt(k) \in Actors
      /\ now \in Nat /\ created \in Nat /\ faults \in Nat /\ MaxFaults \in Nat
      /\ DOMAIN file \subseteq 1 .. created /\ faults \in 0 .. MaxFaults
  BY <1>1, RunningIs, ContextsAssumed DEF ContextsInv, SessionsInv
<1>6. id \in Nat \ {0} /\ id \notin DOMAIN file
  BY <1>1, <1>5
<1>7. CASE /\ faults < MaxFaults /\ faults' = faults + 1 /\ file' \in {file, Settled(k)}
           /\ contexts' = [contexts EXCEPT ![k] = Over(@)]
  <2>1. created' = created
    BY <1>1, <1>2, <1>4, <1>6, <1>7
  <2>2. contexts[k].queue # <<>>
    BY <1>1, <1>2
  <2> QED BY <1>2, <1>7, <2>1, <2>2, FailedWorks
<1>8. CASE Read(k, Over(c))
  <2>1. PICK d : d = Over(c)
    OBVIOUS
  <2>2. /\ OrderedContext(d)
        /\ d.runtime = c.runtime /\ d.binding = c.binding
        /\ d.handle = c.handle /\ d.pending = c.pending
        /\ d.disposing = "done" => Head(c.queue) = "dispose"
    BY <1>1, <1>2, <2>1, OverIs
  <2>3. Read(k, d) /\ d.disposing # "done"
    BY <1>2, <1>8, <2>1, <2>2
  <2>4. created' = created
    <3>1. file' \in {file, Settled(k)}
      BY <1>8 DEF Read, Store
    <3> QED BY <1>1, <1>2, <1>4, <1>6, <3>1
  <2> QED BY <1>1, <1>2, <2>2, <2>3, <2>4, ReadWorks
<1>9. ASSUME hasActorSessionCapacity(f, ActorAt(k), now),
             NEW room \in Rooms(f, MaxSessions, now), NEW s, s = NewSession(ActorAt(k), me, now),
             NEW new, new = [i \in DOMAIN room \cup {id} |-> IF i = id THEN s ELSE room[i]],
             NEW d, d = AfterStart(c, id),
             Store(k, new, d)
      PROVE  \E e : Works(k, e)
  <2>1. /\ GoodSession(s) /\ s.status = "active" /\ s.lost = FALSE /\ s.owner = me /\ s.actor = ActorAt(k)
        /\ s.verifier = Secret(1, NoRequest)
    <3>1. First(s, me, ActorAt(k))
      BY <1>5, <1>9, NewIsGood
    <3> QED BY <3>1 DEF First
  <2>2. DOMAIN room \subseteq DOMAIN file /\ \A i \in DOMAIN room : room[i] = f[i]
    BY <1>4, RoomIs
  <2>3. /\ new[id] = s /\ id \in DOMAIN new
        /\ \A i \in DOMAIN new \ {id} : i \in DOMAIN file /\ new[i] = f[i]
    BY <1>9, <2>2
  <2>4. ASSUME file' = new
        PROVE  /\ FileMoves(me) /\ created' = created + 1 /\ file'[id] = s
               /\ \A i \in DOMAIN file' : i = created + 1 \/ Untouched(file[i], file'[i])
    <3>1. created' = created + 1
      BY <1>1, <1>2, <2>3, <2>4
    <3>2. FileMoves(me)
      <4>1. file' = [i \in DOMAIN room \cup {created + 1} |-> IF i = created + 1 THEN s ELSE room[i]]
        BY <1>1, <1>9, <2>4
      <4>2. SessionsInv
        BY DEF ContextsInv
      <4> QED BY <1>2, <1>4, <1>5, <1>9, <2>1, <3>1, <4>1, <4>2, StartedMoves
    <3>3. \A i \in DOMAIN file' : i = created + 1 \/ Untouched(file[i], file'[i])
      BY <1>1, <1>4, <2>3, <2>4
    <3> QED BY <2>3, <2>4, <3>1, <3>2, <3>3
  <2>5. CASE file' = new /\ contexts' = [contexts EXCEPT ![k] = d] /\ faults' = faults
    <3>1. /\ OrderedContext(d)
          /\ d.runtime = c.runtime /\ d.binding = c.binding
          /\ d.handle # NoHandle /\ d.handle.id = id /\ d.handle.secret = Secret(1, NoRequest)
          /\ d.disposing # "done"
      <4>1. contexts[k].queue # <<>> /\ Head(contexts[k].queue) = "initialize"
        BY <1>1, <1>2
      <4>2. Begun(d, contexts[k], id)
        BY <1>1, <1>6, <1>9, <4>1, StartedIs
      <4> QED BY <1>1, <4>2 DEF Begun
    <3>2. contexts'[k] = d
      BY <1>5, <2>5, ContextsAre
    <3>3. Me(k)' = me
      BY <1>1, <1>2, <3>1, <3>2 DEF Me
    <3>4. Holding(s, d, me, faults', now)
      BY <1>1, <2>1, <3>1 DEF Holding, ActorAt
    <3>5. Holding(file[contexts[k].handle.id], contexts[k], Me(k), faults, now)'
      <4>1. file'[contexts'[k].handle.id] = s /\ now' = now
        BY <1>2, <2>4, <2>5, <3>1, <3>2
      <4> QED BY <3>2, <3>3, <3>4, <4>1
    <3>6. Works(k, d)
      BY <1>1, <1>2, <1>5, <2>4, <2>5, <3>1, <3>5 DEF Works
    <3> QED BY <3>6
  <2>6. CASE /\ faults < MaxFaults /\ faults' = faults + 1 /\ file' = new
             /\ contexts' = [contexts EXCEPT ![k] = Over(@)]
    <3>1. PICK e : e = Over(c)
      OBVIOUS
    <3>2. /\ OrderedContext(e) /\ e.runtime = c.runtime /\ e.binding = c.binding
          /\ e.handle = c.handle /\ e.pending = c.pending
      BY <1>1, <1>2, <3>1, OverIs
    <3>3. contexts' = [contexts EXCEPT ![k] = e] /\ contexts'[k] = e
      BY <1>1, <1>5, <2>6, <3>1, ContextsAre
    <3>4. ~Held(k)'
      BY <1>2, <3>2, <3>3 DEF Held
    <3>5. faults' \in 0 .. MaxFaults /\ faults' >= faults
      BY <1>5, <2>6
    <3>6. Works(k, e)
      BY <1>1, <1>2, <2>4, <2>6, <3>2, <3>3, <3>4, <3>5 DEF Works
    <3> QED BY <3>6
  <2> QED BY <1>1, <1>7, <1>9, <2>5, <2>6 DEF Store
<1>10. CASE /\ hasActorSessionCapacity(f, ActorAt(k), now)
            /\ \E room \in Rooms(f, MaxSessions, now) :
                 Store(k, [i \in DOMAIN room \cup {id} |->
                             IF i = id THEN NewSession(ActorAt(k), me, now) ELSE room[i]],
                       AfterStart(c, id))
  <2>1. PICK room \in Rooms(f, MaxSessions, now) :
                 Store(k, [i \in DOMAIN room \cup {id} |->
                             IF i = id THEN NewSession(ActorAt(k), me, now) ELSE room[i]],
                       AfterStart(c, id))
    BY <1>10
  <2>2. PICK s : s = NewSession(ActorAt(k), me, now)
    OBVIOUS
  <2>3. PICK new : new = [i \in DOMAIN room \cup {id} |-> IF i = id THEN s ELSE room[i]]
    OBVIOUS
  <2>4. PICK d : d = AfterStart(c, id)
    OBVIOUS
  <2>5. Store(k, new, d)
    BY <2>1, <2>2, <2>3, <2>4, Zenon
  <2> QED BY <1>9, <1>10, <2>2, <2>3, <2>4, <2>5
<1> QED BY <1>1, <1>8, <1>10 DEF start, Started, AfterStart

LEMMA SettlesRevoke ==
  ASSUME ContextsInv, NEW r \in Runtimes, NEW id \in DOMAIN file, revoke(r, id)
  PROVE  Settles(r)
<1>1. PICK f : f = readAndExpire(file, runtime[r], host.starts, now)
  OBVIOUS
<1>2. SessionsInv /\ created \in Nat
  BY ContextsAssumed DEF ContextsInv, SessionsInv
<1>3. /\ DOMAIN f = DOMAIN file
      /\ \A i \in DOMAIN file : Succeeds(file[i], f[i], runtime[r]) /\ Untouched(file[i], f[i])
  BY <1>1, <1>2, SettledFirst
<1>4. /\ file' = [f EXCEPT ![id] = Revoked(f[id])]
      /\ UNCHANGED <<created, contexts, faults, runtime, disposed, host, now>>
  BY <1>1 DEF revoke, UnchangedHost
<1>5. DOMAIN file' = DOMAIN file /\ file'[id] = Revoked(f[id]) /\ \A i \in DOMAIN file \ {id} : file'[i] = f[i]
  BY <1>3, <1>4
<1>6. GoodSession(file[id]) /\ Succeeds(file[id], f[id], runtime[r])
  BY <1>2, <1>3 DEF SessionsInv
<1>7. Succeeds(file[id], file'[id], runtime[r]) /\ Untouched(file[id], file'[id])
  BY <1>5, <1>6, RevokedSucceeds
<1>8. \A i \in DOMAIN file : Succeeds(file[i], file'[i], runtime[r]) /\ Untouched(file[i], file'[i])
  BY <1>3, <1>5, <1>7
<1>9. FileMoves(runtime[r])
  BY <1>2, <1>4, <1>5, <1>8, SessionsMove
<1> QED BY <1>4, <1>5, <1>8, <1>9 DEF Settles

LEMMA SettlesList ==
  ASSUME ContextsInv, NEW r \in Runtimes, listByActor(r)
  PROVE  Settles(r)
<1>1. SessionsInv
  BY DEF ContextsInv
<1>2. /\ file' = readAndExpire(file, runtime[r], host.starts, now)
      /\ UNCHANGED <<created, contexts, faults, runtime, disposed, host, now>>
  BY DEF listByActor, UnchangedHost
<1>3. /\ DOMAIN file' = DOMAIN file
      /\ \A i \in DOMAIN file : Succeeds(file[i], file'[i], runtime[r]) /\ Untouched(file[i], file'[i])
  BY <1>1, <1>2, SettledFirst
<1>4. FileMoves(runtime[r])
  BY <1>1, <1>2, <1>3, SessionsMove
<1> QED BY <1>2, <1>3, <1>4 DEF Settles

-----------------------------------------------------------------------------
\* Whatever moves the sessions is an operation of a process that runs.
Operated ==
  \/ UNCHANGED <<file, created>>
  \/ \E r \in Runtimes : runtime[r] # None /\ FileMoves(runtime[r])

LEMMA WorkOperates ==
  ASSUME ContextsInv, NEW k \in Running, \E d : Works(k, d)
  PROVE  ContextsInv' /\ Operated
<1>1. PICK d : Works(k, d)
  OBVIOUS
<1>2. k \in DOMAIN contexts
  BY RunningIs
<1>3. ContextsInv'
  BY <1>1, <1>2, WorksInductive
<1>4. FileMoves(Me(k))
  BY <1>1 DEF Works
<1> QED BY <1>3, <1>4, RunningIs DEF Operated

LEMMA ContextsSteps ==
  ASSUME ContextsInv, Next
  PROVE  ContextsInv' /\ Operated
<1>1. CASE Tick
  BY <1>1, TickInductive DEF Tick, Operated
<1>2. CASE HostSteps
  BY <1>2, HostStepsInductive DEF HostSteps, Operated
<1>3. CASE Registers
  BY <1>3, RegistersInductive DEF Registers, Operated
<1>4. ASSUME NEW r \in Runtimes, Settles(r), runtime[r] # None
      PROVE  ContextsInv' /\ Operated
  BY <1>4, SettlesInductive DEF Settles, Operated
<1>5. CASE Reboot
  BY <1>2, <1>5, RebootHosts
<1>6. CASE OtherProcess
  BY <1>2, <1>6, OtherProcessHosts
<1>7. ASSUME NEW r \in Runtimes,
             \/ StartRuntime(r) \/ Crash(r) \/ disposeAll(r) \/ listByActor(r)
             \/ \E b \in Bindings : attach(r, b)
             \/ \E id \in DOMAIN file : revoke(r, id)
      PROVE  ContextsInv' /\ Operated
  <2>1. CASE StartRuntime(r)
    BY <1>2, <2>1, StartRuntimeHosts
  <2>2. CASE Crash(r)
    BY <1>2, <2>2, CrashHosts
  <2>3. CASE disposeAll(r)
    BY <1>3, <2>3, DisposeAllRegisters
  <2>4. CASE listByActor(r)
    BY <1>4, <2>4, SettlesList DEF listByActor
  <2>5. CASE \E b \in Bindings : attach(r, b)
    BY <1>3, <2>5, AttachRegisters
  <2>6. CASE \E id \in DOMAIN file : revoke(r, id)
    BY <1>4, <2>6, SettlesRevoke DEF revoke
  <2> QED BY <1>7, <2>1, <2>2, <2>3, <2>4, <2>5, <2>6
<1>8. ASSUME NEW k \in Running,
             \/ detach(k) \/ disposeTimer(k)
             \/ initializeEntry(k) \/ prepareSharedProjectAccess(k) \/ verify(k)
             \/ Work(k)
      PROVE  ContextsInv' /\ Operated
  <2>1. k \in DOMAIN contexts
    BY RunningIs
  <2>2. CASE detach(k) \/ prepareSharedProjectAccess(k)
    BY <1>3, <2>1, <2>2, DetachRegisters
  <2>3. CASE disposeTimer(k)
    BY <1>3, <2>1, <2>3, DisposeTimerRegisters
  <2>4. CASE initializeEntry(k) \/ verify(k)
    BY <1>3, <2>1, <2>4, CallRegisters
  <2>5. CASE beginInitialize(k) \/ disposeNothing(k)
    BY <1>3, <2>1, <2>5, BeginRegisters
  <2>6. CASE start(k)
    BY <2>6, StartWorks, WorkOperates
  <2>7. CASE ensureActive(k)
    BY <2>7, EnsureActiveWorks, WorkOperates
  <2>8. CASE authenticate(k)
    BY <2>8, AuthenticateWorks, WorkOperates
  <2>9. CASE resume(k)
    BY <2>9, ResumeWorks, WorkOperates
  <2>10. CASE inspect(k)
    BY <2>10, InspectWorks, WorkOperates
  <2>11. CASE release(k)
    BY <2>11, ReleaseWorks, WorkOperates
  <2> QED BY <1>8, <2>2, <2>3, <2>4, <2>5, <2>6, <2>7, <2>8, <2>9, <2>10, <2>11 DEF Work
<1> QED BY <1>1, <1>5, <1>6, <1>7, <1>8 DEF Next

LEMMA ContextsInitial ==
  ASSUME Init
  PROVE  ContextsInv
<1>1. HostInv
  <2>1. /\ host = [boot |-> 1, started |-> 0, starts |-> [p \in Pids |-> Unknown], used |-> {}]
        /\ runtime = [r \in Runtimes |-> None]
    BY DEF Init
  <2>2. [p \in Pids |-> Unknown] \in [Pids -> Int]
    BY DEF Unknown
  <2>3. host \in [boot : Nat, started : Nat, starts : [Pids -> Int], used : SUBSET Runtimes]
    BY <2>1, <2>2
  <2>4. runtime \in [Runtimes -> Owners \cup {None}] /\ \A r \in Runtimes : runtime[r] = None
    BY <2>1
  <2> QED BY <2>3, <2>4 DEF HostInv
<1>2. SessionsInv
  <2>1. DOMAIN file = {} /\ created = 0 /\ now = 1 /\ faults = 0 /\ disposed = {}
    BY DEF Init
  <2>2. IsFiniteSet({}) /\ Cardinality({}) = 0
    BY FS_EmptySet
  <2>3. \A actor \in Actors : Using(file, actor, now) = {}
    BY <2>1 DEF Using, SessionsOf
  <2>4. /\ 0 \in 0 .. MaxCreated /\ 1 \in 1 .. MaxTime /\ 0 \in 0 .. MaxFaults
        /\ 0 <= MaxSessions /\ 0 <= MaxLivePerActor
    BY ContextsAssumed
  <2>5. IsFiniteSet(DOMAIN file) /\ Cardinality(DOMAIN file) <= MaxSessions
    BY <2>1, <2>2, <2>4
  <2>6. \A actor \in Actors : Cardinality(Using(file, actor, now)) <= MaxLivePerActor
    BY <2>2, <2>3, <2>4
  <2> QED BY <2>1, <2>4, <2>5, <2>6 DEF SessionsInv
<1>3. contexts = <<>> /\ DOMAIN contexts = {} /\ contexts \in Seq(Context)
  BY DEF Init
<1>4. ContextsTyped /\ HandlesInv
  BY <1>3 DEF ContextsTyped, HandlesInv
<1> QED BY <1>1, <1>2, <1>4 DEF ContextsInv

LEMMA ContextsUnchanged ==
  ASSUME ContextsInv, UNCHANGED vars
  PROVE  ContextsInv'
<1>1. UNCHANGED <<file, created, contexts, runtime, disposed, host, faults, now>>
  BY DEF vars
<1> QED BY <1>1 DEF ContextsInv, HostInv, SessionsInv, ContextsTyped, HandlesInv, Using, SessionsOf, Held, Me

ContextsPart == part = "contexts" => ContextsInv

LEMMA ContextsPartInvariant ==
  AllSpec => []ContextsPart
<1>1. AllInit => ContextsPart
  BY ContextsInitial DEF AllInit, ContextsPart
<1>2. ContextsPart /\ [AllNext]_allVars => ContextsPart'
  <2> SUFFICES ASSUME ContextsPart, [AllNext]_allVars, part' = "contexts"
               PROVE  ContextsInv'
    BY DEF ContextsPart
  <2>1. part = "contexts"
    BY DEF AllNext, ContextsNext, WorkNext, ManagerNext, ChatNext, CoordinationNext, allVars
  <2>2. CASE ContextsNext
    BY <2>1, <2>2, ContextsSteps DEF ContextsPart, ContextsNext
  <2>3. CASE UNCHANGED vars
    BY <2>1, <2>3, ContextsUnchanged DEF ContextsPart
  <2> QED BY <2>1, <2>2, <2>3 DEF AllNext, WorkNext, ManagerNext, ChatNext, CoordinationNext, allVars
<1> QED BY <1>1, <1>2, PTL DEF AllSpec

-----------------------------------------------------------------------------
LEMMA HandlesAreKept ==
  ASSUME ContextsInv
  PROVE  TypeOK /\ FileReadable /\ HandleKept
<1>1. TypeOK
  <2>1. \A id \in DOMAIN file : /\ file[id].actor \in Actors /\ file[id].status \in Live \cup Ended
                                /\ file[id].recovery \in {None} \cup Recoveries
    BY DEF ContextsInv, SessionsInv, GoodSession, SessionRecord
  <2>2. ASSUME NEW k \in DOMAIN contexts
        PROVE  /\ contexts[k].mode \in {"pristine", "bootstrapping", "bootstrapped", "generic_locked"}
               /\ contexts[k].disposing \in {"no", "verifying", "releasing", "done"}
               /\ contexts[k].refs \in 0 .. MaxRefs
               /\ contexts[k].handle.id \in 0 .. created
    <3>1. contexts[k] \in Context /\ created \in Nat
      BY ContextsAre, ContextsAssumed DEF ContextsInv, SessionsInv
    <3>2. contexts[k].handle # NoHandle => contexts[k].handle.id \in 1 .. created
      BY DEF ContextsInv, ContextsTyped
    <3>3. contexts[k].handle.id \in 0 .. created
      BY <3>1, <3>2 DEF NoHandle
    <3> QED BY <3>1, <3>3 DEF Context
  <2> QED BY <2>1, <2>2 DEF ContextsInv, SessionsInv, TypeOK
<1>2. FileReadable
  BY DEF ContextsInv, SessionsInv, GoodSession, FileReadable
<1>3. HandleKept
  <2> SUFFICES ASSUME NEW k \in Running, contexts[k].handle # NoHandle,
                      contexts[k].handle.id \in DOMAIN file,
                      file[contexts[k].handle.id].status \in Live
               PROVE  \/ file[contexts[k].handle.id].verifier = contexts[k].handle.secret
                      \/ MayRecover(file[contexts[k].handle.id], Me(k), contexts[k].handle,
                                    contexts[k].pending, now)
                      \/ file[contexts[k].handle.id].rotatedAt + ResumeRecovery < now
    BY DEF HandleKept
  <2>1. Held(k) /\ k \in DOMAIN contexts
    BY RunningIs DEF Held
  <2> QED BY <2>1 DEF ContextsInv, HandlesInv, Holding
<1> QED BY <1>1, <1>2, <1>3

LEMMA ActorsAreContained ==
  ASSUME ContextsInv
  PROVE  ActorWithinLimit /\ DisposedReleased
<1>1. ActorWithinLimit
  BY DEF ContextsInv, SessionsInv, Using, ActorWithinLimit
<1>2. DisposedReleased
  <2> SUFFICES ASSUME NEW k \in Running, contexts[k].disposing = "done", faults = 0,
                      contexts[k].handle.id \in DOMAIN file,
                      file[contexts[k].handle.id].status \in Live
               PROVE  FALSE
    BY DEF DisposedReleased
  <2>1. contexts[k].handle # NoHandle
    BY ContextsAssumed DEF NoHandle, ContextsInv, SessionsInv
  <2>2. Held(k) /\ k \in DOMAIN contexts
    BY <2>1, RunningIs DEF Held
  <2> QED BY <2>2 DEF ContextsInv, HandlesInv, Holding
<1> QED BY <1>1, <1>2

\* An operation ends a session only for a cause.
LEMMA EndsForCause ==
  ASSUME ContextsInv, Operated
  PROVE  OnlyOrphansLost /\ UsableKept
<1>1. \A id \in DOMAIN file : GoodSession(file[id]) /\ file[id].lost \in BOOLEAN
  BY DEF ContextsInv, SessionsInv, GoodSession, SessionRecord
<1>2. CASE UNCHANGED <<file, created>>
  BY <1>1, <1>2 DEF OnlyOrphansLost, UsableKept
<1>3. ASSUME NEW r \in Runtimes, runtime[r] # None, FileMoves(runtime[r])
      PROVE  OnlyOrphansLost /\ UsableKept
  <2>1. ASSUME NEW id \in DOMAIN file', file'[id].lost, id \in DOMAIN file => ~file[id].lost,
               NEW q \in Runtimes, runtime[q] # None
        PROVE  ~SameRuntimeOwner(runtime[q], file[id].owner)
    <3>1. id \in DOMAIN file /\ Succeeds(file[id], file'[id], runtime[r])
      BY <1>3, <2>1 DEF FileMoves
    <3>2. Orphaned(file[id], runtime[r], host.starts)
      BY <2>1, <3>1 DEF Succeeds
    <3> QED BY <1>3, <2>1, <3>2, OrphansAreGone DEF ContextsInv
  <2>2. ASSUME NEW id \in DOMAIN file
        PROVE  \/ id \in DOMAIN file'
               \/ ~LiveOrResumable(file[id], now)
               \/ file[id].expiresAt <= now /\ file[id].resumeUntil < now
               \/ \E q \in Runtimes : runtime[q] # None /\ Orphaned(file[id], runtime[q], host.starts)
    BY <1>3 DEF FileMoves, Unusable
  <2> QED BY <2>1, <2>2 DEF OnlyOrphansLost, UsableKept
<1> QED BY <1>2, <1>3 DEF Operated

\* A connection does not lose its session when the reply of a resume is lost, and the
\* store never writes a file that it will not read, however the store fails, the
\* processes come and go and the calls of the contexts interleave.
THEOREM HandlesKeptHolds ==
  AllSpec => []HandlesKept
<1>1. ContextsPart => HandlesKept
  BY HandlesAreKept DEF ContextsPart, HandlesKept
<1> QED BY <1>1, ContextsPartInvariant, PTL

\* No actor ever has more usable sessions than its limit, and a disposal that the
\* store did not fail leaves no live session.
THEOREM ActorsContainedHolds ==
  AllSpec => []ActorsContained
<1>1. ContextsPart => ActorsContained
  BY ActorsAreContained DEF ContextsPart, ActorsContained
<1> QED BY <1>1, ContextsPartInvariant, PTL

\* A session is taken away as lost only from a process that is gone, and dropped to
\* make room only when it could not be used any more.
THEOREM SessionsEndForCauseHolds ==
  AllSpec => SessionsEndForCause
<1>1. ContextsPart /\ [AllNext]_allVars => [part = "contexts" => OnlyOrphansLost /\ UsableKept]_vars
  <2> SUFFICES ASSUME ContextsPart, [AllNext]_allVars, part = "contexts", ~(UNCHANGED vars)
               PROVE  OnlyOrphansLost /\ UsableKept
    OBVIOUS
  <2>1. ContextsInv
    BY DEF ContextsPart
  <2>2. Next
    BY DEF AllNext, ContextsNext, WorkNext, ManagerNext, ChatNext, CoordinationNext, allVars
  <2> QED BY <2>1, <2>2, ContextsSteps, EndsForCause
<1> QED BY <1>1, ContextsPartInvariant, PTL DEF AllSpec, SessionsEndForCause

-----------------------------------------------------------------------------
(* The promise of the session store (SessionLifecycle). *)

Abstract(id) == IF part = "contexts" THEN StatusOf(id) ELSE "none"

LEMMA StatusesAre ==
  ASSUME ContextsInv', NEW id \in 1 .. MaxCreated
  PROVE  StatusOf(id)' \in Lifecycle!Statuses
<1>1. id \in DOMAIN file' => file'[id].status \in Live \cup Ended
  BY DEF ContextsInv, SessionsInv, GoodSession, SessionRecord
<1> QED BY <1>1 DEF StatusOf, Live, Ended, Lifecycle!Statuses

\* A session moves as the promise allows, in every operation.
LEMMA StatusMoves ==
  ASSUME ContextsInv, Operated, NEW id \in 1 .. MaxCreated
  PROVE  StatusOf(id)' = StatusOf(id) \/ StatusOf(id)' \in Lifecycle!After(StatusOf(id))
<1>1. created \in Nat /\ id \in Nat /\ DOMAIN file \subseteq 1 .. created
  BY ContextsAssumed DEF ContextsInv, SessionsInv
<1>2. CASE UNCHANGED <<file, created>>
  BY <1>2 DEF StatusOf
<1>3. ASSUME NEW me, FileMoves(me)
      PROVE  StatusOf(id)' = StatusOf(id) \/ StatusOf(id)' \in Lifecycle!After(StatusOf(id))
  <2>1. /\ created' \in {created, created + 1}
        /\ \A i \in DOMAIN file' :
             \/ i \in DOMAIN file /\ Succeeds(file[i], file'[i], me)
             \/ /\ i \notin DOMAIN file /\ i = created + 1 /\ created' = created + 1
                /\ file'[i].status = "active"
        /\ created' = created + 1 => created + 1 \in DOMAIN file'
    BY <1>3 DEF FileMoves
  <2>2. CASE id > created'
    <3>1. id > created
      BY <1>1, <2>1, <2>2
    <3> QED BY <2>2, <3>1 DEF StatusOf
  <2>3. CASE id > created /\ ~(id > created')
    <3>1. id = created + 1 /\ created' = created + 1
      BY <1>1, <2>1, <2>3
    <3>2. id \in DOMAIN file' /\ id \notin DOMAIN file
      BY <1>1, <2>1, <3>1
    <3>3. StatusOf(id)' = "active" /\ StatusOf(id) = "none"
      BY <2>1, <2>3, <3>2 DEF StatusOf
    <3> QED BY <3>3 DEF Lifecycle!After, Lifecycle!Usable
  <2>4. CASE ~(id > created) /\ id \in DOMAIN file
    <3>1. ~(id > created')
      BY <1>1, <2>1, <2>4
    <3>2. file[id].status \in Live \cup Ended
      BY <2>4 DEF ContextsInv, SessionsInv, GoodSession, SessionRecord
    <3>3. StatusOf(id) = file[id].status
      BY <2>4 DEF StatusOf
    <3>4. CASE id \in DOMAIN file'
      <4>1. StatusOf(id)' = file'[id].status
        BY <3>1, <3>4 DEF StatusOf
      <4>2. Succeeds(file[id], file'[id], me)
        BY <2>1, <2>4, <3>4
      <4> QED BY <3>3, <4>1, <4>2 DEF Succeeds
    <3>5. CASE id \notin DOMAIN file'
      <4>1. StatusOf(id)' = "forgotten"
        BY <3>1, <3>5 DEF StatusOf
      <4> QED BY <3>2, <3>3, <4>1 DEF Lifecycle!After, Lifecycle!Usable, Lifecycle!Statuses, Live, Ended
    <3> QED BY <3>4, <3>5
  <2>5. CASE ~(id > created) /\ id \notin DOMAIN file
    <3>1. ~(id > created') /\ id \notin DOMAIN file'
      BY <1>1, <2>1, <2>5
    <3> QED BY <2>5, <3>1 DEF StatusOf
  <2> QED BY <2>2, <2>3, <2>4, <2>5
<1> QED BY <1>2, <1>3 DEF Operated

\* The session store implements SessionLifecycle: a session that was released, revoked
\* or forgotten is never usable again.
THEOREM KeepsLifecycleHolds ==
  AllSpec => KeepsLifecycle
<1>1. AllInit => Lifecycle!Init
  <2> SUFFICES ASSUME AllInit  PROVE \A id \in 1 .. MaxCreated : Abstract(id) = "none"
    BY DEF Lifecycle!Init, Abstract
  <2>1. CASE part = "contexts"
    <3>1. created = 0
      BY <2>1 DEF AllInit, Init
    <3> QED BY <3>1 DEF Abstract, StatusOf
  <2>2. CASE part # "contexts"
    BY <2>2 DEF Abstract
  <2> QED BY <2>1, <2>2
<1>2. ContextsPart /\ ContextsPart' /\ [AllNext]_allVars =>
        [Lifecycle!Next]_[id \in 1 .. MaxCreated |-> IF part = "contexts" THEN StatusOf(id) ELSE "none"]
  <2> SUFFICES ASSUME ContextsPart, ContextsPart', [AllNext]_allVars
               PROVE  /\ \A id \in 1 .. MaxCreated : Abstract(id)' \in Lifecycle!Statuses
                      /\ \A id \in 1 .. MaxCreated :
                           Abstract(id)' = Abstract(id) \/ Abstract(id)' \in Lifecycle!After(Abstract(id))
    BY DEF Lifecycle!Next, Abstract
  <2>1. part' = part
    BY DEF AllNext, ContextsNext, WorkNext, ManagerNext, ChatNext, CoordinationNext, allVars
  <2>2. CASE part = "contexts"
    <3>1. ContextsInv /\ ContextsInv'
      BY <2>1, <2>2 DEF ContextsPart
    <3>2. Operated
      <4>1. Next \/ UNCHANGED vars
        BY <2>2 DEF AllNext, ContextsNext, WorkNext, ManagerNext, ChatNext, CoordinationNext, allVars
      <4>2. UNCHANGED vars => Operated
        BY DEF vars, Operated
      <4> QED BY <3>1, <4>1, <4>2, ContextsSteps
    <3>3. ASSUME NEW id \in 1 .. MaxCreated
          PROVE  /\ Abstract(id)' \in Lifecycle!Statuses
                 /\ Abstract(id)' = Abstract(id) \/ Abstract(id)' \in Lifecycle!After(Abstract(id))
      <4>1. Abstract(id) = StatusOf(id) /\ Abstract(id)' = StatusOf(id)'
        BY <2>1, <2>2 DEF Abstract
      <4>2. StatusOf(id)' \in Lifecycle!Statuses
        BY <3>1, StatusesAre
      <4> QED BY <3>1, <3>2, <4>1, <4>2, StatusMoves
    <3> QED BY <3>3
  <2>3. CASE part # "contexts"
    BY <2>1, <2>3 DEF Abstract, Lifecycle!Statuses
  <2> QED BY <2>2, <2>3
<1> QED BY <1>1, <1>2, ContextsPartInvariant, PTL DEF AllSpec, KeepsLifecycle, Lifecycle!Spec

-----------------------------------------------------------------------------
(* Bounded logs that are read by cursor (MessageLog). *)

LogEntry(C) == [cursor : Nat \ {0}, content : C]
LogOf(C)    == [next : Nat \ {0}, entries : Seq(LogEntry(C))]

Entries(l) == {l.entries[k] : k \in DOMAIN l.entries}

\* The two logs are instances of the same module.
LEMMA SameLog ==
  ASSUME NEW l, NEW content, NEW limit, NEW after
  PROVE  /\ Coordination!Appended(l, content, limit) = Chat!Appended(l, content, limit)
         /\ Coordination!Contiguous(l, limit) = Chat!Contiguous(l, limit)
         /\ Coordination!Latest(l) = Chat!Latest(l)
         /\ Coordination!Oldest(l) = Chat!Oldest(l)
         /\ Coordination!Gap(l, after) = Chat!Gap(l, after)
         /\ Coordination!After(l, after) = Chat!After(l, after)
         /\ Coordination!LastOf(l, limit) = Chat!LastOf(l, limit)
         /\ Coordination!Readable(l, after) = Chat!Readable(l, after)
         /\ Coordination!Last(l) = Chat!Last(l)
         /\ Coordination!EmptyLog = Chat!EmptyLog
BY DEF Coordination!Appended, Coordination!Contiguous, Coordination!Latest, Coordination!Oldest,
       Coordination!Gap, Coordination!After, Coordination!LastOf, Coordination!Readable,
       Coordination!Last, Coordination!EmptyLog,
       Chat!Appended, Chat!Contiguous, Chat!Latest, Chat!Oldest, Chat!Gap, Chat!After, Chat!LastOf,
       Chat!Readable, Chat!Last, Chat!EmptyLog

\* The entries of a log are those with the cursors from the oldest to the latest.
LogSound(C, limit, l) ==
  /\ Chat!Latest(l) = l.next - 1 /\ l.next \in Nat \ {0}
  /\ Len(l.entries) \in 0 .. limit
  /\ \A k \in 1 .. Len(l.entries) :
       /\ l.entries[k] \in Entries(l) /\ l.entries[k] \in LogEntry(C)
       /\ l.entries[k].cursor = l.next - Len(l.entries) + k - 1
  /\ l.entries # <<>> =>
       /\ Chat!Oldest(l) = l.next - Len(l.entries) /\ Chat!Oldest(l) \in 1 .. (l.next - 1)
       /\ Head(l.entries) \in Entries(l) /\ Head(l.entries).cursor = Chat!Oldest(l)
  /\ l.entries = <<>> => Chat!Oldest(l) = 0 /\ l.next = 1
  /\ \A e \in Entries(l) : e \in LogEntry(C) /\ e.cursor \in Chat!Oldest(l) .. (l.next - 1)
  /\ \A c \in Chat!Oldest(l) .. (l.next - 1) : c > 0 => \E e \in Entries(l) : e.cursor = c
  /\ \A e, f \in Entries(l) : e.cursor = f.cursor => e = f

LEMMA LogFacts ==
  ASSUME NEW C, NEW limit \in Nat, NEW l \in LogOf(C), Chat!Contiguous(l, limit)
  PROVE  LogSound(C, limit, l)
<1> DEFINE n == Len(l.entries)
<1>1. /\ l.next \in Nat \ {0} /\ l.entries \in Seq(LogEntry(C))
      /\ n \in Nat /\ n <= limit /\ DOMAIN l.entries = 1 .. n
  BY DEF LogOf, Chat!Contiguous
<1>2. \A k \in 1 .. n : /\ l.entries[k] \in LogEntry(C) /\ l.entries[k] \in Entries(l)
                        /\ l.entries[k].cursor = l.next - n + k - 1
  BY <1>1 DEF Chat!Contiguous, Entries
<1>3. l.entries # <<>> <=> n # 0
  BY <1>1
<1>4. l.entries # <<>> =>
        /\ Head(l.entries) = l.entries[1] /\ Chat!Last(l.entries) = l.entries[n]
        /\ 1 \in 1 .. n /\ n \in 1 .. n
  BY <1>1, <1>3 DEF Chat!Last
<1> HIDE DEF n
<1>5. l.entries # <<>> =>
        /\ Chat!Oldest(l) = l.next - n /\ Chat!Latest(l) = l.next - 1
        /\ Chat!Oldest(l) \in 1 .. (l.next - 1)
        /\ Head(l.entries) \in Entries(l) /\ Head(l.entries).cursor = Chat!Oldest(l)
  <2> SUFFICES ASSUME l.entries # <<>>
               PROVE  /\ Chat!Oldest(l) = l.next - n /\ Chat!Latest(l) = l.next - 1
                      /\ Chat!Oldest(l) \in 1 .. (l.next - 1)
                      /\ Head(l.entries) \in Entries(l) /\ Head(l.entries).cursor = Chat!Oldest(l)
    OBVIOUS
  <2>1. l.entries[1].cursor = l.next - n /\ l.entries[n].cursor = l.next - 1
    BY <1>1, <1>2, <1>4
  <2>2. l.entries[1].cursor \in Nat \ {0}
    BY <1>2, <1>4 DEF LogEntry
  <2>3. Chat!Oldest(l) = l.entries[1].cursor /\ Chat!Latest(l) = l.entries[n].cursor
    BY <1>4 DEF Chat!Oldest, Chat!Latest
  <2>4. n \in Nat /\ n >= 1 /\ l.next \in Nat
    BY <1>1, <1>3
  <2>5. l.entries[1] \in Entries(l)
    BY <1>2, <1>4
  <2> QED BY <1>4, <2>1, <2>2, <2>3, <2>4, <2>5
<1>6. l.entries = <<>> => Chat!Oldest(l) = 0 /\ l.next = 1 /\ Chat!Latest(l) = 0
  BY DEF Chat!Oldest, Chat!Latest, Chat!Contiguous
<1>7. ASSUME NEW e \in Entries(l)
      PROVE  e \in LogEntry(C) /\ e.cursor \in Chat!Oldest(l) .. (l.next - 1)
  <2>1. PICK k \in 1 .. n : e = l.entries[k]
    BY <1>1 DEF Entries
  <2>2. e.cursor = l.next - n + k - 1 /\ e \in LogEntry(C) /\ n # 0
    BY <1>1, <1>2, <2>1
  <2>3. Chat!Oldest(l) = l.next - n
    BY <1>3, <1>5, <2>2
  <2>4. l.next - n + k - 1 \in l.next - n .. l.next - 1
    BY <1>1
  <2> QED BY <2>2, <2>3, <2>4
<1>8. ASSUME NEW c \in Chat!Oldest(l) .. (l.next - 1), c > 0
      PROVE  \E e \in Entries(l) : e.cursor = c
  <2>1. l.entries # <<>>
    BY <1>6, <1>8
  <2>2. c - l.next + n + 1 \in 1 .. n
    BY <1>1, <1>3, <1>5, <1>8, <2>1
  <2>3. l.entries[c - l.next + n + 1].cursor = l.next - n + (c - l.next + n + 1) - 1
    BY <1>2, <2>2
  <2>4. l.next - n + (c - l.next + n + 1) - 1 = c
    BY <1>1
  <2> QED BY <1>2, <2>2, <2>3, <2>4
<1>9. ASSUME NEW e \in Entries(l), NEW f \in Entries(l), e.cursor = f.cursor
      PROVE  e = f
  <2>1. PICK i \in 1 .. n : e = l.entries[i]
    BY <1>1 DEF Entries
  <2>2. PICK j \in 1 .. n : f = l.entries[j]
    BY <1>1 DEF Entries
  <2>3. i = j
    BY <1>1, <1>2, <1>9, <2>1, <2>2
  <2> QED BY <2>1, <2>2, <2>3
<1>10. n \in 0 .. limit
  BY <1>1
<1> QED BY <1>1, <1>2, <1>5, <1>6, <1>7, <1>8, <1>9, <1>10 DEF n, LogSound

\* The last entries of a log.
LEMMA LastOfSeq ==
  ASSUME NEW S, NEW seq \in Seq(S), NEW limit \in Nat
  PROVE  LET last == Chat!LastOf(seq, limit)
         IN  /\ last \in Seq(S)
             /\ Len(last) = IF Len(seq) > limit THEN limit ELSE Len(seq)
             /\ \A k \in 1 .. Len(last) : last[k] = seq[Len(seq) - Len(last) + k]
<1>1. CASE Len(seq) > limit
  <2> DEFINE m == Len(seq) - limit + 1
  <2>1. m \in Int /\ Len(seq) \in Int /\ m >= 1
    BY <1>1
  <2>2. \A i \in m .. Len(seq) : seq[i] \in S
    BY <2>1
  <2>3. /\ SubSeq(seq, m, Len(seq)) \in Seq(S)
        /\ Len(SubSeq(seq, m, Len(seq))) = IF m <= Len(seq) THEN Len(seq) - m + 1 ELSE 0
        /\ \A i \in 1 .. Len(seq) - m + 1 : SubSeq(seq, m, Len(seq))[i] = seq[m + i - 1]
    <3> HIDE DEF m
    <3> QED BY <2>1, <2>2, SubSeqProperties
  <2>4. Chat!LastOf(seq, limit) = SubSeq(seq, m, Len(seq))
    BY <1>1 DEF Chat!LastOf
  <2> QED BY <1>1, <2>1, <2>3, <2>4
<1>2. CASE ~(Len(seq) > limit)
  BY <1>2 DEF Chat!LastOf
<1> QED BY <1>1, <1>2

\* What is after a cursor is exactly the entries with a later one, in their order.
LEMMA AfterFacts ==
  ASSUME NEW C, NEW limit \in Nat, NEW l \in LogOf(C), Chat!Contiguous(l, limit),
         NEW after \in Int, after >= -1, after < l.next
  PROVE  LET given == Chat!After(l, after)
         IN  /\ given \in Seq(LogEntry(C))
             /\ Len(given) <= l.next - 1 - after
             /\ \A k \in 1 .. Len(given) : /\ given[k] \in Entries(l)
                                           /\ given[k].cursor = l.next - 1 - Len(given) + k
             /\ \A e \in Entries(l) : e.cursor > after => \E k \in 1 .. Len(given) : given[k] = e
<1> DEFINE n == Len(l.entries)
           given == Chat!After(l, after)
           left == l.next - 1 - after
<1>1. /\ l.next \in Nat \ {0} /\ l.entries \in Seq(LogEntry(C)) /\ n \in Nat
      /\ Chat!Latest(l) = l.next - 1
      /\ \A k \in 1 .. n : l.entries[k] \in Entries(l) /\ l.entries[k].cursor = l.next - n + k - 1
  BY LogFacts DEF LogSound, LogOf
<1>2. left \in Nat
  BY <1>1
<1>3. given = Chat!LastOf(l.entries, left)
  BY <1>1 DEF Chat!After
<1>4. /\ given \in Seq(LogEntry(C))
      /\ Len(given) = IF n > left THEN left ELSE n
      /\ \A k \in 1 .. Len(given) : given[k] = l.entries[n - Len(given) + k]
  <2> HIDE DEF left, given
  <2> QED BY ZenonT(60), <1>1, <1>2, <1>3, LastOfSeq
<1>9. DOMAIN l.entries = 1 .. n
  BY <1>1
<1> DEFINE g == Len(given)
<1>8. g \in Nat /\ g <= n /\ g <= left /\ (g = left \/ g = n) /\ left = l.next - 1 - after
  BY <1>1, <1>2, <1>4
<1>10. n < l.next
  <2>1. CASE n = 0
    BY <1>1, <2>1
  <2>2. CASE n # 0
    <3>1. l.entries[1] \in LogEntry(C) /\ l.entries[1].cursor = l.next - n
      BY <1>1, <2>2
    <3> QED BY <1>1, <3>1 DEF LogEntry
  <2> QED BY <2>1, <2>2
<1> HIDE DEF n, given, left, g
<1>5. ASSUME NEW k \in 1 .. g
      PROVE  given[k] \in Entries(l) /\ given[k].cursor = l.next - 1 - g + k
  <2>1. n - g + k \in 1 .. n
    <3>1. n \in Nat /\ g \in Nat /\ g <= n
      BY <1>1, <1>8
    <3> QED BY <3>1
  <2>2. given[k] = l.entries[n - g + k]
    BY <1>4 DEF g
  <2>3. l.next - n + (n - g + k) - 1 = l.next - 1 - g + k
    BY <1>1, <1>8
  <2> QED BY <1>1, <2>1, <2>2, <2>3
<1>6. ASSUME NEW e \in Entries(l), e.cursor > after  PROVE \E k \in 1 .. g : given[k] = e
  <2>1. PICK i \in 1 .. n : e = l.entries[i]
    BY <1>9 DEF Entries
  <2>2. e.cursor = l.next - n + i - 1
    BY <1>1, <2>1
  <2>3. i - n + g \in 1 .. g
    BY <1>1, <1>6, <1>8, <2>2
  <2>4. given[i - n + g] = l.entries[n - g + (i - n + g)]
    BY <1>4, <2>3 DEF g
  <2>5. n - g + (i - n + g) = i
    BY <1>1, <1>8
  <2> QED BY <2>1, <2>3, <2>4, <2>5
<1> QED BY <1>4, <1>5, <1>6, <1>8 DEF g, given, left

\* A log with one entry more has that entry at the next cursor, and of the others
\* all that the limit leaves room for.
LEMMA AppendedFacts ==
  ASSUME NEW C, NEW limit \in Nat \ {0}, NEW l \in LogOf(C), Chat!Contiguous(l, limit),
         NEW content \in C
  PROVE  LET new == Chat!Appended(l, content, limit)
             entry == [cursor |-> l.next, content |-> content]
         IN  /\ new \in LogOf(C) /\ Chat!Contiguous(new, limit)
             /\ new.next = l.next + 1
             /\ entry \in Entries(new) /\ Chat!Last(new.entries) = entry
             /\ Entries(new) \subseteq Entries(l) \cup {entry}
             /\ \A e \in Entries(l) : e \in Entries(new) \/ e.cursor < Chat!Oldest(new)
<1> DEFINE n == Len(l.entries)
           entry == [cursor |-> l.next, content |-> content]
           more == Append(l.entries, entry)
           new == Chat!Appended(l, content, limit)
           m == Len(new.entries)
<1>1. /\ l.next \in Nat \ {0} /\ l.entries \in Seq(LogEntry(C)) /\ n \in 0 .. limit
      /\ \A k \in 1 .. n : l.entries[k] \in Entries(l) /\ l.entries[k].cursor = l.next - n + k - 1
  BY LogFacts DEF LogSound, LogOf
<1>2. /\ entry \in LogEntry(C) /\ entry.cursor = l.next
      /\ more \in Seq(LogEntry(C)) /\ Len(more) = n + 1 /\ more[n + 1] = entry
      /\ limit \in Nat
      /\ \A k \in 1 .. n : more[k] = l.entries[k]
  BY <1>1 DEF LogEntry
<1>3. new = [next |-> l.next + 1, entries |-> Chat!LastOf(more, limit)]
  BY DEF Chat!Appended
<1>12. DOMAIN l.entries = 1 .. n
  BY <1>1
<1> HIDE DEF n, more, new, entry
<1>4. /\ new.next = l.next + 1 /\ new.entries \in Seq(LogEntry(C))
      /\ m = IF n + 1 > limit THEN limit ELSE n + 1
      /\ \A k \in 1 .. m : new.entries[k] = more[n + 1 - m + k]
  <2>1. Chat!LastOf(more, limit) = new.entries /\ new.next = l.next + 1
    BY <1>3
  <2>2. /\ Chat!LastOf(more, limit) \in Seq(LogEntry(C))
        /\ Len(Chat!LastOf(more, limit)) = IF Len(more) > limit THEN limit ELSE Len(more)
        /\ \A k \in 1 .. Len(Chat!LastOf(more, limit)) :
             Chat!LastOf(more, limit)[k] = more[Len(more) - Len(Chat!LastOf(more, limit)) + k]
    BY <1>2, LastOfSeq
  <2>3. /\ new.entries \in Seq(LogEntry(C))
        /\ m = IF Len(more) > limit THEN limit ELSE Len(more)
        /\ \A k \in 1 .. m : new.entries[k] = more[Len(more) - m + k]
    BY <2>1, <2>2
  <2>4. m \in Nat
    BY <2>3
  <2> HIDE DEF m
  <2> QED BY <1>1, <1>2, <2>1, <2>3, <2>4
<1>13. DOMAIN new.entries = 1 .. m /\ m \in Nat
  BY <1>4
<1> HIDE DEF m
<1>5. m \in 1 .. limit /\ m <= n + 1 /\ m \in Nat
  BY <1>1, <1>4
<1>6. new \in LogOf(C)
  BY <1>1, <1>3, <1>4 DEF LogOf
<1>7. \A k \in 1 .. m : more[n + 1 - m + k].cursor = l.next + 1 - m + k - 1
  <2> SUFFICES ASSUME NEW k \in 1 .. m
               PROVE  more[n + 1 - m + k].cursor = l.next + 1 - m + k - 1
    OBVIOUS
  <2>1. CASE k = m
    <3>1. n + 1 - m + k = n + 1 /\ l.next + 1 - m + k - 1 = l.next
      BY <1>1, <1>5, <2>1
    <3> QED BY <1>2, <3>1
  <2>2. CASE k # m
    <3>1. n + 1 - m + k \in 1 .. n
      BY <1>1, <1>5, <2>2
    <3>2. l.entries[n + 1 - m + k].cursor = l.next - n + (n + 1 - m + k) - 1
      BY <1>1, <3>1
    <3>3. l.next - n + (n + 1 - m + k) - 1 = l.next + 1 - m + k - 1
      BY <1>1, <1>5
    <3> QED BY <1>2, <3>1, <3>2, <3>3
  <2> QED BY <2>1, <2>2
<1>8. Chat!Contiguous(new, limit)
  <2>1. new.entries # <<>>
    BY <1>5, <1>13
  <2>2. ASSUME NEW k \in 1 .. m  PROVE new.entries[k].cursor = new.next - m + k - 1
    <3>1. new.entries[k] = more[n + 1 - m + k] /\ new.next = l.next + 1
      BY <1>4 DEF m
    <3>2. more[n + 1 - m + k].cursor = l.next + 1 - m + k - 1
      BY <1>7
    <3> QED BY <1>1, <1>5, <3>1, <3>2
  <2> QED BY <1>5, <1>13, <2>1, <2>2 DEF Chat!Contiguous, m
<1>9. Chat!Last(new.entries) = entry /\ entry \in Entries(new)
  <2>1. m \in 1 .. m /\ n + 1 - m + m = n + 1 
    BY <1>1, <1>5
  <2>2. new.entries[m] = entry
    BY <1>2, <1>4, <2>1
  <2> QED BY <1>13, <2>1, <2>2 DEF Chat!Last, Entries, m
<1>10. ASSUME NEW e \in Entries(new)  PROVE e \in Entries(l) \cup {entry}
  <2>1. PICK k \in 1 .. m : e = new.entries[k]
    BY <1>13 DEF Entries
  <2>2. e = more[n + 1 - m + k] /\ n + 1 - m + k \in 1 .. n + 1
    BY <1>1, <1>4, <1>5, <2>1
  <2>3. CASE n + 1 - m + k = n + 1
    BY <1>2, <2>2, <2>3
  <2>4. CASE n + 1 - m + k \in 1 .. n
    BY <1>1, <1>2, <2>2, <2>4
  <2> QED BY <1>1, <2>2, <2>3, <2>4
<1>11. ASSUME NEW e \in Entries(l)  PROVE e \in Entries(new) \/ e.cursor < Chat!Oldest(new)
  <2>1. PICK i \in 1 .. n : e = l.entries[i]
    BY <1>12 DEF Entries
  <2>2. e.cursor = l.next - n + i - 1 /\ e = more[i]
    BY <1>1, <1>2, <2>1
  <2>3. Chat!Oldest(new) = l.next + 1 - m
    <3>1. new.entries # <<>>
      BY <1>5, <1>13
    <3>2. limit \in Nat
      BY <1>2
    <3> QED BY <1>4, <1>6, <1>8, <3>1, <3>2, LogFacts DEF LogSound, m
  <2>4. CASE i < n + 2 - m
    BY <1>1, <1>5, <2>2, <2>3, <2>4
  <2>5. CASE i >= n + 2 - m
    <3>1. i - (n + 1 - m) \in 1 .. m /\ n + 1 - m + (i - (n + 1 - m)) = i
      BY <1>1, <1>5, <2>5
    <3>2. new.entries[i - (n + 1 - m)] = e
      BY <1>4, <2>2, <3>1
    <3> QED BY <1>13, <3>1, <3>2 DEF Entries
  <2> QED BY <1>1, <1>5, <2>4, <2>5
<1> QED BY <1>4, <1>6, <1>8, <1>9, <1>10, <1>11 DEF new, entry

-----------------------------------------------------------------------------
(* The chat of a project (AgentChat). *)

\* Nothing keeps two processes on one chat file apart: what is stated of the chat
\* holds while a single process serves the project.
OneProcess == \A p, q \in Processes : p = q

LEMMA ChatAssumed ==
  {HistoryLimit, MaxPosts} \subseteq Nat \ {0} /\ MaxChatFaults \in Nat
BY PartsAssumption DEF Chat!ChatAssumption

Contents == 0 .. MaxPosts

ReaderRecord ==
  [after : Int, got : SUBSET ((1 .. MaxPosts + 1) \X Contents), missed : SUBSET Nat]

\* A copy of the log, stored or in memory, holds what was accepted, and nobody has
\* read or heard of more.
Kept(l) ==
  /\ l \in LogOf(Contents) /\ Chat!Contiguous(l, HistoryLimit)
  /\ l.next <= posts + 2
  /\ \A m \in accepted : /\ m[1] \in 1 .. (l.next - 1)
                         /\ \A e \in Entries(l) : e.cursor = m[1] => e.content = m[2]
  /\ \A r \in Readers : readers[r].after \in -1 .. (l.next - 1)
  /\ \A notice \in notices : notice[2] \in 1 .. (l.next - 1)

ChatInv ==
  /\ log = [version |-> log.version, log |-> log.log] /\ log.version \in {2, 3}
  /\ DOMAIN cache = Processes /\ cache = [p \in Processes |-> cache[p]]
  /\ posts \in Contents /\ chatFaults \in 0 .. MaxChatFaults
  /\ accepted \subseteq (1 .. MaxPosts + 1) \X Contents
  /\ readers \in [Readers -> ReaderRecord]
  /\ subscribed \subseteq Readers
  /\ notices \subseteq Readers \X (1 .. MaxPosts + 1)
  /\ Kept(log.log)
  /\ \A p \in Processes : cache[p] # NoState => Kept(cache[p]) /\ cache[p].next <= log.log.next
  /\ Chat!NothingMissed

LEMMA EmptyLogOf ==
  ASSUME NEW C, NEW limit \in Nat
  PROVE  /\ Chat!EmptyLog \in LogOf(C) /\ Chat!Contiguous(Chat!EmptyLog, limit)
         /\ Chat!EmptyLog.next = 1 /\ Entries(Chat!EmptyLog) = {}
BY DEF Chat!EmptyLog, LogOf, Chat!Contiguous, Entries

LEMMA FirstAppended ==
  ASSUME NEW C, NEW limit \in Nat \ {0}, NEW empty \in LogOf(C), Chat!Contiguous(empty, limit),
         NEW content \in C
  PROVE  /\ Chat!Appended(empty, content, limit) \in LogOf(C)
         /\ Chat!Contiguous(Chat!Appended(empty, content, limit), limit)
         /\ Chat!Appended(empty, content, limit).next = empty.next + 1
<1> DEFINE new == Chat!Appended(empty, content, limit)
<1>1. /\ new \in LogOf(C) /\ Chat!Contiguous(new, limit) /\ new.next = empty.next + 1
      /\ [cursor |-> empty.next, content |-> content] \in Entries(new)
  BY AppendedFacts
<1> QED BY <1>1

LEMMA ChatInitial ==
  ASSUME Chat!Init
  PROVE  ChatInv
<1> DEFINE first == log.log
<1>1. /\ HistoryLimit \in Nat \ {0} /\ HistoryLimit \in Nat /\ MaxPosts \in Nat \ {0}
      /\ MaxChatFaults \in Nat /\ 0 \in Contents
  BY ChatAssumed DEF Contents
<1>2. /\ posts = 0 /\ subscribed = {} /\ notices = {} /\ chatFaults = 0
      /\ readers = [r \in Readers |-> Chat!NewReader]
      /\ cache = [p \in Processes |-> NoState]
      /\ accepted = {Chat!Message(log.log.entries[k]) : k \in DOMAIN log.log.entries}
      /\ log \in {Chat!Stored(Chat!EmptyLog), Chat!Legacy}
  BY DEF Chat!Init
<1>3. /\ Chat!EmptyLog \in LogOf(Contents) /\ Chat!Contiguous(Chat!EmptyLog, HistoryLimit)
      /\ Chat!EmptyLog.next = 1 /\ Entries(Chat!EmptyLog) = {}
  BY <1>1, EmptyLogOf
<1>4. /\ log = [version |-> log.version, log |-> first] /\ log.version \in {2, 3}
      /\ first \in {Chat!EmptyLog, Chat!Appended(Chat!EmptyLog, 0, HistoryLimit)}
  BY <1>2 DEF Chat!Stored, Chat!Legacy, Chat!Current
<1> HIDE DEF first
<1>5. /\ first \in LogOf(Contents) /\ Chat!Contiguous(first, HistoryLimit)
      /\ first.next \in {1, 2}
  <2> DEFINE new == Chat!Appended(Chat!EmptyLog, 0, HistoryLimit)
  <2>1. /\ new \in LogOf(Contents) /\ Chat!Contiguous(new, HistoryLimit)
        /\ new.next = Chat!EmptyLog.next + 1
    <3>1. /\ Chat!EmptyLog \in LogOf(Contents) /\ Chat!Contiguous(Chat!EmptyLog, HistoryLimit)
          /\ HistoryLimit \in Nat \ {0} /\ 0 \in Contents
      BY <1>1, <1>3
    <3> QED BY <3>1, FirstAppended
  <2> HIDE DEF new
  <2>2. first \in {Chat!EmptyLog, new}
    BY <1>4 DEF new
  <2> QED BY <1>3, <2>1, <2>2
<1>6. accepted = {Chat!Message(e) : e \in Entries(first)}
  BY <1>2 DEF Entries, first
<1>7. \A e \in Entries(first) :
        e \in LogEntry(Contents) /\ e.cursor \in Nat /\ e.cursor < first.next
  <2>1. \A e \in Entries(first) :
          e \in LogEntry(Contents) /\ e.cursor \in Chat!Oldest(first) .. (first.next - 1)
    BY <1>1, <1>5, LogFacts DEF LogSound
  <2> QED BY <1>5, <2>1 DEF LogEntry
<1>8. \A e, f \in Entries(first) : e.cursor = f.cursor => e = f
  BY <1>1, <1>5, LogFacts DEF LogSound
<1>9. ASSUME NEW m \in accepted
      PROVE  \E e \in Entries(first) :
               /\ m = <<e.cursor, e.content>> /\ m[1] = e.cursor /\ m[2] = e.content
               /\ e.cursor \in 1 .. MaxPosts + 1 /\ e.content \in Contents /\ e.cursor < first.next
  <2>1. PICK e \in Entries(first) : m = <<e.cursor, e.content>>
    BY <1>6 DEF Chat!Message
  <2>2. e.cursor \in Nat \ {0} /\ e.content \in Contents /\ e.cursor < first.next
    BY <1>7 DEF LogEntry
  <2>3. e.cursor \in 1 .. MaxPosts + 1
    BY <1>1, <1>5, <2>2
  <2> QED BY <2>1, <2>2, <2>3
<1>10. accepted \subseteq (1 .. MaxPosts + 1) \X Contents
  BY <1>9
<1>11. readers \in [Readers -> ReaderRecord] /\ \A r \in Readers : readers[r].after = -1
  BY <1>2 DEF Chat!NewReader, ReaderRecord
<1>12. Kept(first)
  <2>1. \A m \in accepted : m[1] \in 1 .. (first.next - 1)
                            /\ \A e \in Entries(first) : e.cursor = m[1] => e.content = m[2]
    <3> SUFFICES ASSUME NEW m \in accepted
                 PROVE  m[1] \in 1 .. (first.next - 1)
                        /\ \A e \in Entries(first) : e.cursor = m[1] => e.content = m[2]
      OBVIOUS
    <3>1. PICK e \in Entries(first) :
               /\ m[1] = e.cursor /\ m[2] = e.content
               /\ e.cursor \in 1 .. MaxPosts + 1 /\ e.cursor < first.next
      BY <1>9
    <3>2. m[1] \in 1 .. (first.next - 1)
      BY <1>1, <1>5, <3>1
    <3> QED BY <1>8, <3>1, <3>2
  <2>2. \A r \in Readers : readers[r].after \in -1 .. (first.next - 1)
    BY <1>5, <1>11
  <2> QED BY <1>2, <1>5, <2>1, <2>2 DEF Kept
<1>13. Chat!NothingMissed
  <2>1. \A m, n \in accepted : m[1] = n[1] => m = n
    BY <1>8, <1>9
  <2>2. \A r \in Readers : \A m \in accepted : ~(m[1] <= readers[r].after)
    <3> SUFFICES ASSUME NEW r \in Readers, NEW m \in accepted, m[1] <= readers[r].after  PROVE FALSE
      OBVIOUS
    <3>1. m[1] \in 1 .. MaxPosts + 1 /\ readers[r].after = -1
      BY <1>9, <1>11
    <3> QED BY <1>1, <3>1
  <2> QED BY <2>1, <2>2 DEF Chat!NothingMissed
<1>14. posts \in Contents /\ chatFaults \in 0 .. MaxChatFaults
  BY <1>1, <1>2
<1> QED BY <1>2, <1>4, <1>10, <1>11, <1>12, <1>13, <1>14 DEF ChatInv, first

\* What only forgets what is under way, or reads no more than there is, leaves a
\* copy as good as it was.
LEMMA KeptStays ==
  ASSUME NEW l, Kept(l), posts \in Nat, posts' \in {posts, posts + 1}, accepted' = accepted,
         notices' \subseteq notices,
         \A r \in Readers : readers'[r].after \in -1 .. (l.next - 1)
  PROVE  Kept(l)'
BY DEF Kept, LogOf

LEMMA AppendKept ==
  ASSUME NEW l, Kept(l), posts \in Nat, posts + 1 \in Contents, posts' = posts + 1,
         NEW new, new = Chat!Appended(l, posts + 1, HistoryLimit),
         accepted' \subseteq accepted \cup {<<l.next, posts + 1>>},
         readers' = readers,
         notices' \subseteq notices \cup (Readers \X {l.next})
  PROVE  Kept(new)' /\ new.next = l.next + 1 /\ Chat!Message(Chat!Last(new.entries)) = <<l.next, posts + 1>>
<1> DEFINE entry == [cursor |-> l.next, content |-> posts + 1]
<1>1. HistoryLimit \in Nat \ {0} /\ HistoryLimit \in Nat
  BY ChatAssumed
<1>2. /\ l \in LogOf(Contents) /\ Chat!Contiguous(l, HistoryLimit) /\ l.next \in Nat /\ l.next <= posts + 2
  BY DEF Kept, LogOf
<1>3. /\ new \in LogOf(Contents) /\ Chat!Contiguous(new, HistoryLimit)
      /\ new.next = l.next + 1
      /\ entry \in Entries(new) /\ Chat!Last(new.entries) = entry
      /\ Entries(new) \subseteq Entries(l) \cup {entry}
  BY <1>1, <1>2, AppendedFacts
<1>4. \A e \in Entries(l) : e.cursor < l.next /\ e.cursor \in Int
  <2>1. \A e \in Entries(l) : e \in LogEntry(Contents) /\ e.cursor \in Chat!Oldest(l) .. (l.next - 1)
    BY <1>1, <1>2, LogFacts DEF LogSound
  <2> QED BY <1>2, <2>1
<1>5. entry.cursor = l.next /\ entry.content = posts + 1
  OBVIOUS
<1> HIDE DEF entry
<1>6. ASSUME NEW m \in accepted'
      PROVE  /\ m[1] \in 1 .. (new.next - 1)
             /\ \A e \in Entries(new) : e.cursor = m[1] => e.content = m[2]
  <2>1. CASE m \in accepted
    <3>1. m[1] \in 1 .. (l.next - 1) /\ \A e \in Entries(l) : e.cursor = m[1] => e.content = m[2]
      BY <2>1 DEF Kept
    <3>2. m[1] # l.next
      BY <1>2, <3>1
    <3>3. m[1] \in 1 .. (new.next - 1)
      BY <1>2, <1>3, <3>1
    <3> QED BY <1>3, <1>5, <3>1, <3>2, <3>3
  <2>2. CASE m = <<l.next, posts + 1>>
    <3>1. m[1] = l.next /\ m[2] = posts + 1
      BY <2>2
    <3>2. \A e \in Entries(l) : e.cursor # l.next
      BY <1>2, <1>4
    <3>4. l.next >= 1
      BY <1>2 DEF LogOf
    <3>3. m[1] \in 1 .. (new.next - 1)
      BY <1>2, <1>3, <3>1, <3>4
    <3> QED BY <1>3, <1>5, <3>1, <3>2, <3>3
  <2> QED BY <2>1, <2>2
<1>7. \A r \in Readers : readers'[r].after \in -1 .. (new.next - 1)
  BY <1>2, <1>3 DEF Kept
<1>8. ASSUME NEW notice \in notices'  PROVE notice[2] \in 1 .. (new.next - 1)
  <2>1. CASE notice \in notices
    <3>1. notice[2] \in 1 .. (l.next - 1)
      BY <2>1 DEF Kept
    <3> QED BY <1>2, <1>3, <3>1
  <2>2. CASE notice \in Readers \X {l.next}
    <3>1. notice[2] = l.next /\ l.next >= 1
      BY <1>2, <2>2 DEF LogOf
    <3> QED BY <1>2, <1>3, <3>1
  <2> QED BY <2>1, <2>2
<1>9. new.next <= posts' + 2
  BY <1>2, <1>3
<1>10. Kept(new)'
  BY <1>3, <1>6, <1>7, <1>8, <1>9 DEF Kept
<1> QED BY <1>3, <1>5, <1>10 DEF Chat!Message

LEMMA LoadKeeps ==
  ASSUME ChatInv, NEW p \in Processes, Chat!loadState(p)
  PROVE  ChatInv'
<1>1. /\ cache[p] = NoState /\ cache' = [cache EXCEPT ![p] = log.log]
      /\ log' = [version |-> 3, log |-> log.log]
      /\ UNCHANGED <<posts, accepted, readers, subscribed, notices, chatFaults>>
  BY DEF Chat!loadState, Chat!Stored, Chat!Current
<1>2. PICK l : l = log.log
  OBVIOUS
<1>3. log'.log = l /\ log' = [version |-> log'.version, log |-> log'.log] /\ log'.version \in {2, 3}
  BY <1>1, <1>2
<1>4. Kept(l) /\ l.next \in Nat
  BY <1>2 DEF ChatInv, Kept, LogOf
<1>5. Kept(l)'
  BY <1>1, <1>4 DEF Kept
<1>6. ASSUME NEW q \in Processes, cache'[q] # NoState
      PROVE  Kept(cache[q])' /\ cache'[q].next <= log'.log.next
  <2>1. CASE q = p
    <3>1. cache'[q] = l
      BY <1>1, <1>2, <2>1 DEF ChatInv
    <3> QED BY <1>3, <1>4, <1>5, <3>1
  <2>2. CASE q # p
    <3>1. cache'[q] = cache[q]
      BY <1>1, <2>2 DEF ChatInv
    <3>2. Kept(cache[q]) /\ cache[q].next <= l.next
      BY <1>2, <1>6, <3>1 DEF ChatInv
    <3> QED BY <1>1, <1>3, <3>1, <3>2 DEF Kept
  <2> QED BY <2>1, <2>2
<1>7. DOMAIN cache' = Processes /\ cache' = [q \in Processes |-> cache'[q]]
  BY <1>1 DEF ChatInv
<1>8. Kept(log.log)'
  BY <1>3, <1>5
<1>9. Chat!NothingMissed'
  BY <1>1 DEF ChatInv, Chat!NothingMissed
<1> QED BY <1>1, <1>3, <1>6, <1>7, <1>8, <1>9 DEF ChatInv

\* Of the steps that write: what is common to a post and to a post that fails.
LEMMA PostingFacts ==
  ASSUME ChatInv, NEW p \in Processes, cache[p] # NoState, posts < MaxPosts
  PROVE  /\ posts \in Nat /\ posts + 1 \in Contents /\ Kept(cache[p])
         /\ cache[p].next \in Nat \ {0} /\ cache[p].next <= posts + 2 /\ cache[p].next <= MaxPosts + 1
<1>1. MaxPosts \in Nat /\ posts \in 0 .. MaxPosts
  BY ChatAssumed DEF ChatInv, Contents
<1>2. Kept(cache[p])
  BY DEF ChatInv
<1>3. cache[p].next \in Nat \ {0} /\ cache[p].next <= posts + 2
  BY <1>2 DEF Kept, LogOf
<1>4. posts \in Nat /\ posts + 1 \in 0 .. MaxPosts
  BY <1>1
<1> QED BY <1>1, <1>2, <1>3, <1>4 DEF Contents

LEMMA PostKeeps ==
  ASSUME OneProcess, ChatInv, NEW p \in Processes, NEW r \in Readers, Chat!post(p, r)
  PROVE  ChatInv'
<1>1. PICK l : l = cache[p]
  OBVIOUS
<1>2. PICK new : new = Chat!Appended(l, posts + 1, HistoryLimit)
  OBVIOUS
<1>3. /\ l # NoState /\ posts < MaxPosts /\ posts' = posts + 1
      /\ log' = [version |-> 3, log |-> new] /\ cache' = [cache EXCEPT ![p] = new]
      /\ accepted' = accepted \cup {Chat!Message(Chat!Last(new.entries))}
      /\ notices' = notices \cup Chat!dispatch(r, l.next)
      /\ UNCHANGED <<readers, subscribed, chatFaults>>
  BY <1>1, <1>2 DEF Chat!post, Chat!Stored, Chat!Current
<1>4. /\ posts \in Nat /\ posts + 1 \in Contents /\ Kept(l)
      /\ l.next \in Nat \ {0} /\ l.next <= MaxPosts + 1
  BY <1>1, <1>3, PostingFacts
<1>5. notices' \subseteq notices \cup (Readers \X {l.next})
  BY <1>3 DEF ChatInv, Chat!dispatch
<1>6. /\ Chat!Appended(l, posts + 1, HistoryLimit) \in LogOf(Contents)
      /\ new.next = l.next + 1 /\ [cursor |-> l.next, content |-> posts + 1] = Chat!Last(new.entries)
  <2>1. HistoryLimit \in Nat \ {0} /\ l \in LogOf(Contents) /\ Chat!Contiguous(l, HistoryLimit)
    BY <1>4, ChatAssumed DEF Kept
  <2> DEFINE entry == [cursor |-> l.next, content |-> posts + 1]
  <2>2. /\ new \in LogOf(Contents) /\ new.next = l.next + 1
        /\ entry \in Entries(new) /\ entry = Chat!Last(new.entries)
    BY <1>2, <1>4, <2>1, AppendedFacts
  <2> QED BY <1>2, <2>2
<1>7. Chat!Message(Chat!Last(new.entries)) = <<l.next, posts + 1>>
  BY <1>6 DEF Chat!Message
<1>8. accepted' = accepted \cup {<<l.next, posts + 1>>}
  BY <1>3, <1>7
<1>9. Kept(new)'
  <2>1. accepted' \subseteq accepted \cup {<<l.next, posts + 1>>} /\ readers' = readers
    BY <1>3, <1>8
  <2> QED BY <1>2, <1>3, <1>4, <1>5, <2>1, AppendKept
<1>10. /\ log'.log = new /\ log' = [version |-> log'.version, log |-> log'.log] /\ log'.version \in {2, 3}
  BY <1>3
<1>11. /\ DOMAIN cache' = Processes /\ cache' = [q \in Processes |-> cache'[q]]
       /\ \A q \in Processes : cache'[q] = new
  BY <1>3 DEF ChatInv, OneProcess
<1>12. accepted' \subseteq (1 .. MaxPosts + 1) \X Contents
  <2>1. l.next \in 1 .. MaxPosts + 1
    BY <1>4, ChatAssumed
  <2> QED BY <1>4, <1>8, <2>1 DEF ChatInv
<1>13. notices' \subseteq Readers \X (1 .. MaxPosts + 1)
  <2>1. l.next \in 1 .. MaxPosts + 1
    BY <1>4, ChatAssumed
  <2> QED BY <1>5, <2>1 DEF ChatInv
<1>14. Chat!NothingMissed'
  <2>1. \A m \in accepted : m[1] # l.next
    BY <1>4 DEF Kept
  <2>2. \A m, n \in accepted' : m[1] = n[1] => m = n
    BY <1>8, <2>1 DEF ChatInv, Chat!NothingMissed
  <2>3. ASSUME NEW x \in Readers, NEW m \in accepted', m[1] <= readers'[x].after
        PROVE  m \in readers'[x].got \/ m[1] \in readers'[x].missed
    <3>1. readers' = readers
      BY <1>3
    <3>2. CASE m \in accepted
      BY <2>3, <3>1, <3>2 DEF ChatInv, Chat!NothingMissed
    <3>3. CASE m = <<l.next, posts + 1>>
      <4>1. readers[x].after \in -1 .. (l.next - 1) /\ m[1] = l.next
        BY <1>4, <3>3 DEF Kept
      <4> QED BY <1>4, <2>3, <3>1, <4>1
    <3> QED BY <1>8, <3>2, <3>3
  <2> QED BY <2>2, <2>3 DEF Chat!NothingMissed
<1>15. posts' \in Contents
  BY <1>3, <1>4
<1>16. new.next <= new.next
  BY <1>4, <1>6
<1>17. Kept(log.log)' /\ \A q \in Processes : Kept(cache[q])' /\ cache'[q].next <= log'.log.next
  BY <1>9, <1>10, <1>11, <1>16
<1>18. chatFaults' \in 0 .. MaxChatFaults /\ readers' \in [Readers -> ReaderRecord] /\ subscribed' \subseteq Readers
  BY <1>3 DEF ChatInv
<1> QED BY <1>10, <1>11, <1>12, <1>13, <1>14, <1>15, <1>17, <1>18 DEF ChatInv

LEMMA PostFailsKeeps ==
  ASSUME OneProcess, ChatInv, NEW p \in Processes, Chat!postFails(p)
  PROVE  ChatInv'
<1>1. PICK l : l = cache[p]
  OBVIOUS
<1>2. PICK new : new = Chat!Appended(l, posts + 1, HistoryLimit)
  OBVIOUS
<1>3. /\ l # NoState /\ posts < MaxPosts /\ posts' = posts + 1
      /\ chatFaults < MaxChatFaults /\ chatFaults' = chatFaults + 1
      /\ log' = log \/ log' = [version |-> 3, log |-> new]
      /\ UNCHANGED <<cache, accepted, readers, subscribed, notices>>
  BY <1>1, <1>2 DEF Chat!postFails, Chat!Stored, Chat!Current
<1>4. /\ posts \in Nat /\ posts + 1 \in Contents /\ Kept(l) /\ l.next \in Nat \ {0}
  BY <1>1, <1>3, PostingFacts
<1>5. Kept(new)' /\ new.next = l.next + 1
  <2>1. /\ accepted' \subseteq accepted \cup {<<l.next, posts + 1>>} /\ readers' = readers
        /\ notices' \subseteq notices \cup (Readers \X {l.next})
    BY <1>3
  <2> QED BY <1>2, <1>3, <1>4, <2>1, AppendKept
<1>6. ASSUME NEW k, Kept(k)  PROVE Kept(k)'
  <2>1. k.next \in Nat /\ k.next <= posts + 2
    BY <1>6 DEF Kept, LogOf
  <2>2. k.next <= posts' + 2
    BY <1>3, <1>4, <2>1
  <2> QED BY <1>3, <1>6, <2>2 DEF Kept
<1>7. PICK before : before = log.log
  OBVIOUS
<1>8. Kept(before) /\ before.next \in Nat /\ l.next <= before.next
  BY <1>1, <1>3, <1>7 DEF ChatInv, Kept, LogOf
<1>9. /\ log' = [version |-> log'.version, log |-> log'.log] /\ log'.version \in {2, 3}
      /\ log'.log \in {before, new}
  BY <1>3, <1>7 DEF ChatInv
<1>10. Kept(log.log)' /\ l.next <= log'.log.next
  BY <1>4, <1>5, <1>6, <1>8, <1>9
<1>11. ASSUME NEW q \in Processes, cache'[q] # NoState
       PROVE  Kept(cache[q])' /\ cache'[q].next <= log'.log.next
  <2>1. cache'[q] = l
    BY <1>1, <1>3 DEF OneProcess
  <2> QED BY <1>4, <1>6, <1>10, <2>1
<1>12. Chat!NothingMissed'
  BY <1>3 DEF ChatInv, Chat!NothingMissed
<1>13. posts' \in Contents /\ chatFaults' \in 0 .. MaxChatFaults
  BY <1>3, <1>4, ChatAssumed DEF ChatInv
<1> QED BY <1>3, <1>9, <1>10, <1>11, <1>12, <1>13 DEF ChatInv

LEMMA RestartKeeps ==
  ASSUME ChatInv, NEW p \in Processes, Chat!restart(p)
  PROVE  ChatInv'
<1>1. /\ cache' = [cache EXCEPT ![p] = NoState] /\ subscribed' = {} /\ notices' = {}
      /\ chatFaults < MaxChatFaults /\ chatFaults' = chatFaults + 1
      /\ UNCHANGED <<log, posts, accepted, readers>>
  BY DEF Chat!restart
<1>2. ASSUME NEW k, Kept(k)  PROVE Kept(k)'
  BY <1>1, <1>2 DEF Kept
<1>3. Kept(log.log)'
  <2>1. PICK l : l = log.log
    OBVIOUS
  <2> QED BY <1>1, <1>2, <2>1 DEF ChatInv
<1>4. ASSUME NEW q \in Processes, cache'[q] # NoState
      PROVE  Kept(cache[q])' /\ cache'[q].next <= log'.log.next
  <2>1. PICK l : l = cache[q]
    OBVIOUS
  <2>2. cache'[q] = l
    BY <1>1, <1>4, <2>1 DEF ChatInv
  <2> QED BY <1>1, <1>2, <1>4, <2>1, <2>2 DEF ChatInv
<1>5. DOMAIN cache' = Processes /\ cache' = [q \in Processes |-> cache'[q]]
  BY <1>1 DEF ChatInv
<1>6. chatFaults' \in 0 .. MaxChatFaults
  BY <1>1, ChatAssumed DEF ChatInv
<1>7. Chat!NothingMissed'
  BY <1>1 DEF ChatInv, Chat!NothingMissed
<1> QED BY <1>1, <1>3, <1>4, <1>5, <1>6, <1>7 DEF ChatInv

LEMMA ReadKeeps ==
  ASSUME OneProcess, ChatInv, NEW p \in Processes, NEW r \in Readers, Chat!read(p, r)
  PROVE  ChatInv'
<1> DEFINE l == cache[p]
           after == readers[r].after
           given == Chat!After(l, after)
           told == IF after = -1 THEN 1 .. (Chat!Oldest(l) - 1)
                   ELSE IF Chat!Gap(l, after) THEN (after + 1) .. (Chat!Oldest(l) - 1) ELSE {}
           got == {Chat!Message(given[k]) : k \in DOMAIN given}
<1>1. /\ l # NoState
      /\ readers' = [readers EXCEPT ![r] =
           [after |-> Chat!Latest(l), got |-> @.got \cup got, missed |-> @.missed \cup told]]
      /\ UNCHANGED <<log, cache, posts, accepted, subscribed, notices, chatFaults>>
  BY DEF Chat!read
<1>2. PICK b : b = readers[r]
  OBVIOUS
<1>3. b \in ReaderRecord /\ b.after = after
  BY <1>2 DEF ChatInv
<1>4. readers' = [readers EXCEPT ![r] =
        [after |-> Chat!Latest(l), got |-> b.got \cup got, missed |-> b.missed \cup told]]
  BY <1>1, <1>2
<1>5. Kept(l) /\ l.next <= log.log.next /\ log.log.next \in Nat
  BY <1>1 DEF ChatInv, Kept, LogOf
<1>6. /\ l \in LogOf(Contents) /\ Chat!Contiguous(l, HistoryLimit) /\ HistoryLimit \in Nat
      /\ l.next \in Nat \ {0} /\ l.next <= posts + 2 /\ posts \in 0 .. MaxPosts /\ MaxPosts \in Nat
      /\ after \in -1 .. (l.next - 1)
  BY <1>5, ChatAssumed DEF Kept, LogOf, ChatInv, Contents
<1>7. /\ Chat!Latest(l) = l.next - 1
      /\ \A e \in Entries(l) : e \in LogEntry(Contents) /\ e.cursor \in Chat!Oldest(l) .. (l.next - 1)
      /\ \A c \in Chat!Oldest(l) .. (l.next - 1) : c > 0 => \E e \in Entries(l) : e.cursor = c
      /\ Chat!Oldest(l) \in 0 .. (l.next - 1) /\ (Chat!Oldest(l) # 0 => l.entries # <<>>)
  <2> HIDE DEF l
  <2>1. /\ Chat!Latest(l) = l.next - 1
        /\ \A e \in Entries(l) : e \in LogEntry(Contents) /\ e.cursor \in Chat!Oldest(l) .. (l.next - 1)
        /\ \A c \in Chat!Oldest(l) .. (l.next - 1) : c > 0 => \E e \in Entries(l) : e.cursor = c
        /\ l.entries # <<>> => Chat!Oldest(l) \in 1 .. (l.next - 1)
        /\ l.entries = <<>> => Chat!Oldest(l) = 0
    BY <1>6, LogFacts DEF LogSound
  <2> QED BY <1>6, <2>1
<1>8. /\ given \in Seq(LogEntry(Contents))
      /\ \A k \in 1 .. Len(given) : given[k] \in Entries(l)
      /\ \A e \in Entries(l) : e.cursor > after => \E k \in 1 .. Len(given) : given[k] = e
  <2>1. after \in Int /\ after >= -1 /\ after < l.next
    BY <1>6
  <2> HIDE DEF l, after
  <2>2. /\ given \in Seq(LogEntry(Contents))
        /\ Len(given) <= l.next - 1 - after
        /\ \A k \in 1 .. Len(given) : /\ given[k] \in Entries(l)
                                      /\ given[k].cursor = l.next - 1 - Len(given) + k
        /\ \A e \in Entries(l) : e.cursor > after => \E k \in 1 .. Len(given) : given[k] = e
    BY <1>6, <2>1, AfterFacts
  <2> HIDE DEF given
  <2> QED BY <2>2
<1>9. DOMAIN given = 1 .. Len(given)
  BY <1>8
<1> HIDE DEF l, after, given
<1>10. got \subseteq (1 .. MaxPosts + 1) \X Contents
  <2> SUFFICES ASSUME NEW k \in 1 .. Len(given)
               PROVE  Chat!Message(given[k]) \in (1 .. MaxPosts + 1) \X Contents
    BY <1>9
  <2>1. given[k] \in LogEntry(Contents) /\ given[k].cursor <= l.next - 1
    BY <1>6, <1>7, <1>8
  <2>2. given[k].cursor \in 1 .. MaxPosts + 1
    BY <1>6, <2>1 DEF LogEntry
  <2> QED BY <2>1, <2>2 DEF Chat!Message, LogEntry
<1>11. told \subseteq Nat
  BY <1>6, <1>7
<1>12. ASSUME NEW m \in accepted, m[1] <= l.next - 1
       PROVE  m \in b.got \cup got \/ m[1] \in b.missed \cup told
  <2>1. m = <<m[1], m[2]>> /\ m[1] \in 1 .. MaxPosts + 1 /\ m[1] \in Nat
    BY DEF ChatInv
  <2>2. CASE m[1] <= after
    BY <1>2, <1>3, <2>2 DEF ChatInv, Chat!NothingMissed
  <2>3. CASE m[1] > after /\ m[1] >= Chat!Oldest(l)
    <3>1. PICK e \in Entries(l) : e.cursor = m[1]
      BY <1>6, <1>7, <1>12, <2>1, <2>3
    <3>2. e.content = m[2]
      BY <1>5, <3>1 DEF Kept
    <3>3. PICK k \in 1 .. Len(given) : given[k] = e
      BY <1>8, <2>3, <3>1
    <3>4. Chat!Message(given[k]) = m
      BY <2>1, <3>1, <3>2, <3>3 DEF Chat!Message
    <3> QED BY <1>9, <3>4
  <2>4. CASE m[1] > after /\ m[1] < Chat!Oldest(l)
    <3>1. Chat!Oldest(l) # 0 /\ after < Chat!Oldest(l) - 1
      BY <1>6, <1>7, <2>1, <2>4
    <3>2. Chat!Gap(l, after)
      BY <1>7, <3>1 DEF Chat!Gap
    <3>3. m[1] \in 1 .. (Chat!Oldest(l) - 1) /\ m[1] \in (after + 1) .. (Chat!Oldest(l) - 1)
      BY <1>6, <1>7, <2>1, <2>4
    <3> QED BY <3>2, <3>3
  <2> QED BY <1>6, <1>7, <2>1, <2>2, <2>3, <2>4
<1> HIDE DEF told, got
<1>13. PICK c : c = [after |-> Chat!Latest(l), got |-> b.got \cup got, missed |-> b.missed \cup told]
  OBVIOUS
<1>14. /\ c \in ReaderRecord /\ c.after = l.next - 1
       /\ c.got = b.got \cup got /\ c.missed = b.missed \cup told
  <2>1. b.got \cup got \subseteq (1 .. MaxPosts + 1) \X Contents /\ b.missed \cup told \subseteq Nat
    BY <1>3, <1>10, <1>11 DEF ReaderRecord
  <2>2. Chat!Latest(l) = l.next - 1 /\ l.next - 1 \in Int
    BY <1>6, <1>7
  <2>3. c.after = l.next - 1 /\ c.got = b.got \cup got /\ c.missed = b.missed \cup told
    BY <1>13, <2>2
  <2> QED BY <1>13, <2>1, <2>2, <2>3 DEF ReaderRecord
<1>15. /\ readers' \in [Readers -> ReaderRecord]
       /\ \A x \in Readers : readers'[x] = IF x = r THEN c ELSE readers[x]
  BY <1>4, <1>13, <1>14 DEF ChatInv
<1>16. ASSUME NEW k, Kept(k), k.next >= l.next, k.next \in Nat  PROVE Kept(k)'
  <2>1. \A x \in Readers : readers'[x].after \in -1 .. (k.next - 1)
    BY <1>6, <1>14, <1>15, <1>16 DEF Kept
  <2> QED BY <1>1, <1>16, <2>1 DEF Kept
<1>17. Kept(log.log)'
  <2>1. PICK k : k = log.log
    OBVIOUS
  <2>2. Kept(k) /\ k.next >= l.next /\ k.next \in Nat
    BY <1>5, <1>6, <2>1 DEF ChatInv
  <2> QED BY <1>1, <1>16, <2>1, <2>2
<1>18. ASSUME NEW q \in Processes, cache'[q] # NoState
       PROVE  Kept(cache[q])' /\ cache'[q].next <= log'.log.next
  <2>1. PICK k : k = l
    OBVIOUS
  <2>2. cache[q] = l /\ cache'[q] = l
    BY <1>1 DEF OneProcess, l
  <2>3. Kept(k) /\ k.next >= l.next /\ k.next \in Nat
    BY <1>5, <1>6, <2>1
  <2>4. Kept(k)'
    BY <1>16, <2>3
  <2> QED BY <1>1, <1>5, <2>1, <2>2, <2>4
<1>19. Chat!NothingMissed'
  <2>1. \A m, n \in accepted : m[1] = n[1] => m = n
    BY DEF ChatInv, Chat!NothingMissed
  <2>2. ASSUME NEW x \in Readers, NEW m \in accepted, m[1] <= readers'[x].after
        PROVE  m \in readers'[x].got \/ m[1] \in readers'[x].missed
    <3>1. CASE x = r
      BY <1>12, <1>14, <1>15, <2>2, <3>1
    <3>2. CASE x # r
      BY <1>15, <2>2, <3>2 DEF ChatInv, Chat!NothingMissed
    <3> QED BY <3>1, <3>2
  <2> QED BY <1>1, <2>1, <2>2 DEF Chat!NothingMissed
<1> QED BY <1>1, <1>15, <1>17, <1>18, <1>19 DEF ChatInv

\* Subscriptions and notifications only take away what is under way.
LEMMA ListenKeeps ==
  ASSUME ChatInv, subscribed' \subseteq Readers, notices' \subseteq notices,
         UNCHANGED <<log, cache, posts, accepted, readers, chatFaults>>
  PROVE  ChatInv'
<1>1. ASSUME NEW k, Kept(k)  PROVE Kept(k)'
  BY <1>1 DEF Kept
<1>2. Kept(log.log)'
  <2>1. PICK l : l = log.log
    OBVIOUS
  <2> QED BY <1>1, <2>1 DEF ChatInv
<1>3. ASSUME NEW q \in Processes, cache'[q] # NoState
      PROVE  Kept(cache[q])' /\ cache'[q].next <= log'.log.next
  <2>1. PICK l : l = cache[q]
    OBVIOUS
  <2> QED BY <1>1, <1>3, <2>1 DEF ChatInv
<1>4. Chat!NothingMissed'
  BY DEF ChatInv, Chat!NothingMissed
<1> QED BY <1>2, <1>3, <1>4 DEF ChatInv

LEMMA ChatInductive ==
  ASSUME OneProcess, ChatInv, Chat!Next
  PROVE  ChatInv'
<1>1. ASSUME NEW r \in Readers, Chat!subscribe(r) \/ Chat!unsubscribe(r)  PROVE ChatInv'
  <2>1. subscribed' \subseteq Readers /\ notices' \subseteq notices
        /\ UNCHANGED <<log, cache, posts, accepted, readers, chatFaults>>
    BY <1>1 DEF Chat!subscribe, Chat!unsubscribe, ChatInv
  <2> QED BY <2>1, ListenKeeps
<1>2. ASSUME NEW notice \in notices, Chat!notify(notice)  PROVE ChatInv'
  <2>1. subscribed' \subseteq Readers /\ notices' \subseteq notices
        /\ UNCHANGED <<log, cache, posts, accepted, readers, chatFaults>>
    BY <1>2 DEF Chat!notify, ChatInv
  <2> QED BY <2>1, ListenKeeps
<1> QED BY <1>1, <1>2, LoadKeeps, PostKeeps, PostFailsKeeps, RestartKeeps, ReadKeeps DEF Chat!Next

LEMMA ChatContained ==
  ASSUME ChatInv
  PROVE  Chat!TypeOK /\ Chat!NothingMissed /\ Chat!CursorsUsable
<1>1. ASSUME NEW l, Kept(l)
      PROVE  /\ Chat!Contiguous(l, HistoryLimit) /\ Chat!Latest(l) = l.next - 1
             /\ \A r \in Readers : readers[r].after <= Chat!Latest(l)
             /\ \A notice \in notices : notice[2] <= Chat!Latest(l)
  <2>1. /\ l \in LogOf(Contents) /\ Chat!Contiguous(l, HistoryLimit) /\ HistoryLimit \in Nat
    BY <1>1, ChatAssumed DEF Kept
  <2>2. Chat!Latest(l) = l.next - 1
    BY <2>1, LogFacts DEF LogSound
  <2> QED BY <1>1, <2>1, <2>2 DEF Kept, LogOf
<1>2. ASSUME NEW p \in Processes  PROVE Kept(Chat!State(p))
  BY DEF ChatInv, Chat!State
<1>3. Chat!CursorsUsable
  BY <1>1, <1>2 DEF Chat!CursorsUsable
<1>4. Chat!TypeOK
  <2>1. Chat!Contiguous(log.log, HistoryLimit)
    BY <1>1 DEF ChatInv
  <2>2. \A p \in Processes : cache[p] # NoState => Chat!Contiguous(cache[p], HistoryLimit)
    BY <1>1 DEF ChatInv
  <2> QED BY <2>1, <2>2 DEF ChatInv, Contents, Chat!TypeOK
<1> QED BY <1>3, <1>4 DEF ChatInv

LEMMA ChatUnchanged ==
  ASSUME ChatInv, UNCHANGED chatVars
  PROVE  ChatInv'
<1>1. /\ UNCHANGED <<log, cache, posts, accepted, readers, chatFaults>>
      /\ notices' \subseteq notices /\ subscribed' \subseteq Readers
  BY DEF chatVars, ChatInv
<1> QED BY <1>1, ListenKeeps

ChatPart == part = "chat" => ChatInv

LEMMA ChatPartInvariant ==
  ASSUME OneProcess
  PROVE  AllSpec => []ChatPart
<1>1. AllInit => ChatPart
  BY ChatInitial DEF AllInit, ChatPart
<1>2. ChatPart /\ [AllNext]_allVars => ChatPart'
  <2> SUFFICES ASSUME ChatPart, [AllNext]_allVars, part' = "chat"
               PROVE  ChatInv'
    BY DEF ChatPart
  <2>1. part = "chat"
    BY DEF AllNext, ContextsNext, WorkNext, ManagerNext, ChatNext, CoordinationNext, allVars
  <2>2. CASE ChatNext
    BY <2>1, <2>2, ChatInductive DEF ChatPart, ChatNext
  <2>3. CASE UNCHANGED chatVars
    BY <2>1, <2>3, ChatUnchanged DEF ChatPart
  <2> QED BY <2>1, <2>2, <2>3 DEF AllNext, ContextsNext, WorkNext, ManagerNext, CoordinationNext, allVars
<1> QED BY <1>1, <1>2, PTL DEF AllSpec

-----------------------------------------------------------------------------
(* Agent coordination (AgentCoordination). *)

LEMMA CoordinationAssumed ==
  /\ Controller \notin Agents /\ None \notin Agents \cup {Controller}
  /\ {ChatLimit, TaskLimit, AuditLimit, ReadLimit, MaxTasks, MaxEvents} \subseteq Nat \ {0}
  /\ MaxClock \in Nat
BY PartsAssumption DEF Coordination!CoordinationAssumption

LEMMA CoordinationCardinality ==
  ASSUME NEW S
  PROVE  Coordination!Cardinality(S) = Cardinality(S)
BY DEF Coordination!Cardinality, Cardinality

CoordinationTask ==
  [id : Nat \ {0}, status : Coordination!Statuses, assigned : Agents \cup {None},
   message : BOOLEAN, artifact : BOOLEAN, createdAt : Nat, updatedAt : Nat, revision : Nat \ {0}]

EventKinds == {"agent_chat_post", "agent_task_create", "agent_task_assign", "agent_task_update"}

AuditEvent ==
  [kind : EventKinds, task : Nat, from : Coordination!Statuses \cup {None},
   to : Coordination!Statuses \cup {None}]

\* A reader has heard of all cursors up to its own, which the log has reached.
Informed(reader, l) ==
  reader.after \in -1 .. (l.next - 1) /\ 1 .. reader.after \subseteq reader.known

\* What the audit tells of one task by the events that are retained.
Trail(E, now_, revision) ==
  \A event \in E :
    LET earlier == {e \in E : e.cursor < event.cursor}
        later == {e \in E : e.cursor > event.cursor}
    IN  /\ \A e \in earlier : (\A other \in earlier : other.cursor <= e.cursor)
                               => event.content.from = e.content.to
        /\ later = {} => event.content.to = now_
        /\ event.content.kind = "agent_task_create" => earlier = {} /\ Cardinality(E) = revision

About(l, id) == {e \in Entries(l) : e.content.task = id}

GoodTask(t) ==
  /\ t \in CoordinationTask /\ Coordination!TaskValid(t)
  /\ t.id <= tasksCreated /\ t.createdAt <= clock

CoordinationInv ==
  /\ stored \in [tasks : Seq(CoordinationTask), chat : LogOf({None}), audit : LogOf(AuditEvent)]
  /\ tasksCreated \in 0 .. MaxTasks /\ clock \in 0 .. MaxClock
  /\ Coordination!Valid(stored)
  /\ \A k \in DOMAIN stored.tasks : GoodTask(stored.tasks[k])
  /\ \A e \in Entries(stored.audit) : e.content.task <= tasksCreated
  /\ \A k \in DOMAIN stored.tasks :
       Trail(About(stored.audit, stored.tasks[k].id), stored.tasks[k].status, stored.tasks[k].revision)
  /\ Informed(auditor, stored.audit) /\ Informed(member, stored.chat)

-----------------------------------------------------------------------------
(* What a reader is told. *)

LEMMA ReadInforms ==
  ASSUME NEW C, NEW limit \in Nat, NEW l \in LogOf(C), Chat!Contiguous(l, limit),
         NEW reader, Informed(reader, l)
  PROVE  Informed(Coordination!Read(reader, l), l)
<1> DEFINE first == reader.after = -1
           after == IF first THEN Chat!Latest(l) ELSE reader.after
           newer == Chat!After(l, after)
           size == IF Len(newer) < ReadLimit THEN Len(newer) ELSE ReadLimit
           given == IF first THEN Chat!LastOf(l.entries, ReadLimit) ELSE SubSeq(newer, 1, size)
           told == IF given = <<>> THEN {}
                   ELSE IF first THEN 1 .. (Head(given).cursor - 1)
                   ELSE IF Chat!Gap(l, after) THEN (after + 1) .. (Chat!Oldest(l) - 1) ELSE {}
           cursors == {given[k].cursor : k \in DOMAIN given}
           result == Coordination!Read(reader, l)
<1>1. /\ result.after = IF given # <<>> THEN Chat!Last(given).cursor ELSE after
      /\ result.known = reader.known \cup told \cup cursors
  <2>1. \A a : /\ Coordination!After(l, a) = Chat!After(l, a)
              /\ Coordination!Gap(l, a) = Chat!Gap(l, a)
              /\ Coordination!LastOf(l.entries, ReadLimit) = Chat!LastOf(l.entries, ReadLimit)
              /\ Coordination!Last(a) = Chat!Last(a)
              /\ Coordination!Latest(l) = Chat!Latest(l)
              /\ Coordination!Oldest(l) = Chat!Oldest(l)
    BY DEF Coordination!After, Chat!After, Coordination!Gap, Chat!Gap, Coordination!LastOf, Chat!LastOf,
           Coordination!Last, Chat!Last, Coordination!Latest, Chat!Latest, Coordination!Oldest, Chat!Oldest
  <2>2. result = [after |-> Coordination!Continue(l, given, after),
                  known |-> reader.known \cup told \cup cursors]
    BY DEF Coordination!Read, Coordination!After, Chat!After, Coordination!Gap, Chat!Gap,
           Coordination!LastOf, Chat!LastOf, Coordination!Last, Chat!Last,
           Coordination!Latest, Chat!Latest, Coordination!Oldest, Chat!Oldest
  <2> HIDE DEF result, told, cursors, given, after
  <2>3. Coordination!Continue(l, given, after) = IF given # <<>> THEN Chat!Last(given).cursor ELSE after
    BY <2>1 DEF Coordination!Continue
  <2> QED BY <2>2, <2>3
<1>2. /\ ReadLimit \in Nat \ {0} /\ ReadLimit \in Nat /\ l.next \in Nat \ {0}
      /\ l.entries \in Seq(LogEntry(C)) /\ Len(l.entries) \in Nat
      /\ reader.after \in -1 .. (l.next - 1) /\ 1 .. reader.after \subseteq reader.known
  BY CoordinationAssumed DEF LogOf, Informed
<1>3. /\ Chat!Latest(l) = l.next - 1
      /\ \A k \in 1 .. Len(l.entries) : l.entries[k].cursor = l.next - Len(l.entries) + k - 1
      /\ l.entries # <<>> => Chat!Oldest(l) \in 1 .. (l.next - 1)
      /\ l.entries = <<>> => Chat!Oldest(l) = 0 /\ l.next = 1
      /\ \A c \in Chat!Oldest(l) .. (l.next - 1) : c > 0 => \E e \in Entries(l) : e.cursor = c
  <2>1. LogSound(C, limit, l)
    BY LogFacts
  <2> QED BY <2>1 DEF LogSound
<1>4. CASE first
  <2> DEFINE g == Len(given)
             n == Len(l.entries)
  <2>1. /\ given \in Seq(LogEntry(C))
        /\ g = IF n > ReadLimit THEN ReadLimit ELSE n
        /\ \A k \in 1 .. g : given[k] = l.entries[n - g + k]
    <3>1. given = Chat!LastOf(l.entries, ReadLimit)
      BY <1>4
    <3> HIDE DEF given
    <3> QED BY ZenonT(60), <1>2, <3>1, LastOfSeq
  <2>2. DOMAIN given = 1 .. g /\ g \in Nat /\ (given = <<>> <=> g = 0)
    BY <2>1
  <2>3. after = l.next - 1
    BY <1>3, <1>4
  <2> HIDE DEF given, after
  <2>4. CASE given = <<>>
    <3>1. n = 0
      BY <1>2, <2>1, <2>2, <2>4
    <3>2. l.next = 1
      BY <1>2, <1>3, <3>1
    <3>3. result.after = 0
      BY <1>1, <2>3, <2>4, <3>2
    <3> QED BY <3>2, <3>3 DEF Informed
  <2>5. CASE given # <<>>
    <3>1. g \in 1 .. n /\ n \in Nat
      BY <1>2, <2>1, <2>2, <2>5
    <3> HIDE DEF n, g
    <3>2. \A k \in 1 .. g : given[k].cursor = l.next - g + k - 1
      <4> SUFFICES ASSUME NEW k \in 1 .. g  PROVE given[k].cursor = l.next - g + k - 1
        OBVIOUS
      <4>1. n - g + k \in 1 .. n
        BY <3>1
      <4>2. given[k] = l.entries[n - g + k]
        BY <2>1 DEF n, g
      <4>3. l.entries[n - g + k].cursor = l.next - n + (n - g + k) - 1
        BY <1>3, <4>1 DEF n
      <4>4. l.next - n + (n - g + k) - 1 = l.next - g + k - 1
        BY <1>2, <3>1
      <4> QED BY <4>2, <4>3, <4>4
    <3>3. Head(given) = given[1] /\ Chat!Last(given) = given[g] /\ 1 \in 1 .. g /\ g \in 1 .. g
      BY <2>1, <2>5, <3>1 DEF Chat!Last, g
    <3>4. Head(given).cursor = l.next - g /\ result.after = l.next - 1
      BY <1>1, <1>2, <2>5, <3>1, <3>2, <3>3
    <3>5. told = 1 .. (l.next - g - 1)
      BY <1>4, <2>5, <3>4
    <3>6. ASSUME NEW c \in 1 .. (l.next - 1)  PROVE c \in told \cup cursors
      <4>1. CASE c < l.next - g
        <5>1. c \in 1 .. (l.next - g - 1)
          BY <1>2, <3>1, <4>1
        <5> HIDE DEF told
        <5> QED BY <3>5, <5>1
      <4>2. CASE c >= l.next - g
        <5>1. c - l.next + g + 1 \in 1 .. g
          BY SMTT(30), <1>2, <3>1, <4>2
        <5>2. PICK k \in 1 .. g : k = c - l.next + g + 1
          BY <5>1
        <5>3. l.next - g + k - 1 = c
          BY <1>2, <3>1, <5>2
        <5>4. given[k].cursor = c /\ k \in DOMAIN given
          BY <2>2, <3>2, <5>2, <5>3 DEF g
        <5> QED BY <5>4
      <4>3. l.next - g \in Int /\ c \in Int
        BY <1>2, <3>1
      <4> QED BY <4>1, <4>2, <4>3
    <3> HIDE DEF told, cursors
    <3> QED BY <1>1, <1>2, <3>4, <3>6 DEF Informed
  <2> QED BY <2>4, <2>5
<1>5. CASE ~first
  <2> DEFINE n == Len(newer)
  <2>1. after = reader.after /\ after \in 0 .. (l.next - 1) /\ after \in Int /\ after >= -1 /\ after < l.next
    BY <1>2, <1>5
  <2> HIDE DEF after
  <2>2. /\ newer \in Seq(LogEntry(C))
        /\ n <= l.next - 1 - after
        /\ \A k \in 1 .. n : newer[k] \in Entries(l) /\ newer[k].cursor = l.next - 1 - n + k
        /\ \A e \in Entries(l) : e.cursor > after => \E k \in 1 .. n : newer[k] = e
    BY <2>1, AfterFacts
  <2>3. n \in Nat /\ size \in Nat /\ size <= n /\ (size = 0 <=> n = 0)
    <3>1. n \in Nat
      BY <2>2
    <3> HIDE DEF newer
    <3> QED BY <1>2, <3>1
  <2>4. /\ given \in Seq(LogEntry(C)) /\ Len(given) = size
        /\ \A k \in 1 .. size : given[k] = newer[k]
    <3> HIDE DEF newer, size
    <3>1. given = SubSeq(newer, 1, size)
      BY <1>5
    <3>2. \A i \in 1 .. size : newer[i] \in LogEntry(C)
      BY <2>2, <2>3
    <3>3. /\ SubSeq(newer, 1, size) \in Seq(LogEntry(C))
          /\ Len(SubSeq(newer, 1, size)) = IF 1 <= size THEN size - 1 + 1 ELSE 0
          /\ \A i \in 1 .. size - 1 + 1 : SubSeq(newer, 1, size)[i] = newer[1 + i - 1]
      BY <2>3, <3>2, SubSeqProperties
    <3> HIDE DEF given
    <3>4. size - 1 + 1 = size /\ \A i \in 1 .. size : 1 + i - 1 = i
      BY <2>3
    <3> QED BY <2>3, <3>1, <3>3, <3>4
  <2>5. DOMAIN given = 1 .. size /\ (given = <<>> <=> size = 0)
    <3> HIDE DEF size, newer, given
    <3> QED BY <2>3, <2>4
  <2> HIDE DEF newer, given, size, n
  <2>6. CASE given = <<>>
    <3>1. result.after = reader.after
      BY <1>1, <2>1, <2>6
    <3> QED BY <1>1, <1>2, <3>1 DEF Informed
  <2>7. CASE given # <<>>
    <3>1. size \in 1 .. n /\ n \in Nat
      BY <2>3, <2>5, <2>7
    <3>2. Chat!Last(given) = given[size] /\ given[size] = newer[size]
      BY <2>4, <3>1 DEF Chat!Last
    <3>3. result.after = l.next - 1 - n + size
      BY <1>1, <2>2, <2>7, <3>1, <3>2
    <3>4. result.after \in 0 .. (l.next - 1)
      <4>1. after \in Int /\ after >= 0 /\ l.next \in Int
        BY <1>2, <2>1
      <4>2. n <= l.next - 1 - after
        BY <2>2
      <4>3. n \in Int /\ size \in Int /\ 1 <= size /\ size <= n
        BY <3>1
      <4> HIDE DEF result
      <4> QED BY <4>1, <4>2, <4>3, <3>3
    <3>5. ASSUME NEW c \in 1 .. result.after, c > after  PROVE c \in told \cup cursors
      <4>1. c \in Nat /\ c <= l.next - 1 /\ c > 0
        BY <1>2, <3>4
      <4>2. CASE c < Chat!Oldest(l)
        <5>1. l.entries # <<>> /\ Chat!Oldest(l) \in Int /\ after < Chat!Oldest(l) - 1
          BY <1>3, <2>1, <3>5, <4>1, <4>2
        <5>2. Chat!Gap(l, after)
          BY <5>1 DEF Chat!Gap
        <5>3. c \in (after + 1) .. (Chat!Oldest(l) - 1)
          BY <2>1, <3>5, <4>1, <4>2, <5>1
        <5> QED BY <1>5, <2>7, <5>2, <5>3
      <4>3. CASE ~(c < Chat!Oldest(l))
        <5>1. Chat!Oldest(l) \in Int
          BY <1>3
        <5>2. c \in Chat!Oldest(l) .. (l.next - 1)
          BY <1>2, <4>1, <4>3, <5>1
        <5>3. PICK e \in Entries(l) : e.cursor = c
          BY <1>3, <4>1, <5>2
        <5>4. PICK k \in 1 .. n : newer[k] = e
          BY <2>2, <3>5, <5>3
        <5>5. c = l.next - 1 - n + k
          BY <2>2, <5>3, <5>4
        <5>6. k \in 1 .. size
          BY <1>2, <3>1, <3>3, <5>5
        <5>7. given[k].cursor = c
          BY <2>4, <5>3, <5>4, <5>6
        <5> QED BY <2>5, <5>6, <5>7
      <4> QED BY <4>2, <4>3
    <3>6. ASSUME NEW c \in 1 .. result.after, ~(c > after)  PROVE c \in reader.known
      BY <1>2, <2>1, <3>4, <3>6
    <3> HIDE DEF told, cursors, result
    <3>7. 1 .. result.after \subseteq result.known
      BY <1>1, <3>5, <3>6
    <3>8. result.after \in -1 .. (l.next - 1)
      BY <1>2, <3>4
    <3> QED BY <3>7, <3>8 DEF Informed, result
  <2> QED BY <2>6, <2>7
<1> QED BY <1>4, <1>5

-----------------------------------------------------------------------------
(* The trail of a task. *)

LEMMA EntriesFinite ==
  ASSUME NEW C, NEW l \in LogOf(C)
  PROVE  IsFiniteSet(Entries(l))
<1> DEFINE f == [k \in 1 .. Len(l.entries) |-> l.entries[k]]
<1>1. Len(l.entries) \in Nat /\ DOMAIN l.entries = 1 .. Len(l.entries)
  BY DEF LogOf
<1>2. IsFiniteSet(1 .. Len(l.entries))
  <2>1. 1 \in Int /\ Len(l.entries) \in Int
    BY <1>1
  <2> QED BY <2>1, FS_Interval
<1>3. f \in Surjection(1 .. Len(l.entries), Entries(l))
  BY <1>1 DEF Surjection, Entries
<1> QED BY <1>2, <1>3, FS_Surjection

\* Forgetting the oldest events leaves a trail.
LEMMA TrailKept ==
  ASSUME NEW E, NEW s, NEW r, Trail(E, s, r), \A e \in E : e.cursor \in Nat,
         NEW F \in SUBSET E, NEW oldest \in Nat,
         \A e \in E : e \in F \/ e.cursor < oldest,
         \A e \in F : e.cursor >= oldest
  PROVE  Trail(F, s, r)
<1> SUFFICES ASSUME NEW event \in F
             PROVE  /\ \A e \in {x \in F : x.cursor < event.cursor} :
                         (\A other \in {x \in F : x.cursor < event.cursor} : other.cursor <= e.cursor)
                           => event.content.from = e.content.to
                    /\ {x \in F : x.cursor > event.cursor} = {} => event.content.to = s
                    /\ event.content.kind = "agent_task_create" =>
                         {x \in F : x.cursor < event.cursor} = {} /\ Cardinality(F) = r
  BY DEF Trail
<1>1. /\ \A e \in {x \in E : x.cursor < event.cursor} :
           (\A other \in {x \in E : x.cursor < event.cursor} : other.cursor <= e.cursor)
             => event.content.from = e.content.to
      /\ {x \in E : x.cursor > event.cursor} = {} => event.content.to = s
      /\ event.content.kind = "agent_task_create" =>
           {x \in E : x.cursor < event.cursor} = {} /\ Cardinality(E) = r
  BY DEF Trail
<1>2. ASSUME NEW e \in F, e.cursor < event.cursor,
             \A other \in {x \in F : x.cursor < event.cursor} : other.cursor <= e.cursor
      PROVE  event.content.from = e.content.to
  <2>1. ASSUME NEW other \in E, other.cursor < event.cursor  PROVE other.cursor <= e.cursor
    <3>1. CASE other \in F
      BY <1>2, <2>1, <3>1
    <3>2. CASE other.cursor < oldest
      <4>1. e.cursor >= oldest /\ e.cursor \in Nat /\ other.cursor \in Nat
        BY <1>2
      <4> QED BY <3>2, <4>1
    <3> QED BY <3>1, <3>2
  <2> QED BY <1>1, <1>2, <2>1
<1>3. ASSUME {x \in F : x.cursor > event.cursor} = {}  PROVE event.content.to = s
  <2>1. ASSUME NEW x \in E, x.cursor > event.cursor  PROVE FALSE
    <3>1. x.cursor \in Nat /\ event.cursor \in Nat /\ event.cursor >= oldest
      OBVIOUS
    <3>2. x \in F
      BY <2>1, <3>1
    <3> QED BY <1>3, <2>1, <3>2
  <2> QED BY <1>1, <2>1
<1>4. ASSUME event.content.kind = "agent_task_create"
      PROVE  {x \in F : x.cursor < event.cursor} = {} /\ Cardinality(F) = r
  <2>1. {x \in E : x.cursor < event.cursor} = {} /\ Cardinality(E) = r
    BY <1>1, <1>4
  <2>2. ASSUME NEW e \in E  PROVE e \in F
    <3>1. ~(e.cursor < event.cursor)
      BY <2>1
    <3>2. e.cursor \in Nat /\ event.cursor \in Nat /\ event.cursor >= oldest
      OBVIOUS
    <3> QED BY <3>1, <3>2
  <2>3. E = F
    BY <2>2
  <2> QED BY <2>1, <2>3
<1> QED BY <1>2, <1>3, <1>4

\* An event that starts where the task is and leaves it where it then is.
LEMMA TrailAdded ==
  ASSUME NEW E, IsFiniteSet(E), NEW s, NEW r \in Nat, Trail(E, s, r), \A e \in E : e.cursor \in Nat,
         NEW event, event.cursor \in Nat, \A e \in E : e.cursor < event.cursor,
         event.content.kind # "agent_task_create", event.content.from = s
  PROVE  Trail(E \cup {event}, event.content.to, r + 1)
<1> DEFINE F == E \cup {event}
<1>0. event \notin E
  <2>1. ~(event.cursor < event.cursor)
    OBVIOUS
  <2> QED BY <2>1
<1>1. Cardinality(F) = Cardinality(E) + 1
  BY <1>0, FS_AddElement
<1> SUFFICES ASSUME NEW v \in F
             PROVE  /\ \A e \in {x \in F : x.cursor < v.cursor} :
                         (\A other \in {x \in F : x.cursor < v.cursor} : other.cursor <= e.cursor)
                           => v.content.from = e.content.to
                    /\ {x \in F : x.cursor > v.cursor} = {} => v.content.to = event.content.to
                    /\ v.content.kind = "agent_task_create" =>
                         {x \in F : x.cursor < v.cursor} = {} /\ Cardinality(F) = r + 1
  BY DEF Trail
<1>2. CASE v = event
  <2>1. {x \in F : x.cursor < v.cursor} = E
    BY <1>2
  <2>2. ASSUME NEW e \in E, \A other \in E : other.cursor <= e.cursor
        PROVE  e.content.to = s
    <3>1. {x \in E : x.cursor > e.cursor} = {}
      BY <2>2
    <3> QED BY <3>1 DEF Trail
  <2> QED BY <1>2, <2>1, <2>2
<1>3. CASE v # event
  <2>1. v \in E /\ v.cursor \in Nat /\ v.cursor < event.cursor
    BY <1>3
  <2>2. {x \in F : x.cursor < v.cursor} = {x \in E : x.cursor < v.cursor}
    BY <2>1
  <2>3. {x \in F : x.cursor > v.cursor} # {}
    BY <2>1
  <2> HIDE DEF F
  <2> QED BY <1>1, <2>1, <2>2, <2>3 DEF Trail
<1> QED BY <1>2, <1>3

\* The first event about a task.
LEMMA TrailBegun ==
  ASSUME NEW event, event.cursor \in Nat
  PROVE  Trail({event}, event.content.to, 1)
<1>1. Cardinality({event}) = 1
  BY FS_Singleton
<1>2. ~(event.cursor < event.cursor) /\ ~(event.cursor > event.cursor)
  OBVIOUS
<1> QED BY <1>1, <1>2 DEF Trail

-----------------------------------------------------------------------------
(* An audited step. *)

\* The audit with one event more.
AuditStep(a, ev) ==
  /\ a \in LogOf(AuditEvent) /\ Chat!Contiguous(a, AuditLimit) /\ a.next = stored.audit.next + 1
  /\ \A e \in Entries(a) :
       e \in Entries(stored.audit) \/ e = [cursor |-> stored.audit.next, content |-> ev]
  /\ [cursor |-> stored.audit.next, content |-> ev] \in Entries(a)
  /\ \E oldest \in Nat : /\ \A e \in Entries(stored.audit) : e \in Entries(a) \/ e.cursor < oldest
                         /\ \A e \in Entries(a) : e.cursor >= oldest

LEMMA AuditTyped ==
  ASSUME CoordinationInv
  PROVE  /\ AuditLimit \in Nat \ {0} /\ AuditLimit \in Nat
         /\ stored.audit \in LogOf(AuditEvent) /\ Chat!Contiguous(stored.audit, AuditLimit)
         /\ stored.audit.next \in Nat \ {0}
         /\ IsFiniteSet(Entries(stored.audit))
         /\ \A e \in Entries(stored.audit) :
              e \in LogEntry(AuditEvent) /\ e.cursor \in Nat /\ e.cursor < stored.audit.next
<1>1. AuditLimit \in Nat \ {0} /\ AuditLimit \in Nat
  BY CoordinationAssumed
<1>2. stored.audit \in LogOf(AuditEvent) /\ stored.audit.next \in Nat \ {0}
  BY DEF CoordinationInv, LogOf
<1>3. Chat!Contiguous(stored.audit, AuditLimit)
  BY SameLog DEF CoordinationInv, Coordination!Valid
<1>4. LogSound(AuditEvent, AuditLimit, stored.audit)
  BY <1>1, <1>2, <1>3, LogFacts
<1>5. \A e \in Entries(stored.audit) :
        e \in LogEntry(AuditEvent) /\ e.cursor \in Nat /\ e.cursor < stored.audit.next
  <2> SUFFICES ASSUME NEW e \in Entries(stored.audit)
               PROVE  e \in LogEntry(AuditEvent) /\ e.cursor \in Nat /\ e.cursor < stored.audit.next
    OBVIOUS
  <2>1. e \in LogEntry(AuditEvent) /\ e.cursor \in Chat!Oldest(stored.audit) .. (stored.audit.next - 1)
    BY <1>4 DEF LogSound
  <2>2. e.cursor \in Nat
    BY <2>1 DEF LogEntry
  <2> QED BY <1>2, <2>1, <2>2
<1>6. IsFiniteSet(Entries(stored.audit))
  BY <1>2, EntriesFinite
<1> QED BY <1>1, <1>2, <1>3, <1>5, <1>6

LEMMA AuditSteps ==
  ASSUME CoordinationInv, NEW ev \in AuditEvent
  PROVE  AuditStep(Coordination!Appended(stored.audit, ev, AuditLimit), ev)
<1> DEFINE l == stored.audit
           a == Chat!Appended(l, ev, AuditLimit)
           entry == [cursor |-> l.next, content |-> ev]
<1>1. a = Coordination!Appended(l, ev, AuditLimit)
  BY SameLog
<1>2. /\ AuditLimit \in Nat \ {0} /\ AuditLimit \in Nat
      /\ l \in LogOf(AuditEvent) /\ Chat!Contiguous(l, AuditLimit)
  BY AuditTyped
<1> HIDE DEF l
<1>3. /\ a \in LogOf(AuditEvent) /\ Chat!Contiguous(a, AuditLimit)
      /\ a.next = l.next + 1
      /\ entry \in Entries(a) /\ Chat!Last(a.entries) = entry
      /\ Entries(a) \subseteq Entries(l) \cup {entry}
      /\ \A e \in Entries(l) : e \in Entries(a) \/ e.cursor < Chat!Oldest(a)
  BY <1>2, AppendedFacts
<1> HIDE DEF a, entry
<1>4. LogSound(AuditEvent, AuditLimit, a)
  BY <1>2, <1>3, LogFacts
<1>5. Chat!Oldest(a) \in Nat /\ \A e \in Entries(a) : e.cursor >= Chat!Oldest(a)
  <2>1. a.next \in Nat \ {0}
    BY <1>3 DEF LogOf
  <2>2. Chat!Oldest(a) \in Nat
    BY <1>4, <2>1 DEF LogSound
  <2> QED BY <1>4, <2>1, <2>2 DEF LogSound
<1>6. \E oldest \in Nat : /\ \A e \in Entries(l) : e \in Entries(a) \/ e.cursor < oldest
                          /\ \A e \in Entries(a) : e.cursor >= oldest
  BY <1>3, <1>5
<1>7. AuditStep(a, ev)
  BY <1>3, <1>6 DEF AuditStep, l, entry
<1> QED BY <1>1, <1>7 DEF l

LEMMA TrailAudited ==
  ASSUME CoordinationInv, NEW ev \in AuditEvent, NEW a, AuditStep(a, ev),
         NEW id, NEW s, NEW r \in Nat, Trail(About(stored.audit, id), s, r)
  PROVE  /\ ev.task # id => Trail(About(a, id), s, r)
         /\ ev.task = id /\ ev.from = s /\ ev.kind # "agent_task_create"
              => Trail(About(a, id), ev.to, r + 1)
<1> DEFINE E == About(stored.audit, id)
           F == About(a, id)
           entry == [cursor |-> stored.audit.next, content |-> ev]
<1>1. IsFiniteSet(E) /\ \A e \in E : e.cursor \in Nat /\ e.cursor < stored.audit.next
  <2>1. E \subseteq Entries(stored.audit)
    BY DEF About
  <2> QED BY <2>1, AuditTyped, FS_Subset
<1>2. entry.cursor = stored.audit.next /\ entry.content = ev /\ stored.audit.next \in Nat
  BY AuditTyped
<1>3. PICK oldest \in Nat : /\ \A e \in Entries(stored.audit) : e \in Entries(a) \/ e.cursor < oldest
                            /\ \A e \in Entries(a) : e.cursor >= oldest
  BY DEF AuditStep
<1>4. /\ \A e \in Entries(a) : e \in Entries(stored.audit) \/ e = entry
      /\ entry \in Entries(a)
  BY DEF AuditStep
<1> HIDE DEF entry
<1>5. ASSUME ev.task # id  PROVE Trail(F, s, r)
  <2>1. F \in SUBSET E
    BY <1>2, <1>4, <1>5 DEF About
  <2>2. (\A e \in E : e \in F \/ e.cursor < oldest) /\ \A e \in F : e.cursor >= oldest
    BY <1>3 DEF About
  <2> HIDE DEF E, F
  <2>3. Trail(E, s, r)
    BY DEF E
  <2> QED BY <1>1, <2>1, <2>2, <2>3, TrailKept
<1>6. ASSUME ev.task = id, ev.from = s, ev.kind # "agent_task_create"
      PROVE  Trail(F, ev.to, r + 1)
  <2> DEFINE G == E \cup {entry}
  <2>1. Trail(G, ev.to, r + 1)
    <3>1. Trail(E, s, r)
      OBVIOUS
    <3>2. \A e \in E : e.cursor \in Nat /\ e.cursor < entry.cursor
      BY <1>1, <1>2
    <3>3. entry.cursor \in Nat
      BY <1>2
    <3>4. entry.content.kind # "agent_task_create" /\ entry.content.from = s /\ entry.content.to = ev.to
      BY <1>2, <1>6
    <3> HIDE DEF E
    <3> QED BY <1>1, <3>1, <3>2, <3>3, <3>4, TrailAdded
  <2>2. F \in SUBSET G /\ \A e \in G : e.cursor \in Nat
    BY <1>1, <1>2, <1>4 DEF About
  <2>3. (\A e \in G : e \in F \/ e.cursor < oldest) /\ \A e \in F : e.cursor >= oldest
    BY <1>2, <1>3, <1>4, <1>6 DEF About
  <2> HIDE DEF G, F
  <2> QED BY <2>1, <2>2, <2>3, TrailKept
<1> QED BY <1>5, <1>6

LEMMA TrailStarted ==
  ASSUME CoordinationInv, NEW ev \in AuditEvent, NEW a, AuditStep(a, ev), ev.task > tasksCreated
  PROVE  Trail(About(a, ev.task), ev.to, 1)
<1> DEFINE entry == [cursor |-> stored.audit.next, content |-> ev]
<1>1. entry.cursor = stored.audit.next /\ entry.content = ev /\ stored.audit.next \in Nat
  BY AuditTyped
<1>2. \A e \in Entries(stored.audit) : e.content.task # ev.task
  <2> SUFFICES ASSUME NEW e \in Entries(stored.audit)  PROVE e.content.task # ev.task
    OBVIOUS
  <2>1. e.content.task <= tasksCreated /\ tasksCreated \in Int
    BY CoordinationAssumed DEF CoordinationInv
  <2>2. e.content.task \in Nat /\ ev.task \in Nat
    BY AuditTyped DEF LogEntry, AuditEvent
  <2> QED BY <2>1, <2>2
<1>3. /\ \A e \in Entries(a) : e \in Entries(stored.audit) \/ e = entry
      /\ entry \in Entries(a)
  BY DEF AuditStep
<1> HIDE DEF entry
<1>4. About(a, ev.task) = {entry}
  BY <1>1, <1>2, <1>3 DEF About
<1>5. Trail({entry}, entry.content.to, 1)
  BY <1>1, TrailBegun
<1> QED BY <1>1, <1>4, <1>5

\* The tasks after a step that is audited by `ev': what the event is about changed as
\* the event says, or is new; the others are as they were.
Follows(t, ev) ==
  \/ ev.task # t.id /\ \E j \in DOMAIN stored.tasks : t = stored.tasks[j]
  \/ /\ ev.task = t.id /\ ev.kind # "agent_task_create" /\ ev.to = t.status
     /\ \E j \in DOMAIN stored.tasks :
          /\ stored.tasks[j].id = t.id /\ ev.from = stored.tasks[j].status
          /\ t.revision = stored.tasks[j].revision + 1
  \/ ev.task = t.id /\ t.id > tasksCreated /\ ev.to = t.status /\ t.revision = 1

\* A step that writes the tasks ts, the channel ch and the event ev.
Writes(ts, ch, ev) ==
  /\ stored' = [tasks |-> ts, chat |-> ch, audit |-> Coordination!Appended(stored.audit, ev, AuditLimit)]
  /\ UNCHANGED <<auditor, member, clock>>
  /\ tasksCreated' \in tasksCreated .. MaxTasks
  /\ ev \in AuditEvent /\ Coordination!EventValid(ev) /\ ev.task <= tasksCreated'
  /\ ch \in LogOf({None}) /\ Chat!Contiguous(ch, ChatLimit) /\ Informed(member, ch)
  /\ ts \in Seq(CoordinationTask) /\ Len(ts) <= TaskLimit
  /\ \A i, j \in DOMAIN ts : ts[i].id = ts[j].id => i = j
  /\ \A k \in DOMAIN ts :
       /\ ts[k].id <= tasksCreated' /\ ts[k].createdAt <= clock /\ Coordination!TaskValid(ts[k])
       /\ Follows(ts[k], ev)

LEMMA ValidFacts ==
  ASSUME NEW state
  PROVE  Coordination!Valid(state) <=>
           /\ Chat!Contiguous(state.chat, ChatLimit)
           /\ Chat!Contiguous(state.audit, AuditLimit)
           /\ Len(state.tasks) <= TaskLimit
           /\ \A i, j \in DOMAIN state.tasks : state.tasks[i].id = state.tasks[j].id => i = j
           /\ \A k \in DOMAIN state.tasks : Coordination!TaskValid(state.tasks[k])
           /\ \A e \in Entries(state.audit) : Coordination!EventValid(e.content)
<1>1. Coordination!Contiguous(state.chat, ChatLimit) = Chat!Contiguous(state.chat, ChatLimit)
  BY SameLog
<1>2. Coordination!Contiguous(state.audit, AuditLimit) = Chat!Contiguous(state.audit, AuditLimit)
  BY SameLog
<1>3. Coordination!IsInjective([k \in DOMAIN state.tasks |-> state.tasks[k].id]) <=>
        \A i, j \in DOMAIN state.tasks : state.tasks[i].id = state.tasks[j].id => i = j
  BY DEF Coordination!IsInjective
<1>4. (\A k \in DOMAIN state.audit.entries : Coordination!EventValid(state.audit.entries[k].content)) <=>
        \A e \in Entries(state.audit) : Coordination!EventValid(e.content)
  BY DEF Entries
<1> QED BY <1>1, <1>2, <1>3, <1>4 DEF Coordination!Valid

LEMMA WritesKeep ==
  ASSUME CoordinationInv, NEW ts, NEW ch, NEW ev, Writes(ts, ch, ev)
  PROVE  CoordinationInv'
<1>1. PICK a : a = Coordination!Appended(stored.audit, ev, AuditLimit)
  OBVIOUS
<1>2. /\ stored'.tasks = ts /\ stored'.chat = ch /\ stored'.audit = a
      /\ stored' = [tasks |-> ts, chat |-> ch, audit |-> a]
      /\ UNCHANGED <<auditor, member, clock>>
      /\ tasksCreated' \in tasksCreated .. MaxTasks
      /\ ev \in AuditEvent /\ ev.task <= tasksCreated'
      /\ ts \in Seq(CoordinationTask)
  BY <1>1 DEF Writes
<1>3. AuditStep(a, ev)
  BY <1>1, <1>2, AuditSteps
<1>4. a \in LogOf(AuditEvent) /\ Chat!Contiguous(a, AuditLimit) /\ a.next = stored.audit.next + 1
  BY <1>3 DEF AuditStep
<1>5. stored' \in [tasks : Seq(CoordinationTask), chat : LogOf({None}), audit : LogOf(AuditEvent)]
  BY <1>2, <1>4 DEF Writes
<1>6. /\ tasksCreated \in 0 .. MaxTasks /\ MaxTasks \in Nat
      /\ tasksCreated' \in 0 .. MaxTasks /\ tasksCreated' >= tasksCreated
  BY <1>2, CoordinationAssumed DEF CoordinationInv
<1>7. ASSUME NEW e \in Entries(a)
      PROVE  Coordination!EventValid(e.content) /\ e.content.task <= tasksCreated'
  <2>1. CASE e \in Entries(stored.audit)
    <3>1. Coordination!EventValid(e.content)
      BY <2>1, ValidFacts DEF CoordinationInv
    <3>2. e.content.task <= tasksCreated /\ e.content.task \in Nat
      BY <2>1, AuditTyped DEF CoordinationInv, LogEntry, AuditEvent
    <3> QED BY <1>6, <3>1, <3>2
  <2>2. CASE e = [cursor |-> stored.audit.next, content |-> ev]
    BY <1>2, <2>2 DEF Writes
  <2> QED BY <1>3, <2>1, <2>2 DEF AuditStep
<1>8. Coordination!Valid(stored')
  <2> DEFINE state == stored'
  <2>1. /\ Chat!Contiguous(state.chat, ChatLimit)
        /\ Chat!Contiguous(state.audit, AuditLimit)
        /\ Len(state.tasks) <= TaskLimit
        /\ \A i, j \in DOMAIN state.tasks : state.tasks[i].id = state.tasks[j].id => i = j
        /\ \A k \in DOMAIN state.tasks : Coordination!TaskValid(state.tasks[k])
        /\ \A e \in Entries(state.audit) : Coordination!EventValid(e.content)
    BY <1>2, <1>4, <1>7 DEF Writes
  <2> QED BY <2>1, ValidFacts
<1>9. ASSUME NEW k \in DOMAIN ts
      PROVE  /\ GoodTask(ts[k])'
             /\ Trail(About(a, ts[k].id), ts[k].status, ts[k].revision)
  <2>1. /\ ts[k].id <= tasksCreated' /\ ts[k].createdAt <= clock /\ Coordination!TaskValid(ts[k])
        /\ Follows(ts[k], ev) /\ ts[k] \in CoordinationTask
    BY <1>2 DEF Writes
  <2>2. GoodTask(ts[k])'
    <3>1. PICK t : t = ts[k]
      OBVIOUS
    <3>2. /\ t \in CoordinationTask /\ Coordination!TaskValid(t)
          /\ t.id <= tasksCreated' /\ t.createdAt <= clock'
      BY <1>2, <2>1, <3>1
    <3>3. GoodTask(t)'
      BY <3>2 DEF GoodTask
    <3> QED BY <3>1, <3>3
  <2>3. CASE ev.task # ts[k].id /\ \E j \in DOMAIN stored.tasks : ts[k] = stored.tasks[j]
    <3>1. Trail(About(stored.audit, ts[k].id), ts[k].status, ts[k].revision)
      BY <2>3 DEF CoordinationInv
    <3>2. ts[k].revision \in Nat
      BY <2>1 DEF CoordinationTask
    <3> QED BY <1>2, <1>3, <2>2, <2>3, <3>1, <3>2, TrailAudited
  <2>4. CASE /\ ev.task = ts[k].id /\ ev.kind # "agent_task_create" /\ ev.to = ts[k].status
             /\ \E j \in DOMAIN stored.tasks :
                  /\ stored.tasks[j].id = ts[k].id /\ ev.from = stored.tasks[j].status
                  /\ ts[k].revision = stored.tasks[j].revision + 1
    <3>1. PICK j \in DOMAIN stored.tasks :
                  /\ stored.tasks[j].id = ts[k].id /\ ev.from = stored.tasks[j].status
                  /\ ts[k].revision = stored.tasks[j].revision + 1
      BY <2>4
    <3>2. Trail(About(stored.audit, ts[k].id), stored.tasks[j].status, stored.tasks[j].revision)
      BY <3>1 DEF CoordinationInv
    <3>3. stored.tasks[j].revision \in Nat
      BY DEF CoordinationInv, GoodTask, CoordinationTask
    <3>4. Trail(About(a, ts[k].id), ev.to, stored.tasks[j].revision + 1)
      BY <1>2, <1>3, <2>4, <3>1, <3>2, <3>3, TrailAudited
    <3> QED BY <2>2, <2>4, <3>1, <3>4
  <2>5. CASE ev.task = ts[k].id /\ ts[k].id > tasksCreated /\ ev.to = ts[k].status /\ ts[k].revision = 1
    BY <1>2, <1>3, <2>2, <2>5, TrailStarted
  <2> QED BY <2>1, <2>3, <2>4, <2>5 DEF Follows
<1>10. \A k \in DOMAIN stored'.tasks :
         /\ GoodTask(stored.tasks[k])'
         /\ Trail(About(stored.audit, stored.tasks[k].id), stored.tasks[k].status, stored.tasks[k].revision)'
  <2> SUFFICES ASSUME NEW k \in DOMAIN ts
               PROVE  /\ GoodTask(stored.tasks[k])'
                      /\ Trail(About(stored.audit, stored.tasks[k].id), stored.tasks[k].status, stored.tasks[k].revision)'
    BY <1>2
  <2>1. PICK t : t = ts[k]
    OBVIOUS
  <2>2. stored'.tasks[k] = t /\ stored'.audit = a
    BY <1>2, <2>1
  <2>3. GoodTask(t)' /\ Trail(About(a, t.id), t.status, t.revision)
    BY <1>9, <2>1
  <2>4. GoodTask(stored.tasks[k])'
    BY <2>2, <2>3 DEF GoodTask
  <2>5. Trail(About(stored.audit, stored.tasks[k].id), stored.tasks[k].status, stored.tasks[k].revision)'
    BY <2>2, <2>3 DEF Trail, About
  <2> QED BY <2>4, <2>5
<1>11. Informed(auditor, stored.audit)' /\ Informed(member, stored.chat)'
  <2>1. Informed(auditor, stored.audit) /\ stored.audit.next \in Nat
    BY AuditTyped DEF CoordinationInv
  <2>2. auditor.after \in -1 .. (a.next - 1)
    BY <1>4, <2>1 DEF Informed
  <2>3. Informed(auditor, a)
    BY <2>1, <2>2 DEF Informed
  <2> QED BY <1>2, <2>3 DEF Informed, Writes
<1>12. clock' \in 0 .. MaxClock /\ \A e \in Entries(stored'.audit) : e.content.task <= tasksCreated'
  BY <1>2, <1>7 DEF CoordinationInv
<1> QED BY <1>5, <1>6, <1>8, <1>10, <1>11, <1>12 DEF CoordinationInv

-----------------------------------------------------------------------------
(* The operations. *)

LEMMA ChatTyped ==
  ASSUME CoordinationInv
  PROVE  /\ stored.chat \in LogOf({None}) /\ Chat!Contiguous(stored.chat, ChatLimit)
         /\ ChatLimit \in Nat \ {0} /\ ChatLimit \in Nat
         /\ stored.tasks \in Seq(CoordinationTask) /\ Len(stored.tasks) <= TaskLimit
         /\ \A i, j \in DOMAIN stored.tasks : stored.tasks[i].id = stored.tasks[j].id => i = j
         /\ stored = [tasks |-> stored.tasks, chat |-> stored.chat, audit |-> stored.audit]
BY ValidFacts, CoordinationAssumed DEF CoordinationInv

LEMMA AuditedState ==
  ASSUME CoordinationInv, NEW ts, NEW ch, NEW ev
  PROVE  Coordination!Audited([tasks |-> ts, chat |-> ch, audit |-> stored.audit], ev)
           = [tasks |-> ts, chat |-> ch, audit |-> Coordination!Appended(stored.audit, ev, AuditLimit)]
BY DEF Coordination!Audited

\* What has changed in no task follows every event about none or about another one.
LEMMA SameFollow ==
  ASSUME CoordinationInv, NEW ev, NEW j \in DOMAIN stored.tasks, ev.task # stored.tasks[j].id
  PROVE  /\ stored.tasks[j].id <= tasksCreated /\ stored.tasks[j].createdAt <= clock
         /\ Coordination!TaskValid(stored.tasks[j]) /\ stored.tasks[j] \in CoordinationTask
         /\ Follows(stored.tasks[j], ev)
BY DEF CoordinationInv, GoodTask, Follows

LEMMA PostsKeep ==
  ASSUME CoordinationInv, Coordination!agentChatPost
  PROVE  CoordinationInv'
<1> DEFINE ev == Coordination!ChatEvent
           ch == Chat!Appended(stored.chat, None, ChatLimit)
           ts == stored.tasks
<1>1. Coordination!Appended(stored.chat, None, ChatLimit) = ch
  BY SameLog
<1>2. [stored EXCEPT !.chat = Coordination!Appended(@, None, ChatLimit)]
        = [tasks |-> ts, chat |-> ch, audit |-> stored.audit]
  <2> HIDE DEF ch
  <2> QED BY <1>1, ChatTyped
<1>3. /\ stored' = [tasks |-> ts, chat |-> ch, audit |-> Coordination!Appended(stored.audit, ev, AuditLimit)]
      /\ UNCHANGED <<auditor, member, clock, tasksCreated>>
  <2> HIDE DEF ch
  <2> QED BY <1>2, AuditedState DEF Coordination!agentChatPost, Coordination!Mutates
<1>4. /\ ev.kind = "agent_chat_post" /\ ev.task = 0 /\ ev.from = None /\ ev.to = None
      /\ ev \in AuditEvent
  BY DEF Coordination!ChatEvent, AuditEvent, EventKinds
<1>5. Coordination!EventValid(ev)
  <2> HIDE DEF ev
  <2> QED BY <1>4 DEF Coordination!EventValid
<1>6. ch \in LogOf({None}) /\ Chat!Contiguous(ch, ChatLimit) /\ ch.next = stored.chat.next + 1
  <2>1. PICK c : c = None
    OBVIOUS
  <2> DEFINE entry == [cursor |-> stored.chat.next, content |-> c]
  <2>2. c \in {None} /\ ch = Chat!Appended(stored.chat, c, ChatLimit)
    BY <2>1
  <2> HIDE DEF ch
  <2>3. ch \in LogOf({None}) /\ Chat!Contiguous(ch, ChatLimit) /\ ch.next = stored.chat.next + 1
        /\ entry \in Entries(ch)
    BY <2>2, ChatTyped, AppendedFacts
  <2> QED BY <2>3
<1> HIDE DEF ch, ev
<1>7. Informed(member, ch)
  <2>1. Informed(member, stored.chat) /\ stored.chat.next \in Nat
    BY ChatTyped DEF CoordinationInv, LogOf
  <2> QED BY <1>6, <2>1 DEF Informed
<1>8. tasksCreated' \in tasksCreated .. MaxTasks /\ ev.task <= tasksCreated'
  BY <1>3, <1>4, CoordinationAssumed DEF CoordinationInv
<1>9. ASSUME NEW k \in DOMAIN ts
      PROVE  /\ ts[k].id <= tasksCreated' /\ ts[k].createdAt <= clock /\ Coordination!TaskValid(ts[k])
             /\ Follows(ts[k], ev)
  <2>1. ev.task # ts[k].id
    BY <1>4, <1>9 DEF CoordinationInv, GoodTask, CoordinationTask
  <2> QED BY <1>3, <2>1, SameFollow
<1>10. Writes(ts, ch, ev)
  BY <1>3, <1>4, <1>5, <1>6, <1>7, <1>8, <1>9, ChatTyped DEF Writes
<1> QED BY <1>10, WritesKeep

LEMMA TaskFacts ==
  ASSUME CoordinationInv, NEW id \in Coordination!TaskIds
  PROVE  \E k \in DOMAIN stored.tasks : stored.tasks[k].id = id /\ Coordination!Task(id) = stored.tasks[k]
<1> DEFINE here == CHOOSE k \in DOMAIN stored.tasks : stored.tasks[k].id = id
<1>1. here \in DOMAIN stored.tasks /\ stored.tasks[here].id = id
  BY DEF Coordination!TaskIds
<1> QED BY <1>1 DEF Coordination!Task

\* An operation on a task puts another in its place.
LEMMA ReplacedKeeps ==
  ASSUME CoordinationInv, NEW id \in Coordination!TaskIds, NEW t \in CoordinationTask, NEW ev,
         t.id = id, t.createdAt = Coordination!Task(id).createdAt,
         t.revision = Coordination!Task(id).revision + 1, Coordination!TaskValid(t),
         ev = Coordination!TaskEvent(ev.kind, id, Coordination!Task(id).status, t.status),
         ev.kind \in {"agent_task_assign", "agent_task_update"}, Coordination!EventValid(ev),
         Coordination!Mutates(Coordination!Audited([stored EXCEPT !.tasks = Coordination!Replaced(id, t)], ev)),
         UNCHANGED tasksCreated
  PROVE  CoordinationInv'
<1> DEFINE ts == Coordination!Replaced(id, t)
           ch == stored.chat
<1>1. PICK i \in DOMAIN stored.tasks : stored.tasks[i].id = id /\ Coordination!Task(id) = stored.tasks[i]
  BY TaskFacts
<1>2. /\ stored.tasks[i] \in CoordinationTask /\ id \in Nat \ {0} /\ id <= tasksCreated
      /\ stored.tasks[i].createdAt <= clock
  BY <1>1 DEF CoordinationInv, GoodTask, CoordinationTask
<1>3. /\ DOMAIN ts = DOMAIN stored.tasks
      /\ \A k \in DOMAIN ts : ts[k] = IF k = i THEN t ELSE stored.tasks[k]
      /\ \A k \in DOMAIN ts : ts[k].id = stored.tasks[k].id
  BY <1>1, ChatTyped DEF Coordination!Replaced
<1>4. ts \in Seq(CoordinationTask) /\ Len(ts) = Len(stored.tasks)
  <2>1. \A k \in 1 .. Len(stored.tasks) : ts[k] \in CoordinationTask
    BY <1>3, ChatTyped DEF CoordinationInv, GoodTask
  <2>2. ts = [k \in 1 .. Len(stored.tasks) |-> ts[k]]
    BY ChatTyped DEF Coordination!Replaced
  <2>3. Len(stored.tasks) \in Nat
    BY ChatTyped
  <2> HIDE DEF ts
  <2> QED BY <2>1, <2>2, <2>3
<1> HIDE DEF ts
<1>5. /\ stored' = [tasks |-> ts, chat |-> ch, audit |-> Coordination!Appended(stored.audit, ev, AuditLimit)]
      /\ UNCHANGED <<auditor, member, clock, tasksCreated>>
  <2>1. [stored EXCEPT !.tasks = ts] = [tasks |-> ts, chat |-> ch, audit |-> stored.audit]
    BY ChatTyped
  <2>2. Coordination!Audited([stored EXCEPT !.tasks = ts], ev)
          = [tasks |-> ts, chat |-> ch, audit |-> Coordination!Appended(stored.audit, ev, AuditLimit)]
    BY <2>1, AuditedState
  <2>3. Coordination!Mutates(Coordination!Audited([stored EXCEPT !.tasks = ts], ev))
    BY DEF ts
  <2> QED BY <2>2, <2>3 DEF Coordination!Mutates
<1>6. /\ ev.task = id /\ ev.from = stored.tasks[i].status /\ ev.to = t.status
      /\ ev \in AuditEvent /\ ev.kind # "agent_task_create"
  <2>1. PICK kind \in {"agent_task_assign", "agent_task_update"} : kind = ev.kind
    OBVIOUS
  <2>2. ev = [kind |-> kind, task |-> id, from |-> stored.tasks[i].status, to |-> t.status]
    BY <1>1, <2>1 DEF Coordination!TaskEvent
  <2>3. stored.tasks[i].status \in Coordination!Statuses /\ t.status \in Coordination!Statuses
    BY <1>2 DEF CoordinationTask
  <2> QED BY <1>2, <2>1, <2>2, <2>3 DEF AuditEvent, EventKinds
<1>7. tasksCreated' \in tasksCreated .. MaxTasks /\ ev.task <= tasksCreated'
  BY <1>2, <1>5, <1>6, CoordinationAssumed DEF CoordinationInv
<1>8. ASSUME NEW k \in DOMAIN ts
      PROVE  /\ ts[k].id <= tasksCreated' /\ ts[k].createdAt <= clock /\ Coordination!TaskValid(ts[k])
             /\ Follows(ts[k], ev)
  <2>1. CASE k = i
    <3>1. ts[k] = t
      BY <1>3, <2>1
    <3>2. Follows(t, ev)
      BY <1>1, <1>6 DEF Follows
    <3> QED BY <1>1, <1>2, <1>5, <3>1, <3>2
  <2>2. CASE k # i
    <3>1. ts[k] = stored.tasks[k] /\ k \in DOMAIN stored.tasks
      BY <1>3, <2>2
    <3>2. ev.task # stored.tasks[k].id
      BY <1>1, <1>6, <2>2, <3>1, ChatTyped
    <3> QED BY <1>5, <3>1, <3>2, SameFollow
  <2> QED BY <2>1, <2>2
<1>9. \A k, j \in DOMAIN ts : ts[k].id = ts[j].id => k = j
  BY <1>3, ChatTyped
<1>10. Informed(member, ch)
  BY DEF CoordinationInv
<1>11. Writes(ts, ch, ev)
  BY <1>4, <1>5, <1>6, <1>7, <1>8, <1>9, <1>10, ChatTyped DEF Writes
<1> QED BY <1>11, WritesKeep

TaskAs(t, old, to, who, message, artifact, at) ==
  /\ t \in CoordinationTask /\ t.id = old.id /\ t.createdAt = old.createdAt
  /\ t.revision = old.revision + 1 /\ t.status = to /\ t.assigned = who
  /\ t.artifact = artifact /\ t.message = message /\ t.updatedAt = at

LEMMA TaskChanged ==
  ASSUME NEW old \in CoordinationTask, NEW to \in Coordination!Statuses, NEW who \in Agents \cup {None},
         NEW message \in BOOLEAN, NEW artifact \in BOOLEAN, NEW at \in Nat, NEW t,
         t = [old EXCEPT !.status = to, !.assigned = who, !.message = message,
                         !.artifact = artifact, !.updatedAt = at, !.revision = @ + 1]
  PROVE  TaskAs(t, old, to, who, message, artifact, at)
<1>1. /\ old.id \in Nat \ {0} /\ old.createdAt \in Nat /\ old.revision \in Nat \ {0}
      /\ old = [id |-> old.id, status |-> old.status, assigned |-> old.assigned,
                message |-> old.message, artifact |-> old.artifact, createdAt |-> old.createdAt,
                updatedAt |-> old.updatedAt, revision |-> old.revision]
  BY DEF CoordinationTask
<1>2. t = [id |-> old.id, status |-> to, assigned |-> who, message |-> message, artifact |-> artifact,
           createdAt |-> old.createdAt, updatedAt |-> at, revision |-> old.revision + 1]
  BY <1>1
<1>3. old.revision + 1 \in Nat \ {0}
  BY <1>1
<1> QED BY <1>1, <1>2, <1>3 DEF CoordinationTask, TaskAs

LEMMA AssignKeeps ==
  ASSUME CoordinationInv, NEW id \in Coordination!TaskIds, NEW agent \in Agents,
         NEW message \in BOOLEAN, Coordination!agentTaskAssign(id, agent, message)
  PROVE  CoordinationInv'
<1> DEFINE old == Coordination!Task(id)
           t == Coordination!Reassigned(old, agent, message)
           ev == Coordination!TaskEvent("agent_task_assign", id, old.status, "assigned")
<1>1. PICK i \in DOMAIN stored.tasks : stored.tasks[i].id = id /\ old = stored.tasks[i]
  BY TaskFacts
<1>2. old \in CoordinationTask /\ old.id = id /\ old.createdAt <= clock /\ clock \in Nat
  BY <1>1, CoordinationAssumed DEF CoordinationInv, GoodTask
<1>3. Coordination!Mutates(Coordination!Audited([stored EXCEPT !.tasks = Coordination!Replaced(id, t)], ev))
      /\ UNCHANGED tasksCreated
  BY DEF Coordination!agentTaskAssign
<1> HIDE DEF old
<1>4. t = [old EXCEPT !.status = "assigned", !.assigned = agent, !.message = message,
                      !.artifact = FALSE, !.updatedAt = clock, !.revision = @ + 1]
  BY DEF Coordination!Reassigned
<1>5. /\ t \in CoordinationTask /\ t.id = id /\ t.createdAt = old.createdAt
      /\ t.revision = old.revision + 1 /\ t.status = "assigned" /\ t.assigned = agent
      /\ t.artifact = FALSE /\ t.updatedAt = clock
  <2>1. "assigned" \in Coordination!Statuses /\ agent \in Agents \cup {None} /\ FALSE \in BOOLEAN
    BY DEF Coordination!Statuses
  <2> HIDE DEF t
  <2>2. TaskAs(t, old, "assigned", agent, message, FALSE, clock)
    BY <1>2, <1>4, <2>1, TaskChanged
  <2> QED BY <1>2, <2>2 DEF TaskAs
<1>6. /\ ev.kind = "agent_task_assign" /\ ev.from = old.status /\ ev.to = "assigned"
      /\ ev = Coordination!TaskEvent(ev.kind, id, old.status, t.status)
  BY <1>5 DEF Coordination!TaskEvent
<1> HIDE DEF t, ev
<1>7. Coordination!TaskValid(t)
  BY <1>2, <1>5, CoordinationAssumed DEF Coordination!TaskValid
<1>8. Coordination!EventValid(ev)
  BY <1>2, <1>6 DEF Coordination!EventValid, CoordinationTask
<1>9. /\ t.createdAt = Coordination!Task(id).createdAt
      /\ t.revision = Coordination!Task(id).revision + 1
      /\ ev = Coordination!TaskEvent(ev.kind, id, Coordination!Task(id).status, t.status)
      /\ ev.kind \in {"agent_task_assign", "agent_task_update"}
  BY <1>5, <1>6 DEF old
<1> QED BY <1>3, <1>5, <1>7, <1>8, <1>9, ReplacedKeeps

LEMMA UpdateKeeps ==
  ASSUME CoordinationInv, NEW id \in Coordination!TaskIds, NEW caller \in Coordination!Callers,
         NEW to \in Coordination!Statuses \ {"open", "assigned"}, NEW message \in BOOLEAN,
         NEW artifact \in BOOLEAN,
         Coordination!agentTaskUpdate(id, caller, to, message, artifact)
  PROVE  CoordinationInv'
<1> DEFINE old == Coordination!Task(id)
           t == [old EXCEPT !.status = to, !.message = message, !.artifact = artifact,
                            !.updatedAt = clock, !.revision = @ + 1]
           ev == Coordination!TaskEvent("agent_task_update", id, old.status, to)
<1>1. PICK i \in DOMAIN stored.tasks : stored.tasks[i].id = id /\ old = stored.tasks[i]
  BY TaskFacts
<1>2. old \in CoordinationTask /\ old.id = id /\ old.createdAt <= clock /\ clock \in Nat
      /\ Coordination!TaskValid(old)
  BY <1>1, CoordinationAssumed DEF CoordinationInv, GoodTask
<1>3. /\ Coordination!Mutates(Coordination!Audited([stored EXCEPT !.tasks = Coordination!Replaced(id, t)], ev))
      /\ UNCHANGED tasksCreated
      /\ to \in {"blocked", "failed"} => message
      /\ artifact => to \in {"completed", "failed"}
      /\ old.status \notin Coordination!Terminal /\ (old.status = "open" => to = "cancelled")
  BY DEF Coordination!agentTaskUpdate, Coordination!requireTaskTransition
<1> HIDE DEF old
<1>5. /\ t \in CoordinationTask /\ t.id = id /\ t.createdAt = old.createdAt
      /\ t.revision = old.revision + 1 /\ t.status = to /\ t.assigned = old.assigned
      /\ t.artifact = artifact /\ t.message = message /\ t.updatedAt = clock
  <2>1. old.assigned \in Agents \cup {None} /\ to \in Coordination!Statuses
    BY <1>2 DEF CoordinationTask
  <2>2. t = [old EXCEPT !.status = to, !.assigned = old.assigned, !.message = message,
                        !.artifact = artifact, !.updatedAt = clock, !.revision = @ + 1]
    BY <1>2 DEF CoordinationTask
  <2> HIDE DEF t
  <2>3. TaskAs(t, old, to, old.assigned, message, artifact, clock)
    BY <1>2, <2>1, <2>2, TaskChanged
  <2> QED BY <1>2, <2>3 DEF TaskAs
<1>6. /\ ev.kind = "agent_task_update" /\ ev.from = old.status /\ ev.to = to
      /\ ev = Coordination!TaskEvent(ev.kind, id, old.status, t.status)
  BY <1>5 DEF Coordination!TaskEvent
<1> HIDE DEF t, ev
<1>7. Coordination!TaskValid(t)
  BY <1>2, <1>3, <1>5 DEF Coordination!TaskValid, Coordination!Terminal
<1>8. Coordination!EventValid(ev)
  BY <1>2, <1>6 DEF Coordination!EventValid, CoordinationTask
<1>9. /\ t.createdAt = Coordination!Task(id).createdAt
      /\ t.revision = Coordination!Task(id).revision + 1
      /\ ev = Coordination!TaskEvent(ev.kind, id, Coordination!Task(id).status, t.status)
      /\ ev.kind \in {"agent_task_assign", "agent_task_update"}
      /\ UNCHANGED tasksCreated
      /\ Coordination!Mutates(Coordination!Audited([stored EXCEPT !.tasks = Coordination!Replaced(id, t)], ev))
  BY <1>3, <1>5, <1>6 DEF old, t, ev
<1> QED BY <1>5, <1>7, <1>8, <1>9, ReplacedKeeps

LEMMA RemovedFacts ==
  ASSUME NEW S, NEW seq \in Seq(S), NEW k \in DOMAIN seq
  PROVE  LET less == Coordination!RemoveAt(seq, k)
         IN  /\ less \in Seq(S) /\ Len(less) = Len(seq) - 1
             /\ \A i \in 1 .. Len(less) : less[i] = seq[IF i < k THEN i ELSE i + 1]
<1> DEFINE n == Len(seq)
           front == SubSeq(seq, 1, k - 1)
           back == SubSeq(seq, k + 1, n)
<1>1. n \in Nat /\ k \in 1 .. n /\ k - 1 \in Nat /\ k + 1 \in Nat /\ n - k \in Nat
      /\ \A i \in 1 .. n : seq[i] \in S
  OBVIOUS
<1>2. Coordination!RemoveAt(seq, k) = front \o back
  BY DEF Coordination!RemoveAt
<1> HIDE DEF n
<1>3. /\ front \in Seq(S) /\ Len(front) = k - 1
      /\ \A i \in 1 .. (k - 1) : front[i] = seq[i]
  <2>1. 1 \in Int /\ k - 1 \in Int /\ \A i \in 1 .. (k - 1) : seq[i] \in S
    BY <1>1
  <2>2. /\ front \in Seq(S)
        /\ Len(front) = IF 1 <= k - 1 THEN k - 1 - 1 + 1 ELSE 0
        /\ \A i \in 1 .. k - 1 - 1 + 1 : front[i] = seq[1 + i - 1]
    BY <2>1, SubSeqProperties
  <2>3. k - 1 - 1 + 1 = k - 1 /\ \A i \in 1 .. (k - 1) : 1 + i - 1 = i
    BY <1>1
  <2> HIDE DEF front
  <2> QED BY <1>1, <2>2, <2>3
<1>4. /\ back \in Seq(S) /\ Len(back) = n - k
      /\ \A i \in 1 .. (n - k) : back[i] = seq[k + i]
  <2>1. k + 1 \in Int /\ n \in Int /\ \A i \in (k + 1) .. n : seq[i] \in S
    BY <1>1
  <2>2. /\ back \in Seq(S)
        /\ Len(back) = IF k + 1 <= n THEN n - (k + 1) + 1 ELSE 0
        /\ \A i \in 1 .. n - (k + 1) + 1 : back[i] = seq[k + 1 + i - 1]
    BY <2>1, SubSeqProperties
  <2>3. n - (k + 1) + 1 = n - k /\ \A i \in 1 .. (n - k) : k + 1 + i - 1 = k + i
    <3>1. n \in Int /\ k \in Int
      BY <1>1
    <3>2. n - (k + 1) + 1 = n - k
      BY <3>1
    <3>3. ASSUME NEW i \in Int  PROVE k + 1 + i - 1 = k + i
      BY <3>1
    <3> QED BY <3>2, <3>3
  <2> HIDE DEF back
  <2> QED BY SMTT(30), <1>1, <2>2, <2>3
<1> HIDE DEF front, back
<1> DEFINE less == front \o back
<1>5. /\ less \in Seq(S) /\ Len(less) = n - 1
      /\ \A i \in 1 .. (n - 1) : less[i] = IF i <= k - 1 THEN front[i] ELSE back[i - (k - 1)]
  <2>1. Len(front) + Len(back) = n - 1
    BY <1>1, <1>3, <1>4
  <2>2. /\ less \in Seq(S) /\ Len(less) = Len(front) + Len(back)
        /\ \A i \in 1 .. Len(front) + Len(back) :
             less[i] = IF i <= Len(front) THEN front[i] ELSE back[i - Len(front)]
    BY <1>3, <1>4, ConcatProperties
  <2> HIDE DEF less
  <2> QED BY <1>3, <2>1, <2>2
<1> HIDE DEF less
<1>6. ASSUME NEW i \in 1 .. (n - 1)  PROVE less[i] = seq[IF i < k THEN i ELSE i + 1]
  <2>1. CASE i < k
    <3>1. i \in 1 .. (k - 1) /\ i <= k - 1
      BY <1>1, <2>1
    <3> QED BY <1>3, <1>5, <2>1, <3>1
  <2>2. CASE ~(i < k)
    <3>1. i - (k - 1) \in 1 .. (n - k) /\ ~(i <= k - 1) /\ k + (i - (k - 1)) = i + 1
      BY <1>1, <2>2
    <3> QED BY <1>4, <1>5, <2>2, <3>1
  <2> QED BY <2>1, <2>2
<1> QED BY <1>2, <1>5, <1>6 DEF n, less

\* A board with room for a task more: some of the tasks, each once.
Roomy(room) ==
  /\ room \in Seq(CoordinationTask) /\ Len(room) < TaskLimit
  /\ \A i, j \in DOMAIN room : room[i].id = room[j].id => i = j
  /\ \A i \in DOMAIN room : \E j \in DOMAIN stored.tasks : room[i] = stored.tasks[j]

LEMMA RoomFacts ==
  ASSUME CoordinationInv, NEW room \in Coordination!Rooms
  PROVE  Roomy(room)
<1>1. TaskLimit \in Nat \ {0} /\ stored.tasks \in Seq(CoordinationTask) /\ Len(stored.tasks) <= TaskLimit
  BY CoordinationAssumed, ChatTyped
<1>2. CASE ~(Len(stored.tasks) >= TaskLimit)
  <2>1. room = stored.tasks
    BY <1>2 DEF Coordination!Rooms
  <2>2. Len(room) < TaskLimit
    BY <1>1, <1>2, <2>1
  <2> QED BY <1>1, <2>1, <2>2, ChatTyped DEF Roomy
<1>3. CASE Len(stored.tasks) >= TaskLimit
  <2>1. PICK k \in DOMAIN stored.tasks : room = Coordination!RemoveAt(stored.tasks, k)
    BY <1>3 DEF Coordination!Rooms
  <2>2. /\ room \in Seq(CoordinationTask) /\ Len(room) = Len(stored.tasks) - 1
        /\ \A i \in 1 .. Len(room) : room[i] = stored.tasks[IF i < k THEN i ELSE i + 1]
    BY <1>1, <2>1, RemovedFacts
  <2>3. DOMAIN room = 1 .. (Len(stored.tasks) - 1) /\ Len(stored.tasks) \in Nat
        /\ DOMAIN stored.tasks = 1 .. Len(stored.tasks)
    BY <1>1, <2>2
  <2> DEFINE from(i) == IF i < k THEN i ELSE i + 1
  <2>4. \A i \in DOMAIN room : room[i] = stored.tasks[from(i)] /\ from(i) \in DOMAIN stored.tasks
    BY <2>2, <2>3
  <2>5. \A i, j \in DOMAIN room : from(i) = from(j) => i = j
    BY <2>3
  <2> HIDE DEF from
  <2>6. \A i, j \in DOMAIN room : room[i].id = room[j].id => i = j
    BY <2>4, <2>5, ChatTyped
  <2>7. Len(room) < TaskLimit
    BY <1>1, <2>2
  <2> QED BY <2>2, <2>4, <2>6, <2>7 DEF Roomy
<1> QED BY <1>2, <1>3

LEMMA CreateKeeps ==
  ASSUME CoordinationInv, Coordination!agentTaskCreate
  PROVE  CoordinationInv'
<1> DEFINE id == tasksCreated + 1
           t == Coordination!NewTask(id)
           ev == Coordination!TaskEvent("agent_task_create", id, None, "open")
           ch == stored.chat
<1>1. PICK room \in Coordination!Rooms :
        Coordination!Mutates(Coordination!Audited([stored EXCEPT !.tasks = Append(room, t)], ev))
  BY DEF Coordination!agentTaskCreate
<1>2. /\ tasksCreated' = id /\ id \in Nat \ {0} /\ id \in tasksCreated .. MaxTasks
      /\ tasksCreated \in Nat /\ id > tasksCreated /\ clock \in Nat
  BY CoordinationAssumed DEF Coordination!agentTaskCreate, CoordinationInv
<1>3. /\ t.id = id /\ t.status = "open" /\ t.assigned = None /\ t.artifact = FALSE
      /\ t.createdAt = clock /\ t.updatedAt = clock /\ t.revision = 1 /\ t \in CoordinationTask
  BY <1>2 DEF Coordination!NewTask, CoordinationTask, Coordination!Statuses
<1>4. /\ ev.task = id /\ ev.kind = "agent_task_create" /\ ev.from = None /\ ev.to = "open"
      /\ ev \in AuditEvent
  BY <1>2 DEF Coordination!TaskEvent, AuditEvent, EventKinds, Coordination!Statuses
<1>5. Roomy(room)
  BY RoomFacts
<1> HIDE DEF t, ev, id
<1> DEFINE ts == Append(room, t)
           n == Len(room)
<1>6. /\ ts \in Seq(CoordinationTask) /\ Len(ts) = n + 1 /\ n \in Nat
      /\ DOMAIN room = 1 .. n /\ DOMAIN ts = 1 .. (n + 1)
      /\ \A k \in 1 .. n : ts[k] = room[k]
      /\ ts[n + 1] = t
  BY <1>3, <1>5 DEF Roomy
<1>7. Len(ts) <= TaskLimit
  BY <1>5, <1>6, CoordinationAssumed DEF Roomy
<1>8. stored' = [tasks |-> ts, chat |-> ch, audit |-> Coordination!Appended(stored.audit, ev, AuditLimit)]
      /\ UNCHANGED <<auditor, member, clock>>
  <2>1. Coordination!Mutates(Coordination!Audited([stored EXCEPT !.tasks = ts], ev))
    BY <1>1
  <2> HIDE DEF ts
  <2>2. [stored EXCEPT !.tasks = ts] = [tasks |-> ts, chat |-> ch, audit |-> stored.audit]
    BY ChatTyped
  <2>3. Coordination!Audited([stored EXCEPT !.tasks = ts], ev)
          = [tasks |-> ts, chat |-> ch, audit |-> Coordination!Appended(stored.audit, ev, AuditLimit)]
    BY <2>2, AuditedState
  <2> QED BY <2>1, <2>3 DEF Coordination!Mutates
<1> HIDE DEF ts, n
<1>9. ASSUME NEW k \in 1 .. n
      PROVE  \E j \in DOMAIN stored.tasks :
               ts[k] = stored.tasks[j] /\ ev.task # stored.tasks[j].id /\ stored.tasks[j].id <= tasksCreated
  <2>1. PICK j \in DOMAIN stored.tasks : room[k] = stored.tasks[j]
    BY <1>5, <1>6 DEF Roomy
  <2>2. stored.tasks[j].id <= tasksCreated /\ stored.tasks[j].id \in Nat
    BY DEF CoordinationInv, GoodTask, CoordinationTask
  <2> QED BY <1>2, <1>4, <1>6, <2>1, <2>2
<1>10. ASSUME NEW k \in DOMAIN ts
       PROVE  /\ ts[k].id <= tasksCreated' /\ ts[k].createdAt <= clock /\ Coordination!TaskValid(ts[k])
              /\ Follows(ts[k], ev)
  <2>1. CASE k \in 1 .. n
    <3>1. PICK j \in DOMAIN stored.tasks :
             ts[k] = stored.tasks[j] /\ ev.task # stored.tasks[j].id
      BY <1>9, <2>1
    <3>2. stored.tasks[j].id <= tasksCreated /\ stored.tasks[j].createdAt <= clock
          /\ Coordination!TaskValid(stored.tasks[j]) /\ stored.tasks[j] \in CoordinationTask
          /\ Follows(stored.tasks[j], ev)
      BY <3>1, SameFollow
    <3>3. stored.tasks[j].id \in Nat
      BY <3>2 DEF CoordinationTask
    <3> QED BY <1>2, <3>1, <3>2, <3>3
  <2>2. CASE k = n + 1
    <3>1. ts[k] = t
      BY <1>6, <2>2
    <3>2. Coordination!TaskValid(t)
      BY <1>2, <1>3 DEF Coordination!TaskValid
    <3>3. Follows(t, ev)
      BY <1>2, <1>3, <1>4 DEF Follows
    <3> QED BY <1>2, <1>3, <3>1, <3>2, <3>3
  <2> QED BY <1>6, <2>1, <2>2
<1>11. ASSUME NEW i \in DOMAIN ts, NEW j \in DOMAIN ts, ts[i].id = ts[j].id  PROVE i = j
  <2>1. \A k \in 1 .. n : ts[k].id # id
    <3> SUFFICES ASSUME NEW k \in 1 .. n  PROVE ts[k].id # id
      OBVIOUS
    <3> QED BY <1>4, <1>9
  <2>2. ts[n + 1].id = id
    BY <1>3, <1>6
  <2>3. CASE i \in 1 .. n /\ j \in 1 .. n
    BY <1>5, <1>6, <1>11, <2>3 DEF Roomy
  <2>4. CASE i = n + 1 /\ j = n + 1
    BY <2>4
  <2>5. CASE (i = n + 1 /\ j \in 1 .. n) \/ (i \in 1 .. n /\ j = n + 1)
    BY <1>11, <2>1, <2>2, <2>5
  <2> QED BY <1>6, <2>3, <2>4, <2>5
<1>12. Coordination!EventValid(ev)
  BY <1>4 DEF Coordination!EventValid
<1>13. tasksCreated' \in tasksCreated .. MaxTasks /\ ev.task <= tasksCreated'
  BY <1>2, <1>4
<1>14. Informed(member, ch)
  BY DEF CoordinationInv
<1>15. Writes(ts, ch, ev)
  BY <1>4, <1>6, <1>7, <1>8, <1>10, <1>11, <1>12, <1>13, <1>14, ChatTyped DEF Writes
<1> QED BY <1>15, WritesKeep

\* Reads and the clock leave the file as it is.
LEMMA QuietKeeps ==
  ASSUME CoordinationInv, UNCHANGED <<stored, tasksCreated>>, clock' \in 0 .. MaxClock, clock' >= clock,
         Informed(auditor', stored.audit), Informed(member', stored.chat)
  PROVE  CoordinationInv'
<1>1. PICK s : s = stored
  OBVIOUS
<1>2. stored' = s /\ stored = s /\ tasksCreated' = tasksCreated
  BY <1>1
<1>3. ASSUME NEW k \in DOMAIN s.tasks
      PROVE  /\ GoodTask(s.tasks[k])'
             /\ Trail(About(s.audit, s.tasks[k].id), s.tasks[k].status, s.tasks[k].revision)
  <2>1. PICK t : t = s.tasks[k]
    OBVIOUS
  <2>2. GoodTask(t)
    BY <1>2, <2>1 DEF CoordinationInv
  <2>3. t.createdAt \in Nat /\ clock \in Nat
    BY <2>2, CoordinationAssumed DEF GoodTask, CoordinationTask, CoordinationInv
  <2>4. t.createdAt <= clock'
    BY <2>2, <2>3 DEF GoodTask
  <2>5. GoodTask(t)'
    BY <1>2, <2>2, <2>4 DEF GoodTask
  <2>6. Trail(About(s.audit, s.tasks[k].id), s.tasks[k].status, s.tasks[k].revision)
    BY <1>2 DEF CoordinationInv
  <2> QED BY <2>1, <2>5, <2>6
<1>4. \A k \in DOMAIN stored'.tasks :
        /\ GoodTask(stored.tasks[k])'
        /\ Trail(About(stored.audit, stored.tasks[k].id), stored.tasks[k].status, stored.tasks[k].revision)'
  <2> SUFFICES ASSUME NEW k \in DOMAIN s.tasks
               PROVE  /\ GoodTask(stored.tasks[k])'
                      /\ Trail(About(stored.audit, stored.tasks[k].id), stored.tasks[k].status, stored.tasks[k].revision)'
    BY <1>2
  <2>1. GoodTask(stored.tasks[k])'
    BY <1>2, <1>3 DEF GoodTask
  <2>2. PICK t, a : t = s.tasks[k] /\ a = s.audit
    OBVIOUS
  <2>3. stored'.tasks[k] = t /\ stored'.audit = a
    BY <1>2, <2>2
  <2>4. Trail(About(a, t.id), t.status, t.revision)
    BY <1>3, <2>2
  <2>5. Trail(About(stored.audit, stored.tasks[k].id), stored.tasks[k].status, stored.tasks[k].revision)'
    BY <2>3, <2>4 DEF Trail, About
  <2> QED BY <2>1, <2>5
<1>5. /\ s \in [tasks : Seq(CoordinationTask), chat : LogOf({None}), audit : LogOf(AuditEvent)]
      /\ Coordination!Valid(s)
      /\ \A e \in Entries(s.audit) : e.content.task <= tasksCreated
      /\ tasksCreated \in 0 .. MaxTasks
  BY <1>2 DEF CoordinationInv
<1>6. Informed(auditor, stored.audit)' /\ Informed(member, stored.chat)'
  BY DEF Informed
<1> QED BY <1>2, <1>4, <1>5, <1>6 DEF CoordinationInv

LEMMA ChannelReadKeeps ==
  ASSUME CoordinationInv, Coordination!agentChatRead
  PROVE  CoordinationInv'
<1>1. /\ member' = Coordination!Read(member, stored.chat)
      /\ UNCHANGED <<stored, tasksCreated, auditor, clock>>
  BY DEF Coordination!agentChatRead
<1>2. Informed(member, stored.chat) /\ Informed(auditor, stored.audit)
  BY DEF CoordinationInv
<1>3. Informed(Coordination!Read(member, stored.chat), stored.chat)
  BY <1>2, ChatTyped, ReadInforms
<1>4. clock \in 0 .. MaxClock /\ clock >= clock
  BY CoordinationAssumed DEF CoordinationInv
<1>5. Informed(member', stored.chat) /\ Informed(auditor', stored.audit)
  BY <1>1, <1>2, <1>3
<1> QED BY <1>1, <1>4, <1>5, QuietKeeps

LEMMA AuditReadKeeps ==
  ASSUME CoordinationInv, Coordination!auditRead
  PROVE  CoordinationInv'
<1>1. /\ auditor' = Coordination!Read(auditor, stored.audit)
      /\ UNCHANGED <<stored, tasksCreated, member, clock>>
  BY DEF Coordination!auditRead
<1>2. Informed(member, stored.chat) /\ Informed(auditor, stored.audit)
  BY DEF CoordinationInv
<1>3. Informed(Coordination!Read(auditor, stored.audit), stored.audit)
  BY <1>2, AuditTyped, ReadInforms
<1>4. clock \in 0 .. MaxClock /\ clock >= clock
  BY CoordinationAssumed DEF CoordinationInv
<1>5. Informed(member', stored.chat) /\ Informed(auditor', stored.audit)
  BY <1>1, <1>2, <1>3
<1> QED BY <1>1, <1>4, <1>5, QuietKeeps

LEMMA ClockKeeps ==
  ASSUME CoordinationInv, Coordination!tick
  PROVE  CoordinationInv'
<1>1. /\ clock' = clock + 1 /\ clock' \in 0 .. MaxClock
      /\ UNCHANGED <<stored, tasksCreated, auditor, member>>
  BY DEF Coordination!tick
<1>2. clock \in Nat /\ clock' >= clock
  BY <1>1, CoordinationAssumed DEF CoordinationInv
<1>3. Informed(member', stored.chat) /\ Informed(auditor', stored.audit)
  BY <1>1 DEF CoordinationInv
<1> QED BY <1>1, <1>2, <1>3, QuietKeeps

LEMMA CoordinationUnchanged ==
  ASSUME CoordinationInv, UNCHANGED coordVars
  PROVE  CoordinationInv'
<1>1. UNCHANGED <<stored, tasksCreated, auditor, member, clock>>
  BY DEF coordVars
<1>2. clock' \in 0 .. MaxClock /\ clock' >= clock
  BY <1>1, CoordinationAssumed DEF CoordinationInv
<1>3. Informed(member', stored.chat) /\ Informed(auditor', stored.audit)
  BY <1>1 DEF CoordinationInv
<1> QED BY <1>1, <1>2, <1>3, QuietKeeps

LEMMA CoordinationInitial ==
  ASSUME Coordination!Init
  PROVE  CoordinationInv
<1> DEFINE none == [next |-> 1, entries |-> <<>>]
<1>1. /\ stored = [tasks |-> <<>>, chat |-> none, audit |-> none] /\ tasksCreated = 0 /\ clock = 0
      /\ auditor = [after |-> -1, known |-> {}] /\ member = [after |-> -1, known |-> {}]
  BY DEF Coordination!Init, Coordination!EmptyLog, Coordination!NewReader
<1>2. \A C : none \in LogOf(C)
  BY DEF LogOf
<1>3. Entries(none) = {} /\ DOMAIN stored.tasks = {} /\ Len(stored.tasks) = 0
  BY <1>1 DEF Entries
<1>4. Chat!Contiguous(none, ChatLimit) /\ Chat!Contiguous(none, AuditLimit)
  BY CoordinationAssumed DEF Chat!Contiguous
<1>5. stored.tasks = <<>> /\ stored.chat = none /\ stored.audit = none /\ <<>> \in Seq(CoordinationTask)
  BY <1>1
<1>6. stored \in [tasks : Seq(CoordinationTask), chat : LogOf({None}), audit : LogOf(AuditEvent)]
  BY <1>1, <1>2, <1>5
<1>7. none.next = 1
  OBVIOUS
<1> HIDE DEF none
<1>8. Coordination!Valid(stored)
  <2>1. /\ Chat!Contiguous(stored.chat, ChatLimit)
        /\ Chat!Contiguous(stored.audit, AuditLimit)
        /\ Len(stored.tasks) <= TaskLimit
        /\ \A i, j \in DOMAIN stored.tasks : stored.tasks[i].id = stored.tasks[j].id => i = j
        /\ \A k \in DOMAIN stored.tasks : Coordination!TaskValid(stored.tasks[k])
        /\ \A e \in Entries(stored.audit) : Coordination!EventValid(e.content)
    BY <1>3, <1>4, <1>5, CoordinationAssumed
  <2> QED BY <2>1, ValidFacts
<1>9. Informed(auditor, stored.audit) /\ Informed(member, stored.chat)
  BY <1>1, <1>5, <1>7 DEF Informed
<1>10. tasksCreated \in 0 .. MaxTasks /\ clock \in 0 .. MaxClock
  BY <1>1, CoordinationAssumed
<1> QED BY <1>3, <1>5, <1>6, <1>8, <1>9, <1>10 DEF CoordinationInv

LEMMA CoordinationInductive ==
  ASSUME CoordinationInv, Coordination!Next
  PROVE  CoordinationInv'
<1>1. ASSUME NEW id \in Coordination!TaskIds, NEW message \in BOOLEAN, NEW agent \in Agents,
             Coordination!agentTaskAssign(id, agent, message)
      PROVE  CoordinationInv'
  BY <1>1, AssignKeeps
<1>2. ASSUME NEW id \in Coordination!TaskIds, NEW message \in BOOLEAN,
             NEW caller \in Coordination!Callers, NEW to \in Coordination!Statuses \ {"open", "assigned"},
             NEW artifact \in BOOLEAN,
             Coordination!agentTaskUpdate(id, caller, to, message, artifact)
      PROVE  CoordinationInv'
  BY <1>2, UpdateKeeps
<1> QED BY <1>1, <1>2, PostsKeep, ChannelReadKeeps, AuditReadKeeps, CreateKeeps, ClockKeeps
       DEF Coordination!Next

-----------------------------------------------------------------------------
(* What the invariant says of the properties. *)

LEMMA CoordinationContained ==
  ASSUME CoordinationInv
  PROVE  /\ Coordination!TypeOK /\ Coordination!StateReadable
         /\ Coordination!AuditTrail /\ Coordination!ReadersMissNothing
<1>1. Coordination!TypeOK
  BY DEF CoordinationInv, GoodTask, CoordinationTask, Coordination!TypeOK
<1>2. Coordination!StateReadable
  BY DEF CoordinationInv, Coordination!StateReadable
<1>3. ASSUME NEW id \in Coordination!TaskIds  
      PROVE  /\ Coordination!EventsOf(id) = About(stored.audit, id)
             /\ Trail(About(stored.audit, id), Coordination!Task(id).status, Coordination!Task(id).revision)
  <2>1. PICK k \in DOMAIN stored.tasks : stored.tasks[k].id = id /\ Coordination!Task(id) = stored.tasks[k]
    BY TaskFacts
  <2>2. Trail(About(stored.audit, id), stored.tasks[k].status, stored.tasks[k].revision)
    BY <2>1 DEF CoordinationInv
  <2>3. Coordination!ToSet(stored.audit.entries) = Entries(stored.audit)
    BY DEF Coordination!ToSet, Entries
  <2> QED BY <2>1, <2>2, <2>3 DEF Coordination!EventsOf, About
<1>4. Coordination!AuditTrail
  <2> SUFFICES ASSUME NEW id \in Coordination!TaskIds
               PROVE  \A event \in Coordination!EventsOf(id) :
                 LET earlier == {e \in Coordination!EventsOf(id) : e.cursor < event.cursor}
                     later == {e \in Coordination!EventsOf(id) : e.cursor > event.cursor}
                 IN  /\ \A e \in earlier : (\A other \in earlier : other.cursor <= e.cursor)
                                            => event.content.from = e.content.to
                     /\ later = {} => event.content.to = Coordination!Task(id).status
                     /\ event.content.kind = "agent_task_create" =>
                          earlier = {} /\ Coordination!Cardinality(Coordination!EventsOf(id))
                                            = Coordination!Task(id).revision
    BY DEF Coordination!AuditTrail
  <2>1. PICK E, s, r : /\ E = Coordination!EventsOf(id)
                       /\ s = Coordination!Task(id).status /\ r = Coordination!Task(id).revision
    OBVIOUS
  <2>2. Trail(E, s, r) /\ Coordination!Cardinality(E) = Cardinality(E)
    BY <1>3, <2>1, CoordinationCardinality
  <2> QED BY <2>1, <2>2 DEF Trail
<1>5. Coordination!ReadersMissNothing
  <2>1. Informed(auditor, stored.audit) /\ Informed(member, stored.chat)
    BY DEF CoordinationInv
  <2>2. Chat!Latest(stored.audit) = stored.audit.next - 1
    BY AuditTyped, LogFacts DEF LogSound
  <2>3. Chat!Latest(stored.chat) = stored.chat.next - 1
    BY ChatTyped, LogFacts DEF LogSound
  <2>4. stored.audit.next \in Nat /\ stored.chat.next \in Nat
    BY AuditTyped, ChatTyped DEF LogOf
  <2>5. auditor.after <= Chat!Latest(stored.audit) /\ member.after <= Chat!Latest(stored.chat)
    BY <2>1, <2>2, <2>3, <2>4 DEF Informed
  <2>6. Coordination!Readable(stored.audit, auditor.after) /\ Coordination!Readable(stored.chat, member.after)
    BY <2>5, SameLog DEF Coordination!Readable
  <2> QED BY <2>1, <2>6 DEF Coordination!ReadersMissNothing, Informed
<1> QED BY <1>1, <1>2, <1>4, <1>5

CoordinationPart == part = "coordination" => CoordinationInv

LEMMA CoordinationPartInvariant == AllSpec => []CoordinationPart
<1>1. AllInit => CoordinationPart
  BY CoordinationInitial DEF AllInit, CoordinationPart
<1>2. CoordinationPart /\ [AllNext]_allVars => CoordinationPart'
  <2> SUFFICES ASSUME CoordinationPart, [AllNext]_allVars, part' = "coordination"
               PROVE  CoordinationInv'
    BY DEF CoordinationPart
  <2>1. part = "coordination"
    BY DEF AllNext, ContextsNext, WorkNext, ManagerNext, ChatNext, CoordinationNext, allVars
  <2>2. CASE CoordinationNext
    BY <2>1, <2>2, CoordinationInductive DEF CoordinationPart, CoordinationNext
  <2>3. CASE UNCHANGED coordVars
    BY <2>1, <2>3, CoordinationUnchanged DEF CoordinationPart
  <2> QED BY <2>1, <2>2, <2>3 DEF AllNext, ContextsNext, WorkNext, ManagerNext, ChatNext, allVars
<1> QED BY <1>1, <1>2, PTL DEF AllSpec

-----------------------------------------------------------------------------
(* The readers and the audit. *)

\* Who reads the chat of a project, the channel of the agents or the audit by cursors
\* misses no entry without being told that there is a gap, and its cursor stays one
\* that the log accepts.  Of the chat it is said while one process serves the project
\* (src/src/chat.ts keeps no lock between processes).
THEOREM ReadersMissNothingHolds ==
  ASSUME OneProcess
  PROVE  AllSpec => []ReadersMissNothing
<1>1. ChatPart /\ CoordinationPart => ReadersMissNothing
  BY ChatContained, CoordinationContained DEF ChatPart, CoordinationPart, ReadersMissNothing
<1> QED BY <1>1, ChatPartInvariant, CoordinationPartInvariant, PTL

\* The coordination file stays one that the next operation can read, and its audit
\* tells how each task came to be what it is.
THEOREM AuditTrailHolds ==
  AllSpec => []AuditTrail
<1>1. CoordinationPart => AuditTrail
  BY CoordinationContained DEF CoordinationPart, AuditTrail
<1> QED BY <1>1, CoordinationPartInvariant, PTL

=============================================================================
