---------------------------- MODULE AgentManager ----------------------------
(***************************************************************************)
(* The supervisor of local agents (src/src/agents/manager.ts) with the     *)
(* runtime that it drives (src/src/agents/pi-sdk-adapter.ts).              *)
(*                                                                         *)
(* An agent has two queues: operations (messages to it, and the cleanup    *)
(* after its end) run one after the other, and controls (cancel and stop)  *)
(* run beside them.  Each waits for the runtime in the middle, and the     *)
(* runtime reports what happens to it at any time.  The texts, roles and   *)
(* permissions of an agent, its output and the listeners are left out.     *)
(***************************************************************************)
EXTENDS Integers, FiniteSets, Sequences

CONSTANTS
  MaxConcurrentAgents,
  MaxRetainedAgents,
  MaxAgents,   \* bound: agents ever spawned
  MaxWaiting,  \* bound: entries of each queue
  MaxFailures  \* bound: failed stops

ManagerAssumption ==
  /\ {MaxConcurrentAgents, MaxRetainedAgents, MaxAgents, MaxWaiting} \subseteq Nat \ {0}
  /\ MaxRetainedAgents >= MaxConcurrentAgents
  /\ MaxFailures \in Nat

VARIABLES
  agents,    \* the agents ever spawned, in order
  disposed,  \* whether the manager was disposed of
  failures   \* stops that the runtime failed

managerVars == <<agents, disposed, failures>>

Terminal == {"completed", "failed", "stopped"}
Active   == {"starting", "running", "waiting", "cancelling", "stopping", "stop_failed"}

Starting ==
  [known |-> TRUE,          \* still in the map of the manager
   status |-> "starting",
   handle |-> "none",       \* none, ready, failed: what the spawn of the runtime came to
   released |-> FALSE,      \* runtimeReleased
   aborted |-> FALSE,       \* the signal of its lifetime
   overtaken |-> FALSE,     \* cancellationRevision differs from that of the message's turn
   ops |-> <<>>, opAt |-> "begin", opStatus |-> "starting",
   ctl |-> <<>>, ctlAt |-> "begin", ctlStatus |-> "starting",
   session |-> "none",      \* none, live, disposed: the session of the runtime
   stopRequested |-> FALSE, \* the runtime was told to stop
   firstTurn |-> FALSE]     \* the turn for the first message is not over

Indices == DOMAIN agents
Known == {k \in Indices : agents[k].known}

TypeOK ==
  /\ disposed \in BOOLEAN
  /\ failures \in 0 .. MaxFailures
  /\ \A k \in Indices :
       /\ agents[k].status \in Active \cup Terminal
       /\ agents[k].ops \in Seq({"send", "cleanup"})
       /\ agents[k].ctl \in Seq({"cancel", "stop"})
       /\ agents[k].opAt \in {"begin", "turn", "release"}
       /\ agents[k].ctlAt \in {"begin", "cancel", "handle", "cancel turn", "release"}
       /\ agents[k].released <=> agents[k].handle = "failed" \/ agents[k].session = "disposed"

Init ==
  /\ agents = <<>>
  /\ disposed = FALSE
  /\ failures = 0

Become(k, agent) ==
  /\ agents' = [agents EXCEPT ![k] = agent]
  /\ UNCHANGED disposed

OpOver(a)  == [a EXCEPT !.ops = Tail(@), !.opAt = "begin"]
CtlOver(a) == [a EXCEPT !.ctl = Tail(@), !.ctlAt = "begin"]

-----------------------------------------------------------------------------
(* Spawning. *)

\* The manager forgets as many ended agents as a new one needs, if there are.
Forgettable ==
  LET ended == {k \in Known : agents[k].status \in Terminal}
      excess == Cardinality(Known) - MaxRetainedAgents + 1
  IN  {F \in SUBSET ended :
         Cardinality(F) = IF excess <= 0 THEN 0
                          ELSE IF excess < Cardinality(ended) THEN excess ELSE Cardinality(ended)}

spawn ==
  /\ ~disposed
  /\ Len(agents) < MaxAgents
  /\ Cardinality({k \in Known : agents[k].status \in Active}) < MaxConcurrentAgents
  /\ \E forgotten \in Forgettable :
       /\ Cardinality(Known \ forgotten) < MaxRetainedAgents
       /\ agents' = Append([k \in Indices |-> [agents[k] EXCEPT !.known = @ /\ k \notin forgotten]],
                           Starting)
  /\ UNCHANGED <<disposed, failures>>

\* The runtime is there and works on its first message.
spawnReturns(k) ==
  /\ agents[k].handle = "none"
  /\ Become(k, [agents[k] EXCEPT !.handle = "ready", !.session = "live", !.firstTurn = TRUE,
                                 !.status = IF @ = "starting" THEN "running" ELSE @])
  /\ UNCHANGED failures

spawnFails(k) ==
  /\ agents[k].handle = "none"
  /\ Become(k, [agents[k] EXCEPT !.handle = "failed", !.released = TRUE,
                  !.status = IF @ = "stopping" \/ agents[k].aborted THEN "stopped" ELSE "failed"])
  /\ UNCHANGED failures

-----------------------------------------------------------------------------
(* What the runtime reports. *)

\* An agent that ended, or that is being stopped, is past its runtime's say.
Reported(a, event) ==
  IF ~a.known \/ a.status \in Terminal \cup {"stopping"} THEN a
  ELSE IF event \in {"running", "waiting"} THEN [a EXCEPT !.status = event]
  ELSE [a EXCEPT !.status = event, !.ops = Append(@, "cleanup")]

InTurn(a) == a.firstTurn \/ a.opAt = "turn"

report(k, event) ==
  /\ agents[k].session = "live"
  /\ ~agents[k].stopRequested
  /\ InTurn(agents[k])
  /\ Become(k, Reported(agents[k], event))
  /\ UNCHANGED failures

\* A turn is over, or it failed; a failure of a stopped runtime is not reported.
AfterTurn(a, outcome) ==
  CASE outcome = "done" /\ ~a.stopRequested                 -> Reported(a, "waiting")
    [] outcome = "failed" /\ ~a.stopRequested /\ ~a.aborted -> Reported(a, "failed")
    [] OTHER                                                -> a

firstTurnEnds(k, outcome) ==
  /\ agents[k].firstTurn
  /\ Become(k, AfterTurn([agents[k] EXCEPT !.firstTurn = FALSE], outcome))
  /\ UNCHANGED failures

-----------------------------------------------------------------------------
(* The queue of operations. *)

\* A message that the runtime refused leaves the agent as it was, unless a
\* cancel or a stop came in between.
Restored(a) ==
  IF a.status \in Terminal \/ a.overtaken THEN a
  ELSE [a EXCEPT !.status = a.opStatus]

send(k) ==
  /\ agents[k].known
  /\ Len(agents[k].ops) < MaxWaiting
  /\ Become(k, [agents[k] EXCEPT !.ops = Append(@, "send")])
  /\ UNCHANGED failures

sendBegins(k) ==
  LET a == agents[k]
      accepted == /\ ~disposed
                  /\ a.status \in {"running", "waiting"}
                  /\ a.handle = "ready"
                  /\ ~a.stopRequested
  IN
  /\ a.ops # <<>> /\ Head(a.ops) = "send" /\ a.opAt = "begin"
  /\ Become(k, IF accepted
                 THEN [a EXCEPT !.opAt = "turn", !.opStatus = a.status, !.overtaken = FALSE,
                                !.status = "running"]
                 ELSE OpOver(a))
  /\ UNCHANGED failures

sendEnds(k, outcome) ==
  LET a == agents[k] IN
  /\ a.ops # <<>> /\ Head(a.ops) = "send" /\ a.opAt = "turn"
  /\ Become(k, OpOver(IF outcome = "done" THEN AfterTurn(a, "done")
                      ELSE Restored(AfterTurn(a, outcome))))
  /\ UNCHANGED failures

\* The runtime is told to stop.  (Its session is unsubscribed at once.)
Releasing(a) == [a EXCEPT !.aborted = TRUE, !.stopRequested = TRUE]

\* The release of the runtime is over, or it failed: then the agent stays.
ReleaseEnds(a, preserve) ==
  [a EXCEPT !.released = TRUE, !.session = "disposed",
            !.status = IF preserve \/ @ \in Terminal THEN @ ELSE "stopped"]

ReleaseFails(a) == [a EXCEPT !.status = "stop_failed"]

cleanupBegins(k) ==
  LET a == agents[k] IN
  /\ a.ops # <<>> /\ Head(a.ops) = "cleanup" /\ a.opAt = "begin"
  /\ Become(k, IF a.status \notin Terminal \/ a.released THEN OpOver(a)
               ELSE [Releasing(a) EXCEPT !.opAt = "release"])
  /\ UNCHANGED failures

cleanupEnds(k) ==
  LET a == agents[k] IN
  /\ a.ops # <<>> /\ Head(a.ops) = "cleanup" /\ a.opAt = "release"
  /\ \/ /\ Become(k, OpOver(ReleaseEnds(a, TRUE)))
        /\ UNCHANGED failures
     \/ /\ failures < MaxFailures
        /\ failures' = failures + 1
        /\ Become(k, OpOver(ReleaseFails(a)))

-----------------------------------------------------------------------------
(* The queue of controls. *)

control(k, op) ==
  /\ agents[k].known
  /\ Len(agents[k].ctl) < MaxWaiting
  /\ Become(k, [agents[k] EXCEPT !.ctl = Append(@, op)])
  /\ UNCHANGED failures

cancelBegins(k) ==
  LET a == agents[k] IN
  /\ a.ctl # <<>> /\ Head(a.ctl) = "cancel" /\ a.ctlAt = "begin"
  /\ Become(k, IF disposed \/ a.status \notin {"running", "waiting"} \/ a.handle # "ready"
                 THEN CtlOver(a)
                 ELSE [a EXCEPT !.ctlAt = "cancel", !.ctlStatus = a.status, !.overtaken = TRUE,
                                !.status = "cancelling"])
  /\ UNCHANGED failures

Cancelled(a) == IF a.status = "cancelling" THEN [a EXCEPT !.status = "waiting"] ELSE a

\* (A runtime that was already told to stop says nothing.)
cancelEnds(k) ==
  LET a == agents[k] IN
  /\ a.ctlAt = "cancel"
  /\ \/ \E said \in {a, Reported(a, "waiting")} : Become(k, CtlOver(Cancelled(said)))
     \/ Become(k, CtlOver(IF a.status \in Terminal THEN a ELSE [a EXCEPT !.status = a.ctlStatus]))
  /\ UNCHANGED failures

\* A stop does not wait behind a turn.  It keeps the status of an agent that
\* ended, and it owns that of any other from now on.
stopBegins(k) ==
  LET a == agents[k] IN
  /\ a.ctl # <<>> /\ Head(a.ctl) = "stop" /\ a.ctlAt = "begin"
  /\ Become(k, [a EXCEPT !.ctlAt = "handle", !.ctlStatus = a.status, !.overtaken = TRUE,
                         !.aborted = TRUE,
                         !.status = IF @ \in Terminal THEN @ ELSE "stopping"])
  /\ UNCHANGED failures

Release(a) == IF a.released THEN CtlOver(a) ELSE [Releasing(a) EXCEPT !.ctlAt = "release"]

\* It waits for a start to come to an end, and cancels the turn in progress.
stopHandle(k) ==
  LET a == agents[k] IN
  /\ a.ctlAt = "handle"
  /\ a.handle # "none"
  /\ Become(k, IF a.released THEN CtlOver(a)
               ELSE IF a.ctlStatus \in {"running", "cancelling"} THEN [a EXCEPT !.ctlAt = "cancel turn"]
               ELSE Release(a))
  /\ UNCHANGED failures

stopCancels(k) ==
  /\ agents[k].ctlAt = "cancel turn"
  /\ \E said \in {agents[k], Reported(agents[k], "waiting")} : Become(k, Release(said))
  /\ UNCHANGED failures

stopEnds(k) ==
  LET a == agents[k] IN
  /\ a.ctl # <<>> /\ Head(a.ctl) = "stop" /\ a.ctlAt = "release"
  /\ \/ /\ Become(k, CtlOver(ReleaseEnds(a, a.ctlStatus \in Terminal)))
        /\ UNCHANGED failures
     \/ /\ failures < MaxFailures
        /\ failures' = failures + 1
        /\ Become(k, CtlOver(ReleaseFails(a)))

\* Mutant: an agent that is still starting is left alone.
Mutant_dispose ==
  /\ ~disposed
  /\ disposed' = TRUE
  /\ agents' = [k \in Indices |->
       IF agents[k].known /\ agents[k].handle = "ready" /\ ~agents[k].released
         THEN [agents[k] EXCEPT !.ctl = Append(@, "stop")] ELSE agents[k]]
  /\ UNCHANGED failures

\* Everything that runs is stopped.
dispose ==
  /\ ~disposed
  /\ disposed' = TRUE
  /\ agents' = [k \in Indices |->
       IF agents[k].known /\ ~agents[k].released
         THEN [agents[k] EXCEPT !.ctl = Append(@, "stop")] ELSE agents[k]]
  /\ UNCHANGED failures

-----------------------------------------------------------------------------
Next ==
  \/ spawn \/ dispose
  \/ \E k \in Indices :
       \/ spawnReturns(k) \/ spawnFails(k)
       \/ \E event \in {"running", "waiting", "completed"} : report(k, event)
       \/ \E outcome \in {"done", "failed"} : firstTurnEnds(k, outcome)
       \/ send(k) \/ sendBegins(k)
       \/ \E outcome \in {"done", "failed", "rejected"} : sendEnds(k, outcome)
       \/ cleanupBegins(k) \/ cleanupEnds(k)
       \/ \E op \in {"cancel", "stop"} : control(k, op)
       \/ cancelBegins(k) \/ cancelEnds(k)
       \/ stopBegins(k) \/ stopHandle(k) \/ stopCancels(k) \/ stopEnds(k)

Spec == Init /\ [][Next]_managerVars

-----------------------------------------------------------------------------
(* Properties. *)

\* A stop owns the outcome: whatever the runtime reports, and whatever a
\* message or a cancel in progress comes to, an agent that is being stopped
\* becomes stopped, or its stop failed (reportRuntimeEvent, send, cancel).
StopOwns ==
  \A k \in Indices :
    agents[k].status = "stopping" => agents'[k].status \in {"stopping", "stopped", "stop_failed"}

\* How an agent ended does not change any more, except that its release failed.
EndKept ==
  \A k \in Indices :
    agents[k].status \in Terminal => agents'[k].status \in {agents[k].status, "stop_failed"}

Pending(a) == "cleanup" \in {a.ops[i] : i \in DOMAIN a.ops} \/ "stop" \in {a.ctl[i] : i \in DOMAIN a.ctl}

\* No runtime is lost: one that lives belongs to an agent that counts against
\* the limit and can be stopped, or its release is under way.  After a failed
\* stop of a forgotten agent nothing is promised.
NoStrayRuntime ==
  \A k \in Indices :
    agents[k].session = "live" =>
      \/ agents[k].known /\ agents[k].status \in Active
      \/ Pending(agents[k])
      \/ failures > 0 /\ ~agents[k].known

\* The limit holds; only the failed stop of an agent that had ended comes on top.
WithinLimit ==
  Cardinality({k \in Known : agents[k].status \in Active}) <= MaxConcurrentAgents + failures

\* After the manager was disposed of, what still lives is being stopped, or
\* its stop failed.
DisposeStops ==
  disposed => \A k \in Indices :
    agents[k].handle = "none" \/ agents[k].session = "live" => Pending(agents[k]) \/ failures > 0

=============================================================================
