------------------------------ MODULE AgentWork ------------------------------
(***************************************************************************)
(* The work loop of the agents (src/src/work-loop.ts) and the tools that   *)
(* drive it (src/src/mcp-core.ts).  Each collaboration session that joined *)
(* has a participant: working, waiting for a task, offline, or released by *)
(* the manager for good.  A tool call is several steps: operations on the  *)
(* participants, on the task board and back, and the calls of all          *)
(* transports interleave.                                                  *)
(*                                                                         *)
(* The sessions do what module SessionLifecycle allows; the board is the   *)
(* part of module AgentTasks that says who owns which task.  An operation  *)
(* on the participants holds the store's lock and first puts those offline *)
(* whose session has ended.                                                *)
(***************************************************************************)
EXTENDS Integers, FiniteSets, Functions

CONSTANTS
  Ids,              \* collaboration sessions
  Managers,         \* those with the manager role
  Tasks,            \* tasks of the board
  Calls,            \* tool calls in flight
  NoOne,            \* no session
  MaxParticipants,  \* AGENT_WORK_STATE_LIMIT
  MaxTimeouts,      \* where consecutiveTimeouts stops
  MaxRevision       \* bound: changes of a participant

WorkAssumption ==
  /\ Managers \subseteq Ids
  /\ NoOne \notin Ids
  /\ {MaxParticipants, MaxTimeouts, MaxRevision} \subseteq Nat \ {0}

VARIABLES
  status,        \* the sessions, see SessionLifecycle
  participants,  \* the stored participants, by session
  tasks,         \* what the board says of each task
  calls,         \* where each tool call is
  raced          \* history: those whose release rests on what could still change

workVars == <<status, participants, tasks, calls, raced>>

Sessions == INSTANCE SessionLifecycle

Lifecycles == {"working", "waiting_for_task", "offline", "released"}

Idle == [tool |-> "none", session |-> NoOne, step |-> "idle", target |-> NoOne, revision |-> 0,
         active |-> FALSE, raced |-> FALSE]

Steps == {"idle", "mark working", "claim", "claim next", "finish", "register", "look for own",
          "report working", "report waiting", "snapshot", "wait", "poll", "record",
          "list states", "list tasks", "release"}

\* What every read of the file asks of it: the manager who released a participant is
\* named with it, and nobody else is.
validateStoredParticipant(p) ==
  /\ p \in [lifecycle : Lifecycles, timeouts : 0 .. MaxTimeouts,
             releasedBy : Ids \cup {NoOne}, revision : 1 .. MaxRevision]
  /\ p.lifecycle = "released" <=> p.releasedBy # NoOne

validateStoredState ==
  /\ DOMAIN participants \subseteq Ids /\ Cardinality(DOMAIN participants) <= MaxParticipants
  /\ \A s \in DOMAIN participants : validateStoredParticipant(participants[s])

TypeOK ==
  /\ status \in [Ids -> Sessions!Statuses]
  /\ validateStoredState
  /\ tasks \in [Tasks -> [state : {"open", "working", "input_required", "done"},
                          owner : Ids \cup {NoOne}]]
  /\ calls \in [Calls -> [tool : {"none", "claim", "finish", "wait", "release"},
                          session : Ids \cup {NoOne}, step : Steps, target : Ids \cup {NoOne},
                          revision : 0 .. MaxRevision, active : BOOLEAN, raced : BOOLEAN]]
  /\ raced \subseteq Ids

Init ==
  /\ Sessions!Init
  /\ participants = [s \in {} |-> Idle]
  /\ tasks = [t \in Tasks |-> [state |-> "open", owner |-> NoOne]]
  /\ calls = [c \in Calls |-> Idle]
  /\ raced = {}

Owned(s, state) == \E t \in Tasks : tasks[t].owner = s /\ tasks[t].state = state

Usable(s) == status[s] \in Sessions!Usable

-----------------------------------------------------------------------------
(* The store of the participants. *)

\* A participant that moves on.
Moved(p, lifecycle) ==
  [p EXCEPT !.lifecycle = lifecycle, !.revision = @ + 1,
            !.timeouts = IF lifecycle = "working" THEN 0 ELSE @]

\* The participants whose session is gone or has ended are offline.
readReconciledState ==
  [s \in DOMAIN participants |->
     IF participants[s].lifecycle \in {"working", "waiting_for_task"} /\ ~Usable(s)
       THEN Moved(participants[s], "offline") ELSE participants[s]]

\* Revisions stop at their bound; those released move no more.
Bounded ==
  \A s \in DOMAIN participants :
    participants[s].lifecycle # "released" => participants[s].revision + 2 <= MaxRevision

Put(s, p) == Bounded /\ participants' = [readReconciledState EXCEPT ![s] = p]
Look      == Bounded /\ participants' = readReconciledState

\* At the limit the longest unchanged participant that is released or offline
\* goes (which one is left open here); if there is none, nobody joins.
Rooms(ps) ==
  IF Cardinality(DOMAIN ps) < MaxParticipants THEN {ps}
  ELSE {Restrict(ps, DOMAIN ps \ {s}) :
          s \in {i \in DOMAIN ps : ps[i].lifecycle \in {"released", "offline"}}}

NewParticipant == [lifecycle |-> "working", timeouts |-> 0, releasedBy |-> NoOne, revision |-> 1]

\* A session that is not known joins; one that was offline is back.
register(s) ==
  LET ps == readReconciledState IN
  /\ Usable(s)
  /\ Bounded
  /\ \/ /\ s \in DOMAIN ps
        /\ participants' = IF ps[s].lifecycle = "offline"
                             THEN [ps EXCEPT ![s] = Moved(@, "working")] ELSE ps
     \/ /\ s \notin DOMAIN ps
        /\ \E room \in Rooms(ps) :
             participants' = [i \in DOMAIN room \cup {s} |->
                                IF i = s THEN NewParticipant ELSE room[i]]

\* Mutant: a released participant is marked like another.
Mutant_mark(s, lifecycle) ==
  LET p == readReconciledState[s] IN
  /\ s \in DOMAIN participants
  /\ Put(s, IF p.lifecycle = lifecycle THEN p ELSE Moved(p, lifecycle))

\* markWorking and markWaiting.
mark(s, lifecycle) ==
  LET p == readReconciledState[s] IN
  /\ s \in DOMAIN participants
  /\ Put(s, IF p.lifecycle \in {"released", lifecycle} THEN p ELSE Moved(p, lifecycle))

\* What a wait found: `active' if there is a task to go on with.
recordOutcome(s, changed, active) ==
  LET p == readReconciledState[s] IN
  /\ s \in DOMAIN participants
  /\ Put(s, IF p.lifecycle = "released" THEN p
            ELSE [Moved(p, IF active THEN "working" ELSE "waiting_for_task") EXCEPT
                    !.timeouts = IF changed THEN 0
                                 ELSE IF p.timeouts < MaxTimeouts THEN p.timeouts + 1
                                 ELSE MaxTimeouts])

disconnect(s) ==
  LET p == readReconciledState[s] IN
  /\ s \in DOMAIN participants
  /\ Put(s, IF p.lifecycle \in {"released", "offline"} THEN p ELSE Moved(p, "offline"))

\* Mutant: the decision holds for any revision.
Mutant_mayRelease(manager, target, revision) ==
  LET p == readReconciledState[target] IN
  /\ manager # target
  /\ target \in DOMAIN participants
  /\ p.lifecycle \in {"waiting_for_task", "offline"}

\* The manager's decision holds for the revision it was made on.
mayRelease(manager, target, revision) ==
  LET p == readReconciledState[target] IN
  /\ manager # target
  /\ target \in DOMAIN participants
  /\ p.revision = revision
  /\ p.lifecycle \in {"waiting_for_task", "offline"}

releaseByManager(manager, target) ==
  Put(target, [Moved(readReconciledState[target], "released") EXCEPT !.releasedBy = manager])

-----------------------------------------------------------------------------
(* The sessions, their transports and the board. *)

\* Sessions start, lapse, are resumed and end.
SessionStep(s) ==
  /\ \E next \in Sessions!After(status[s]) : status' = [status EXCEPT ![s] = next]
  /\ UNCHANGED <<participants, tasks, calls, raced>>

\* A transport goes away; its calls may still be running.
Disconnect(s) ==
  /\ disconnect(s)
  /\ UNCHANGED <<status, tasks, calls, raced>>

\* Leases end, owners ask for input, somebody answers.
BoardStep(t) ==
  /\ \/ /\ tasks[t].state \in {"working", "input_required"}
        /\ tasks' = [tasks EXCEPT ![t] = [state |-> "open", owner |-> NoOne]]
     \/ /\ tasks[t].state = "working"
        /\ tasks' = [tasks EXCEPT ![t].state = "input_required"]
     \/ /\ tasks[t].state = "input_required"
        /\ tasks' = [tasks EXCEPT ![t].state = "working"]
  /\ UNCHANGED <<status, participants, calls, raced>>

-----------------------------------------------------------------------------
(* The tools.  A call is at a step and goes from there to another one. *)

\* A session's calls overlap: a server counts those of a session and does not
\* keep them apart.  The first step of each tool.
Starts == [claim |-> "mark working", finish |-> "finish", wait |-> "register",
           release |-> "list states"]

Begin(c, s, tool) ==
  /\ calls[c] = Idle
  /\ Usable(s)
  /\ tool = "release" => s \in Managers
  /\ calls' = [calls EXCEPT ![c] = [Idle EXCEPT !.tool = tool, !.session = s, !.step = Starts[tool]]]
  /\ UNCHANGED <<status, participants, tasks, raced>>

At(c, step) == calls[c].step = step

Go(c, step) == calls' = [calls EXCEPT ![c].step = step]
Return(c)   == calls' = [calls EXCEPT ![c] = Idle]

\* Released participants are told to stop.
GoUnlessReleased(c, step) ==
  IF participants'[calls[c].session].lifecycle = "released" THEN Return(c) ELSE Go(c, step)

\* A call fails wherever it is: an operation throws, or the session has ended.
\* What a finish does after the task is finished only ends the search for the next.
Fails(c) ==
  /\ calls[c] # Idle
  /\ IF calls[c].tool = "finish" /\ calls[c].step \notin {"finish", "report waiting"}
       THEN Go(c, "report waiting") ELSE Return(c)
  /\ UNCHANGED <<status, participants, tasks, raced>>

\* agent_task_claim and agent_task_claim_next (the second one picks the task),
\* and the search for a next task after a finish.
MarkWorking(c) ==
  /\ At(c, "mark working")
  /\ mark(calls[c].session, "working")
  /\ GoUnlessReleased(c, IF calls[c].tool = "claim" THEN "claim" ELSE "claim next")
  /\ UNCHANGED <<status, tasks, raced>>

Claimed(t, s) == tasks' = [tasks EXCEPT ![t] = [state |-> "working", owner |-> s]]

Claim(c) ==
  /\ At(c, "claim")
  /\ \E t \in Tasks : tasks[t].state = "open" /\ Claimed(t, calls[c].session)
  /\ Return(c)
  /\ UNCHANGED <<status, participants, raced>>

ClaimNext(c) ==
  /\ At(c, "claim next")
  /\ \/ /\ \E t \in Tasks : tasks[t].state = "open" /\ Claimed(t, calls[c].session)
        /\ Go(c, "report working")
     \/ /\ Go(c, "report waiting")
        /\ UNCHANGED tasks
  /\ UNCHANGED <<status, participants, raced>>

\* agent_task_finish, then seekNextReadyTask.
Finish(c) ==
  /\ At(c, "finish")
  /\ \E t \in Tasks :
       /\ tasks[t].owner = calls[c].session
       /\ tasks[t].state \in {"working", "input_required"}
       /\ tasks' = [tasks EXCEPT ![t] = [state |-> "done", owner |-> NoOne]]
  /\ Go(c, "register")
  /\ UNCHANGED <<status, participants, raced>>

\* The revisions of a participant that was dropped start again when it joins, so
\* that a decision on it may meet its revision by chance.
Dropped(c) == calls[c].target \in DOMAIN participants \ DOMAIN participants'

Register(c) ==
  /\ At(c, "register")
  /\ register(calls[c].session)
  /\ LET p == participants'[calls[c].session]
         step == IF p.lifecycle = "released" THEN "idle"
                 ELSE IF calls[c].tool = "finish" THEN "look for own" ELSE "snapshot"
     IN calls' = [d \in Calls |->
                    IF d = c THEN IF step = "idle" THEN Idle ELSE [calls[c] EXCEPT !.step = step]
                    ELSE [calls[d] EXCEPT !.raced = @ \/ Dropped(d)]]
  /\ UNCHANGED <<status, tasks, raced>>

LookForOwn(c) ==
  /\ At(c, "look for own")
  /\ Go(c, IF Owned(calls[c].session, "working") THEN "report working"
           ELSE IF Owned(calls[c].session, "input_required") THEN "report waiting"
           ELSE "mark working")
  /\ UNCHANGED <<status, participants, tasks, raced>>

Report(c) ==
  /\ \/ At(c, "report working") /\ mark(calls[c].session, "working")
     \/ At(c, "report waiting") /\ mark(calls[c].session, "waiting_for_task")
  /\ Return(c)
  /\ UNCHANGED <<status, tasks, raced>>

\* agent_work_wait: a snapshot that differs from the caller's is the answer;
\* otherwise the caller waits and looks again every second.
Snapshot(c) ==
  /\ At(c, "snapshot")
  /\ \/ calls' = [calls EXCEPT ![c].step = "record", ![c].active = Owned(calls[c].session, "working"),
                               ![c].revision = 1]
     \/ Go(c, "wait")
  /\ UNCHANGED <<status, participants, tasks, raced>>

Wait(c) ==
  /\ At(c, "wait")
  /\ mark(calls[c].session, "waiting_for_task")
  /\ GoUnlessReleased(c, "poll")
  /\ UNCHANGED <<status, tasks, raced>>

\* It learns that it was released, that something has changed, or that its time
\* is over; or it goes on waiting.
Poll(c) ==
  /\ At(c, "poll")
  /\ calls[c].session \in DOMAIN participants
  /\ Look
  /\ \/ GoUnlessReleased(c, "poll")
     \/ /\ participants'[calls[c].session].lifecycle # "released"
        /\ \E changed \in {0, 1} :
             calls' = [calls EXCEPT ![c].step = "record", ![c].revision = changed,
                                    ![c].active = changed = 1 /\ Owned(calls[c].session, "working")]
  /\ UNCHANGED <<status, tasks, raced>>

Record(c) ==
  /\ At(c, "record")
  /\ recordOutcome(calls[c].session, calls[c].revision = 1, calls[c].active)
  /\ Return(c)
  /\ UNCHANGED <<status, tasks, raced>>

\* A call of the session has been let through and has not claimed yet.
Claiming(s) == \E c \in Calls : calls[c].session = s /\ calls[c].step \in {"claim", "claim next"}

\* The manager reads the states, then the tasks, then releases.
ListStates(c) ==
  /\ At(c, "list states")
  /\ Look
  /\ \E target \in DOMAIN participants :
       calls' = [calls EXCEPT ![c].step = "list tasks", ![c].target = target,
                              ![c].revision = readReconciledState[target].revision,
                              ![c].raced = Claiming(target)]
  /\ UNCHANGED <<status, tasks, raced>>

ListTasks(c) ==
  /\ At(c, "list tasks")
  /\ ~Owned(calls[c].target, "working")
  /\ ~Owned(calls[c].target, "input_required")
  /\ Go(c, "release")
  /\ UNCHANGED <<status, participants, tasks, raced>>

Release(c) ==
  /\ At(c, "release")
  /\ mayRelease(calls[c].session, calls[c].target, calls[c].revision)
  /\ releaseByManager(calls[c].session, calls[c].target)
  /\ raced' = IF calls[c].raced THEN raced \cup {calls[c].target} ELSE raced \ {calls[c].target}
  /\ Return(c)
  /\ UNCHANGED <<status, tasks>>

Proceed(c) ==
  \/ MarkWorking(c) \/ Claim(c) \/ ClaimNext(c)
  \/ Finish(c) \/ Register(c) \/ LookForOwn(c) \/ Report(c)
  \/ Snapshot(c) \/ Wait(c) \/ Poll(c) \/ Record(c)
  \/ ListStates(c) \/ ListTasks(c) \/ Release(c)

Next ==
  \/ \E s \in Ids : SessionStep(s) \/ Disconnect(s)
  \/ \E t \in Tasks : BoardStep(t)
  \/ \E c \in Calls :
       \/ \E s \in Ids, tool \in DOMAIN Starts : Begin(c, s, tool)
       \/ Fails(c)
       \/ Proceed(c)

Spec == Init /\ [][Next]_workVars

-----------------------------------------------------------------------------
(* Properties. *)

\* agent_work_release: "Permanently release one waiting or offline collaboration
\* session that owns no working or input-required task".  The manager looks at the
\* states, then at the tasks, and then releases; calls of the session go on
\* between.  A released participant owns no task, unless a call of it had been let
\* through before the manager looked and claimed afterwards, or the participant
\* was dropped after the manager had looked and joined anew.
ReleasedOwnsNothing ==
  \A s \in DOMAIN participants : participants[s].lifecycle = "released" =>
    \/ ~Owned(s, "working") /\ ~Owned(s, "input_required")
    \/ s \in raced

\* A release is final: the participant stays released until it is dropped at the
\* limit, whatever calls of its session are still running.
ReleaseFinal ==
  \A s \in DOMAIN participants :
    participants[s].lifecycle = "released" /\ s \in DOMAIN participants'
      => participants'[s] = participants[s]

=============================================================================
