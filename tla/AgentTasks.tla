------------------------------ MODULE AgentTasks ------------------------------
(***************************************************************************)
(* The durable task board of a project (AgentTaskStore, src/src/tasks.ts): *)
(* agents create tasks, claim them for a limited time, ask for input, hand *)
(* them back and finish them.  Every operation runs inside the lock that   *)
(* module FileLock describes, so it is one step here.  It first writes the *)
(* board back with the expired claims taken away (loadFreshState); when it *)
(* then throws, or the process dies, that is all it did.                   *)
(*                                                                         *)
(* An agent acts on a task with the revision that it last read, which may  *)
(* be long ago.  An agent with a collaboration session is subject to the   *)
(* scheduler; one without a session is not.                                *)
(***************************************************************************)
EXTENDS Integers, FiniteSets

CONSTANTS
  Agents,       \* OAuth actors
  Sessions,     \* collaboration sessions
  None,         \* no agent, no session, no scope
  Identities,   \* who calls: an agent, through one of its sessions or without one
  Files,        \* what a task may claim to write exclusively
  Limit,        \* AGENT_TASK_LIMIT
  MaxLease,     \* the longest lease
  MaxTasks,     \* bound: tasks ever created
  MaxRevision,  \* bound: no operation on a task beyond this revision
  MaxTime       \* bound on the clock

ASSUME TaskAssumption ==
  /\ None \notin Agents \cup Sessions \cup {"actor", "session"}
  /\ Identities \subseteq [agent : Agents, session : Sessions \cup {None}]
  /\ {Limit, MaxLease, MaxTasks, MaxRevision, MaxTime} \subseteq Nat \ {0}

VARIABLES
  board,    \* the stored tasks, by the order of their creation
  created,  \* how many tasks have been created
  seen,     \* what each identity was last told about one task
  clock

vars == <<board, created, seen, clock>>

TaskIds  == 1 .. MaxTasks
Statuses == {"open", "working", "input_required", "completed", "failed", "cancelled"}
Terminal == {"completed", "failed", "cancelled"}
Leased   == {"working", "input_required"}

\* The tasks that one depends on, and whether each must be completed.
Dependencies(ids) == UNION {[some -> {"completed", "terminal"}] : some \in SUBSET ids}

Task ==
  [status : Statuses, creator : Agents,
   deps : Dependencies(TaskIds), files : SUBSET Files,
   owner : Agents \cup {None}, session : Sessions \cup {None},
   scope : {"actor", "session", None}, lease : Nat,   \* 0: no lease
   artifact : BOOLEAN, revision : Nat \ {0}]

Copy    == [id : TaskIds, task : Task]
Nothing == [id |-> 0]

TypeOK ==
  /\ created \in 0 .. MaxTasks
  /\ DOMAIN board \subseteq 1 .. created
  /\ board \in [DOMAIN board -> Task]
  /\ seen \in [Identities -> Copy \cup {Nothing}]
  /\ clock \in 1 .. MaxTime

Init ==
  /\ board = [t \in {} |-> Nothing]
  /\ created = 0
  /\ seen = [i \in Identities |-> Nothing]
  /\ clock = 1

-----------------------------------------------------------------------------
(* What every operation begins with. *)

Unclaimed(task) ==
  [task EXCEPT !.owner = None, !.session = None, !.scope = None, !.lease = 0,
               !.revision = @ + 1]

\* Mutant: a blocked task becomes open when its claim expires.
ReleasedOpen(task) == [Unclaimed(task) EXCEPT !.status = "open"]

\* A blocked task stays blocked when it loses its owner.
Released(task) ==
  [Unclaimed(task) EXCEPT !.status = IF @ = "input_required" THEN @ ELSE "open"]

Expired(task) == task.status \in Leased /\ task.lease # 0 /\ task.lease <= clock

Fresh == [t \in DOMAIN board |-> IF Expired(board[t]) THEN Released(board[t]) ELSE board[t]]

-----------------------------------------------------------------------------
(* Authority. *)

IsCreator(task, i) == task.creator = i.agent

IsOwner(task, i) ==
  task.owner = i.agent /\ (task.scope = "actor" \/ task.session = i.session)

\* Mutant: any session of the agent passes for the owner.
HoldsByActor(task, i) == task.status \in Leased /\ task.owner = i.agent

\* requireOwnedLeasedTask
Holds(task, i) == task.status \in Leased /\ task.owner # None /\ IsOwner(task, i)

-----------------------------------------------------------------------------
(* The scheduler's verdict on an open task, for an agent with a session.   *)
(* Roles, capabilities, workspaces and notBefore may forbid more: a        *)
(* claim that they refuse is one that throws.                              *)

Active(task) == task.status \in Leased /\ task.owner # None /\ task.scope # None /\ task.lease > clock

Meets(status, condition) ==
  status = "completed" \/ (condition = "terminal" /\ status \in Terminal)

\* Mutant: a dependency may have ended anyhow.
SatisfiedByEnd(tasks, task) ==
  \A d \in DOMAIN task.deps : d \in DOMAIN tasks /\ tasks[d].status \in Terminal

Satisfied(tasks, task) ==
  \A d \in DOMAIN task.deps : d \in DOMAIN tasks /\ Meets(tasks[d].status, task.deps[d])

Conflicting(task, other) == task.files \cap other.files # {}

\* Mutant: the active tasks are not looked at.
ReadyAlone(tasks, t) == tasks[t].status = "open" /\ Satisfied(tasks, tasks[t])

Ready(tasks, t) ==
  /\ tasks[t].status = "open"
  /\ Satisfied(tasks, tasks[t])
  /\ \A other \in DOMAIN tasks \ {t} : Active(tasks[other]) => ~Conflicting(tasks[t], tasks[other])

-----------------------------------------------------------------------------
(* Operations. *)

\* An operation that throws after its first step, or lists no task.
Refresh ==
  /\ board' = Fresh
  /\ UNCHANGED <<created, seen, clock>>

Tell(i, t, task) == seen' = [seen EXCEPT ![i] = [id |-> t, task |-> task]]

Read(i, t) ==
  /\ t \in DOMAIN board
  /\ board' = Fresh
  /\ Tell(i, t, Fresh[t])
  /\ UNCHANGED <<created, clock>>

Room(tasks) ==
  IF Cardinality(DOMAIN tasks) < Limit
    THEN {tasks}
    ELSE LET removable == {t \in DOMAIN tasks : tasks[t].status \in Terminal}
         IN {[t \in DOMAIN tasks \ {first} |-> tasks[t]] :
               first \in {t \in removable : \A u \in removable : t <= u}}

NewTask(i, deps, files) ==
  [status |-> "open", creator |-> i.agent,
   deps |-> deps, files |-> files,
   owner |-> None, session |-> None, scope |-> None, lease |-> 0,
   artifact |-> FALSE, revision |-> 1]

Create(i, deps, files) ==
  /\ created < MaxTasks
  /\ created' = created + 1
  /\ \E tasks \in Room(Fresh) :
       board' = [t \in DOMAIN tasks \cup {created'} |->
                   IF t = created' THEN NewTask(i, deps, files) ELSE tasks[t]]
  /\ Tell(i, created', NewTask(i, deps, files))
  /\ UNCHANGED clock

\* The task that i read last is still there, at the revision that i read.
Current(i) ==
  /\ seen[i].id \in DOMAIN board
  /\ Fresh[seen[i].id].revision = seen[i].task.revision
  /\ Fresh[seen[i].id].revision <= MaxRevision

Mine(i) == Fresh[seen[i].id]

\* Mutant: the revision stays.
WriteSilently(i, task) ==
  /\ board' = [Fresh EXCEPT ![seen[i].id] = task]
  /\ Tell(i, seen[i].id, task)
  /\ UNCHANGED <<created, clock>>

Write(i, task) ==
  LET written == [task EXCEPT !.revision = @ + 1] IN
  /\ board' = [Fresh EXCEPT ![seen[i].id] = written]
  /\ Tell(i, seen[i].id, written)
  /\ UNCHANGED <<created, clock>>

\* Mutant: the scope of a claim without a session is wrong.
ClaimedForSession(i, task, seconds) ==
  [task EXCEPT !.status = "working", !.owner = i.agent, !.session = i.session,
               !.scope = "session", !.lease = clock + seconds]

Claimed(i, task, seconds) ==
  [task EXCEPT !.status = "working", !.owner = i.agent, !.session = i.session,
               !.scope = IF i.session = None THEN "actor" ELSE "session",
               !.lease = clock + seconds]

Renewed(task, seconds) == [task EXCEPT !.lease = clock + seconds]

\* A new claim, or the renewal of one's own: that keeps its session and scope.
Claim(i, seconds) ==
  /\ Current(i)
  /\ \/ /\ Mine(i).status = "open"
        /\ i.session # None => Ready(Fresh, seen[i].id)
        /\ Write(i, Claimed(i, Mine(i), seconds))
     \/ /\ Mine(i).status = "working"
        /\ IsOwner(Mine(i), i)
        /\ Write(i, Renewed(Mine(i), seconds))

\* claimNext reads and claims in one operation; the rank picks among the
\* ready tasks, and any of them may be first.
ClaimNext(i, t, seconds) ==
  /\ i.session # None
  /\ t \in DOMAIN board
  /\ Ready(Fresh, t)
  /\ Fresh[t].revision <= MaxRevision
  /\ LET claimed == [Claimed(i, Fresh[t], seconds) EXCEPT !.revision = @ + 1] IN
       /\ board' = [Fresh EXCEPT ![t] = claimed]
       /\ Tell(i, t, claimed)
  /\ UNCHANGED <<created, clock>>

Renew(i, seconds) ==
  /\ Current(i)
  /\ Holds(Mine(i), i)
  /\ Write(i, Renewed(Mine(i), seconds))

RequestInput(i, seconds) ==
  /\ Current(i)
  /\ Holds(Mine(i), i)
  /\ Write(i, [Renewed(Mine(i), seconds) EXCEPT !.status = "input_required"])

Release(i) ==
  /\ Current(i)
  /\ Holds(Mine(i), i)
  /\ Write(i, [Released(Mine(i)) EXCEPT !.revision = Mine(i).revision])

ProvideInput(i, seconds) ==
  /\ Current(i)
  /\ Mine(i).status = "input_required"
  /\ IsCreator(Mine(i), i) \/ IsOwner(Mine(i), i)
  /\ Write(i, IF Mine(i).owner # None
                THEN [Renewed(Mine(i), seconds) EXCEPT !.status = "working"]
                ELSE [Mine(i) EXCEPT !.status = "open"])

\* terminalTask
Ended(task, status, artifact) ==
  [Unclaimed(task) EXCEPT !.status = status, !.artifact = artifact, !.revision = task.revision]

Finish(i, status, artifact) ==
  /\ Current(i)
  /\ Holds(Mine(i), i)
  /\ Write(i, Ended(Mine(i), status, artifact))

Cancel(i) ==
  /\ Current(i)
  /\ Mine(i).status \notin Terminal
  /\ IsCreator(Mine(i), i) \/ IsOwner(Mine(i), i)
  /\ Write(i, Ended(Mine(i), "cancelled", FALSE))

Tick == clock < MaxTime /\ clock' = clock + 1 /\ UNCHANGED <<board, created, seen>>

Act(i) ==
  \/ \E t \in TaskIds : Read(i, t)
  \/ \E deps \in Dependencies(1 .. created), files \in SUBSET Files : Create(i, deps, files)
  \/ \E seconds \in 1 .. MaxLease :
       \/ Claim(i, seconds) \/ Renew(i, seconds) \/ RequestInput(i, seconds)
       \/ ProvideInput(i, seconds)
       \/ \E t \in TaskIds : ClaimNext(i, t, seconds)
  \/ Release(i)
  \/ Cancel(i)
  \/ \E status \in {"completed", "failed"}, artifact \in BOOLEAN : Finish(i, status, artifact)

Next == Tick \/ Refresh \/ \E i \in Identities : Act(i)

Spec == Init /\ [][Next]_vars

-----------------------------------------------------------------------------
(* Properties. *)

\* validateStoredTask: what the next operation demands of a task it reads.
Accepted(task) ==
  /\ task.scope # None => task.owner # None
  /\ task.scope = "session" => task.session # None
  /\ task.scope = "actor" => task.session = None
  /\ task.session # None => task.owner # None
  /\ task.owner # None => task.scope # None
  /\ task.status = "working" => task.owner # None /\ task.lease # 0
  /\ task.status = "input_required" => (task.owner # None <=> task.lease # 0)
  /\ task.status \notin Leased => task.owner = None /\ task.lease = 0
  /\ task.status \notin Terminal => ~task.artifact

\* Whatever the operations write in whatever order, the next one can read: it
\* never meets a board that validateState rejects, which would block the
\* project's tasks for good.
BoardReadable ==
  /\ Cardinality(DOMAIN board) <= Limit
  /\ \A t \in DOMAIN board : Accepted(board[t])

\* An operation changes a task only in the state that its caller knows: while
\* the revision is the one that was read, so is everything else.  No other
\* agent's change in between, and no expiry, is overwritten.
RevisionIdentifiesState ==
  \A i \in Identities :
    seen[i].id \in DOMAIN board /\ seen[i].task.revision = board[seen[i].id].revision
      => seen[i].task = board[seen[i].id]

\* The identities that may act on a task as its owner or its creator.
Authorised(task) == {i \in Identities : IsCreator(task, i) \/ IsOwner(task, i)}

\* While a claim lasts, only its holder - this agent, in this session - and the
\* task's creator change the task, and no operation makes room by dropping it.
ClaimRespected ==
  [][\A t \in DOMAIN board :
       Active(board[t]) =>
         /\ t \in DOMAIN board'
         /\ board'[t] # board[t] =>
              \E i \in Authorised(board[t]) : seen'[i] = [id |-> t, task |-> board'[t]]]_vars

\* Agents under the scheduler never write the same files at the same time:
\* when two claims on overlapping files are active, one of them was made
\* without a session.
ScopesDisjoint ==
  \A s, t \in DOMAIN board :
    s # t /\ Active(board[s]) /\ Active(board[t]) /\ Conflicting(board[s], board[t])
      => "actor" \in {board[s].scope, board[t].scope}

\* Work that the scheduler handed out never runs ahead of what it depends on,
\* although tasks are cancelled, handed back and dropped from the board meanwhile.
DependenciesDone ==
  \A t \in DOMAIN board :
    board[t].scope = "session" =>
      \A d \in DOMAIN board[t].deps \cap DOMAIN board :
        Meets(board[d].status, board[t].deps[d])

\* A task that has ended never changes again.
EndIsFinal ==
  [][\A t \in DOMAIN board \cap DOMAIN board' :
       board[t].status \in Terminal => board'[t] = board[t]]_vars

\* A blocked task waits until its creator or its owner answers, hands it over
\* to its end or cancels it; a claim that expires does not unblock it.
BlockedUntilAnswered ==
  [][\A t \in DOMAIN board \cap DOMAIN board' :
       board[t].status = "input_required" /\ board'[t].status # "input_required"
         => \E i \in Authorised(board[t]) : seen'[i] = [id |-> t, task |-> board'[t]]]_vars

\* A task that has ended never changes again, and a blocked one waits for its
\* creator or its owner, whatever expires meanwhile.
KeepsStatus == EndIsFinal /\ BlockedUntilAnswered

\* "Strict mutation/import gate: all dependencies must exist and the graph must
\* be acyclic" (scheduling.ts, assertValidDependencyGraph).
DependenciesExist ==
  \A t \in DOMAIN board : board[t].status = "open" => DOMAIN board[t].deps \subseteq DOMAIN board

-----------------------------------------------------------------------------
(* Values for TLC that a .cfg cannot write, and the states that the run    *)
(* looks at.  Ann has two sessions.                                        *)

CONSTANTS ann, bob, s1, s2

By(agent, session) == [agent |-> agent, session |-> session]

\* Two sessions of one agent, and an agent without a session.
Siblings == {By(ann, s1), By(ann, s2), By(bob, None)}

\* Two agents under the scheduler.
Scheduled == {By(ann, s1), By(bob, s2)}

\* One task without files that is claimed, blocked, renewed and ended at length.
OneAtLength == created <= 1 /\ \A t \in DOMAIN board : board[t].files = {}

\* Two tasks at once, that depend on one another or write one file, in the hands
\* of two sessions; one that has ended matters as long as the other depends on it.
SideBySide ==
  /\ created <= 2 /\ clock <= 2
  /\ seen[By(bob, None)] = Nothing
  /\ \A t \in DOMAIN board :
       board[t].status \in Terminal => \E other \in DOMAIN board : t \in DOMAIN board[other].deps

\* Three tasks on a board for two: one that has ended makes room for the third.
MakingRoom ==
  /\ clock = 1
  /\ \A t \in DOMAIN board : board[t].files = {} /\ board[t].revision <= 3
  /\ seen[By(bob, None)] = Nothing /\ seen[By(ann, s2)].id \in {0, created}

Explored == OneAtLength \/ SideBySide \/ MakingRoom

=============================================================================
