----------------------------- MODULE Scheduling -----------------------------
(***************************************************************************)
(* The verdict of the scheduler (src/src/scheduling.ts) on the tasks of a  *)
(* board for the sessions that ask for work, with the board (AgentTasks)   *)
(* reduced to what the verdict reads.  Pauses, start gates, overrides,     *)
(* assigned workspaces, project policies and aging are left out: no tool   *)
(* sets them and the board passes a project that is running.               *)
(***************************************************************************)
EXTENDS Integers, Sequences, FiniteSets, SequencesExt, FiniteSetsExt

CONSTANTS
  Tasks,     \* ids of tasks, numbers in the order of their creation
  Sessions,
  Context,   \* of each session: its roles, capabilities and workspaces
  Metadata,  \* what tasks may be created with
  Files,     \* paths of files: sequences of names
  None,
  MaxLease,
  MaxTime    \* bound on the clock

ASSUME SchedulingAssumption ==
  /\ Tasks \subseteq Nat \ {0}
  /\ {MaxLease, MaxTime} \subseteq Nat \ {0}
  /\ None \notin Sessions

VARIABLES
  tasks,
  clock

schedulingVars == <<tasks, clock>>

Terminal == {"completed", "failed", "cancelled"}
Leased == {"working", "input_required"}

IsTask(task) ==
  /\ task.status \in Terminal \cup Leased \cup {"open"}
  /\ task.owner \in Sessions \cup {None}
  /\ task.lease \in 0 .. MaxTime + MaxLease
  /\ task.scheduling \in Metadata

\* validateOwnershipShape: what the scheduler asks of the board that it is given.
OwnershipShape(task) ==
  /\ task.owner = None <=> task.lease = 0
  /\ task.owner # None => task.status \in Leased
  /\ task.status = "working" => task.owner # None

TypeOK ==
  /\ \A t \in Tasks : IsTask(tasks[t]) /\ OwnershipShape(tasks[t])
  /\ clock \in 1 .. MaxTime

Init ==
  /\ tasks \in [Tasks -> [status : {"open"}, owner : {None}, lease : {0}, scheduling : Metadata]]
  /\ clock = 1

-----------------------------------------------------------------------------
(* Scopes. *)

pathContains(directory, path) == IsPrefix(directory, path)

\* Mutant: the second directory is not looked into.
Mutant_schedulingScopesOverlap(a, b) ==
  IF "component" \in {a.kind, b.kind} THEN a.kind = b.kind /\ a.value = b.value
  ELSE IF a.kind = "file" /\ b.kind = "file" THEN a.value = b.value
  ELSE IF a.kind = "directory" THEN pathContains(a.value, b.value) ELSE FALSE

schedulingScopesOverlap(a, b) ==
  IF "component" \in {a.kind, b.kind} THEN a.kind = b.kind /\ a.value = b.value
  ELSE IF a.kind = "file" /\ b.kind = "file" THEN a.value = b.value
  ELSE \/ a.kind = "directory" /\ pathContains(a.value, b.value)
       \/ b.kind = "directory" /\ pathContains(b.value, a.value)

\* Only two writers of an overlapping scope keep each other out.
Blocking(task, active) ==
  \E a \in task.scheduling.scopes, b \in active.scheduling.scopes :
    /\ schedulingScopesOverlap(a, b)
    /\ {a.mode, b.mode} = {"exclusive_write"}

ConflictActive(task, now) == task.status \in Leased /\ task.owner # None /\ task.lease > now

-----------------------------------------------------------------------------
(* Readiness. *)

DependsOn(t) == DOMAIN tasks[t].scheduling.dependencies

\* What DependencyGraph computes: the tasks that reach themselves.
Reached(t) ==
  LET within[n \in Nat] ==
        IF n = 0 THEN DependsOn(t)
        ELSE within[n - 1] \cup UNION {DependsOn(u) : u \in within[n - 1] \cap Tasks}
  IN  within[Cardinality(Tasks)]

InCycle(t) == t \in Reached(t)

Missing(t) == DependsOn(t) \ Tasks

Meets(u, condition) ==
  tasks[u].status = "completed" \/ (condition = "terminal" /\ tasks[u].status \in Terminal)

DependencyReason(u, condition) ==
  CASE condition = "completed" /\ tasks[u].status = "failed"    -> "dependency_failed"
    [] condition = "completed" /\ tasks[u].status = "cancelled" -> "dependency_cancelled"
    [] OTHER -> "dependencies_unmet"

DependencyReasons(t) ==
  LET conditions == tasks[t].scheduling.dependencies
  IN  IF InCycle(t) THEN {"dependency_cycle"}
      ELSE {DependencyReason(u, conditions[u]) :
              u \in {v \in DependsOn(t) \cap Tasks : ~Meets(v, conditions[v])}}

\* Why a session may not claim the task now; it may if there is no reason.
evaluateTaskReadiness(t, s, now) ==
  LET scheduling == tasks[t].scheduling
      reason(condition, code) == IF condition THEN {code} ELSE {}
  IN  reason(tasks[t].status # "open", "not_open")
      \cup reason(scheduling.notBefore > now, "not_before")
      \cup reason(scheduling.roles # {} /\ scheduling.roles \cap Context[s].roles = {}, "role_mismatch")
      \cup reason(~(scheduling.capabilities \subseteq Context[s].capabilities), "capability_mismatch")
      \cup reason(Missing(t) # {}, "dependency_missing")
      \cup DependencyReasons(t)
      \cup reason(scheduling.workspace = "authorized" /\ Context[s].workspaces = {}, "workspace_unavailable")
      \cup reason(\E u \in Tasks \ {t} : ConflictActive(tasks[u], now) /\ Blocking(tasks[t], tasks[u]),
                  "scope_conflict")

Ready(t, s, now) == evaluateTaskReadiness(t, s, now) = {}

-----------------------------------------------------------------------------
(* Selection. *)

\* The unfinished tasks for which this one is all that is missing.
Unblocked(t) ==
  {u \in Tasks \ {t} :
     /\ tasks[u].status \notin Terminal
     /\ t \in DependsOn(u)
     /\ \A d \in DependsOn(u) \ {t} : d \in Tasks /\ Meets(d, tasks[u].scheduling.dependencies[d])}

\* compareRankedCandidates: priority, then what waits for it, then age.
Before(t, u) ==
  LET rank(v) == tasks[v].scheduling.priority
      score(v) == Cardinality(Unblocked(v))
  IN  \/ rank(t) < rank(u)
      \/ rank(t) = rank(u) /\ (score(t) > score(u) \/ (score(t) = score(u) /\ t < u))

Candidates(s) == {t \in Tasks : Ready(t, s, clock)}

selectNextReadyTask(s) == CHOOSE t \in Candidates(s) : \A u \in Candidates(s) \ {t} : Before(t, u)

Open == {t \in Tasks : tasks[t].status = "open"}

\* What a session is told when nothing is ready for it.
NoReadyWork(s) == UNION {evaluateTaskReadiness(t, s, clock) : t \in Open}

Never == MaxTime + MaxLease + 1

NextRelevantAt ==
  Min({Never} \cup {tasks[t].scheduling.notBefore : t \in {u \in Open : tasks[u].scheduling.notBefore > clock}})

\* The reasons that time and the work of others resolve; for each of the others,
\* recoveryForReasons names somebody's action.
Waits == {"not_before", "dependencies_unmet", "scope_conflict"}

-----------------------------------------------------------------------------
(* The board. *)

Set(t, status, owner, lease) ==
  tasks' = [tasks EXCEPT ![t].status = status, ![t].owner = owner, ![t].lease = lease]

claimNext(s) ==
  /\ Candidates(s) # {}
  /\ \E lease \in 1 .. MaxLease : Set(selectNextReadyTask(s), "working", s, clock + lease)
  /\ UNCHANGED clock

finish(t) ==
  /\ tasks[t].status = "working"
  /\ \E status \in Terminal : Set(t, status, None, 0)
  /\ UNCHANGED clock

requestInput(t) ==
  /\ tasks[t].status = "working"
  /\ Set(t, "input_required", tasks[t].owner, tasks[t].lease)
  /\ UNCHANGED clock

\* The owner goes on; a task whose owner was lost is open again.
provideInput(t) ==
  /\ tasks[t].status = "input_required"
  /\ IF tasks[t].owner = None THEN Set(t, "open", None, 0)
     ELSE Set(t, "working", tasks[t].owner, clock + MaxLease)
  /\ UNCHANGED clock

cancel(t) ==
  /\ tasks[t].status \notin Terminal
  /\ Set(t, "cancelled", None, 0)
  /\ UNCHANGED clock

\* Time passes; every operation first takes away the claims that have expired.
Expired(t) == tasks[t].owner # None /\ tasks[t].lease <= clock + 1

Tick ==
  /\ clock < MaxTime
  /\ clock' = clock + 1
  /\ tasks' = [t \in Tasks |->
       IF Expired(t)
       THEN [tasks[t] EXCEPT !.owner = None, !.lease = 0,
                             !.status = IF @ = "working" THEN "open" ELSE @]
       ELSE tasks[t]]

Next ==
  \/ Tick
  \/ \E s \in Sessions : claimNext(s)
  \/ \E t \in Tasks : finish(t) \/ requestInput(t) \/ provideInput(t) \/ cancel(t)

SchedulingSpec == Init /\ [][Next]_schedulingVars

-----------------------------------------------------------------------------
(* Properties. *)

Covers(scope, path) ==
  CASE scope.kind = "file"      -> scope.value = path
    [] scope.kind = "directory" -> IsPrefix(scope.value, path)
    [] OTHER -> FALSE

Writes(t) == {scope \in tasks[t].scheduling.scopes : scope.mode = "exclusive_write"}

\* Two tasks that are worked on at a time never both claim to write one file,
\* whether they name it or a directory above it, or one component, however the
\* claims are handed out, blocked, resumed and lost.
WritersApart ==
  \A t, u \in Tasks : t # u /\ ConflictActive(tasks[t], clock) /\ ConflictActive(tasks[u], clock) =>
    \A a \in Writes(t), b \in Writes(u) :
      /\ \A path \in Files : ~(Covers(a, path) /\ Covers(b, path))
      /\ ~(a.kind = "component" /\ a = b)

\* When every unfinished task is open and none is ready for a session, it is not
\* told merely to wait: a time is given, or there is a reason on which somebody
\* must act.  Tasks that wait for one another, or for themselves, are such a reason.
StuckIsExplained ==
  \A s \in Sessions :
    (/\ Open # {} /\ Candidates(s) = {}
     /\ \A t \in Tasks : tasks[t].status \notin Leased)
    => NextRelevantAt # Never \/ ~(NoReadyWork(s) \subseteq Waits)

\* A session that sleeps until the time it is given does not sleep through the
\* moment at which time alone makes a task ready for it.
WakeTimeRight ==
  \A s \in Sessions, later \in clock + 1 .. MaxTime + 1 : \A t \in Open :
    Candidates(s) = {} /\ Ready(t, s, later) /\ "scope_conflict" \notin evaluateTaskReadiness(t, s, clock)
      => NextRelevantAt <= later
=============================================================================
