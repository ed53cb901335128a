-------------------------- MODULE DependencyGraph --------------------------
(***************************************************************************)
(* How the scheduler finds the dependency cycles of a board                *)
(* (analyzeNormalizedGraph, src/src/scheduling.ts): a depth-first search   *)
(* that gives each task an index and the lowest index it reaches, step by  *)
(* step.  The order in which tasks and dependencies are tried is left      *)
(* open; the code takes them sorted and as they are stored.                *)
(***************************************************************************)
EXTENDS Integers, Sequences, FiniteSets, SequencesExt

CONSTANT Tasks

VARIABLES
  dependencies, \* of each task; they never change
  indexes,      \* of the tasks visited so far
  lowLinks,
  stack,
  visits,       \* the calls of visit under way, and what each has still to look at
  cycles

graphVars == <<dependencies, indexes, lowLinks, stack, visits, cycles>>

Visited == DOMAIN indexes

TypeOK ==
  /\ dependencies \in [Tasks -> SUBSET Tasks]
  /\ Visited \subseteq Tasks
  /\ indexes \in [Visited -> Nat] /\ lowLinks \in [Visited -> Nat]
  /\ stack \in Seq(Visited)
  /\ \A k \in DOMAIN visits : visits[k].task \in Visited /\ visits[k].todo \subseteq Tasks
  /\ cycles \subseteq SUBSET Tasks

Empty == [t \in {} |-> 0]

Init ==
  /\ dependencies \in [Tasks -> SUBSET Tasks]
  /\ indexes = Empty /\ lowLinks = Empty
  /\ stack = <<>> /\ visits = <<>>
  /\ cycles = {}

With(map, task, value) == [t \in DOMAIN map \cup {task} |-> IF t = task THEN value ELSE map[t]]
Least(a, b) == IF a < b THEN a ELSE b

-----------------------------------------------------------------------------

enter(task, frames) ==
  /\ indexes' = With(indexes, task, Cardinality(Visited))
  /\ lowLinks' = With(lowLinks, task, Cardinality(Visited))
  /\ stack' = Append(stack, task)
  /\ visits' = Append(frames, [task |-> task, todo |-> dependencies[task]])
  /\ UNCHANGED <<dependencies, cycles>>

start(task) == visits = <<>> /\ task \notin Visited /\ enter(task, visits)

Current == Last(visits)
Without(dependency) == Append(Front(visits), [Current EXCEPT !.todo = @ \ {dependency}])

visit(dependency) ==
  /\ visits # <<>>
  /\ dependency \in Current.todo \ Visited
  /\ enter(dependency, Without(dependency))

OnStack(task) == Contains(stack, task)

\* A dependency that was visited before counts only while it is on the stack.
look(dependency) ==
  /\ visits # <<>>
  /\ dependency \in Current.todo \cap Visited
  /\ lowLinks' = IF OnStack(dependency)
                 THEN [lowLinks EXCEPT ![Current.task] = Least(@, indexes[dependency])]
                 ELSE lowLinks
  /\ visits' = Without(dependency)
  /\ UNCHANGED <<dependencies, indexes, stack, cycles>>

\* All dependencies are done.  A task that reaches nothing below it ends a
\* component, which is a cycle unless it is one task that does not depend on itself.
leave ==
  /\ visits # <<>> /\ Current.todo = {}
  /\ LET task == Current.task
         component == {stack[k] : k \in {m \in DOMAIN stack : \E j \in 1 .. m : stack[j] = task}}
         isRoot == lowLinks[task] = indexes[task]
     IN  /\ stack' = IF isRoot THEN SelectSeq(stack, LAMBDA t : t \notin component) ELSE stack
         /\ cycles' = IF isRoot /\ (Cardinality(component) > 1 \/ task \in dependencies[task])
                      THEN cycles \cup {component} ELSE cycles
         /\ visits' = Front(visits)
         /\ lowLinks' = IF Len(visits) > 1
                        THEN [lowLinks EXCEPT ![visits[Len(visits) - 1].task] = Least(@, lowLinks[task])]
                        ELSE lowLinks
  /\ UNCHANGED <<dependencies, indexes>>

Next ==
  \/ leave
  \/ \E task \in Tasks : start(task) \/ visit(task) \/ look(task)

GraphSpec == Init /\ [][Next]_graphVars

-----------------------------------------------------------------------------
(* The reference: reachability over the dependencies. *)

\* The tasks that are reached from `task' in one to n steps.
Reached(task) ==
  LET within[n \in Nat] ==
        IF n = 0 THEN dependencies[task]
        ELSE within[n - 1] \cup UNION {dependencies[t] : t \in within[n - 1]}
  IN  within[Cardinality(Tasks)]

Cyclic == {t \in Tasks : t \in Reached(t)}

\* When the search is over, its cycles are the classes of tasks that reach one
\* another: every task that can never become ready through its own dependencies is
\* in one of them, and no other task is held back for a cycle.
CyclesFound ==
  visits = <<>> /\ Visited = Tasks =>
    cycles = {{u \in Reached(t) : t \in Reached(u)} : t \in Cyclic}
=============================================================================
