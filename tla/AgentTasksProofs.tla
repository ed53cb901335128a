--------------------------- MODULE AgentTasksProofs ---------------------------
(***************************************************************************)
(* The safety of the task board, for every set of agents and sessions, any *)
(* number of tasks and any lease.  The argument has three parts: what the  *)
(* expiry of claims does to a board (FreshFacts), what the operation on a  *)
(* task may do on top of it (Legal, with one lemma per operation), and why *)
(* a board changed like that is still a good one (WriteSafe).               *)
(***************************************************************************)
EXTENDS AgentTasks, FiniteSetTheorems, TLAPS

\* A copy is never newer than the task, and as old only if it is the same.
Known ==
  \A i \in Identities :
    /\ seen[i].id \in 0 .. created
    /\ seen[i].id \in DOMAIN board =>
         /\ seen[i].task.revision <= board[seen[i].id].revision
         /\ seen[i].task.revision = board[seen[i].id].revision => seen[i].task = board[seen[i].id]

Good(task) == task \in Task /\ Accepted(task)

\* ScopesDisjoint and DependenciesDone, of any board.
Disjoint(tasks) ==
  \A s, t \in DOMAIN tasks :
    s # t /\ Active(tasks[s]) /\ Active(tasks[t]) /\ Conflicting(tasks[s], tasks[t])
      => "actor" \in {tasks[s].scope, tasks[t].scope}

InOrder(tasks) ==
  \A t \in DOMAIN tasks :
    tasks[t].scope = "session" =>
      \A d \in DOMAIN tasks[t].deps \cap DOMAIN tasks : Meets(tasks[d].status, tasks[t].deps[d])

\* A board on which n tasks have been created.
Safe(tasks, n) ==
  /\ DOMAIN tasks \subseteq 1 .. n
  /\ Cardinality(DOMAIN tasks) <= Limit
  /\ \A t \in DOMAIN tasks : Good(tasks[t]) /\ DOMAIN tasks[t].deps \subseteq 1 .. n
  /\ Disjoint(tasks)
  /\ InOrder(tasks)

(***************************************************************************)
(* The inductive invariant.  Beyond the properties it says that a copy may *)
(* be older than its task, and that a task depends on older ones only: a   *)
(* new task never turns out to be what a claimed one depends on.           *)
(***************************************************************************)
TaskInv ==
  /\ TypeOK
  /\ Known
  /\ Safe(board, created)

-----------------------------------------------------------------------------
(* Expiry. *)

LEMMA ReleasedFacts ==
  ASSUME NEW task, Good(task), task.status \in Leased
  PROVE  /\ Good(Released(task))
         /\ Released(task).revision = task.revision + 1
         /\ Released(task).deps = task.deps
         /\ Released(task).files = task.files
         /\ Released(task).owner = None
         /\ Released(task).scope = None
         /\ Released(task).status \notin Terminal
<1>1. task \in Task BY DEF Good
<1>2. /\ Unclaimed(task) \in Task
      /\ Unclaimed(task).revision = task.revision + 1
      /\ Unclaimed(task).deps = task.deps
      /\ Unclaimed(task).files = task.files
      /\ Unclaimed(task).owner = None
      /\ Unclaimed(task).session = None
      /\ Unclaimed(task).scope = None
      /\ Unclaimed(task).lease = 0
      /\ Unclaimed(task).status = task.status
      /\ Unclaimed(task).artifact = task.artifact
  <2>1. Unclaimed(task) = [task EXCEPT !.owner = None, !.session = None, !.scope = None,
                                       !.lease = 0, !.revision = task.revision + 1]
    BY <1>1 DEF Unclaimed, Task
  <2>2. task.revision + 1 \in Nat \ {0} BY <1>1 DEF Task
  <2>3. /\ Unclaimed(task).revision = task.revision + 1
        /\ Unclaimed(task).deps = task.deps
        /\ Unclaimed(task).files = task.files
        /\ Unclaimed(task).owner = None
        /\ Unclaimed(task).session = None
        /\ Unclaimed(task).scope = None
        /\ Unclaimed(task).lease = 0
        /\ Unclaimed(task).status = task.status
        /\ Unclaimed(task).artifact = task.artifact
    BY <1>1, <2>1 DEF Task
  <2>4. Unclaimed(task) \in Task
    <3>1. [task EXCEPT !.owner = None, !.session = None] \in Task BY <1>1 DEF Task
    <3>2. [[task EXCEPT !.owner = None, !.session = None] EXCEPT !.scope = None, !.lease = 0]
            \in Task
      BY <3>1 DEF Task
    <3>3. Unclaimed(task) =
            [[[task EXCEPT !.owner = None, !.session = None] EXCEPT !.scope = None, !.lease = 0]
               EXCEPT !.revision = task.revision + 1]
      BY <1>1, <2>1 DEF Task
    <3> QED BY <2>2, <3>2, <3>3 DEF Task
  <2> QED BY <2>3, <2>4
<1> DEFINE u == Unclaimed(task)
           status == IF task.status = "input_required" THEN "input_required" ELSE "open"
<1>3. Released(task) = [u EXCEPT !.status = status] BY <1>2 DEF Released
<1>4. status \in Statuses /\ status \notin Terminal BY DEF Statuses, Terminal
<1>5. status = "input_required" \/ status \notin Leased BY DEF Leased
<1>6. /\ Released(task) \in Task
      /\ Released(task).status = status
      /\ Released(task).revision = u.revision
      /\ Released(task).deps = u.deps
      /\ Released(task).files = u.files
      /\ Released(task).owner = u.owner
      /\ Released(task).session = u.session
      /\ Released(task).scope = u.scope
      /\ Released(task).lease = u.lease
      /\ Released(task).artifact = u.artifact
  <2> HIDE DEF u, status
  <2> QED BY <1>2, <1>3, <1>4 DEF Task, u
<1>7. ~task.artifact BY DEF Good, Accepted, Leased, Terminal
<1>8. Accepted(Released(task))
  <2>1. status = "input_required" \/ status = "open" OBVIOUS
  <2> HIDE DEF u, status
  <2>2. /\ Released(task).owner = None /\ Released(task).session = None
        /\ Released(task).scope = None /\ Released(task).lease = 0
        /\ Released(task).artifact = task.artifact /\ Released(task).status = status
    BY <1>2, <1>6 DEF u
  <2> QED BY <1>7, <2>1, <2>2, TaskAssumption DEF Accepted, Leased, Terminal
<1> QED BY <1>2, <1>4, <1>6, <1>8 DEF Good

\* What the operation finds: a task as it was, or one that lost its owner.
LEMMA FreshFacts ==
  ASSUME TaskInv, NEW t \in DOMAIN board
  PROVE  /\ DOMAIN Fresh = DOMAIN board
         /\ Good(Fresh[t])
         /\ Fresh[t].deps = board[t].deps
         /\ Fresh[t].files = board[t].files
         /\ \/ Fresh[t] = board[t]
            \/ /\ Fresh[t].revision = board[t].revision + 1
               /\ board[t].status \notin Terminal
               /\ Fresh[t].owner = None
               /\ Fresh[t].scope = None
         /\ Fresh[t].owner # None => Active(Fresh[t])
<1>1. Good(board[t]) BY DEF TaskInv, Safe
<1>2. CASE Expired(board[t])
  <2>1. Fresh[t] = Released(board[t]) BY <1>2 DEF Fresh
  <2>2. board[t].status \in Leased /\ board[t].status \notin Terminal
    BY <1>2 DEF Expired, Leased, Terminal
  <2> QED BY <1>1, <2>1, <2>2, ReleasedFacts DEF Fresh
<1>3. CASE ~Expired(board[t])
  <2>1. Fresh[t] = board[t] BY <1>3 DEF Fresh
  <2>2. board[t].owner # None => Active(board[t])
    BY <1>1, <1>3 DEF Expired, Active, Good, Accepted, Task, TaskInv, TypeOK, Statuses, Leased
  <2> QED BY <1>1, <2>1, <2>2 DEF Fresh
<1> QED BY <1>2, <1>3

-----------------------------------------------------------------------------
(* What one operation may make of the task that it finds. *)

Legal(tasks, t, new) ==
  /\ Good(new)
  /\ tasks[t].status \notin Terminal
  /\ new.deps = tasks[t].deps
  /\ new.files = tasks[t].files
  /\ new.revision = tasks[t].revision
  /\ new.owner # None =>
       \/ tasks[t].owner # None /\ new.scope = tasks[t].scope
       \/ new.scope = "actor"
       \/ Ready(tasks, t)

LEMMA ClaimLegal ==
  ASSUME NEW tasks, NEW t \in DOMAIN tasks, Good(tasks[t]), clock \in Nat,
         NEW i \in Identities, NEW seconds \in 1 .. MaxLease,
         tasks[t].status = "open", i.session # None => Ready(tasks, t)
  PROVE  Legal(tasks, t, Claimed(i, tasks[t], seconds))
<1> DEFINE task == tasks[t]
           scope == IF i.session = None THEN "actor" ELSE "session"
           new == Claimed(i, task, seconds)
<1>1. task \in Task /\ Accepted(task) BY DEF Good
<1>2. /\ i.agent \in Agents /\ i.session \in Sessions \cup {None}
      /\ i.agent # None /\ scope \in {"actor", "session", None}
      /\ clock + seconds \in Nat /\ clock + seconds # 0
      /\ "working" \in Statuses
  BY TaskAssumption DEF Statuses
<1>3. /\ new.status = "working" /\ new.owner = i.agent /\ new.session = i.session
      /\ new.scope = scope /\ new.lease = clock + seconds
      /\ new.deps = task.deps /\ new.files = task.files
      /\ new.revision = task.revision /\ new.artifact = task.artifact
  BY <1>1 DEF Claimed, Task
<1>4. new \in Task
  <2> DEFINE half == [task EXCEPT !.status = "working", !.owner = i.agent, !.session = i.session]
  <2>1. half \in Task BY <1>1, <1>2 DEF Task
  <2>2. new = [half EXCEPT !.scope = scope, !.lease = clock + seconds]
    BY <1>1 DEF Claimed, Task
  <2> QED BY <1>2, <2>1, <2>2 DEF Task
<1>5. ~task.artifact BY <1>1 DEF Accepted, Terminal
<1>6. Accepted(new)
  <2> HIDE DEF new, task
  <2> QED BY <1>2, <1>3, <1>5, TaskAssumption DEF Accepted, Leased
<1>7. task.status \notin Terminal BY DEF Terminal
<1>8. new.scope = "actor" \/ Ready(tasks, t) BY <1>3
<1> QED BY <1>3, <1>4, <1>6, <1>7, <1>8 DEF Legal, Good

LEMMA RenewLegal ==
  ASSUME NEW tasks, NEW t \in DOMAIN tasks, Good(tasks[t]), clock \in Nat,
         NEW seconds \in 1 .. MaxLease, NEW status \in Leased,
         tasks[t].status \in Leased, tasks[t].owner # None
  PROVE  /\ Legal(tasks, t, [Renewed(tasks[t], seconds) EXCEPT !.status = status])
         /\ Legal(tasks, t, Renewed(tasks[t], seconds))
<1> DEFINE task == tasks[t]
           renewed == Renewed(task, seconds)
           new == [renewed EXCEPT !.status = status]
<1>1. task \in Task /\ Accepted(task) BY DEF Good
<1>2. clock + seconds \in Nat /\ clock + seconds # 0 /\ status \in Statuses
  BY TaskAssumption DEF Statuses, Leased
<1>3. /\ renewed.status = task.status /\ renewed.owner = task.owner
      /\ renewed.session = task.session /\ renewed.scope = task.scope
      /\ renewed.lease = clock + seconds
      /\ renewed.deps = task.deps /\ renewed.files = task.files
      /\ renewed.revision = task.revision /\ renewed.artifact = task.artifact
      /\ renewed \in Task
  BY <1>1, <1>2 DEF Renewed, Task
<1>4. /\ new.status = status /\ new.owner = task.owner
      /\ new.session = task.session /\ new.scope = task.scope
      /\ new.lease = clock + seconds
      /\ new.deps = task.deps /\ new.files = task.files
      /\ new.revision = task.revision /\ new.artifact = task.artifact
      /\ new \in Task
  <2> HIDE DEF renewed
  <2> QED BY <1>2, <1>3 DEF Task
<1>5. task.status \notin Terminal BY DEF Terminal, Leased
<1>6. Accepted(new) /\ Accepted(renewed)
  <2> HIDE DEF new, renewed
  <2>1. ~task.artifact BY <1>1, <1>5 DEF Accepted
  <2>2. Accepted(new) BY <1>1, <1>2, <1>4, <2>1 DEF Accepted
  <2>3. Accepted(renewed) BY <1>1, <1>2, <1>3, <2>1 DEF Accepted
  <2> QED BY <2>2, <2>3
<1> QED BY <1>3, <1>4, <1>5, <1>6 DEF Legal, Good

LEMMA EndLegal ==
  ASSUME NEW tasks, NEW t \in DOMAIN tasks, Good(tasks[t]), tasks[t].status \notin Terminal,
         NEW status \in Terminal, NEW artifact \in BOOLEAN
  PROVE  Legal(tasks, t, Ended(tasks[t], status, artifact))
<1> DEFINE task == tasks[t]
           half == [task EXCEPT !.owner = None, !.session = None, !.scope = None]
           less == [half EXCEPT !.lease = 0]
           new == Ended(task, status, artifact)
<1>1. task \in Task BY DEF Good
<1>2. half \in Task BY <1>1 DEF Task
<1>3. less \in Task BY <1>2 DEF Task
<1>4. new = [less EXCEPT !.status = status, !.artifact = artifact]
  BY <1>1 DEF Ended, Unclaimed, Task
<1>5. status \in Statuses BY DEF Statuses, Terminal
<1>6. /\ new.status = status /\ new.owner = None /\ new.session = None
      /\ new.scope = None /\ new.lease = 0 /\ new.artifact = artifact
      /\ new.deps = task.deps /\ new.files = task.files /\ new.revision = task.revision
  BY <1>1, <1>4 DEF Task
<1>7. new \in Task
  <2> HIDE DEF less
  <2> QED BY <1>3, <1>4, <1>5 DEF Task
<1>8. Accepted(new)
  <2> HIDE DEF new, task
  <2> QED BY <1>6, TaskAssumption DEF Accepted, Leased, Terminal
<1> QED BY <1>6, <1>7, <1>8 DEF Legal, Good

LEMMA ReleaseLegal ==
  ASSUME NEW tasks, NEW t \in DOMAIN tasks, Good(tasks[t]), tasks[t].status \in Leased
  PROVE  Legal(tasks, t, [Released(tasks[t]) EXCEPT !.revision = tasks[t].revision])
<1> DEFINE task == tasks[t]
           free == Released(task)
           new == [free EXCEPT !.revision = task.revision]
<1>1. /\ Good(free) /\ free.deps = task.deps /\ free.files = task.files /\ free.owner = None
      /\ free.scope = None
  BY ReleasedFacts
<1>2. task.revision \in Nat \ {0} BY DEF Good, Task
<1> HIDE DEF free
<1>3. /\ new \in Task /\ new.status = free.status /\ new.owner = free.owner
      /\ new.session = free.session /\ new.scope = free.scope /\ new.lease = free.lease
      /\ new.artifact = free.artifact /\ new.deps = free.deps /\ new.files = free.files
      /\ new.revision = task.revision
  BY <1>1, <1>2 DEF Good, Task
<1>4. Accepted(new)
  <2> HIDE DEF new
  <2> QED BY <1>1, <1>3 DEF Good, Accepted
<1>5. task.status \notin Terminal BY DEF Terminal, Leased
<1> QED BY <1>1, <1>3, <1>4, <1>5 DEF Legal, Good, free

LEMMA ReopenLegal ==
  ASSUME NEW tasks, NEW t \in DOMAIN tasks, Good(tasks[t]),
         tasks[t].status = "input_required", tasks[t].owner = None
  PROVE  Legal(tasks, t, [tasks[t] EXCEPT !.status = "open"])
<1> DEFINE task == tasks[t]
           new == [task EXCEPT !.status = "open"]
<1>1. task \in Task /\ Accepted(task) BY DEF Good
<1>2. /\ new \in Task /\ new.status = "open" /\ new.owner = task.owner
      /\ new.session = task.session /\ new.scope = task.scope /\ new.lease = task.lease
      /\ new.artifact = task.artifact /\ new.deps = task.deps /\ new.files = task.files
      /\ new.revision = task.revision
  BY <1>1 DEF Task, Statuses
<1>3. task.lease = 0 /\ ~task.artifact BY <1>1 DEF Accepted, Leased, Terminal
<1>4. Accepted(new)
  <2> HIDE DEF new
  <2> QED BY <1>1, <1>2, <1>3 DEF Accepted
<1>5. task.status \notin Terminal BY DEF Terminal
<1> QED BY <1>2, <1>4, <1>5 DEF Legal, Good

-----------------------------------------------------------------------------
(* Boards stay safe. *)

\* Whoever owns a task after the expiry holds an active claim.
Held(tasks) == \A t \in DOMAIN tasks : tasks[t].owner # None => Active(tasks[t])

LEMMA MeetsIsTerminal ==
  ASSUME NEW status, NEW condition, Meets(status, condition) PROVE status \in Terminal
BY DEF Meets, Terminal

LEMMA FreshSafe ==
  ASSUME TaskInv PROVE Safe(Fresh, created) /\ Held(Fresh) /\ DOMAIN Fresh = DOMAIN board
<1>1. DOMAIN Fresh = DOMAIN board BY DEF Fresh
<1>2. Safe(board, created) BY DEF TaskInv
<1>3. ASSUME NEW t \in DOMAIN Fresh
      PROVE  /\ Good(Fresh[t])
             /\ DOMAIN Fresh[t].deps \subseteq 1 .. created
             /\ Fresh[t].owner # None => Active(Fresh[t]) /\ Fresh[t] = board[t]
             /\ Fresh[t].scope # None => Fresh[t] = board[t]
             /\ board[t].status \in Terminal => Fresh[t] = board[t]
             /\ Fresh[t].deps = board[t].deps
  BY <1>1, <1>2, <1>3, FreshFacts DEF Safe
<1>4. Disjoint(Fresh)
  <2> SUFFICES ASSUME NEW s \in DOMAIN Fresh, NEW t \in DOMAIN Fresh, s # t,
                      Active(Fresh[s]), Active(Fresh[t]), Conflicting(Fresh[s], Fresh[t])
               PROVE  "actor" \in {Fresh[s].scope, Fresh[t].scope}
    BY DEF Disjoint
  <2>1. Fresh[s] = board[s] /\ Fresh[t] = board[t] BY <1>3 DEF Active
  <2>2. Disjoint(board) BY <1>2 DEF Safe
  <2> QED BY <1>1, <2>1, <2>2 DEF Disjoint
<1>5. InOrder(Fresh)
  <2> SUFFICES ASSUME NEW t \in DOMAIN Fresh, Fresh[t].scope = "session",
                      NEW d \in DOMAIN Fresh[t].deps \cap DOMAIN Fresh
               PROVE  Meets(Fresh[d].status, Fresh[t].deps[d])
    BY DEF InOrder
  <2>1. Fresh[t] = board[t] BY <1>3, TaskAssumption
  <2>2. Meets(board[d].status, board[t].deps[d])
    <3>1. InOrder(board) BY <1>2 DEF Safe
    <3> QED BY <1>1, <2>1, <3>1 DEF InOrder
  <2>3. Fresh[d] = board[d] BY <1>3, <2>2, MeetsIsTerminal
  <2> QED BY <2>1, <2>2, <2>3
<1>6. Cardinality(DOMAIN Fresh) <= Limit /\ DOMAIN Fresh \subseteq 1 .. created
  BY <1>1, <1>2 DEF Safe
<1> QED BY <1>1, <1>3, <1>4, <1>5, <1>6 DEF Safe, Held

LEMMA RevisedFacts ==
  ASSUME NEW task, Good(task)
  PROVE  LET new == [task EXCEPT !.revision = @ + 1] IN
         /\ Good(new)
         /\ new.revision = task.revision + 1
         /\ new.status = task.status /\ new.deps = task.deps /\ new.files = task.files
         /\ new.owner = task.owner /\ new.scope = task.scope /\ new.lease = task.lease
<1> DEFINE new == [task EXCEPT !.revision = @ + 1]
<1>1. task \in Task /\ Accepted(task) BY DEF Good
<1>2. new = [task EXCEPT !.revision = task.revision + 1] BY <1>1 DEF Task
<1>3. task.revision + 1 \in Nat \ {0} BY <1>1 DEF Task
<1>4. /\ new \in Task /\ new.revision = task.revision + 1
      /\ new.status = task.status /\ new.deps = task.deps /\ new.files = task.files
      /\ new.owner = task.owner /\ new.scope = task.scope /\ new.lease = task.lease
      /\ new.session = task.session /\ new.artifact = task.artifact
  BY <1>1, <1>2, <1>3 DEF Task
<1> HIDE DEF new
<1>5. Accepted(new) BY <1>1, <1>4 DEF Accepted
<1> QED BY <1>4, <1>5 DEF Good, new

LEMMA WriteSafe ==
  ASSUME NEW n \in Nat, NEW tasks, Safe(tasks, n), Held(tasks),
         NEW t \in DOMAIN tasks, NEW new, Legal(tasks, t, new)
  PROVE  Safe([tasks EXCEPT ![t] = [new EXCEPT !.revision = @ + 1]], n)
<1> DEFINE written == [new EXCEPT !.revision = @ + 1]
           after == [tasks EXCEPT ![t] = written]
<1>1. /\ Good(written)
      /\ written.deps = tasks[t].deps /\ written.files = tasks[t].files
      /\ written.owner = new.owner /\ written.scope = new.scope
  BY RevisedFacts DEF Legal
<1> HIDE DEF written
<1>2. /\ DOMAIN after = DOMAIN tasks
      /\ after[t] = written
      /\ \A s \in DOMAIN tasks \ {t} : after[s] = tasks[s]
  OBVIOUS
<1> HIDE DEF after
<1>3. tasks[t].status \notin Terminal BY DEF Legal
<1>4. Disjoint(tasks) /\ InOrder(tasks) BY DEF Safe
<1>5. ASSUME NEW s \in DOMAIN tasks \ {t}, Active(tasks[s]), Active(written),
             Conflicting(tasks[s], written)
      PROVE  "actor" \in {tasks[s].scope, written.scope}
  <2>1. Conflicting(tasks[s], tasks[t]) /\ Conflicting(tasks[t], tasks[s])
    BY <1>1, <1>5 DEF Conflicting
  <2>2. \/ tasks[t].owner # None /\ new.scope = tasks[t].scope
        \/ new.scope = "actor"
        \/ Ready(tasks, t)
    BY <1>1, <1>5 DEF Active, Legal
  <2>3. CASE tasks[t].owner # None /\ new.scope = tasks[t].scope
    BY <1>1, <1>4, <1>5, <2>1, <2>3 DEF Held, Disjoint
  <2>4. CASE Ready(tasks, t) BY <1>5, <2>1, <2>4 DEF Ready
  <2> QED BY <1>1, <2>2, <2>3, <2>4
<1>6. Disjoint(after)
  <2> SUFFICES ASSUME NEW r \in DOMAIN tasks, NEW s \in DOMAIN tasks, r # s,
                      Active(after[r]), Active(after[s]), Conflicting(after[r], after[s])
               PROVE  "actor" \in {after[r].scope, after[s].scope}
    BY <1>2 DEF Disjoint
  <2>1. Conflicting(after[s], after[r]) BY DEF Conflicting
  <2>2. CASE r = t BY <1>2, <1>5, <2>1, <2>2
  <2>3. CASE s = t BY <1>2, <1>5, <2>3
  <2>4. CASE r # t /\ s # t BY <1>2, <1>4, <2>4 DEF Disjoint
  <2> QED BY <2>2, <2>3, <2>4
<1>7. InOrder(after)
  <2> SUFFICES ASSUME NEW s \in DOMAIN tasks, after[s].scope = "session",
                      NEW d \in DOMAIN after[s].deps \cap DOMAIN tasks
               PROVE  Meets(after[d].status, after[s].deps[d])
    BY <1>2 DEF InOrder
  <2>1. after[s].deps = tasks[s].deps BY <1>1, <1>2
  <2>2. Meets(tasks[d].status, tasks[s].deps[d])
    <3>1. CASE tasks[s].scope = "session" BY <1>4, <2>1, <3>1 DEF InOrder
    <3>2. CASE tasks[s].scope # "session"
      <4>1. s = t /\ new.scope = "session" BY <1>1, <1>2, <3>2
      <4>2. new.owner # None BY <4>1, TaskAssumption DEF Legal, Good, Accepted
      <4>3. Ready(tasks, t) BY <3>2, <4>1, <4>2 DEF Legal
      <4> QED BY <2>1, <4>1, <4>3 DEF Ready, Satisfied
    <3> QED BY <3>1, <3>2
  <2>3. d # t BY <1>3, <2>2, MeetsIsTerminal
  <2> QED BY <1>2, <2>1, <2>2, <2>3
<1>8. \A s \in DOMAIN after : Good(after[s]) /\ DOMAIN after[s].deps \subseteq 1 .. n
  BY <1>1, <1>2 DEF Safe
<1>9. DOMAIN after \subseteq 1 .. n /\ Cardinality(DOMAIN after) <= Limit
  BY <1>2 DEF Safe
<1> QED BY <1>6, <1>7, <1>8, <1>9 DEF Safe, after, written

LEMMA FiniteIds == ASSUME NEW n \in Nat, NEW S, S \subseteq 1 .. n PROVE IsFiniteSet(S)
<1>1. IsFiniteSet(1 .. n) BY FS_Interval
<1> QED BY <1>1, FS_Subset

LEMMA RoomSafe ==
  ASSUME NEW n \in Nat, NEW tasks, Safe(tasks, n), NEW left \in Room(tasks)
  PROVE  /\ Safe(left, n)
         /\ DOMAIN left \subseteq DOMAIN tasks
         /\ \A t \in DOMAIN left : left[t] = tasks[t]
         /\ Cardinality(DOMAIN left) < Limit
         /\ \A t \in DOMAIN tasks \ DOMAIN left : tasks[t].status \in Terminal
<1>1. IsFiniteSet(DOMAIN tasks) BY FiniteIds DEF Safe
<1>2. Cardinality(DOMAIN tasks) \in Nat /\ Limit \in Nat
  BY <1>1, FS_CardinalityType, TaskAssumption
<1>3. CASE Cardinality(DOMAIN tasks) < Limit BY <1>3 DEF Room
<1>4. CASE ~(Cardinality(DOMAIN tasks) < Limit)
  <2>1. PICK first \in DOMAIN tasks :
          /\ tasks[first].status \in Terminal
          /\ left = [t \in DOMAIN tasks \ {first} |-> tasks[t]]
    BY <1>4 DEF Room
  <2>2. DOMAIN left = DOMAIN tasks \ {first} /\ \A t \in DOMAIN left : left[t] = tasks[t]
    BY <2>1
  <2>3. Cardinality(DOMAIN left) = Cardinality(DOMAIN tasks) - 1
    BY <1>1, <2>2, FS_RemoveElement
  <2>4. Cardinality(DOMAIN left) < Limit /\ Cardinality(DOMAIN left) <= Limit
    BY <1>2, <2>3 DEF Safe
  <2>5. Disjoint(left) BY <2>2 DEF Safe, Disjoint
  <2>6. InOrder(left) BY <2>2 DEF Safe, InOrder
  <2>7. Safe(left, n) BY <2>2, <2>4, <2>5, <2>6 DEF Safe
  <2> QED BY <2>1, <2>2, <2>4, <2>7
<1> QED BY <1>3, <1>4

LEMMA NewTaskGood ==
  ASSUME NEW n \in Nat, n < MaxTasks, NEW i \in Identities,
         NEW deps \in Dependencies(1 .. n), NEW files \in SUBSET Files
  PROVE  /\ Good(NewTask(i, deps, files))
         /\ DOMAIN NewTask(i, deps, files).deps \subseteq 1 .. n
<1> DEFINE new == NewTask(i, deps, files)
<1>1. DOMAIN deps \subseteq 1 .. n /\ deps \in Dependencies(TaskIds)
  <2>1. PICK some \in SUBSET (1 .. n) : deps \in [some -> {"completed", "terminal"}]
    BY DEF Dependencies
  <2>2. some \in SUBSET TaskIds
    <3>1. MaxTasks \in Nat BY TaskAssumption
    <3> QED BY <2>1, <3>1 DEF TaskIds
  <2> QED BY <2>1, <2>2 DEF Dependencies
<1>2. /\ new.status = "open" /\ new.owner = None /\ new.session = None /\ new.scope = None
      /\ new.lease = 0 /\ new.artifact = FALSE /\ new.deps = deps
  BY DEF NewTask
<1>3. new \in Task
  BY <1>1, TaskAssumption DEF NewTask, Task, Statuses
<1>4. Accepted(new)
  <2> HIDE DEF new
  <2> QED BY <1>2, TaskAssumption DEF Accepted, Leased, Terminal
<1> QED BY <1>1, <1>2, <1>3, <1>4 DEF Good

LEMMA AddSafe ==
  ASSUME NEW n \in Nat, NEW tasks, Safe(tasks, n), Cardinality(DOMAIN tasks) < Limit,
         NEW new, Good(new), DOMAIN new.deps \subseteq 1 .. n, new.owner = None, new.scope = None
  PROVE  Safe([t \in DOMAIN tasks \cup {n + 1} |-> IF t = n + 1 THEN new ELSE tasks[t]], n + 1)
<1> DEFINE after == [t \in DOMAIN tasks \cup {n + 1} |-> IF t = n + 1 THEN new ELSE tasks[t]]
<1>1. n + 1 \notin DOMAIN tasks BY DEF Safe
<1>2. /\ DOMAIN after = DOMAIN tasks \cup {n + 1}
      /\ after[n + 1] = new
      /\ \A t \in DOMAIN tasks : after[t] = tasks[t]
  BY <1>1
<1> HIDE DEF after
<1>3. Cardinality(DOMAIN after) <= Limit
  <2>1. IsFiniteSet(DOMAIN tasks) BY FiniteIds DEF Safe
  <2>2. Cardinality(DOMAIN after) = Cardinality(DOMAIN tasks) + 1
    BY <1>1, <1>2, <2>1, FS_AddElement
  <2> QED BY <2>1, <2>2, FS_CardinalityType, TaskAssumption
<1>4. ~Active(new) /\ new.scope # "session" BY TaskAssumption DEF Active
<1>5. Disjoint(after) BY <1>2, <1>4 DEF Safe, Disjoint
<1>6. InOrder(after)
  <2> SUFFICES ASSUME NEW t \in DOMAIN after, after[t].scope = "session",
                      NEW d \in DOMAIN after[t].deps \cap DOMAIN after
               PROVE  Meets(after[d].status, after[t].deps[d])
    BY DEF InOrder
  <2>1. t \in DOMAIN tasks /\ after[t] = tasks[t] BY <1>2, <1>4
  <2>2. d \in 1 .. n BY <2>1 DEF Safe
  <2>3. d \in DOMAIN tasks /\ after[d] = tasks[d] BY <1>2, <2>2
  <2> QED BY <2>1, <2>3 DEF Safe, InOrder
<1>7. DOMAIN after \subseteq 1 .. n + 1 BY <1>2 DEF Safe
<1>8. \A t \in DOMAIN after : Good(after[t]) /\ DOMAIN after[t].deps \subseteq 1 .. n + 1
  BY <1>2 DEF Safe
<1> QED BY <1>3, <1>5, <1>6, <1>7, <1>8 DEF Safe, after

\* The clock only takes claims away.
LEMMA TickSafe ==
  ASSUME NEW n, TypeOK, Safe(board, n), Tick PROVE Safe(board, n)'
<1>1. board' = board /\ clock' = clock + 1 /\ clock \in Nat BY DEF Tick, TypeOK
<1>2. \A t \in DOMAIN board : Good(board[t]) BY DEF Safe
<1>3. \A t \in DOMAIN board : Active(board[t])' => Active(board[t])
  BY <1>1, <1>2 DEF Active, Good, Task
<1>4. Disjoint(board)' BY <1>1, <1>3 DEF Safe, Disjoint, Conflicting
<1> QED BY <1>1, <1>4 DEF Safe, InOrder, Good, Meets, Accepted

-----------------------------------------------------------------------------
(* Copies. *)

\* A step moves the revisions of the tasks that it changes, and tells its
\* caller what it wrote.
LEMMA KnownStep ==
  ASSUME TypeOK, Known, created' \in Nat, created <= created',
         \A t \in DOMAIN board' \cap (1 .. created) :
           /\ t \in DOMAIN board
           /\ board'[t].revision \in Nat
           /\ board'[t] = board[t] \/ board'[t].revision > board[t].revision,
         DOMAIN board' \subseteq 1 .. created',
         \A t \in DOMAIN board' : board'[t].revision \in Nat,
         \A i \in Identities :
           seen'[i] = seen[i]
             \/ /\ seen'[i].id \in DOMAIN board'
                /\ seen'[i].task = board'[seen'[i].id]
  PROVE  Known'
<1> SUFFICES ASSUME NEW i \in Identities
             PROVE /\ seen'[i].id \in 0 .. created'
                   /\ seen'[i].id \in DOMAIN board' =>
                        /\ seen'[i].task.revision <= board'[seen'[i].id].revision
                        /\ seen'[i].task.revision = board'[seen'[i].id].revision
                             => seen'[i].task = board'[seen'[i].id]
  BY DEF Known
<1>0. created \in Nat BY DEF TypeOK
<1>1. CASE seen'[i] = seen[i]
  <2> DEFINE t == seen[i].id
  <2>1. t \in 0 .. created /\ t \in 0 .. created' BY <1>0 DEF Known
  <2>2. CASE t \in DOMAIN board'
    <3>1. t \in 1 .. created BY <2>1, <2>2, <1>0
    <3>2. /\ t \in DOMAIN board
          /\ board'[t].revision \in Nat
          /\ board'[t] = board[t] \/ board'[t].revision > board[t].revision
      BY <2>2, <3>1
    <3>3. /\ seen[i].task.revision <= board[t].revision
          /\ seen[i].task.revision = board[t].revision => seen[i].task = board[t]
      BY <3>2 DEF Known
    <3>4. board[t].revision \in Nat BY <3>2 DEF TypeOK, Task
    <3>5. seen[i].task.revision \in Nat
      <4>1. seen[i] \in Copy \cup {Nothing} /\ seen[i].id # 0 BY <3>1 DEF TypeOK
      <4>2. seen[i] \in Copy BY <4>1 DEF Nothing
      <4> QED BY <4>2 DEF Copy, Task
    <3> QED BY <1>1, <2>1, <3>2, <3>3, <3>4, <3>5
  <2> QED BY <1>1, <2>1, <2>2
<1>2. CASE seen'[i].id \in DOMAIN board' /\ seen'[i].task = board'[seen'[i].id]
  BY <1>2
<1> QED BY <1>1, <1>2

-----------------------------------------------------------------------------
(* The steps. *)

LEMMA TaskInit == Init => TaskInv
<1> SUFFICES ASSUME Init PROVE TaskInv
  OBVIOUS
<1>1. DOMAIN board = {} /\ created = 0 /\ clock = 1 BY DEF Init
<1>2. TypeOK BY <1>1, TaskAssumption DEF Init, TypeOK
<1>3. Known BY <1>1 DEF Init, Known, Nothing
<1>4. Cardinality(DOMAIN board) <= Limit BY <1>1, FS_EmptySet, TaskAssumption
<1>5. Safe(board, created) BY <1>1, <1>4 DEF Safe, Disjoint, InOrder
<1> QED BY <1>2, <1>3, <1>5 DEF TaskInv

LEMMA SafeIsTyped ==
  ASSUME NEW tasks, NEW n, Safe(tasks, n) PROVE \A t \in DOMAIN tasks : tasks[t] \in Task
BY DEF Safe, Good

\* Fresh is a function: its type is needed for a whole board.
LEMMA FreshBoard == Fresh = [t \in DOMAIN Fresh |-> Fresh[t]]
BY DEF Fresh

LEMMA StepInv ==
  ASSUME TaskInv, created' \in 0 .. MaxTasks, created <= created', clock' \in 1 .. MaxTime,
         clock' = clock,
         NEW after, Safe(after, created'), after = [t \in DOMAIN after |-> after[t]],
         board' = after,
         \A t \in DOMAIN after \cap (1 .. created) :
           t \in DOMAIN board /\ (after[t] = board[t] \/ after[t].revision > board[t].revision),
         \/ seen' = seen
         \/ \E i \in Identities, t \in DOMAIN after :
              seen' = [seen EXCEPT ![i] = [id |-> t, task |-> after[t]]]
  PROVE  TaskInv'
<1>1. TypeOK /\ Known BY DEF TaskInv
<1>2. \A t \in DOMAIN after : after[t] \in Task /\ after[t].revision \in Nat
  BY SafeIsTyped DEF Task
<1>3. DOMAIN after \subseteq 1 .. created' /\ DOMAIN after \subseteq TaskIds
  <2>1. DOMAIN after \subseteq 1 .. created' BY DEF Safe
  <2> QED BY <2>1, TaskAssumption DEF TaskIds
<1>4. seen' \in [Identities -> Copy \cup {Nothing}]
  <2>1. CASE seen' = seen BY <1>1, <2>1 DEF TypeOK
  <2>2. CASE \E i \in Identities, t \in DOMAIN after :
               seen' = [seen EXCEPT ![i] = [id |-> t, task |-> after[t]]]
    <3>1. PICK i \in Identities, t \in DOMAIN after :
            seen' = [seen EXCEPT ![i] = [id |-> t, task |-> after[t]]]
      BY <2>2
    <3>2. [id |-> t, task |-> after[t]] \in Copy BY <1>2, <1>3 DEF Copy
    <3> QED BY <1>1, <3>1, <3>2 DEF TypeOK
  <2> QED BY <2>1, <2>2
<1>5. TypeOK' BY <1>2, <1>3, <1>4 DEF TypeOK
<1>6. \A i \in Identities :
        seen'[i] = seen[i]
          \/ /\ seen'[i].id \in DOMAIN after
             /\ seen'[i].task = after[seen'[i].id]
  <2>1. CASE seen' = seen BY <2>1
  <2>2. CASE \E i \in Identities, t \in DOMAIN after :
               seen' = [seen EXCEPT ![i] = [id |-> t, task |-> after[t]]]
    BY <1>1, <2>2 DEF TypeOK
  <2> QED BY <2>1, <2>2
<1>7. Known' BY <1>1, <1>2, <1>3, <1>6, KnownStep
<1>8. Safe(board, created)' BY DEF Safe, Disjoint, InOrder, Active, Conflicting, Meets, Good, Accepted
<1> QED BY <1>5, <1>7, <1>8 DEF TaskInv

\* A task after the expiry is as it was, or at a later revision.
LEMMA FreshMoves ==
  ASSUME TaskInv, NEW t \in DOMAIN board
  PROVE  Fresh[t] = board[t] \/ Fresh[t].revision > board[t].revision
<1>1. board[t].revision \in Nat BY SafeIsTyped DEF TaskInv, Task
<1> QED BY <1>1, FreshFacts

LEMMA ClockStays ==
  ASSUME TaskInv, UNCHANGED clock
  PROVE  clock' \in 1 .. MaxTime /\ clock \in Nat /\ created \in 0 .. MaxTasks /\ created \in Nat
BY TaskAssumption DEF TaskInv, TypeOK

LEMMA RefreshInv == TaskInv /\ Refresh => TaskInv'
<1> SUFFICES ASSUME TaskInv, Refresh PROVE TaskInv'
  OBVIOUS
<1>1. board' = Fresh /\ seen' = seen /\ created' = created /\ clock' = clock BY DEF Refresh
<1>2. Safe(Fresh, created') /\ DOMAIN Fresh = DOMAIN board BY <1>1, FreshSafe
<1> QED BY <1>1, <1>2, FreshMoves, FreshBoard, ClockStays, StepInv

LEMMA ReadInv ==
  ASSUME NEW i \in Identities, NEW t \in TaskIds PROVE TaskInv /\ Read(i, t) => TaskInv'
<1> SUFFICES ASSUME TaskInv, Read(i, t) PROVE TaskInv'
  OBVIOUS
<1>1. /\ board' = Fresh /\ created' = created /\ clock' = clock /\ t \in DOMAIN board
      /\ seen' = [seen EXCEPT ![i] = [id |-> t, task |-> Fresh[t]]]
  BY DEF Read, Tell
<1>2. Safe(Fresh, created') /\ DOMAIN Fresh = DOMAIN board BY <1>1, FreshSafe
<1>3. \E j \in Identities, u \in DOMAIN Fresh :
        seen' = [seen EXCEPT ![j] = [id |-> u, task |-> Fresh[u]]]
  BY <1>1, <1>2
<1>4. \A u \in DOMAIN Fresh \cap (1 .. created) :
        u \in DOMAIN board /\ (Fresh[u] = board[u] \/ Fresh[u].revision > board[u].revision)
  BY <1>2, FreshMoves
<1>5. /\ created' \in 0 .. MaxTasks /\ created <= created' /\ clock' \in 1 .. MaxTime
  BY <1>1, ClockStays
<1> QED BY <1>1, <1>2, <1>3, <1>4, <1>5, FreshBoard, StepInv

LEMMA CreateInv ==
  ASSUME NEW i \in Identities, NEW deps \in Dependencies(1 .. created), NEW files \in SUBSET Files
  PROVE  TaskInv /\ Create(i, deps, files) => TaskInv'
<1> SUFFICES ASSUME TaskInv, Create(i, deps, files) PROVE TaskInv'
  OBVIOUS
<1> DEFINE new == NewTask(i, deps, files)
<1>1. /\ created < MaxTasks /\ created' = created + 1 /\ clock' = clock
      /\ seen' = [seen EXCEPT ![i] = [id |-> created + 1, task |-> new]]
  BY DEF Create, Tell
<1>2. PICK tasks \in Room(Fresh) :
        board' = [t \in DOMAIN tasks \cup {created + 1} |->
                    IF t = created + 1 THEN new ELSE tasks[t]]
  BY DEF Create
<1> DEFINE after == [t \in DOMAIN tasks \cup {created + 1} |->
                       IF t = created + 1 THEN new ELSE tasks[t]]
<1>3. created \in Nat /\ created' \in 0 .. MaxTasks /\ clock' \in 1 .. MaxTime
  BY <1>1, ClockStays, TaskAssumption
<1>4. Safe(Fresh, created) /\ DOMAIN Fresh = DOMAIN board BY FreshSafe
<1>5. /\ Safe(tasks, created) /\ Cardinality(DOMAIN tasks) < Limit
      /\ DOMAIN tasks \subseteq DOMAIN board /\ \A t \in DOMAIN tasks : tasks[t] = Fresh[t]
  BY <1>3, <1>4, RoomSafe
<1>6. Good(new) /\ DOMAIN new.deps \subseteq 1 .. created BY <1>1, <1>3, NewTaskGood
<1>7. new.owner = None /\ new.scope = None BY DEF NewTask
<1>8. Safe(after, created')
  <2> HIDE DEF new
  <2> QED BY <1>1, <1>3, <1>5, <1>6, <1>7, AddSafe
<1>9. \A t \in DOMAIN after \cap (1 .. created) :
        t \in DOMAIN board /\ (after[t] = board[t] \/ after[t].revision > board[t].revision)
  <2> HIDE DEF new
  <2> QED BY <1>3, <1>5, FreshMoves
<1>10. after[created + 1] = new /\ created + 1 \in DOMAIN after OBVIOUS
<1>11. after = [t \in DOMAIN after |-> after[t]] OBVIOUS
<1>12. board' = after BY <1>2
<1> HIDE DEF after, new
<1>13. \E j \in Identities, u \in DOMAIN after :
         seen' = [seen EXCEPT ![j] = [id |-> u, task |-> after[u]]]
  BY <1>1, <1>10
<1>14. created <= created' BY <1>1, <1>3
<1> QED BY <1>1, <1>3, <1>8, <1>9, <1>11, <1>12, <1>13, <1>14, StepInv

LEMMA WriteInv ==
  ASSUME TaskInv, NEW i \in Identities, NEW t \in DOMAIN board, NEW new, Legal(Fresh, t, new),
         UNCHANGED <<created, clock>>,
         board' = [Fresh EXCEPT ![t] = [new EXCEPT !.revision = @ + 1]],
         seen' = [seen EXCEPT ![i] = [id |-> t, task |-> [new EXCEPT !.revision = @ + 1]]]
  PROVE  TaskInv'
<1> DEFINE written == [new EXCEPT !.revision = @ + 1]
           after == [Fresh EXCEPT ![t] = written]
<1>1. Safe(Fresh, created) /\ Held(Fresh) /\ DOMAIN Fresh = DOMAIN board BY FreshSafe
<1>2. created \in Nat BY ClockStays
<1>3. Safe(after, created') BY <1>1, <1>2, WriteSafe
<1>4. written.revision = Fresh[t].revision + 1 BY RevisedFacts DEF Legal
<1> HIDE DEF written
<1>5. DOMAIN after = DOMAIN board /\ after[t] = written
      /\ \A s \in DOMAIN board \ {t} : after[s] = Fresh[s]
  BY <1>1
<1>6. \A s \in DOMAIN board : board[s].revision \in Nat /\ Fresh[s].revision \in Nat
  BY <1>1, SafeIsTyped DEF TaskInv, Task
<1>7. \A s \in DOMAIN after :
        s \in DOMAIN board /\ (after[s] = board[s] \/ after[s].revision > board[s].revision)
  BY <1>4, <1>5, <1>6, FreshMoves
<1>8. after = [s \in DOMAIN after |-> after[s]] BY FreshBoard
<1>9. board' = after /\ seen' = [seen EXCEPT ![i] = [id |-> t, task |-> after[t]]]
  BY <1>5 DEF written
<1> HIDE DEF after
<1>10. \E j \in Identities, u \in DOMAIN after :
         seen' = [seen EXCEPT ![j] = [id |-> u, task |-> after[u]]]
  BY <1>5, <1>9
<1>11. created' \in 0 .. MaxTasks /\ created <= created' /\ clock' \in 1 .. MaxTime /\ clock' = clock
  BY ClockStays
<1> QED BY <1>3, <1>7, <1>8, <1>9, <1>10, <1>11, StepInv

\* The task that i acts on.
LEMMA MineFacts ==
  ASSUME TaskInv, NEW i \in Identities, Current(i)
  PROVE  /\ seen[i].id \in DOMAIN board /\ seen[i].id \in DOMAIN Fresh
         /\ Good(Fresh[seen[i].id])
         /\ Mine(i) = Fresh[seen[i].id]
         /\ clock \in Nat
BY FreshFacts DEF Current, Mine, TaskInv, TypeOK

LEMMA WriteMine ==
  ASSUME TaskInv, NEW i \in Identities, Current(i), NEW new, Legal(Fresh, seen[i].id, new),
         Write(i, new)
  PROVE  TaskInv'
BY MineFacts, WriteInv DEF Write, Tell

LEMMA HoldsFacts ==
  ASSUME NEW task, NEW i, Holds(task, i)
  PROVE  task.status \in Leased /\ task.owner # None /\ task.status \notin Terminal
BY DEF Holds, Leased, Terminal

LEMMA ClaimInv ==
  ASSUME NEW i \in Identities, NEW seconds \in 1 .. MaxLease
  PROVE  TaskInv /\ Claim(i, seconds) => TaskInv'
<1> SUFFICES ASSUME TaskInv, Claim(i, seconds) PROVE TaskInv'
  OBVIOUS
<1>1. Current(i) BY DEF Claim
<1> DEFINE t == seen[i].id
<1>2. t \in DOMAIN Fresh /\ Good(Fresh[t]) /\ Mine(i) = Fresh[t] /\ clock \in Nat
  BY <1>1, MineFacts
<1>3. CASE /\ Mine(i).status = "open"
           /\ i.session # None => Ready(Fresh, t)
           /\ Write(i, Claimed(i, Mine(i), seconds))
  BY <1>1, <1>2, <1>3, ClaimLegal, WriteMine
<1>4. CASE /\ Mine(i).status = "working"
           /\ Write(i, Renewed(Mine(i), seconds))
  <2>1. Fresh[t].owner # None BY <1>2, <1>4 DEF Good, Accepted
  <2>2. Legal(Fresh, t, Renewed(Fresh[t], seconds))
    BY <1>2, <1>4, <2>1, RenewLegal DEF Leased
  <2> QED BY <1>1, <1>2, <1>4, <2>2, WriteMine
<1> QED BY <1>3, <1>4 DEF Claim

LEMMA ClaimNextInv ==
  ASSUME NEW i \in Identities, NEW t \in TaskIds, NEW seconds \in 1 .. MaxLease
  PROVE  TaskInv /\ ClaimNext(i, t, seconds) => TaskInv'
<1> SUFFICES ASSUME TaskInv, ClaimNext(i, t, seconds) PROVE TaskInv'
  OBVIOUS
<1>1. t \in DOMAIN board /\ Ready(Fresh, t) BY DEF ClaimNext
<1>2. t \in DOMAIN Fresh /\ Good(Fresh[t]) /\ clock \in Nat
  BY <1>1, FreshFacts DEF TaskInv, TypeOK
<1>3. Legal(Fresh, t, Claimed(i, Fresh[t], seconds))
  BY <1>1, <1>2, ClaimLegal DEF Ready
<1> QED BY <1>1, <1>3, WriteInv DEF ClaimNext, Tell

LEMMA RenewInv ==
  ASSUME NEW i \in Identities, NEW seconds \in 1 .. MaxLease
  PROVE  TaskInv /\ Renew(i, seconds) => TaskInv'
BY MineFacts, HoldsFacts, RenewLegal, WriteMine DEF Renew

LEMMA RequestInputInv ==
  ASSUME NEW i \in Identities, NEW seconds \in 1 .. MaxLease
  PROVE  TaskInv /\ RequestInput(i, seconds) => TaskInv'
<1>1. "input_required" \in Leased BY DEF Leased
<1> QED BY <1>1, MineFacts, HoldsFacts, RenewLegal, WriteMine DEF RequestInput

LEMMA ReleaseInv ==
  ASSUME NEW i \in Identities PROVE TaskInv /\ Release(i) => TaskInv'
BY MineFacts, HoldsFacts, ReleaseLegal, WriteMine DEF Release

LEMMA ProvideInputInv ==
  ASSUME NEW i \in Identities, NEW seconds \in 1 .. MaxLease
  PROVE  TaskInv /\ ProvideInput(i, seconds) => TaskInv'
<1> SUFFICES ASSUME TaskInv, ProvideInput(i, seconds) PROVE TaskInv'
  OBVIOUS
<1>1. Current(i) /\ Mine(i).status = "input_required" BY DEF ProvideInput
<1> DEFINE t == seen[i].id
<1>2. t \in DOMAIN Fresh /\ Good(Fresh[t]) /\ Mine(i) = Fresh[t] /\ clock \in Nat
  BY <1>1, MineFacts
<1>3. CASE Mine(i).owner # None
  <2>1. "working" \in Leased /\ Fresh[t].status \in Leased BY <1>1, <1>2 DEF Leased
  <2>2. Legal(Fresh, t, [Renewed(Fresh[t], seconds) EXCEPT !.status = "working"])
    BY <1>2, <1>3, <2>1, RenewLegal
  <2> QED BY <1>1, <1>2, <1>3, <2>2, WriteMine DEF ProvideInput
<1>4. CASE Mine(i).owner = None
  <2>1. Legal(Fresh, t, [Fresh[t] EXCEPT !.status = "open"]) BY <1>1, <1>2, <1>4, ReopenLegal
  <2> QED BY <1>1, <1>2, <1>4, <2>1, WriteMine DEF ProvideInput
<1> QED BY <1>3, <1>4

LEMMA FinishInv ==
  ASSUME NEW i \in Identities, NEW status \in {"completed", "failed"}, NEW artifact \in BOOLEAN
  PROVE  TaskInv /\ Finish(i, status, artifact) => TaskInv'
<1>1. status \in Terminal BY DEF Terminal
<1> QED BY <1>1, MineFacts, HoldsFacts, EndLegal, WriteMine DEF Finish

LEMMA CancelInv ==
  ASSUME NEW i \in Identities PROVE TaskInv /\ Cancel(i) => TaskInv'
<1>1. "cancelled" \in Terminal BY DEF Terminal
<1> QED BY <1>1, MineFacts, EndLegal, WriteMine DEF Cancel

LEMMA TickInv == TaskInv /\ Tick => TaskInv'
<1> SUFFICES ASSUME TaskInv, Tick PROVE TaskInv'
  OBVIOUS
<1>1. clock < MaxTime /\ clock' = clock + 1 /\ UNCHANGED <<board, created, seen>> BY DEF Tick
<1>2. TypeOK' BY <1>1, TaskAssumption DEF TaskInv, TypeOK
<1>3. Known' BY <1>1 DEF TaskInv, Known
<1>4. Safe(board, created)' BY <1>1, TickSafe DEF TaskInv, Safe
<1> QED BY <1>2, <1>3, <1>4 DEF TaskInv

LEMMA StutterInv == TaskInv /\ UNCHANGED vars => TaskInv'
BY DEF vars, TaskInv, TypeOK, Known, Safe, Disjoint, InOrder, Good, Accepted, Active,
       Conflicting, Meets

LEMMA TaskNext == TaskInv /\ [Next]_vars => TaskInv'
<1> SUFFICES ASSUME TaskInv, [Next]_vars PROVE TaskInv'
  OBVIOUS
<1>1. ASSUME NEW i \in Identities, Act(i) PROVE TaskInv'
  BY <1>1, ReadInv, CreateInv, ClaimInv, ClaimNextInv, RenewInv, RequestInputInv, ReleaseInv,
     ProvideInputInv, FinishInv, CancelInv DEF Act
<1> QED BY <1>1, RefreshInv, TickInv, StutterInv DEF Next

THEOREM TaskInvHolds == Spec => []TaskInv
BY TaskInit, TaskNext, PTL DEF Spec

-----------------------------------------------------------------------------
(* The results. *)

\* Every variable keeps its type.
THEOREM TaskTypeCorrect == Spec => []TypeOK
<1>1. TaskInv => TypeOK BY DEF TaskInv
<1> QED BY <1>1, TaskInvHolds, PTL

\* However agents, expiries and removals interleave, the board that an operation
\* writes passes the validation with which the next one reads it.
THEOREM BoardReadableHolds == Spec => []BoardReadable
<1>1. TaskInv => BoardReadable BY DEF TaskInv, Safe, Good, BoardReadable
<1> QED BY <1>1, TaskInvHolds, PTL

\* An operation that passes the revision check acts on the task as its caller
\* read it.
THEOREM RevisionIdentifiesStateHolds == Spec => []RevisionIdentifiesState
<1>1. TaskInv => RevisionIdentifiesState BY DEF TaskInv, Known, RevisionIdentifiesState
<1> QED BY <1>1, TaskInvHolds, PTL

\* No two active claims that the scheduler granted write the same file.
THEOREM ScopesDisjointHolds == Spec => []ScopesDisjoint
<1>1. TaskInv => ScopesDisjoint BY DEF TaskInv, Safe, Disjoint, ScopesDisjoint
<1> QED BY <1>1, TaskInvHolds, PTL

\* Work granted by the scheduler never precedes what it depends on.
THEOREM DependenciesDoneHolds == Spec => []DependenciesDone
<1>1. TaskInv => DependenciesDone BY DEF TaskInv, Safe, InOrder, DependenciesDone
<1> QED BY <1>1, TaskInvHolds, PTL

-----------------------------------------------------------------------------
(* What a step may do to the tasks (the action properties). *)

\* The formulas inside ClaimRespected, EndIsFinal and BlockedUntilAnswered.
ByAuthorised(t) ==
  \E i \in Authorised(board[t]) : seen'[i] = [id |-> t, task |-> board'[t]]

RespectsClaims ==
  \A t \in DOMAIN board :
    Active(board[t]) => /\ t \in DOMAIN board'
                        /\ board'[t] # board[t] => ByAuthorised(t)

KeepsEnds ==
  \A t \in DOMAIN board \cap DOMAIN board' :
    board[t].status \in Terminal => board'[t] = board[t]

KeepsBlocked ==
  \A t \in DOMAIN board \cap DOMAIN board' :
    board[t].status = "input_required" /\ board'[t].status # "input_required" => ByAuthorised(t)

Keeps == RespectsClaims /\ KeepsEnds /\ KeepsBlocked

\* The expiry spares active claims and tasks that have ended, leaves a blocked
\* task blocked and gives nobody authority that the task did not give.
LEMMA FreshSpares ==
  ASSUME TaskInv, NEW t \in DOMAIN board
  PROVE  /\ Active(board[t]) \/ board[t].status \in Terminal => Fresh[t] = board[t]
         /\ board[t].status = "input_required" => Fresh[t].status = "input_required"
         /\ \A i \in Identities : i \in Authorised(Fresh[t]) => i \in Authorised(board[t])
<1>1. Good(board[t]) BY DEF TaskInv, Safe
<1>2. CASE ~Expired(board[t])
  BY <1>2 DEF Fresh
<1>3. CASE Expired(board[t])
  <2>1. Fresh[t] = Released(board[t]) /\ board[t].status \in Leased BY <1>3 DEF Fresh, Expired
  <2>2. ~Active(board[t]) /\ board[t].status \notin Terminal
    <3>1. board[t].lease \in Nat /\ clock \in Nat BY <1>1 DEF Good, Task, TaskInv, TypeOK
    <3> QED BY <1>3, <3>1 DEF Expired, Active, Terminal, Leased
  <2>3. /\ board[t].status = "input_required" => Released(board[t]).status = "input_required"
        /\ Released(board[t]).creator = board[t].creator
    BY <1>1 DEF Good, Task, Released, Unclaimed
  <2>4. Released(board[t]).owner = None BY <1>1, <2>1, ReleasedFacts
  <2>5. \A i \in Identities : ~IsOwner(Fresh[t], i)
    BY <2>1, <2>4, TaskAssumption DEF IsOwner
  <2> QED BY <2>1, <2>2, <2>3, <2>5 DEF Authorised, IsCreator
<1> QED BY <1>2, <1>3

\* One operation of i on task t, which is open or gives i authority.
LEMMA OperationKeeps ==
  ASSUME TaskInv, NEW i \in Identities, NEW t \in DOMAIN board, NEW new,
         Fresh[t].status \notin Terminal,
         Fresh[t].status = "open" \/ i \in Authorised(Fresh[t]),
         board' = [Fresh EXCEPT ![t] = new],
         seen' = [seen EXCEPT ![i] = [id |-> t, task |-> new]]
  PROVE  Keeps
<1>1. DOMAIN Fresh = DOMAIN board BY DEF Fresh
<1>2. /\ DOMAIN board' = DOMAIN board /\ board'[t] = new
      /\ \A s \in DOMAIN board \ {t} : board'[s] = Fresh[s]
      /\ seen'[i] = [id |-> t, task |-> board'[t]]
  BY <1>1 DEF TaskInv, TypeOK
<1>3. RespectsClaims
  <2> SUFFICES ASSUME NEW s \in DOMAIN board, Active(board[s]), board'[s] # board[s]
               PROVE  ByAuthorised(s)
    BY <1>2 DEF RespectsClaims
  <2>1. s = t /\ Fresh[s] = board[s] BY <1>2, FreshSpares
  <2>2. board[t].status # "open" BY <2>1 DEF Active, Leased
  <2> QED BY <1>2, <2>1, <2>2 DEF ByAuthorised
<1>4. KeepsEnds BY <1>2, FreshSpares DEF KeepsEnds
<1>5. KeepsBlocked
  <2> SUFFICES ASSUME NEW s \in DOMAIN board, board[s].status = "input_required",
                      board'[s].status # "input_required"
               PROVE  ByAuthorised(s)
    BY DEF KeepsBlocked
  <2>1. s = t /\ i \in Authorised(board[t]) BY <1>2, FreshSpares
  <2> QED BY <1>2, <2>1 DEF ByAuthorised
<1> QED BY <1>3, <1>4, <1>5 DEF Keeps

\* An operation that writes nothing of its own.
LEMMA ExpiryKeeps == TaskInv /\ board' = Fresh => Keeps
<1> SUFFICES ASSUME TaskInv, board' = Fresh PROVE Keeps
  OBVIOUS
<1>1. DOMAIN Fresh = DOMAIN board BY DEF Fresh
<1> QED BY <1>1, FreshSpares DEF Keeps, RespectsClaims, KeepsEnds, KeepsBlocked

\* Room is made of a task that has ended, and an active claim has not.
LEMMA CreateKeeps ==
  ASSUME TaskInv, NEW i \in Identities, NEW deps, NEW files, Create(i, deps, files)
  PROVE  Keeps
<1>1. PICK tasks \in Room(Fresh) :
        board' = [t \in DOMAIN tasks \cup {created'} |->
                    IF t = created' THEN NewTask(i, deps, files) ELSE tasks[t]]
  BY DEF Create
<1>2. created' = created + 1 /\ created \in Nat BY DEF Create, TaskInv, TypeOK
<1>3. DOMAIN Fresh = DOMAIN board BY DEF Fresh
<1>4. /\ DOMAIN tasks \subseteq DOMAIN board
      /\ \A t \in DOMAIN tasks : tasks[t] = Fresh[t]
      /\ \A t \in DOMAIN board \ DOMAIN tasks : Fresh[t].status \in Terminal
  BY <1>3 DEF Room
<1>5. created' \notin DOMAIN board BY <1>2 DEF TaskInv, Safe
<1>6. /\ \A t \in DOMAIN tasks : t \in DOMAIN board' /\ board'[t] = Fresh[t]
      /\ DOMAIN board \cap DOMAIN board' = DOMAIN tasks
  BY <1>1, <1>4, <1>5
<1>7. \A t \in DOMAIN board : Active(board[t]) => t \in DOMAIN tasks
  <2> SUFFICES ASSUME NEW t \in DOMAIN board, Active(board[t]), t \notin DOMAIN tasks
               PROVE  FALSE
    OBVIOUS
  <2>1. board[t].status \in Terminal BY <1>4, FreshSpares
  <2> QED BY <2>1 DEF Active, Leased, Terminal
<1> QED BY <1>6, <1>7, FreshSpares DEF Keeps, RespectsClaims, KeepsEnds, KeepsBlocked

\* Every operation on a task that was read before.
LEMMA WriteKeeps ==
  ASSUME TaskInv, NEW i \in Identities, NEW new, Current(i), Write(i, new),
         Mine(i).status \notin Terminal,
         Mine(i).status = "open" \/ IsCreator(Mine(i), i) \/ IsOwner(Mine(i), i)
  PROVE  Keeps
<1>1. seen[i].id \in DOMAIN board BY DEF Current
<1>2. Mine(i).status = "open" \/ i \in Authorised(Mine(i)) BY DEF Authorised
<1> QED BY <1>1, <1>2, OperationKeeps DEF Write, Tell, Mine

LEMMA ActKeeps ==
  ASSUME TaskInv, NEW i \in Identities, Act(i)
  PROVE  Keeps
<1>1. \A t \in TaskIds : Read(i, t) => Keeps BY ExpiryKeeps DEF Read
<1>2. \A deps, files : Create(i, deps, files) => Keeps BY CreateKeeps
<1>3. \A seconds : Claim(i, seconds) => Keeps
  BY WriteKeeps DEF Claim, Terminal
<1>4. \A seconds : Renew(i, seconds) => Keeps
  BY WriteKeeps, HoldsFacts DEF Renew, Holds
<1>5. \A seconds : RequestInput(i, seconds) => Keeps
  BY WriteKeeps, HoldsFacts DEF RequestInput, Holds
<1>6. \A seconds : ProvideInput(i, seconds) => Keeps
  BY WriteKeeps DEF ProvideInput, Terminal
<1>7. \A seconds, t : ClaimNext(i, t, seconds) => Keeps
  <2> SUFFICES ASSUME NEW seconds, NEW t, ClaimNext(i, t, seconds) PROVE Keeps
    OBVIOUS
  <2>1. t \in DOMAIN board /\ Fresh[t].status = "open" BY DEF ClaimNext, Ready
  <2> QED BY <2>1, OperationKeeps DEF ClaimNext, Tell, Terminal
<1>8. Release(i) => Keeps BY WriteKeeps, HoldsFacts DEF Release, Holds
<1>9. Cancel(i) => Keeps BY WriteKeeps DEF Cancel
<1>10. \A status, artifact : Finish(i, status, artifact) => Keeps
  BY WriteKeeps, HoldsFacts DEF Finish, Holds
<1> QED BY <1>1, <1>2, <1>3, <1>4, <1>5, <1>6, <1>7, <1>8, <1>9, <1>10 DEF Act

LEMMA NextKeeps == TaskInv /\ [Next]_vars => Keeps \/ UNCHANGED vars
<1>1. Tick => UNCHANGED board BY DEF Tick
<1>2. UNCHANGED board => Keeps
  BY DEF Keeps, RespectsClaims, KeepsEnds, KeepsBlocked
<1>3. TaskInv /\ Refresh => Keeps BY ExpiryKeeps DEF Refresh
<1> QED BY <1>1, <1>2, <1>3, ActKeeps DEF Next

\* While a claim lasts, only its holder and the task's creator change the task,
\* and no operation drops it to make room.
THEOREM ClaimRespectedHolds == Spec => ClaimRespected
<1>1. TaskInv /\ [Next]_vars =>
        [\A t \in DOMAIN board :
           Active(board[t]) =>
             /\ t \in DOMAIN board'
             /\ board'[t] # board[t] =>
                  \E i \in Authorised(board[t]) : seen'[i] = [id |-> t, task |-> board'[t]]]_vars
  BY NextKeeps DEF Keeps, RespectsClaims, ByAuthorised
<1> QED BY <1>1, TaskInvHolds, PTL DEF Spec, ClaimRespected

\* A task that has ended stays as it is, and a blocked one is unblocked by its
\* owner or its creator alone, never by the expiry of its claim.
THEOREM KeepsStatusHolds == Spec => KeepsStatus
<1>1. TaskInv /\ [Next]_vars =>
        [\A t \in DOMAIN board \cap DOMAIN board' :
           board[t].status \in Terminal => board'[t] = board[t]]_vars
  BY NextKeeps DEF Keeps, KeepsEnds
<1>2. TaskInv /\ [Next]_vars =>
        [\A t \in DOMAIN board \cap DOMAIN board' :
           board[t].status = "input_required" /\ board'[t].status # "input_required"
             => \E i \in Authorised(board[t]) : seen'[i] = [id |-> t, task |-> board'[t]]]_vars
  BY NextKeeps DEF Keeps, KeepsBlocked, ByAuthorised
<1> QED BY <1>1, <1>2, TaskInvHolds, PTL DEF Spec, KeepsStatus, EndIsFinal, BlockedUntilAnswered

=============================================================================
