-------------------------- MODULE AgentCoordination --------------------------
(***************************************************************************)
(* The coordination plane of the supervised agents (src/src/agents/        *)
(* coordination.ts): tasks that a controller hands to agents, a channel,   *)
(* and an audit of both.  The controller comes through the tools of src/   *)
(* src/mcp-core.ts, an agent through its own (src/src/agents/pi-           *)
(* coordination-tools.ts).                                                 *)
(*                                                                         *)
(* Each operation reads the file, changes it and writes it back under a    *)
(* lock like that of module FileLock, so it is one step.  A write that     *)
(* fails leaves the old file or the new one, and its caller an error: the  *)
(* same step without its reply.  An operation with a stale revision, or    *)
(* one that the task forbids, changes nothing.  Texts and roles are left   *)
(* out; of a message or artifact of a task only whether it is there.       *)
(***************************************************************************)
EXTENDS MessageLog, FiniteSets

CONSTANTS
  Agents,      \* supervised agents
  Controller,  \* the identity with controller authority
  None,
  ChatLimit, TaskLimit, AuditLimit,
  ReadLimit,    \* entries that one call reads
  ClockStepsBack, \* whether the clock of the host may be set back
  MaxTasks,    \* bound: tasks ever created
  MaxEvents,   \* bound: audited operations
  MaxTime      \* bound on the clock

CoordinationAssumption ==
  /\ Controller \notin Agents /\ None \notin Agents \cup {Controller}
  /\ {ChatLimit, TaskLimit, AuditLimit, ReadLimit, MaxTasks, MaxEvents} \subseteq Nat \ {0}
  /\ MaxTime \in Nat
  /\ ClockStepsBack \in BOOLEAN

VARIABLES
  stored,   \* the file
  created,  \* tasks ever created; a task is known by its number
  auditor,  \* a reader of the audit, by its cursor
  member,   \* a reader of the channel, by its cursor
  clock

coordinationVars == <<stored, created, auditor, member, clock>>

Statuses == {"open", "assigned", "working", "blocked", "completed", "failed", "cancelled"}
Terminal == {"completed", "failed", "cancelled"}
AgentSet == {"working", "blocked", "completed", "failed"}   \* what an agent may set
Callers  == Agents \cup {Controller}

NewTask(id) ==
  [id |-> id, status |-> "open", assigned |-> None, message |-> FALSE, artifact |-> FALSE,
   createdAt |-> clock, updatedAt |-> clock, revision |-> 1]

ChatEvent == [kind |-> "agent_chat_post", task |-> 0, from |-> None, to |-> None]
TaskEvent(kind, id, from, to) == [kind |-> kind, task |-> id, from |-> from, to |-> to]

TaskIds == {stored.tasks[k].id : k \in DOMAIN stored.tasks}
Task(id) == stored.tasks[CHOOSE k \in DOMAIN stored.tasks : stored.tasks[k].id = id]

\* The cursor of a reader, and the entries that it was given or told are gone.
NewReader == [after |-> -1, known |-> {}]

Init ==
  /\ stored = [tasks |-> <<>>, chat |-> EmptyLog, audit |-> EmptyLog]
  /\ created = 0
  /\ auditor = NewReader
  /\ member = NewReader
  /\ clock = 0

-----------------------------------------------------------------------------
(* What a stored state must be for the next operation to read it. *)

TaskValid(task) ==
  /\ task.status = "open" => task.assigned = None
  /\ task.status \notin {"open", "cancelled"} => task.assigned # None
  /\ task.status \in {"blocked", "failed"} => task.message
  /\ task.artifact => task.status \in {"completed", "failed"}
  /\ task.updatedAt >= task.createdAt

EventValid(event) ==
  CASE event.kind = "agent_chat_post"   -> event.from = None /\ event.to = None
    [] event.kind = "agent_task_create" -> event.from = None /\ event.to = "open"
    [] event.kind = "agent_task_assign" -> event.from \in Statuses /\ event.to = "assigned"
    [] OTHER                            -> {event.from, event.to} \subseteq Statuses

Valid(state) ==
  /\ Contiguous(state.chat, ChatLimit)
  /\ Contiguous(state.audit, AuditLimit)
  /\ Len(state.tasks) <= TaskLimit
  /\ IsInjective([k \in DOMAIN state.tasks |-> state.tasks[k].id])
  /\ \A k \in DOMAIN state.tasks : TaskValid(state.tasks[k])
  /\ \A k \in DOMAIN state.audit.entries : EventValid(state.audit.entries[k].content)

\* An operation on a state that cannot be read fails before it does anything.
Mutates(next) ==
  /\ stored.audit.next <= MaxEvents
  /\ Valid(stored)
  /\ stored' = next
  /\ UNCHANGED <<auditor, member, clock>>

Audited(state, event) == [state EXCEPT !.audit = Appended(@, event, AuditLimit)]

-----------------------------------------------------------------------------
(* The channel. *)

agentChatPost ==
  /\ Mutates(Audited([stored EXCEPT !.chat = Appended(@, None, ChatLimit)], ChatEvent))
  /\ UNCHANGED created

\* next_cursor of a read.
Continue(log, given, after) ==
  IF given # <<>> THEN Last(given).cursor ELSE after

\* What a reader knows after a read: at first the latest entries, and that those
\* before them are past; then the entries after its cursor, from the oldest.
Read(reader, log) ==
  LET first == reader.after = -1
      after == IF first THEN Latest(log) ELSE reader.after
      given == IF first THEN LastOf(log.entries, ReadLimit)
               ELSE LET newer == After(log, after)
                    IN  SubSeq(newer, 1, IF Len(newer) < ReadLimit THEN Len(newer) ELSE ReadLimit)
      told  == IF given = <<>> THEN {}
               ELSE IF first THEN 1 .. (Head(given).cursor - 1)
               ELSE IF Gap(log, after) THEN (after + 1) .. (Oldest(log) - 1) ELSE {}
  IN  [after |-> Continue(log, given, after),
       known |-> reader.known \cup told \cup {given[k].cursor : k \in DOMAIN given}]

agentChatRead ==
  /\ Valid(stored) /\ Readable(stored.chat, member.after)
  /\ member' = Read(member, stored.chat)
  /\ UNCHANGED <<stored, created, auditor, clock>>

auditRead ==
  /\ Valid(stored) /\ Readable(stored.audit, auditor.after)
  /\ auditor' = Read(auditor, stored.audit)
  /\ UNCHANGED <<stored, created, member, clock>>

-----------------------------------------------------------------------------
(* Tasks. *)

\* A full board makes room by dropping the finished task that was updated first.
Rooms ==
  LET full == Len(stored.tasks) >= TaskLimit
      ended == {k \in DOMAIN stored.tasks : stored.tasks[k].status \in Terminal}
      oldest == {k \in ended : \A other \in ended :
                   stored.tasks[k].updatedAt <= stored.tasks[other].updatedAt}
  IN  IF ~full THEN {stored.tasks} ELSE {RemoveAt(stored.tasks, k) : k \in oldest}

agentTaskCreate ==
  /\ created < MaxTasks
  /\ created' = created + 1
  /\ \E room \in Rooms :
       Mutates(Audited([stored EXCEPT !.tasks = Append(room, NewTask(created + 1))],
                       TaskEvent("agent_task_create", created + 1, None, "open")))

Replaced(id, task) ==
  [k \in DOMAIN stored.tasks |-> IF stored.tasks[k].id = id THEN task ELSE stored.tasks[k]]

\* Mutant: the revision stays.
Mutant_Reassigned(task, agent, message) ==
  [task EXCEPT !.status = "assigned", !.assigned = agent, !.message = message,
               !.artifact = FALSE, !.updatedAt = clock]

Reassigned(task, agent, message) ==
  [task EXCEPT !.status = "assigned", !.assigned = agent, !.message = message,
               !.artifact = FALSE, !.updatedAt = clock, !.revision = @ + 1]

\* Only the controller assigns, and it may take a task from one agent for another.
agentTaskAssign(id, agent, message) ==
  /\ Task(id).status \notin Terminal
  /\ Mutates(Audited([stored EXCEPT !.tasks = Replaced(id, Reassigned(Task(id), agent, message))],
                     TaskEvent("agent_task_assign", id, Task(id).status, "assigned")))
  /\ UNCHANGED created

\* An agent's targets never include cancelled, so the check of that is left out.
requireTaskTransition(from, to) ==
  /\ from \notin Terminal
  /\ from # to
  /\ from = "open" => to = "cancelled"

requireTaskUpdateAuthority(caller, task, to) ==
  \/ caller = Controller
  \/ task.assigned = caller /\ to \in AgentSet

agentTaskUpdate(id, caller, to, message, artifact) ==
  /\ to \in {"blocked", "failed"} => message
  /\ artifact => to \in {"completed", "failed"}
  /\ requireTaskUpdateAuthority(caller, Task(id), to)
  /\ requireTaskTransition(Task(id).status, to)
  /\ LET updated == [Task(id) EXCEPT !.status = to, !.message = message, !.artifact = artifact,
                                     !.updatedAt = clock, !.revision = @ + 1]
     IN  Mutates(Audited([stored EXCEPT !.tasks = Replaced(id, updated)],
                         TaskEvent("agent_task_update", id, Task(id).status, to)))
  /\ UNCHANGED created

tick ==
  /\ clock' \in {clock + 1} \cup (IF ClockStepsBack THEN {clock - 1} ELSE {})
  /\ clock' \in 0 .. MaxTime
  /\ UNCHANGED <<stored, created, auditor, member>>

Next ==
  \/ agentChatPost \/ agentChatRead \/ auditRead
  \/ agentTaskCreate
  \/ \E id \in TaskIds, message \in BOOLEAN :
       \/ \E agent \in Agents : agentTaskAssign(id, agent, message)
       \/ \E caller \in Callers, to \in Statuses \ {"open", "assigned"}, artifact \in BOOLEAN :
            agentTaskUpdate(id, caller, to, message, artifact)
  \/ tick

Spec == Init /\ [][Next]_coordinationVars

-----------------------------------------------------------------------------
(* Properties. *)

TypeOK ==
  /\ created \in 0 .. MaxTasks
  /\ \A k \in DOMAIN stored.tasks :
       /\ stored.tasks[k].status \in Statuses
       /\ stored.tasks[k].assigned \in Agents \cup {None}
       /\ stored.tasks[k].revision \in Nat \ {0}
  /\ clock \in 0 .. MaxTime

\* No order of operations by the controller and the agents writes a file that the
\* next operation refuses to read, which would end the coordination of the project.
StateReadable == Valid(stored)

\* The retained events about a task: how it came from one status to the next.
EventsOf(id) == {entry \in ToSet(stored.audit.entries) : entry.content.task = id}

\* The audit tells the history of each task without a hole: each retained event
\* starts where the one before it ended, the last ends at the status of the task,
\* and a task whose creation is retained has as many events as revisions.
AuditTrail ==
  \A id \in TaskIds : \A event \in EventsOf(id) :
    LET earlier == {e \in EventsOf(id) : e.cursor < event.cursor}
        later == {e \in EventsOf(id) : e.cursor > event.cursor}
    IN  /\ \A e \in earlier : (\A other \in earlier : other.cursor <= e.cursor)
                               => event.content.from = e.content.to
        /\ later = {} => event.content.to = Task(id).status
        /\ event.content.kind = "agent_task_create" =>
             earlier = {} /\ Cardinality(EventsOf(id)) = Task(id).revision

\* A reader that passes on the cursor that it was given, and looks at `gap',
\* misses no entry silently, however few entries a call may return, and its cursor
\* stays one that the log accepts.
ReadersMissNothing ==
  /\ 1 .. auditor.after \subseteq auditor.known /\ Readable(stored.audit, auditor.after)
  /\ 1 .. member.after \subseteq member.known /\ Readable(stored.chat, member.after)
=============================================================================
