--------------------------- MODULE MCCollaboration ---------------------------
(***************************************************************************)
(* How agents work together, checked part by part in one run: a behaviour  *)
(* begins by choosing a part and is then a behaviour of that part's module *)
(* alone, with the values of the constants given here; the variables of    *)
(* the other parts stay Off.  The properties are stated for every part in  *)
(* terms of its own module.                                                *)
(***************************************************************************)
EXTENDS CollaborationContexts, TLC

CONSTANTS
  Off,                          \* the value of the variables that are not used
  b1, b2, ann, bob, r1, r2,     \* two bindings, their actors, two processes
  \* AgentWork
  Ids, Managers, Tasks, Calls, NoOne, MaxParticipants, MaxTimeouts, MaxRevision,
  \* AgentManager
  MaxConcurrentAgents, MaxRetainedAgents, MaxAgents, MaxWaiting, MaxFailures,
  \* AgentChat
  Processes, Readers, NoState, HistoryLimit, MaxPosts, MaxChatFaults,
  \* AgentCoordination
  Agents, Controller, ChatLimit, TaskLimit, AuditLimit, ReadLimit, MaxTasks, MaxEvents, MaxClock

VARIABLES
  part,
  status, participants, board, calls, raced,
  agents, allDisposed, failures,
  log, cache, posts, accepted, readers, subscribed, notices, chatFaults,
  stored, tasksCreated, auditor, member, clock

workVars     == <<status, participants, board, calls, raced>>
managerVars  == <<agents, allDisposed, failures>>
chatVars     == <<log, cache, posts, accepted, readers, subscribed, notices, chatFaults>>
coordVars    == <<stored, tasksCreated, auditor, member, clock>>

allVars == <<part, vars, workVars, managerVars, chatVars, coordVars>>

TwoActors == b1 :> ann @@ b2 :> bob

\* The clock is not set back; otherwise what is stated of the coordination file
\* does not hold.
Loop         == INSTANCE AgentWork WITH tasks <- board
Manager      == INSTANCE AgentManager WITH disposed <- allDisposed
Chat         == INSTANCE AgentChat WITH file <- log, faults <- chatFaults, MaxFaults <- MaxChatFaults
Coordination == INSTANCE AgentCoordination WITH
  created <- tasksCreated, ClockStepsBack <- FALSE, MaxTime <- MaxClock

ASSUME PartsAssumption ==
  /\ Loop!WorkAssumption /\ Manager!ManagerAssumption
  /\ Chat!ChatAssumption /\ Coordination!CoordinationAssumption

-----------------------------------------------------------------------------
ContextsOff ==
  /\ file = Off /\ created = Off /\ contexts = Off /\ runtime = Off
  /\ disposed = Off /\ host = Off /\ faults = Off /\ now = Off
WorkOff == status = Off /\ participants = Off /\ board = Off /\ calls = Off /\ raced = Off
ManagerOff == agents = Off /\ allDisposed = Off /\ failures = Off
ChatOff ==
  /\ log = Off /\ cache = Off /\ posts = Off /\ accepted = Off
  /\ readers = Off /\ subscribed = Off /\ notices = Off /\ chatFaults = Off
CoordinationOff ==
  stored = Off /\ tasksCreated = Off /\ auditor = Off /\ member = Off /\ clock = Off

AllInit ==
  \/ /\ part = "contexts" /\ Init
     /\ WorkOff /\ ManagerOff /\ ChatOff /\ CoordinationOff
  \/ /\ part = "work" /\ Loop!Init
     /\ ContextsOff /\ ManagerOff /\ ChatOff /\ CoordinationOff
  \/ /\ part = "manager" /\ Manager!Init
     /\ ContextsOff /\ WorkOff /\ ChatOff /\ CoordinationOff
  \/ /\ part = "chat" /\ Chat!Init
     /\ ContextsOff /\ WorkOff /\ ManagerOff /\ CoordinationOff
  \/ /\ part = "coordination" /\ Coordination!Init
     /\ ContextsOff /\ WorkOff /\ ManagerOff /\ ChatOff

ContextsNext ==
  /\ part = "contexts" /\ Next
  /\ UNCHANGED <<part, workVars, managerVars, chatVars, coordVars>>
WorkNext ==
  /\ part = "work" /\ Loop!Next
  /\ UNCHANGED <<part, vars, managerVars, chatVars, coordVars>>
ManagerNext ==
  /\ part = "manager" /\ Manager!Next
  /\ UNCHANGED <<part, vars, workVars, chatVars, coordVars>>
ChatNext ==
  /\ part = "chat" /\ Chat!Next
  /\ UNCHANGED <<part, vars, workVars, managerVars, coordVars>>
CoordinationNext ==
  /\ part = "coordination" /\ Coordination!Next
  /\ UNCHANGED <<part, vars, workVars, managerVars, chatVars>>

AllNext == ContextsNext \/ WorkNext \/ ManagerNext \/ ChatNext \/ CoordinationNext

AllSpec == AllInit /\ [][AllNext]_allVars

-----------------------------------------------------------------------------
(* Bounds that lie in the states. *)

\* Nothing tells one tool call from another (AgentWork).
Symmetry == Permutations(Calls)

\* Two processes that come and go while nothing else happens; one process that
\* stays while the store fails and time goes on; and a full store, with sessions
\* of two actors.
ContextsExplored ==
  LET alone == runtime[r2] = None /\ host.started <= 1 /\ host.starts[2] = 0 /\ host.boot = 1
      ofOne == created <= 2 /\ Len(contexts) <= 2
                 /\ \A k \in DOMAIN contexts : contexts[k].binding = b1
  IN  \/ ofOne /\ faults = 0 /\ now = 1 /\ Len(contexts) <= 1
      \/ ofOne /\ faults = 0 /\ now = 1 /\ host.boot = 1 /\ host.started <= 2
      \/ ofOne /\ alone /\ now <= 3
      \/ /\ alone /\ faults = 0 /\ now <= 2
         /\ \A k \in DOMAIN contexts : contexts[k].binding = IF k = 1 THEN b2 ELSE b1
         /\ Len(contexts) > 1 => contexts[1].queue = <<>> /\ contexts[1].handle # NoHandle
         /\ Len(contexts) > 2 => contexts[2].disposing = "done"

\* The manager's own session is never resumed after it has lapsed.
WorkExplored == \A s \in Managers : status[s] \in {"none", "active"}

\* One agent with longer queues, or two of which the second is only spawned and stopped.
ManagerExplored ==
  Len(agents) = 2 =>
    /\ agents[2].ops = <<>>
    /\ agents[2].ctl \in {<<>>, <<"stop">>}
    /\ Len(agents[1].ops) + Len(agents[1].ctl) <= 2

Explored ==
  /\ part = "contexts" => ContextsExplored
  /\ part = "work" => WorkExplored
  /\ part = "manager" => ManagerExplored

-----------------------------------------------------------------------------
(* Properties. *)

\* A connection does not lose its session when the reply of a resume is lost, and
\* the store never writes a file that it will not read (CollaborationContexts).
HandlesKept ==
  part = "contexts" => TypeOK /\ FileReadable /\ HandleKept

\* No actor exceeds its sessions, and disposed contexts leave none behind
\* (CollaborationContexts).
ActorsContained ==
  part = "contexts" => ActorWithinLimit /\ DisposedReleased

\* A session ends for a cause: it is taken away as lost only from a process that is
\* gone, and dropped to make room only when it could not be used any more
\* (CollaborationContexts).
SessionsEndForCause == [][part = "contexts" => OnlyOrphansLost /\ UsableKept]_vars

\* The store of the sessions keeps the promise of SessionLifecycle.
Lifecycle == INSTANCE SessionLifecycle WITH
  Ids <- 1 .. MaxCreated,
  status <- [id \in 1 .. MaxCreated |-> IF part = "contexts" THEN StatusOf(id) ELSE "none"]

KeepsLifecycle == Lifecycle!Spec

\* A participant that was released for good owns no task, unless a call of it was
\* past its own check when the manager looked, or it joined anew (AgentWork).
ReleasedOwnsNothing == part = "work" => Loop!TypeOK /\ Loop!ReleasedOwnsNothing

\* No runtime of an agent is lost, the limit of agents holds, and disposal stops
\* all of them (AgentManager).
AgentsContained ==
  part = "manager" =>
    Manager!TypeOK /\ Manager!NoStrayRuntime /\ Manager!WithinLimit /\ Manager!DisposeStops

\* Who reads the chat, the channel or the audit by cursors misses nothing without
\* being told (AgentChat, AgentCoordination).
ReadersMissNothing ==
  /\ part = "chat" => Chat!TypeOK /\ Chat!NothingMissed /\ Chat!CursorsUsable
  /\ part = "coordination" => Coordination!ReadersMissNothing

\* The coordination file can always be read, and the audit tells how each task
\* came to be what it is (AgentCoordination).
AuditTrail ==
  part = "coordination" =>
    Coordination!TypeOK /\ Coordination!StateReadable /\ Coordination!AuditTrail

\* A release of a participant is final, a stop decides how an agent ends, and an
\* end stays (AgentWork, AgentManager).
DecisionsFinal ==
  [][/\ part = "work" => Loop!ReleaseFinal
     /\ part = "manager" => Manager!StopOwns /\ Manager!EndKept]_<<workVars, managerVars>>

=============================================================================
