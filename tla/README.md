# PiLink in TLA+

PiLink connects a ChatGPT conversation to a local computer: it is an MCP server
that offers files, commands, agents, a task board and a project memory, and a
gateway through which local programs ask questions that a ChatGPT conversation
answers. This directory holds specifications of its stateful parts, the TLC
configurations that check them on small instances, and TLAPS proofs of what
matters most for instances of any size. Paths below are those of the repository,
relative to its `src/` unless they begin with another directory of its root
(comments in the modules write `src/src/` for it).

Run `tlc -workers 2 -config <run>.cfg <module>` for a run of section 4, and
`tlapm <module>Proofs.tla` for the proofs.

## 1. The system

Each PiLink is one Node process, so code between two `await`s is atomic; but
several PiLink processes may share a project's data directory, and jobs,
workers, tunnels and browsers are processes of their own. State lives in JSON
files that are replaced by write, sync, rename and directory sync.

| Part | Source | State | Operations | Talks to |
|---|---|---|---|---|
| Gateway store | `llm-gateway-store.ts` | requests with claims and leases, active session, delivery, pending completion, replays (`state.json`); session generations and sleeping calls (memory) | activate, release, status, enqueue, cancel, wait, disconnect, exchange | API, MCP gateway tool |
| Gateway API | `llm-gateway-api.ts`, `-protocol.ts`, `-mcp.ts` | one request per HTTP call; a listening server | check, enqueue, wait, cancel; validate a request and an answer; start, close | store |
| Gateway wake-up | `llm-gateway-auto-wake.ts`, `-runtime.ts`, `browser-extension/` | supervisors, nonces, attempts, tabs | watch the queue, open a tab, confirm, suspend | store, browser |
| Local gateway launch | `pilink-cli-agent.ts`, `llm-gateway-launch.ts`, `-ports.ts` | launch lock, ports in the configuration, detached server | ensure, probe, move ports, repoint the domain | domain, gateway |
| Lock files | `withStateLock` in `tasks.ts` and five copies | a lock file with pid and token | take, give back, remove a stale one | every JSON store |
| Task board | `tasks.ts` | tasks: status, owner, scope, lease, revision | create, list, claim, claim next, renew, ask, answer, hand back, finish, cancel | scheduling, locks |
| Scheduling | `scheduling.ts` | none (pure), the stack of a graph search | readiness, ranking, report, cycles, overlap | task board |
| Execution jobs | `execution-jobs.ts`, `-worker.ts` | a directory per job: metadata, logs, marker, result; processes | start, status, wait, output, cancel, prune | worker, operating system |
| Command run | `run.ts` | one process tree | run, deadline, abort | operating system |
| Collaboration sessions | `collaboration-sessions.ts`, `-context-registry.ts`, `-bootstrap.ts`, `runtime-owner.ts` | session handles, expiry, recovery, owners; contexts shared by transports | start, authenticate, resume, release, revoke, evict, upgrade | work loop, MCP server |
| Work loop | `work-loop.ts`, tools of `mcp-core.ts` | participants and their lifecycle | register, mark, outcome, disconnect, release | sessions, task board |
| Agent manager | `agents/manager.ts`, `agents/pi-sdk-adapter.ts` | agents, two queues and a runtime each | spawn, send, cancel, stop, events, dispose | provider |
| Coordination, chat | `agents/coordination.ts`, `chat.ts` | messages, assignments, audit with cursors | post, read, assign, update | agents |
| Memory | `memory.ts` | governed entries and tombstones | propose, derive, promote, supersede, dispute, delete | agents |
| OAuth | `oauth.ts`, `auth.ts`, `oauth-owner.ts`, `oauth-local-approval.ts` | clients, codes, tokens, pairings, consent forms | register, authorize, approve, exchange, refresh, revoke | HTTP |
| MCP sessions | `index.ts` | table of transports with reservations and quotas | initialize, request, recycle, sweep, close | MCP server |
| Activity, audit | `activity.ts`, `audit.ts` | an event file, a rotating line file | append, page, rotate, read | tools |
| Launchers | `packages/vscode/src/`, `cli-core.ts`, `ensure-cli-link.ts`, `llm-gateway-browser-setup.ts` | child processes, managed downloads, links on the PATH, staged extension | start, adopt, stop, install, link, stage | server |
| Hosting | `hosting/` | files, tunnel, DNS records, units | plan, apply, provision a fixed domain | Cloudflare, systemd |
| Desktop | `computer-wayland.ts` | helper process, pending request | start, ask, time out, stop | helper |

How they depend on each other: every JSON store relies on the lock files; the
board asks the scheduler; the work loop combines sessions, participants and the
board, which are locked separately; contexts hold sessions for MCP transports;
the wake-up, the API and the MCP tool meet only in the gateway store; launchers,
hosting and the local gateway start the same server and edit the same
configuration.

What is hard: in the gateway, three parties (callers, worker, transport) act on
one request, any reply can be lost, and the process can restart; in the stores,
operations of several processes exclude each other through files; on the board,
agents act on old copies while claims expire; sessions are owned by processes
whose numbers are reused, and their handles rotate while replies are lost; a
provider reports what it likes while an agent is being stopped; whatever starts
something outside Node (jobs, tunnels, helpers, units) may be interrupted
between any two steps. `hazards` in PROJECT.json lists the forty places where
this bites, with the properties that are aimed at each.

What makes the parts correct:

- *gateway*: one delivery out at a time, the answer comes from the last one, a
  lost reply can be asked for again, an answer is never revised, every request
  ends, and a stranded request wakes a worker once;
- *locks*: mutual exclusion, no lost update, no store blocked by a crash;
- *task board and scheduling*: nobody's change is overwritten, a claim is
  respected until it ends, work follows its dependencies, the board stays
  readable, and who finds no work is told why or when;
- *jobs and commands*: reports are true, a cancel is final and effective, room
  is never made at the cost of a running job;
- *sessions and work loop*: a released session is never usable again, a lost
  reply does not lose a session, a live one is not taken for an orphan, and a
  released participant owns nothing;
- *agents*: a stop is final whatever the provider reports, and no runtime is
  forgotten while it runs;
- *logs*: who follows the cursors misses nothing without being told;
- *memory*: only governed entries are shown as settled, and the past stands;
- *OAuth*: a code or refresh token works once, credentials end with what they
  were granted for, and every code answers an approval;
- *launchers and hosting*: what is started is known, what is interrupted can be
  run again, and what belongs to others stays.

## 2. Modules

| Module | Models | State and actions |
|---|---|---|
| `GatewayStore` | the store with callers, workers, transports, restarts and failed writes | `State` = `StoredGatewayState`, and on it, as pure operators, `BindSession`, `ReclaimExpiredClaims`, `Complete`, `PruneJobs`, ... = the functions of these names; `st` = `cachedState`, `disk` = `state.json`, `gen` = `sessionGenerations`, `call` = exchange calls in flight, `caller` = API callers |
| `RequestReply` | what the gateway promises, abstractly | refined by `GatewayStore` |
| `GatewayWaits` | `waitForChange` and `emitChange` | `changeRevision`, `waits` = the sleepers, `durable` and `announced` = changes on disk and told |
| `GatewayConversation` | what one validator accepts and the other must take back | `history`, `request`, `answer`; one action per message of harness and worker |
| `GatewayListener` | `startGatewayApi` and its `close` over a Node server | `socket`, events emitted, both promises |
| `GatewayWake` | supervisors, wake confirmation, the extension's tab | `supervisors`, `nonces`, `tabs`; `gateway` = the few facts of the status |
| `LocalGateway` | background and manual launches, ports, domain | `lock`, `localClients`, `servers`, `disk` = outcomes in the state file |
| `FileLock` | the lock file protocol, one step per file operation | `file` = the lock, `store` = the state file as the set of operations in it, `pc` |
| `AgentTasks` | the task board, one step per operation | `board` = stored tasks, `seen` = what each identity was last told |
| `Scheduling` | readiness, ranking and report of `scheduling.ts` | `tasks` and `clock`; the verdict as operators |
| `DependencyGraph` | the search for cycles, step by step | `indexes`, `lowLinks`, `stack`, `visits` |
| `ExecutionJobs` | jobs, workers and commands, one step per file access | `dir`, `worker`, `command`, `signal`, `call` |
| `CommandRun` | one command with deadline and abort | `process`, `child`, two timers, `sent` signals |
| `CollaborationSessions` | the judgement of a stored owner, and each operation of the session store as an operator on its file | - |
| `CollaborationContexts` | contexts and processes over the session store | `file`, `contexts`, `runtime`, `host` |
| `SessionLifecycle` | what a session may become, abstractly | refined by `CollaborationContexts` |
| `SessionUpgrade` | opening session files of versions 1 to 3 | `stored`, `opened`, `handles` |
| `AgentWork` | participants, and the tool calls over three stores | `status` = sessions, `participants`, `tasks`, `calls` = where each call is, `raced` = releases decided on a reading that no longer stood |
| `AgentManager` | agents with queues, runtimes and reports | `agents`, each with `ops`, `ctl` and `runtime` |
| `MessageLog` | a bounded log with cursors | operators used by the next two |
| `AgentChat`, `AgentCoordination` | chat; channel, assignments and audit | the file, the caches, the readers' cursors |
| `AgentMemory` | governed entries | `entries` with their histories, validity and links, `tombstones`; one action per governed mutation, and the file that is unreadable and put aside |
| `OAuthTokens`, `OAuthConsent` | tokens and clients; pairing, forms and approvals | the two files and the requests in flight; the tables in memory |
| `McpSessions` | the table of MCP sessions | `sessions`, `pending` reservations, `version` = credentials |
| `ActivityLog`, `ToolAudit` | event store; rotating audit | the files, what was told, failed writes |
| `Launcher` | the editor's supervisor and the operations over it | `supervisor`, `children`, `operation`, `config` |
| `CliProcesses` | the processes of one `pilink start` | `cli`, `edge`, `server`, `chat`, events not yet handled |
| `VerifiedInstall`, `CliLinks`, `BrowserSetup` | downloads; commands on the PATH; the staged extension | files, and where each installer, build or setup is |
| `Hosting`, `FixedDomain` | `pilink hosting`; the provisioning through Cloudflare's API | what exists outside, the plan, the step |
| `ComputerHelper` | the protocol with the desktop helper | `child`, `pending`, lines under way |
| `MC...` | constants, bounds, and the sum of the parts in a run; the values that only TLC needs for `GatewayStore` and `AgentTasks` stand at the end of those modules | - |
| `...Proofs` | inductive invariants and theorems | - |

Notes on the faithful reading of the larger ones:

**GatewayStore.** `mutate` serialises mutations, so each is one step; two steps
of one method can have any other between them. A mutation works on a copy:
`Save` writes it, and a failed write either leaves the old state everywhere or,
after the rename, the new state on disk, from where it is reloaded.
`lastExchangeAt` alone is not persisted by idle polls (`MemoryIsDurable`). An
exchange is split as in the code: generation check, mutation, check again, wait.
Its mutation is a choice of disjoint actions (`ExchangeReplayed`, `...Refused`,
`...Recovery`, `...Accepted`, `...Poll`, `...Idle`), one per return of the code.
A completion is an answer out of a small set, of which some are invalid; `Bytes`
is the room a replay takes; deadlines of callers are a free choice (`GiveUp`);
the branches for a second claim of one session are folded into `Held`, because
`OneDelivery` makes them unreachable. Errors of a cancel or a disconnect are
swallowed as in the code, so the properties that depend on them ask for no
failed write.

**FileLock.** A process is one thread, since a queue lets one operation per
process reach the lock. Creation and initialisation of the lock are two steps,
so are the look at a stale lock and its removal; a process may die in between.
The rename may be done and the operation fail all the same. Because of it, the
modules of the stores make one step of each locked operation.

**AgentTasks.** Each operation first writes back the expired claims (`Fresh`),
and may do no more than that (`Refresh`: it threw, or the process died). Clients
act with the revision they last read. A caller with a collaboration session
passes the scheduler, one without does not. Here the scheduler is dependencies
and write scopes; roles, capabilities, times and ranks are in `Scheduling`.
Start gates, conflict overrides and pauses cannot be set through the tools and
are left out.

**ExecutionJobs.** `snapshotFromMetadata` reads two files at once and then asks
for the process: `ReadFile`, in any order, and `Look`. `cancel` is
`BeginCancel`, `Look`, `Mark`, `Kill` and the look after it, with `ForceKill` a
second later; `start` is `Prune`, `Remove`, `Spawn`, `Describe` and a look.
SIGTERM ends the worker, which handles no signal, and may or may not end the
command; SIGKILL ends both. `Crash` takes PiLink's calls and timers, not the
workers.

**CollaborationContexts.** An operation of the store is an operator of
`CollaborationSessions` applied in one step, which may fail before any write,
after the write that settles expired sessions, or after its own write; the
caller sees an error each time. `host` gives out process numbers again and can be
rebooted. A secret is its generation and the resume request it was derived from.

**AgentWork.** A call is a record with the place it has reached; between two of
its awaits every other call can run, one of the same session included: a server
counts the requests of a session and does not keep them apart. Sessions do what
`SessionLifecycle` allows. `raced` is a history variable: it records the releases
whose decision was made while a call of the released session had been let through
and had not claimed yet, or whose target was dropped in between (section 6).

**AgentMemory.** Whoever writes an entry may give it links of any type to entries it
may read and a time from which it holds, and a replacement keeps the links it came
with. What a reader is warned of (`buildRelationWarnings`) follows the links of the
entry itself, as the code does.

**GatewayWake.** A look at the store is a mutation that may throw: `LookFails` counts
it as a failed cycle wherever the supervisor is, and leaves the nonce of an attempt
under way registered until it is used or expires (`Expire`).

**CliProcesses.** A server that a foreign signal ended is `struck`: it has no exit
code, so the launch of the chat does not see that it is gone. A server whose start
throws after the edge was started (`NoServer`) leaves the others behind.

**AgentManager.** `ops` and `ctl` are the two promise chains of an agent. Each
waits for the runtime in the middle, and `report` and `firstTurnEnds` may come at
any time.

## 3. Runs that gather parts

Most components share nothing but the lock files and calls whose outcome either
side may choose freely. Their modules are checked together without being
multiplied: `MCCollaboration` and `MCServices` instantiate the parts, a
behaviour begins by choosing one (`part`), the variables of the others stay
`Off`, and a property names what it says of each part. The state space is the
sum of the parts, and no step of one part can hide behind another. `Explored`
(a state constraint) names the bounds that lie in states rather than constants.

Where components do interact, they are composed: sessions with contexts and
process owners (`CollaborationContexts`), sessions with participants and board
(`AgentWork`), board with scheduler (`AgentTasks`), callers and transports with
the store (`GatewayStore`), launches with the state file and the domain
(`LocalGateway`), the worker with its tool calls and the client
(`GatewayConversation`).

| Property of a run | Gathers |
|---|---|
| `HandlesKept` | FileReadable, HandleKept of CollaborationContexts |
| `ActorsContained` | ActorWithinLimit, DisposedReleased |
| `SessionsEndForCause` | OnlyOrphansLost, UsableKept |
| `KeepsLifecycle` | the refinement of SessionLifecycle |
| `ReleasedOwnsNothing` | AgentWork |
| `AgentsContained` | NoStrayRuntime, WithinLimit, DisposeStops of AgentManager |
| `DecisionsFinal` | ReleaseFinal of AgentWork, StopOwns and EndKept of AgentManager |
| `ReadersMissNothing` | NothingMissed and CursorsUsable of AgentChat, ReadersMissNothing of AgentCoordination |
| `AuditTrail` | StateReadable, AuditTrail of AgentCoordination |
| `ScheduleSound` | WritersApart, StuckIsExplained, WakeTimeRight of Scheduling; CyclesFound of DependencyGraph |
| `MemoryGoverned` | ActiveIsGoverned, DisputesShown, SupersessionLinked of AgentMemory |
| `CredentialsEnd` | OnlyCurrentCredentials, CodeYieldsOnce, ReplayEndsFamily of OAuthTokens; CodesWereApproved of OAuthConsent; StaysReadable, OldHandlesEnd of SessionUpgrade |
| `TablesBounded` | WithinLimits, BusyNeverReclaimed of McpSessions; RetentionBounded of ExecutionJobs |
| `RecordsComplete` | StoredOnce, PagesComplete of ActivityLog; NewestReadable of ToolAudit |
| `WakeBounded` | OncePerReason, SuspendedForCause, ConfirmedByContact, OneTabAfterClose of GatewayWake; SleepersAreCurrent of GatewayWaits |
| `ServersAccounted` | ServesConfiguration, KnowsItsChild, DisposedLeavesNothing, StatusTrue of Launcher; EndsTogether, MappingsReleased, LeftBehind of CliProcesses; ForeignKept, NeverBlocksItself, LoadedAsInstalled of Hosting; OwnersStay, Resumable, SavedIsServed of FixedDomain; LaunchedOnce, OutcomesOnDisk, DomainFollows of LocalGateway; ClosedIsDown, NobodyWaits of GatewayListener |
| `AnswersBelong` | Answerable, Continues, CallsTold of GatewayConversation; OwnAnswer, OneAtATime, HelpersAccounted of ComputerHelper; ResultTrue, ForcedIsGone of CommandRun |
| `InstalledIsRight` | RunsWhatWasVerified, ReadyIsThere of VerifiedInstall; WakesCurrent, OutdatedIsMarked of BrowserSetup; OthersCommandsKept, LinkedStarts of CliLinks |
| `PastStands` | HistoryKept, DeletedStays of AgentMemory; RefusedForGood of OAuthTokens; RunningKept of ExecutionJobs |

Each module's type invariant is part of the property that gathers it.

## 4. Runs

| Run (module) | Properties | Bounds | States, time |
|---|---|---|---|
| `gateway_workers` (GatewayStore) | TypeOK, OneDelivery, RetrySafe, LeaseHonoured | 2 workers, 1 call at a time, 2 requests, lease 2, clock 2, 1 replay kept, free pairing of tokens, malformed answers | 386k, 2 min |
| `gateway_transport` (GatewayStore) | NothingStranded, RequestsEnd | 1 worker with 2 overlapping calls, 1 request, 1 closing, fairness | 287k, under 1 min |
| `gateway_recovery` (GatewayStore) | OutcomeDurable, AnswerOfLastDelivery, KeepsPromise | 1 worker, 2 requests, queue and retention limit 1, 1 restart, 1 failed write, malformed answers, lease 1, clock 1 | 751k, 2 min |
| `gateway_retention` (GatewayStore) | NoLostResult (violated) | 2 requests, retention limit 1 | seconds |
| `lock_exclusion` (FileLock) | Exclusive, NoLostUpdate, AbandonedLockGoes | 3 processes of which one may die, 3 locks, fairness | 750k, 3 min |
| `lock_replacement` (FileLock) | ReplacementKept (violated) | 3 processes, 3 locks | seconds |
| `tasks` (AgentTasks) | BoardReadable, RevisionIdentifiesState, ScopesDisjoint, DependenciesDone, ClaimRespected, KeepsStatus | 3 identities of 2 agents, 3 tasks on a board for 2, 1 file, revisions up to 3, clock 3, within `Explored` | 182k, 2 min |
| `tasks_dependencies` (AgentTasks) | DependenciesExist (violated) | 3 tasks, board limit 2 | seconds |
| `jobs_reports` (ExecutionJobs) | ReportsTrue, CancelledStays, CancelReachesWorker | 2 callers, 1 job, 1 crash, fairness | 468k, under 1 min |
| `jobs_force` (ExecutionJobs) | CancelledEnds (violated) | 2 callers, 1 job, fairness | seconds |
| `collaboration` (MCCollaboration) | the first nine of section 3 | see below | 1.33M, 2 min |
| `services` (MCServices) | the other ten of section 3 | see below | 2.20M, 2 to 3 min |

Why these bounds meet the cases. Two workers are a takeover, two calls of one
worker a fenced call, two requests a next delivery or a pruned record, and
limits of 1 put every queue and every retention at its limit. A lease of 2 units
under a clock of 2 lets a claim live, be renewed and expire. The race between
removers takes three processes, one of them dead, and three locks. Two sessions of one agent and
one outsider are all the kinds of identities on the board; `tasks` looks at one
task at length, two that depend on one another or share a file, and three on a
board for two, so that the third makes room. One job and two callers are every
race of a cancel; three starts exceed a limit of one by overlap.

In `collaboration`, the contexts are two bindings of two actors, an actor limit of 1, two stored
sessions of three created, two processes with two numbers that are used again, a reboot and one
failed write; `ContextsExplored` lets processes come and go while nothing else happens, lets
time pass and writes fail for one process, and fills the store with two actors, but not all at
once. The work loop has a manager, an agent and two calls, of either or of both, with a
participant limit of 1, so that room is made while a release is decided. Two agents under a
limit of one exercise retention and the limit; logs of two entries and three posts are trimmed
under two readers.

In `services`, each part has two of what competes (requests, clients, supervisors' attempts,
installers, builds, setups), a limit of one or two that is reached, and a clock that passes each
of its timeouts. The memory has two readers, entries for both or for one, entries that begin to
hold later or end, links that a writer supplies, and times up to 3; the wake has two supervisors
and one failed look. `Explored` says what is left out: a job's command that fails (in
`jobs_reports` it may), the second MCP client's credentials, a third task that writes files, an
unreadable memory file of two entries, and, in the parts that share a directory without a lock,
the interleavings after which the code promises nothing (section 6).

Symmetry (of workers and of calls) is used only in runs without liveness.
Deadlock is not checked anywhere: in the bounded models callers, processes or
tasks run out, which is no deadlock of the code. Where everyone waiting on
everyone is a real question it is asked as an invariant or as liveness
(`NobodyWaits`, `SleepersAreCurrent`, `StuckIsExplained`, `RequestsEnd`).

*Fairness.* `GatewayStore`: callers go on with what they began, since timers of
the event loop fire; workers and transports have none, so `RequestsEnd` rests on
callers alone. `FileLock`: a living process continues. `ExecutionJobs`: calls and
timers run, a worker does what it can do, and a process that is killed dies;
nothing makes a command end by itself or heed SIGTERM. All other modules are
checked for safety only; what must happen eventually is there stated about the
states in which nothing is left to do.

*Abstract specifications.* `RequestReply` says that a request is open until it
gets one verdict, only from the worker that holds it, and that a verdict is
forgotten but never revised; `KeepsPromise` maps the records, claims and told
outcomes of `GatewayStore` to it, through restarts and failed writes.
`SessionLifecycle` says what may follow each status of a session; `KeepsLifecycle`
maps the session file to it, through several processes.

## 5. Proofs

| Theorem | Says |
|---|---|
| `GatewayStoreProofs!TypeCorrect`, `OneDeliveryHolds` | TypeOK and OneDelivery, for all constants |
| `GatewayStoreProofs!NothingStrandedHolds`, `OutcomeDurableHolds`, `AnswerOfLastDeliveryHolds`, `RetrySafeHolds` | four more invariants of the gateway |
| `GatewayStoreProofs!LeaseHonouredHolds`, `KeepsPromiseHolds` | what a step never does to a claim; that the gateway implements `RequestReply` |
| `FileLockProofs!ExclusiveHolds`, `NoLostUpdateHolds` | Exclusive and NoLostUpdate |
| `AgentTasksProofs!TaskTypeCorrect`, `BoardReadableHolds`, `RevisionIdentifiesStateHolds`, `ScopesDisjointHolds`, `DependenciesDoneHolds` | type correctness and four invariants of the board |
| `AgentTasksProofs!ClaimRespectedHolds`, `KeepsStatusHolds` | what a step never does to a claim, to a task that ended, to one that is blocked |
| `ExecutionJobsProofs!JobTypeCorrect`, `ReportsTrueHolds` | type correctness; what callers hear of a job is what its worker wrote |
| `ExecutionJobsProofs!CancelledStaysHolds`, `RunningKeptHolds` | a cancelled job is never told of as anything else; pruning keeps what runs (RunningKept is in no run) |
| `CollaborationProofs!AgentsContainedHolds`, `DecisionsFinalHolds`, `ReleasedOwnsNothingHolds` | the supervisor's limits and stray runtimes; releases and stops are final; a released participant owns nothing, apart from the two races that `raced` records |
| `CollaborationProofs!HandlesKeptHolds`, `ActorsContainedHolds`, `SessionsEndForCauseHolds`, `KeepsLifecycleHolds` | the collaboration sessions: handles, limits, causes of an end, and that the store implements `SessionLifecycle` |
| `CollaborationProofs!ReadersMissNothingHolds`, `AuditTrailHolds` | readers by cursor; the coordination file and its audit |
| `ExecutionJobsProofs!RetentionBoundedHolds` | overlapping starts keep fewer jobs above the limit than there are callers |
| `McpSessionsProofs!McpHolds` | the table of MCP sessions: types, both limits, and that nothing in use is recycled |
| `ServicesProofs!WakeBoundedHolds` | the wake of the gateway worker, and the calls that wait for its changes |
| `ServicesProofs!TablesBoundedHolds` | the previous two, as the property of the run `services` |
| `AnswersProofs!AnswersBelongHolds` | conversations can be answered and continued; desktop operations and commands get their own outcome |
| `AnswersProofs!InstalledIsRightHolds` | downloads run as verified; the browser is not woken with old files; commands on the PATH stand as reported |

So every safety property of the passing runs is a theorem, except six of the ten
of `services`. The assumptions are those of the modules (sentinels are no members of
the sets they stand outside of, bounds are natural numbers) and one hypothesis that
is stated in its theorem: `OneProcess`, below. `ExecutionJobs`
and `McpSessions` name their assumption as a definition (`JobAssumption`,
`McpSessionsAssumption`), which their theorems have as a hypothesis, so that
`ServicesProofs` can use those theorems of an instance; `PartsAssumption` in
`MCServices`, which TLC evaluates, contains both. The pattern is the same
everywhere: lemmas about the operators, a few *shapes* of step that the actions
are instances of, and the invariant and the action properties once per shape.

*GatewayStore.* `GatewayInv` says of the memory that it is well typed, coherent
and knows no request that was not created, and of the disk only that it is well
typed: claims on disk may be behind, because `activate` takes them all back. For
each operator on states a lemma says what it keeps (`ReclaimGood`, `BindGood`,
`ClaimGood`, ...); each action is then a composition of these. The crux is that
a claim is made only when nothing is claimed (`NothingHeld`), which needs the
delivery and the active session to agree. `PromiseInv` carries the rest: what is
in memory is on disk up to the worker's last call (`MemoryIsDurable`), an outcome
is there exactly when the status says so (`Shaped`), a claim means that a worker
was heard (`Alive`), deliveries are numbered as they were made (`Numbered`), a
worker's call quotes a delivery that was made (`Quotes`), and no request that a
caller waits for is forgotten (`Remembers`). A step then moves at most one request, and in one
of four ways (`Ages`, `Gives`, `Takes`, `Arrives`), all of which are steps of
`RequestReply` and honour a lease; the others it leaves or declines.

*FileLock.* Exclusive is not inductive: it does not say whose the lock file is.
`LockInv` adds that whoever is inside owns the file (`Owned`), that tokens are
given out in order (`Numbered`), that a remover past its check has found a dead
owner (`JudgedDead`, which is stable since the dead stay dead), and that what an
operation read is what is stored (`Fresh`). `Owned` and `Fresh` hold while no
replacement was removed: the theorem says precisely that this race is the only
way to lose an update. `MaxDeaths` bounds the deaths in the run; the theorems
hold for each value.

*AgentTasks.* `TaskInv` adds to the properties that a copy is never newer than
its task, and that a task depends on earlier ones only. `FreshSafe` shows that
an expiry keeps it; `Legal` describes what an operation may change in a task on
top, one lemma per operation shows that it does no more, and `WriteSafe` that
such a change keeps a board good. The action properties follow from `Legal`.

*ExecutionJobs.* `JobsInv` adds to `ReportsTrue` that the files say what happened
(`FilesTrue`: a result is that of the command, a marker that of a cancel), that
nothing exists of a job that was not started (`Untouched`), that what a caller
has read was true (`ReadTrue`), and that a job it is about to remove has ended
(`DoomedEnded`). The last two survive the steps of all others because what is
known only grows (`Grows`): results, markers, ends and removals are never taken
back. `RetentionInv` is about `pruneTerminalJobs`, which looks before it removes and
long before its start describes a job: whichever of the starts that found room one
considers, what they will leave with one job for each of them is within the bound.
It has to be said of every subset of them, since a start that describes its job
while the others still have theirs to remove needs it of itself alone, and one that
looks needs it of all.

*Supervisor of the agents.* `ManagerInv` places each agent (`Placed`): what stands
in its queues, how far each operation is, its handle and its runtime determine
one another; and it counts the failed stops (`Accounted`), which are the only
reason for an agent above the limit. `Passes` says what one step may do to one agent.

*Work loop.* `WorkInv` has, beside the types, two parts. `Decided` is about a manager
that has looked at a participant and not released it yet: while its reading has not
raced, the participant is still stored, and if it still has that revision and waits or
is offline, no call of its session stands before a claim, and, once the tasks were
read, it owns none. `Cleared` is about who was released on such a reading: it owns
nothing and none of its calls stands before a claim. Both are kept because whatever
lets a call through to a claim changes the revision, which is what a release compares;
`Moves` says so of every operation on the participants. Calls of one session overlap
freely, and nothing is assumed about room in the store of participants.

*Collaboration sessions.* `ContextsInv` has four parts. `HostInv`: a running
process signed what is true of it, and no two have one number, so that whoever is
judged to be gone is not there (`OrphansAreGone`). `SessionsInv`: every stored
session is one that the store reads, and no actor's usable sessions exceed its
limit. `ContextsTyped`: no two contexts hold one session. `HandlesInv`: the holder
of a live session has its current handle, or a write has failed and the new handle
can be asked for again until the recovery window is over (`Holding`). What an operation
may do to the sessions is `FileMoves`: each session stays, ends for a cause,
rotates for its holder, or is new, and what is dropped was unusable; the action
properties and the refinement of `SessionLifecycle` follow from it.
`NothingAssumption` says that the values for "none" are not data.

*Logs, chat, coordination.* `LogSound` says that a log's entries are exactly those
from its oldest cursor to its latest; `AfterFacts` that what a reader is given is
all that is after its cursor, and `AppendedFacts` what one more entry does to a
log. `ChatInv` says that each copy of the chat, in the file or in memory, has what
was accepted and is not behind any reader. That needs `OneProcess`: nothing keeps
two processes on one chat file apart, and `NothingMissed` is false with two. `CoordinationInv`
keeps for each task its trail in the audit (`Trail`): one lemma each says what
forgetting old events (`TrailKept`), an event that fits (`TrailAdded`) and a first
one (`TrailBegun`) do to it; every operation is a write with its event
(`Writes`). A clock that is set back would make a file that cannot be read
(`updatedAt` before `createdAt`); the instance excludes it (section 6).

*MCP sessions.* The code decides by counters, so `McpInv` ties each to what it
counts. `McpFine` says of a session that its `inFlight` and `openStreams` are the
numbers of the requests that use it, and that one that is starting has exactly one
request that will settle it; `McpLimits` that the reservations are the numbers of
sessions that are starting, and that with them the limits hold. A reclaim or a sweep
then takes only what nobody uses, and a setup that fails gives back its own
reservation and no other.

*Gateway wake.* `WakeInv` records of every attempt to wake the worker what it was
decided on: that this was so (`Observed`), and that, unless the attempt is under way
or is the failure its supervisor remembers, it is so no longer and will not be again
(`Past`: the worker was heard, the gateway was released, the request has left the
queue, another was created). A failed look at the store is a cause like a failed
attempt (`Caused`): a supervisor that has stopped trying remembers one of the two, of
the reason for which it has stopped. `Watching` adds what each supervisor holds while it waits
for its driver, for the outcome or for the grace of a close. `OncePerReason` follows: a second
attempt for the same request of the same time would have to be made on something past.

*Waiting calls.* `WaitsInv` is that whoever has looked since the last announcement
saw what it announced (`UpToDate`), so that nobody falls asleep on an old look.

*Conversations.* `TalkInv` says that every message so far may be sent back, or is too
long to; that a request which is queued passed `validateToolChoice`, and an answer that
was given passed the other validator; and that an identifier which the gateway gave out
names the request it was given in, an earlier one while a request is queued, and no
other call. `AnswerableIs` then exhibits, for whatever is queued, an answer without
calls or with one, and the identifiers that a worker or the gateway chooses are distinct
whatever is called (`CallsAre`, `DistinctIs`), so that `Continues` holds.

*Desktop helper.* Operations join the queue and are sent in the order of their numbers
(`InTurn`), so the one that is sent is the last that was, and has its own number: an
answer to another is told from its own however late it is read. `HelpersAccounted`, that
each helper which runs is in use or was told to end, is inductive with it.

*Command runs.* `RunInv` adds to the types and the verdict that a signal was sent exactly
if a timer ran out or the call was aborted, and that nothing runs before the start.

*Downloads.* `InstallInv` says of every installer that what it is about to put in place is the
payload it verified, and that at its launch the program is its own, or one that worked beside it
put its own there or removed what was (`InstallChecked`); `InstallBeside` is what makes that
inductive: of two installers at work each is among those the other has met. The record beside
the program always names the source whose program it recorded.

*Browser setup.* `BrowserInv` says what a setup has written and found at each of its
steps (`SetupCome`) while nothing unusual happened, which then includes that it is the
only one, and that old files in the browser are marked and the wake is off unless a setup is between
its first changed file and the pause (`BrowserCalm`). Files that were never staged
completely were never loaded (`LoadedWhole`); without it the first staging would seem to
leave a browser behind.

*Commands on the PATH.* `LinksInv` says that a build has told of the commands before the
one it is at (`LinkInPlace`); that what it saw, emptied or wrote in its directory is still so,
and what it told of stands, unless the command is one that others changed since
(`LinkAsLeft`).

*The sum of the parts.* In `ServicesProofs` and `AnswersProofs` each part's invariant is
implied by the part being chosen, and a step of another part leaves its variables alone
(`WakePart`, `WaitsPart`, `McpPart`, `JobPart`; `TalkPart`, `HelperPart`, `RunPart`,
`InstallPart`, `BrowserPart`, `LinksPart`).

Each of these inductive invariants was first checked by TLC: that of the wake on two
requests, two supervisors, two attempts and one failed look (639 000 states), that of the
work loop on the instance of `collaboration`, that of the MCP sessions on two
instances of 405 000 and 304 000 states, that of retention on three overlapping
starts with room for one and a crash (15 million states), those of
`AnswersProofs` on the instance of `services` (59 000 states of the conversations,
the helper and the runs, 294 000 of the others).

Only model-checked:

- the liveness properties (`RequestsEnd`, `AbandonedLockGoes`, `CancelReachesWorker`):
  the prover has no rule for fairness and ENABLED;
- `ScheduleSound` and `RecordsComplete`: what recursive definitions and folds compute
  (the search for cycles, the pages of the event store) needs induction over data;
- `MemoryGoverned`, `CredentialsEnd`, `ServersAccounted`, and of
  `PastStands` all but the jobs (`RunningKeptHolds`): each gathers up to nine modules,
  and the invariants of those modules are not stated yet.

## 6. What the code does not promise, or does not keep

Four runs show disagreements between the code and its own documentation
(`findings` in PROJECT.json): an accepted answer pruned before its caller reads
it; a replacement lock removed by a slow remover; dependencies that no longer
exist; and a forced kill that never comes.

The rest was met while modelling. Properties name these cases as exceptions, or
the model's inputs leave them out; where a variable records that one happened,
it is given.

*Stores and locks*

- A lock whose creator died before it wrote its token is never removed
  (`tasks.ts:538-583`); `AbandonedLockGoes` speaks of initialised locks. Process
  numbers are not reused in `FileLock`: a reused one delays the removal.
- A change of the gateway whose directory sync failed is on disk but not
  announced; a waiter finds it by its one second timer (`GatewayWaits`).
- A second gateway on one project shares `state.json` without a lock, and one
  overwrites what the other's callers were told. "Launch at most one configured
  gateway" (`pilink-cli-agent.ts:21`) holds unless a launch is given up, a lock
  is replaced, or a server is started by hand (`unusual`). The edit of the
  external agent's `models.json` has no lock either and is not modelled.

*Jobs and commands*

- `execution-jobs.ts:246-257` reads the result and then asks for the process. A
  worker that writes its result and exits in between is reported as "orphaned",
  and `wait` returns that. `ReportsTrue` speaks of "completed" and "failed" only.
- A crash of PiLink between the marker and the signal (`execution-jobs.ts:213-214`)
  leaves a command running that every later call reports as cancelled.
  `CancelReachesWorker` excludes this crash. A job that was started when PiLink
  died before it wrote the metadata (131) cannot be found. Process numbers are
  not reused: a reused one makes a dead job look running.
- Paging a job's output cuts at byte offsets and decodes each page by itself
  (`execution-jobs.ts:156-189`), which breaks a character that spans two pages;
  `eof` is true at the end of what is written so far. Paging is not modelled.
- Once its process has exited, the children of a command that ignore SIGTERM and
  hold the output are not forced, and the call waits for them (`CommandRun`).

*Agents*

- `agent_work_release` is said to release a session "that owns no working or input-required
  task" (`mcp-core.ts:1673`). The manager reads the participants (`agent_work_list`, `1658`),
  the tool then the tasks (`1688`), and then it releases (`1695`); two cases leave a released
  participant with a task. A call of the same session that is between its own check and its
  claim (`1287-1302`) when the manager looks claims afterwards. And the revision of a
  participant that registers anew starts at 1, while a release compares only the revision
  (`work-loop.ts:266-300`), so that one decided before the participant was dropped at the limit
  (`531-540`) can hit it after it has registered and claimed. `ReleasedOwnsNothing` excepts
  exactly the releases of these two kinds (`raced`), and TLC finds it violated when either is
  not excepted.
- At its limit the participant store may drop a released participant whose
  session is live (`work-loop.ts:531-540`), which can then register anew;
  `ReleaseFinal` holds until that.
- A process that may not be signalled is neither alive nor gone
  (`runtime-owner.ts:136-144`); its sessions are kept.
- Who supplies a link {contradicts} or {superseded_by} with an entry marks that entry
  only: warnings follow the links of the entry that is shown (`memory.ts:2103-2125`), so
  the entry it names is shown without one. `DisputesShown` and `SupersessionLinked`
  speak of what `dispute` and `supersede` linked, and of the side that carries a link.
- The chat keeps its state in memory (`chat.ts:170-181`) and takes no lock between
  processes: a second one on the project overwrites the posts of the first.
- A host clock that is set back makes `updatedAt` precede `createdAt`, and the
  coordination file is refused from then on (`agents/coordination.ts:687`).
- An agent that has no runtime can be left in an active status
  (`agents/manager.ts:391`) until it is stopped.

*Clients*

- While an approval is pending in the terminal, a second authorization request
  is refused and its client disabled (`OAuthConsent`).
- An answer of more than 256 KiB is accepted from the worker but refused as a
  message of the next request, and so is an assistant message whose content was
  left out; `Continues` excludes the former. The bounds on the total of bytes and on
  the number of messages (`llm-gateway-protocol.ts:77-86`), which a long conversation
  meets as well, are left out.
- A prompt that cannot be read ends the approval with an error and decides nothing
  (`promptFails`).
- A code or refresh token that is used again ends its family where the server
  detects it; `ReplayEndsFamily` speaks of what was detected (`replayed`).

*Desktop and browser*

- Malformed or oversized output clears the helper before it is stopped
  (`computer-wayland.ts:206-220`, `228-242`), so it is never killed (`forgotten`);
  the late answer of a timed-out request fails the next operation and leaves its
  healthy helper so.
- A look of the wake's supervisor at the store is a mutation that can throw, and counts as a
  failed cycle like a wake that brought no worker (`llm-gateway-auto-wake.ts:244-248`): with a
  state file that cannot be written for a while, it stops trying without having opened a tab.
  The nonce of an attempt that was under way stays registered until it expires.
- A supervisor that is closed in the middle of a round still opens that round's
  tab; `OneTabAfterClose` allows that one.
- A setup that dies between a file and the pausing of the wake, an operator who
  vouches for files that were not loaded, and overlapping setups can leave the
  browser awake with old files (`unusual` in `BrowserSetup`).

*Launchers and hosting*

- After its SIGKILL the editor's supervisor gives up silently, and a later stop
  waits without limit (`packages/vscode/src/process-supervisor.ts:431-458`). Two
  windows on one configuration are not modelled.
- The address of a quick tunnel that is read after the tunnel's end starts a
  server all the same (`cli-core.ts:1127`, `1155`; `late`).
- A server that something else ended by a signal has no exit code, and a chat that is
  launched then runs on beside nothing (`cli-core.ts:930`, `952`): `EndsTogether`
  excepts a server that was `struck`. A start of the server that throws once the edge was
  spawned (`1390`, `2144-2147`) leaves the edge and the port mappings behind. The timers with
  which the mapping library renews its mappings are outside.
- A crash between the rename of a unit and the reload leaves a unit that later
  runs take for installed and never reload (`hosting/systemd.ts:178-184`;
  `unloaded`). The window between a GET and its PUT at Cloudflare, and between a
  check and its rename, is not modelled.
- A kill between the saved port and the repointed domain leaves the domain on the
  old port (`llm-gateway-launch.ts:27`).
- Installers with different sources replace each other's program
  (`others` in `VerifiedInstall`). Builds have no lock: a command that the user
  puts in place between check and write is overwritten, a torn launcher is
  reported as a conflict from then on, and two checkouts replace each other's. Builds
  from shells with different PATHs may link in two directories.
- The gateway's listener relies on Node cancelling a pending bind
  (`test/llm-gateway-startup.test.mjs:115`).

## 7. Not modelled

Formats and limits of texts, tool schemas, HTTP routing and configuration; the files of the
workspace; the credential store of the agent SDK, which keeps that state; terminals, dashboards
and panels, which display; the ranking of memory search; the output log of a supervised agent;
rendering and inspection in `hosting/`; `computer.ts` on other desktops; what a provider, a
browser page or a command computes, which is external and chosen freely. These keep no state
that the modelled parts rely on. Components that are "partly" modelled in PROJECT.json name what
they lack.

What is not proved because the prover cannot: liveness, fairness, what recursive
definitions compute for every input.

## 8. Plan

1. *(done)* Gateway store, lock files, task board, execution jobs, with the first
   theorems.
2. *(done)* Sessions, contexts, work loop, agents, logs, memory, OAuth, MCP
   sessions, scheduling, gateway waits and wake-up, launchers, hosting, desktop.
3. *(done)* Proofs about gateway, lock, board and jobs, and of all safety properties
   of `collaboration`.
4. *(done)* Proofs about ten parts of `services`: the wake-up and the waiting calls
   (`WakeBounded`), MCP sessions and the retention of jobs (`TablesBounded`),
   conversations, desktop helper and command runs (`AnswersBelong`), downloads, browser
   setup and commands on the PATH (`InstalledIsRight`).
5. *(next)* The other parts of `services`: OAuth first, then
   memory and the launchers. They need definitions by sets and positions in place of
   `SelectSeq`, and the instances' numbers as constants, as the proved parts have them.
