----------------------------- MODULE MCServices -----------------------------
(***************************************************************************)
(* The services beside the agents, checked part by part in one run: a      *)
(* behaviour begins by choosing a part and is then a behaviour of that     *)
(* part's module alone; the variables of the other parts stay Off.         *)
(***************************************************************************)
EXTENDS Scheduling, TLC

CONSTANTS
  Off,                             \* the value of the variables that are not used
  s1, s2,                          \* sessions that ask for work
  x, y, k,                         \* readers and a key of the memory
  c1, c2, q1, q2,                  \* OAuth clients, HTTP requests
  x1, x2, b1, n1, n2,              \* challenges, a browser, connections
  k1, k2, NoKey, d1, d2, r1,       \* keys, kinds and a reader of the activity
  t1, t2, t3,                      \* tasks of the cycle analysis
  j1, j2,                          \* callers of the jobs
  g1, g2, g3,                      \* clients of the local gateway
  p1, p2,                          \* processes that install
  NoRequest,                       \* no resume request
  MaxRequests, MaxExchanges, MaxSupervisors, MaxAttempts, MaxLapses,  \* of GatewayWake
  Waiters, MaxMutations,                                   \* of GatewayWaits
  McpClients, McpRequests, MaxSessions, PerClient, Total,  \* of McpSessions
  IdleTimeout, ReclaimGrace, MaxVersion, MaxMcpTime,
  JobCallers, JobRequests, Retained, MaxJobs, MaxCrashes,  \* of ExecutionJobs
  Functions, Unlisted, WorkerIds, MaxCalls, MaxMessages, MaxTurns,  \* of GatewayConversation
  MaxActions, MaxHelpers, MaxOddLines,                     \* of ComputerHelper
  Setups, MaxBuilds,                                       \* of BrowserSetup
  Installers, Sources, Known, Working, Bad,                \* of VerifiedInstall
  Builds, Checkouts, Commands, Search, Preferred, MaxLinkChanges  \* of CliLinks

VARIABLES
  part,
  entries, tombstones, created, damage, memoryClock,
  clients, refresh, revoked, codes, requests, access, replayed, oauth,
  registered, arriving, pairings, ownerSessions, window, forms, prompt, disabling,
  granted, decisions, consent,
  transports, handled, pending, version, time,
  events, told, pages, failures,
  active, rotated, step, written, recorded, auditFaults,
  dependencies, indexes, lowLinks, stack, visits, cycles,
  dir, worker, command, signal, timer, call, reported, started, crashes,
  gateway, approval, admission, current, supervisors, tabs, nonces, attempts, lapses,
  config, port, children, supervisor, operation, host, operations,
  hosting, cli, edge, server, chat, signalled, url, ends, setup, mappings, handlers, late,
  files, tunnel, dns, units, loaded, services, hostingCommand, standing, hostingHistory,
  remote, saved, token, runs, unrelated, domainHistory,
  phase, request, history, answer, turn, given,
  localConfig, localRemote, holder, lock, localClients, servers, disk, localTold, unusual,
  helperOperations, helpers, child, pendingRequest, nextId, oddLines, forgotten,
  passive, built, staged, marker, owner, wake, loadedFiles, preferences, setups, browserUnusual,
  program, record, installers,
  stored, opened, handles, used, boots, upgradeClock,
  posix, targets, writable, links, builds, changes,
  socket, connected, emitted, callback, bindState, ready, closeRequested, closeCallInFlight,
  closeSettled,
  windows, stubborn, runCall, aborted, process, grandchild, deadline, cancellation, sent, result,
  durable, announced, changeRevision, mutation, waits, gaveUp

memoryVars   == <<entries, tombstones, created, damage, memoryClock>>
tokenVars    == <<clients, refresh, revoked, codes, requests, access, replayed, oauth>>
consentVars  == <<registered, arriving, pairings, ownerSessions, window, forms, prompt,
                  disabling, granted, decisions, consent>>
mcpVars      == <<transports, handled, pending, version, time>>
activityVars == <<events, told, pages, failures>>
auditVars    == <<active, rotated, step, written, recorded, auditFaults>>
graphVars    == <<dependencies, indexes, lowLinks, stack, visits, cycles>>
jobVars      == <<dir, worker, command, signal, timer, call, reported, started, crashes>>
wakeVars     == <<gateway, approval, admission, current, supervisors, tabs, nonces, attempts,
                  lapses>>
launcherVars == <<config, port, children, supervisor, operation, host, operations>>
cliVars      == <<hosting, cli, edge, server, chat, signalled, url, ends, setup, mappings,
                  handlers, late>>
hostingVars  == <<files, tunnel, dns, units, loaded, services, hostingCommand, standing,
                  hostingHistory>>
domainVars   == <<remote, saved, token, runs, unrelated, domainHistory>>
talkVars     == <<phase, request, history, answer, turn, given>>
localVars    == <<localConfig, localRemote, holder, lock, localClients, servers, disk,
                  localTold, unusual>>
helperVars   == <<helperOperations, helpers, child, pendingRequest, nextId, oddLines, forgotten>>
browserVars  == <<passive, built, staged, marker, owner, wake, loadedFiles, preferences, setups,
                  browserUnusual>>
installVars  == <<program, record, installers>>
upgradeVars  == <<stored, opened, handles, used, boots, upgradeClock>>
linkVars     == <<posix, targets, writable, links, builds, changes>>
listenerVars == <<socket, connected, emitted, callback, bindState, ready, closeRequested,
                  closeCallInFlight, closeSettled>>
runVars      == <<windows, stubborn, runCall, aborted, process, grandchild, deadline, cancellation,
                  sent, result>>
waitVars     == <<durable, announced, changeRevision, mutation, waits, gaveUp>>

\* The parts up to the jobs are the server's, those up to the domain start, wake and
\* host it, and the others prepare it, carry a conversation or drive a desktop.
serverVars == <<schedulingVars, memoryVars, tokenVars, consentVars, mcpVars, activityVars,
                auditVars, graphVars, jobVars>>
hostVars   == <<wakeVars, launcherVars, cliVars, hostingVars, domainVars>>
endVars    == <<listenerVars, runVars, waitVars>>
aroundVars == <<talkVars, localVars, helperVars, browserVars, installVars, upgradeVars,
                linkVars, endVars>>

vars == <<part, serverVars, hostVars, aroundVars>>

-----------------------------------------------------------------------------
(* Values for Scheduling: a path is the sequence of its names. *)

SomeFiles == {<<"a", "b">>, <<"a", "d">>, <<"c">>}

Contexts ==
  (s1 :> [roles |-> {"developer"}, capabilities |-> {"edit"}, workspaces |-> {"w"}]
   @@ s2 :> [roles |-> {"reviewer"}, capabilities |-> {}, workspaces |-> {}])

Plain == [priority |-> 2, roles |-> {}, capabilities |-> {}, scopes |-> {}, notBefore |-> 0,
          workspace |-> "none", dependencies |-> [t \in {} |-> ""]]

Scoped(kind, value, mode) ==
  [Plain EXCEPT !.scopes = {[kind |-> kind, value |-> value, mode |-> mode]},
                !.workspace = "authorized"]

After(task, condition) == [Plain EXCEPT !.dependencies = task :> condition]

SomeMetadata ==
  {[Plain EXCEPT !.priority = 0], [Plain EXCEPT !.roles = {"reviewer"}],
   [Plain EXCEPT !.notBefore = 2],
   After(1, "completed"), After(2, "terminal"), After(9, "terminal"),
   Scoped("directory", <<"a">>, "exclusive_write"), Scoped("file", <<"a", "b">>, "exclusive_write"),
   Scoped("file", <<"a", "b">>, "shared_review")}

SomeContents ==
  {[kind |-> "decision", policy |-> FALSE, readers |-> {x, y}, from |-> None, lasts |-> 0],
   [kind |-> "procedure", policy |-> TRUE, readers |-> {x}, from |-> 1, lasts |-> 1]}

-----------------------------------------------------------------------------
Memory == INSTANCE AgentMemory WITH
  clock <- memoryClock, Contents <- SomeContents, Readers <- {x, y}, Keys <- {k},
  LinkTypes <- {"contradicts", "superseded_by"},
  Authorities <- {"manager", "reviewer"}, MaximumEntries <- 2, MaximumTombstones <- 1,
  MaxTransitions <- 3, MaxRelations <- 2, MaxWait <- 1, MaxCreated <- 2, MaxTime <- 3

Tokens == INSTANCE OAuthTokens WITH
  Clients <- {c1}, Requests <- {q1, q2}, CodeLimit <- 1, RefreshLimit <- 2, ConsumedLimit <- 1,
  CodeLife <- 1, AccessLife <- 1, RefreshLife <- 2, MaxCodes <- 1, MaxRefresh <- 3, MaxAccess <- 2,
  MaxChanges <- 1, MaxFaults <- 1, MaxTime <- 1

Consent == INSTANCE OAuthConsent WITH
  sessions <- ownerSessions, Clients <- {c1}, Challenges <- {x1, x2}, Browsers <- {b1},
  Connections <- {n1, n2}, PairingLimit <- 1, AttemptLimit <- 2, SessionLimit <- 1,
  ConsentLimit <- 1, ClientLimit <- 2, PairingLife <- 1, SessionLife <- 2, ConsentLife <- 1,
  MaxPairings <- 1, MaxForms <- 2, MaxDecisions <- 2, MaxFaults <- 1, MaxTime <- 1

Mcp == INSTANCE McpSessions WITH
  sessions <- transports, Clients <- McpClients, Requests <- McpRequests, MaxTime <- MaxMcpTime

Activity == INSTANCE ActivityLog WITH
  Keys <- {k1, k2}, Kinds <- {d1, d2}, Readers <- {r1}, MaximumEvents <- 3, MaxPage <- 2,
  MaxFailures <- 1

Audit == INSTANCE ToolAudit WITH
  faults <- auditFaults, MaximumBytes <- 5, Sizes <- {1, 2}, MaxEvents <- 6, MaxFaults <- 2

Graph == INSTANCE DependencyGraph WITH Tasks <- {t1, t2, t3}

Jobs == INSTANCE ExecutionJobs WITH
  told <- reported, Callers <- JobCallers, Requests <- JobRequests

Wake == INSTANCE GatewayWake

Launch == INSTANCE Launcher WITH
  MaxChildren <- 2, MaxWrites <- 2, MaxHosts <- 2, MaxOperations <- 2

Cli == INSTANCE CliProcesses WITH events <- ends

Host == INSTANCE Hosting WITH
  command <- hostingCommand, history <- hostingHistory, MaxCommands <- 4, MaxChanges <- 1

Domain == INSTANCE FixedDomain WITH
  history <- domainHistory, Runs <- {1, 2}, MaxBegins <- 4, MaxChanges <- 1

Talk == INSTANCE GatewayConversation WITH
  Ids <- WorkerIds

Local == INSTANCE LocalGateway WITH
  config <- localConfig, remote <- localRemote, clients <- localClients, told <- localTold,
  Clients <- {g1, g2, g3}, MaxServers <- 2, MaxPorts <- 2, MaxOutcomes <- 1

Helper == INSTANCE ComputerHelper WITH
  operations <- helperOperations, pending <- pendingRequest, MaxOperations <- MaxActions

Browser == INSTANCE BrowserSetup WITH
  loaded <- loadedFiles, unusual <- browserUnusual, MaxVersion <- MaxBuilds

Install == INSTANCE VerifiedInstall

Upgrade == INSTANCE SessionUpgrade WITH
  server <- opened, clock <- upgradeClock, Linux <- TRUE, DefaultTtl <- 1, ResumeGrace <- 1,
  ResumeRecovery <- 1, MaxLivePerActor <- 1, Limits <- {1, 2}, OldSessions <- 1, MaxBoots <- 2,
  Keys <- {[id |-> "a", material |-> 1], [id |-> "a", material |-> 2]},
  MaxCreated <- 2, MaxTime <- 2, MaxGeneration <- 3

Links == INSTANCE CliLinks WITH MaxChanges <- MaxLinkChanges

Listener == INSTANCE GatewayListener

Run == INSTANCE CommandRun WITH call <- runCall, child <- grandchild

Sleeping == INSTANCE GatewayWaits WITH aborted <- gaveUp, MaxChanges <- MaxMutations

ASSUME PartsAssumption ==
  /\ Memory!MemoryAssumption /\ Tokens!OAuthAssumption /\ Consent!ConsentAssumption
  /\ Mcp!McpSessionsAssumption /\ Activity!ActivityAssumption /\ Audit!AuditAssumption
  /\ Jobs!JobAssumption /\ Wake!WakeAssumption /\ Launch!LauncherAssumption
  /\ Host!HostingAssumption /\ Domain!FixedDomainAssumption
  /\ Talk!ConversationAssumption /\ Local!LocalGatewayAssumption /\ Helper!HelperAssumption
  /\ Browser!BrowserAssumption /\ Install!InstallAssumption /\ Upgrade!UpgradeAssumption
  /\ Links!CliLinksAssumption /\ Sleeping!WaitsAssumption

-----------------------------------------------------------------------------
SchedulingOff == tasks = Off /\ clock = Off
MemoryOff ==
  /\ entries = Off /\ tombstones = Off /\ created = Off /\ damage = Off
  /\ memoryClock = Off
TokensOff ==
  /\ clients = Off /\ refresh = Off /\ revoked = Off /\ codes = Off
  /\ requests = Off /\ access = Off /\ replayed = Off /\ oauth = Off
ConsentOff ==
  /\ registered = Off /\ arriving = Off /\ pairings = Off /\ ownerSessions = Off
  /\ window = Off /\ forms = Off /\ prompt = Off /\ disabling = Off
  /\ granted = Off /\ decisions = Off /\ consent = Off
McpOff ==
  transports = Off /\ handled = Off /\ pending = Off /\ version = Off /\ time = Off
ActivityOff == events = Off /\ told = Off /\ pages = Off /\ failures = Off
AuditOff ==
  /\ active = Off /\ rotated = Off /\ step = Off
  /\ written = Off /\ recorded = Off /\ auditFaults = Off
GraphOff ==
  /\ dependencies = Off /\ indexes = Off /\ lowLinks = Off
  /\ stack = Off /\ visits = Off /\ cycles = Off
JobsOff ==
  /\ dir = Off /\ worker = Off /\ command = Off /\ signal = Off /\ timer = Off
  /\ call = Off /\ reported = Off /\ started = Off /\ crashes = Off
WakeOff ==
  /\ gateway = Off /\ approval = Off /\ admission = Off /\ current = Off
  /\ supervisors = Off /\ tabs = Off /\ nonces = Off /\ attempts = Off /\ lapses = Off
LaunchOff ==
  /\ config = Off /\ port = Off /\ children = Off /\ supervisor = Off
  /\ operation = Off /\ host = Off /\ operations = Off
CliOff ==
  /\ hosting = Off /\ cli = Off /\ edge = Off /\ server = Off /\ chat = Off
  /\ signalled = Off /\ url = Off /\ ends = Off /\ setup = Off
  /\ mappings = Off /\ handlers = Off /\ late = Off
HostOff ==
  /\ files = Off /\ tunnel = Off /\ dns = Off /\ units = Off /\ loaded = Off
  /\ services = Off /\ hostingCommand = Off /\ standing = Off /\ hostingHistory = Off
DomainOff ==
  /\ remote = Off /\ saved = Off /\ token = Off
  /\ runs = Off /\ unrelated = Off /\ domainHistory = Off
TalkOff ==
  /\ phase = Off /\ request = Off /\ history = Off /\ answer = Off
  /\ turn = Off /\ given = Off
LocalOff ==
  /\ localConfig = Off /\ localRemote = Off /\ holder = Off /\ lock = Off
  /\ localClients = Off /\ servers = Off /\ disk = Off /\ localTold = Off
  /\ unusual = Off
HelperOff ==
  /\ helperOperations = Off /\ helpers = Off /\ child = Off /\ pendingRequest = Off
  /\ nextId = Off /\ oddLines = Off /\ forgotten = Off
BrowserOff ==
  /\ passive = Off /\ built = Off /\ staged = Off /\ marker = Off
  /\ owner = Off /\ wake = Off /\ loadedFiles = Off /\ preferences = Off
  /\ setups = Off /\ browserUnusual = Off
InstallOff ==
  /\ program = Off /\ record = Off /\ installers = Off
UpgradeOff ==
  /\ stored = Off /\ opened = Off /\ handles = Off /\ used = Off
  /\ boots = Off /\ upgradeClock = Off
LinksOff ==
  /\ posix = Off /\ targets = Off /\ writable = Off /\ links = Off
  /\ builds = Off /\ changes = Off
ListenerOff ==
  /\ socket = Off /\ connected = Off /\ emitted = Off /\ callback = Off /\ bindState = Off
  /\ ready = Off /\ closeRequested = Off /\ closeCallInFlight = Off /\ closeSettled = Off
RunOff ==
  /\ windows = Off /\ stubborn = Off /\ runCall = Off /\ aborted = Off /\ process = Off
  /\ grandchild = Off /\ deadline = Off /\ cancellation = Off /\ sent = Off /\ result = Off
WaitsOff ==
  /\ durable = Off /\ announced = Off /\ changeRevision = Off /\ mutation = Off
  /\ waits = Off /\ gaveUp = Off

\* All parts but the chosen one.
OthersOff ==
  /\ part # "scheduling" => SchedulingOff
  /\ part # "memory" => MemoryOff
  /\ part # "tokens" => TokensOff
  /\ part # "consent" => ConsentOff
  /\ part # "mcp" => McpOff
  /\ part # "activity" => ActivityOff
  /\ part # "audit" => AuditOff
  /\ part # "graph" => GraphOff
  /\ part # "jobs" => JobsOff
  /\ part # "wake" => WakeOff
  /\ part # "launcher" => LaunchOff
  /\ part # "cli" => CliOff
  /\ part # "hosting" => HostOff
  /\ part # "domain" => DomainOff
  /\ part # "talk" => TalkOff
  /\ part # "local gateway" => LocalOff
  /\ part # "helper" => HelperOff
  /\ part # "browser" => BrowserOff
  /\ part # "install" => InstallOff
  /\ part # "upgrade" => UpgradeOff
  /\ part # "links" => LinksOff
  /\ part # "listener" => ListenerOff
  /\ part # "run" => RunOff
  /\ part # "waits" => WaitsOff

Chosen ==
  \/ part = "scheduling" /\ Init
  \/ part = "memory" /\ Memory!Init
  \/ part = "tokens" /\ Tokens!Init
  \/ part = "consent" /\ Consent!Init
  \/ part = "mcp" /\ Mcp!Init
  \/ part = "activity" /\ Activity!Init
  \/ part = "audit" /\ Audit!Init
  \/ part = "graph" /\ Graph!Init
  \/ part = "jobs" /\ Jobs!Init
  \/ part = "wake" /\ Wake!Init
  \/ part = "launcher" /\ Launch!Init
  \/ part = "cli" /\ Cli!Init
  \/ part = "hosting" /\ Host!Init
  \/ part = "domain" /\ Domain!Init
  \/ part = "talk" /\ Talk!Init
  \/ part = "local gateway" /\ Local!Init
  \/ part = "helper" /\ Helper!Init
  \/ part = "browser" /\ Browser!Init
  \/ part = "install" /\ Install!Init
  \/ part = "upgrade" /\ Upgrade!Init
  \/ part = "links" /\ Links!Init
  \/ part = "listener" /\ Listener!Init
  \/ part = "run" /\ Run!Init
  \/ part = "waits" /\ Sleeping!Init

ServicesInit == Chosen /\ OthersOff

SchedulingNext ==
  /\ part = "scheduling" /\ Next
  /\ UNCHANGED <<part, memoryVars, tokenVars, consentVars, mcpVars, activityVars, auditVars,
                 graphVars, jobVars, hostVars, aroundVars>>
MemoryNext ==
  /\ part = "memory" /\ Memory!Next
  /\ UNCHANGED <<part, schedulingVars, tokenVars, consentVars, mcpVars, activityVars, auditVars,
                 graphVars, jobVars, hostVars, aroundVars>>
TokensNext ==
  /\ part = "tokens" /\ Tokens!Next
  /\ UNCHANGED <<part, schedulingVars, memoryVars, consentVars, mcpVars, activityVars, auditVars,
                 graphVars, jobVars, hostVars, aroundVars>>
ConsentNext ==
  /\ part = "consent" /\ Consent!Next
  /\ UNCHANGED <<part, schedulingVars, memoryVars, tokenVars, mcpVars, activityVars, auditVars,
                 graphVars, jobVars, hostVars, aroundVars>>
McpNext ==
  /\ part = "mcp" /\ Mcp!Next
  /\ UNCHANGED <<part, schedulingVars, memoryVars, tokenVars, consentVars, activityVars, auditVars,
                 graphVars, jobVars, hostVars, aroundVars>>
ActivityNext ==
  /\ part = "activity" /\ Activity!Next
  /\ UNCHANGED <<part, schedulingVars, memoryVars, tokenVars, consentVars, mcpVars, auditVars,
                 graphVars, jobVars, hostVars, aroundVars>>
AuditNext ==
  /\ part = "audit" /\ Audit!Next
  /\ UNCHANGED <<part, schedulingVars, memoryVars, tokenVars, consentVars, mcpVars, activityVars,
                 graphVars, jobVars, hostVars, aroundVars>>
GraphNext ==
  /\ part = "graph" /\ Graph!Next
  /\ UNCHANGED <<part, schedulingVars, memoryVars, tokenVars, consentVars, mcpVars, activityVars,
                 auditVars, jobVars, hostVars, aroundVars>>
JobsNext ==
  /\ part = "jobs" /\ Jobs!Next
  /\ UNCHANGED <<part, schedulingVars, memoryVars, tokenVars, consentVars, mcpVars, activityVars,
                 auditVars, graphVars, hostVars, aroundVars>>
WakeNext ==
  /\ part = "wake" /\ Wake!Next
  /\ UNCHANGED <<part, serverVars, launcherVars, cliVars, hostingVars, domainVars, aroundVars>>
LaunchNext ==
  /\ part = "launcher" /\ Launch!Next
  /\ UNCHANGED <<part, serverVars, wakeVars, cliVars, hostingVars, domainVars, aroundVars>>
CliNext ==
  /\ part = "cli" /\ Cli!Next
  /\ UNCHANGED <<part, serverVars, wakeVars, launcherVars, hostingVars, domainVars, aroundVars>>
HostNext ==
  /\ part = "hosting" /\ Host!Next
  /\ UNCHANGED <<part, serverVars, wakeVars, launcherVars, cliVars, domainVars, aroundVars>>
DomainNext ==
  /\ part = "domain" /\ Domain!Next
  /\ UNCHANGED <<part, serverVars, wakeVars, launcherVars, cliVars, hostingVars, aroundVars>>
TalkNext ==
  /\ part = "talk" /\ Talk!Next
  /\ UNCHANGED <<part, serverVars, hostVars, localVars, helperVars, browserVars, installVars,
                 upgradeVars, linkVars, endVars>>
LocalNext ==
  /\ part = "local gateway" /\ Local!Next
  /\ UNCHANGED <<part, serverVars, hostVars, talkVars, helperVars, browserVars, installVars,
                 upgradeVars, linkVars, endVars>>
HelperNext ==
  /\ part = "helper" /\ Helper!Next
  /\ UNCHANGED <<part, serverVars, hostVars, talkVars, localVars, browserVars, installVars,
                 upgradeVars, linkVars, endVars>>
BrowserNext ==
  /\ part = "browser" /\ Browser!Next
  /\ UNCHANGED <<part, serverVars, hostVars, talkVars, localVars, helperVars, installVars,
                 upgradeVars, linkVars, endVars>>
InstallNext ==
  /\ part = "install" /\ Install!Next
  /\ UNCHANGED <<part, serverVars, hostVars, talkVars, localVars, helperVars, browserVars,
                 upgradeVars, linkVars, endVars>>
UpgradeNext ==
  /\ part = "upgrade" /\ Upgrade!Next
  /\ UNCHANGED <<part, serverVars, hostVars, talkVars, localVars, helperVars, browserVars,
                 installVars, linkVars, endVars>>
ListenerNext ==
  /\ part = "listener" /\ Listener!Next
  /\ UNCHANGED <<part, serverVars, hostVars, talkVars, localVars, helperVars, browserVars,
                 installVars, upgradeVars, linkVars, runVars, waitVars>>
RunNext ==
  /\ part = "run" /\ Run!Next
  /\ UNCHANGED <<part, serverVars, hostVars, talkVars, localVars, helperVars, browserVars,
                 installVars, upgradeVars, linkVars, listenerVars, waitVars>>
WaitsNext ==
  /\ part = "waits" /\ Sleeping!Next
  /\ UNCHANGED <<part, serverVars, hostVars, talkVars, localVars, helperVars, browserVars,
                 installVars, upgradeVars, linkVars, listenerVars, runVars>>
LinksNext ==
  /\ part = "links" /\ Links!Next
  /\ UNCHANGED <<part, serverVars, hostVars, talkVars, localVars, helperVars, browserVars,
                 installVars, upgradeVars, endVars>>

ServicesNext ==
  \/ SchedulingNext \/ MemoryNext \/ TokensNext \/ ConsentNext \/ McpNext
  \/ ActivityNext \/ AuditNext \/ GraphNext \/ JobsNext
  \/ WakeNext \/ LaunchNext \/ CliNext \/ HostNext \/ DomainNext
  \/ TalkNext \/ LocalNext \/ HelperNext \/ BrowserNext \/ InstallNext \/ UpgradeNext
  \/ LinksNext \/ ListenerNext \/ RunNext \/ WaitsNext

ServicesSpec == ServicesInit /\ [][ServicesNext]_vars

\* Two commands, and a PATH whose first directory is not the preferred one.
TwoCommands    == <<"pilink", "pilink-cli">>
TwoDirectories == <<"other", "local">>
LocalFirst     == <<"local">>

\* The last task of the scheduler writes nothing.  A memory that is spoilt, the one
\* that begins anew, and one at the last time have had one entry.  After a status
\* that could not be had a second tab is the last thing that happens, and the second
\* supervisor meets one request and no such status.  Every command of a job that ends
\* comes to the same result, and the last job does not get that far.  One MCP client's
\* credentials change.  After a lock was replaced, a launch abandoned or a
\* move of the ports cut off, nothing is claimed of the gateway; a launch by hand meets
\* at most two clients.  The browser setups are those whose directory nothing has left
\* in doubt.  Builds of two checkouts overlap over one command, or one build links
\* several.  One installer's source may bring a broken program.
Explored ==
  /\ part = "scheduling" => tasks[3].scheduling.scopes = {}
  /\ part = "memory" =>
       created <= 1 \/ (damage = "none" /\ memoryClock < 3)
  /\ part = "wake" =>
       /\ lapses # {} => Len(attempts) <= 1
       /\ supervisors[2].at # "none" => gateway.created <= 1 /\ lapses = {}
  /\ part = "jobs" =>
       /\ \A j \in Jobs!Jobs : command[j] # "nonzero"
       /\ command[3] = "none" /\ worker[3] \in {"none", "starting"}
  /\ part = "mcp" => version[c2] = 1
  /\ part = "local gateway" =>
       /\ unusual \subseteq {"by hand"}
       /\ "by hand" \in unusual => localClients[g3].at = "verify"
  /\ part = "browser" => browserUnusual = {}
  /\ part = "links" =>
       /\ (\A o \in DOMAIN targets : targets[o] = {"pilink"}) \/ builds[p2].at = "idle"
       /\ builds[p2].checkout # "here"
  /\ part = "install" => installers[p2].source # "broken"

-----------------------------------------------------------------------------
(* Properties. *)

\* Writers never meet, a session that finds no work is told why or when, and the
\* cycle analysis finds what can never run (Scheduling, DependencyGraph).
ScheduleSound ==
  /\ part = "scheduling" => TypeOK /\ WritersApart /\ StuckIsExplained /\ WakeTimeRight
  /\ part = "graph" => Graph!TypeOK /\ Graph!CyclesFound

\* What the memory shows as settled was promoted by those who may, is not disputed
\* and not replaced (AgentMemory).
MemoryGoverned ==
  part = "memory" =>
    Memory!TypeOK /\ Memory!ActiveIsGoverned /\ Memory!DisputesShown /\ Memory!SupersessionLinked

\* Credentials end with what they were granted for, codes and refresh tokens serve
\* once, every authorization code answers one approval of the owner, and a session
\* file that was upgraded serves no old handle and stays readable (OAuthTokens,
\* OAuthConsent, SessionUpgrade).
CredentialsEnd ==
  /\ part = "tokens" =>
       /\ Tokens!TypeOK /\ Tokens!OnlyCurrentCredentials
       /\ Tokens!CodeYieldsOnce /\ Tokens!ReplayEndsFamily
  /\ part = "consent" => Consent!TypeOK /\ Consent!CodesWereApproved
  /\ part = "upgrade" => Upgrade!TypeOK /\ Upgrade!StaysReadable /\ Upgrade!OldHandlesEnd

\* The tables of MCP sessions and of jobs stay within their limits, and no session
\* that is in use is recycled (McpSessions, ExecutionJobs).
TablesBounded ==
  /\ part = "mcp" => Mcp!TypeOK /\ Mcp!WithinLimits /\ Mcp!BusyNeverReclaimed
  /\ part = "jobs" => Jobs!TypeOK /\ Jobs!RetentionBounded

\* No event is stored twice or left out of what is read (ActivityLog, ToolAudit).
RecordsComplete ==
  /\ part = "activity" => Activity!TypeOK /\ Activity!StoredOnce /\ Activity!PagesComplete
  /\ part = "audit" => Audit!TypeOK /\ Audit!NewestReadable

\* A stranded request wakes the worker once, a failure suppresses no later request,
\* a tab closes only for a worker that answered, and a call that waits sleeps through
\* no change that was announced (GatewayWake, GatewayWaits).
WakeBounded ==
  /\ part = "wake" =>
       /\ Wake!TypeOK /\ Wake!OncePerReason /\ Wake!SuspendedForCause
       /\ Wake!ConfirmedByContact /\ Wake!OneTabAfterClose
  /\ part = "waits" => Sleeping!TypeOK /\ Sleeping!SleepersAreCurrent

\* Whatever starts, hosts or ends the server, and wherever it is interrupted, knows
\* its processes, serves what is configured, can be run again and takes nothing
\* from others (Launcher, CliProcesses, Hosting, FixedDomain, LocalGateway,
\* GatewayListener).
ServersAccounted ==
  /\ part = "launcher" =>
       /\ Launch!TypeOK /\ Launch!ServesConfiguration /\ Launch!KnowsItsChild
       /\ Launch!DisposedLeavesNothing /\ Launch!StatusTrue
  /\ part = "cli" =>
       Cli!TypeOK /\ Cli!EndsTogether /\ Cli!MappingsReleased /\ Cli!LeftBehind
  /\ part = "hosting" =>
       Host!TypeOK /\ Host!ForeignKept /\ Host!NeverBlocksItself /\ Host!LoadedAsInstalled
  /\ part = "domain" =>
       Domain!TypeOK /\ Domain!OwnersStay /\ Domain!Resumable /\ Domain!SavedIsServed
  /\ part = "local gateway" =>
       /\ Local!TypeOK /\ Local!LaunchedOnce
       /\ Local!OutcomesOnDisk /\ Local!DomainFollows
  /\ part = "listener" => Listener!TypeOK /\ Listener!ClosedIsDown /\ Listener!NobodyWaits

\* A conversation never stands before an answer it cannot take, what a worker calls is
\* told back once, an operation on the desktop gets its own answer, and a command is
\* told of as it ended (GatewayConversation, ComputerHelper, CommandRun).
AnswersBelong ==
  /\ part = "talk" => Talk!TypeOK /\ Talk!Answerable /\ Talk!Continues /\ Talk!CallsTold
  /\ part = "helper" =>
       /\ Helper!TypeOK /\ Helper!OwnAnswer
       /\ Helper!OneAtATime /\ Helper!HelpersAccounted
  /\ part = "run" => Run!TypeOK /\ Run!ResultTrue /\ Run!ForcedIsGone

\* What runs is what was verified, the browser is woken only with the files that were
\* staged last, and a command on the PATH starts the checkout that reported it and
\* takes no other program's place (VerifiedInstall, BrowserSetup, CliLinks).
InstalledIsRight ==
  /\ part = "install" =>
       Install!TypeOK /\ Install!RunsWhatWasVerified /\ Install!ReadyIsThere
  /\ part = "browser" =>
       Browser!TypeOK /\ Browser!WakesCurrent /\ Browser!OutdatedIsMarked
  /\ part = "links" =>
       Links!TypeOK /\ Links!OthersCommandsKept /\ Links!LinkedStarts

\* What is past does not come back or change: the history of the memory, deleted
\* entries, refused tokens, and the directories of running jobs (AgentMemory,
\* OAuthTokens, ExecutionJobs).
PastStands ==
  [][/\ part = "memory" => Memory!HistoryKept /\ Memory!DeletedStays
     /\ part = "tokens" => Tokens!RefusedForGood
     /\ part = "jobs" => Jobs!RunningKept]_vars

=============================================================================
