---------------------------- MODULE LocalGateway ----------------------------
(***************************************************************************)
(* How the local gateway comes to run.  Clients that need it launch it in  *)
(* the background, under a lock file, when no verified one answers         *)
(* (src/src/pilink-cli-agent.ts); an operator launches it by hand, and     *)
(* then it may move to other ports and repoint the fixed domain            *)
(* (src/src/llm-gateway-launch.ts, llm-gateway-ports.ts).  Either way a    *)
(* server process loads the one state file of the project and binds the    *)
(* ports side by side (src/src/llm-gateway-runtime.ts, index.ts).          *)
(*                                                                         *)
(* A pair of ports (MCP and API) is one number; the configured pair is 1   *)
(* at first and the domain points to it.  A server's state is the set of   *)
(* requests whose outcome it has recorded; GatewayStore has the rest.      *)
(***************************************************************************)
EXTENDS Integers, FiniteSets

LOCAL INSTANCE FiniteSetsExt

CONSTANTS Clients, MaxServers, MaxPorts, MaxOutcomes   \* the last three are bounds

VARIABLES
  config,      \* PORT in the private configuration
  remote,      \* the pair the fixed domain is served from
  holder,      \* who listens on each pair: 0 nobody, -1 another program, or a server
  lock,        \* .pilink-gateway-autostart.lock: its process (a client) and its inode
  clients,     \* what each client is about to do, and the stale lock it has judged
  servers,     \* each gateway process
  disk,        \* the state file
  told,        \* the outcomes that callers were told
  unusual      \* what happened that the launchers cannot exclude

localVars == <<config, remote, holder, lock, clients, servers, disk, told, unusual>>

LocalGatewayAssumption == {MaxServers, MaxPorts, MaxOutcomes} \subseteq Nat

Servers  == 1 .. MaxServers
Ports    == 1 .. MaxPorts
Outcomes == 1 .. MaxOutcomes
Nobody   == 0
Foreign  == -1
NoLock   == [owner |-> "none", inode |-> 0]
NoServer == [at |-> "none", auto |-> FALSE, asked |-> 0, port |-> 0,
             store |-> "closed", mem |-> {}, by |-> "none"]

Launching == {"select", "save", "repoint"}
Running   == {"start", "listening"}

TypeOK ==
  /\ config \in Ports /\ remote \in Ports
  /\ holder \in [Ports -> {Nobody, Foreign} \cup Servers]
  /\ lock \in [owner : Clients \cup {"none"}, inode : Nat]
  /\ clients \in [Clients -> [at : {"verify", "lock", "judge", "unlink", "relock", "again",
                                    "probe", "start", "wait", "done", "failed", "dead"},
                              saw : 0 .. 9, inode : 0 .. 9]]
  /\ servers \in [Servers -> [at : {"none", "dead"} \cup Launching \cup Running, auto : BOOLEAN,
                              asked : 0 .. MaxPorts, port : 0 .. MaxPorts,
                              store : {"closed", "loaded", "saved"}, mem : SUBSET Outcomes,
                              by : Clients \cup {"none"}]]
  /\ disk \subseteq Outcomes /\ told \subseteq Outcomes
  /\ unusual \subseteq {"by hand", "left behind", "lock replaced", "interrupted", "crossed"}

Init ==
  /\ config = 1 /\ remote = 1
  /\ holder \in {[p \in Ports |-> Nobody], [p \in Ports |-> IF p = 1 THEN Foreign ELSE Nobody]}
  /\ lock = NoLock
  /\ clients = [c \in Clients |-> [at |-> "verify", saw |-> 0, inode |-> 0]]
  /\ servers = [s \in Servers |-> NoServer]
  /\ disk = {} /\ told = {} /\ unusual = {}

-----------------------------------------------------------------------------
(* A client: ensureLocalGateway. *)

Go(c, at) == clients' = [clients EXCEPT ![c].at = at]

\* verifyLocalGateway: only a server that holds the secrets of this configuration
\* proves it, on the configured ports.
verified ==
  holder[config] \in Servers /\ servers[holder[config]].at = "listening"

Verify(c) ==
  /\ clients[c].at = "verify"
  /\ Go(c, IF verified THEN "done" ELSE "lock")
  /\ UNCHANGED <<config, remote, holder, lock, servers, disk, told, unusual>>

Fresh == 1 + Max({lock.inode} \cup {clients[c].inode : c \in Clients})

\* The exclusive creation of the lock; a client that fails judges the lock it met.
Acquire(c) ==
  /\ clients[c].at \in {"lock", "relock"}
  /\ \/ /\ lock = NoLock
        /\ lock' = [owner |-> c, inode |-> Fresh]
        /\ clients' = [clients EXCEPT ![c].at = "again", ![c].inode = Fresh]
     \/ /\ lock # NoLock
        /\ UNCHANGED lock
        /\ Go(c, IF clients[c].at = "lock" THEN "judge" ELSE "wait")
  /\ UNCHANGED <<config, remote, holder, servers, disk, told, unusual>>

\* Mutant: a lock counts as stale whoever holds it.
Mutant_isStale(l) == TRUE

isStale(l) == clients[l.owner].at = "dead"

\* recoverStaleGatewayLock: a lock of a live process stays ...
Judge(c) ==
  /\ clients[c].at = "judge"
  /\ clients' = [clients EXCEPT ![c].at = IF lock # NoLock /\ isStale(lock) THEN "unlink" ELSE "wait",
                                ![c].saw = IF lock # NoLock /\ isStale(lock) THEN lock.inode ELSE 0]
  /\ UNCHANGED <<config, remote, holder, lock, servers, disk, told, unusual>>

\* ... and a stale one is deleted by its name, a moment after it was last looked at.
Unlink(c) ==
  /\ clients[c].at = "unlink"
  /\ clients' = [clients EXCEPT ![c].at = IF lock = NoLock THEN "wait" ELSE "relock", ![c].saw = 0]
  /\ lock' = NoLock
  /\ unusual' = unusual \cup (IF lock # NoLock /\ lock.inode # clients[c].saw
                                THEN {"lock replaced"} ELSE {})
  /\ UNCHANGED <<config, remote, holder, servers, disk, told>>

\* The lock is removed by whoever created one.
Unlocked(c) == IF clients[c].inode # 0 THEN NoLock ELSE lock

VerifyAgain(c) ==
  /\ clients[c].at = "again"
  /\ Go(c, IF verified THEN "done" ELSE "probe")
  /\ lock' = IF verified THEN Unlocked(c) ELSE lock
  /\ UNCHANGED <<config, remote, holder, servers, disk, told, unusual>>

\* isLoopbackPortAvailable, for both ports.
Probe(c) ==
  /\ clients[c].at = "probe"
  /\ IF holder[config] = Nobody THEN Go(c, "start") /\ UNCHANGED lock
                                ELSE Go(c, "failed") /\ lock' = Unlocked(c)
  /\ UNCHANGED <<config, remote, holder, servers, disk, told, unusual>>

Unused == {s \in Servers : servers[s].at = "none"}

Launched(by) ==
  [NoServer EXCEPT !.at = "select", !.auto = by # "none", !.by = by, !.asked = config]

\* startDetachedGateway
Start(c) ==
  /\ clients[c].at = "start" /\ Unused # {}
  /\ servers' = [servers EXCEPT ![Min(Unused)] = Launched(c)]
  /\ Go(c, "wait")
  /\ UNCHANGED <<config, remote, holder, lock, disk, told, unusual>>

\* A server that was launched for c and may still come up.
Starting(c) ==
  \E s \in Servers : servers[s].by = c /\ servers[s].at \in Launching \cup {"start"}

Gone(c) == IF Starting(c) THEN {"left behind"} ELSE {}

\* Polling until the gateway is verified, or the wait is over.
Wait(c) ==
  /\ clients[c].at = "wait"
  /\ lock' = Unlocked(c)
  /\ \/ verified /\ Go(c, "done") /\ UNCHANGED unusual
     \/ ~verified /\ Go(c, "failed") /\ unusual' = unusual \cup Gone(c)
  /\ UNCHANGED <<config, remote, holder, servers, disk, told>>

Die(c) ==
  /\ clients[c].at \notin {"done", "failed", "dead"}
  /\ Go(c, "dead")
  /\ unusual' = unusual \cup Gone(c)
  /\ UNCHANGED <<config, remote, holder, lock, servers, disk, told>>

-----------------------------------------------------------------------------
(* A launch: prepareGatewayLaunch. *)

\* pilink gateway start, by an operator who need not know of another gateway.
LaunchByHand ==
  /\ Unused # {}
  /\ servers' = [servers EXCEPT ![Min(Unused)] = Launched("none")]
  /\ unusual' = unusual \cup {"by hand"}
  /\ UNCHANGED <<config, remote, holder, lock, clients, disk, told>>

Server(s, changes) == servers' = [servers EXCEPT ![s] = changes]

\* Mutant: a launch in the background falls back to other ports too.
Mutant_mayMove(s) == TRUE

\* assertGatewayAutoStartPorts
mayMove(s) == ~servers[s].auto

FreePorts(from) == {p \in Ports : p >= from /\ holder[p] = Nobody}

\* selectGatewayPorts: the first free pair from the configured one on.
Select(s) ==
  LET asked == servers[s].asked
      port  == Min(FreePorts(asked))
  IN /\ servers[s].at = "select"
     /\ IF FreePorts(asked) = {} \/ (port # asked /\ ~mayMove(s))
          THEN Server(s, [servers[s] EXCEPT !.at = "dead"])
          ELSE Server(s, [servers[s] EXCEPT !.at = IF port = asked THEN "start" ELSE "save",
                                            !.port = port])
     /\ UNCHANGED <<config, remote, holder, lock, clients, disk, told, unusual>>

Moving == {s \in Servers : servers[s].at = "repoint"}

\* The new port is saved before the domain is repointed.
SavePort(s) ==
  /\ servers[s].at = "save"
  /\ config' = servers[s].port
  /\ Server(s, [servers[s] EXCEPT !.at = "repoint"])
  /\ unusual' = unusual \cup (IF Moving # {} \/ config # servers[s].asked THEN {"crossed"} ELSE {})
  /\ UNCHANGED <<remote, holder, lock, clients, disk, told>>

\* Mutant: the configuration keeps the new port when the domain could not follow.
Mutant_restored(s) == config

restored(s) == servers[s].asked

\* repointFixedDomainGateway; the old configuration comes back when it fails.
Repoint(s) ==
  /\ servers[s].at = "repoint"
  /\ \/ /\ remote' = servers[s].port /\ UNCHANGED config
        /\ Server(s, [servers[s] EXCEPT !.at = "start"])
     \/ /\ config' = restored(s) /\ UNCHANGED remote
        /\ Server(s, [servers[s] EXCEPT !.at = "dead"])
  /\ UNCHANGED <<holder, lock, clients, disk, told, unusual>>

-----------------------------------------------------------------------------
(* A server process: getLlmGatewayRuntime.  The activation of the store and the *)
(* binding of the ports are not ordered.                                        *)

Load(s) ==
  /\ servers[s].at \in Running /\ servers[s].store = "closed"
  /\ Server(s, [servers[s] EXCEPT !.store = "loaded", !.mem = disk])
  /\ UNCHANGED <<config, remote, holder, lock, clients, disk, told, unusual>>

Activate(s) ==
  /\ servers[s].at \in Running /\ servers[s].store = "loaded"
  /\ disk' = servers[s].mem
  /\ Server(s, [servers[s] EXCEPT !.store = "saved"])
  /\ UNCHANGED <<config, remote, holder, lock, clients, told, unusual>>

\* A server whose ports were taken meanwhile exits, whatever its store has done.
Bind(s) ==
  /\ servers[s].at = "start"
  /\ \/ /\ holder[servers[s].port] = Nobody
        /\ holder' = [holder EXCEPT ![servers[s].port] = s]
        /\ Server(s, [servers[s] EXCEPT !.at = "listening"])
     \/ /\ holder[servers[s].port] # Nobody
        /\ Server(s, [servers[s] EXCEPT !.at = "dead"])
        /\ UNCHANGED holder
  /\ UNCHANGED <<config, remote, lock, clients, disk, told, unusual>>

\* A request ends: its outcome is saved and its caller is told.
Serve(s) ==
  /\ servers[s].at = "listening" /\ servers[s].store = "saved"
  /\ \E o \in Outcomes \ told :
       /\ told' = told \cup {o}
       /\ disk' = servers[s].mem \cup {o}
       /\ Server(s, [servers[s] EXCEPT !.mem = @ \cup {o}])
  /\ UNCHANGED <<config, remote, holder, lock, clients, unusual>>

Crash(s) ==
  /\ servers[s].at \in Launching \cup Running
  /\ Server(s, [servers[s] EXCEPT !.at = "dead"])
  /\ holder' = [p \in Ports |-> IF holder[p] = s THEN Nobody ELSE holder[p]]
  /\ unusual' = unusual \cup (IF servers[s].at = "repoint" THEN {"interrupted"} ELSE {})
  /\ UNCHANGED <<config, remote, lock, clients, disk, told>>

Next ==
  \/ \E c \in Clients :
       \/ Verify(c) \/ Acquire(c) \/ Judge(c) \/ Unlink(c) \/ VerifyAgain(c)
       \/ Probe(c) \/ Start(c) \/ Wait(c) \/ Die(c)
  \/ LaunchByHand
  \/ \E s \in Servers :
       \/ Select(s) \/ SavePort(s) \/ Repoint(s) \/ Load(s) \/ Activate(s)
       \/ Bind(s) \/ Serve(s) \/ Crash(s)

LocalGatewaySpec == Init /\ [][Next]_localVars

-----------------------------------------------------------------------------
(* Properties. *)

\* Clients launch one gateway between them, whatever their number: a second one
\* comes up only if the first was launched by hand, its client was gone before it
\* was ready, or a lock was replaced under a client that removed a stale one.
LaunchedOnce ==
  Cardinality({s \in Servers : servers[s].at \in Launching \cup Running}) > 1
    => unusual \cap {"by hand", "left behind", "lock replaced"} # {}

\* The state file keeps what callers were told, unless two servers wrote it.
OutcomesOnDisk ==
  told \subseteq disk \/ unusual \cap {"by hand", "left behind", "lock replaced"} # {}

\* No launch in the background moves the gateway; one by hand moves the domain
\* with it, or puts the configuration back, unless it is killed on the way or
\* another launch changes the same two.
DomainFollows ==
  /\ "by hand" \notin unusual => config = 1 /\ remote = 1
  /\ Moving = {} /\ unusual \cap {"interrupted", "crossed"} = {} => config = remote
=============================================================================
