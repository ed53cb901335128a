------------------------------ MODULE Launcher ------------------------------
(***************************************************************************)
(* The VS Code extension as the keeper of one PiLink process: the          *)
(* supervisor of the child (packages/vscode/src/process-supervisor.ts) and *)
(* the operations of the dashboard that write the configuration and start, *)
(* stop or restart the child (packages/vscode/src/extension.ts).           *)
(*                                                                         *)
(* One operation runs at a time, but it waits for the child, for a health  *)
(* probe and for the port, and meanwhile the child may end, another        *)
(* program may take the port, the extension may be disposed or its host    *)
(* may die.  A child is a process group of its own and survives its host.  *)
(***************************************************************************)
EXTENDS Integers

CONSTANTS MaxChildren, MaxWrites, MaxHosts, MaxOperations \* bounds

LauncherAssumption ==
  {MaxChildren, MaxWrites, MaxHosts, MaxOperations} \subseteq Nat \ {0}

VARIABLES
  config,      \* the version of the configuration in the file
  port,        \* who listens on the configured port
  children,    \* the PiLink processes the extension started
  supervisor,  \* ProcessSupervisor and the terminal bridge of its child
  operation,   \* the operation that holds operationLabel
  host,        \* the number of the extension host
  operations   \* how many operations began (bound)

launcherVars == <<config, port, children, supervisor, operation, host, operations>>

Children == 1 .. MaxChildren
Nobody == 0
External == -1   \* a PiLink server that the command line started
Foreign == -2    \* a program that is not PiLink

NoChild == 0
Idle == [kind |-> "none", at |-> "idle", wasRunning |-> FALSE]
Fresh == [status |-> "stopped", child |-> NoChild, stop |-> "none", stopping |-> FALSE,
          disposed |-> FALSE, survived |-> FALSE]

Init ==
  /\ config = 0 /\ port \in {Nobody, External, Foreign}
  /\ children = [c \in Children |-> [state |-> "none", config |-> 0, host |-> 0]]
  /\ supervisor = Fresh /\ operation = Idle /\ host = 1 /\ operations = 0

\* get isActive
IsActive == supervisor.child # NoChild

\* What a health probe can see: a server of PiLink that listens.
Online == port = External \/ port \in Children

Keep(at) == operation' = [operation EXCEPT !.at = at]
Finish == operation' = Idle

-----------------------------------------------------------------------------
(* ProcessSupervisor and InteractiveProcessTerminal. *)

\* Mutant: disposing the extension does not refuse a later start.
Mutant_CanStart == ~IsActive /\ supervisor.status # "starting"

\* start: refused once disposed and while there is a child.
CanStart == ~supervisor.disposed /\ ~IsActive /\ supervisor.status # "starting"

Start(c) ==
  /\ children' = [children EXCEPT ![c] = [state |-> "spawning", config |-> 0, host |-> host]]
  /\ supervisor' = [supervisor EXCEPT !.status = "starting", !.child = c, !.stop = "none",
                                      !.stopping = FALSE, !.survived = FALSE]

\* onSpawn: the status is written whatever it was.
Spawned(c) ==
  /\ children[c].state = "spawning"
  /\ children' = [children EXCEPT ![c].state = "booting"]
  /\ supervisor' = IF supervisor.child = c THEN [supervisor EXCEPT !.status = "running"] ELSE supervisor
  /\ UNCHANGED <<config, port, operation, host, operations>>

\* The child reads the configuration and takes the port.
Listen(c) ==
  /\ children[c].state = "booting" /\ port = Nobody
  /\ children' = [children EXCEPT ![c].state = "listening", ![c].config = config]
  /\ port' = c
  /\ UNCHANGED <<config, supervisor, operation, host, operations>>

\* onExit, when the child ends for whatever reason: a failed start, a port that
\* is taken, a signal, a fault.
Exit(c) ==
  /\ children[c].state \in {"spawning", "booting", "listening"}
  /\ children' = [children EXCEPT ![c].state = "ended"]
  /\ port' = IF port = c THEN Nobody ELSE port
  /\ \E status \in {"stopped", "error"} :
       /\ supervisor.status = "stopping" => status = "stopped"
       /\ supervisor' =
            IF supervisor.child # c THEN supervisor
            ELSE [supervisor EXCEPT !.child = NoChild, !.stop = "none", !.stopping = FALSE,
                                    !.status = status]
  /\ UNCHANGED <<config, operation, host, operations>>

\* stop: the calls that overlap share one promise.  A child that outlived an
\* earlier stop is waited for without a limit.
BeginStop(s) ==
  IF ~IsActive THEN [s EXCEPT !.status = "stopped"]
  ELSE IF s.stop # "none" THEN s
  ELSE [s EXCEPT !.status = "stopping", !.stopping = TRUE,
                 !.stop = IF s.stopping THEN "exit" ELSE "SIGINT"]

\* A wait of the stop ends with the child alive: the next signal is sent, and
\* after the last one the stop returns all the same.
Escalate ==
  /\ supervisor.stop \in {"SIGINT", "SIGTERM", "SIGKILL"}
  /\ supervisor' =
       CASE supervisor.stop = "SIGINT" -> [supervisor EXCEPT !.stop = "SIGTERM"]
         [] supervisor.stop = "SIGTERM" -> [supervisor EXCEPT !.stop = "SIGKILL"]
         [] supervisor.stop = "SIGKILL" -> [supervisor EXCEPT !.stop = "none", !.survived = TRUE]
  /\ UNCHANGED <<config, port, children, operation, host, operations>>

Stopped == supervisor.stop = "none"

-----------------------------------------------------------------------------
(* The operations. *)

Kinds == {"change", "setup", "start", "stop", "restart"}

\* runOperation, up to the first wait of the operation.
Begin(kind) ==
  /\ operation = Idle /\ operations < MaxOperations /\ ~supervisor.disposed
  /\ operation' = [kind |-> kind, at |-> "check", wasRunning |-> FALSE]
  /\ operations' = operations + 1
  /\ UNCHANGED <<config, port, children, supervisor, host>>

\* detectExternalRuntime and its like: without a child of its own the operation
\* is refused when a server answers.  A probe may miss a server that is slow.
Refused == ~IsActive /\ Online /\ operation.kind \in {"change", "setup", "restart", "stop"}

Check ==
  /\ operation.at = "check"
  /\ \/ Refused /\ Finish /\ UNCHANGED supervisor
     \/ /\ operation.kind = "start" /\ Keep("probe") /\ UNCHANGED supervisor
     \/ /\ operation.kind # "start"
        /\ operation' = [operation EXCEPT !.wasRunning = IsActive, !.at =
             IF IsActive THEN "stop"
             ELSE CASE operation.kind \in {"change", "setup"} -> "write"
                    [] operation.kind = "restart" -> "probe"
                    [] operation.kind = "stop" -> "done"]
        /\ supervisor' = IF IsActive THEN BeginStop(supervisor) ELSE supervisor
  /\ UNCHANGED <<config, port, children, host, operations>>

AfterStop ==
  /\ operation.at = "stop" /\ Stopped
  /\ Keep(CASE operation.kind \in {"change", "setup"} -> "write"
            [] operation.kind = "restart" -> "probe"
            [] operation.kind = "stop" -> "done")
  /\ UNCHANGED <<config, port, children, supervisor, host, operations>>

\* writePrivateFile, provisionWizardConfiguration
Write ==
  /\ operation.at = "write" /\ config < MaxWrites
  /\ config' = config + 1
  /\ Keep(IF operation.kind = "setup" \/ operation.wasRunning THEN "probe" ELSE "done")
  /\ UNCHANGED <<port, children, supervisor, host, operations>>

\* startConfigured: a server that answers is taken for the one to be started; a
\* port that is taken otherwise is an error.
Probe ==
  /\ operation.at = "probe"
  /\ \/ Online /\ Keep("done")
     \/ port # Nobody /\ Keep("done")
     \/ port = Nobody /\ Keep("spawn")
  /\ UNCHANGED <<config, port, children, supervisor, host, operations>>

\* runServer
Spawn ==
  /\ operation.at = "spawn"
  /\ \/ /\ CanStart
        /\ \E c \in Children :
             /\ children[c].state = "none" /\ \A b \in 1 .. c - 1 : children[b].state # "none"
             /\ Start(c)
        /\ Keep("await")
     \/ ~CanStart /\ Keep("done") /\ UNCHANGED <<children, supervisor>>
  /\ UNCHANGED <<config, port, host, operations>>

\* waitForHealth: a server answers, or the time is over; a child that has ended
\* is not noticed before.
Await ==
  /\ operation.at = "await" /\ Keep("done")
  /\ UNCHANGED <<config, port, children, supervisor, host, operations>>

Done ==
  /\ operation.at = "done" /\ Finish
  /\ UNCHANGED <<config, port, children, supervisor, host, operations>>

-----------------------------------------------------------------------------
(* The extension and its surroundings. *)

\* deactivate: at any time, whether an operation is in progress or not.
Dispose ==
  /\ ~supervisor.disposed
  /\ supervisor' = BeginStop([supervisor EXCEPT !.disposed = TRUE])
  /\ UNCHANGED <<config, port, children, operation, host, operations>>

\* The host dies, or ends after a disposal; the next one knows no child.
NewHost ==
  /\ host < MaxHosts
  /\ host' = host + 1 /\ supervisor' = Fresh /\ operation' = Idle
  /\ UNCHANGED <<config, port, children, operations>>

\* Somebody else takes the port or leaves it.
Others ==
  /\ \/ port = Nobody /\ port' \in {External, Foreign}
     \/ port \in {External, Foreign} /\ port' = Nobody
  /\ UNCHANGED <<config, children, supervisor, operation, host, operations>>

Next ==
  \/ \E c \in Children : Spawned(c) \/ Listen(c) \/ Exit(c)
  \/ \E kind \in Kinds : Begin(kind)
  \/ Escalate \/ Check \/ AfterStop \/ Write \/ Probe \/ Spawn \/ Await \/ Done
  \/ Dispose \/ NewHost \/ Others

Spec == Init /\ [][Next]_launcherVars

-----------------------------------------------------------------------------
(* Properties. *)

TypeOK ==
  /\ config \in 0 .. MaxWrites /\ port \in {Nobody, External, Foreign} \union Children
  /\ supervisor.child \in Children \union {NoChild}
  /\ supervisor.status \in {"stopped", "starting", "running", "stopping", "error"}
  /\ operation.kind \in Kinds \union {"none"}

Alive(c) == children[c].state \in {"spawning", "booting", "listening"}

\* A child of this extension that listens runs with the configuration in the file
\* whenever no operation is in progress, unless it outlived its SIGKILL
\* (chooseWorkspace, switchToSingle, setupAndStart).
ServesConfiguration ==
  \A c \in Children :
    /\ operation = Idle /\ supervisor.child = c /\ children[c].state = "listening"
    /\ ~supervisor.survived
    => children[c].config = config

\* One host never has two children, and none that it has lost sight of.
KnowsItsChild ==
  \A c \in Children : Alive(c) /\ children[c].host = host => supervisor.child = c

\* A disposed extension leaves no child behind that could still be signalled, and
\* starts none later (disposeAsync).
DisposedLeavesNothing ==
  supervisor.disposed /\ Stopped => ~IsActive \/ supervisor.survived

\* What the dashboard shows as starting, running or stopping has a child.
StatusTrue == supervisor.status \in {"starting", "running", "stopping"} => IsActive

=============================================================================
