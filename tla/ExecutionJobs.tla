----------------------------- MODULE ExecutionJobs -----------------------------
(***************************************************************************)
(* Durable execution jobs (src/src/execution-jobs.ts) and the detached     *)
(* worker process that runs each (src/src/execution-job-worker.ts).        *)
(*                                                                         *)
(* Nothing synchronises them but the files of the job's directory and the  *)
(* table of processes: PiLink looks at one file after the other while the  *)
(* worker writes them, and a job outlives the PiLink that started it.  The *)
(* worker leads a process group, which its command belongs to.             *)
(***************************************************************************)
EXTENDS Integers, FiniteSets

CONSTANTS
  Callers,     \* calls that may be in progress at once
  Requests,    \* bound: the kinds of calls made
  Retained,    \* MAX_RETAINED_JOBS
  MaxJobs,     \* bound: jobs ever started
  MaxCrashes   \* bound: crashes of PiLink

JobAssumption ==
  /\ IsFiniteSet(Callers)
  /\ Requests \subseteq {"start", "status", "cancel"}
  /\ {Retained, MaxJobs} \subseteq Nat \ {0}
  /\ MaxCrashes \in Nat

VARIABLES
  dir,      \* the jobs whose directory exists, and what is in it
  worker,   \* the worker process of each job
  command,  \* the command of each job: not started, running, or its outcome
  signal,   \* what was last sent to the process group of each job
  timer,    \* the jobs for which a forced kill is pending
  call,     \* what each caller is doing
  told,     \* the states of each job that callers were told
  started,  \* how many jobs have been started
  crashes   \* how often PiLink has crashed

vars == <<dir, worker, command, signal, timer, call, told, started, crashes>>

Jobs     == 1 .. MaxJobs
Results  == {"zero", "nonzero"}
States   == {"running", "completed", "failed", "cancelled", "orphaned"}
Directory == [metadata : BOOLEAN, cancelled : BOOLEAN, result : Results \cup {"none"}]
Operations == {"start", "status", "cancel"}
Points == {"prune", "remove", "spawn", "describe", "read", "look", "mark", "kill"}
Call   == [op : Operations, job : 0 .. MaxJobs, at : Points,
           unread : SUBSET {"result", "cancelled"}, result : Results \cup {"none"},
           cancelled : BOOLEAN, marked : BOOLEAN, knew : SUBSET States,
           doomed : SUBSET Jobs, full : BOOLEAN]
NoCall == [at |-> "idle"]

TypeOK ==
  /\ DOMAIN dir \subseteq 1 .. started
  /\ dir \in [DOMAIN dir -> Directory]
  /\ worker \in [Jobs -> {"none", "starting", "waiting", "done", "gone"}]
  /\ command \in [Jobs -> {"none", "running"} \cup Results]
  /\ signal \in [Jobs -> {"none", "term", "kill"}]
  /\ timer \subseteq Jobs
  /\ call \in [Callers -> Call \cup {NoCall}]
  /\ told \in [Jobs -> SUBSET States]
  /\ started \in 0 .. MaxJobs
  /\ crashes \in 0 .. MaxCrashes

Init ==
  /\ dir = [j \in {} |-> NoCall]
  /\ worker = [j \in Jobs |-> "none"]
  /\ command = [j \in Jobs |-> "none"]
  /\ signal = [j \in Jobs |-> "none"]
  /\ timer = {}
  /\ call = [c \in Callers |-> NoCall]
  /\ told = [j \in Jobs |-> {}]
  /\ started = 0
  /\ crashes = 0

WorkerAlive(j) == worker[j] \in {"starting", "waiting", "done"}

Described == {j \in DOMAIN dir : dir[j].metadata}

-----------------------------------------------------------------------------
(* The worker and its command. *)

\* It reads spec.json and spawns the command, or fails and writes no result.
WorkerStarts(j) ==
  /\ worker[j] = "starting"
  /\ \/ /\ j \in DOMAIN dir
        /\ worker' = [worker EXCEPT ![j] = "waiting"]
        /\ command' = [command EXCEPT ![j] = "running"]
     \/ worker' = [worker EXCEPT ![j] = "gone"] /\ UNCHANGED command
  /\ UNCHANGED <<dir, signal, timer, call, told, started, crashes>>

\* The command ends, by itself or because of a signal that it heeds.
CommandEnds(j) ==
  /\ command[j] = "running"
  /\ \E result \in Results : command' = [command EXCEPT ![j] = result]
  /\ UNCHANGED <<dir, worker, signal, timer, call, told, started, crashes>>

\* Mutant: the outcome of the command is not looked at.
WorkerReportsZero(j) ==
  /\ worker[j] = "waiting"
  /\ command[j] \in Results
  /\ worker' = [worker EXCEPT ![j] = "done"]
  /\ dir' = IF j \in DOMAIN dir THEN [dir EXCEPT ![j].result = "zero"] ELSE dir
  /\ UNCHANGED <<command, signal, timer, call, told, started, crashes>>

\* finish(): the result is renamed into place, if there still is a directory.
WorkerFinishes(j) ==
  /\ worker[j] = "waiting"
  /\ command[j] \in Results
  /\ IF j \in DOMAIN dir
       THEN /\ dir' = [dir EXCEPT ![j].result = command[j]]
            /\ worker' = [worker EXCEPT ![j] = "done"]
       ELSE /\ worker' = [worker EXCEPT ![j] = "gone"]
            /\ UNCHANGED dir
  /\ UNCHANGED <<command, signal, timer, call, told, started, crashes>>

\* The process ends: normally, by a signal (the worker handles none), or else.
WorkerEnds(j) ==
  /\ WorkerAlive(j)
  /\ worker' = [worker EXCEPT ![j] = "gone"]
  /\ UNCHANGED <<dir, command, signal, timer, call, told, started, crashes>>

\* SIGKILL ends both.
Killed(j) ==
  /\ signal[j] = "kill"
  /\ WorkerAlive(j) \/ command[j] = "running"
  /\ worker' = [worker EXCEPT ![j] = "gone"]
  /\ command' = [command EXCEPT ![j] = IF @ = "running" THEN "nonzero" ELSE @]
  /\ UNCHANGED <<dir, signal, timer, call, told, started, crashes>>

-----------------------------------------------------------------------------
(* snapshotFromMetadata: the two files in any order, then the process. *)

Looking(c, op, j, marked, knew) ==
  call' = [call EXCEPT ![c] =
    [op |-> op, job |-> j, at |-> "read", unread |-> {"result", "cancelled"},
     result |-> "none", cancelled |-> FALSE, marked |-> marked, knew |-> knew,
     doomed |-> {}, full |-> FALSE]]

\* Mutant: the result counts more than the marker.
StatusByResult(seen, alive) ==
  IF seen.result = "zero" THEN "completed"
  ELSE IF seen.result = "nonzero" THEN "failed"
  ELSE IF seen.cancelled THEN "cancelled"
  ELSE IF alive THEN "running" ELSE "orphaned"

Status(seen, alive) ==
  IF seen.cancelled THEN "cancelled"
  ELSE IF seen.result = "zero" THEN "completed"
  ELSE IF seen.result = "nonzero" THEN "failed"
  ELSE IF alive THEN "running" ELSE "orphaned"

\* When the directory is gone, the stat of the logs throws.
ReadFile(c, f) ==
  LET seen == call[c]  j == seen.job IN
  /\ seen.at = "read"
  /\ f \in seen.unread
  /\ call' = [call EXCEPT ![c] =
       IF j \notin DOMAIN dir THEN NoCall
       ELSE [seen EXCEPT !.unread = @ \ {f},
                         !.at = IF seen.unread = {f} THEN "look" ELSE @,
                         !.result = IF f = "result" THEN dir[j].result ELSE @,
                         !.cancelled = IF f = "cancelled" THEN dir[j].cancelled ELSE @]]
  /\ UNCHANGED <<dir, worker, command, signal, timer, told, started, crashes>>

\* A cancel that finds the job running goes on; every other call answers.
Look(c) ==
  LET seen == call[c]
      j == seen.job
      status == Status(seen, WorkerAlive(j))
  IN
  /\ seen.at = "look"
  /\ IF seen.op = "cancel" /\ ~seen.marked /\ status = "running"
       THEN call' = [call EXCEPT ![c].at = "mark"] /\ UNCHANGED told
       ELSE /\ call' = [call EXCEPT ![c] = NoCall]
            /\ told' = [told EXCEPT ![j] = @ \cup {status}]
  /\ UNCHANGED <<dir, worker, command, signal, timer, started, crashes>>

BeginStatus(c, j) ==
  /\ "status" \in Requests
  /\ call[c] = NoCall
  /\ j \in Described
  /\ Looking(c, "status", j, FALSE, told[j])
  /\ UNCHANGED <<dir, worker, command, signal, timer, told, started, crashes>>

-----------------------------------------------------------------------------
(* cancel: look, leave the marker, signal the group, look again. *)

BeginCancel(c, j) ==
  /\ "cancel" \in Requests
  /\ call[c] = NoCall
  /\ j \in Described
  /\ Looking(c, "cancel", j, FALSE, told[j])
  /\ UNCHANGED <<dir, worker, command, signal, timer, told, started, crashes>>

\* Mutant: the group is left to a second cancel.
MarkOnly(c) ==
  LET j == call[c].job IN
  /\ call[c].at = "mark"
  /\ dir' = IF j \in DOMAIN dir THEN [dir EXCEPT ![j].cancelled = TRUE] ELSE dir
  /\ call' = [call EXCEPT ![c] = NoCall]
  /\ UNCHANGED <<worker, command, signal, timer, told, started, crashes>>

Mark(c) ==
  LET j == call[c].job IN
  /\ call[c].at = "mark"
  /\ IF j \in DOMAIN dir
       THEN /\ dir' = [dir EXCEPT ![j].cancelled = TRUE]
            /\ call' = [call EXCEPT ![c].at = "kill"]
       ELSE call' = [call EXCEPT ![c] = NoCall] /\ UNCHANGED dir
  /\ UNCHANGED <<worker, command, signal, timer, told, started, crashes>>

\* A group that has ended (ESRCH) is as good as signalled.
Kill(c) ==
  LET j == call[c].job IN
  /\ call[c].at = "kill"
  /\ signal' = [signal EXCEPT ![j] = IF @ = "kill" THEN @ ELSE "term"]
  /\ timer' = timer \cup {j}
  /\ Looking(c, "cancel", j, TRUE, call[c].knew)
  /\ UNCHANGED <<dir, worker, command, told, started, crashes>>

\* A second later.  What counts is whether the worker is alive.
ForceKill(j) ==
  /\ j \in timer
  /\ timer' = timer \ {j}
  /\ signal' = [signal EXCEPT ![j] = IF WorkerAlive(j) THEN "kill" ELSE @]
  /\ UNCHANGED <<dir, worker, command, call, told, started, crashes>>

-----------------------------------------------------------------------------
(* start: make room, spawn the worker, describe the job, look. *)

BeginStart(c) ==
  /\ "start" \in Requests
  /\ call[c] = NoCall
  /\ call' = [call EXCEPT ![c] =
       [op |-> "start", job |-> 0, at |-> "prune", unread |-> {}, result |-> "none",
        cancelled |-> FALSE, marked |-> FALSE, knew |-> {}, doomed |-> {}, full |-> FALSE]]
  /\ UNCHANGED <<dir, worker, command, signal, timer, told, started, crashes>>

Ended(j) == Status(dir[j], WorkerAlive(j)) # "running"

\* The scan in pruneTerminalJobs.  A job that has ended stays so: one look at
\* all of them stands for looking at one after the other.
Removable == {j \in Described : Ended(j)}

Excess(jobs) == Cardinality(jobs) - Retained + 1

\* As many jobs that have ended must go as there are too many (the oldest
\* first: the model leaves open which).
Prune(c) ==
  LET excess == Excess(Described) IN
  /\ call[c].at = "prune"
  /\ \E doomed \in SUBSET Removable :
       /\ Cardinality(doomed) <= (IF excess <= 0 THEN 0 ELSE excess)
       /\ Cardinality(doomed) < excess => doomed = Removable
       /\ call' = [call EXCEPT ![c].at = "remove", ![c].doomed = doomed,
                               ![c].full = Cardinality(doomed) < excess]
  /\ UNCHANGED <<dir, worker, command, signal, timer, told, started, crashes>>

\* They are removed one by one; when they were too few, start throws then.
Remove(c) ==
  /\ call[c].at = "remove"
  /\ \/ /\ call[c].doomed = {}
        /\ call' = [call EXCEPT ![c] =
             IF call[c].full THEN NoCall ELSE [@ EXCEPT !.at = "spawn"]]
        /\ UNCHANGED dir
     \/ \E j \in call[c].doomed :
          /\ dir' = [k \in DOMAIN dir \ {j} |-> dir[k]]
          /\ call' = [call EXCEPT ![c].doomed = @ \ {j}]
  /\ UNCHANGED <<worker, command, signal, timer, told, started, crashes>>

Spawn(c) ==
  /\ call[c].at = "spawn"
  /\ started < MaxJobs
  /\ started' = started + 1
  /\ dir' = [j \in DOMAIN dir \cup {started'} |->
               IF j = started' THEN [metadata |-> FALSE, cancelled |-> FALSE, result |-> "none"]
               ELSE dir[j]]
  /\ worker' = [worker EXCEPT ![started'] = "starting"]
  /\ call' = [call EXCEPT ![c].at = "describe", ![c].job = started']
  /\ UNCHANGED <<command, signal, timer, told, crashes>>

Describe(c) ==
  LET j == call[c].job IN
  /\ call[c].at = "describe"
  /\ dir' = [dir EXCEPT ![j].metadata = TRUE]
  /\ Looking(c, "start", j, FALSE, {})
  /\ UNCHANGED <<worker, command, signal, timer, told, started, crashes>>

-----------------------------------------------------------------------------
\* PiLink goes down with its calls and timers; the workers stay.
Crash ==
  /\ crashes < MaxCrashes
  /\ crashes' = crashes + 1
  /\ call' = [c \in Callers |-> NoCall]
  /\ timer' = {}
  /\ UNCHANGED <<dir, worker, command, signal, told, started>>

CallStep(c) ==
  \/ \E f \in {"result", "cancelled"} : ReadFile(c, f)
  \/ Look(c) \/ Mark(c) \/ Kill(c) \/ Prune(c) \/ Remove(c) \/ Spawn(c) \/ Describe(c)

Begin(c) == BeginStart(c) \/ \E j \in Jobs : BeginStatus(c, j) \/ BeginCancel(c, j)

Next ==
  \/ \E j \in Jobs :
       WorkerStarts(j) \/ CommandEnds(j) \/ WorkerFinishes(j) \/ WorkerEnds(j) \/ Killed(j) \/ ForceKill(j)
  \/ \E c \in Callers : Begin(c) \/ CallStep(c)
  \/ Crash

Spec == Init /\ [][Next]_vars

\* Calls and timers run; a worker that has something to do does it, and a
\* process that is killed dies.  Nothing makes a command end, and nothing
\* makes a command heed SIGTERM.
FairSpec ==
  /\ Spec
  /\ \A c \in Callers : WF_vars(CallStep(c))
  /\ \A j \in Jobs :
       /\ WF_vars(WorkerStarts(j)) /\ WF_vars(WorkerFinishes(j)) /\ WF_vars(ForceKill(j)) /\ WF_vars(Killed(j))
       /\ WF_vars(signal[j] = "term" /\ WorkerEnds(j))

-----------------------------------------------------------------------------
(* Safety. *)

\* No caller hears of an end that the command did not come to: "completed" and
\* "failed" are what it really ended with, whatever was read in which order.
ReportsTrue ==
  \A j \in Jobs : /\ "completed" \in told[j] => command[j] = "zero"
                  /\ "failed" \in told[j] => command[j] = "nonzero"

\* A caller that asks after it was said that a job is cancelled, hears the same.
CancelledStays ==
  [][\A c \in Callers :
       call[c] # NoCall /\ call[c].at = "look" /\ "cancelled" \in call[c].knew
         => Status(call[c], WorkerAlive(call[c].job)) = "cancelled"]_call

\* Making room never takes the directory, with the output and the outcome to
\* come, from a job that is running and was not cancelled, whatever happens
\* between the look at the job and its removal.
RunningKept == \A j \in DOMAIN dir \ DOMAIN dir' : Ended(j)

\* Starts that overlap exceed the limit, but by no more than their number.
RetentionBounded == Cardinality(Described) <= Retained + Cardinality(Callers) - 1

-----------------------------------------------------------------------------
(* Liveness. *)

\* The worker of a job that is marked cancelled comes to its end: no outcome is
\* written long after callers were told of the cancellation, as long as PiLink
\* does not crash between the marker and the signal.
CancelReachesWorker ==
  \A j \in Jobs :
    j \in DOMAIN dir /\ dir[j].cancelled ~> worker[j] \in {"done", "gone"} \/ crashes > 0

\* "and escalates to force-kill if necessary" (mcp-core.ts, exec_cancel): the
\* command of a cancelled job comes to an end.
CancelledEnds ==
  \A j \in Jobs : signal[j] # "none" /\ command[j] = "running" ~> command[j] # "running"

=============================================================================
