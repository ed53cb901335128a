------------------------------ MODULE CommandRun ------------------------------
(***************************************************************************)
(* One command of the run tool (executeRunProfile, src/src/run.ts): the    *)
(* process it starts, its deadline and its caller's abort, each of which   *)
(* asks the process to end and a second later forces it.                   *)
(*                                                                         *)
(* A child of the process that keeps the output open stands for the rest   *)
(* of its tree.  Signals go to the whole group, on Windows to the process  *)
(* alone; SIGTERM may be ignored.                                          *)
(***************************************************************************)
EXTENDS Integers

VARIABLES
  windows, stubborn, \* the platform, and who ignores SIGTERM
  call,              \* idle, resolving, running, returned, refused, failed
  aborted,           \* the caller's signal
  process, child,    \* none, alive, gone
  deadline, cancellation,  \* the timers: off, armed, asked (SIGTERM), forced
  sent,              \* the signals that were sent
  result             \* what the caller was told: timedOut and cancelled

runVars == <<windows, stubborn, call, aborted, process, child, deadline, cancellation, sent, result>>

Quietly == [timedOut |-> FALSE, cancelled |-> FALSE]

TypeOK ==
  /\ windows \in BOOLEAN /\ stubborn \subseteq {"process", "child"} /\ aborted \in BOOLEAN
  /\ call \in {"idle", "resolving", "running", "returned", "refused", "failed"}
  /\ {process, child} \subseteq {"none", "alive", "gone"}
  /\ deadline \in {"off", "armed", "asked", "forced"} /\ cancellation \in {"off", "asked", "forced"}
  /\ sent \subseteq {"SIGTERM", "SIGKILL"} /\ result \in [timedOut : BOOLEAN, cancelled : BOOLEAN]

Init ==
  /\ windows \in BOOLEAN /\ stubborn \in SUBSET {"process", "child"}
  /\ call = "idle" /\ aborted = FALSE /\ process = "none" /\ child = "none"
  /\ deadline = "off" /\ cancellation = "off" /\ sent = {} /\ result = Quietly

-----------------------------------------------------------------------------
\* The checks, and the resolution of the directory and the paths.
Begin ==
  /\ call = "idle" /\ call' = IF aborted THEN "refused" ELSE "resolving"
  /\ UNCHANGED <<windows, stubborn, aborted, process, child, deadline, cancellation, sent, result>>

\* The caller has given up, the system cannot start the command, or it runs.
Spawn ==
  /\ call = "resolving"
  /\ \/ /\ call' = IF aborted THEN "refused" ELSE "failed"
        /\ UNCHANGED <<process, deadline>>
     \/ /\ ~aborted /\ call' = "running" /\ process' = "alive"
        /\ deadline' \in {"off", "armed"}
  /\ UNCHANGED <<windows, stubborn, aborted, child, cancellation, sent, result>>

Fork ==
  /\ process = "alive" /\ child = "none" /\ child' = "alive"
  /\ UNCHANGED <<windows, stubborn, call, aborted, process, deadline, cancellation, sent, result>>

End ==
  /\ \/ process = "alive" /\ process' = "gone" /\ child' = child
     \/ child = "alive" /\ child' = "gone" /\ process' = process
  /\ UNCHANGED <<windows, stubborn, call, aborted, deadline, cancellation, sent, result>>

Ends(who, state, signal) ==
  IF state = "alive" /\ (signal = "SIGKILL" \/ who \notin stubborn) THEN "gone" ELSE state

terminateProcessTree(signal) ==
  /\ process' = Ends("process", process, signal)
  /\ child' = IF windows THEN child ELSE Ends("child", child, signal)
  /\ sent' = sent \cup {signal}

\* The second look: a process that has exited is not forced, nor is what it left.
Force ==
  IF process = "alive" THEN terminateProcessTree("SIGKILL") ELSE UNCHANGED <<process, child, sent>>

Deadline ==
  /\ call = "running"
  /\ \/ deadline = "armed" /\ deadline' = "asked" /\ terminateProcessTree("SIGTERM")
     \/ deadline = "asked" /\ deadline' = "forced" /\ Force
  /\ UNCHANGED <<windows, stubborn, call, aborted, cancellation, result>>

\* The listener is there while the process runs.
Abort ==
  /\ ~aborted /\ aborted' = TRUE
  /\ IF call = "running" THEN cancellation' = "asked" /\ terminateProcessTree("SIGTERM")
     ELSE UNCHANGED <<cancellation, process, child, sent>>
  /\ UNCHANGED <<windows, stubborn, call, deadline, result>>

ForceCancelled ==
  /\ call = "running" /\ cancellation = "asked" /\ cancellation' = "forced" /\ Force
  /\ UNCHANGED <<windows, stubborn, call, aborted, deadline, result>>

\* The "close" event: the process has exited and nobody holds its output.
Return ==
  /\ call = "running" /\ process = "gone" /\ child # "alive"
  /\ call' = "returned"
  /\ result' = [timedOut |-> deadline \in {"asked", "forced"}, cancelled |-> cancellation # "off"]
  /\ UNCHANGED <<windows, stubborn, aborted, process, child, deadline, cancellation, sent>>

Next ==
  Begin \/ Spawn \/ Fork \/ End \/ Deadline \/ Abort \/ ForceCancelled \/ Return

RunSpec == Init /\ [][Next]_runVars

-----------------------------------------------------------------------------
(* Properties. *)

\* A result without a reason is that of a command that nobody interrupted, whoever
\* interrupted one is named, and an abort that came first starts nothing.
ResultTrue ==
  /\ call = "returned" => ((result = Quietly) <=> (sent = {})) /\ (result.cancelled => aborted)
  /\ call = "refused" => aborted /\ process = "none"

\* A call that is still out after it was forced waits for what its process left
\* behind: the process itself is gone, whatever it ignores and whichever of the two
\* timers came first.
ForcedIsGone ==
  call = "running" /\ "forced" \in {deadline, cancellation} => process = "gone"
=============================================================================
