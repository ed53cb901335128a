-------------------------- MODULE ExecutionJobsProofs --------------------------
(***************************************************************************)
(* What callers are told of durable jobs is true and final, and making     *)
(* room takes no running job, for any number of callers, jobs and crashes, *)
(* although nothing synchronises PiLink, the workers and their files.      *)
(*                                                                         *)
(* Every read is stale as soon as it is made.  What saves the callers is   *)
(* that each fact that counts, once true, stays true: an outcome, a marker *)
(* of cancellation, the end of a worker, the removal of a directory.       *)
(***************************************************************************)
EXTENDS ExecutionJobs, FiniteSetTheorems, TLAPS

\* The job was cancelled, or its directory is gone with the marker.
Marked(j) == j \notin DOMAIN dir \/ dir[j].cancelled

\* A job that has not begun to run a command; one that does not exist.
Untouched ==
  \A j \in Jobs :
    /\ worker[j] \in {"none", "starting"} => command[j] = "none"
    /\ j <= started <=> worker[j] # "none"
    /\ j > started => told[j] = {}

\* The result file holds the outcome of the command.
FilesTrue == \A j \in DOMAIN dir : dir[j].result \in {"none", command[j]}

\* What a call has read so far, and what its caller knew before.
ReadTrue(seen) ==
  /\ seen.job \in 0 .. started
  /\ seen.job = 0 <=> seen.at \in {"prune", "remove", "spawn"}
  /\ seen.job = 0 => seen.result = "none" /\ ~seen.cancelled /\ seen.knew = {}
  /\ seen.job # 0 =>
       /\ seen.result \in {"none", command[seen.job]}
       /\ seen.cancelled => Marked(seen.job)
       /\ "cancelled" \in seen.knew => Marked(seen.job)
  /\ seen.at = "look" => seen.unread = {}
  /\ seen.at \in {"read", "look"} /\ "cancelled" \in seen.knew
       => "cancelled" \in seen.unread \/ seen.cancelled

ToldTrue ==
  \A j \in Jobs : "cancelled" \in told[j] => Marked(j)

\* A job that is to be removed has ended, if it is still there.
DoomedEnded(seen) ==
  \A j \in seen.doomed : j \in 1 .. started /\ (j \in DOMAIN dir => Ended(j))

(***************************************************************************)
(* The inductive invariant: ReportsTrue alone says nothing of the files    *)
(* and of what callers have already read.                                  *)
(***************************************************************************)
JobsInv ==
  /\ TypeOK
  /\ Untouched
  /\ FilesTrue
  /\ \A c \in Callers : call[c] # NoCall => ReadTrue(call[c]) /\ DoomedEnded(call[c])
  /\ ToldTrue
  /\ ReportsTrue

LEMMA JobsFacts ==
  ASSUME JobAssumption
  PROVE  /\ MaxJobs \in Nat \ {0} /\ MaxCrashes \in Nat
         /\ NoCall \notin Call
         /\ NoCall.at = "idle"
BY DEF JobAssumption, Call, NoCall

LEMMA InitJobs ==
  ASSUME JobAssumption
  PROVE  Init => JobsInv
BY DEF JobAssumption, Init, JobsInv, TypeOK, Untouched, FilesTrue, ToldTrue, ReportsTrue, Jobs

-----------------------------------------------------------------------------
(* Type correctness. *)

\* A caller that is somewhere is in a call.
LEMMA InCall ==
  ASSUME JobAssumption, TypeOK, NEW c \in Callers, call[c].at \in Points
  PROVE  call[c] \in Call /\ call[c] # NoCall
<1>1. call[c] \in Call \cup {NoCall} BY DEF TypeOK
<1> QED BY <1>1, JobsFacts DEF Points

\* A call that looks at a job.
LooksAt(c, j, knew) ==
  /\ call'[c].job = j /\ call'[c].at = "read" /\ call'[c].result = "none"
  /\ call'[c].cancelled = FALSE /\ call'[c].knew = knew /\ call'[c].doomed = {}
  /\ call'[c].unread = {"result", "cancelled"}
  /\ \A d \in Callers \ {c} : call'[d] = call[d]

LEMMA LookingTyped ==
  ASSUME JobAssumption, TypeOK, NEW c \in Callers, NEW op \in Operations, NEW j \in Jobs,
         NEW marked \in BOOLEAN, NEW knew \in SUBSET States, Looking(c, op, j, marked, knew)
  PROVE  /\ call' \in [Callers -> Call \cup {NoCall}]
         /\ LooksAt(c, j, knew)
<1> DEFINE new == [op |-> op, job |-> j, at |-> "read", unread |-> {"result", "cancelled"},
                   result |-> "none", cancelled |-> FALSE, marked |-> marked, knew |-> knew,
                   doomed |-> {}, full |-> FALSE]
<1>1. new \in Call BY JobsFacts DEF Call, Points, Jobs
<1>2. call' = [call EXCEPT ![c] = new] BY DEF Looking
<1>3. /\ new.job = j /\ new.at = "read" /\ new.result = "none" /\ new.cancelled = FALSE
      /\ new.knew = knew /\ new.doomed = {} /\ new.unread = {"result", "cancelled"}
  OBVIOUS
<1> HIDE DEF new
<1> QED BY <1>1, <1>2, <1>3 DEF TypeOK, LooksAt

LEMMA StatusTyped == \A seen, alive : Status(seen, alive) \in States
BY DEF Status, States

LEMMA ProcessesTyped ==
  ASSUME TypeOK, NEW j \in Jobs,
         WorkerStarts(j) \/ CommandEnds(j) \/ WorkerFinishes(j) \/ WorkerEnds(j) \/ Killed(j) \/ ForceKill(j)
  PROVE  TypeOK'
<1>1. CASE WorkerStarts(j) BY <1>1 DEF TypeOK, WorkerStarts
<1>2. CASE CommandEnds(j) BY <1>2 DEF TypeOK, CommandEnds
<1>3. CASE WorkerFinishes(j)
  <2>1. DOMAIN dir' = DOMAIN dir /\ dir' \in [DOMAIN dir -> Directory]
    BY <1>3 DEF TypeOK, WorkerFinishes, Directory
  <2> QED BY <1>3, <2>1 DEF TypeOK, WorkerFinishes
<1>4. CASE WorkerEnds(j) BY <1>4 DEF TypeOK, WorkerEnds
<1>5. CASE Killed(j) BY <1>5 DEF TypeOK, Killed, Results
<1>6. CASE ForceKill(j) BY <1>6 DEF TypeOK, ForceKill
<1> QED BY <1>1, <1>2, <1>3, <1>4, <1>5, <1>6

LEMMA BeginTyped ==
  ASSUME JobAssumption, TypeOK, NEW c \in Callers, Begin(c)
  PROVE  TypeOK'
<1>1. CASE BeginStart(c)
  <2>1. [op |-> "start", job |-> 0, at |-> "prune", unread |-> {}, result |-> "none",
         cancelled |-> FALSE, marked |-> FALSE, knew |-> {}, doomed |-> {}, full |-> FALSE] \in Call
    BY JobsFacts DEF Call, Points, Operations
  <2> QED BY <1>1, <2>1 DEF TypeOK, BeginStart
<1>2. ASSUME NEW j \in Jobs, BeginStatus(c, j) \/ BeginCancel(c, j) PROVE TypeOK'
  <2>1. Looking(c, "status", j, FALSE, told[j]) \/ Looking(c, "cancel", j, FALSE, told[j])
    BY <1>2 DEF BeginStatus, BeginCancel
  <2>2. told[j] \in SUBSET States BY DEF TypeOK
  <2>3. call' \in [Callers -> Call \cup {NoCall}]
    BY <2>1, <2>2, LookingTyped DEF Operations
  <2> QED BY <1>2, <2>3 DEF TypeOK, BeginStatus, BeginCancel
<1> QED BY <1>1, <1>2 DEF Begin

LEMMA ReadFileTyped ==
  ASSUME JobAssumption, TypeOK, NEW c \in Callers, NEW f \in {"result", "cancelled"}, ReadFile(c, f)
  PROVE  TypeOK'
<1>1. call[c] \in Call /\ call[c] # NoCall BY InCall DEF ReadFile, Points
<1>2. call' \in [Callers -> Call \cup {NoCall}]
  <2>1. CASE call[c].job \notin DOMAIN dir BY <2>1 DEF ReadFile, TypeOK
  <2>2. CASE call[c].job \in DOMAIN dir
    <3> DEFINE new == [call[c] EXCEPT !.unread = @ \ {f},
                         !.at = IF call[c].unread = {f} THEN "look" ELSE @,
                         !.result = IF f = "result" THEN dir[call[c].job].result ELSE @,
                         !.cancelled = IF f = "cancelled" THEN dir[call[c].job].cancelled ELSE @]
    <3>1. dir[call[c].job] \in Directory BY <2>2 DEF TypeOK
    <3>2. new \in Call BY <1>1, <3>1 DEF Call, Directory, Points
    <3>3. call' = [call EXCEPT ![c] = new] BY <2>2 DEF ReadFile
    <3> HIDE DEF new
    <3> QED BY <3>2, <3>3 DEF TypeOK
  <2> QED BY <2>1, <2>2
<1> QED BY <1>2 DEF TypeOK, ReadFile

LEMMA CancelTyped ==
  ASSUME JobAssumption, TypeOK, NEW c \in Callers, Look(c) \/ Mark(c) \/ Kill(c), call[c].job \in 1 .. started
  PROVE  TypeOK'
<1>1. call[c] \in Call /\ call[c] # NoCall BY InCall DEF Look, Mark, Kill, Points
<1> DEFINE j == call[c].job
<1>2. j \in Jobs BY JobsFacts DEF TypeOK, Jobs
<1>3. CASE Look(c)
  <2>1. call' \in [Callers -> Call \cup {NoCall}]
    <3>1. CASE call' = [call EXCEPT ![c].at = "mark"]
      <4>1. [call[c] EXCEPT !.at = "mark"] \in Call BY <1>1 DEF Call, Points
      <4> QED BY <3>1, <4>1 DEF TypeOK
    <3>2. CASE call' = [call EXCEPT ![c] = NoCall] BY <3>2 DEF TypeOK
    <3> QED BY <1>3, <3>1, <3>2 DEF Look
  <2>2. told' \in [Jobs -> SUBSET States] BY <1>2, <1>3, StatusTyped DEF TypeOK, Look
  <2> QED BY <1>3, <2>1, <2>2 DEF TypeOK, Look
<1>4. CASE Mark(c)
  <2>1. call' \in [Callers -> Call \cup {NoCall}]
    <3>1. CASE call' = [call EXCEPT ![c].at = "kill"]
      <4>1. [call[c] EXCEPT !.at = "kill"] \in Call BY <1>1 DEF Call, Points
      <4> QED BY <3>1, <4>1 DEF TypeOK
    <3>2. CASE call' = [call EXCEPT ![c] = NoCall] BY <3>2 DEF TypeOK
    <3> QED BY <1>4, <3>1, <3>2 DEF Mark
  <2>2. DOMAIN dir' = DOMAIN dir /\ dir' \in [DOMAIN dir -> Directory]
    BY ZenonT(60), <1>4 DEF TypeOK, Mark, Directory
  <2> QED BY <1>4, <2>1, <2>2 DEF TypeOK, Mark
<1>5. CASE Kill(c)
  <2>1. call[c].knew \in SUBSET States BY <1>1 DEF Call
  <2>2. Looking(c, "cancel", j, TRUE, call[c].knew) BY <1>5 DEF Kill
  <2>3. call' \in [Callers -> Call \cup {NoCall}]
    BY <1>2, <2>1, <2>2, LookingTyped DEF Operations
  <2> QED BY <1>2, <1>5, <2>3 DEF TypeOK, Kill
<1> QED BY <1>3, <1>4, <1>5

LEMMA StartTyped ==
  ASSUME JobAssumption, TypeOK, NEW c \in Callers, Prune(c) \/ Remove(c) \/ Spawn(c) \/ Describe(c),
         call[c].at = "describe" => call[c].job \in 1 .. started
  PROVE  TypeOK'
<1>1. call[c] \in Call /\ call[c] # NoCall BY InCall DEF Prune, Remove, Spawn, Describe, Points
<1>2. 1 .. started \subseteq Jobs /\ DOMAIN dir \subseteq Jobs BY JobsFacts DEF TypeOK, Jobs
<1>3. CASE Prune(c)
  <2>1. PICK doomed \in SUBSET Removable :
          call' = [call EXCEPT ![c].at = "remove", ![c].doomed = doomed,
                               ![c].full = Cardinality(doomed) < Excess(Described)]
    BY <1>3 DEF Prune
  <2> DEFINE full == Cardinality(doomed) < Excess(Described)
             new == [call[c] EXCEPT !.at = "remove", !.doomed = doomed, !.full = full]
  <2>2. doomed \in SUBSET Jobs BY <1>2 DEF Removable, Described
  <2>3. full \in BOOLEAN OBVIOUS
  <2> HIDE DEF full
  <2>4. new \in Call BY <1>1, <2>2, <2>3 DEF Call, Points
  <2>5. call' = [call EXCEPT ![c] = new] BY <2>1, <1>1 DEF full, TypeOK
  <2> HIDE DEF new
  <2>6. call' \in [Callers -> Call \cup {NoCall}] BY <2>4, <2>5 DEF TypeOK
  <2> QED BY <1>3, <2>6 DEF TypeOK, Prune
<1>4. CASE Remove(c)
  <2>1. CASE call[c].doomed = {}
    <3>1. [call[c] EXCEPT !.at = "spawn"] \in Call BY <1>1 DEF Call, Points
    <3>2. call' \in [Callers -> Call \cup {NoCall}] /\ UNCHANGED dir
      BY <1>4, <2>1, <3>1 DEF TypeOK, Remove
    <3> QED BY <1>4, <3>2 DEF TypeOK, Remove
  <2>2. CASE call[c].doomed # {}
    <3>1. PICK j \in call[c].doomed :
            /\ dir' = [k \in DOMAIN dir \ {j} |-> dir[k]]
            /\ call' = [call EXCEPT ![c].doomed = @ \ {j}]
      BY <1>4, <2>2 DEF Remove
    <3>2. [call[c] EXCEPT !.doomed = @ \ {j}] \in Call BY <1>1 DEF Call
    <3>3. call' \in [Callers -> Call \cup {NoCall}] BY <3>1, <3>2 DEF TypeOK
    <3>4. DOMAIN dir' \subseteq DOMAIN dir /\ dir' \in [DOMAIN dir' -> Directory]
      BY <3>1 DEF TypeOK
    <3> QED BY <1>4, <3>3, <3>4 DEF TypeOK, Remove
  <2> QED BY <2>1, <2>2
<1>5. CASE Spawn(c)
  <2> DEFINE id == started + 1
  <2>1. id \in Jobs /\ id \notin DOMAIN dir /\ started' = id /\ started' \in 0 .. MaxJobs
    BY <1>5, JobsFacts DEF TypeOK, Spawn, Jobs
  <2>2. [call[c] EXCEPT !.at = "describe", !.job = id] \in Call
    BY <1>1, <2>1, JobsFacts DEF Call, Points, Jobs
  <2>3. call' \in [Callers -> Call \cup {NoCall}] BY <1>5, <2>1, <2>2 DEF TypeOK, Spawn
  <2>4. [metadata |-> FALSE, cancelled |-> FALSE, result |-> "none"] \in Directory
    BY DEF Directory
  <2>5. dir' \in [DOMAIN dir' -> Directory] /\ DOMAIN dir' = DOMAIN dir \cup {id}
    BY <1>5, <2>1, <2>4 DEF TypeOK, Spawn
  <2>6. DOMAIN dir' \subseteq 1 .. started' BY <2>1, <2>5 DEF TypeOK
  <2>7. worker' \in [Jobs -> {"none", "starting", "waiting", "done", "gone"}]
    BY <1>5, <2>1 DEF TypeOK, Spawn
  <2> QED BY <1>5, <2>1, <2>3, <2>5, <2>6, <2>7 DEF TypeOK, Spawn
<1>6. CASE Describe(c)
  <2> DEFINE j == call[c].job
  <2>1. j \in Jobs BY <1>2, <1>6 DEF Describe
  <2>2. Looking(c, "start", j, FALSE, {}) BY <1>6 DEF Describe
  <2>3. {} \in SUBSET States OBVIOUS
  <2>4. call' \in [Callers -> Call \cup {NoCall}]
    BY <2>1, <2>2, <2>3, LookingTyped DEF Operations
  <2>5. DOMAIN dir' = DOMAIN dir /\ dir' \in [DOMAIN dir -> Directory]
    BY <1>6 DEF TypeOK, Describe, Directory
  <2>6. DOMAIN dir' \subseteq 1 .. started' /\ dir' \in [DOMAIN dir' -> Directory]
    BY <1>6, <2>5 DEF TypeOK, Describe
  <2> QED BY <1>6, <2>4, <2>6 DEF TypeOK, Describe
<1> QED BY <1>3, <1>4, <1>5, <1>6

LEMMA TypeKept ==
  ASSUME JobAssumption, JobsInv, Next
  PROVE  TypeOK'
<1>1. TypeOK BY DEF JobsInv
<1>2. CASE Crash BY <1>1, <1>2, JobsFacts DEF TypeOK, Crash
<1>3. ASSUME NEW j \in Jobs,
             WorkerStarts(j) \/ CommandEnds(j) \/ WorkerFinishes(j) \/ WorkerEnds(j) \/ Killed(j) \/ ForceKill(j)
      PROVE  TypeOK'
  BY <1>1, <1>3, ProcessesTyped
<1>4. ASSUME NEW c \in Callers, Begin(c) PROVE TypeOK' BY <1>1, <1>4, BeginTyped
<1>5. ASSUME NEW c \in Callers, CallStep(c) PROVE TypeOK'
  <2>1. call[c].at \in {"look", "mark", "kill", "describe"} => call[c].job \in 1 .. started
    BY <1>1, InCall DEF JobsInv, ReadTrue, Points
  <2>2. CASE \E f \in {"result", "cancelled"} : ReadFile(c, f) BY <1>1, <2>2, ReadFileTyped
  <2>3. CASE Look(c) \/ Mark(c) \/ Kill(c)
    BY <1>1, <2>1, <2>3, CancelTyped DEF Look, Mark, Kill
  <2>4. CASE Prune(c) \/ Remove(c) \/ Spawn(c) \/ Describe(c) BY <1>1, <2>1, <2>4, StartTyped
  <2> QED BY <1>5, <2>2, <2>3, <2>4 DEF CallStep
<1> QED BY <1>2, <1>3, <1>4, <1>5 DEF Next

-----------------------------------------------------------------------------
(* What is known stays true. *)

\* No step takes back an outcome, a marker, the end of a worker or a removal.
Grows ==
  /\ started <= started'
  /\ \A j \in Jobs : command[j] \in Results => command'[j] = command[j]
  /\ \A j \in 1 .. started : ~WorkerAlive(j) => ~WorkerAlive(j)'
  /\ \A j \in 1 .. started : j \in DOMAIN dir' =>
       /\ j \in DOMAIN dir
       /\ dir[j].cancelled => dir'[j].cancelled
       /\ dir[j].result # "none" => dir'[j].result # "none"

LEMMA EndedMeans ==
  ASSUME NEW seen \in [cancelled : BOOLEAN, result : Results \cup {"none"}], NEW alive \in BOOLEAN
  PROVE  Status(seen, alive) # "running" <=> seen.cancelled \/ seen.result # "none" \/ ~alive
BY DEF Status, Results

LEMMA EndedOf ==
  ASSUME TypeOK, NEW j \in DOMAIN dir
  PROVE  Ended(j) <=> dir[j].cancelled \/ dir[j].result # "none" \/ ~WorkerAlive(j)
<1>1. dir[j].cancelled \in BOOLEAN /\ dir[j].result \in Results \cup {"none"}
  BY DEF TypeOK, Directory
<1> DEFINE alive == WorkerAlive(j)
<1>2. alive \in BOOLEAN BY DEF WorkerAlive
<1> HIDE DEF alive
<1>3. Status(dir[j], alive) # "running" <=> dir[j].cancelled \/ dir[j].result # "none" \/ ~alive
  BY <1>1, <1>2 DEF Status, Results
<1> QED BY <1>3 DEF Ended, alive

LEMMA MarkedStays ==
  ASSUME TypeOK, Grows, NEW j \in 1 .. started, Marked(j)
  PROVE  Marked(j)'
BY DEF Grows, Marked

LEMMA EndedStays ==
  ASSUME TypeOK, TypeOK', Grows, NEW j \in 1 .. started, j \in DOMAIN dir => Ended(j)
  PROVE  (j \in DOMAIN dir => Ended(j))'
<1> SUFFICES ASSUME j \in DOMAIN dir' PROVE Ended(j)' OBVIOUS
<1>1. j \in DOMAIN dir /\ Ended(j) BY DEF Grows
<1>2. dir[j].cancelled \/ dir[j].result # "none" \/ ~WorkerAlive(j) BY <1>1, EndedOf
<1>3. (dir[j].cancelled \/ dir[j].result # "none" \/ ~WorkerAlive(j))'
  BY <1>1, <1>2 DEF Grows
<1>4. (Ended(j) <=> dir[j].cancelled \/ dir[j].result # "none" \/ ~WorkerAlive(j))'
  <2>1. TypeOK' /\ j \in DOMAIN dir' OBVIOUS
  <2>2. (TypeOK /\ j \in DOMAIN dir => (Ended(j) <=> dir[j].cancelled \/ dir[j].result # "none" \/ ~WorkerAlive(j)))'
    BY EndedOf, PTL
  <2> QED BY <2>1, <2>2
<1> QED BY <1>3, <1>4

\* What a call has read, and whom it dooms, stays true while others act.
LEMMA CallStays ==
  ASSUME JobAssumption, TypeOK, TypeOK', Grows, NEW seen \in Call, ReadTrue(seen), DoomedEnded(seen)
  PROVE  ReadTrue(seen)' /\ DoomedEnded(seen)'
<1>1. started \in Nat /\ started' \in Nat /\ started <= started' BY JobsFacts DEF TypeOK, Grows
<1>2. ReadTrue(seen)'
  <2>1. seen.job \in 0 .. started' BY <1>1 DEF ReadTrue
  <2>2. ASSUME seen.job # 0
        PROVE  /\ seen.result \in {"none", command'[seen.job]}
               /\ seen.cancelled => Marked(seen.job)'
               /\ "cancelled" \in seen.knew => Marked(seen.job)'
    <3>1. seen.result \in Results \cup {"none"} BY DEF Call
    <3>2. seen.job \in 1 .. started /\ seen.job \in Jobs
      BY <1>1, <2>2, JobsFacts DEF ReadTrue, Jobs, TypeOK
    <3>3. seen.result \in {"none", command'[seen.job]}
      BY <2>2, <3>1, <3>2 DEF ReadTrue, Grows
    <3>4. Marked(seen.job) => Marked(seen.job)' BY <3>2, MarkedStays
    <3> QED BY <2>2, <3>3, <3>4 DEF ReadTrue
  <2> QED BY <2>1, <2>2 DEF ReadTrue
<1>3. DoomedEnded(seen)'
  <2> SUFFICES ASSUME NEW j \in seen.doomed
               PROVE  j \in 1 .. started' /\ (j \in DOMAIN dir => Ended(j))'
    BY DEF DoomedEnded
  <2>1. j \in 1 .. started /\ (j \in DOMAIN dir => Ended(j)) BY DEF DoomedEnded
  <2> QED BY <1>1, <2>1, EndedStays
<1> QED BY <1>2, <1>3

-----------------------------------------------------------------------------
(* Each step keeps what is known, and the facts about files and processes. *)

Kept == Grows /\ Untouched' /\ FilesTrue'

\* The same directory and processes.
LEMMA StillKept ==
  ASSUME JobAssumption, JobsInv, UNCHANGED <<dir, worker, command, started>>,
         told' = told \/ \E j \in 1 .. started, new \in SUBSET States : told' = [told EXCEPT ![j] = new]
  PROVE  Kept
<1>1. TypeOK /\ Untouched /\ FilesTrue BY DEF JobsInv
<1>2. started \in Nat BY <1>1, JobsFacts DEF TypeOK
<1>3. Grows BY <1>2 DEF Grows, WorkerAlive
<1>4. ASSUME NEW j \in Jobs, j > started PROVE told'[j] = told[j]
  <2>1. \A k \in 1 .. started : k # j BY <1>2, <1>4, JobsFacts DEF Jobs
  <2>2. ASSUME NEW k \in 1 .. started, NEW new, told' = [told EXCEPT ![k] = new]
        PROVE  told'[j] = told[j]
    BY <1>1, <2>1, <2>2 DEF TypeOK
  <2> QED BY <2>2
<1>5. Untouched' BY <1>1, <1>4 DEF Untouched
<1>6. FilesTrue' BY <1>1 DEF FilesTrue
<1> QED BY <1>3, <1>5, <1>6 DEF Kept

LEMMA ProcessesKeep ==
  ASSUME JobAssumption, JobsInv, NEW j \in Jobs,
         WorkerStarts(j) \/ CommandEnds(j) \/ WorkerFinishes(j) \/ WorkerEnds(j) \/ Killed(j) \/ ForceKill(j)
  PROVE  Kept /\ UNCHANGED <<call, told>>
<1>1. TypeOK /\ Untouched /\ FilesTrue BY DEF JobsInv
<1>2. started \in Nat /\ MaxJobs \in Nat /\ DOMAIN dir \subseteq 1 .. started /\ DOMAIN dir \subseteq Jobs
      /\ 1 .. started \subseteq Jobs
  BY <1>1, JobsFacts DEF TypeOK, Jobs
<1>3. UNCHANGED <<call, told, started>>
  BY DEF WorkerStarts, CommandEnds, WorkerFinishes, WorkerEnds, Killed, ForceKill
<1>4. CASE WorkerStarts(j)
  <2>1. Grows BY <1>1, <1>2, <1>3, <1>4 DEF Grows, WorkerStarts, WorkerAlive, TypeOK, Untouched, Results
  <2>2. Untouched' BY <1>1, <1>2, <1>3, <1>4 DEF WorkerStarts, Untouched, TypeOK
  <2>3. FilesTrue'
    <3> SUFFICES ASSUME NEW k \in DOMAIN dir PROVE dir[k].result \in {"none", command'[k]}
      BY <1>4 DEF WorkerStarts, FilesTrue
    <3>1. dir[k].result \in Results \cup {"none"} BY <1>1 DEF TypeOK, Directory
    <3>2. dir[k].result \in {"none", command[k]} BY <1>1 DEF FilesTrue
    <3>3. k = j => command[k] = "none" BY <1>1, <1>4 DEF WorkerStarts, Untouched
    <3> QED BY <1>1, <1>2, <1>4, <3>1, <3>2, <3>3 DEF WorkerStarts, TypeOK, Results
  <2> QED BY <1>3, <2>1, <2>2, <2>3 DEF Kept
<1>5. CASE CommandEnds(j)
  <2>1. Grows BY <1>1, <1>2, <1>3, <1>5 DEF Grows, CommandEnds, WorkerAlive, TypeOK, Results
  <2>2. Untouched' BY <1>1, <1>2, <1>3, <1>5 DEF CommandEnds, Untouched, TypeOK
  <2>3. FilesTrue'
    <3> SUFFICES ASSUME NEW k \in DOMAIN dir PROVE dir[k].result \in {"none", command'[k]}
      BY <1>5 DEF CommandEnds, FilesTrue
    <3>1. dir[k].result \in Results \cup {"none"} BY <1>1 DEF TypeOK, Directory
    <3>2. dir[k].result \in {"none", command[k]} BY <1>1 DEF FilesTrue
    <3> QED BY <1>1, <1>2, <1>5, <3>1, <3>2 DEF CommandEnds, TypeOK, Results
  <2> QED BY <1>3, <2>1, <2>2, <2>3 DEF Kept
<1>6. CASE WorkerFinishes(j)
  <2>1. DOMAIN dir' = DOMAIN dir BY <1>6 DEF WorkerFinishes
  <2>2. \A k \in DOMAIN dir : dir'[k].cancelled = dir[k].cancelled
                              /\ dir'[k].result = IF k = j THEN command[j] ELSE dir[k].result
    <3> TAKE k \in DOMAIN dir
    <3>1. dir[k] \in Directory BY <1>1 DEF TypeOK
    <3> QED BY <1>6, <3>1 DEF WorkerFinishes, Directory
  <2>3. command' = command /\ command[j] \in Results /\ "none" \notin Results
    BY <1>6 DEF WorkerFinishes, Results
  <2>4. Grows BY <1>1, <1>2, <1>3, <1>6, <2>1, <2>2, <2>3 DEF Grows, WorkerFinishes, WorkerAlive, TypeOK
  <2>5. Untouched' BY <1>1, <1>2, <1>3, <1>6 DEF WorkerFinishes, Untouched, TypeOK
  <2>6. FilesTrue' BY <1>1, <2>1, <2>2, <2>3 DEF FilesTrue
  <2> QED BY <1>3, <2>4, <2>5, <2>6 DEF Kept
<1>7. CASE WorkerEnds(j)
  <2>1. Grows BY <1>1, <1>2, <1>3, <1>7 DEF Grows, WorkerEnds, WorkerAlive, TypeOK, Results
  <2>2. Untouched' BY <1>1, <1>2, <1>3, <1>7 DEF WorkerEnds, WorkerAlive, Untouched, TypeOK
  <2>3. FilesTrue' BY <1>1, <1>7 DEF WorkerEnds, FilesTrue
  <2> QED BY <1>3, <2>1, <2>2, <2>3 DEF Kept
<1>8. CASE Killed(j)
  <2>1. Grows BY <1>1, <1>2, <1>3, <1>8 DEF Grows, Killed, WorkerAlive, TypeOK, Results
  <2>2. worker[j] # "none" BY <1>1, <1>8 DEF Killed, Untouched, WorkerAlive
  <2>3. Untouched' BY <1>1, <1>2, <1>3, <1>8, <2>2 DEF Killed, Untouched, TypeOK
  <2>4. FilesTrue'
    <3> SUFFICES ASSUME NEW k \in DOMAIN dir PROVE dir[k].result \in {"none", command'[k]}
      BY <1>8 DEF Killed, FilesTrue
    <3>1. dir[k].result \in Results \cup {"none"} BY <1>1 DEF TypeOK, Directory
    <3>2. dir[k].result \in {"none", command[k]} BY <1>1 DEF FilesTrue
    <3> QED BY <1>1, <1>2, <1>8, <3>1, <3>2 DEF Killed, TypeOK, Results
  <2> QED BY <1>3, <2>1, <2>3, <2>4 DEF Kept
<1>9. CASE ForceKill(j)
  <2>1. UNCHANGED <<dir, worker, command, started, told>> BY <1>9 DEF ForceKill
  <2> QED BY <1>3, <2>1, StillKept
<1> QED BY <1>4, <1>5, <1>6, <1>7, <1>8, <1>9

-----------------------------------------------------------------------------
(* The steps of callers. *)

Sound(c) == call[c] # NoCall => ReadTrue(call[c]) /\ DoomedEnded(call[c])

\* What the caller is told is so.
Rightly(j, status) ==
  /\ status = "cancelled" => Marked(j)
  /\ status = "completed" => command[j] = "zero"
  /\ status = "failed" => command[j] = "nonzero"

Acts(c) ==
  /\ Kept
  /\ \A d \in Callers \ {c} : call'[d] = call[d]
  /\ Sound(c)'
  /\ \/ told' = told
     \/ \E j \in 1 .. started, status \in States :
          Rightly(j, status) /\ told' = [told EXCEPT ![j] = @ \cup {status}]

\* A call that begins to look at a job is sound.
LEMMA LookingActs ==
  ASSUME JobAssumption, JobsInv, TypeOK', Kept, told' = told, NEW c \in Callers, NEW op \in Operations,
         NEW j \in 1 .. started,
         NEW marked \in BOOLEAN, NEW knew \in SUBSET States, Looking(c, op, j, marked, knew),
         "cancelled" \in knew => Marked(j)
  PROVE  Acts(c)
<1>1. TypeOK BY DEF JobsInv
<1>2. started \in Nat /\ started' \in Nat /\ started <= started' /\ j \in Jobs
  BY <1>1, JobsFacts DEF TypeOK, Kept, Grows, Jobs
<1>3. LooksAt(c, j, knew) BY <1>1, <1>2, LookingTyped
<1>4. "cancelled" \in knew => Marked(j)' BY <1>1, MarkedStays DEF Kept
<1>5. ReadTrue(call[c])' BY <1>2, <1>3, <1>4 DEF ReadTrue, LooksAt
<1>6. DoomedEnded(call[c])' BY <1>3 DEF DoomedEnded, LooksAt
<1> QED BY <1>3, <1>5, <1>6 DEF Acts, Sound, LooksAt

LEMMA BeginActs ==
  ASSUME JobAssumption, JobsInv, TypeOK', NEW c \in Callers, Begin(c)
  PROVE  Acts(c)
<1>1. TypeOK /\ ToldTrue BY DEF JobsInv
<1>2. UNCHANGED <<dir, worker, command, told, started>>
  BY DEF Begin, BeginStart, BeginStatus, BeginCancel
<1>3. Kept BY <1>2, StillKept
<1>4. CASE BeginStart(c)
  <2> DEFINE new == [op |-> "start", job |-> 0, at |-> "prune", unread |-> {}, result |-> "none",
                     cancelled |-> FALSE, marked |-> FALSE, knew |-> {}, doomed |-> {}, full |-> FALSE]
  <2>1. call' = [call EXCEPT ![c] = new] BY <1>4 DEF BeginStart
  <2>2. /\ new.job = 0 /\ new.at = "prune" /\ new.doomed = {}
        /\ new.result = "none" /\ ~new.cancelled /\ new.knew = {}
    OBVIOUS
  <2> HIDE DEF new
  <2>3. call'[c] = new /\ \A d \in Callers \ {c} : call'[d] = call[d] BY <1>1, <2>1 DEF TypeOK
  <2>4. started' \in Nat BY <1>1, <1>2, JobsFacts DEF TypeOK
  <2>5. Sound(c)' BY <2>2, <2>3, <2>4 DEF Sound, ReadTrue, DoomedEnded
  <2> QED BY <1>2, <1>3, <2>3, <2>5 DEF Acts
<1>5. ASSUME NEW j \in Jobs, BeginStatus(c, j) \/ BeginCancel(c, j) PROVE Acts(c)
  <2>1. j \in 1 .. started BY <1>1, <1>5 DEF TypeOK, BeginStatus, BeginCancel, Described
  <2>2. told[j] \in SUBSET States BY <1>1 DEF TypeOK
  <2>3. "cancelled" \in told[j] => Marked(j) BY <1>1 DEF ToldTrue
  <2>4. CASE BeginStatus(c, j)
    <3>1. Looking(c, "status", j, FALSE, told[j]) BY <2>4 DEF BeginStatus
    <3> QED BY <1>2, <1>3, <2>1, <2>2, <2>3, <3>1, LookingActs DEF Operations
  <2>5. CASE BeginCancel(c, j)
    <3>1. Looking(c, "cancel", j, FALSE, told[j]) BY <2>5 DEF BeginCancel
    <3> QED BY <1>2, <1>3, <2>1, <2>2, <2>3, <3>1, LookingActs DEF Operations
  <2> QED BY <1>5, <2>4, <2>5
<1> QED BY <1>4, <1>5 DEF Begin

\* A call that ends is sound.
LEMMA EndActs ==
  ASSUME JobsInv, Kept, NEW c \in Callers, call' = [call EXCEPT ![c] = NoCall],
         \/ told' = told
         \/ \E j \in 1 .. started, status \in States :
              Rightly(j, status) /\ told' = [told EXCEPT ![j] = @ \cup {status}]
  PROVE  Acts(c)
<1>1. call'[c] = NoCall /\ \A d \in Callers \ {c} : call'[d] = call[d]
  BY DEF JobsInv, TypeOK
<1> QED BY <1>1 DEF Acts, Sound

LEMMA ReadFileActs ==
  ASSUME JobAssumption, JobsInv, TypeOK', NEW c \in Callers, NEW f \in {"result", "cancelled"}, ReadFile(c, f)
  PROVE  Acts(c)
<1> DEFINE seen == call[c]
           j == seen.job
<1>1. TypeOK /\ FilesTrue BY DEF JobsInv
<1>2. UNCHANGED <<dir, worker, command, told, started>> BY DEF ReadFile
<1>3. Kept BY <1>2, StillKept
<1>4. seen \in Call /\ seen # NoCall BY <1>1, InCall DEF ReadFile, Points
<1>5. ReadTrue(seen) /\ DoomedEnded(seen) BY <1>4 DEF JobsInv
<1>6. CASE j \notin DOMAIN dir
  <2>1. call' = [call EXCEPT ![c] = NoCall] BY <1>6 DEF ReadFile
  <2> QED BY <1>2, <1>3, <2>1, EndActs
<1>7. CASE j \in DOMAIN dir
  <2> DEFINE new == [seen EXCEPT !.unread = @ \ {f},
                       !.at = IF seen.unread = {f} THEN "look" ELSE @,
                       !.result = IF f = "result" THEN dir[j].result ELSE @,
                       !.cancelled = IF f = "cancelled" THEN dir[j].cancelled ELSE @]
  <2>1. call' = [call EXCEPT ![c] = new] BY <1>7 DEF ReadFile
  <2>2. /\ new.job = j /\ new.knew = seen.knew /\ new.doomed = seen.doomed
        /\ new.unread = seen.unread \ {f}
        /\ new.at = IF seen.unread = {f} THEN "look" ELSE seen.at
        /\ new.result = IF f = "result" THEN dir[j].result ELSE seen.result
        /\ new.cancelled = IF f = "cancelled" THEN dir[j].cancelled ELSE seen.cancelled
    BY <1>4 DEF Call
  <2> HIDE DEF new
  <2>3. call'[c] = new /\ \A d \in Callers \ {c} : call'[d] = call[d] BY <1>1, <2>1 DEF TypeOK
  <2>4. seen.at = "read" BY DEF ReadFile
  <2>5. dir[j].result \in {"none", command[j]} BY <1>1, <1>7 DEF FilesTrue
  <2>6. f = "cancelled" /\ "cancelled" \in seen.knew => dir[j].cancelled
    BY <1>5, <1>7, <2>4 DEF ReadTrue, Marked
  <2>7. dir[j].cancelled => Marked(j) BY DEF Marked
  <2>8. ReadTrue(new) BY <1>5, <2>2, <2>4, <2>5, <2>6, <2>7 DEF ReadTrue
  <2>9. DoomedEnded(new) BY <1>5, <2>2 DEF DoomedEnded
  <2>10. ReadTrue(call[c])' /\ DoomedEnded(call[c])'
    BY <1>2, <2>3, <2>8, <2>9 DEF ReadTrue, DoomedEnded, Marked, Ended, WorkerAlive
  <2> QED BY <1>2, <1>3, <2>3, <2>10 DEF Acts, Sound
<1> QED BY <1>6, <1>7

\* A call that goes on to another point, with what it has read.
LEMMA GoActs ==
  ASSUME JobAssumption, JobsInv, TypeOK', Kept, told' = told, NEW c \in Callers, call[c] \in Call, call[c] # NoCall,
         NEW at \in Points \ {"read", "look"}, call[c].job = 0 <=> at \in {"prune", "remove", "spawn"},
         call' = [call EXCEPT ![c] = [call[c] EXCEPT !.at = at]]
  PROVE  Acts(c)
<1>1. TypeOK /\ ReadTrue(call[c]) /\ DoomedEnded(call[c]) BY DEF JobsInv
<1>2. PICK new \in Call :
        /\ call' = [call EXCEPT ![c] = new]
        /\ new.job = call[c].job /\ new.knew = call[c].knew /\ new.doomed = call[c].doomed
        /\ new.unread = call[c].unread /\ new.result = call[c].result
        /\ new.cancelled = call[c].cancelled /\ new.at = at
  <2> DEFINE next == [call[c] EXCEPT !.at = at]
  <2>1. /\ next \in Call
        /\ next.job = call[c].job /\ next.knew = call[c].knew /\ next.doomed = call[c].doomed
        /\ next.unread = call[c].unread /\ next.result = call[c].result
        /\ next.cancelled = call[c].cancelled /\ next.at = at
    BY DEF Call, Points
  <2>2. call' = [call EXCEPT ![c] = next] OBVIOUS
  <2> HIDE DEF next
  <2> QED BY <2>1, <2>2
<1>3. call'[c] = new /\ \A d \in Callers \ {c} : call'[d] = call[d] BY <1>1, <1>2 DEF TypeOK
<1>4. ReadTrue(new) /\ DoomedEnded(new) BY <1>1, <1>2 DEF ReadTrue, DoomedEnded
<1>5. ReadTrue(new)' /\ DoomedEnded(new)' BY <1>1, <1>2, <1>4, CallStays DEF Kept
<1>6. ReadTrue(call[c])' /\ DoomedEnded(call[c])' BY <1>3, <1>5 DEF ReadTrue, DoomedEnded
<1> QED BY <1>3, <1>6 DEF Acts, Sound

LEMMA LookActs ==
  ASSUME JobAssumption, JobsInv, TypeOK', NEW c \in Callers, Look(c)
  PROVE  Acts(c)
<1> DEFINE seen == call[c]
           j == seen.job
           alive == WorkerAlive(j)
           status == Status(seen, alive)
<1>1. TypeOK BY DEF JobsInv
<1>2. seen \in Call /\ seen # NoCall /\ seen.at = "look" BY <1>1, InCall DEF Look, Points
<1>3. ReadTrue(seen) BY <1>2 DEF JobsInv
<1>4. j \in 1 .. started /\ j # 0 BY <1>1, <1>2, <1>3, JobsFacts DEF ReadTrue, TypeOK
<1>5. CASE call' = [call EXCEPT ![c].at = "mark"] /\ told' = told
  <2>1. UNCHANGED <<dir, worker, command, told, started>> BY <1>5 DEF Look
  <2>2. Kept BY <2>1, StillKept
  <2>3. call' = [call EXCEPT ![c] = [call[c] EXCEPT !.at = "mark"]] BY <1>1, <1>5 DEF TypeOK
  <2>4. "mark" \in Points \ {"read", "look"} BY DEF Points
  <2> QED BY <1>2, <1>4, <1>5, <2>2, <2>3, <2>4, GoActs
<1>6. CASE call' = [call EXCEPT ![c] = NoCall] /\ told' = [told EXCEPT ![j] = @ \cup {status}]
  <2>1. status \in States BY StatusTyped
  <2>2. Rightly(j, status)
    <3>1. /\ status = "cancelled" => seen.cancelled
          /\ status = "completed" => seen.result = "zero"
          /\ status = "failed" => seen.result = "nonzero"
      <4> HIDE DEF alive
      <4> QED BY DEF Status
    <3> HIDE DEF status
    <3> QED BY <1>3, <1>4, <3>1 DEF Rightly, ReadTrue
  <2>3. told[j] \cup {status} \in SUBSET States
    BY <1>1, <1>4, <2>1, JobsFacts DEF TypeOK, Jobs
  <2> HIDE DEF status
  <2>4. UNCHANGED <<dir, worker, command, started>> BY DEF Look
  <2>5. told' = [told EXCEPT ![j] = told[j] \cup {status}] BY <1>6
  <2> HIDE DEF j
  <2>6. Kept BY <1>4, <2>3, <2>4, <2>5, StillKept
  <2> QED BY <1>4, <1>6, <2>1, <2>2, <2>6, EndActs
<1> QED BY <1>5, <1>6 DEF Look

LEMMA MarkActs ==
  ASSUME JobAssumption, JobsInv, TypeOK', NEW c \in Callers, Mark(c)
  PROVE  Acts(c)
<1> DEFINE seen == call[c]
           j == seen.job
<1>1. TypeOK /\ FilesTrue /\ Untouched BY DEF JobsInv
<1>2. seen \in Call /\ seen # NoCall /\ seen.at = "mark" BY <1>1, InCall DEF Mark, Points
<1>3. ReadTrue(seen) BY <1>2 DEF JobsInv
<1>4. j # 0 BY <1>2, <1>3 DEF ReadTrue
<1>5. UNCHANGED <<worker, command, told, started>> BY DEF Mark
<1>6. CASE j \notin DOMAIN dir
  <2>1. call' = [call EXCEPT ![c] = NoCall] /\ UNCHANGED dir BY <1>6 DEF Mark
  <2>2. Kept BY <1>5, <2>1, StillKept
  <2> QED BY <1>5, <2>1, <2>2, EndActs
<1>7. CASE j \in DOMAIN dir
  <2>1. dir' = [dir EXCEPT ![j].cancelled = TRUE] /\ call' = [call EXCEPT ![c].at = "kill"]
    BY <1>7 DEF Mark
  <2>2. /\ DOMAIN dir' = DOMAIN dir
        /\ \A k \in DOMAIN dir : /\ dir[k].cancelled => dir'[k].cancelled
                                 /\ dir'[k].result = dir[k].result
    BY <1>1, <2>1 DEF TypeOK, Directory
  <2>3. Grows BY <1>1, <1>5, <2>2, JobsFacts DEF Grows, WorkerAlive, TypeOK
  <2>4. Kept BY <1>1, <1>5, <2>2, <2>3 DEF Kept, FilesTrue, Untouched
  <2>5. call' = [call EXCEPT ![c] = [call[c] EXCEPT !.at = "kill"]] BY <1>1, <2>1 DEF TypeOK
  <2>6. "kill" \in Points \ {"read", "look"} BY DEF Points
  <2> QED BY <1>2, <1>4, <1>5, <2>4, <2>5, <2>6, GoActs
<1> QED BY <1>6, <1>7

LEMMA KillActs ==
  ASSUME JobAssumption, JobsInv, TypeOK', NEW c \in Callers, Kill(c)
  PROVE  Acts(c)
<1> DEFINE seen == call[c]
           j == seen.job
<1>1. TypeOK BY DEF JobsInv
<1>2. seen \in Call /\ seen # NoCall /\ seen.at = "kill" BY <1>1, InCall DEF Kill, Points
<1>3. ReadTrue(seen) BY <1>2 DEF JobsInv
<1>4. j \in 1 .. started /\ j # 0 BY <1>1, <1>2, <1>3, JobsFacts DEF ReadTrue, TypeOK
<1>5. UNCHANGED <<dir, worker, command, told, started>> BY DEF Kill
<1>6. Kept BY <1>5, StillKept
<1>7. Looking(c, "cancel", j, TRUE, seen.knew) BY DEF Kill
<1>8. seen.knew \in SUBSET States BY <1>2 DEF Call
<1>9. "cancelled" \in seen.knew => Marked(j) BY <1>3, <1>4 DEF ReadTrue
<1> QED BY <1>4, <1>5, <1>6, <1>7, <1>8, <1>9, LookingActs DEF Operations

\* A start that goes on, with the jobs it is about to remove.
LEMMA DoomActs ==
  ASSUME JobAssumption, JobsInv, TypeOK', Kept, told' = told, NEW c \in Callers, call[c] \in Call, call[c] # NoCall,
         NEW at \in Points \ {"read", "look"}, call[c].job = 0 <=> at \in {"prune", "remove", "spawn"},
         NEW doomed \in SUBSET Jobs, NEW full \in BOOLEAN,
         \A j \in doomed : j \in 1 .. started /\ (j \in DOMAIN dir => Ended(j)),
         call' = [call EXCEPT ![c] = [call[c] EXCEPT !.at = at, !.doomed = doomed, !.full = full]]
  PROVE  Acts(c)
<1>1. TypeOK /\ ReadTrue(call[c]) BY DEF JobsInv
<1>2. PICK new \in Call :
        /\ call' = [call EXCEPT ![c] = new]
        /\ new.job = call[c].job /\ new.knew = call[c].knew /\ new.doomed = doomed
        /\ new.unread = call[c].unread /\ new.result = call[c].result
        /\ new.cancelled = call[c].cancelled /\ new.at = at
  <2> DEFINE next == [call[c] EXCEPT !.at = at, !.doomed = doomed, !.full = full]
  <2>1. /\ next \in Call
        /\ next.job = call[c].job /\ next.knew = call[c].knew /\ next.doomed = doomed
        /\ next.unread = call[c].unread /\ next.result = call[c].result
        /\ next.cancelled = call[c].cancelled /\ next.at = at
    BY DEF Call, Points
  <2>2. call' = [call EXCEPT ![c] = next] OBVIOUS
  <2> HIDE DEF next
  <2> QED BY <2>1, <2>2
<1>3. call'[c] = new /\ \A d \in Callers \ {c} : call'[d] = call[d] BY <1>1, <1>2 DEF TypeOK
<1>4. ReadTrue(new) /\ DoomedEnded(new) BY <1>1, <1>2 DEF ReadTrue, DoomedEnded
<1>5. ReadTrue(new)' /\ DoomedEnded(new)' BY <1>1, <1>2, <1>4, CallStays DEF Kept
<1>6. ReadTrue(call[c])' /\ DoomedEnded(call[c])' BY <1>3, <1>5 DEF ReadTrue, DoomedEnded
<1> QED BY <1>3, <1>6 DEF Acts, Sound

LEMMA PruneActs ==
  ASSUME JobAssumption, JobsInv, TypeOK', NEW c \in Callers, Prune(c)
  PROVE  Acts(c)
<1>1. TypeOK BY DEF JobsInv
<1>2. call[c] \in Call /\ call[c] # NoCall BY <1>1, InCall DEF Prune, Points
<1>3. UNCHANGED <<dir, worker, command, told, started>> BY DEF Prune
<1>4. Kept BY <1>3, StillKept
<1>5. PICK doomed \in SUBSET Removable :
        call' = [call EXCEPT ![c].at = "remove", ![c].doomed = doomed,
                             ![c].full = Cardinality(doomed) < Excess(Described)]
  BY DEF Prune
<1>6. PICK full \in BOOLEAN :
        call' = [call EXCEPT ![c].at = "remove", ![c].doomed = doomed, ![c].full = full]
  <2> DEFINE lack == Cardinality(doomed) < Excess(Described)
  <2>1. lack \in BOOLEAN OBVIOUS
  <2>2. call' = [call EXCEPT ![c].at = "remove", ![c].doomed = doomed, ![c].full = lack]
    BY <1>5
  <2> HIDE DEF lack
  <2> QED BY <2>1, <2>2
<1>7. call' = [call EXCEPT ![c] = [call[c] EXCEPT !.at = "remove", !.doomed = doomed, !.full = full]]
  BY <1>1, <1>6 DEF TypeOK
<1>8. \A j \in doomed : j \in Jobs /\ j \in 1 .. started /\ (j \in DOMAIN dir => Ended(j))
  BY <1>1, JobsFacts DEF Removable, Described, TypeOK, Jobs
<1>9. doomed \in SUBSET Jobs BY <1>8
<1>10. "remove" \in Points \ {"read", "look"} BY DEF Points
<1>11. call[c].job = 0 <=> "remove" \in {"prune", "remove", "spawn"}
  BY <1>2 DEF JobsInv, ReadTrue, Prune
<1> QED BY <1>2, <1>3, <1>4, <1>7, <1>8, <1>9, <1>10, <1>11, DoomActs

LEMMA RemoveActs ==
  ASSUME JobAssumption, JobsInv, TypeOK', NEW c \in Callers, Remove(c)
  PROVE  Acts(c)
<1>1. TypeOK /\ FilesTrue /\ Untouched BY DEF JobsInv
<1>2. call[c] \in Call /\ call[c] # NoCall BY <1>1, InCall DEF Remove, Points
<1>3. DoomedEnded(call[c]) BY <1>2 DEF JobsInv
<1>4. UNCHANGED <<worker, command, told, started>> BY DEF Remove
<1>5. CASE call[c].doomed = {} /\ UNCHANGED dir
             /\ call' = [call EXCEPT ![c] =
                  IF call[c].full THEN NoCall ELSE [call[c] EXCEPT !.at = "spawn"]]
  <2>1. Kept BY <1>4, <1>5, StillKept
  <2>2. CASE call[c].full
    <3>1. call' = [call EXCEPT ![c] = NoCall] BY <1>5, <2>2
    <3> QED BY <1>4, <2>1, <3>1, EndActs
  <2>3. CASE ~call[c].full
    <3>1. call' = [call EXCEPT ![c] = [call[c] EXCEPT !.at = "spawn"]] BY <1>5, <2>3
    <3>2. "spawn" \in Points \ {"read", "look"} BY DEF Points
    <3>3. call[c].job = 0 <=> "spawn" \in {"prune", "remove", "spawn"}
      BY <1>2 DEF JobsInv, ReadTrue, Remove
    <3> QED BY <1>2, <1>4, <2>1, <3>1, <3>2, <3>3, GoActs
  <2> QED BY <2>2, <2>3
<1>6. ASSUME NEW j \in call[c].doomed, dir' = [k \in DOMAIN dir \ {j} |-> dir[k]],
             call' = [call EXCEPT ![c].doomed = @ \ {j}]
      PROVE  Acts(c)
  <2>1. Grows BY <1>1, <1>4, <1>6, JobsFacts DEF Grows, WorkerAlive, TypeOK
  <2>2. Kept BY <1>1, <1>4, <1>6, <2>1 DEF Kept, FilesTrue, Untouched
  <2>3. call[c].at = "remove" /\ call[c].full \in BOOLEAN /\ call[c].doomed \in SUBSET Jobs
    BY <1>2 DEF Remove, Call
  <2>4. [call[c] EXCEPT !.doomed = @ \ {j}]
          = [call[c] EXCEPT !.at = "remove", !.doomed = call[c].doomed \ {j}, !.full = call[c].full]
    BY <1>2, <2>3 DEF Call
  <2>5. call' = [call EXCEPT ![c] = [call[c] EXCEPT !.at = "remove",
                   !.doomed = call[c].doomed \ {j}, !.full = call[c].full]]
    BY <1>1, <1>6, <2>4 DEF TypeOK
  <2>6. PICK doomed \in SUBSET Jobs : doomed = call[c].doomed \ {j} BY <2>3
  <2>7. PICK full \in BOOLEAN : full = call[c].full BY <2>3
  <2>8. \A k \in doomed : k \in 1 .. started /\ (k \in DOMAIN dir => Ended(k))
    BY <1>3, <2>6 DEF DoomedEnded
  <2>9. "remove" \in Points \ {"read", "look"} BY DEF Points
  <2>10. call' = [call EXCEPT ![c] = [call[c] EXCEPT !.at = "remove", !.doomed = doomed, !.full = full]]
    BY <2>5, <2>6, <2>7
  <2>11. call[c].job = 0 <=> "remove" \in {"prune", "remove", "spawn"}
    BY <1>2 DEF JobsInv, ReadTrue, Remove
  <2> QED BY <1>2, <1>4, <2>2, <2>8, <2>9, <2>10, <2>11, DoomActs
<1> QED BY <1>5, <1>6 DEF Remove

LEMMA SpawnActs ==
  ASSUME JobAssumption, JobsInv, TypeOK', NEW c \in Callers, Spawn(c)
  PROVE  Acts(c)
<1> DEFINE id == started + 1
<1>1. TypeOK /\ FilesTrue /\ Untouched BY DEF JobsInv
<1>2. call[c] \in Call /\ call[c] # NoCall BY <1>1, InCall DEF Spawn, Points
<1>3. ReadTrue(call[c]) /\ DoomedEnded(call[c]) BY <1>2 DEF JobsInv
<1>4. id \in Jobs /\ started \in Nat /\ started' = id /\ DOMAIN dir \subseteq 1 .. started
      /\ 1 .. started \subseteq Jobs
  BY <1>1, JobsFacts DEF TypeOK, Spawn, Jobs
<1>5. /\ UNCHANGED <<command, told>> /\ worker' = [worker EXCEPT ![id] = "starting"]
      /\ DOMAIN dir' = DOMAIN dir \cup {id}
      /\ \A k \in DOMAIN dir : k # id => dir'[k] = dir[k]
      /\ dir'[id].result = "none"
  BY <1>4 DEF Spawn
<1>6. Grows BY <1>1, <1>4, <1>5 DEF Grows, WorkerAlive, TypeOK
<1>7. command[id] = "none" /\ \A k \in Jobs : k > id => k > started
  BY <1>1, <1>4, JobsFacts DEF Untouched, Jobs
<1>8. Untouched' 
  <2> SUFFICES ASSUME NEW j \in Jobs
               PROVE  /\ worker'[j] \in {"none", "starting"} => command'[j] = "none"
                      /\ j <= id <=> worker'[j] # "none"
                      /\ j > id => told'[j] = {}
    BY <1>4 DEF Untouched
  <2>1. worker'[j] = IF j = id THEN "starting" ELSE worker[j] BY <1>1, <1>5 DEF TypeOK
  <2>2. j # id => (j <= id <=> j <= started) BY <1>4, JobsFacts DEF Jobs
  <2>3. id <= id BY <1>4
  <2> HIDE DEF id
  <2> QED BY <1>1, <1>5, <1>7, <2>1, <2>2, <2>3 DEF Untouched
<1>9. FilesTrue'
  <2> SUFFICES ASSUME NEW k \in DOMAIN dir' PROVE dir'[k].result \in {"none", command[k]}
    BY <1>5 DEF FilesTrue
  <2>1. CASE k = id BY <1>5, <2>1
  <2>2. CASE k # id BY <1>1, <1>5, <2>2 DEF FilesTrue
  <2> QED BY <2>1, <2>2
<1>10. Kept BY <1>6, <1>8, <1>9 DEF Kept
<1>11. PICK new \in Call :
        /\ call' = [call EXCEPT ![c] = new]
        /\ new.job = id /\ new.knew = call[c].knew /\ new.doomed = call[c].doomed
        /\ new.result = call[c].result /\ new.cancelled = call[c].cancelled
        /\ new.at = "describe"
  <2> DEFINE next == [call[c] EXCEPT !.at = "describe", !.job = id]
  <2>1. /\ next \in Call
        /\ next.job = id /\ next.knew = call[c].knew /\ next.doomed = call[c].doomed
        /\ next.result = call[c].result
        /\ next.cancelled = call[c].cancelled /\ next.at = "describe"
    <3>1. id \in 0 .. MaxJobs BY <1>4, JobsFacts DEF Jobs
    <3> HIDE DEF id
    <3> QED BY <1>2, <3>1 DEF Call, Points
  <2>2. call' = [call EXCEPT ![c] = next] BY <1>1, <1>4 DEF Spawn, TypeOK
  <2> HIDE DEF next
  <2> QED BY <2>1, <2>2
<1>12. call'[c] = new /\ \A d \in Callers \ {c} : call'[d] = call[d] BY <1>1, <1>11 DEF TypeOK
<1>13. new.result = "none" /\ ~new.cancelled /\ new.knew = {} /\ new.job = started'
      /\ started' # 0
  BY <1>3, <1>4, <1>11 DEF ReadTrue, Spawn
<1>14. ReadTrue(new)' BY <1>4, <1>11, <1>13 DEF ReadTrue
<1>15. DoomedEnded(new)'
  <2> SUFFICES ASSUME NEW j \in new.doomed
               PROVE  j \in 1 .. started' /\ (j \in DOMAIN dir => Ended(j))'
    BY DEF DoomedEnded
  <2>1. j \in 1 .. started /\ (j \in DOMAIN dir => Ended(j)) BY <1>3, <1>11 DEF DoomedEnded
  <2> QED BY <1>1, <1>4, <1>6, <2>1, EndedStays
<1>16. ReadTrue(call[c])' /\ DoomedEnded(call[c])' BY <1>12, <1>14, <1>15 DEF ReadTrue, DoomedEnded
<1> QED BY <1>5, <1>10, <1>12, <1>16 DEF Acts, Sound

LEMMA DescribeActs ==
  ASSUME JobAssumption, JobsInv, TypeOK', NEW c \in Callers, Describe(c)
  PROVE  Acts(c)
<1> DEFINE seen == call[c]
           j == seen.job
<1>1. TypeOK /\ FilesTrue /\ Untouched BY DEF JobsInv
<1>2. seen \in Call /\ seen # NoCall /\ seen.at = "describe" BY <1>1, InCall DEF Describe, Points
<1>3. ReadTrue(seen) BY <1>2 DEF JobsInv
<1>4. j \in 1 .. started BY <1>1, <1>2, <1>3, JobsFacts DEF ReadTrue, TypeOK
<1>5. UNCHANGED <<worker, command, told, started>> BY DEF Describe
<1>6. /\ DOMAIN dir' = DOMAIN dir
      /\ \A k \in DOMAIN dir : dir'[k].cancelled = dir[k].cancelled /\ dir'[k].result = dir[k].result
  BY <1>1 DEF TypeOK, Directory, Describe
<1>7. Grows BY <1>1, <1>5, <1>6, JobsFacts DEF Grows, WorkerAlive, TypeOK
<1>8. Kept BY <1>1, <1>5, <1>6, <1>7 DEF Kept, FilesTrue, Untouched
<1>9. Looking(c, "start", j, FALSE, {}) BY DEF Describe
<1>10. {} \in SUBSET States /\ "cancelled" \notin {} OBVIOUS
<1> QED BY <1>4, <1>5, <1>8, <1>9, <1>10, LookingActs DEF Operations

-----------------------------------------------------------------------------
(* All steps together. *)

LEMMA Combine ==
  ASSUME JobAssumption, JobsInv, TypeOK', Kept,
         \A c \in Callers : call'[c] = call[c] \/ Sound(c)',
         \/ told' = told
         \/ \E j \in 1 .. started, status \in States :
              Rightly(j, status) /\ told' = [told EXCEPT ![j] = @ \cup {status}]
  PROVE  JobsInv'
<1>1. TypeOK /\ Untouched /\ ToldTrue /\ ReportsTrue /\ Grows BY DEF JobsInv, Kept
<1>2. started \in Nat /\ started' \in Nat /\ 1 .. started \subseteq Jobs
  BY <1>1, JobsFacts DEF TypeOK, Jobs
<1>3. \A c \in Callers : (call[c] # NoCall => ReadTrue(call[c]) /\ DoomedEnded(call[c]))'
  <2> TAKE c \in Callers
  <2>1. CASE Sound(c)' BY <2>1 DEF Sound
  <2>2. CASE call'[c] = call[c] /\ call[c] # NoCall
    <3>1. PICK seen \in Call : seen = call[c] BY <1>1, <2>2 DEF TypeOK
    <3>2. ReadTrue(seen) /\ DoomedEnded(seen) BY <2>2, <3>1 DEF JobsInv
    <3>3. ReadTrue(seen)' /\ DoomedEnded(seen)' BY <1>1, <3>2, CallStays
    <3> QED BY <2>2, <3>1, <3>3 DEF ReadTrue, DoomedEnded
  <2>3. CASE call'[c] = call[c] /\ call[c] = NoCall BY <2>3
  <2> QED BY <2>1, <2>2, <2>3
<1>4. ASSUME NEW j \in Jobs, NEW status \in told'[j]
      PROVE  status \in told[j] \/ (j <= started /\ Rightly(j, status))
  <2>1. ASSUME NEW k \in 1 .. started, NEW s, Rightly(k, s), told' = [told EXCEPT ![k] = @ \cup {s}]
        PROVE  status \in told[j] \/ (j <= started /\ Rightly(j, status))
    <3>1. CASE k # j BY <1>1, <1>4, <2>1, <3>1 DEF TypeOK
    <3>2. CASE k = j
      <4>1. told'[j] = told[j] \cup {s} /\ j <= started BY <1>1, <1>2, <2>1, <3>2 DEF TypeOK
      <4> QED BY <1>4, <2>1, <3>2, <4>1
    <3> QED BY <3>1, <3>2
  <2> QED BY <1>4, <2>1
<1>5. \A j \in Jobs : told[j] # {} => j \in 1 .. started
  BY <1>1, <1>2, JobsFacts DEF Untouched, Jobs
<1>6. ToldTrue'
  <2> SUFFICES ASSUME NEW j \in Jobs, "cancelled" \in told'[j] PROVE Marked(j)' BY DEF ToldTrue
  <2>1. Marked(j) /\ j \in 1 .. started
    BY <1>1, <1>2, <1>4, <1>5, JobsFacts DEF ToldTrue, Rightly, Jobs
  <2> QED BY <1>1, <2>1, MarkedStays
<1>7. ReportsTrue'
  <2> SUFFICES ASSUME NEW j \in Jobs
               PROVE  /\ "completed" \in told'[j] => command'[j] = "zero"
                      /\ "failed" \in told'[j] => command'[j] = "nonzero"
    BY DEF ReportsTrue
  <2>1. /\ "completed" \in told'[j] => command[j] = "zero"
        /\ "failed" \in told'[j] => command[j] = "nonzero"
    BY <1>1, <1>4 DEF ReportsTrue, Rightly
  <2> QED BY <1>1, <2>1 DEF Grows, Results
<1> QED BY <1>3, <1>6, <1>7 DEF JobsInv, Kept

LEMMA CallStepActs ==
  ASSUME JobAssumption, JobsInv, TypeOK', NEW c \in Callers, Begin(c) \/ CallStep(c)
  PROVE  Acts(c)
BY BeginActs, ReadFileActs, LookActs, MarkActs, KillActs, PruneActs, RemoveActs, SpawnActs,
   DescribeActs DEF CallStep

LEMMA StepJobs ==
  ASSUME JobAssumption
  PROVE  JobsInv /\ [Next]_vars => JobsInv'
<1> SUFFICES ASSUME JobsInv, [Next]_vars PROVE JobsInv' OBVIOUS
<1>1. CASE UNCHANGED vars
  BY <1>1 DEF vars, JobsInv, TypeOK, Untouched, FilesTrue, ReadTrue, DoomedEnded, ToldTrue, Marked,
     ReportsTrue, Ended, WorkerAlive
<1>2. CASE Next
  <2>1. TypeOK' BY <1>2, TypeKept
  <2>2. CASE Crash
    <3>1. UNCHANGED <<dir, worker, command, started, told>> BY <2>2 DEF Crash
    <3>2. Kept BY <3>1, StillKept
    <3>3. \A c \in Callers : Sound(c)' BY <2>2 DEF Crash, Sound
    <3> QED BY <2>1, <3>1, <3>2, <3>3, Combine
  <2>3. ASSUME NEW j \in Jobs,
               WorkerStarts(j) \/ CommandEnds(j) \/ WorkerFinishes(j) \/ WorkerEnds(j) \/ Killed(j) \/ ForceKill(j)
        PROVE  JobsInv'
    <3>1. Kept /\ UNCHANGED <<call, told>> BY <2>3, ProcessesKeep
    <3> QED BY <2>1, <3>1, Combine
  <2>4. ASSUME NEW c \in Callers, Begin(c) \/ CallStep(c) PROVE JobsInv'
    <3>1. Acts(c) BY <2>1, <2>4, CallStepActs
    <3>2. \A d \in Callers : call'[d] = call[d] \/ Sound(d)' BY <3>1 DEF Acts
    <3> QED BY <2>1, <3>1, <3>2, Combine DEF Acts
  <2> QED BY <1>2, <2>2, <2>3, <2>4 DEF Next
<1> QED BY <1>1, <1>2

LEMMA JobsHolds ==
  ASSUME JobAssumption
  PROVE  Spec => []JobsInv
BY InitJobs, StepJobs, PTL DEF Spec

-----------------------------------------------------------------------------
(* Retention: starts overlap, and each may have looked before the others. *)

\* The starts that have found room and have not yet described their job.
Ready == {c \in Callers : call[c].at \in {"remove", "spawn", "describe"} /\ ~call[c].full}

\* The described jobs that a set of calls does not remove.
Left(calls) == Described \ UNION {call[c].doomed : c \in calls}

(***************************************************************************)
(* Whichever of the starts that found room one looks at: what they leave,  *)
(* with one job for each of them, is within the bound.  For none of them,  *)
(* this is RetentionBounded; for all, it is what a start needs that        *)
(* describes its job while the others have yet to remove theirs.           *)
(***************************************************************************)
RoomLeft ==
  \A calls \in SUBSET Ready :
    Cardinality(Left(calls)) + Cardinality(calls) <= Retained + Cardinality(Callers) - 1

\* A start that describes its job has removed what it had to.
NothingDoomed ==
  \A c \in Callers : call[c].at \in {"spawn", "describe"} => call[c].doomed = {} /\ ~call[c].full

RetentionInv == RoomLeft /\ NothingDoomed

\* The sets that are counted are finite.
LEMMA RetentionFinite ==
  ASSUME JobAssumption, TypeOK
  PROVE  /\ IsFiniteSet(Callers) /\ Cardinality(Callers) \in Nat /\ Retained \in Nat \ {0}
         /\ IsFiniteSet(Described) /\ Cardinality(Described) \in Nat
         /\ \A calls \in SUBSET Callers :
              /\ IsFiniteSet(calls) /\ Cardinality(calls) \in Nat
              /\ Cardinality(calls) <= Cardinality(Callers)
              /\ IsFiniteSet(Left(calls)) /\ Cardinality(Left(calls)) \in Nat
         /\ Ready \subseteq Callers
<1>1. IsFiniteSet(Callers) /\ Retained \in Nat \ {0}
  BY DEF JobAssumption
<1>2. Cardinality(Callers) \in Nat
  BY <1>1, FS_CardinalityType
<1>3. IsFiniteSet(1 .. started)
  <2>1. started \in Int /\ 1 \in Int
    BY JobsFacts DEF TypeOK
  <2> QED BY <2>1, FS_Interval
<1>4. Described \subseteq 1 .. started
  BY DEF TypeOK, Described
<1>5. IsFiniteSet(Described) /\ Cardinality(Described) \in Nat
  BY <1>3, <1>4, FS_Subset, FS_CardinalityType
<1>6. ASSUME NEW calls \in SUBSET Callers
      PROVE  /\ IsFiniteSet(calls) /\ Cardinality(calls) \in Nat
             /\ Cardinality(calls) <= Cardinality(Callers)
             /\ IsFiniteSet(Left(calls)) /\ Cardinality(Left(calls)) \in Nat
  <2>1. Left(calls) \subseteq Described
    BY DEF Left
  <2> QED BY <1>1, <1>5, <2>1, FS_Subset, FS_CardinalityType
<1>7. Ready \subseteq Callers
  BY DEF Ready
<1> QED BY <1>1, <1>2, <1>5, <1>6, <1>7

\* A step that describes nothing, and finds no room for a start.
LEMMA NoRoomTaken ==
  ASSUME JobAssumption, TypeOK, TypeOK', RoomLeft, Ready' \subseteq Ready, Described' \subseteq Described,
         \A c \in Ready' : Described' \cap call[c].doomed \subseteq call'[c].doomed
  PROVE  RoomLeft'
<1> SUFFICES ASSUME NEW calls \in SUBSET Ready'
             PROVE  Cardinality(Left(calls)') + Cardinality(calls) <= Retained + Cardinality(Callers) - 1
  BY DEF RoomLeft
<1>1. Left(calls)' \subseteq Left(calls)
  BY DEF Left
<1>2. calls \in SUBSET Ready /\ calls \in SUBSET Callers
  BY RetentionFinite
<1>3. /\ IsFiniteSet(Left(calls)) /\ Cardinality(Left(calls)) \in Nat /\ Cardinality(calls) \in Nat
      /\ Cardinality(Callers) \in Nat /\ Retained \in Nat
  BY <1>2, RetentionFinite
<1>4. Cardinality(Left(calls)') <= Cardinality(Left(calls)) /\ Cardinality(Left(calls)') \in Nat
  BY <1>1, <1>3, FS_Subset, FS_CardinalityType
<1>5. Cardinality(Left(calls)) + Cardinality(calls) <= Retained + Cardinality(Callers) - 1
  BY <1>2 DEF RoomLeft
<1> QED BY <1>3, <1>4, <1>5

\* pruneTerminalJobs: what it is about to remove makes room for its start.
LEMMA PruneRetains ==
  ASSUME JobAssumption, TypeOK, TypeOK', RetentionInv, NEW c \in Callers, Prune(c)
  PROVE  RetentionInv'
<1>1. call[c] \in Call /\ call[c].at = "prune" /\ UNCHANGED dir
  BY InCall DEF Prune, Points
<1>2. PICK doomed \in SUBSET Described, full \in BOOLEAN :
        /\ call' = [call EXCEPT ![c].at = "remove", ![c].doomed = doomed, ![c].full = full]
        /\ ~full => Cardinality(doomed) >= Excess(Described)
  <2>1. PICK doomed \in SUBSET Removable :
          call' = [call EXCEPT ![c].at = "remove", ![c].doomed = doomed,
                               ![c].full = Cardinality(doomed) < Excess(Described)]
    BY DEF Prune
  <2>2. doomed \in SUBSET Described
    BY DEF Removable
  <2>3. IsFiniteSet(doomed) /\ Cardinality(doomed) \in Nat /\ Cardinality(Described) \in Nat /\ Retained \in Nat
    BY <2>2, RetentionFinite, FS_Subset, FS_CardinalityType
  <2>4. Cardinality(doomed) < Excess(Described) \/ Cardinality(doomed) >= Excess(Described)
    BY <2>3 DEF Excess
  <2>5. CASE Cardinality(doomed) < Excess(Described)
    <3>1. call' = [call EXCEPT ![c].at = "remove", ![c].doomed = doomed, ![c].full = TRUE]
      BY <2>1, <2>5
    <3> QED BY <2>2, <3>1
  <2>6. CASE ~(Cardinality(doomed) < Excess(Described))
    <3> DEFINE missed == Cardinality(doomed) < Excess(Described)
    <3>0. missed = FALSE
      BY <2>3, <2>6 DEF Excess
    <3>1. call' = [call EXCEPT ![c].at = "remove", ![c].doomed = doomed, ![c].full = missed]
      BY <2>1
    <3> HIDE DEF missed
    <3>4. call' = [call EXCEPT ![c].at = "remove", ![c].doomed = doomed, ![c].full = FALSE]
      BY <3>0, <3>1
    <3>2. Cardinality(doomed) >= Excess(Described)
      BY <2>4, <2>6
    <3> QED BY <2>2, <3>2, <3>4
  <2> QED BY <2>5, <2>6
<1>3. /\ call'[c].at = "remove" /\ call'[c].doomed = doomed /\ call'[c].full = full
      /\ \A d \in Callers : d # c => call'[d] = call[d]
  BY <1>1, <1>2 DEF TypeOK, Call
<1>4. Described' = Described
  BY <1>1 DEF Described
<1>5. Ready' = IF full THEN Ready ELSE Ready \cup {c}
  BY <1>1, <1>3 DEF Ready
<1>6. NothingDoomed'
  BY <1>3 DEF RetentionInv, NothingDoomed
<1>7. CASE full
  <2>1. \A d \in Ready' : Described' \cap call[d].doomed \subseteq call'[d].doomed
    BY <1>1, <1>3, <1>5, <1>7 DEF Ready
  <2> QED BY <1>4, <1>5, <1>6, <1>7, <2>1, NoRoomTaken DEF RetentionInv
<1>8. CASE ~full
  <2> SUFFICES ASSUME NEW calls \in SUBSET Ready'
               PROVE  Cardinality(Left(calls)') + Cardinality(calls) <= Retained + Cardinality(Callers) - 1
    BY <1>6 DEF RetentionInv, RoomLeft
  <2>1. /\ Cardinality(Callers) \in Nat /\ Retained \in Nat /\ IsFiniteSet(Described)
        /\ Cardinality(Described) \in Nat
    BY RetentionFinite
  <2>2. calls \in SUBSET Callers
    BY <1>5, RetentionFinite
  <2>3. Cardinality(calls) \in Nat /\ Cardinality(calls) <= Cardinality(Callers)
    BY <2>2, RetentionFinite
  <2>4. CASE c \in calls
    <3>1. Left(calls)' \subseteq Described \ doomed
      BY <1>3, <1>4, <2>4 DEF Left
    <3>2. IsFiniteSet(Described \ doomed)
      BY <2>1, FS_Subset
    <3>3. Cardinality(Left(calls)') <= Cardinality(Described \ doomed) /\ Cardinality(Left(calls)') \in Nat
      BY <3>1, <3>2, FS_Subset, FS_CardinalityType
    <3>4. Cardinality(Described \ doomed) = Cardinality(Described) - Cardinality(doomed)
      <4>1. Cardinality(Described \ doomed) = Cardinality(Described) - Cardinality(Described \cap doomed)
        BY <2>1, FS_Difference
      <4>2. Described \cap doomed = doomed
        OBVIOUS
      <4> QED BY <4>1, <4>2
    <3>5. Cardinality(doomed) >= Cardinality(Described) - Retained + 1 /\ Cardinality(doomed) \in Nat
      BY <1>2, <1>8, <2>1, FS_Subset, FS_CardinalityType DEF Excess
    <3> QED BY <2>1, <2>3, <3>3, <3>4, <3>5
  <2>5. CASE c \notin calls
    <3>1. calls \in SUBSET Ready
      BY <1>5, <2>5
    <3>2. Left(calls)' = Left(calls)
      BY <1>3, <1>4, <2>2, <2>5 DEF Left
    <3> QED BY <3>1, <3>2 DEF RetentionInv, RoomLeft
  <2> QED BY <2>4, <2>5
<1> QED BY <1>7, <1>8

\* A start describes its job: it takes the room that it has left.
LEMMA DescribeRetains ==
  ASSUME JobAssumption, TypeOK, TypeOK', RetentionInv, NEW c \in Callers, Describe(c)
  PROVE  RetentionInv'
<1>1. call[c] \in Call /\ call[c].at = "describe"
  BY InCall DEF Describe, Points
<1>2. PICK j : j = call[c].job /\ dir' = [dir EXCEPT ![j].metadata = TRUE]
  BY DEF Describe
<1>3. call'[c].at = "read" /\ \A d \in Callers : d # c => call'[d] = call[d]
  BY <1>1 DEF Describe, Looking, TypeOK
<1>4. c \in Ready /\ call[c].doomed = {}
  BY <1>1 DEF RetentionInv, NothingDoomed, Ready
<1>5. Ready' = Ready \ {c}
  BY <1>3 DEF Ready
<1>6. Described' \subseteq Described \cup {j}
  BY <1>2 DEF Described
<1>7. NothingDoomed'
  BY <1>3 DEF RetentionInv, NothingDoomed
<1> SUFFICES ASSUME NEW calls \in SUBSET Ready'
             PROVE  Cardinality(Left(calls)') + Cardinality(calls) <= Retained + Cardinality(Callers) - 1
  BY <1>7 DEF RetentionInv, RoomLeft
<1>8. PICK all : all = calls \cup {c}
  OBVIOUS
<1>9. all \in SUBSET Ready /\ calls \in SUBSET Callers /\ all \in SUBSET Callers /\ c \notin calls
  BY <1>4, <1>5, <1>8, RetentionFinite
<1>10. /\ IsFiniteSet(calls) /\ Cardinality(calls) \in Nat
       /\ IsFiniteSet(Left(all)) /\ Cardinality(Left(all)) \in Nat
       /\ Cardinality(Callers) \in Nat /\ Retained \in Nat
  BY <1>9, RetentionFinite
<1>11. Cardinality(all) = Cardinality(calls) + 1
  BY <1>8, <1>9, <1>10, FS_AddElement
<1>12. Left(calls)' \subseteq Left(all) \cup {j}
  BY <1>3, <1>4, <1>6, <1>8, <1>9 DEF Left
<1>13. Cardinality(Left(calls)') <= Cardinality(Left(all)) + 1 /\ Cardinality(Left(calls)') \in Nat
  <2>1. /\ IsFiniteSet(Left(all) \cup {j})
        /\ Cardinality(Left(all) \cup {j}) \in {Cardinality(Left(all)), Cardinality(Left(all)) + 1}
    BY <1>10, FS_AddElement
  <2>2. Cardinality(Left(calls)') <= Cardinality(Left(all) \cup {j}) /\ IsFiniteSet(Left(calls)')
    BY <1>12, <2>1, FS_Subset
  <2>3. Cardinality(Left(calls)') \in Nat
    BY <2>2, FS_CardinalityType
  <2> QED BY <1>10, <2>1, <2>2, <2>3
<1>14. Cardinality(Left(all)) + Cardinality(all) <= Retained + Cardinality(Callers) - 1
  BY <1>9 DEF RetentionInv, RoomLeft
<1> QED BY <1>10, <1>11, <1>13, <1>14

\* Every other step of a call, a worker or a crash.
LEMMA OthersRetain ==
  ASSUME JobAssumption, TypeOK, TypeOK', RetentionInv,
         \/ \E j \in Jobs : WorkerStarts(j) \/ CommandEnds(j) \/ WorkerFinishes(j) \/ WorkerEnds(j)
                            \/ Killed(j) \/ ForceKill(j)
         \/ \E c \in Callers :
              \/ Begin(c) \/ Look(c) \/ Mark(c) \/ Kill(c) \/ Remove(c) \/ Spawn(c)
              \/ \E f \in {"result", "cancelled"} : ReadFile(c, f)
         \/ Crash
         \/ UNCHANGED vars
  PROVE  RetentionInv'
<1>1. Described' \subseteq Described
  <2>1. CASE UNCHANGED dir
    BY <2>1 DEF Described
  <2>2. ASSUME NEW j \in Jobs, WorkerFinishes(j) PROVE Described' \subseteq Described
    BY <2>2 DEF Described, WorkerFinishes, TypeOK, Directory
  <2>3. ASSUME NEW c \in Callers, Mark(c) PROVE Described' \subseteq Described
    BY <2>3 DEF Described, Mark, TypeOK, Directory
  <2>4. ASSUME NEW c \in Callers, Remove(c) PROVE Described' \subseteq Described
    BY <2>4 DEF Described, Remove
  <2>5. ASSUME NEW c \in Callers, Spawn(c) PROVE Described' \subseteq Described
    BY <2>5, JobsFacts DEF Described, Spawn, TypeOK
  <2> QED BY <2>1, <2>2, <2>3, <2>4, <2>5 DEF WorkerStarts, CommandEnds, WorkerEnds, Killed, ForceKill,
    Begin, BeginStart, BeginStatus, BeginCancel, Look, Kill, ReadFile, Crash, vars
<1>2. CASE UNCHANGED call
  <2>1. Ready' = Ready /\ NothingDoomed'
    BY <1>2 DEF Ready, RetentionInv, NothingDoomed
  <2>2. \A c \in Ready' : Described' \cap call[c].doomed \subseteq call'[c].doomed
    BY <1>2
  <2> QED BY <1>1, <2>1, <2>2, NoRoomTaken DEF RetentionInv
<1>3. CASE Crash
  <2>1. Ready' = {} /\ NothingDoomed'
    BY <1>3 DEF Crash, Ready, NothingDoomed, NoCall
  <2> QED BY <1>1, <2>1, NoRoomTaken DEF RetentionInv
<1>4. ASSUME NEW c \in Callers,
             \/ Begin(c) \/ Look(c) \/ Mark(c) \/ Kill(c) \/ Remove(c) \/ Spawn(c)
             \/ \E f \in {"result", "cancelled"} : ReadFile(c, f)
      PROVE  RetentionInv'
  <2>1. /\ \A d \in Callers : d # c => call'[d] = call[d]
        /\ \/ call'[c].at \notin {"remove", "spawn", "describe"}
           \/ /\ c \in Ready /\ call'[c].at \in {"spawn", "describe"}
              /\ call'[c].doomed = {} /\ ~call'[c].full /\ call[c].doomed = {}
           \/ /\ call[c].at = "remove" /\ call'[c].at = "remove" /\ call'[c].full = call[c].full
              /\ Described' \cap call[c].doomed \subseteq call'[c].doomed
    <3>1. CASE Begin(c)
      BY <3>1 DEF Begin, BeginStart, BeginStatus, BeginCancel, Looking, TypeOK
    <3>2. CASE Look(c)
      <4>1. call[c] \in Call
        BY <3>2, InCall DEF Look, Points
      <4> QED BY <3>2, <4>1 DEF Look, TypeOK, NoCall, Call
    <3>3. CASE Mark(c)
      <4>1. call[c] \in Call
        BY <3>3, InCall DEF Mark, Points
      <4> QED BY <3>3, <4>1 DEF Mark, TypeOK, NoCall, Call
    <3>4. CASE Kill(c)
      BY <3>4 DEF Kill, Looking, TypeOK
    <3>5. ASSUME NEW f \in {"result", "cancelled"}, ReadFile(c, f)
          PROVE  /\ \A d \in Callers : d # c => call'[d] = call[d]
                 /\ call'[c].at \notin {"remove", "spawn", "describe"}
      <4>1. call[c] \in Call /\ call[c].at = "read"
        BY <3>5, InCall DEF ReadFile, Points
      <4> QED BY <3>5, <4>1 DEF ReadFile, TypeOK, NoCall, Call
    <3>6. CASE Remove(c)
      <4>1. call[c] \in Call /\ call[c].at = "remove" /\ call[c].full \in BOOLEAN
        BY <3>6, InCall DEF Remove, Points, Call
      <4>2. CASE call[c].doomed = {} /\ call[c].full
        <5>1. call' = [call EXCEPT ![c] = NoCall]
          BY <3>6, <4>2 DEF Remove
        <5> QED BY <5>1 DEF TypeOK, NoCall
      <4>3. CASE call[c].doomed = {} /\ ~call[c].full
        <5>1. call' = [call EXCEPT ![c] = [call[c] EXCEPT !.at = "spawn"]]
          BY <3>6, <4>3 DEF Remove
        <5>2. call'[c] = [call[c] EXCEPT !.at = "spawn"] /\ \A d \in Callers : d # c => call'[d] = call[d]
          BY <5>1 DEF TypeOK
        <5>3. call'[c].at = "spawn" /\ call'[c].doomed = {} /\ ~call'[c].full
          BY <4>1, <4>3, <5>2 DEF Call
        <5> QED BY <4>1, <4>3, <5>2, <5>3 DEF Ready
      <4>4. ASSUME NEW j \in call[c].doomed, dir' = [k \in DOMAIN dir \ {j} |-> dir[k]],
                   call' = [call EXCEPT ![c].doomed = @ \ {j}]
            PROVE  /\ \A d \in Callers : d # c => call'[d] = call[d]
                   /\ call'[c].at = "remove" /\ call'[c].full = call[c].full
                   /\ Described' \cap call[c].doomed \subseteq call'[c].doomed
        <5>1. /\ call'[c].doomed = call[c].doomed \ {j} /\ call'[c].at = "remove"
              /\ call'[c].full = call[c].full /\ \A d \in Callers : d # c => call'[d] = call[d]
          BY <4>1, <4>4 DEF TypeOK, Call
        <5>2. j \notin Described'
          BY <4>4 DEF Described
        <5> QED BY <5>1, <5>2
      <4> QED BY <3>6, <4>1, <4>2, <4>3, <4>4 DEF Remove
    <3>7. CASE Spawn(c)
      <4>1. call[c] \in Call /\ call[c].at = "spawn"
        BY <3>7, InCall DEF Spawn, Points
      <4>2. call[c].doomed = {} /\ ~call[c].full
        BY <4>1 DEF RetentionInv, NothingDoomed
      <4>3. PICK job : call' = [call EXCEPT ![c].at = "describe", ![c].job = job]
        BY <3>7 DEF Spawn
      <4>4. /\ call'[c].at = "describe" /\ call'[c].doomed = call[c].doomed /\ call'[c].full = call[c].full
            /\ \A d \in Callers : d # c => call'[d] = call[d]
        BY <4>1, <4>3 DEF TypeOK, Call
      <4> QED BY <4>1, <4>2, <4>4 DEF Ready
    <3> QED BY <1>4, <3>1, <3>2, <3>3, <3>4, <3>5, <3>6, <3>7
  <2>2. Ready' \subseteq Ready
    BY <2>1 DEF Ready
  <2>3. \A d \in Ready' : Described' \cap call[d].doomed \subseteq call'[d].doomed
    BY <2>1 DEF Ready
  <2>4. NothingDoomed'
    BY <2>1 DEF RetentionInv, NothingDoomed
  <2> QED BY <1>1, <2>2, <2>3, <2>4, NoRoomTaken DEF RetentionInv
<1> QED BY <1>2, <1>3, <1>4 DEF WorkerStarts, CommandEnds, WorkerFinishes, WorkerEnds, Killed, ForceKill, vars

\* There is no job yet.
LEMMA RetentionInitial ==
  ASSUME JobAssumption, Init
  PROVE  RetentionInv
<1>1. Ready = {} /\ NothingDoomed /\ Left({}) = {}
  BY DEF Init, Ready, NothingDoomed, Left, Described, NoCall
<1>2. Cardinality(Callers) \in Nat /\ Retained \in Nat \ {0}
  BY FS_CardinalityType DEF JobAssumption
<1>3. Cardinality({}) = 0
  BY FS_EmptySet
<1>4. RoomLeft
  BY <1>1, <1>2, <1>3 DEF RoomLeft
<1> QED BY <1>1, <1>4 DEF RetentionInv

\* Every step leaves room for the starts that have found it.
LEMMA RetentionStep ==
  ASSUME JobAssumption, JobsInv, RetentionInv, [Next]_vars
  PROVE  RetentionInv'
<1>1. TypeOK /\ TypeOK'
  BY StepJobs DEF JobsInv
<1>2. \/ \E c \in Callers : Prune(c) \/ Describe(c)
      \/ \E j \in Jobs : WorkerStarts(j) \/ CommandEnds(j) \/ WorkerFinishes(j) \/ WorkerEnds(j)
                         \/ Killed(j) \/ ForceKill(j)
      \/ \E c \in Callers :
           \/ Begin(c) \/ Look(c) \/ Mark(c) \/ Kill(c) \/ Remove(c) \/ Spawn(c)
           \/ \E f \in {"result", "cancelled"} : ReadFile(c, f)
      \/ Crash
      \/ UNCHANGED vars
  BY DEF Next, CallStep
<1> QED BY <1>1, <1>2, PruneRetains, DescribeRetains, OthersRetain

\* The bound is what is left when no start is looked at.
LEMMA RetentionContained ==
  ASSUME JobAssumption, TypeOK, RetentionInv
  PROVE  RetentionBounded
<1>1. Left({}) = Described
  BY DEF Left
<1>2. {} \in SUBSET Ready /\ Cardinality({}) = 0
  BY FS_EmptySet
<1>3. Cardinality(Described) + 0 <= Retained + Cardinality(Callers) - 1
  BY <1>1, <1>2 DEF RetentionInv, RoomLeft
<1> QED BY <1>3, RetentionFinite DEF RetentionBounded

-----------------------------------------------------------------------------
(* The results. *)

\* Files, calls and processes stay what execution-jobs.ts takes them for.
THEOREM JobTypeCorrect ==
  ASSUME JobAssumption
  PROVE  Spec => []TypeOK
<1>1. JobsInv => TypeOK BY DEF JobsInv
<1> QED BY <1>1, JobsHolds, PTL

\* "completed" and "failed" are what the command really came to, although
\* snapshotFromMetadata reads the files one by one while the worker writes them.
THEOREM ReportsTrueHolds ==
  ASSUME JobAssumption
  PROVE  Spec => []ReportsTrue
<1>1. JobsInv => ReportsTrue BY DEF JobsInv
<1> QED BY <1>1, JobsHolds, PTL

\* Who was told that a job is cancelled hears nothing else later: the marker comes
\* before the result in snapshotFromMetadata, and it is never taken away.
THEOREM CancelledStaysHolds ==
  ASSUME JobAssumption
  PROVE  Spec => CancelledStays
<1> DEFINE A == \A c \in Callers :
                  call[c] # NoCall /\ call[c].at = "look" /\ "cancelled" \in call[c].knew
                    => Status(call[c], WorkerAlive(call[c].job)) = "cancelled"
<1>1. JobsInv => A
  <2> SUFFICES ASSUME JobsInv, NEW c \in Callers, call[c] # NoCall, call[c].at = "look",
                      "cancelled" \in call[c].knew
               PROVE  Status(call[c], WorkerAlive(call[c].job)) = "cancelled"
    OBVIOUS
  <2>1. ReadTrue(call[c]) BY DEF JobsInv
  <2>2. call[c].cancelled BY <2>1 DEF ReadTrue
  <2> QED BY <2>2 DEF Status
<1>2. JobsInv => [A]_call BY <1>1
<1> QED BY <1>2, JobsHolds, PTL DEF CancelledStays

\* pruneTerminalJobs removes no running job, however long ago it looked.
THEOREM RunningKeptHolds ==
  ASSUME JobAssumption
  PROVE  Spec => [][RunningKept]_vars
<1>1. JobsInv /\ [Next]_vars => [RunningKept]_vars
  <2> SUFFICES ASSUME JobsInv, Next PROVE RunningKept BY DEF RunningKept
  <2> SUFFICES ASSUME NEW j \in DOMAIN dir, j \notin DOMAIN dir' PROVE Ended(j)
    BY DEF RunningKept
  <2>1. PICK c \in Callers : Remove(c)
    <3>1. \A k \in Jobs : ~(WorkerStarts(k) \/ CommandEnds(k) \/ WorkerFinishes(k) \/ WorkerEnds(k)
                            \/ Killed(k) \/ ForceKill(k))
      BY DEF WorkerStarts, CommandEnds, WorkerFinishes, WorkerEnds, Killed, ForceKill
    <3>2. \A c \in Callers : ~Begin(c) BY DEF Begin, BeginStart, BeginStatus, BeginCancel
    <3>3. ~Crash BY DEF Crash
    <3>4. PICK c \in Callers : CallStep(c) BY <3>1, <3>2, <3>3 DEF Next
    <3>5. ~Mark(c) /\ ~Describe(c) BY DEF Mark, Describe
    <3>6. ~Spawn(c) BY DEF Spawn
    <3> QED BY <3>4, <3>5, <3>6 DEF CallStep, ReadFile, Look, Kill, Prune
  <2>2. call[c] # NoCall
    BY <2>1, InCall DEF JobsInv, Remove, Points
  <2>3. DoomedEnded(call[c]) BY <2>2 DEF JobsInv
  <2>4. j \in call[c].doomed BY <2>1 DEF Remove
  <2> QED BY <2>3, <2>4 DEF DoomedEnded
<1> QED BY <1>1, JobsHolds, PTL DEF Spec

\* However many starts overlap, the jobs that are kept exceed MAX_RETAINED_JOBS by
\* less than their number: pruneTerminalJobs looks before it removes, and a start
\* describes its job long after it pruned.
THEOREM RetentionBoundedHolds ==
  ASSUME JobAssumption
  PROVE  Spec => []RetentionBounded
<1>1. Init => RetentionInv BY RetentionInitial
<1>2. JobsInv /\ RetentionInv /\ [Next]_vars => RetentionInv' BY RetentionStep
<1>3. JobsInv /\ RetentionInv => RetentionBounded BY RetentionContained DEF JobsInv
<1> QED BY <1>1, <1>2, <1>3, JobsHolds, PTL DEF Spec

================================================================================
