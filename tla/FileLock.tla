------------------------------- MODULE FileLock -------------------------------
(***************************************************************************)
(* The lock file that every JSON store of PiLink takes around a mutation   *)
(* (withStateLock and removeStaleLock of src/src/tasks.ts; work-loop.ts,   *)
(* collaboration-sessions.ts, memory.ts, auth.ts and agents/coordination.ts*)
(* repeat the same steps), and the mutation it protects: read the state    *)
(* file, replace it.                                                       *)
(*                                                                         *)
(* Several processes share the directory.  Inside one process the mutation *)
(* queue lets one operation at a time reach the lock, so a process is one  *)
(* thread here.  Every await on the file system is a step of its own, and  *)
(* a process may die between any two.  A token is never reused; it stands  *)
(* for the inode of its lock file too.                                     *)
(***************************************************************************)
EXTENDS Integers, FiniteSets

CONSTANTS
  Processes,
  MaxLocks,     \* bound: how many lock files are ever created
  MaxDeaths     \* bound: processes that die

ASSUME LockAssumption == IsFiniteSet(Processes) /\ {MaxLocks, MaxDeaths} \subseteq Nat

VARIABLES
  file,    \* the lock file: who created it, is its content written, is it old
  pc,      \* where each process is
  mine,    \* the token of the lock each process created last
  judged,  \* the lock that each remover examines
  seen,    \* the state each process read inside its critical section
  store,   \* the state file: the tokens of the operations it contains
  acked,   \* the operations whose callers were told that they succeeded
  locks,   \* how many locks have been created
  raced    \* history: a remover deleted a lock that it had not examined

vars == <<file, pc, mine, judged, seen, store, acked, locks, raced>>

Tokens == 1 .. MaxLocks
NoFile == [token |-> 0]
Lock   == [token : Tokens, by : Processes]
File   == [token : Tokens, by : Processes, written : BOOLEAN, old : BOOLEAN]

Holding  == {"locked", "loaded", "saved"}
Removing == {"stat", "read", "judge", "stat again", "read again", "remove"}
Phases   == {"idle", "open", "created", "release", "unlock", "dead"} \cup Holding \cup Removing

TypeOK ==
  /\ file \in File \cup {NoFile}
  /\ pc \in [Processes -> Phases]
  /\ mine \in [Processes -> 0 .. MaxLocks]
  /\ judged \in [Processes -> Lock \cup {NoFile}]
  /\ seen \in [Processes -> SUBSET (0 .. MaxLocks)]
  /\ store \in SUBSET (0 .. MaxLocks)
  /\ acked \in SUBSET (0 .. MaxLocks)
  /\ locks \in 0 .. MaxLocks
  /\ raced \in BOOLEAN

Init ==
  /\ file = NoFile
  /\ pc = [p \in Processes |-> "idle"]
  /\ mine = [p \in Processes |-> 0]
  /\ judged = [p \in Processes |-> NoFile]
  /\ seen = [p \in Processes |-> {}]
  /\ store = {}
  /\ acked = {}
  /\ locks = 0
  /\ raced = FALSE

Goto(p, phases) == \E phase \in phases : pc' = [pc EXCEPT ![p] = phase]

\* After a failed attempt: wait and open again, or throw at the deadline.
Retry == {"open", "idle"}

Alive(p) == pc[p] # "dead"

-----------------------------------------------------------------------------
(* Taking the lock. *)

Begin(p) ==
  /\ pc[p] = "idle"
  /\ Goto(p, {"open"})
  /\ UNCHANGED <<file, mine, judged, seen, store, acked, locks, raced>>

\* open(lockPath, "wx") creates an empty file, or fails with EEXIST.
Open(p) ==
  /\ pc[p] = "open"
  /\ \/ /\ file = NoFile /\ locks < MaxLocks
        /\ locks' = locks + 1
        /\ mine' = [mine EXCEPT ![p] = locks']
        /\ file' = [token |-> locks', by |-> p, written |-> FALSE, old |-> FALSE]
        /\ Goto(p, {"created"})
     \/ /\ file # NoFile
        /\ Goto(p, {"stat"})
        /\ UNCHANGED <<file, mine, locks>>
  /\ UNCHANGED <<judged, seen, store, acked, raced>>

\* The token is written through the handle: the file at lockPath gets it only
\* if it is still that file.  When the write or the sync fails, lockPath goes.
Initialize(p) ==
  /\ pc[p] = "created"
  /\ \/ /\ file' = IF file.token = mine[p] THEN [file EXCEPT !.written = TRUE] ELSE file
        /\ Goto(p, {"locked"})
     \/ /\ file' = NoFile
        /\ Goto(p, {"idle"})
  /\ UNCHANGED <<mine, judged, seen, store, acked, locks, raced>>

-----------------------------------------------------------------------------
(* The critical section: loadFreshState, then persistAndCache. *)

\* Mutant: the state that was cached by the last mutation of this process.
LoadCached(p) ==
  /\ pc[p] = "locked"
  /\ Goto(p, {"loaded"})
  /\ UNCHANGED <<file, mine, judged, seen, store, acked, locks, raced>>

Load(p) ==
  /\ pc[p] = "locked"
  /\ seen' = [seen EXCEPT ![p] = store]
  /\ Goto(p, {"loaded"})
  /\ UNCHANGED <<file, mine, judged, store, acked, locks, raced>>

\* The operation throws before the state file is renamed into place, or after
\* it (the directory's sync fails), or it succeeds.
Persist(p) ==
  /\ pc[p] = "loaded"
  /\ \/ /\ store' = seen[p] \cup {mine[p]}
        /\ seen' = [seen EXCEPT ![p] = store']
        /\ Goto(p, {"saved", "release"})
     \/ /\ Goto(p, {"release"})
        /\ UNCHANGED <<store, seen>>
  /\ UNCHANGED <<file, mine, judged, acked, locks, raced>>

-----------------------------------------------------------------------------
(* Giving the lock back: read it, compare the token, remove it. *)

ReadOwn(p) ==
  /\ pc[p] \in {"saved", "release"}
  /\ acked' = IF pc[p] = "saved" THEN acked \cup {mine[p]} ELSE acked
  /\ Goto(p, IF file # NoFile /\ file.token = mine[p] /\ file.written THEN {"unlock"} ELSE {"idle"})
  /\ UNCHANGED <<file, mine, judged, seen, store, locks, raced>>

Unlock(p) ==
  /\ pc[p] = "unlock"
  /\ file' = NoFile
  /\ Goto(p, {"idle"})
  /\ UNCHANGED <<mine, judged, seen, store, acked, locks, raced>>

-----------------------------------------------------------------------------
(***************************************************************************)
(* removeStaleLock: stat, read, judge, stat and read again, remove.  What  *)
(* the first two reads saw is one examined lock here: when they saw two    *)
(* different files, no later pair of reads can match them.                 *)
(***************************************************************************)
Leave(p) == Goto(p, Retry) /\ judged' = [judged EXCEPT ![p] = NoFile]

Same(p) == file # NoFile /\ file.token = judged[p].token

Stat(p) ==
  /\ pc[p] = "stat"
  /\ IF file # NoFile /\ file.old
       THEN /\ judged' = [judged EXCEPT ![p] = [token |-> file.token, by |-> file.by]]
            /\ Goto(p, {"read"})
       ELSE Leave(p)
  /\ UNCHANGED <<file, mine, seen, store, acked, locks, raced>>

\* An empty lock names no owner, and nobody removes it.
Read(p) ==
  /\ pc[p] = "read"
  /\ IF Same(p) /\ file.written
       THEN Goto(p, {"judge"}) /\ UNCHANGED judged
       ELSE Leave(p)
  /\ UNCHANGED <<file, mine, seen, store, acked, locks, raced>>

\* Mutants: the owner's process is not looked up; it is always taken for alive.
JudgeByAge(p) ==
  /\ pc[p] = "judge"
  /\ Goto(p, {"stat again"}) /\ UNCHANGED judged
  /\ UNCHANGED <<file, mine, seen, store, acked, locks, raced>>

JudgeAlive(p) ==
  /\ pc[p] = "judge"
  /\ Leave(p)
  /\ UNCHANGED <<file, mine, seen, store, acked, locks, raced>>

\* isProcessAlive(ownerPid)
Judge(p) ==
  /\ pc[p] = "judge"
  /\ IF Alive(judged[p].by)
       THEN Leave(p)
       ELSE Goto(p, {"stat again"}) /\ UNCHANGED judged
  /\ UNCHANGED <<file, mine, seen, store, acked, locks, raced>>

StatAgain(p) ==
  /\ pc[p] = "stat again"
  /\ IF Same(p) THEN Goto(p, {"read again"}) /\ UNCHANGED judged ELSE Leave(p)
  /\ UNCHANGED <<file, mine, seen, store, acked, locks, raced>>

ReadAgain(p) ==
  /\ pc[p] = "read again"
  /\ IF Same(p) /\ file.written THEN Goto(p, {"remove"}) /\ UNCHANGED judged ELSE Leave(p)
  /\ UNCHANGED <<file, mine, seen, store, acked, locks, raced>>

\* rm(lockPath) deletes whatever is there by now.
Remove(p) ==
  /\ pc[p] = "remove"
  /\ file' = NoFile
  /\ raced' = (raced \/ (file # NoFile /\ ~Same(p)))
  /\ Leave(p)
  /\ UNCHANGED <<mine, seen, store, acked, locks>>

-----------------------------------------------------------------------------
\* Half a minute passes.
Age ==
  /\ file # NoFile /\ ~file.old
  /\ file' = [file EXCEPT !.old = TRUE]
  /\ UNCHANGED <<pc, mine, judged, seen, store, acked, locks, raced>>

\* The process is killed; its lock file stays.
Die(p) ==
  /\ Alive(p)
  /\ Cardinality({q \in Processes : ~Alive(q)}) < MaxDeaths
  /\ Goto(p, {"dead"})
  /\ UNCHANGED <<file, mine, judged, seen, store, acked, locks, raced>>

Step(p) ==
  \/ Open(p) \/ Initialize(p) \/ Load(p) \/ Persist(p) \/ ReadOwn(p) \/ Unlock(p)
  \/ Stat(p) \/ Read(p) \/ Judge(p) \/ StatAgain(p) \/ ReadAgain(p) \/ Remove(p)

Next == Age \/ \E p \in Processes : Begin(p) \/ Step(p) \/ Die(p)

Spec == Init /\ [][Next]_vars

\* A process that is alive goes on with what it started.
FairSpec == Spec /\ \A p \in Processes : WF_vars(Step(p))

-----------------------------------------------------------------------------
(* Safety. *)

\* Two operations are never inside the lock at once, however they overlap with
\* crashes and with removers of stale locks, as long as no remover deleted a
\* lock other than the one it had examined.
Exclusive ==
  ~raced => \A p, q \in Processes : pc[p] \in Holding /\ pc[q] \in Holding => p = q

\* Under the same condition an operation that was reported as done is in the
\* state file for good: no other operation writes a state that it read before.
NoLostUpdate == ~raced => acked \subseteq store

\* "A replacement lock belongs to a new operation and must not be removed even
\* when the previous owner is dead" (tasks.ts, removeStaleLock).
ReplacementKept == ~raced

-----------------------------------------------------------------------------
(* Liveness. *)

Abandoned == /\ file # NoFile
             /\ file.old /\ file.written /\ ~Alive(file.by)

\* The old lock of a dead process does not outlast one attempt to remove it: a
\* store is not blocked by a crash inside an operation.  (A crash between the
\* creation and the initialisation of a lock blocks it: that lock is empty.)
AbandonedLockGoes ==
  \A p \in Processes : pc[p] = "stat" /\ Abandoned ~> ~Abandoned \/ ~Alive(p)

=============================================================================
