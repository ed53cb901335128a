---------------------------- MODULE FileLockProofs ----------------------------
(***************************************************************************)
(* FileLock excludes operations and loses no update, for any number of     *)
(* processes and locks, as long as no remover deleted a replacement lock.  *)
(***************************************************************************)
EXTENDS FileLock, TLAPS

\* Where a process has created a lock that it has not given back.
Owning == {"created", "release", "unlock"} \cup Holding

\* A process that owns a lock finds it at lockPath.
Owned ==
  \A p \in Processes : pc[p] \in Owning =>
    /\ file \in File /\ file.token = mine[p] /\ file.by = p

\* Tokens are handed out in order, and name their creators.
Numbered ==
  /\ file # NoFile => file.token <= locks
  /\ \A p \in Processes : judged[p] # NoFile =>
       /\ judged[p].token <= locks
       /\ file # NoFile /\ file.token = judged[p].token => file.by = judged[p].by

\* Whoever is about to remove a lock has found its owner dead.
JudgedDead ==
  \A p \in Processes :
    /\ pc[p] \in Removing \ {"stat"} => judged[p] # NoFile
    /\ pc[p] \in {"stat again", "read again", "remove"} => ~Alive(judged[p].by)

\* What the operation inside the lock knows of the state file.
Fresh ==
  /\ acked \subseteq store
  /\ \A p \in Processes : /\ pc[p] = "loaded" => seen[p] = store
                          /\ pc[p] = "saved" => mine[p] \in store

(***************************************************************************)
(* The inductive invariant.  Exclusive says nothing of who owns the file   *)
(* at lockPath, nor of what removers have seen: Owned and JudgedDead do.   *)
(***************************************************************************)
LockInv ==
  /\ TypeOK
  /\ Numbered
  /\ JudgedDead
  /\ ~raced => Owned /\ Fresh

LEMMA NoFileIsNone == NoFile \notin File /\ NoFile \notin Lock
BY DEF NoFile, File, Lock

LEMMA LockInit == Init => LockInv
<1> SUFFICES ASSUME Init PROVE LockInv
  OBVIOUS
<1>1. 0 \in 0 .. MaxLocks BY LockAssumption
<1>2. TypeOK BY <1>1 DEF Init, TypeOK, Phases
<1> QED BY <1>2 DEF Init, LockInv, Numbered, JudgedDead, Owned, Owning, Fresh, Holding, Removing

-----------------------------------------------------------------------------
(* What a step of one process leaves alone. *)

\* Process p moves to one of the phases X; the others stay where they are.
Moved(p, X) ==
  /\ pc' \in [Processes -> Phases]
  /\ pc'[p] \in X
  /\ \A q \in Processes \ {p} : pc'[q] = pc[q]

LEMMA GotoMoves ==
  ASSUME TypeOK, NEW p \in Processes, NEW X \in SUBSET Phases, Goto(p, X)
  PROVE  Moved(p, X)
BY DEF Goto, TypeOK, Moved

LEMMA LeaveMoves ==
  ASSUME TypeOK, NEW p \in Processes, Leave(p)
  PROVE  /\ Moved(p, Retry)
         /\ judged' \in [Processes -> Lock \cup {NoFile}]
         /\ judged'[p] = NoFile
         /\ \A q \in Processes \ {p} : judged'[q] = judged[q]
<1>1. Retry \in SUBSET Phases BY DEF Retry, Phases
<1>2. Moved(p, Retry) BY <1>1, GotoMoves DEF Leave
<1> QED BY <1>2 DEF Leave, TypeOK

\* The dead stay dead: only what p itself is about to remove needs a look.
LEMMA StillDead ==
  ASSUME TypeOK, JudgedDead, NEW p \in Processes, Alive(p), NEW X, Moved(p, X),
         \A q \in Processes \ {p} : judged'[q] = judged[q],
         pc'[p] \in Removing \ {"stat"} => judged'[p] \in Lock,
         pc'[p] \in {"stat again", "read again", "remove"} => ~Alive(judged'[p].by)
  PROVE  JudgedDead'
<1> SUFFICES ASSUME NEW q \in Processes
             PROVE  /\ pc'[q] \in Removing \ {"stat"} => judged'[q] # NoFile
                    /\ pc'[q] \in {"stat again", "read again", "remove"}
                         => pc'[judged'[q].by] = "dead"
  BY DEF JudgedDead, Alive
<1>1. CASE q = p
  <2>1. judged'[p] \in Lock => judged'[p] # NoFile /\ judged'[p].by \in Processes
    BY NoFileIsNone DEF Lock
  <2>2. {"stat again", "read again", "remove"} \subseteq Removing \ {"stat"} BY DEF Removing
  <2> QED BY <1>1, <2>1, <2>2 DEF Alive, Moved
<1>2. CASE q # p
  <2>1. judged[q] # NoFile => judged[q] \in Lock BY DEF TypeOK
  <2>2. judged[q] # NoFile => judged[q].by \in Processes BY <2>1 DEF Lock
  <2>3. {"stat again", "read again", "remove"} \subseteq Removing \ {"stat"} BY DEF Removing
  <2> QED BY <1>2, <2>2, <2>3 DEF JudgedDead, Alive, Moved
<1> QED BY <1>1, <1>2

\* Nobody's lock goes while the lock file and the tokens stay.
LEMMA StillOwned ==
  ASSUME NEW p \in Processes, NEW X, Moved(p, X), Owned, file' = file, mine' = mine,
         pc'[p] \in Owning => pc[p] \in Owning
  PROVE  Owned'
BY DEF Owned, Moved

\* Nobody else is inside the lock.
LEMMA OtherOutside ==
  ASSUME Owned, NEW p \in Processes, pc[p] \in Owning, NEW q \in Processes \ {p}
  PROVE  pc[q] \notin Owning
BY DEF Owned

LEMMA StillFresh ==
  ASSUME NEW p \in Processes, NEW X, Moved(p, X), Fresh,
         UNCHANGED <<mine, seen, store, acked>>, pc'[p] \notin {"loaded", "saved"}
  PROVE  Fresh'
BY DEF Fresh, Moved

LEMMA StillNumbered ==
  ASSUME Numbered, NEW p \in Processes,
         file' = file \/ file' = NoFile, locks' = locks,
         \A q \in Processes : judged'[q] \in {judged[q], NoFile}
  PROVE  Numbered'
BY DEF Numbered

-----------------------------------------------------------------------------
(* One lemma per action. *)

LEMMA BeginInv ==
  ASSUME NEW p \in Processes PROVE LockInv /\ Begin(p) => LockInv'
<1> SUFFICES ASSUME LockInv, Begin(p) PROVE LockInv'
  OBVIOUS
<1>1. TypeOK /\ Numbered /\ JudgedDead BY DEF LockInv
<1>2. Alive(p) /\ pc[p] \notin Owning BY DEF Begin, Alive, Owning, Holding
<1>3. Moved(p, {"open"})
  <2>1. {"open"} \in SUBSET Phases BY DEF Phases
  <2> QED BY <1>1, <2>1, GotoMoves DEF Begin
<1>4. pc'[p] \notin Removing \cup Owning
  BY <1>3 DEF Moved, Removing, Owning, Holding
<1>5. UNCHANGED <<file, mine, judged, seen, store, acked, locks, raced>> BY DEF Begin
<1>6. TypeOK' BY <1>1, <1>3, <1>5 DEF TypeOK, Moved
<1>7. Numbered' BY <1>1, <1>5, StillNumbered
<1>8. JudgedDead'
  <2>1. pc'[p] \notin {"stat again", "read again", "remove"} BY <1>4 DEF Removing
  <2> QED BY <1>1, <1>2, <1>3, <1>4, <1>5, <2>1, StillDead
<1>9. ~raced' => Owned' /\ Fresh'
  <2>1. pc'[p] \notin {"loaded", "saved"} BY <1>4 DEF Owning, Holding
  <2> QED BY <1>3, <1>4, <1>5, <2>1, StillOwned, StillFresh DEF LockInv
<1> QED BY <1>6, <1>7, <1>8, <1>9 DEF LockInv

LEMMA OpenInv ==
  ASSUME NEW p \in Processes PROVE LockInv /\ Open(p) => LockInv'
<1> SUFFICES ASSUME LockInv, Open(p) PROVE LockInv'
  OBVIOUS
<1>1. TypeOK /\ Numbered /\ JudgedDead BY DEF LockInv
<1>2. Alive(p) /\ pc[p] \notin Owning BY DEF Open, Alive, Owning, Holding
<1>3. UNCHANGED <<judged, seen, store, acked, raced>> BY DEF Open
<1>4. CASE /\ file = NoFile /\ locks < MaxLocks
           /\ locks' = locks + 1
           /\ mine' = [mine EXCEPT ![p] = locks']
           /\ file' = [token |-> locks', by |-> p, written |-> FALSE, old |-> FALSE]
           /\ Goto(p, {"created"})
  <2>1. Moved(p, {"created"})
    <3>1. {"created"} \in SUBSET Phases BY DEF Phases
    <3> QED BY <1>1, <1>4, <3>1, GotoMoves
  <2>2. locks \in Nat /\ locks' \in Tokens BY <1>1, <1>4, LockAssumption DEF TypeOK, Tokens
  <2>3. /\ file' \in File /\ file'.token = locks' /\ file'.by = p BY <1>4, <2>2 DEF File
  <2>4. /\ mine' \in [Processes -> 0 .. MaxLocks] /\ mine'[p] = locks'
        /\ \A q \in Processes \ {p} : mine'[q] = mine[q]
    BY <1>1, <1>4, <2>2 DEF TypeOK, Tokens
  <2>5. TypeOK' BY <1>1, <1>3, <2>1, <2>2, <2>3, <2>4 DEF TypeOK, Moved, Tokens
  <2>6. Numbered'
    <3>1. \A q \in Processes : judged[q] # NoFile => judged[q].token \in Nat
      BY <1>1 DEF TypeOK, Lock, Tokens
    <3> QED BY <1>1, <1>3, <1>4, <2>2, <2>3, <3>1 DEF Numbered
  <2>7. JudgedDead'
    <3>1. pc'[p] \notin Removing /\ pc'[p] \notin {"stat again", "read again", "remove"}
      BY <2>1 DEF Moved, Removing
    <3> QED BY <1>1, <1>2, <1>3, <2>1, <3>1, StillDead
  <2>8. ~raced' => Owned'
    <3> SUFFICES ASSUME ~raced, NEW q \in Processes, pc'[q] \in Owning
                 PROVE  /\ file' \in File /\ file'.token = mine'[q] /\ file'.by = q
      BY <1>3 DEF Owned
    <3>1. q = p BY <1>4, <2>1, NoFileIsNone DEF Moved, LockInv, Owned
    <3> QED BY <2>3, <2>4, <3>1
  <2>9. ~raced' => Fresh'
    <3> SUFFICES ASSUME ~raced PROVE Fresh'
      BY <1>3
    <3>1. pc'[p] \notin {"loaded", "saved"} BY <2>1 DEF Moved
    <3> QED BY <1>3, <2>1, <2>4, <3>1 DEF LockInv, Fresh, Moved
  <2> QED BY <2>5, <2>6, <2>7, <2>8, <2>9 DEF LockInv
<1>5. CASE file # NoFile /\ Goto(p, {"stat"}) /\ UNCHANGED <<file, mine, locks>>
  <2>1. Moved(p, {"stat"})
    <3>1. {"stat"} \in SUBSET Phases BY DEF Phases, Removing
    <3> QED BY <1>1, <1>5, <3>1, GotoMoves
  <2>2. /\ pc'[p] \notin Removing \ {"stat"} /\ pc'[p] \notin Owning
        /\ pc'[p] \notin {"stat again", "read again", "remove"}
        /\ pc'[p] \notin {"loaded", "saved"}
    BY <2>1 DEF Moved, Owning, Holding
  <2>3. TypeOK' BY <1>1, <1>3, <1>5, <2>1 DEF TypeOK, Moved
  <2>4. Numbered' BY <1>1, <1>3, <1>5, StillNumbered
  <2>5. JudgedDead' BY <1>1, <1>2, <1>3, <2>1, <2>2, StillDead
  <2>6. ~raced' => Owned' /\ Fresh'
    BY <1>3, <1>5, <2>1, <2>2, StillOwned, StillFresh DEF LockInv
  <2> QED BY <2>3, <2>4, <2>5, <2>6 DEF LockInv
<1> QED BY <1>4, <1>5 DEF Open

LEMMA InitializeInv ==
  ASSUME NEW p \in Processes PROVE LockInv /\ Initialize(p) => LockInv'
<1> SUFFICES ASSUME LockInv, Initialize(p) PROVE LockInv'
  OBVIOUS
<1>1. TypeOK /\ Numbered /\ JudgedDead BY DEF LockInv
<1>2. Alive(p) /\ pc[p] \in Owning BY DEF Initialize, Alive, Owning
<1>3. UNCHANGED <<mine, judged, seen, store, acked, locks, raced>> BY DEF Initialize
<1>4. Moved(p, {"locked", "idle"})
  <2>1. {"locked"} \in SUBSET Phases /\ {"idle"} \in SUBSET Phases BY DEF Phases, Holding
  <2>2. Moved(p, {"locked"}) \/ Moved(p, {"idle"})
    BY <1>1, <2>1, GotoMoves DEF Initialize
  <2> QED BY <2>2 DEF Moved
<1>5. /\ pc'[p] \notin Removing /\ pc'[p] \notin {"stat again", "read again", "remove"}
      /\ pc'[p] \notin {"loaded", "saved"}
  BY <1>4 DEF Moved, Removing
<1>6. \/ file' = NoFile /\ pc'[p] = "idle"
      \/ /\ file' = IF file.token = mine[p] THEN [file EXCEPT !.written = TRUE] ELSE file
         /\ pc'[p] = "locked"
  BY <1>1 DEF Initialize, Goto, TypeOK
<1>7. \/ file' = NoFile /\ pc'[p] = "idle"
      \/ /\ file # NoFile => /\ file' \in File
                             /\ file'.token = file.token /\ file'.by = file.by
         /\ file = NoFile => file' = NoFile
         /\ pc'[p] = "locked"
  <2>1. mine[p] \in Nat BY <1>1, LockAssumption DEF TypeOK
  <2>2. file # NoFile => file \in File BY <1>1 DEF TypeOK
  <2>3. ASSUME file # NoFile
        PROVE  /\ [file EXCEPT !.written = TRUE] \in File
               /\ [file EXCEPT !.written = TRUE].token = file.token
               /\ [file EXCEPT !.written = TRUE].by = file.by
    BY <2>2, <2>3 DEF File
  <2>4. CASE file # NoFile BY <1>6, <2>2, <2>3, <2>4
  <2>5. CASE file = NoFile
    <3>1. [file EXCEPT !.written = TRUE] = NoFile BY <2>5 DEF NoFile
    <3> QED BY <1>6, <2>5, <3>1
  <2> QED BY <2>4, <2>5
<1>8. file' \in File \cup {NoFile} BY <1>7
<1>9. TypeOK' BY <1>1, <1>3, <1>4, <1>8 DEF TypeOK, Moved
<1>10. Numbered' BY <1>1, <1>3, <1>7 DEF Numbered
<1>11. JudgedDead' BY <1>1, <1>2, <1>3, <1>4, <1>5, StillDead
<1>12. ~raced' => Owned'
  <2> SUFFICES ASSUME ~raced, NEW q \in Processes, pc'[q] \in Owning
               PROVE  /\ file' \in File /\ file'.token = mine'[q] /\ file'.by = q
    BY <1>3 DEF Owned
  <2>1. Owned BY DEF LockInv
  <2>2. q = p BY <1>2, <1>4, <2>1, OtherOutside DEF Moved
  <2>3. file \in File /\ file.token = mine[p] /\ file.by = p BY <1>2, <2>1 DEF Owned
  <2>4. pc'[p] # "idle" BY <2>2 DEF Owning, Holding
  <2> QED BY <1>3, <1>7, <2>2, <2>3, <2>4, NoFileIsNone
<1>13. ~raced' => Fresh'
  BY <1>3, <1>4, <1>5, StillFresh DEF LockInv
<1> QED BY <1>9, <1>10, <1>11, <1>12, <1>13 DEF LockInv

LEMMA LoadInv ==
  ASSUME NEW p \in Processes PROVE LockInv /\ Load(p) => LockInv'
<1> SUFFICES ASSUME LockInv, Load(p) PROVE LockInv'
  OBVIOUS
<1>1. TypeOK /\ Numbered /\ JudgedDead BY DEF LockInv
<1>2. Alive(p) /\ pc[p] \in Owning BY DEF Load, Alive, Owning, Holding
<1>3. UNCHANGED <<file, mine, judged, store, acked, locks, raced>> BY DEF Load
<1>4. Moved(p, {"loaded"})
  <2>1. {"loaded"} \in SUBSET Phases BY DEF Phases, Holding
  <2> QED BY <1>1, <2>1, GotoMoves DEF Load
<1>5. pc'[p] \notin Removing /\ pc'[p] \notin {"stat again", "read again", "remove"}
  BY <1>4 DEF Moved, Removing
<1>6. /\ seen' \in [Processes -> SUBSET (0 .. MaxLocks)] /\ seen'[p] = store
      /\ \A q \in Processes \ {p} : seen'[q] = seen[q]
  BY <1>1 DEF Load, TypeOK
<1>7. TypeOK' BY <1>1, <1>3, <1>4, <1>6 DEF TypeOK, Moved
<1>8. Numbered' BY <1>1, <1>3, StillNumbered
<1>9. JudgedDead' BY <1>1, <1>2, <1>3, <1>4, <1>5, StillDead
<1>10. ~raced' => Owned' BY <1>2, <1>3, <1>4, StillOwned DEF LockInv
<1>11. ~raced' => Fresh' BY <1>3, <1>4, <1>6 DEF LockInv, Fresh, Moved
<1> QED BY <1>7, <1>8, <1>9, <1>10, <1>11 DEF LockInv

LEMMA PersistInv ==
  ASSUME NEW p \in Processes PROVE LockInv /\ Persist(p) => LockInv'
<1> SUFFICES ASSUME LockInv, Persist(p) PROVE LockInv'
  OBVIOUS
<1>1. TypeOK /\ Numbered /\ JudgedDead BY DEF LockInv
<1>2. /\ Alive(p) /\ pc[p] \in Owning /\ pc[p] = "loaded"
  BY DEF Persist, Alive, Owning, Holding
<1>3. UNCHANGED <<file, mine, judged, acked, locks, raced>> BY DEF Persist
<1>4. Moved(p, {"saved", "release"})
  <2>1. {"saved", "release"} \in SUBSET Phases /\ {"release"} \in SUBSET Phases
    BY DEF Phases, Holding
  <2>2. Moved(p, {"saved", "release"}) \/ Moved(p, {"release"})
    BY <1>1, <2>1, GotoMoves DEF Persist
  <2> QED BY <2>2 DEF Moved
<1>5. pc'[p] \notin Removing /\ pc'[p] \notin {"stat again", "read again", "remove"}
  BY <1>4 DEF Moved, Removing
<1>6. Numbered' BY <1>1, <1>3, StillNumbered
<1>7. JudgedDead' BY <1>1, <1>2, <1>3, <1>4, <1>5, StillDead
<1>8. ~raced' => Owned' BY <1>2, <1>3, <1>4, StillOwned DEF LockInv
<1>9. CASE /\ store' = seen[p] \cup {mine[p]}
           /\ seen' = [seen EXCEPT ![p] = store']
           /\ Goto(p, {"saved", "release"})
  <2>1. pc'[p] # "loaded" BY <1>4 DEF Moved
  <2>2. TypeOK' BY <1>1, <1>3, <1>4, <1>9 DEF TypeOK, Moved
  <2>3. ~raced' => Fresh'
    <3> SUFFICES ASSUME ~raced PROVE Fresh'
      BY <1>3
    <3>1. Owned /\ Fresh BY DEF LockInv
    <3>2. store' = store \cup {mine[p]} BY <1>2, <1>9, <3>1 DEF Fresh
    <3>3. \A q \in Processes \ {p} : pc'[q] \notin {"loaded", "saved"}
      <4>1. {"loaded", "saved"} \subseteq Owning BY DEF Owning, Holding
      <4> QED BY <1>2, <1>4, <3>1, <4>1, OtherOutside DEF Moved
    <3> QED BY <1>3, <1>4, <2>1, <3>1, <3>2, <3>3 DEF Fresh, Moved
  <2> QED BY <1>6, <1>7, <1>8, <2>2, <2>3 DEF LockInv
<1>10. CASE Goto(p, {"release"}) /\ UNCHANGED <<store, seen>>
  <2>1. Moved(p, {"release"})
    <3>1. {"release"} \in SUBSET Phases BY DEF Phases
    <3> QED BY <1>1, <1>10, <3>1, GotoMoves
  <2>2. TypeOK' BY <1>1, <1>3, <1>10, <2>1 DEF TypeOK, Moved
  <2>3. pc'[p] \notin {"loaded", "saved"} BY <2>1 DEF Moved
  <2>4. ~raced' => Fresh' BY <1>3, <1>10, <2>1, <2>3, StillFresh DEF LockInv
  <2> QED BY <1>6, <1>7, <1>8, <2>2, <2>4 DEF LockInv
<1> QED BY <1>9, <1>10 DEF Persist

LEMMA ReadOwnInv ==
  ASSUME NEW p \in Processes PROVE LockInv /\ ReadOwn(p) => LockInv'
<1> SUFFICES ASSUME LockInv, ReadOwn(p) PROVE LockInv'
  OBVIOUS
<1>1. TypeOK /\ Numbered /\ JudgedDead BY DEF LockInv
<1>2. Alive(p) /\ pc[p] \in Owning BY DEF ReadOwn, Alive, Owning, Holding
<1>3. UNCHANGED <<file, mine, judged, seen, store, locks, raced>> BY DEF ReadOwn
<1>4. Moved(p, {"unlock", "idle"})
  <2>1. {"unlock"} \in SUBSET Phases /\ {"idle"} \in SUBSET Phases BY DEF Phases
  <2>2. Moved(p, {"unlock"}) \/ Moved(p, {"idle"}) BY <1>1, <2>1, GotoMoves DEF ReadOwn
  <2> QED BY <2>2 DEF Moved
<1>5. /\ pc'[p] \notin Removing /\ pc'[p] \notin {"stat again", "read again", "remove"}
      /\ pc'[p] \notin {"loaded", "saved"}
  BY <1>4 DEF Moved, Removing
<1>6. TypeOK' BY <1>1, <1>3, <1>4 DEF ReadOwn, TypeOK, Moved
<1>7. Numbered' BY <1>1, <1>3, StillNumbered
<1>8. JudgedDead' BY <1>1, <1>2, <1>3, <1>4, <1>5, StillDead
<1>9. ~raced' => Owned' BY <1>2, <1>3, <1>4, StillOwned DEF LockInv
<1>10. ~raced' => Fresh'
  <2> SUFFICES ASSUME ~raced PROVE Fresh'
    BY <1>3
  <2>1. acked' \subseteq store BY DEF ReadOwn, LockInv, Fresh
  <2> QED BY <1>3, <1>4, <1>5, <2>1 DEF LockInv, Fresh, Moved
<1> QED BY <1>6, <1>7, <1>8, <1>9, <1>10 DEF LockInv

\* The lock file goes: harmless if nobody else's lock is there.
LEMMA GoneInv ==
  ASSUME LockInv, NEW p \in Processes, Alive(p), NEW X, Moved(p, X), file' = NoFile,
         pc'[p] \notin Owning \cup Removing,
         UNCHANGED <<mine, seen, store, acked, locks>>,
         judged' \in [Processes -> Lock \cup {NoFile}],
         \A q \in Processes \ {p} : judged'[q] = judged[q],
         judged'[p] \in {judged[p], NoFile},
         raced' \in BOOLEAN, ~raced' => ~raced,
         ~raced' => \A q \in Processes \ {p} : pc[q] \notin Owning
  PROVE  LockInv'
<1>1. TypeOK /\ Numbered /\ JudgedDead BY DEF LockInv
<1>2. pc'[p] \notin {"stat again", "read again", "remove"} BY DEF Removing
<1>3. pc'[p] \notin {"loaded", "saved"} BY DEF Owning, Holding
<1>4. TypeOK' BY <1>1 DEF TypeOK, Moved
<1>5. Numbered' BY <1>1, StillNumbered
<1>6. JudgedDead' BY <1>1, <1>2, StillDead
<1>7. ~raced' => Owned' BY DEF Owned, Moved
<1>8. ~raced' => Fresh' BY <1>3, StillFresh DEF LockInv
<1> QED BY <1>4, <1>5, <1>6, <1>7, <1>8 DEF LockInv

LEMMA UnlockInv ==
  ASSUME NEW p \in Processes PROVE LockInv /\ Unlock(p) => LockInv'
<1> SUFFICES ASSUME LockInv, Unlock(p) PROVE LockInv'
  OBVIOUS
<1>1. Alive(p) /\ pc[p] \in Owning BY DEF Unlock, Alive, Owning
<1>2. Moved(p, {"idle"})
  <2>1. {"idle"} \in SUBSET Phases BY DEF Phases
  <2> QED BY <2>1, GotoMoves DEF Unlock, LockInv
<1>3. pc'[p] \notin Owning \cup Removing BY <1>2 DEF Moved, Owning, Holding, Removing
<1>4. ~raced => \A q \in Processes \ {p} : pc[q] \notin Owning
  BY <1>1, OtherOutside DEF LockInv
<1>5. /\ raced' = raced /\ raced \in BOOLEAN /\ judged' = judged
      /\ judged \in [Processes -> Lock \cup {NoFile}]
  BY DEF Unlock, LockInv, TypeOK
<1> QED BY <1>1, <1>2, <1>3, <1>4, <1>5, GoneInv DEF Unlock

LEMMA RemoveInv ==
  ASSUME NEW p \in Processes PROVE LockInv /\ Remove(p) => LockInv'
<1> SUFFICES ASSUME LockInv, Remove(p) PROVE LockInv'
  OBVIOUS
<1>1. Alive(p) /\ pc[p] = "remove" BY DEF Remove, Alive
<1>2. /\ Moved(p, Retry)
      /\ judged' \in [Processes -> Lock \cup {NoFile}]
      /\ judged'[p] = NoFile
      /\ \A q \in Processes \ {p} : judged'[q] = judged[q]
  BY LeaveMoves DEF Remove, LockInv
<1>3. pc'[p] \notin Owning \cup Removing
  BY <1>2 DEF Moved, Retry, Owning, Holding, Removing
<1>4. ~raced' => ~raced /\ (file = NoFile \/ Same(p)) BY DEF Remove
<1>5. ~raced' => \A q \in Processes \ {p} : pc[q] \notin Owning
  <2> SUFFICES ASSUME ~raced', NEW q \in Processes \ {p}, pc[q] \in Owning PROVE FALSE
    OBVIOUS
  <2>1. file \in File /\ file.by = q BY <1>4 DEF LockInv, Owned
  <2>2. judged[p] # NoFile /\ ~Alive(judged[p].by)
    BY <1>1 DEF LockInv, JudgedDead, Removing
  <2>3. file.by = judged[p].by
    BY <1>4, <2>1, <2>2, NoFileIsNone DEF LockInv, Numbered, Same
  <2>4. Alive(q) BY DEF Alive, Owning, Holding
  <2> QED BY <2>1, <2>2, <2>3, <2>4
<1>6. raced' \in BOOLEAN BY DEF Remove, LockInv, TypeOK
<1> QED BY <1>1, <1>2, <1>3, <1>4, <1>5, <1>6, GoneInv DEF Remove

\* A remover looks at the lock file, and goes on or leaves.
LEMMA LookInv ==
  ASSUME LockInv, NEW p \in Processes, Alive(p), NEW X, Moved(p, X),
         pc'[p] \notin Owning,
         UNCHANGED <<file, mine, seen, store, acked, locks, raced>>,
         judged' \in [Processes -> Lock \cup {NoFile}],
         \A q \in Processes \ {p} : judged'[q] = judged[q],
         \/ judged'[p] \in {judged[p], NoFile}
         \/ file \in File /\ judged'[p].token = file.token /\ judged'[p].by = file.by,
         pc'[p] \in Removing \ {"stat"} => judged'[p] \in Lock,
         pc'[p] \in {"stat again", "read again", "remove"} => ~Alive(judged'[p].by)
  PROVE  LockInv'
<1>1. TypeOK /\ Numbered /\ JudgedDead BY DEF LockInv
<1>2. pc'[p] \notin {"loaded", "saved"} BY DEF Owning, Holding
<1>3. TypeOK' BY <1>1 DEF TypeOK, Moved
<1>4. Numbered' BY <1>1, NoFileIsNone DEF Numbered
<1>5. JudgedDead' BY <1>1, StillDead
<1>6. ~raced' => Owned' BY StillOwned DEF LockInv
<1>7. ~raced' => Fresh' BY <1>2, StillFresh DEF LockInv
<1> QED BY <1>3, <1>4, <1>5, <1>6, <1>7 DEF LockInv

\* A remover that leaves is harmless.
LEMMA LeaveInv ==
  ASSUME LockInv, NEW p \in Processes, Alive(p), Leave(p),
         UNCHANGED <<file, mine, seen, store, acked, locks, raced>>
  PROVE  LockInv'
<1>1. /\ Moved(p, Retry)
      /\ judged' \in [Processes -> Lock \cup {NoFile}]
      /\ judged'[p] = NoFile
      /\ \A q \in Processes \ {p} : judged'[q] = judged[q]
  BY LeaveMoves DEF LockInv
<1>2. /\ pc'[p] \notin Owning /\ pc'[p] \notin Removing
      /\ pc'[p] \notin {"stat again", "read again", "remove"}
  BY <1>1 DEF Moved, Retry, Owning, Holding, Removing
<1> QED BY <1>1, <1>2, LookInv

LEMMA StatInv ==
  ASSUME NEW p \in Processes PROVE LockInv /\ Stat(p) => LockInv'
<1> SUFFICES ASSUME LockInv, Stat(p) PROVE LockInv'
  OBVIOUS
<1>1. /\ Alive(p) /\ UNCHANGED <<file, mine, seen, store, acked, locks, raced>>
  BY DEF Stat, Alive
<1>2. CASE Leave(p) BY <1>1, <1>2, LeaveInv
<1>3. CASE /\ file # NoFile
           /\ judged' = [judged EXCEPT ![p] = [token |-> file.token, by |-> file.by]]
           /\ Goto(p, {"read"})
  <2>1. Moved(p, {"read"})
    <3>1. {"read"} \in SUBSET Phases BY DEF Phases, Removing
    <3> QED BY <1>3, <3>1, GotoMoves DEF LockInv
  <2>2. pc'[p] = "read" BY <2>1 DEF Moved
  <2>3. pc'[p] \notin Owning BY <2>2 DEF Owning, Holding
  <2>4. file \in File BY <1>3 DEF LockInv, TypeOK
  <2>5. [token |-> file.token, by |-> file.by] \in Lock BY <2>4 DEF File, Lock
  <2>6. /\ judged' \in [Processes -> Lock \cup {NoFile}]
        /\ judged'[p] \in Lock /\ judged'[p].token = file.token /\ judged'[p].by = file.by
        /\ \A q \in Processes \ {p} : judged'[q] = judged[q]
    BY <1>3, <2>5 DEF LockInv, TypeOK
  <2> QED BY <1>1, <2>1, <2>2, <2>3, <2>4, <2>6, LookInv
<1> QED BY <1>2, <1>3 DEF Stat

LEMMA ReadInv ==
  ASSUME NEW p \in Processes PROVE LockInv /\ Read(p) => LockInv'
<1> SUFFICES ASSUME LockInv, Read(p) PROVE LockInv'
  OBVIOUS
<1>1. /\ Alive(p) /\ pc[p] = "read"
      /\ UNCHANGED <<file, mine, seen, store, acked, locks, raced>>
  BY DEF Read, Alive
<1>2. CASE Leave(p) BY <1>1, <1>2, LeaveInv
<1>3. CASE Goto(p, {"judge"}) /\ UNCHANGED judged
  <2>1. Moved(p, {"judge"})
    <3>1. {"judge"} \in SUBSET Phases BY DEF Phases, Removing
    <3> QED BY <1>3, <3>1, GotoMoves DEF LockInv
  <2>2. pc'[p] = "judge" BY <2>1 DEF Moved
  <2>3. pc'[p] \notin Owning BY <2>2 DEF Owning, Holding
  <2>4. judged[p] # NoFile
    BY <1>1 DEF LockInv, JudgedDead, Removing
  <2>5. judged \in [Processes -> Lock \cup {NoFile}] BY DEF LockInv, TypeOK
  <2> QED BY <1>1, <1>3, <2>1, <2>2, <2>3, <2>4, <2>5, LookInv
<1> QED BY <1>2, <1>3 DEF Read

LEMMA JudgeInv ==
  ASSUME NEW p \in Processes PROVE LockInv /\ Judge(p) => LockInv'
<1> SUFFICES ASSUME LockInv, Judge(p) PROVE LockInv'
  OBVIOUS
<1>1. /\ Alive(p) /\ pc[p] = "judge"
      /\ UNCHANGED <<file, mine, seen, store, acked, locks, raced>>
  BY DEF Judge, Alive
<1>2. CASE Leave(p) BY <1>1, <1>2, LeaveInv
<1>3. CASE Goto(p, {"stat again"}) /\ UNCHANGED judged /\ ~Alive(judged[p].by)
  <2>1. Moved(p, {"stat again"})
    <3>1. {"stat again"} \in SUBSET Phases BY DEF Phases, Removing
    <3> QED BY <1>3, <3>1, GotoMoves DEF LockInv
  <2>2. pc'[p] = "stat again" BY <2>1 DEF Moved
  <2>3. pc'[p] \notin Owning BY <2>2 DEF Owning, Holding
  <2>4. judged[p] # NoFile
    BY <1>1 DEF LockInv, JudgedDead, Removing
  <2>5. judged \in [Processes -> Lock \cup {NoFile}] BY DEF LockInv, TypeOK
  <2> QED BY <1>1, <1>3, <2>1, <2>2, <2>3, <2>4, <2>5, LookInv
<1> QED BY <1>2, <1>3 DEF Judge

LEMMA StatAgainInv ==
  ASSUME NEW p \in Processes PROVE LockInv /\ StatAgain(p) => LockInv'
<1> SUFFICES ASSUME LockInv, StatAgain(p) PROVE LockInv'
  OBVIOUS
<1>1. /\ Alive(p) /\ pc[p] = "stat again"
      /\ UNCHANGED <<file, mine, seen, store, acked, locks, raced>>
  BY DEF StatAgain, Alive
<1>2. CASE Leave(p) BY <1>1, <1>2, LeaveInv
<1>3. CASE Goto(p, {"read again"}) /\ UNCHANGED judged
  <2>1. Moved(p, {"read again"})
    <3>1. {"read again"} \in SUBSET Phases BY DEF Phases, Removing
    <3> QED BY <1>3, <3>1, GotoMoves DEF LockInv
  <2>2. pc'[p] = "read again" BY <2>1 DEF Moved
  <2>3. pc'[p] \notin Owning BY <2>2 DEF Owning, Holding
  <2>4. judged[p] # NoFile /\ ~Alive(judged[p].by)
    BY <1>1 DEF LockInv, JudgedDead, Removing
  <2>5. judged \in [Processes -> Lock \cup {NoFile}] BY DEF LockInv, TypeOK
  <2> QED BY <1>1, <1>3, <2>1, <2>2, <2>3, <2>4, <2>5, LookInv
<1> QED BY <1>2, <1>3 DEF StatAgain

LEMMA ReadAgainInv ==
  ASSUME NEW p \in Processes PROVE LockInv /\ ReadAgain(p) => LockInv'
<1> SUFFICES ASSUME LockInv, ReadAgain(p) PROVE LockInv'
  OBVIOUS
<1>1. /\ Alive(p) /\ pc[p] = "read again"
      /\ UNCHANGED <<file, mine, seen, store, acked, locks, raced>>
  BY DEF ReadAgain, Alive
<1>2. CASE Leave(p) BY <1>1, <1>2, LeaveInv
<1>3. CASE Goto(p, {"remove"}) /\ UNCHANGED judged
  <2>1. Moved(p, {"remove"})
    <3>1. {"remove"} \in SUBSET Phases BY DEF Phases, Removing
    <3> QED BY <1>3, <3>1, GotoMoves DEF LockInv
  <2>2. pc'[p] = "remove" BY <2>1 DEF Moved
  <2>3. pc'[p] \notin Owning BY <2>2 DEF Owning, Holding
  <2>4. judged[p] # NoFile /\ ~Alive(judged[p].by)
    BY <1>1 DEF LockInv, JudgedDead, Removing
  <2>5. judged \in [Processes -> Lock \cup {NoFile}] BY DEF LockInv, TypeOK
  <2> QED BY <1>1, <1>3, <2>1, <2>2, <2>3, <2>4, <2>5, LookInv
<1> QED BY <1>2, <1>3 DEF ReadAgain

LEMMA AgeInv == LockInv /\ Age => LockInv'
<1> SUFFICES ASSUME LockInv, Age PROVE LockInv'
  OBVIOUS
<1>1. UNCHANGED <<pc, mine, judged, seen, store, acked, locks, raced>> BY DEF Age
<1>2. file \in File BY DEF Age, LockInv, TypeOK
<1>3. file' \in File /\ file'.token = file.token /\ file'.by = file.by
  BY <1>2 DEF Age, File
<1>4. TypeOK' BY <1>1, <1>3 DEF LockInv, TypeOK
<1>5. Numbered' BY <1>1, <1>2, <1>3, NoFileIsNone DEF LockInv, Numbered
<1>6. JudgedDead' BY <1>1 DEF LockInv, JudgedDead, Alive
<1>7. ~raced' => Owned' BY <1>1, <1>3 DEF LockInv, Owned
<1>8. ~raced' => Fresh' BY <1>1 DEF LockInv, Fresh
<1> QED BY <1>4, <1>5, <1>6, <1>7, <1>8 DEF LockInv

LEMMA DieInv ==
  ASSUME NEW p \in Processes PROVE LockInv /\ Die(p) => LockInv'
<1> SUFFICES ASSUME LockInv, Die(p) PROVE LockInv'
  OBVIOUS
<1>1. /\ Alive(p)
      /\ UNCHANGED <<file, mine, judged, seen, store, acked, locks, raced>>
  BY DEF Die
<1>2. Moved(p, {"dead"})
  <2>1. {"dead"} \in SUBSET Phases BY DEF Phases
  <2> QED BY <2>1, GotoMoves DEF Die, LockInv
<1>3. /\ pc'[p] \notin Owning /\ pc'[p] \notin Removing
      /\ pc'[p] \notin {"stat again", "read again", "remove"}
  BY <1>2 DEF Moved, Owning, Holding, Removing
<1>4. judged \in [Processes -> Lock \cup {NoFile}] BY DEF LockInv, TypeOK
<1> QED BY <1>1, <1>2, <1>3, <1>4, LookInv

-----------------------------------------------------------------------------
LEMMA LockNext == LockInv /\ [Next]_vars => LockInv'
<1> SUFFICES ASSUME LockInv, [Next]_vars PROVE LockInv'
  OBVIOUS
<1>1. CASE UNCHANGED vars
  BY <1>1 DEF vars, LockInv, TypeOK, Numbered, JudgedDead, Alive, Owned, Fresh
<1>2. CASE Age BY <1>2, AgeInv
<1>3. CASE \E p \in Processes : Begin(p) \/ Step(p) \/ Die(p)
  BY <1>3, BeginInv, DieInv, OpenInv, InitializeInv, LoadInv, PersistInv, ReadOwnInv,
     UnlockInv, StatInv, ReadInv, JudgeInv, StatAgainInv, ReadAgainInv, RemoveInv
     DEF Step
<1> QED BY <1>1, <1>2, <1>3 DEF Next

LEMMA LockInvHolds == Spec => []LockInv
BY LockInit, LockNext, PTL DEF Spec

\* Unless a remover deleted a replacement lock, two operations never run inside
\* the lock at once: crashes, timeouts and removers do not break withStateLock.
THEOREM ExclusiveHolds == Spec => []Exclusive
<1>1. LockInv => Exclusive BY DEF LockInv, Owned, Owning, Exclusive
<1> QED BY <1>1, LockInvHolds, PTL

\* Under the same condition what an operation was acknowledged for stays in the
\* state file: every operation works on what the last one left there.
THEOREM NoLostUpdateHolds == Spec => []NoLostUpdate
<1>1. LockInv => NoLostUpdate BY DEF LockInv, Fresh, NoLostUpdate
<1> QED BY <1>1, LockInvHolds, PTL

=============================================================================
