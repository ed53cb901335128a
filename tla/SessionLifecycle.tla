-------------------------- MODULE SessionLifecycle --------------------------
(***************************************************************************)
(* What the collaboration session store promises about every session,      *)
(* whatever the clock, the callers, the other processes and the disk do: a *)
(* session can lapse and be taken up again, but once it is released or     *)
(* revoked it is never usable again, and a forgotten session does not come *)
(* back.  One step may move several sessions, because every operation of   *)
(* the store first settles the expired ones.                               *)
(***************************************************************************)
CONSTANTS Ids  \* session ids

VARIABLE status

Statuses == {"none", "active", "expired", "released", "revoked", "forgotten"}
Usable   == {"active", "expired"}

Init == status = [s \in Ids |-> "none"]

\* What may follow a status in one step.
After(st) ==
  CASE st = "none"     -> {"active"}
    [] st \in Usable   -> Statuses \ {"none"}
    [] st = "released" -> {"revoked", "forgotten"}
    [] st = "revoked"  -> {"forgotten"}
    [] OTHER           -> {}

Next ==
  /\ status' \in [Ids -> Statuses]
  /\ \A s \in Ids : status'[s] = status[s] \/ status'[s] \in After(status[s])

Spec == Init /\ [][Next]_status

=============================================================================
