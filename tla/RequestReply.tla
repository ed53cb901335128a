----------------------------- MODULE RequestReply -----------------------------
(***************************************************************************)
(* What the gateway promises about requests, whatever happens to workers,  *)
(* transports, callers, the process and its disk: a request is open until  *)
(* it gets one verdict; only the worker that holds it can answer it; one   *)
(* request at a time is held; a verdict is never revised, only forgotten,  *)
(* and a forgotten request does not come back.                             *)
(*                                                                         *)
(* One step may move several requests, because a mutation of the store     *)
(* may: it can take a request back, answer it and hand out the next.       *)
(***************************************************************************)
CONSTANTS Requests, Workers, NoWorker, Answers, NoAnswer

VARIABLES
  stage,   \* "new", "open", "answered", "dropped" or "forgotten"
  holder,  \* the worker that holds the request
  answer   \* the verdict of an answered request

vars == <<stage, holder, answer>>

Init ==
  /\ stage = [r \in Requests |-> "new"]
  /\ holder = [r \in Requests |-> NoWorker]
  /\ answer = [r \in Requests |-> NoAnswer]

Untouched(r) ==
  /\ stage'[r] = stage[r] /\ holder'[r] = holder[r] /\ answer'[r] = answer[r]

\* The verdict and the holder go with the request; a new one may be turned away.
Forgets(r) ==
  /\ stage'[r] = "forgotten" /\ holder'[r] = NoWorker /\ answer'[r] = NoAnswer

\* The request is accepted, handed out, or taken back.
Opens(r) ==
  /\ stage[r] \in {"new", "open"}
  /\ stage'[r] = "open" /\ holder'[r] \in Workers \cup {NoWorker} /\ answer'[r] = NoAnswer

\* Its holder answers.
Verdict(r) ==
  /\ stage[r] = "open" /\ holder[r] # NoWorker
  /\ stage'[r] = "answered" /\ holder'[r] = NoWorker /\ answer'[r] \in Answers

\* It ends without an answer.
Drops(r) ==
  /\ stage[r] = "open"
  /\ stage'[r] = "dropped" /\ holder'[r] = NoWorker /\ answer'[r] = NoAnswer

OneHeld == \A q, r \in Requests : holder[q] # NoWorker /\ holder[r] # NoWorker => q = r

Next ==
  /\ \A r \in Requests : Untouched(r) \/ Forgets(r) \/ Opens(r) \/ Verdict(r) \/ Drops(r)
  /\ OneHeld'

Spec == Init /\ [][Next]_vars

=============================================================================
