---------------------------- MODULE GatewayWake ----------------------------
(***************************************************************************)
(* The automatic wake of the gateway worker: the operator's approval, the  *)
(* supervisors it starts and stops (src/src/llm-gateway-auto-wake.ts), the *)
(* confirmation of a wake and the browser extension's part in it.          *)
(*                                                                         *)
(* What the gateway's status tells is kept here as the few facts that the  *)
(* supervisor reads; the store itself is GatewayStore.  A supervisor waits *)
(* for its timer, for the status, for the browser and for the outcome.  A  *)
(* status is read at the end of such a wait and used in the same step: it  *)
(* is a copy, and closing the supervisor does not cut a round short.  The  *)
(* status gives up lapsed claims and writes that down, which may fail: a   *)
(* look at it then tells nothing.                                          *)
(***************************************************************************)
EXTENDS Integers, FiniteSets, Sequences

CONSTANTS MaxRequests, MaxExchanges, MaxSupervisors, MaxAttempts, MaxLapses \* bounds

WakeAssumption ==
  /\ {MaxRequests, MaxExchanges, MaxSupervisors, MaxAttempts} \subseteq Nat \ {0}
  /\ MaxLapses \in Nat

VARIABLES
  gateway,     \* what the status of the gateway is computed from
  approval,    \* the operator's approval of the wake
  admission,   \* autoWakeAdmission.enabled
  current,     \* the watcher's supervisor, 0 for none
  supervisors,
  tabs,        \* the tab of each attempt
  nonces,      \* GatewayWakeConfirmations: the entry of each attempt
  attempts,    \* (history) the tabs opened: by whom, and what was observed
  lapses       \* (history) the looks at the status that failed, likewise

wakeVars == <<gateway, approval, admission, current, supervisors, tabs, nonces, attempts, lapses>>

Requests == 1 .. MaxRequests  \* in the order of their creation
Supervisors == 1 .. MaxSupervisors
Attempts == 1 .. MaxAttempts
NoHead == 0

Lowest(ids) == CHOOSE i \in ids : \A j \in ids : i =< j

\* A supervisor that has not run.
NoSupervisor ==
  [at |-> "none", stopped |-> FALSE, failed |-> 0, seen |-> FALSE, exchange |-> 0,
   head |-> NoHead, created |-> 0,
   reconnect |-> FALSE, attempt |-> 0]

TypeOK ==
  /\ gateway.queue \subseteq 1 .. gateway.created /\ gateway.claim \in 0 .. gateway.created
  /\ gateway.exchange \in 0 .. MaxExchanges
  /\ approval \in BOOLEAN /\ admission \in BOOLEAN
  /\ current \in 0 .. MaxSupervisors
  /\ \A s \in Supervisors :
       /\ supervisors[s].at \in {"none", "timer", "grace", "driver", "outcome", "ended"}
       /\ supervisors[s].failed \in 0 .. 1
  /\ tabs \in [Attempts -> {"none", "open", "sent", "closed"}]
  /\ nonces \in [Attempts -> {"none", "pending", "confirmed"}]
  /\ Cardinality(lapses) =< MaxLapses

Init ==
  /\ gateway = [queue |-> {}, created |-> 0, claim |-> 0, exchange |-> 0,
                recent |-> FALSE, idle |-> FALSE, polling |-> FALSE, released |-> FALSE]
  /\ approval \in BOOLEAN /\ admission = approval
  /\ current = 0 /\ supervisors = [s \in Supervisors |-> NoSupervisor]
  /\ tabs = [n \in Attempts |-> "none"] /\ nonces = [n \in Attempts |-> "none"]
  /\ attempts = <<>> /\ lapses = {}

-----------------------------------------------------------------------------
(* The gateway: requests, and a worker that comes and goes. *)

\* A client's request: refused without a worker, unless a wake may bring one.
Enqueue ==
  /\ ~gateway.released /\ gateway.created < MaxRequests
  /\ gateway.recent \/ gateway.claim # 0 \/ admission
  /\ LET new == gateway.created + 1
     IN gateway' = [gateway EXCEPT !.created = new, !.queue = @ \union {new},
                                   !.idle = @ /\ gateway.queue # {}]
  /\ UNCHANGED <<approval, admission, current, supervisors, tabs, nonces, attempts, lapses>>

\* A request ends by its timeout or its client.
EndRequest(r) ==
  /\ r \in gateway.queue
  /\ gateway' = [gateway EXCEPT !.queue = @ \ {r}, !.idle = @ /\ r # Lowest(gateway.queue)]
  /\ UNCHANGED <<approval, admission, current, supervisors, tabs, nonces, attempts, lapses>>

\* gateway_exchange: the worker answers what it holds and takes the next request
\* or waits for one.
Exchange ==
  /\ ~gateway.released /\ gateway.exchange < MaxExchanges
  /\ LET next == IF gateway.queue = {} THEN 0 ELSE Lowest(gateway.queue)
     IN gateway' = [gateway EXCEPT !.exchange = @ + 1, !.recent = TRUE, !.idle = FALSE,
                                   !.claim = next, !.queue = @ \ {next}, !.polling = next = 0]
  /\ UNCHANGED <<approval, admission, current, supervisors, tabs, nonces, attempts, lapses>>

\* The worker's call ends, or its connection does.
EndPoll ==
  /\ gateway.polling /\ gateway' = [gateway EXCEPT !.polling = FALSE]
  /\ UNCHANGED <<approval, admission, current, supervisors, tabs, nonces, attempts, lapses>>

\* AUTO_WAKE_QUEUED_IDLE_MS pass since the last exchange and since the oldest
\* request was made.
Wait ==
  /\ ~gateway.idle /\ gateway' = [gateway EXCEPT !.idle = TRUE]
  /\ UNCHANGED <<approval, admission, current, supervisors, tabs, nonces, attempts, lapses>>

\* staleAfterMs pass: with them a poll has ended, and a claim may have lapsed.
GrowStale ==
  /\ gateway.idle /\ gateway.recent /\ ~gateway.polling
  /\ \E lapse \in BOOLEAN :
       gateway' = IF lapse /\ gateway.claim # 0
                  THEN [gateway EXCEPT !.recent = FALSE, !.claim = 0,
                                       !.queue = @ \union {gateway.claim}]
                  ELSE [gateway EXCEPT !.recent = FALSE]
  /\ UNCHANGED <<approval, admission, current, supervisors, tabs, nonces, attempts, lapses>>

\* The operator releases the worker.
Release ==
  /\ ~gateway.released /\ gateway.claim = 0
  /\ gateway' = [gateway EXCEPT !.released = TRUE, !.polling = FALSE]
  /\ UNCHANGED <<approval, admission, current, supervisors, tabs, nonces, attempts, lapses>>

classifyWorkerContact ==
  IF gateway.exchange = 0 THEN "never" ELSE IF gateway.recent THEN "recent" ELSE "stale"

nextStatusAction ==
  CASE gateway.released -> "none"
    [] ~gateway.released /\ gateway.claim # 0 ->
         IF gateway.recent THEN "wait_for_worker" ELSE "inspect_claim"
    [] ~gateway.released /\ gateway.claim = 0 /\ gateway.polling -> "wait_for_worker"
    [] OTHER -> IF gateway.recent THEN "poll" ELSE "wake_worker"

\* A session is fresh while its worker was heard lately or holds a live claim.
Active == ~gateway.released /\ (gateway.recent \/ gateway.claim # 0)

Oldest == IF gateway.queue = {} THEN NoHead ELSE Lowest(gateway.queue)

-----------------------------------------------------------------------------
(* The approval. *)

\* The operator edits the configuration, or the extension must be reloaded.
Approve ==
  /\ approval' = ~approval
  /\ UNCHANGED <<gateway, admission, current, supervisors, tabs, nonces, attempts, lapses>>

\* watchGatewayBrowserApproval, refresh.  A configuration that cannot be read
\* changes nothing: the step is only later.
Refresh ==
  /\ \/ /\ approval = (current # 0) /\ admission' = (current # 0)
        /\ admission' # admission
        /\ UNCHANGED <<current, supervisors>>
     \/ /\ approval /\ current = 0
        /\ \E s \in Supervisors :
             /\ supervisors[s].at = "none" /\ \A u \in 1 .. s - 1 : supervisors[u].at # "none"
             /\ current' = s
             /\ supervisors' = [supervisors EXCEPT ![s].at = "timer"]
        /\ admission' = TRUE
     \/ /\ ~approval /\ current # 0
        /\ supervisors' =
             [supervisors EXCEPT ![current].stopped = TRUE,
                                 ![current].at = IF @ = "timer" THEN "ended" ELSE @]
        /\ current' = 0 /\ admission' = FALSE
  /\ UNCHANGED <<gateway, approval, tabs, nonces, attempts, lapses>>

-----------------------------------------------------------------------------
(* A round of a supervisor. *)

\* Mutant: every look at a queue that is not empty is a reason to try again.
Mutant_observe(s) ==
  LET moved == gateway.exchange # 0 /\ gateway.exchange # s.exchange
  IN [s EXCEPT !.seen = @ \/ Active, !.exchange = gateway.exchange, !.head = Oldest,
               !.failed = IF moved \/ Oldest # NoHead THEN 0 ELSE @]

\* observe: a new exchange, a queue that was empty and a new head are each a
\* reason to try again.
observe(s) ==
  LET moved == gateway.exchange # 0 /\ gateway.exchange # s.exchange
      fresh == Oldest # NoHead /\ Oldest # s.head
  IN [s EXCEPT !.seen = @ \/ Active \/ gateway.polling \/ classifyWorkerContact = "recent",
               !.exchange = IF moved THEN gateway.exchange ELSE @,
               !.head = Oldest,
               !.failed = IF moved \/ fresh THEN 0 ELSE @]

shouldAutoWakeGateway(seen) ==
  /\ ~gateway.released /\ (gateway.queue # {} \/ seen)
  /\ ~gateway.polling /\ gateway.claim = 0
  /\ \/ nextStatusAction = "wake_worker"
     \/ /\ gateway.queue # {} /\ nextStatusAction = "poll"
        /\ classifyWorkerContact = "recent" /\ gateway.idle

\* The end of a round: the timer is set again, unless the supervisor was closed.
Again(s) == [s EXCEPT !.at = IF s.stopped THEN "ended" ELSE "timer", !.attempt = 0]

Failed(s) == Again([s EXCEPT !.failed = 1])

\* The status cannot be had: the round ends as a failed one, whatever stage it is at.
\* The nonce of a tab that was opened stays registered.
LookFails(id) ==
  /\ supervisors[id].at \in {"timer", "grace", "outcome"}
  /\ supervisors' = [supervisors EXCEPT ![id] = Failed(@)]
  /\ lapses' = lapses \union {[by |-> id, exchange |-> supervisors[id].exchange,
                              head |-> supervisors[id].head]}
  /\ Cardinality(lapses') =< MaxLapses
  /\ UNCHANGED <<gateway, approval, admission, current, tabs, nonces, attempts>>

\* The timer fires and the status comes.
Look(id) ==
  /\ supervisors[id].at = "timer"
  /\ LET s == observe(supervisors[id])
     IN supervisors' = [supervisors EXCEPT ![id] =
          IF shouldAutoWakeGateway(s.seen) /\ s.failed = 0 THEN [s EXCEPT !.at = "grace"]
          ELSE Again(s)]
  /\ supervisors' # supervisors
  /\ UNCHANGED <<gateway, approval, admission, current, tabs, nonces, attempts, lapses>>

\* After the grace the status is read again.
LookAgain(id) ==
  /\ supervisors[id].at = "grace"
  /\ LET s == observe(supervisors[id])
     IN supervisors' = [supervisors EXCEPT ![id] =
          IF shouldAutoWakeGateway(s.seen)
          THEN [s EXCEPT !.at = "driver", !.created = gateway.created,
                         !.reconnect = gateway.queue = {} /\ s.seen]
          ELSE Again(s)]
  /\ UNCHANGED <<gateway, approval, admission, current, tabs, nonces, attempts, lapses>>

\* What is known of an attempt: the status that the supervisor decided on.
Reason(id) ==
  [by |-> id, exchange |-> supervisors[id].exchange, created |-> supervisors[id].created,
   head |-> supervisors[id].head, late |-> supervisors[id].stopped]

\* The browser is opened; it may fail to start, or report a failure of a tab
\* that opened all the same.
OpenTab(id) ==
  /\ supervisors[id].at = "driver" /\ Len(attempts) < MaxAttempts
  /\ LET n == Len(attempts) + 1
     IN \/ /\ nonces' = [nonces EXCEPT ![n] = "pending"] /\ tabs' = [tabs EXCEPT ![n] = "open"]
           /\ supervisors' = [supervisors EXCEPT ![id].at = "outcome", ![id].attempt = n]
        \/ /\ UNCHANGED nonces /\ tabs' = [tabs EXCEPT ![n] = "open"]
           /\ supervisors' = [supervisors EXCEPT ![id] = Failed(@)]
        \/ /\ UNCHANGED <<nonces, tabs>>
           /\ supervisors' = [supervisors EXCEPT ![id] = Failed(@)]
  /\ attempts' = Append(attempts, Reason(id))
  /\ UNCHANGED <<gateway, approval, admission, current, lapses>>

\* waitForWakeOutcome
Outcome(s, late) ==
  IF gateway.released THEN "not_needed"
  ELSE IF gateway.exchange # 0 /\ gateway.exchange # s.exchange /\ gateway.recent
       THEN "confirmed"
  ELSE IF ~s.reconnect /\ gateway.queue = {} THEN "not_needed"
  ELSE IF late THEN "pending" ELSE "wait"

\* One more look at the status, or the last one before the deadline.
Await(id) ==
  LET s == supervisors[id] IN
  /\ s.at = "outcome"
  /\ \E outcome \in {Outcome(s, late) : late \in BOOLEAN} \ {"wait"} :
       /\ nonces' = [nonces EXCEPT ![s.attempt] =
            IF outcome = "confirmed" THEN "confirmed" ELSE "none"]
       /\ supervisors' = [supervisors EXCEPT ![id] =
            IF outcome = "pending" THEN Failed(s) ELSE Again([s EXCEPT !.failed = 0])]
  /\ UNCHANGED <<gateway, approval, admission, current, tabs, attempts, lapses>>

\* ttlMs pass, which are more than a round lasts.
Expire(n) ==
  /\ nonces[n] # "none" /\ nonces' = [nonces EXCEPT ![n] = "none"]
  /\ \A id \in Supervisors : supervisors[id].attempt # n
  /\ UNCHANGED <<gateway, approval, admission, current, supervisors, tabs, attempts, lapses>>

-----------------------------------------------------------------------------
(* The browser extension. *)

\* The wake phrase is sent by one click, once for a tab.  A reload, an editor that
\* is not as expected and the deadline of 15 s leave the tab open for good.
Click(n) ==
  /\ tabs[n] = "open" /\ tabs' = [tabs EXCEPT ![n] = "sent"]
  /\ UNCHANGED <<gateway, approval, admission, current, supervisors, nonces, attempts, lapses>>

\* The tab is closed when the gateway confirms its nonce.
CloseTab(n) ==
  /\ tabs[n] = "sent" /\ nonces[n] = "confirmed"
  /\ tabs' = [tabs EXCEPT ![n] = "closed"]
  /\ UNCHANGED <<gateway, approval, admission, current, supervisors, nonces, attempts, lapses>>

-----------------------------------------------------------------------------
Next ==
  \/ Enqueue \/ Exchange \/ EndPoll \/ Wait \/ GrowStale \/ Release \/ Approve \/ Refresh
  \/ \E r \in Requests : EndRequest(r)
  \/ \E id \in Supervisors :
       Look(id) \/ LookAgain(id) \/ OpenTab(id) \/ Await(id) \/ LookFails(id)
  \/ \E n \in Attempts : Expire(n) \/ Click(n) \/ CloseTab(n)

Spec == Init /\ [][Next]_wakeVars

-----------------------------------------------------------------------------
(* Properties. *)

\* The same stranded request never opens a second tab: between two attempts of a
\* supervisor the worker was heard, or a request came or ended (observe, tick).
OncePerReason ==
  \A i, j \in DOMAIN attempts :
    i < j => \/ attempts[i].by # attempts[j].by
             \/ <<attempts[i].exchange, attempts[i].created, attempts[i].head>>
                  # <<attempts[j].exchange, attempts[j].created, attempts[j].head>>

\* A supervisor that has given up did so for what it still observes: a wake that
\* failed, or a look at the status that did, suppresses no later request, and goes
\* on suppressing the one it was about (observe, tick).
SuspendedForCause ==
  \A id \in Supervisors :
    LET s == supervisors[id] IN
    s.failed = 1 =>
      \E cause \in lapses \union {attempts[i] : i \in DOMAIN attempts} :
        /\ cause.by = id /\ cause.exchange = s.exchange
        /\ s.head \in {NoHead, cause.head}

\* A tab is closed, and a wake confirmed, only after the worker was heard again
\* (waitForWakeOutcome, background.js).
ConfirmedByContact ==
  \A n \in Attempts :
    nonces[n] = "confirmed" \/ tabs[n] = "closed" => gateway.exchange > attempts[n].exchange

\* A supervisor that was closed opens at most the tab of the round it is in (tick).
OneTabAfterClose ==
  \A id \in Supervisors :
    Cardinality({i \in DOMAIN attempts : attempts[i].by = id /\ attempts[i].late}) =< 1

=============================================================================
