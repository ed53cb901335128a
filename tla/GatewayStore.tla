----------------------------- MODULE GatewayStore -----------------------------
(***************************************************************************)
(* The LLM gateway job store (src/src/llm-gateway-store.ts) with its two   *)
(* kinds of users: the local API callers who enqueue a request and wait    *)
(* for its result (src/src/llm-gateway-api.ts), and the ChatGPT worker     *)
(* whose gateway_exchange calls submit a completion and poll for the next  *)
(* request.                                                                *)
(*                                                                         *)
(* The store serialises its mutations (mutationQueue), so one mutation is  *)
(* one step here; what interleaves is everything a method does between two *)
(* mutations.  A mutation works on a copy of the cached state; a write can *)
(* fail before the rename, which leaves the old state in memory and on     *)
(* disk, or after it (the directory sync), which makes the store reload    *)
(* the new one.  In both cases the caller sees an error.                   *)
(*                                                                         *)
(* The durable state, StoredGatewayState, is a record S, and the functions *)
(* that transform it inside one mutation are operators on states; the      *)
(* store's methods are composed of them.                                   *)
(*                                                                         *)
(* Requests are numbered in the order in which they are pushed, so the     *)
(* array of jobs is the set of requests whose status is not "absent" and   *)
(* its order is the order of the numbers.  Message payloads, names and     *)
(* wording are left out.  An answer stands for the SHA-256 digest of a     *)
(* completion: two completions with the same digest are the same answer.   *)
(***************************************************************************)
EXTENDS Integers, FiniteSets, TLC

LOCAL INSTANCE FiniteSetsExt

CONSTANTS
  Sessions,          \* worker identities (one per OAuth client)
  NoSession,         \* "activeSessionId is undefined"
  Responses,         \* answers that carry a response
  Errors,            \* answers that carry an error
  InvalidResponses,  \* the responses validateGatewayAssistantCompletion refuses
  NoAnswer,          \* "completionDigest is undefined"
  MaxRequests,       \* bound: how many requests are ever enqueued
  StaleAfter,        \* staleAfterMs
  ClaimLease,        \* claimLeaseMs
  ReplayAge,         \* MAX_EXCHANGE_REPLAY_AGE_MS
  MaxReplays,        \* MAX_EXCHANGE_REPLAYS
  MaxReplayBytes,    \* MAX_EXCHANGE_REPLAY_BYTES
  Bytes,             \* Bytes[r]: size of a replay that carries request r
  MaxActiveJobs,     \* MAX_ACTIVE_JOBS
  MaxRetainedJobs    \* MAX_RETAINED_JOBS

Requests == 1 .. MaxRequests
Answers  == Responses \cup Errors

ASSUME SentinelAssumption ==
  /\ NoSession \notin Sessions
  /\ NoAnswer \notin Responses \cup Errors

ASSUME SizeAssumption ==
  /\ MaxRequests \in Nat
  /\ StaleAfter \in Nat
  /\ ClaimLease \in Nat \ {0}
  /\ ReplayAge \in Nat
  /\ MaxReplays \in Nat
  /\ MaxReplayBytes \in Nat
  /\ MaxActiveJobs \in Nat
  /\ MaxRetainedJobs \in Nat
  /\ Bytes \in [1 .. MaxRequests -> Nat]

-----------------------------------------------------------------------------
(***************************************************************************)
(* Types.  0 is never a request or a claim token, Never never a time.      *)
(***************************************************************************)
Never == -1

Terminal == {"completed", "failed", "cancelled"}
Statuses == {"absent", "queued", "claimed"} \cup Terminal
Endings  == {"none", "cancelled", "stale_claim", "completed", "released"}

\* StoredGatewayJob: the current claim, the claim that ended last, the outcome.
Job == [status : Statuses,
        by : Sessions \cup {NoSession}, token : Nat, lease : Nat,
        lastBy : Sessions \cup {NoSession}, lastToken : Nat, lastReason : Endings,
        answer : Answers \cup {NoAnswer}, doneAt : Nat]

NoJob == [status |-> "absent", by |-> NoSession, token |-> 0, lease |-> 0,
          lastBy |-> NoSession, lastToken |-> 0, lastReason |-> "none",
          answer |-> NoAnswer, doneAt |-> 0]

\* outstandingDelivery
NoDelivery == [session |-> NoSession, request |-> 0, token |-> 0]
Delivery   == [session : Sessions, request : Requests, token : Nat]

\* What a worker submits (GatewayCompletionInput) and pendingCompletion.
NoCompletion == [request |-> 0, token |-> 0, answer |-> NoAnswer]
Completion   == [request : Requests, token : Nat, answer : Answers]
NoPending    == [session |-> NoSession, request |-> 0, token |-> 0, answer |-> NoAnswer]
Pending      == [session : Sessions, request : Requests, token : Nat, answer : Answers]

(***************************************************************************)
(* StoredExchangeReplay.  The list is a set here; rank orders it, lowest   *)
(* first.  "next" is the request whose delivery the original reply         *)
(* carried, 0 when that reply was idle; "lost" says that the reply has     *)
(* since been replaced by a recovery result.                               *)
(***************************************************************************)
Replay == [session : Sessions, request : Requests, token : Nat, answer : Answers,
           at : Nat, rank : Nat, next : 0 .. MaxRequests, lost : BOOLEAN]

State == [released : BOOLEAN, active : Sessions \cup {NoSession}, heard : Int,
          jobs : [Requests -> Job], outstanding : Delivery \cup {NoDelivery},
          pending : Pending \cup {NoPending}, replays : SUBSET Replay]

\* What the next start asks of the state file: the answer of a job passes the checks
\* of a completion, and a replay, with the request that its result hands out, those
\* of a request.  (What is malformed stops the gateway until somebody removes it.)
StoredJobValid(job) ==
  /\ job \in Job
  /\ job.answer \in Responses => job.answer \notin InvalidResponses

StoredReplayValid(q) == q \in Replay

Readable(S) ==
  /\ S \in State
  /\ \A r \in Requests : StoredJobValid(S.jobs[r])
  /\ \A q \in S.replays : StoredReplayValid(q)

EmptyState == [released |-> FALSE, active |-> NoSession, heard |-> Never,
               jobs |-> [r \in Requests |-> NoJob], outstanding |-> NoDelivery,
               pending |-> NoPending, replays |-> {}]

-----------------------------------------------------------------------------
(* Looking at a state. *)

With(S, status) == {r \in Requests : S.jobs[r].status = status}
Present(S)      == Requests \ With(S, "absent")
Finished(S)     == {r \in Requests : S.jobs[r].status \in Terminal}

\* Mutants: a claimed request cannot be cancelled; a finished one can.
IsQueued(S, r)  == S.jobs[r].status = "queued"
IsPresent(S, r) == S.jobs[r].status # "absent"

\* The request still waits for its outcome.
IsLive(S, r) == S.jobs[r].status \in {"queued", "claimed"}

\* jobs.find(status === "queued"), as a set of one or none
FirstQueued(S) == {r \in With(S, "queued") : \A q \in With(S, "queued") : r <= q}

ClaimedBy(S, s) == {r \in With(S, "claimed") : S.jobs[r].by = s}

\* Mutant: the lease of a silent worker no longer protects it.
IsSessionHeardLately(S, now) ==
  /\ S.active # NoSession
  /\ S.heard # Never
  /\ now - S.heard <= StaleAfter

IsSessionFresh(S, now) ==
  /\ S.active # NoSession
  /\ S.heard # Never
  /\ \/ now - S.heard <= StaleAfter
     \/ \E r \in ClaimedBy(S, S.active) : S.jobs[r].lease > now

-----------------------------------------------------------------------------
(* Ending claims. *)

\* rememberEndedClaim, with the deletions that follow it everywhere.
EndClaim(job, reason) ==
  [job EXCEPT !.by = NoSession, !.token = 0, !.lease = 0,
              !.lastBy = job.by, !.lastToken = job.token, !.lastReason = reason]

Requeued(job) == [EndClaim(job, "stale_claim") EXCEPT !.status = "queued"]

Requeue(S, R) ==
  [S EXCEPT !.jobs = [r \in Requests |-> IF r \in R THEN Requeued(S.jobs[r])
                                                    ELSE S.jobs[r]]]

\* Mutant: reclaiming leaves the outstanding delivery behind.
KeepDeadDelivery(S) == S

\* An outstanding delivery that is no longer a live claim is dropped.
DropDeadDelivery(S) ==
  IF \E r \in With(S, "claimed") : /\ r = S.outstanding.request
                                   /\ S.jobs[r].token = S.outstanding.token
    THEN S
    ELSE [S EXCEPT !.outstanding = NoDelivery]

Expired(S, now) == {r \in With(S, "claimed") : S.jobs[r].lease <= now}

ReclaimExpiredClaims(S, now) == DropDeadDelivery(Requeue(S, Expired(S, now)))

\* A job that ends without an answer: cancelled by its caller, or released.
Abandon(job, status, reason, now) ==
  [(IF job.status = "claimed" THEN EndClaim(job, reason) ELSE job)
     EXCEPT !.status = status, !.doneAt = now]

-----------------------------------------------------------------------------
(* Sessions. *)

\* bindSession throws when another session is fresh.
CanBind(S, s, now) == S.active \in {NoSession, s} \/ ~IsSessionFresh(S, now)

BindSession(S, s) ==
  IF S.active \in {NoSession, s}
    THEN [S EXCEPT !.active = s]
    ELSE [Requeue(S, ClaimedBy(S, S.active))
            EXCEPT !.active = s, !.outstanding = NoDelivery,
                   !.pending = NoPending, !.replays = {}]

\* The heartbeat is kept in memory; it does not make the state dirty.
Hear(S, now) == [S EXCEPT !.heard = now]

-----------------------------------------------------------------------------
(* Claiming and completing. *)

\* claimJob and the assignment of outstandingDelivery that follows every call.
Claim(S, s, r, token, now) ==
  [S EXCEPT !.jobs[r] = [@ EXCEPT !.status = "claimed", !.by = s, !.token = token,
                                  !.lease = now + ClaimLease],
            !.outstanding = [session |-> s, request |-> r, token |-> token]]

\* The accepting part of applyCompletion.
Complete(S, c, now) ==
  [S EXCEPT !.jobs[c.request] =
              [EndClaim(@, "completed")
                 EXCEPT !.status = IF c.answer \in Responses THEN "completed" ELSE "failed",
                        !.answer = c.answer, !.doneAt = now]]

\* "if (outstandingDelivery?.requestId === completion.requestId) delete ..."
DropDelivery(S, r) ==
  IF S.outstanding.request = r THEN [S EXCEPT !.outstanding = NoDelivery] ELSE S

-----------------------------------------------------------------------------
(* Replays of accepted completions. *)

SameKey(p, q) == /\ p.session = q.session
                 /\ p.request = q.request
                 /\ p.token = q.token

Newer(R, q) == {p \in R : p.rank < q.rank}

ReplayBytes(q) == IF q.next \in Requests /\ ~q.lost THEN Bytes[q.next] ELSE 0

\* trimExchangeReplays: by age, then by count, then the tail while too large.
TrimExchangeReplays(R, now) ==
  LET young == {q \in R : now - q.at <= ReplayAge}
      kept  == {q \in young : Cardinality(Newer(young, q)) < MaxReplays}
  IN  {q \in kept : MapThenSumSet(ReplayBytes, Newer(kept, q) \cup {q}) <= MaxReplayBytes}

\* rememberExchangeReplayDigest: replace the entry of that key, newest first.
RememberReplay(S, p, next, now) ==
  LET older == {[q EXCEPT !.rank = @ + 1] : q \in {q \in S.replays : ~SameKey(p, q)}}
      entry == [session |-> p.session, request |-> p.request, token |-> p.token,
                answer |-> p.answer, at |-> now, rank |-> 0, next |-> next, lost |-> FALSE]
  IN  [S EXCEPT !.replays = TrimExchangeReplays(older \cup {entry}, now)]

\* Mutant: whatever completion is pending, it need not be this session's.
ClaimNextForAnyone(S, s, r, token, now) ==
  RememberReplay([Claim(S, s, r, token, now) EXCEPT !.pending = NoPending], S.pending, r, now)

\* Session s claims r; when its pending completion had no reply yet, the claim
\* is that reply.
ClaimNext(S, s, r, token, now) ==
  LET claimed == Claim(S, s, r, token, now)
  IN  IF S.pending.session = s
        THEN RememberReplay([claimed EXCEPT !.pending = NoPending], S.pending, r, now)
        ELSE claimed

\* replay.result = result
Resolve(S, q, next, lost) ==
  [S EXCEPT !.replays = (@ \ {q}) \cup {[q EXCEPT !.next = next, !.lost = lost]}]

-----------------------------------------------------------------------------
(***************************************************************************)
(* Judging a completion c that session s submits, in the order of the      *)
(* checks in exchange(): its replay, the pending completion, then the job. *)
(***************************************************************************)
MatchingReplays(S, s, c, now) ==
  {q \in S.replays : /\ q.session = s /\ q.request = c.request /\ q.token = c.token
                     /\ now - q.at <= ReplayAge}

MatchesPending(S, s, c) ==
  /\ c # NoCompletion
  /\ S.pending.session = s /\ S.pending.request = c.request /\ S.pending.token = c.token

\* The delivery session s still holds; without outstandingDelivery, its claim.
Held(S, s) ==
  IF S.outstanding # NoDelivery THEN S.outstanding
  ELSE IF ClaimedBy(S, s) # {}
    THEN LET r == CHOOSE r \in ClaimedBy(S, s) : TRUE
         IN  [session |-> s, request |-> r, token |-> S.jobs[r].token]
    ELSE NoDelivery

\* isTerminalCompletionClaim: the claim c refers to ended with an answer.
Answered(S, s, c) ==
  LET job == S.jobs[c.request]
  IN /\ job.status \in {"completed", "failed"}
     /\ job.lastReason = "completed" /\ job.lastBy = s /\ job.lastToken = c.token

\* Mutant: the digest of the completion is not compared.
IsDuplicateClaim(S, s, c) == Answered(S, s, c)

\* isAcceptedTerminalCompletion
IsDuplicate(S, s, c) == Answered(S, s, c) /\ S.jobs[c.request].answer = c.answer

\* endedClaimRecovery: the claim ended by cancellation, expiry or replacement.
IsLate(S, s, c) ==
  LET job == S.jobs[c.request]
  IN /\ job.status \notin {"absent", "claimed"}
     /\ job.lastBy = s /\ job.lastToken = c.token
     /\ job.lastReason \in {"cancelled", "stale_claim"}

\* The delivery held by s, when c is about another one.
OtherDelivery(S, s, c) ==
  {Held(S, s)} \ {NoDelivery, [session |-> s, request |-> c.request, token |-> c.token]}

\* Another delivery is outstanding and c quotes its token.
IsBusy(S, s, c) ==
  LET job == S.jobs[c.request]
  IN /\ job.status # "absent"
     /\ job.status = "claimed" /\ job.by = s => job.token = c.token
     /\ job.status # "claimed" /\ job.lastBy = s /\ job.lastToken # 0 => job.lastToken = c.token
     /\ ~Answered(S, s, c) /\ ~IsLate(S, s, c)
     /\ \E d \in OtherDelivery(S, s, c) : d.token = c.token

\* Mutant: any claim of the session will do, whatever token it quotes.
IsCurrentForSession(S, s, c) ==
  LET job == S.jobs[c.request]
  IN /\ job.status = "claimed" /\ job.by = s
     /\ c.answer \notin InvalidResponses

\* applyCompletion accepts c.
IsCurrent(S, s, c) ==
  LET job == S.jobs[c.request]
  IN /\ job.status = "claimed" /\ job.by = s /\ job.token = c.token
     /\ OtherDelivery(S, s, c) = {}
     /\ c.answer \notin InvalidResponses

\* The call throws, and the mutation is rolled back.
Refused(S, s, c, now) ==
  IF MatchingReplays(S, s, c, now) # {}
    THEN \E q \in MatchingReplays(S, s, c, now) : q.answer # c.answer
  ELSE IF MatchesPending(S, s, c)
    THEN S.pending.answer # c.answer
  ELSE ~(IsDuplicate(S, s, c) \/ IsLate(S, s, c) \/ IsBusy(S, s, c) \/ IsCurrent(S, s, c))

-----------------------------------------------------------------------------
(* Pruning: the terminal jobs that ended first go, down to the limit.      *)

EndedBefore(S, q, r) ==
  \/ S.jobs[q].doneAt < S.jobs[r].doneAt
  \/ S.jobs[q].doneAt = S.jobs[r].doneAt /\ q < r

PruneJobs(S) ==
  LET excess  == Cardinality(Present(S)) - MaxRetainedJobs
      removed == {r \in Finished(S) :
                    Cardinality({q \in Finished(S) : EndedBefore(S, q, r)}) < excess}
  IN  [S EXCEPT !.jobs = [r \in Requests |-> IF r \in removed THEN NoJob ELSE S.jobs[r]]]

-----------------------------------------------------------------------------
(***************************************************************************)
(* The store with its callers and workers.                                 *)
(***************************************************************************)
CONSTANTS
  Calls,           \* slots for exchange calls in flight
  NoCall,          \* an empty slot
  AutoWake,        \* allowInactiveQueueForAutoWake()
  MixedCompletions,\* may a worker pair the token of one request with another?
  MaxTime,         \* bound on the clock
  MaxGeneration,   \* bound on the transport closures of one session
  MaxCrashes,      \* bound on process restarts
  MaxFaults        \* bound on failed writes

ASSUME BoundAssumption ==
  /\ MaxTime \in Nat /\ MaxGeneration \in Nat /\ MaxCrashes \in Nat /\ MaxFaults \in Nat

VARIABLES
  now,        \* the store's clock, in units of its timeouts
  st,         \* cachedState
  disk,       \* state.json
  gen,        \* sessionGenerations
  closing,    \* disconnectSession calls between their bump and their mutation
  call,       \* exchange calls in flight
  caller,     \* what each request's API caller is doing, or was told
  admitted,   \* API callers between isAvailable() and enqueueRequest()
  created,    \* request ids used so far
  tokens,     \* claim tokens used so far
  told,       \* deliveries that were returned to a worker
  claimGen,   \* the generation of the call that holds each claim (history)
  crashes, faults

vars == <<now, st, disk, gen, closing, call, caller, admitted, created, tokens,
          told, claimGen, crashes, faults>>

CallRecord == [session : Sessions, gen : Nat, completion : Completion \cup {NoCompletion},
               phase : {"entered", "waiting"}]

(***************************************************************************)
(* An API caller is unborn until its request is enqueued, waits, may be    *)
(* on its way to cancelRequest() after a deadline or a closed connection   *)
(* ("leaving"), and ends with what it was told.  "missing" is the 500 that *)
(* follows "Gateway request not found", "error" every other 429 or 500.    *)
(***************************************************************************)
Open  == {"waiting", "leaving"}
Ended == {"completed", "failed", "cancelled", "left", "missing", "error",
          "crashed"}

TypeOK ==
  /\ now \in 0 .. MaxTime
  /\ st \in State
  /\ disk \in State
  /\ gen \in [Sessions -> Nat]
  /\ closing \in [Sessions -> Nat]
  /\ call \in [Calls -> CallRecord \cup {NoCall}]
  /\ caller \in [Requests -> [phase : {"unborn"} \cup Open \cup Ended,
                              answer : Answers \cup {NoAnswer}]]
  /\ admitted \in 0 .. MaxRequests
  /\ created \in 0 .. MaxRequests
  /\ tokens \in Nat
  /\ told \in SUBSET Delivery
  /\ claimGen \in [Requests -> Nat]
  /\ crashes \in 0 .. MaxCrashes
  /\ faults \in 0 .. MaxFaults

Init ==
  /\ now = 0
  /\ st = EmptyState
  /\ disk = EmptyState
  /\ gen = [s \in Sessions |-> 0]
  /\ closing = [s \in Sessions |-> 0]
  /\ call = [c \in Calls |-> NoCall]
  /\ caller = [r \in Requests |-> [phase |-> "unborn", answer |-> NoAnswer]]
  /\ admitted = 0
  /\ created = 0
  /\ tokens = 0
  /\ told = {}
  /\ claimGen = [r \in Requests |-> 0]
  /\ crashes = 0
  /\ faults = 0

-----------------------------------------------------------------------------
(* Committing a mutation. *)

WriteResults == {"saved", "unwritten", "unsynced"}

\* How the write of a dirty state may go; a clean state is not written.
WriteResult(dirty) == IF dirty /\ faults < MaxFaults THEN WriteResults ELSE {"saved"}

\* Mutant: the cached state is replaced before the write, and not put back.
SaveInMemoryFirst(S, dirty, w) ==
  /\ st' = S
  /\ disk' = IF dirty /\ w # "unwritten" THEN Hear(S, Never) ELSE disk
  /\ faults' = IF w = "saved" THEN faults ELSE faults + 1

\* mutate + persist: S becomes the cached state; w is the fate of the write.
\* The heartbeat that is written with it is never read: activate() drops it.
Save(S, dirty, w) ==
  /\ st' = IF w = "unwritten" THEN st ELSE S
  /\ disk' = IF dirty /\ w # "unwritten" THEN Hear(S, Never) ELSE disk
  /\ faults' = IF w = "saved" THEN faults ELSE faults + 1

Reclaimed == ReclaimExpiredClaims(st, now)

\* activate() and release() fence the transports of the session they drop.
Fence(s) == IF s = NoSession THEN gen ELSE [gen EXCEPT ![s] = @ + 1]

Tell(r, phase, answer) ==
  caller' = [caller EXCEPT ![r] = [phase |-> phase, answer |-> answer]]

-----------------------------------------------------------------------------
(* The clock, and the process. *)

Tick ==
  /\ now < MaxTime
  /\ now' = now + 1
  /\ UNCHANGED <<st, disk, gen, closing, call, caller, admitted, created, tokens,
                 told, claimGen, crashes, faults>>

\* activate(): what a new process makes of the state it finds on disk.
Activated(S) ==
  LET idle == [Requeue(S, With(S, "claimed"))
                 EXCEPT !.released = FALSE, !.active = NoSession, !.heard = Never,
                        !.outstanding = NoDelivery,
                        !.replays = TrimExchangeReplays(S.replays, now)]
  IN  PruneJobs(idle)

\* The process dies and another one starts: connections and callers are gone.
Restart ==
  /\ crashes < MaxCrashes
  /\ crashes' = crashes + 1
  /\ st' = Activated(disk)
  /\ disk' = st'
  /\ gen' = [s \in Sessions |-> IF s = disk.active THEN 1 ELSE 0]
  /\ closing' = [s \in Sessions |-> 0]
  /\ call' = [c \in Calls |-> NoCall]
  /\ caller' = [r \in Requests |-> IF caller[r].phase \in Open
                                     THEN [phase |-> "crashed", answer |-> NoAnswer]
                                     ELSE caller[r]]
  /\ admitted' = 0
  /\ UNCHANGED <<now, created, tokens, told, claimGen, faults>>

\* release(): every request that is not over fails, and the loop ends.
Released(S) ==
  PruneJobs([S EXCEPT !.released = TRUE, !.active = NoSession, !.heard = Never,
                      !.jobs = [r \in Requests |->
                                  IF IsLive(S, r)
                                    THEN Abandon(S.jobs[r], "failed", "released", now)
                                    ELSE S.jobs[r]],
                      !.outstanding = NoDelivery, !.pending = NoPending, !.replays = {}])

Release ==
  \E w \in WriteResult(TRUE) :
    /\ Save(Released(st), TRUE, w)
    /\ gen' = Fence(st.active)
    /\ UNCHANGED <<now, closing, call, caller, admitted, created, tokens, told,
                   claimGen, crashes>>

\* status(), and every other read: expired claims are reclaimed on the way.
Status ==
  /\ Reclaimed # st
  /\ \E w \in WriteResult(TRUE) : Save(Reclaimed, TRUE, w)
  /\ UNCHANGED <<now, gen, closing, call, caller, admitted, created, tokens, told,
                 claimGen, crashes>>

-----------------------------------------------------------------------------
(* API callers. *)

IsAvailable(S) == ~S.released /\ IsSessionFresh(S, now)

\* POST /v1/chat/completions passes its availability check ...
Admit ==
  /\ created + admitted < MaxRequests
  /\ AutoWake \/ IsAvailable(Reclaimed)
  /\ \E w \in WriteResult(Reclaimed # st) :
       /\ Save(Reclaimed, Reclaimed # st, w)
       /\ admitted' = IF w = "saved" THEN admitted + 1 ELSE admitted
  /\ UNCHANGED <<now, gen, closing, call, caller, created, tokens, told, claimGen,
                 crashes>>

Pushed(S, r) == PruneJobs([S EXCEPT !.jobs[r] = [NoJob EXCEPT !.status = "queued"]])

\* ... and enqueues, unless the store was released meanwhile or is full.
Enqueue ==
  LET r      == created + 1
      active == {q \in Requests : IsLive(Reclaimed, q)}
  IN /\ admitted > 0
     /\ admitted' = admitted - 1
     /\ created' = r
     /\ \/ /\ Reclaimed.released \/ Cardinality(active) >= MaxActiveJobs
           /\ Tell(r, "error", NoAnswer)
           /\ UNCHANGED <<st, disk, faults>>
        \/ /\ ~Reclaimed.released /\ Cardinality(active) < MaxActiveJobs
           /\ \E w \in WriteResult(TRUE) :
                /\ Save(Pushed(Reclaimed, r), TRUE, w)
                /\ Tell(r, IF w = "saved" THEN "waiting" ELSE "error", NoAnswer)
     /\ UNCHANGED <<now, gen, closing, call, tokens, told, claimGen, crashes>>

\* waitForResult() reads the job: a result ends the wait.  A pruned job is an
\* error, and so is a write that fails while the read reclaims.
ReadResult(r) ==
  LET job == Reclaimed.jobs[r]
  IN /\ caller[r].phase = "waiting"
     /\ \E w \in WriteResult(Reclaimed # st) :
          /\ w # "saved" \/ ~IsLive(Reclaimed, r)
          /\ Save(Reclaimed, Reclaimed # st, w)
          /\ IF w # "saved" THEN Tell(r, "error", NoAnswer)
             ELSE IF job.status = "absent" THEN Tell(r, "missing", NoAnswer)
             ELSE Tell(r, job.status, job.answer)
     /\ UNCHANGED <<now, gen, closing, call, admitted, created, tokens, told,
                    claimGen, crashes>>

\* A deadline passed when the job was last read, or the client closed its
\* connection, which it may do at any time; cancelRequest() comes next, later.
GiveUp(r) ==
  /\ caller[r].phase = "waiting"
  /\ Tell(r, "leaving", NoAnswer)
  /\ UNCHANGED <<now, st, disk, gen, closing, call, admitted, created, tokens, told,
                 claimGen, crashes, faults>>

\* cancelRequest(); the API ignores whatever it throws.
Cancelled(S, r) ==
  DropDelivery([S EXCEPT !.jobs[r] = Abandon(@, "cancelled", "cancelled", now)], r)

CancelRequest(r) ==
  LET live == IsLive(st, r)
      S    == IF live THEN Cancelled(st, r) ELSE st
  IN /\ caller[r].phase = "leaving"
     /\ \E w \in WriteResult(live) : Save(S, live, w)
     /\ Tell(r, "left", NoAnswer)
     /\ UNCHANGED <<now, gen, closing, call, admitted, created, tokens, told,
                    claimGen, crashes>>

-----------------------------------------------------------------------------
(* A worker's transports. *)

\* disconnectSession() fences the calls in flight at once ...
Disconnect(s) ==
  /\ gen[s] < MaxGeneration
  /\ gen' = [gen EXCEPT ![s] = @ + 1]
  /\ closing' = [closing EXCEPT ![s] = @ + 1]
  /\ UNCHANGED <<now, st, disk, call, caller, admitted, created, tokens, told,
                 claimGen, crashes, faults>>

\* ... and gives its claims back in a mutation of its own.
Disconnected(S, s) ==
  [Requeue(S, ClaimedBy(S, s))
     EXCEPT !.outstanding = NoDelivery, !.active = NoSession, !.heard = Never]

FinishDisconnect(s) ==
  LET mine == st.active = s
      S    == IF mine THEN Disconnected(st, s) ELSE st
  IN /\ closing[s] > 0
     /\ closing' = [closing EXCEPT ![s] = @ - 1]
     /\ \E w \in WriteResult(mine) : Save(S, mine, w)
     /\ UNCHANGED <<now, gen, call, caller, admitted, created, tokens, told,
                    claimGen, crashes>>

-----------------------------------------------------------------------------
(***************************************************************************)
(* gateway_exchange.  The call reads its session's generation when it      *)
(* enters, then loops: one mutation, and a wait for a change when the      *)
(* mutation had nothing to return.  "waiting" means that the call's        *)
(* completion, if it has one, has been applied.                            *)
(***************************************************************************)
Submittable(s) ==
  {NoCompletion} \cup
  {[request |-> r, token |-> d.token, answer |-> a] :
     r \in 1 .. created, d \in {e \in told : e.session = s}, a \in Answers}

EnterExchange(c) ==
  /\ call[c] = NoCall
  /\ \E s \in Sessions : \E cmp \in Submittable(s) :
       /\ \/ cmp = NoCompletion
          \/ MixedCompletions
          \/ [session |-> s, request |-> cmp.request, token |-> cmp.token] \in told
       /\ call' = [call EXCEPT ![c] = [session |-> s, gen |-> gen[s],
                                       completion |-> cmp, phase |-> "entered"]]
  /\ UNCHANGED <<now, st, disk, gen, closing, caller, admitted, created, tokens, told,
                 claimGen, crashes, faults>>

\* The call leaves with S committed, having told its worker of deliveries D.
Return(c, S, dirty, D) ==
  \E w \in WriteResult(dirty) :
    /\ Save(S, dirty, w)
    /\ told' = IF w = "saved" THEN told \cup D ELSE told
    /\ call' = [call EXCEPT ![c] = NoCall]
    /\ UNCHANGED <<now, gen, closing, caller, admitted, created, crashes>>

\* The call stays, to wait for a change.
Wait(c, S, dirty) ==
  \E w \in WriteResult(dirty) :
    /\ Save(S, dirty, w)
    /\ call' = [call EXCEPT ![c] = IF w = "saved" THEN [@ EXCEPT !.phase = "waiting"]
                                                  ELSE NoCall]
    /\ UNCHANGED <<now, gen, closing, caller, admitted, created, tokens, told,
                   claimGen, crashes>>

NoClaim == UNCHANGED <<tokens, claimGen>>

\* The claim of request r that this call is about to make.
NewDelivery(c, r) == [session |-> call[c].session, request |-> r, token |-> tokens + 1]

TakeToken(c, r) ==
  /\ tokens' = tokens + 1
  /\ claimGen' = [claimGen EXCEPT ![r] = call[c].gen]

\* The state the mutation works on once the session is bound and heard, and
\* whether anything but the heartbeat has changed so far.
Bound(c)   == Hear(BindSession(Reclaimed, call[c].session), now)

Touched(c) == Reclaimed # st \/ Reclaimed.active # call[c].session

\* Mutant: the generation is not read again inside the mutation.
NeverFenced(c) == FALSE
Fenced(c)  == call[c].gen # gen[call[c].session]
Serving(c) == /\ call[c] # NoCall
              /\ ~Fenced(c)
              /\ ~Reclaimed.released
              /\ CanBind(Reclaimed, call[c].session, now)

Submitting(c) == call[c].phase = "entered" /\ call[c].completion # NoCompletion

\* Its transport was replaced, the worker aborted it, or the gateway released.
ExchangeCut(c) ==
  /\ call[c] # NoCall
  /\ \/ Return(c, st, FALSE, {})
     \/ /\ ~Fenced(c) /\ Reclaimed.released
        /\ Return(c, Reclaimed, Reclaimed # st, {})
  /\ NoClaim

\* Another session is active, or the completion is refused: nothing changes.
ExchangeRefused(c) ==
  /\ call[c] # NoCall /\ ~Fenced(c) /\ ~Reclaimed.released
  /\ \/ ~CanBind(Reclaimed, call[c].session, now)
     \/ Submitting(c) /\ Refused(Bound(c), call[c].session, call[c].completion, now)
  /\ Return(c, st, FALSE, {})
  /\ NoClaim

\* Mutant: a request that ended while the reply was under way is delivered again.
IsPruned(S, r) == S.jobs[r].status = "absent"
IsOver(S, r) == ~IsLive(S, r)

\* A retry of a completion whose reply is remembered (resolveExchangeReplay).
\* "gone": the request that the reply delivered has ended meanwhile.
ExchangeReplayed(c) ==
  /\ Serving(c) /\ Submitting(c)
  /\ LET S == Bound(c)
         s == call[c].session
         held == Held(S, s)
     IN \E q \in MatchingReplays(S, s, call[c].completion, now) :
          LET gone == q.next # 0 /\ IsOver(S, q.next)
              next == IF q.next # 0 THEN {q.next} ELSE FirstQueued(S)
          IN /\ q.answer = call[c].completion.answer
             /\ \/ /\ q.lost
                   /\ Return(c, S, Touched(c), {}) /\ NoClaim
                \/ /\ ~q.lost /\ gone
                   /\ Return(c, Resolve(S, q, q.next, TRUE), TRUE, {}) /\ NoClaim
                \/ /\ ~q.lost /\ ~gone /\ held # NoDelivery
                   /\ Return(c, [S EXCEPT !.outstanding = held], Touched(c),
                             IF q.next \in {0, held.request} THEN {held} ELSE {})
                   /\ NoClaim
                \/ /\ ~q.lost /\ ~gone /\ held = NoDelivery
                   /\ \E r \in next :
                        /\ Return(c, Claim(Resolve(S, q, r, FALSE), s, r, tokens + 1, now),
                                  TRUE, {NewDelivery(c, r)})
                        /\ TakeToken(c, r)
                \/ /\ ~q.lost /\ ~gone /\ held = NoDelivery /\ next = {}
                   /\ Return(c, S, Touched(c), {}) /\ NoClaim

\* A completion that no replay and no pending completion knows.
Unseen(c) ==
  /\ Serving(c) /\ Submitting(c)
  /\ MatchingReplays(Bound(c), call[c].session, call[c].completion, now) = {}
  /\ ~MatchesPending(Bound(c), call[c].session, call[c].completion)

\* request_cancelled, stale_claim and worker_busy.
ExchangeRecovery(c) ==
  /\ Unseen(c)
  /\ \/ IsLate(Bound(c), call[c].session, call[c].completion)
     \/ IsBusy(Bound(c), call[c].session, call[c].completion)
  /\ Return(c, Bound(c), Touched(c), {})
  /\ NoClaim

\* The completion is applied, or had been: on to the next request.
ExchangeAccepted(c) ==
  /\ Unseen(c)
  /\ LET S    == Bound(c)
         s    == call[c].session
         cmp  == call[c].completion
         dup  == IsDuplicate(S, s, cmp)
         done == DropDelivery(IF dup THEN S ELSE Complete(S, cmp, now), cmp.request)
         key  == [session |-> s, request |-> cmp.request, token |-> cmp.token,
                  answer |-> cmp.answer]
     IN /\ dup \/ IsCurrent(S, s, cmp)
        /\ \/ /\ dup /\ Held(S, s) # NoDelivery
              /\ Return(c, S, FALSE, {Held(S, s)})
              /\ NoClaim
           \/ /\ Held(done, s) = NoDelivery
              /\ \E r \in FirstQueued(done) :
                   /\ Return(c, ClaimNext([done EXCEPT !.pending = key], s, r, tokens + 1, now),
                             TRUE, {NewDelivery(c, r)})
                   /\ TakeToken(c, r)
           \/ /\ Held(done, s) = NoDelivery /\ With(done, "queued") = {}
              /\ Wait(c, [done EXCEPT !.pending = key], TRUE)

\* The worker polls, or has its completion pending, for the next request.
ExchangePoll(c) ==
  /\ Serving(c)
  /\ LET S   == Bound(c)
         s   == call[c].session
         cmp == call[c].completion
     IN /\ Submitting(c) => /\ MatchingReplays(S, s, cmp, now) = {}
                            /\ MatchesPending(S, s, cmp) /\ S.pending.answer = cmp.answer
        /\ \/ /\ Held(S, s) # NoDelivery
              /\ Return(c, [S EXCEPT !.outstanding = Held(S, s)], FALSE, {Held(S, s)})
              /\ NoClaim
           \/ /\ Held(S, s) = NoDelivery
              /\ \E r \in FirstQueued(S) :
                   /\ Return(c, ClaimNext(S, s, r, tokens + 1, now), TRUE, {NewDelivery(c, r)})
                   /\ TakeToken(c, r)
           \/ /\ Held(S, s) = NoDelivery /\ With(S, "queued") = {}
              /\ Wait(c, S, Touched(c))

\* The bounded wait is over; the accepted completion's reply was "idle".
ExchangeIdle(c) ==
  /\ call[c] # NoCall
  /\ call[c].phase = "waiting"
  /\ IF MatchesPending(st, call[c].session, call[c].completion)
       THEN Return(c, RememberReplay([st EXCEPT !.pending = NoPending], st.pending, 0, now),
                   TRUE, {})
       ELSE Return(c, st, FALSE, {})
  /\ NoClaim

-----------------------------------------------------------------------------
CallerStep(r) == ReadResult(r) \/ GiveUp(r) \/ CancelRequest(r)

ExchangeStep(c) ==
  \/ ExchangeCut(c) \/ ExchangeRefused(c) \/ ExchangeReplayed(c)
  \/ ExchangeRecovery(c) \/ ExchangeAccepted(c) \/ ExchangePoll(c) \/ ExchangeIdle(c)

Next ==
  \/ Tick \/ Restart \/ Release \/ Status \/ Admit \/ Enqueue
  \/ \E r \in Requests : CallerStep(r)
  \/ \E s \in Sessions : Disconnect(s) \/ FinishDisconnect(s)
  \/ \E c \in Calls : EnterExchange(c) \/ ExchangeStep(c)

Spec == Init /\ [][Next]_vars

\* A caller polls at least once a second and has two wall-clock deadlines, so
\* it does not wait for ever, and once it left, cancelRequest() runs.
FairSpec == Spec /\ \A r \in Requests : WF_vars(CallerStep(r))

-----------------------------------------------------------------------------
(* Safety. *)

(***************************************************************************)
(* At most one delivery is out, and it is the claim of the active session: *)
(* claims, outstandingDelivery and activeSessionId are three records of    *)
(* one fact that bind, claim, complete, cancel, reclaim, disconnect and    *)
(* restart all have to keep in step.                                       *)
(***************************************************************************)
ClaimIsDelivered(S, r) ==
  /\ S.jobs[r].by \in Sessions
  /\ S.jobs[r].by = S.active
  /\ S.outstanding = [session |-> S.jobs[r].by, request |-> r, token |-> S.jobs[r].token]

Coherent(S) ==
  /\ \A r \in With(S, "claimed") : ClaimIsDelivered(S, r)
  /\ S.outstanding # NoDelivery => S.outstanding.request \in With(S, "claimed")

OneDelivery == Coherent(st)

\* A claim belongs to a transport that is still connected, or whose
\* disconnectSession() is about to give the claim back: a call that was fenced
\* while it waited for its turn in the mutation queue never claims.  (A write
\* that fails in disconnectSession() is swallowed by its callers.)
ClaimOnLiveTransport ==
  faults = 0 =>
    \A s \in Sessions : \A r \in ClaimedBy(st, s) : closing[s] > 0 \/ claimGen[r] = gen[s]

\* The answer of a request came from the last delivery of it that a worker
\* ever saw: an older claim, taken back by lease, disconnect or restart, can
\* no longer answer, and an answered request is not handed out again.
AnswerOfLastDelivery ==
  \A r \in Requests : \A s \in Sessions :
    Answered(st, s, [request |-> r, token |-> st.jobs[r].lastToken, answer |-> NoAnswer]) =>
      /\ [session |-> s, request |-> r, token |-> st.jobs[r].lastToken] \in told
      /\ \A d \in told : d.request = r => d.token <= st.jobs[r].lastToken

\* The state a session would find if it called now.
Met(s) == Hear(BindSession(Reclaimed, s), now)

\* A worker that lost the reply to its completion may send it again at any
\* time while the request is retained, and is not refused; a different answer
\* to the same claim always is.  Three records (the replay, the pending
\* completion, the finished job) take turns to remember the answer.
RetrySafe ==
  \A r \in Requests : \A s \in Sessions : \A a \in Answers :
    LET cmp == [request |-> r, token |-> st.jobs[r].lastToken, answer |-> a]
    IN /\ Answered(st, s, cmp)
       /\ ~Reclaimed.released
       /\ CanBind(Reclaimed, s, now)
       => (Refused(Met(s), s, cmp, now) <=> a # st.jobs[r].answer)

\* What a caller was told is what the store keeps: the result of its request,
\* until the request is pruned, whatever crashes or fails afterwards.
OutcomeKept ==
  \A r \in Requests :
    caller[r].phase \in {"completed", "failed", "cancelled"} =>
      \/ st.jobs[r].status = "absent"
      \/ st.jobs[r].status = caller[r].phase /\ st.jobs[r].answer = caller[r].answer

\* A request whose caller is gone does not keep its place in the queue, unless
\* the caller went down with the process or a write failed.
NoOrphan ==
  faults = 0 =>
    \A r \in Requests :
      caller[r].phase \in Ended \ {"crashed"} => st.jobs[r].status \in Terminal \cup {"absent"}

\* Nothing is stranded when calls are cut or given up: every claim has a worker
\* that will read it, every request in the queue a caller.
NothingStranded == ClaimOnLiveTransport /\ NoOrphan

\* Only the heartbeat is ever lost by a crash: everything else that a reply
\* could be based on is on disk, also after a write that failed half-way.
MemoryIsDurable == disk = Hear(st, Never)

\* What was told is kept, what is kept is on disk, and the next start can read it.
OutcomeDurable == MemoryIsDurable /\ OutcomeKept /\ Readable(disk)

\* A caller that still waits finds its request, so that it is told how it ended.
NoLostResult == \A r \in Requests : caller[r].phase # "missing"

-----------------------------------------------------------------------------
(* Action properties. *)

\* While its lease runs, a worker loses its claim only by an end of the request,
\* or with its session; the claim never passes to another worker directly.
LeaseHonoured ==
  [][\A r \in With(st, "claimed") :
       st.jobs[r].lease > now =>
         \/ st'.jobs[r] = st.jobs[r]
         \/ st'.jobs[r].status \in Terminal \cup {"absent"}
         \/ st'.jobs[r].status = "queued" /\ st'.active = NoSession]_vars

-----------------------------------------------------------------------------
(* Liveness. *)

\* Every accepted request ends, even when no worker ever comes or the worker
\* that claimed it falls silent: its caller's deadline takes it off the queue.
RequestsEnd ==
  \A r \in Requests : IsLive(st, r) ~> ~IsLive(st, r)

-----------------------------------------------------------------------------
(***************************************************************************)
(* The store implements RequestReply.  A request that has an id but no     *)
(* record (its caller was refused, or it was pruned) is forgotten.         *)
(***************************************************************************)
Stage(r) ==
  LET job == st.jobs[r]
  IN  IF job.status \in {"queued", "claimed"} THEN "open"
      ELSE IF job.status = "absent" THEN (IF r > created THEN "new" ELSE "forgotten")
      ELSE IF job.answer # NoAnswer THEN "answered" ELSE "dropped"

Reply == INSTANCE RequestReply WITH
  Workers  <- Sessions,
  NoWorker <- NoSession,
  stage    <- [r \in Requests |-> Stage(r)],
  holder   <- [r \in Requests |-> st.jobs[r].by],
  answer   <- [r \in Requests |-> st.jobs[r].answer]

\* Every behaviour of the store keeps the promise of RequestReply.
KeepsPromise == Reply!Spec

-----------------------------------------------------------------------------
(* Values for TLC that a .cfg cannot write. *)

\* A replay that carries any request takes one unit of room.
MCBytes == [r \in 1 .. MaxRequests |-> 1]

Symmetry == Permutations(Sessions) \cup Permutations(Calls)

=============================================================================
