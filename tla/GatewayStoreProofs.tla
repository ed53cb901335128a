-------------------------- MODULE GatewayStoreProofs --------------------------
(***************************************************************************)
(* Type correctness of GatewayStore, its safety properties, and that it    *)
(* implements RequestReply, for any number of workers, requests, calls,    *)
(* crashes and failed writes.                                              *)
(***************************************************************************)
EXTENDS GatewayStore, TLAPS

-----------------------------------------------------------------------------
(***************************************************************************)
(* Good(S, n): S is well typed, its claims, outstanding delivery and       *)
(* active session agree, and the requests after n are not there yet.  A    *)
(* state on disk may lag in what is claimed (activate() takes every claim  *)
(* back), so it need only be Sane.                                         *)
(***************************************************************************)
Unborn(S, n) == \A r \in Requests : r > n => S.jobs[r].status = "absent"
Sane(S, n)   == S \in State /\ Unborn(S, n)
Good(S, n)   == Sane(S, n) /\ Coherent(S)

\* The sentinels are no sessions and no deliveries.
LEMMA Sentinels ==
  /\ NoSession \notin Sessions
  /\ NoDelivery \notin Delivery
  /\ NoPending \notin Pending
  /\ NoCompletion \notin Completion
  /\ Requests \subseteq Nat /\ 0 \notin Requests
BY SentinelAssumption, SizeAssumption
   DEF NoDelivery, Delivery, NoPending, Pending, NoCompletion, Completion, Requests

LEMMA NeverType == Never \in Int
BY DEF Never

\* A record with no job at all is a job.
LEMMA NoJobType == NoJob \in Job
BY DEF NoJob, Job, Statuses, Terminal, Endings

\* Ending a claim keeps a job a job, and its status.
LEMMA EndClaimType ==
  ASSUME NEW job \in Job, NEW reason \in Endings
  PROVE  /\ EndClaim(job, reason) \in Job
         /\ EndClaim(job, reason).status = job.status
BY DEF EndClaim, Job

LEMMA RequeuedType ==
  ASSUME NEW job \in Job
  PROVE  /\ Requeued(job) \in Job
         /\ Requeued(job).status = "queued"
<1>1. "stale_claim" \in Endings BY DEF Endings
<1>2. EndClaim(job, "stale_claim") \in Job BY <1>1, EndClaimType
<1> QED BY <1>2 DEF Requeued, Job, Statuses

LEMMA AbandonType ==
  ASSUME NEW job \in Job, NEW status \in Terminal, NEW reason \in Endings, NEW t \in Nat
  PROVE  /\ Abandon(job, status, reason, t) \in Job
         /\ Abandon(job, status, reason, t).status = status
<1>1. (IF job.status = "claimed" THEN EndClaim(job, reason) ELSE job) \in Job
  BY EndClaimType
<1> QED BY ZenonT(60), <1>1 DEF Abandon, Job, Statuses, Terminal

-----------------------------------------------------------------------------
(* What the operators on states preserve.       *)

\* Taking claims back: the jobs of R are queued, the others are as before.
LEMMA RequeueSane ==
  ASSUME NEW S, NEW n, Sane(S, n), NEW R \in SUBSET Requests,
         \A r \in R : S.jobs[r].status # "absent"
  PROVE  /\ Sane(Requeue(S, R), n)
         /\ With(Requeue(S, R), "claimed") = With(S, "claimed") \ R
         /\ \A r \in Requests \ R : Requeue(S, R).jobs[r] = S.jobs[r]
         /\ Requeue(S, R).active = S.active
         /\ Requeue(S, R).outstanding = S.outstanding
         /\ Requeue(S, R).released = S.released
         /\ Requeue(S, R).pending = S.pending
<1> DEFINE T == Requeue(S, R)
<1>1. S \in State BY DEF Sane
<1>2. \A r \in Requests : S.jobs[r] \in Job BY <1>1 DEF State
<1>3. \A r \in Requests : T.jobs[r] = IF r \in R THEN Requeued(S.jobs[r]) ELSE S.jobs[r]
  BY <1>1 DEF Requeue, State
<1>4. \A r \in Requests : T.jobs[r] \in Job BY <1>2, <1>3, RequeuedType
<1>5. T \in State BY <1>1, <1>2, RequeuedType DEF Requeue, State
<1>6. \A r \in R : T.jobs[r].status = "queued" BY <1>2, <1>3, RequeuedType
<1>7. \A r \in Requests \ R : T.jobs[r] = S.jobs[r] BY <1>3
<1>8. Unborn(T, n) BY <1>6, <1>7 DEF Sane, Unborn
<1>9. With(T, "claimed") = With(S, "claimed") \ R BY <1>6, <1>7 DEF With
<1> QED BY <1>1, <1>5, <1>7, <1>8, <1>9 DEF Sane, Requeue, State

\* Where nothing is claimed and nothing outstanding, a state is coherent.
LEMMA NothingClaimed ==
  ASSUME NEW S, With(S, "claimed") = {}, S.outstanding = NoDelivery
  PROVE  Coherent(S)
BY DEF Coherent

\* The delivery of a claim, field by field.
LEMMA Delivered ==
  ASSUME NEW S, NEW r, ClaimIsDelivered(S, r)
  PROVE  /\ S.outstanding.session = S.active /\ S.active \in Sessions
         /\ S.outstanding.request = r
         /\ S.outstanding.token = S.jobs[r].token
         /\ S.jobs[r].by = S.active
         /\ S.outstanding # NoDelivery
<1> DEFINE by == S.jobs[r].by
           token == S.jobs[r].token
<1>1. /\ by \in Sessions /\ by = S.active
      /\ S.outstanding = [session |-> by, request |-> r, token |-> token]
  BY DEF ClaimIsDelivered
<1> HIDE DEF by, token
<1>2. /\ S.outstanding.session = by /\ S.outstanding.request = r
      /\ S.outstanding.token = token
  BY <1>1
<1>3. NoDelivery.session = NoSession BY DEF NoDelivery
<1>4. S.outstanding # NoDelivery BY <1>1, <1>2, <1>3, Sentinels
<1> QED BY <1>1, <1>2, <1>4 DEF by, token

\* At most one claim: all claims are the outstanding delivery's request.
LEMMA OneClaim ==
  ASSUME NEW S, Coherent(S), NEW r \in With(S, "claimed")
  PROVE  /\ S.outstanding.request = r
         /\ S.outstanding # NoDelivery
         /\ With(S, "claimed") = {r}
<1>1. \A q \in With(S, "claimed") : S.outstanding.request = q /\ S.outstanding # NoDelivery
  BY Delivered DEF Coherent
<1> QED BY <1>1

\* reclaimExpiredClaims
LEMMA ReclaimGood ==
  ASSUME NEW S, NEW n, Good(S, n), NEW t \in Nat
  PROVE  LET T == ReclaimExpiredClaims(S, t)
         IN /\ Good(T, n)
            /\ T.active = S.active /\ T.released = S.released /\ T.pending = S.pending
<1> DEFINE X == Expired(S, t)
           U == Requeue(S, X)
           T == DropDeadDelivery(U)
<1>1. S \in State /\ Coherent(S) BY DEF Good, Sane
<1>2. X \in SUBSET Requests /\ X \subseteq With(S, "claimed") BY DEF Expired, With
<1>3. \A r \in X : S.jobs[r].status # "absent" BY <1>2 DEF With
<1>4. /\ Sane(U, n)
      /\ With(U, "claimed") = With(S, "claimed") \ X
      /\ \A r \in Requests \ X : U.jobs[r] = S.jobs[r]
      /\ U.active = S.active /\ U.outstanding = S.outstanding
      /\ U.released = S.released /\ U.pending = S.pending
  BY <1>2, <1>3, RequeueSane DEF Good
<1>5. \A r \in With(U, "claimed") : ClaimIsDelivered(U, r)
  BY <1>1, <1>4 DEF Coherent, ClaimIsDelivered, With
<1>6. CASE \E r \in With(U, "claimed") : /\ r = U.outstanding.request
                                         /\ U.jobs[r].token = U.outstanding.token
  <2>1. T = U BY <1>6 DEF DropDeadDelivery
  <2>2. Coherent(U) BY <1>5, <1>6 DEF Coherent
  <2> QED BY <2>1, <2>2, <1>4 DEF ReclaimExpiredClaims, Good
<1>7. CASE ~\E r \in With(U, "claimed") : /\ r = U.outstanding.request
                                          /\ U.jobs[r].token = U.outstanding.token
  <2>1. T = [U EXCEPT !.outstanding = NoDelivery] BY <1>7 DEF DropDeadDelivery
  <2>2. U \in State BY <1>4 DEF Sane
  <2>3. With(U, "claimed") = {} BY <1>5, <1>7, Delivered
  <2>4. T \in State /\ T.jobs = U.jobs /\ T.outstanding = NoDelivery
        /\ T.active = U.active /\ T.released = U.released /\ T.pending = U.pending
    BY <2>1, <2>2 DEF State
  <2>5. With(T, "claimed") = {} BY <2>3, <2>4 DEF With
  <2>6. Sane(T, n) BY <2>4, <1>4 DEF Sane, Unborn
  <2> QED BY <2>4, <2>5, <2>6, <1>4, NothingClaimed DEF ReclaimExpiredClaims, Good
<1> QED BY <1>6, <1>7

-----------------------------------------------------------------------------
(* Whatever leaves jobs, outstanding delivery and active session alone. *)
LEMMA SameClaims ==
  ASSUME NEW S, NEW n, Good(S, n), NEW T \in State,
         T.jobs = S.jobs, T.outstanding = S.outstanding, T.active = S.active
  PROVE  Good(T, n)
BY DEF Good, Sane, Unborn, Coherent, ClaimIsDelivered, With

LEMMA HearGood ==
  ASSUME NEW S, NEW n, Good(S, n), NEW t \in Int
  PROVE  /\ Good(Hear(S, t), n)
         /\ Hear(S, t).active = S.active
<1>1. S \in State BY DEF Good, Sane
<1>2. /\ Hear(S, t) \in State /\ Hear(S, t).jobs = S.jobs
      /\ Hear(S, t).outstanding = S.outstanding /\ Hear(S, t).active = S.active
  BY <1>1 DEF Hear, State
<1> QED BY <1>2, SameClaims

\* A heartbeat matters to nothing a state on disk has to satisfy.
LEMMA HearSane ==
  ASSUME NEW S, NEW n, Sane(S, n), NEW t \in Int
  PROVE  Sane(Hear(S, t), n)
BY DEF Sane, Hear, State, Unborn

\* No session is active: nothing is claimed and nothing outstanding.
LEMMA Idle ==
  ASSUME NEW S, NEW n, Good(S, n), S.active = NoSession
  PROVE  With(S, "claimed") = {} /\ S.outstanding = NoDelivery
<1>1. With(S, "claimed") = {} BY Sentinels DEF Good, Coherent, ClaimIsDelivered
<1> QED BY <1>1 DEF Good, Coherent

\* Every claim is a claim of the active session.
LEMMA ClaimsAreActive ==
  ASSUME NEW S, Coherent(S)
  PROVE  ClaimedBy(S, S.active) = With(S, "claimed")
BY DEF Coherent, ClaimIsDelivered, ClaimedBy

\* bindSession
LEMMA BindGood ==
  ASSUME NEW S, NEW n, Good(S, n), NEW s \in Sessions
  PROVE  Good(BindSession(S, s), n) /\ BindSession(S, s).active = s
<1>1. S \in State BY DEF Good, Sane
<1>2. CASE S.active \in {NoSession, s}
  <2> DEFINE T == [S EXCEPT !.active = s]
  <2>1. BindSession(S, s) = T BY <1>2 DEF BindSession
  <2>2. T \in State /\ T.jobs = S.jobs /\ T.outstanding = S.outstanding /\ T.active = s
    BY <1>1 DEF State
  <2>3. CASE S.active = s BY <2>1, <2>2, <2>3, SameClaims
  <2>4. CASE S.active = NoSession
    <3>1. With(T, "claimed") = {} /\ T.outstanding = NoDelivery
      BY <2>2, <2>4, Idle DEF With
    <3> QED BY <3>1, <2>1, <2>2, NothingClaimed DEF Good, Sane, Unborn
  <2> QED BY <1>2, <2>3, <2>4
<1>3. CASE S.active \notin {NoSession, s}
  <2> DEFINE U == Requeue(S, ClaimedBy(S, S.active))
             T == [U EXCEPT !.active = s, !.outstanding = NoDelivery,
                            !.pending = NoPending, !.replays = {}]
  <2>1. BindSession(S, s) = T BY <1>3 DEF BindSession
  <2>2. ClaimedBy(S, S.active) = With(S, "claimed") BY ClaimsAreActive DEF Good
  <2>3. Sane(U, n) /\ With(U, "claimed") = {}
    BY <2>2, RequeueSane DEF Good, With
  <2>4. /\ T \in State /\ T.jobs = U.jobs /\ T.outstanding = NoDelivery /\ T.active = s
    BY <2>3 DEF Sane, State
  <2>5. With(T, "claimed") = {} BY <2>3, <2>4 DEF With
  <2> QED BY <2>1, <2>3, <2>4, <2>5, NothingClaimed DEF Good, Sane, Unborn
<1> QED BY <1>2, <1>3

\* The active session holds nothing: nothing is claimed.
LEMMA NothingHeld ==
  ASSUME NEW S, Coherent(S), NEW s \in Sessions, S.active = s, Held(S, s) = NoDelivery
  PROVE  With(S, "claimed") = {} /\ S.outstanding = NoDelivery
<1>1. S.outstanding = NoDelivery BY DEF Held
<1> QED BY <1>1, OneClaim

\* What a session holds is a delivery.
LEMMA HeldType ==
  ASSUME NEW S \in State, Coherent(S), NEW s \in Sessions, S.active = s
  PROVE  Held(S, s) = S.outstanding
<1>1. CASE S.outstanding # NoDelivery BY <1>1 DEF Held
<1>2. CASE S.outstanding = NoDelivery
  <2>1. With(S, "claimed") = {} BY <1>2, OneClaim
  <2>2. ClaimedBy(S, s) = {} BY <2>1 DEF ClaimedBy
  <2> QED BY <1>2, <2>2 DEF Held
<1> QED BY <1>1, <1>2

\* claimJob, when nothing else is claimed
LEMMA ClaimGood ==
  ASSUME NEW S, NEW n, Good(S, n), NEW s \in Sessions, S.active = s,
         Held(S, s) = NoDelivery, NEW r \in Requests, S.jobs[r].status # "absent",
         NEW token \in Nat, NEW t \in Nat
  PROVE  /\ Good(Claim(S, s, r, token, t), n)
         /\ Claim(S, s, r, token, t).active = s
         /\ Claim(S, s, r, token, t).pending = S.pending
         /\ Claim(S, s, r, token, t).replays = S.replays
<1> DEFINE T == Claim(S, s, r, token, t)
           d == [session |-> s, request |-> r, token |-> token]
           job == [S.jobs[r] EXCEPT !.status = "claimed", !.by = s, !.token = token,
                                    !.lease = t + ClaimLease]
<1>1. S \in State /\ Unborn(S, n) /\ Coherent(S) BY DEF Good, Sane
<1>2. With(S, "claimed") = {} BY <1>1, NothingHeld
<1>3. S.jobs[r] \in Job BY <1>1 DEF State
<1>4. job \in Job /\ job.status = "claimed" /\ job.by = s /\ job.token = token
  <2>1. t + ClaimLease \in Nat BY SizeAssumption
  <2> QED BY <1>3, <2>1 DEF Job, Statuses
<1>5. d \in Delivery BY DEF Delivery
<1>6. /\ T = [S EXCEPT !.jobs[r] = job, !.outstanding = d] BY DEF Claim
<1> HIDE DEF job, d, T
<1>7. /\ T \in State /\ T.outstanding = d /\ T.active = s
      /\ T.pending = S.pending /\ T.replays = S.replays
      /\ T.jobs[r] = job /\ \A q \in Requests \ {r} : T.jobs[q] = S.jobs[q]
  BY <1>1, <1>4, <1>5, <1>6 DEF State
<1>8. With(T, "claimed") = {r} BY <1>2, <1>4, <1>7 DEF With
<1>9. Unborn(T, n) BY <1>1, <1>7 DEF Unborn
<1>10. ClaimIsDelivered(T, r) BY <1>4, <1>7 DEF ClaimIsDelivered, d
<1>11. T.outstanding.request = r BY <1>7 DEF d
<1> QED BY <1>7, <1>8, <1>9, <1>10, <1>11 DEF Good, Sane, Coherent, T

\* Changing the record of a request that is not claimed afterwards: the claim
\* of another request, if there is one, is still the one delivered.
LEMMA UnclaimGood ==
  ASSUME NEW S, NEW n, Good(S, n), NEW r \in Requests, S.jobs[r].status # "absent",
         NEW job \in Job, job.status # "claimed"
  PROVE  LET T == DropDelivery([S EXCEPT !.jobs[r] = job], r)
         IN  Good(T, n) /\ T.active = S.active
<1> DEFINE U == [S EXCEPT !.jobs[r] = job]
           T == DropDelivery(U, r)
<1>1. S \in State /\ Unborn(S, n) /\ Coherent(S) BY DEF Good, Sane
<1>2. /\ U \in State /\ U.outstanding = S.outstanding /\ U.active = S.active
      /\ U.jobs[r] = job /\ \A q \in Requests \ {r} : U.jobs[q] = S.jobs[q]
  BY <1>1 DEF State
<1>3. Unborn(U, n) BY <1>1, <1>2 DEF Unborn
<1>4. With(U, "claimed") = With(S, "claimed") \ {r} BY <1>2 DEF With
<1>5. \A q \in With(U, "claimed") : ClaimIsDelivered(U, q)
  BY <1>1, <1>2, <1>4 DEF Coherent, ClaimIsDelivered, With
<1>6. CASE S.outstanding.request = r
  <2>1. T = [U EXCEPT !.outstanding = NoDelivery] BY <1>2, <1>6 DEF DropDelivery
  <2>2. With(U, "claimed") = {}
    <3> SUFFICES ASSUME NEW q \in With(U, "claimed") PROVE FALSE
      OBVIOUS
    <3>1. ClaimIsDelivered(U, q) /\ q # r BY <1>4, <1>5
    <3> HIDE DEF U
    <3>2. U.outstanding.request = q BY <3>1, Delivered
    <3> QED BY <3>1, <3>2, <1>2, <1>6
  <2>3. T \in State /\ T.jobs = U.jobs /\ T.outstanding = NoDelivery /\ T.active = S.active
    BY <1>2, <2>1 DEF State
  <2>4. With(T, "claimed") = {} BY <2>2, <2>3 DEF With
  <2> QED BY <1>3, <2>3, <2>4, NothingClaimed DEF Good, Sane, Unborn
<1>7. CASE S.outstanding.request # r
  <2>1. T = U BY <1>2, <1>7 DEF DropDelivery
  <2>2. Coherent(U) BY <1>1, <1>2, <1>4, <1>5, <1>7 DEF Coherent
  <2> QED BY <1>2, <1>3, <2>1, <2>2 DEF Good, Sane
<1> QED BY <1>6, <1>7

\* The job of an accepted completion is over.
LEMMA CompleteGood ==
  ASSUME NEW S, NEW n, Good(S, n), NEW c \in Completion, NEW t \in Nat,
         S.jobs[c.request].status = "claimed"
  PROVE  LET T == DropDelivery(Complete(S, c, t), c.request)
         IN  Good(T, n) /\ T.active = S.active
<1> DEFINE r == c.request
           e == EndClaim(S.jobs[r], "completed")
           job == [e EXCEPT !.status = IF c.answer \in Responses THEN "completed" ELSE "failed",
                            !.answer = c.answer, !.doneAt = t]
<1>1. r \in Requests /\ c.answer \in Answers BY DEF Completion
<1>2. S.jobs[r] \in Job BY <1>1 DEF Good, Sane, State
<1>3. "completed" \in Endings BY DEF Endings
<1>4. e \in Job BY <1>2, <1>3, EndClaimType
<1> HIDE DEF e
<1>5. job \in Job /\ job.status # "claimed" BY <1>1, <1>4 DEF Job, Statuses, Terminal
<1>6. Complete(S, c, t) = [S EXCEPT !.jobs[r] = job] BY DEF Complete, e
<1> HIDE DEF job, r
<1>7. S.jobs[r].status # "absent" BY DEF r
<1> QED BY <1>1, <1>5, <1>6, <1>7, UnclaimGood DEF r

\* A finished request is not the outstanding one.
LEMMA DropNothing ==
  ASSUME NEW S, NEW r \in Requests, Coherent(S), S.jobs[r].status # "claimed"
  PROVE  DropDelivery(S, r) = S
<1>1. S.outstanding.request # r
  <2>1. CASE S.outstanding = NoDelivery BY <2>1, Sentinels DEF NoDelivery
  <2>2. CASE S.outstanding # NoDelivery BY <2>2 DEF Coherent, With
  <2> QED BY <2>1, <2>2
<1> QED BY <1>1 DEF DropDelivery

\* cancelRequest
LEMMA CancelledGood ==
  ASSUME NEW S, NEW n, Good(S, n), NEW r \in Requests, IsLive(S, r), now \in Nat
  PROVE  Good(Cancelled(S, r), n)
<1> DEFINE job == Abandon(S.jobs[r], "cancelled", "cancelled", now)
<1>1. S.jobs[r] \in Job BY DEF Good, Sane, State
<1>2. job \in Job /\ job.status # "claimed"
  <2>1. "cancelled" \in Terminal /\ "cancelled" \in Endings BY DEF Terminal, Endings
  <2> QED BY <1>1, <2>1, AbandonType
<1>3. Cancelled(S, r) = DropDelivery([S EXCEPT !.jobs[r] = job], r) BY DEF Cancelled
<1>4. S.jobs[r].status # "absent" BY DEF IsLive
<1> HIDE DEF job
<1> QED BY <1>2, <1>3, <1>4, UnclaimGood

-----------------------------------------------------------------------------
(* Replays. *)

LEMMA TrimType ==
  ASSUME NEW R \in SUBSET Replay, NEW t
  PROVE  TrimExchangeReplays(R, t) \in SUBSET Replay
BY DEF TrimExchangeReplays

LEMMA RememberGood ==
  ASSUME NEW S, NEW n, Good(S, n), NEW p \in Pending, NEW next \in 0 .. MaxRequests,
         NEW t \in Nat
  PROVE  LET T == RememberReplay(S, p, next, t)
         IN  Good(T, n) /\ T.active = S.active
<1> DEFINE older == {[q EXCEPT !.rank = @ + 1] : q \in {q \in S.replays : ~SameKey(p, q)}}
           entry == [session |-> p.session, request |-> p.request, token |-> p.token,
                     answer |-> p.answer, at |-> t, rank |-> 0, next |-> next, lost |-> FALSE]
           R == TrimExchangeReplays(older \cup {entry}, t)
           T == [S EXCEPT !.replays = R]
<1>1. S \in State /\ S.replays \in SUBSET Replay BY DEF Good, Sane, State
<1>2. older \in SUBSET Replay
  <2> SUFFICES ASSUME NEW q \in Replay PROVE [q EXCEPT !.rank = @ + 1] \in Replay
    BY <1>1
  <2> QED BY DEF Replay
<1>3. entry \in Replay BY DEF Replay, Pending
<1>4. R \in SUBSET Replay
  <2> HIDE DEF older, entry
  <2>1. older \cup {entry} \in SUBSET Replay BY <1>2, <1>3
  <2> QED BY <2>1, TrimType
<1>5. RememberReplay(S, p, next, t) = T BY DEF RememberReplay
<1> HIDE DEF R
<1>6. T \in State /\ T.jobs = S.jobs /\ T.outstanding = S.outstanding /\ T.active = S.active
  BY <1>1, <1>4 DEF State
<1> QED BY <1>5, <1>6, SameClaims

LEMMA ResolveGood ==
  ASSUME NEW S, NEW n, Good(S, n), NEW q \in S.replays, NEW next \in 0 .. MaxRequests,
         NEW lost \in BOOLEAN
  PROVE  LET T == Resolve(S, q, next, lost)
         IN  /\ Good(T, n)
             /\ T.active = S.active /\ T.jobs = S.jobs /\ T.outstanding = S.outstanding
<1> DEFINE entry == [q EXCEPT !.next = next, !.lost = lost]
           T == Resolve(S, q, next, lost)
<1>1. S \in State /\ S.replays \in SUBSET Replay BY DEF Good, Sane, State
<1>2. entry \in Replay BY <1>1 DEF Replay
<1>3. T = [S EXCEPT !.replays = (S.replays \ {q}) \cup {entry}] BY DEF Resolve
<1> HIDE DEF entry, T
<1>4. T \in State /\ T.jobs = S.jobs /\ T.outstanding = S.outstanding /\ T.active = S.active
  BY <1>1, <1>2, <1>3 DEF State
<1> QED BY <1>4, SameClaims DEF T

LEMMA PendingGood ==
  ASSUME NEW S, NEW n, Good(S, n), NEW p \in Pending \cup {NoPending}
  PROVE  LET T == [S EXCEPT !.pending = p]
         IN  /\ Good(T, n) /\ T.pending = p
             /\ T.active = S.active /\ T.jobs = S.jobs /\ T.outstanding = S.outstanding
<1> DEFINE T == [S EXCEPT !.pending = p]
<1>1. S \in State BY DEF Good, Sane
<1>2. /\ T \in State /\ T.jobs = S.jobs /\ T.outstanding = S.outstanding
      /\ T.active = S.active /\ T.pending = p
  BY <1>1 DEF State
<1> QED BY <1>2, SameClaims

\* Session s claims r, and a completion of its that is pending gets its reply.
LEMMA ClaimNextGood ==
  ASSUME NEW S, NEW n, Good(S, n), NEW s \in Sessions, S.active = s,
         Held(S, s) = NoDelivery, NEW r \in Requests, S.jobs[r].status # "absent",
         NEW token \in Nat, NEW t \in Nat
  PROVE  Good(ClaimNext(S, s, r, token, t), n)
<1> DEFINE C == Claim(S, s, r, token, t)
           P == [C EXCEPT !.pending = NoPending]
<1>1. Good(C, n) BY ClaimGood
<1>2. CASE S.pending.session = s
  <2>1. S.pending \in Pending
    <3>1. S.pending \in Pending \cup {NoPending} BY DEF Good, Sane, State
    <3>2. S.pending # NoPending BY <1>2, Sentinels DEF NoPending
    <3> QED BY <3>1, <3>2
  <2>2. Good(P, n) BY <1>1, PendingGood
  <2>3. r \in 0 .. MaxRequests BY DEF Requests
  <2>4. ClaimNext(S, s, r, token, t) = RememberReplay(P, S.pending, r, t)
    BY <1>2 DEF ClaimNext
  <2> QED BY <2>1, <2>2, <2>3, <2>4, RememberGood
<1>3. CASE S.pending.session # s
  <2>1. ClaimNext(S, s, r, token, t) = C BY <1>3 DEF ClaimNext
  <2> QED BY <1>1, <2>1
<1> QED BY <1>2, <1>3

-----------------------------------------------------------------------------
(* Changes of the whole state. *)

\* pruneJobs removes finished jobs, and nothing else.
LEMMA Pruned ==
  ASSUME NEW S, NEW n, Sane(S, n)
  PROVE  LET T == PruneJobs(S)
         IN  /\ Sane(T, n)
             /\ With(T, "claimed") = With(S, "claimed")
             /\ \A r \in With(S, "claimed") : T.jobs[r] = S.jobs[r]
             /\ T.active = S.active /\ T.outstanding = S.outstanding
<1> DEFINE excess == Cardinality(Present(S)) - MaxRetainedJobs
           removed == {r \in Finished(S) :
                         Cardinality({q \in Finished(S) : EndedBefore(S, q, r)}) < excess}
           J == [r \in Requests |-> IF r \in removed THEN NoJob ELSE S.jobs[r]]
           T == PruneJobs(S)
<1>1. S \in State /\ \A r \in Requests : S.jobs[r] \in Job BY DEF Sane, State
<1>2. \A r \in removed : S.jobs[r].status \in Terminal BY DEF Finished
<1>3. T = [S EXCEPT !.jobs = J] BY DEF PruneJobs
<1> HIDE DEF removed, T
<1>4. J \in [Requests -> Job] BY <1>1, NoJobType
<1>5. T \in State /\ T.jobs = J /\ T.active = S.active /\ T.outstanding = S.outstanding
  BY <1>1, <1>3, <1>4 DEF State
<1>6. NoJob.status = "absent" BY DEF NoJob
<1>7. With(T, "claimed") = With(S, "claimed") BY <1>2, <1>5, <1>6 DEF With, Terminal
<1>8. \A r \in With(S, "claimed") : T.jobs[r] = S.jobs[r]
  BY <1>2, <1>5 DEF With, Terminal
<1>9. Unborn(T, n) BY <1>5, <1>6 DEF Sane, Unborn
<1> QED BY <1>5, <1>7, <1>8, <1>9 DEF Sane, T

LEMMA PruneGood ==
  ASSUME NEW S, NEW n, Good(S, n)
  PROVE  Good(PruneJobs(S), n)
<1> DEFINE T == PruneJobs(S)
<1>1. Coherent(S) /\ Sane(S, n) BY DEF Good
<1>2. /\ Sane(T, n) /\ With(T, "claimed") = With(S, "claimed")
      /\ \A r \in With(S, "claimed") : T.jobs[r] = S.jobs[r]
      /\ T.active = S.active /\ T.outstanding = S.outstanding
  BY <1>1, Pruned
<1> HIDE DEF T
<1>3. Coherent(T) BY <1>1, <1>2 DEF Coherent, ClaimIsDelivered
<1> QED BY <1>2, <1>3 DEF Good, T

\* A state without claims and without outstanding delivery, pruned.
LEMMA PruneIdle ==
  ASSUME NEW S, NEW n, Sane(S, n), With(S, "claimed") = {}, S.outstanding = NoDelivery
  PROVE  Good(PruneJobs(S), n)
BY NothingClaimed, PruneGood DEF Good

\* disconnectSession
LEMMA DisconnectedGood ==
  ASSUME NEW S, NEW n, Good(S, n), NEW s, S.active = s
  PROVE  Good(Disconnected(S, s), n)
<1> DEFINE U == Requeue(S, ClaimedBy(S, s))
           T == Disconnected(S, s)
<1>1. ClaimedBy(S, s) = With(S, "claimed") BY ClaimsAreActive DEF Good
<1>2. Sane(U, n) /\ With(U, "claimed") = {} BY <1>1, RequeueSane DEF Good, With
<1>3. T = [U EXCEPT !.outstanding = NoDelivery, !.active = NoSession, !.heard = Never]
  BY DEF Disconnected
<1> HIDE DEF U, T
<1>4. T \in State /\ T.jobs = U.jobs /\ T.outstanding = NoDelivery
  BY <1>2, <1>3, NeverType DEF Sane, State
<1>5. With(T, "claimed") = {} BY <1>2, <1>4 DEF With
<1> QED BY <1>2, <1>4, <1>5, NothingClaimed DEF Good, Sane, Unborn, T

\* release
LEMMA ReleasedGood ==
  ASSUME NEW S, NEW n, Good(S, n), now \in Nat
  PROVE  Good(Released(S), n)
<1> DEFINE J == [r \in Requests |-> IF IsLive(S, r)
                                      THEN Abandon(S.jobs[r], "failed", "released", now)
                                      ELSE S.jobs[r]]
           T == [S EXCEPT !.released = TRUE, !.active = NoSession, !.heard = Never, !.jobs = J,
                          !.outstanding = NoDelivery, !.pending = NoPending, !.replays = {}]
<1>1. S \in State /\ Unborn(S, n) /\ \A r \in Requests : S.jobs[r] \in Job
  BY DEF Good, Sane, State
<1>2. \A r \in Requests :
        /\ J[r] \in Job
        /\ IsLive(S, r) => J[r].status = "failed"
        /\ ~IsLive(S, r) => J[r] = S.jobs[r]
  <2>1. "failed" \in Terminal /\ "released" \in Endings BY DEF Terminal, Endings
  <2> QED BY <1>1, <2>1, AbandonType
<1>3. Released(S) = PruneJobs(T) BY DEF Released
<1>4. J \in [Requests -> Job] BY <1>2
<1> HIDE DEF J
<1>5. T \in State /\ T.jobs = J /\ T.outstanding = NoDelivery
  BY <1>1, <1>4, NeverType DEF State
<1> HIDE DEF T
<1>6. With(T, "claimed") = {} BY <1>2, <1>5 DEF With, IsLive
<1>7. Unborn(T, n) BY <1>1, <1>2, <1>5 DEF Unborn, IsLive
<1> QED BY <1>3, <1>5, <1>6, <1>7, PruneIdle DEF Sane

\* activate: whatever was claimed on disk is queued again.
LEMMA ActivatedGood ==
  ASSUME NEW S, NEW n, Sane(S, n)
  PROVE  Good(Activated(S), n)
<1> DEFINE U == Requeue(S, With(S, "claimed"))
           R == TrimExchangeReplays(S.replays, now)
           T == [U EXCEPT !.released = FALSE, !.active = NoSession, !.heard = Never,
                          !.outstanding = NoDelivery, !.replays = R]
<1>1. Sane(U, n) /\ With(U, "claimed") = {} BY RequeueSane DEF With
<1>2. R \in SUBSET Replay BY TrimType DEF Sane, State
<1>3. Activated(S) = PruneJobs(T) BY DEF Activated
<1> HIDE DEF U, R
<1>4. T \in State /\ T.jobs = U.jobs /\ T.outstanding = NoDelivery
  BY <1>1, <1>2, NeverType DEF Sane, State
<1> HIDE DEF T
<1>5. With(T, "claimed") = {} BY <1>1, <1>4 DEF With
<1>6. Sane(T, n) BY <1>1, <1>4 DEF Sane, Unborn
<1> QED BY <1>3, <1>4, <1>5, <1>6, PruneIdle

\* enqueueRequest: the request after n is queued.
LEMMA PushedGood ==
  ASSUME NEW S, NEW n \in Nat, Good(S, n), n + 1 \in Requests
  PROVE  Good(Pushed(S, n + 1), n + 1)
<1> DEFINE r == n + 1
           job == [NoJob EXCEPT !.status = "queued"]
           T == [S EXCEPT !.jobs[r] = job]
<1>1. S \in State /\ Unborn(S, n) /\ Coherent(S) BY DEF Good, Sane
<1>2. job \in Job /\ job.status = "queued" BY NoJobType DEF NoJob, Job, Statuses
<1>3. Pushed(S, r) = PruneJobs(T) BY DEF Pushed
<1>4. S.jobs[r].status = "absent" BY <1>1 DEF Unborn
<1> HIDE DEF job
<1>5. /\ T \in State /\ T.jobs[r] = job /\ \A q \in Requests \ {r} : T.jobs[q] = S.jobs[q]
      /\ T.outstanding = S.outstanding /\ T.active = S.active
  BY <1>1, <1>2 DEF State
<1> HIDE DEF T
<1>6. With(T, "claimed") = With(S, "claimed") BY <1>2, <1>4, <1>5 DEF With
<1>7. r \notin With(S, "claimed") BY <1>4 DEF With
<1>8. Coherent(T)
  BY <1>1, <1>5, <1>6, <1>7 DEF Coherent, ClaimIsDelivered, With
<1>9. Unborn(T, r) BY <1>1, <1>5 DEF Unborn, Requests
<1>10. Good(T, r) BY <1>5, <1>8, <1>9 DEF Good, Sane
<1> QED BY <1>3, <1>10, PruneGood

-----------------------------------------------------------------------------
(***************************************************************************)
(* The inductive invariant.  TypeOK alone is not inductive: a claim makes  *)
(* a delivery only of a request that has a number, and OneDelivery alone   *)
(* is not: what is enqueued next must not be there already.                *)
(***************************************************************************)
GatewayInv ==
  /\ TypeOK
  /\ created + admitted <= MaxRequests
  /\ Good(st, created)
  /\ Sane(disk, created)

LEMMA InvInit == Init => GatewayInv
<1> SUFFICES ASSUME Init PROVE GatewayInv
  OBVIOUS
<1>1. EmptyState \in State
  <2>1. [r \in Requests |-> NoJob] \in [Requests -> Job] BY NoJobType
  <2> QED BY <2>1, NeverType DEF EmptyState, State
<1>2. \A r \in Requests : EmptyState.jobs[r].status = "absent"
  BY DEF EmptyState, NoJob
<1>3. EmptyState.outstanding = NoDelivery BY DEF EmptyState
<1>4. With(EmptyState, "claimed") = {} BY <1>2 DEF With
<1>5. Good(EmptyState, 0)
  BY <1>1, <1>2, <1>3, <1>4, NothingClaimed DEF Good, Sane, Unborn
<1>6. 0 \in 0 .. MaxRequests /\ 0 \in 0 .. MaxTime /\ 0 \in 0 .. MaxCrashes
      /\ 0 \in 0 .. MaxFaults
  BY SizeAssumption, BoundAssumption
<1>7. TypeOK BY <1>1, <1>6 DEF Init, TypeOK
<1> QED BY <1>5, <1>6, <1>7 DEF Init, GatewayInv, Good

LEMMA MoreRequests ==
  ASSUME NEW S, NEW m \in Nat, NEW n \in Nat, m <= n
  PROVE  /\ Sane(S, m) => Sane(S, n)
         /\ Good(S, m) => Good(S, n)
<1>1. \A r \in Requests : r > n => r > m BY Sentinels
<1> QED BY <1>1 DEF Good, Sane, Unborn

\* Whether a write succeeds, fails or fails half-way, memory and disk stay good.
LEMMA SaveGood ==
  ASSUME GatewayInv, NEW S, NEW dirty, NEW w \in WriteResult(dirty), Save(S, dirty, w),
         NEW n \in Nat, created <= n, Good(S, n)
  PROVE  /\ Good(st', n) /\ st' \in State
         /\ Sane(disk', n) /\ disk' \in State
         /\ faults' \in 0 .. MaxFaults
<1>1. created \in Nat /\ faults \in 0 .. MaxFaults BY SizeAssumption DEF GatewayInv, TypeOK
<1>2. Good(st, n) /\ Sane(disk, n) BY <1>1, MoreRequests DEF GatewayInv
<1>3. Good(st', n) BY <1>2 DEF Save
<1>4. Sane(Hear(S, Never), n) BY HearSane, NeverType DEF Good
<1>5. Sane(disk', n) BY <1>2, <1>4 DEF Save
<1>6. faults' \in 0 .. MaxFaults
  BY <1>1, BoundAssumption DEF Save, WriteResult, WriteResults
<1> QED BY <1>3, <1>5, <1>6 DEF Good, Sane

\* The states the methods start from.
LEMMA ReclaimedGood ==
  ASSUME GatewayInv
  PROVE  Good(Reclaimed, created) /\ Reclaimed.active = st.active
<1>1. now \in Nat BY BoundAssumption DEF GatewayInv, TypeOK
<1> QED BY <1>1, ReclaimGood DEF Reclaimed, GatewayInv

LEMMA CallType ==
  ASSUME GatewayInv, NEW c \in Calls, call[c] # NoCall
  PROVE  /\ call[c] \in CallRecord
         /\ call[c].session \in Sessions /\ call[c].gen \in Nat
         /\ Submitting(c) => call[c].completion \in Completion
BY DEF GatewayInv, TypeOK, CallRecord, Submitting

LEMMA BoundGood ==
  ASSUME GatewayInv, NEW c \in Calls, call[c] # NoCall
  PROVE  /\ Good(Bound(c), created)
         /\ Bound(c).active = call[c].session
<1>1. now \in Int BY BoundAssumption DEF GatewayInv, TypeOK
<1>2. call[c].session \in Sessions BY CallType
<1> QED BY <1>1, <1>2, ReclaimedGood, BindGood, HearGood DEF Bound

-----------------------------------------------------------------------------
(* The steps that end a call. *)

\* No claim was made, or the claim of a request.
Claims(c) == NoClaim \/ \E r \in Requests : TakeToken(c, r)

LEMMA ClaimsType ==
  ASSUME GatewayInv, NEW c \in Calls, call[c] # NoCall, Claims(c)
  PROVE  tokens' \in Nat /\ claimGen' \in [Requests -> Nat]
<1>1. tokens \in Nat /\ claimGen \in [Requests -> Nat] BY DEF GatewayInv, TypeOK
<1>2. call[c].gen \in Nat BY CallType
<1> QED BY <1>1, <1>2 DEF Claims, NoClaim, TakeToken

LEMMA ReturnInv ==
  ASSUME GatewayInv, NEW c \in Calls, call[c] # NoCall, NEW S, NEW dirty,
         NEW D \in SUBSET Delivery, Return(c, S, dirty, D), Claims(c), Good(S, created)
  PROVE  GatewayInv'
<1>1. PICK w \in WriteResult(dirty) :
        /\ Save(S, dirty, w)
        /\ told' = IF w = "saved" THEN told \cup D ELSE told
        /\ call' = [call EXCEPT ![c] = NoCall]
        /\ UNCHANGED <<now, gen, closing, caller, admitted, created, crashes>>
  BY DEF Return
<1>2. created \in Nat BY SizeAssumption DEF GatewayInv, TypeOK
<1>3. /\ Good(st', created) /\ st' \in State
      /\ Sane(disk', created) /\ disk' \in State
      /\ faults' \in 0 .. MaxFaults
  BY <1>1, <1>2, SaveGood
<1>4. told' \in SUBSET Delivery BY <1>1 DEF GatewayInv, TypeOK
<1>5. call' \in [Calls -> CallRecord \cup {NoCall}] BY <1>1 DEF GatewayInv, TypeOK
<1> QED BY <1>1, <1>3, <1>4, <1>5, ClaimsType DEF GatewayInv, TypeOK

\* The call returns without a delivery, whatever it leaves to be written.
LEMMA ReturnNothing ==
  ASSUME GatewayInv, NEW c \in Calls, call[c] # NoCall, NEW S,
         \E dirty : Return(c, S, dirty, {}), NoClaim, Good(S, created)
  PROVE  GatewayInv'
<1>1. PICK dirty : Return(c, S, dirty, {}) OBVIOUS
<1>2. {} \in SUBSET Delivery OBVIOUS
<1> QED BY <1>1, <1>2, ReturnInv DEF Claims

LEMMA WaitInv ==
  ASSUME GatewayInv, NEW c \in Calls, call[c] # NoCall, NEW S, NEW dirty,
         Wait(c, S, dirty), Good(S, created)
  PROVE  GatewayInv'
<1>1. PICK w \in WriteResult(dirty) :
        /\ Save(S, dirty, w)
        /\ call' = [call EXCEPT ![c] = IF w = "saved" THEN [@ EXCEPT !.phase = "waiting"]
                                                      ELSE NoCall]
        /\ UNCHANGED <<now, gen, closing, caller, admitted, created, tokens, told,
                       claimGen, crashes>>
  BY DEF Wait
<1>2. created \in Nat BY SizeAssumption DEF GatewayInv, TypeOK
<1>3. /\ Good(st', created) /\ st' \in State
      /\ Sane(disk', created) /\ disk' \in State
      /\ faults' \in 0 .. MaxFaults
  BY <1>1, <1>2, SaveGood
<1>4. call' \in [Calls -> CallRecord \cup {NoCall}]
  <2>1. [call[c] EXCEPT !.phase = "waiting"] \in CallRecord BY CallType DEF CallRecord
  <2> QED BY <1>1, <2>1 DEF GatewayInv, TypeOK
<1> QED BY <1>1, <1>3, <1>4 DEF GatewayInv, TypeOK

-----------------------------------------------------------------------------
(* One lemma per action of Next. *)

LEMMA TickInv == GatewayInv /\ Tick => GatewayInv'
<1> SUFFICES ASSUME GatewayInv, Tick PROVE GatewayInv'
  OBVIOUS
<1>1. now' \in 0 .. MaxTime BY BoundAssumption DEF Tick, GatewayInv, TypeOK
<1> QED BY <1>1 DEF Tick, GatewayInv, TypeOK

LEMMA RestartInv == GatewayInv /\ Restart => GatewayInv'
<1> SUFFICES ASSUME GatewayInv, Restart PROVE GatewayInv'
  OBVIOUS
<1>1. Good(Activated(disk), created) BY ActivatedGood DEF GatewayInv
<1>2. Good(st', created) /\ st' \in State /\ disk' = st'
  BY <1>1 DEF Restart, Good, Sane
<1>3. gen' \in [Sessions -> Nat] /\ closing' \in [Sessions -> Nat]
  BY DEF Restart
<1>4. call' \in [Calls -> CallRecord \cup {NoCall}] BY DEF Restart
<1>5. caller' \in [Requests -> [phase : {"unborn"} \cup Open \cup Ended,
                                answer : Answers \cup {NoAnswer}]]
  BY DEF Restart, GatewayInv, TypeOK, Ended
<1>6. crashes' \in 0 .. MaxCrashes BY BoundAssumption DEF Restart, GatewayInv, TypeOK
<1>7. admitted' \in 0 .. MaxRequests /\ created + admitted' <= MaxRequests
  BY SizeAssumption DEF Restart, GatewayInv, TypeOK
<1> QED BY <1>2, <1>3, <1>4, <1>5, <1>6, <1>7 DEF Restart, GatewayInv, TypeOK, Good

LEMMA ReleaseInv == GatewayInv /\ Release => GatewayInv'
<1> SUFFICES ASSUME GatewayInv, Release PROVE GatewayInv'
  OBVIOUS
<1>1. PICK w \in WriteResult(TRUE) :
        /\ Save(Released(st), TRUE, w)
        /\ gen' = Fence(st.active)
        /\ UNCHANGED <<now, closing, call, caller, admitted, created, tokens, told,
                       claimGen, crashes>>
  BY DEF Release
<1>2. now \in Nat /\ created \in Nat /\ created <= created
  BY BoundAssumption, SizeAssumption DEF GatewayInv, TypeOK
<1>3. Good(Released(st), created) BY <1>2, ReleasedGood DEF GatewayInv
<1>4. /\ Good(st', created) /\ st' \in State
      /\ Sane(disk', created) /\ disk' \in State /\ faults' \in 0 .. MaxFaults
  BY <1>1, <1>2, <1>3, SaveGood
<1>5. gen' \in [Sessions -> Nat]
  <2>1. gen \in [Sessions -> Nat] BY DEF GatewayInv, TypeOK
  <2>2. st.active \in Sessions \cup {NoSession} BY DEF GatewayInv, TypeOK, State
  <2> QED BY <1>1, <2>1, <2>2 DEF Fence
<1> QED BY <1>1, <1>4, <1>5 DEF GatewayInv, TypeOK

LEMMA StatusInv == GatewayInv /\ Status => GatewayInv'
<1> SUFFICES ASSUME GatewayInv, Status PROVE GatewayInv'
  OBVIOUS
<1>1. PICK w \in WriteResult(TRUE) : Save(Reclaimed, TRUE, w) BY DEF Status
<1>2. created \in Nat /\ created <= created BY SizeAssumption DEF GatewayInv, TypeOK
<1>3. /\ Good(st', created) /\ st' \in State
      /\ Sane(disk', created) /\ disk' \in State /\ faults' \in 0 .. MaxFaults
  BY <1>1, <1>2, ReclaimedGood, SaveGood
<1> QED BY <1>3 DEF Status, GatewayInv, TypeOK

LEMMA AdmitInv == GatewayInv /\ Admit => GatewayInv'
<1> SUFFICES ASSUME GatewayInv, Admit PROVE GatewayInv'
  OBVIOUS
<1>1. PICK w \in WriteResult(Reclaimed # st) :
        /\ Save(Reclaimed, Reclaimed # st, w)
        /\ admitted' = IF w = "saved" THEN admitted + 1 ELSE admitted
  BY DEF Admit
<1>2. created \in Nat /\ admitted \in Nat BY SizeAssumption DEF GatewayInv, TypeOK
<1>3. /\ Good(st', created) /\ st' \in State
      /\ Sane(disk', created) /\ disk' \in State /\ faults' \in 0 .. MaxFaults
  BY <1>1, <1>2, ReclaimedGood, SaveGood
<1>4. admitted' \in 0 .. MaxRequests /\ created + admitted' <= MaxRequests
  BY <1>1, <1>2, SizeAssumption DEF Admit, GatewayInv, TypeOK
<1> QED BY <1>3, <1>4 DEF Admit, GatewayInv, TypeOK

LEMMA TellType ==
  ASSUME GatewayInv, NEW r \in Requests, NEW phase \in Open \cup Ended,
         NEW answer \in Answers \cup {NoAnswer}, Tell(r, phase, answer)
  PROVE  caller' \in [Requests -> [phase : {"unborn"} \cup Open \cup Ended,
                                   answer : Answers \cup {NoAnswer}]]
BY DEF Tell, GatewayInv, TypeOK

LEMMA EnqueueInv == GatewayInv /\ Enqueue => GatewayInv'
<1> SUFFICES ASSUME GatewayInv, Enqueue PROVE GatewayInv'
  OBVIOUS
<1> DEFINE r == created + 1
<1>1. /\ created \in Nat /\ admitted \in Nat /\ created + admitted <= MaxRequests
      /\ MaxRequests \in Nat
  BY SizeAssumption DEF GatewayInv, TypeOK
<1>2. admitted > 0 /\ admitted' = admitted - 1 /\ created' = r
  BY DEF Enqueue
<1>3. r \in Requests /\ r \in Nat /\ created <= r BY <1>1, <1>2 DEF Requests
<1>4. /\ created' \in 0 .. MaxRequests /\ admitted' \in 0 .. MaxRequests
      /\ created' + admitted' <= MaxRequests
  BY <1>1, <1>2
<1>5. "error" \in Ended /\ "waiting" \in Open BY DEF Ended, Open
<1>6. CASE /\ Tell(r, "error", NoAnswer)
           /\ UNCHANGED <<st, disk, faults>>
  <2>1. caller' \in [Requests -> [phase : {"unborn"} \cup Open \cup Ended,
                                  answer : Answers \cup {NoAnswer}]]
    BY <1>3, <1>5, <1>6, TellType
  <2>2. Good(st, r) /\ Sane(disk, r) BY <1>1, <1>3, MoreRequests DEF GatewayInv
  <2> QED BY <1>2, <1>4, <1>6, <2>1, <2>2 DEF Enqueue, GatewayInv, TypeOK, Good, Sane
<1>7. CASE \E w \in WriteResult(TRUE) :
             /\ Save(Pushed(Reclaimed, r), TRUE, w)
             /\ Tell(r, IF w = "saved" THEN "waiting" ELSE "error", NoAnswer)
  <2>1. PICK w \in WriteResult(TRUE) :
             /\ Save(Pushed(Reclaimed, r), TRUE, w)
             /\ Tell(r, IF w = "saved" THEN "waiting" ELSE "error", NoAnswer)
    BY <1>7
  <2>2. caller' \in [Requests -> [phase : {"unborn"} \cup Open \cup Ended,
                                  answer : Answers \cup {NoAnswer}]]
    <3>1. (IF w = "saved" THEN "waiting" ELSE "error") \in Open \cup Ended BY <1>5
    <3> QED BY <1>3, <2>1, <3>1, TellType
  <2>3. Good(Pushed(Reclaimed, r), r) BY <1>1, <1>3, ReclaimedGood, PushedGood
  <2>4. /\ Good(st', r) /\ st' \in State
        /\ Sane(disk', r) /\ disk' \in State /\ faults' \in 0 .. MaxFaults
    BY <1>3, <2>1, <2>3, SaveGood
  <2> QED BY <1>2, <1>4, <2>2, <2>4 DEF Enqueue, GatewayInv, TypeOK
<1> QED BY <1>6, <1>7 DEF Enqueue

LEMMA ReadResultInv ==
  ASSUME NEW r \in Requests PROVE GatewayInv /\ ReadResult(r) => GatewayInv'
<1> SUFFICES ASSUME GatewayInv, ReadResult(r) PROVE GatewayInv'
  OBVIOUS
<1> DEFINE job == Reclaimed.jobs[r]
<1>1. PICK w \in WriteResult(Reclaimed # st) :
        /\ w # "saved" \/ ~IsLive(Reclaimed, r)
        /\ Save(Reclaimed, Reclaimed # st, w)
        /\ IF w # "saved" THEN Tell(r, "error", NoAnswer)
           ELSE IF job.status = "absent" THEN Tell(r, "missing", NoAnswer)
           ELSE Tell(r, job.status, job.answer)
  BY DEF ReadResult
<1>2. created \in Nat BY SizeAssumption DEF GatewayInv, TypeOK
<1>3. /\ Good(st', created) /\ st' \in State
      /\ Sane(disk', created) /\ disk' \in State /\ faults' \in 0 .. MaxFaults
  BY <1>1, <1>2, ReclaimedGood, SaveGood
<1>4. job \in Job BY ReclaimedGood DEF Good, Sane, State
<1>5. job.answer \in Answers \cup {NoAnswer} /\ job.status \in Statuses BY <1>4 DEF Job
<1>6. ~IsLive(Reclaimed, r) /\ job.status # "absent" => job.status \in Ended
  BY <1>5 DEF IsLive, Statuses, Terminal, Ended
<1>7. caller' \in [Requests -> [phase : {"unborn"} \cup Open \cup Ended,
                                answer : Answers \cup {NoAnswer}]]
  <2>1. "error" \in Ended /\ "missing" \in Ended BY DEF Ended
  <2> HIDE DEF job
  <2> QED BY <1>1, <1>5, <1>6, <2>1, TellType
<1> QED BY <1>3, <1>7 DEF ReadResult, GatewayInv, TypeOK

LEMMA GiveUpInv ==
  ASSUME NEW r \in Requests PROVE GatewayInv /\ GiveUp(r) => GatewayInv'
<1> SUFFICES ASSUME GatewayInv, GiveUp(r) PROVE GatewayInv'
  OBVIOUS
<1>1. caller' \in [Requests -> [phase : {"unborn"} \cup Open \cup Ended,
                                answer : Answers \cup {NoAnswer}]]
  <2>1. "leaving" \in Open BY DEF Open
  <2> QED BY <2>1, TellType DEF GiveUp
<1> QED BY <1>1 DEF GiveUp, GatewayInv, TypeOK

LEMMA CancelRequestInv ==
  ASSUME NEW r \in Requests PROVE GatewayInv /\ CancelRequest(r) => GatewayInv'
<1> SUFFICES ASSUME GatewayInv, CancelRequest(r) PROVE GatewayInv'
  OBVIOUS
<1> DEFINE live == IsLive(st, r)
           S == IF live THEN Cancelled(st, r) ELSE st
<1>1. PICK w \in WriteResult(live) : Save(S, live, w) BY DEF CancelRequest
<1>2. created \in Nat /\ now \in Nat
  BY SizeAssumption, BoundAssumption DEF GatewayInv, TypeOK
<1>3. Good(S, created) BY <1>2, CancelledGood DEF GatewayInv
<1>4. /\ Good(st', created) /\ st' \in State
      /\ Sane(disk', created) /\ disk' \in State /\ faults' \in 0 .. MaxFaults
  BY <1>1, <1>2, <1>3, SaveGood
<1>5. caller' \in [Requests -> [phase : {"unborn"} \cup Open \cup Ended,
                                answer : Answers \cup {NoAnswer}]]
  <2>1. "left" \in Ended BY DEF Ended
  <2> QED BY <2>1, TellType DEF CancelRequest
<1> QED BY <1>4, <1>5 DEF CancelRequest, GatewayInv, TypeOK

LEMMA DisconnectInv ==
  ASSUME NEW s \in Sessions PROVE GatewayInv /\ Disconnect(s) => GatewayInv'
BY DEF Disconnect, GatewayInv, TypeOK

LEMMA FinishDisconnectInv ==
  ASSUME NEW s \in Sessions PROVE GatewayInv /\ FinishDisconnect(s) => GatewayInv'
<1> SUFFICES ASSUME GatewayInv, FinishDisconnect(s) PROVE GatewayInv'
  OBVIOUS
<1> DEFINE mine == st.active = s
           S == IF mine THEN Disconnected(st, s) ELSE st
<1>1. PICK w \in WriteResult(mine) : Save(S, mine, w) BY DEF FinishDisconnect
<1>2. created \in Nat /\ created <= created BY SizeAssumption DEF GatewayInv, TypeOK
<1>3. Good(S, created) BY DisconnectedGood DEF GatewayInv
<1>4. /\ Good(st', created) /\ st' \in State
      /\ Sane(disk', created) /\ disk' \in State /\ faults' \in 0 .. MaxFaults
  BY <1>1, <1>2, <1>3, SaveGood
<1>5. closing' \in [Sessions -> Nat] BY DEF FinishDisconnect, GatewayInv, TypeOK
<1> QED BY <1>4, <1>5 DEF FinishDisconnect, GatewayInv, TypeOK

LEMMA EnterExchangeInv ==
  ASSUME NEW c \in Calls PROVE GatewayInv /\ EnterExchange(c) => GatewayInv'
<1> SUFFICES ASSUME GatewayInv, EnterExchange(c) PROVE GatewayInv'
  OBVIOUS
<1> PICK s \in Sessions : \E cmp \in Submittable(s) :
       call' = [call EXCEPT ![c] = [session |-> s, gen |-> gen[s],
                                    completion |-> cmp, phase |-> "entered"]]
  BY DEF EnterExchange
<1>1. PICK cmp \in Submittable(s) :
        call' = [call EXCEPT ![c] = [session |-> s, gen |-> gen[s],
                                     completion |-> cmp, phase |-> "entered"]]
  OBVIOUS
<1>2. 1 .. created \subseteq Requests BY SizeAssumption DEF GatewayInv, TypeOK, Requests
<1>3. cmp \in Completion \cup {NoCompletion}
  BY <1>2 DEF Submittable, Completion, GatewayInv, TypeOK, Delivery
<1>4. gen[s] \in Nat BY DEF GatewayInv, TypeOK
<1>5. call' \in [Calls -> CallRecord \cup {NoCall}]
  BY <1>1, <1>3, <1>4 DEF CallRecord, GatewayInv, TypeOK
<1> QED BY <1>5 DEF EnterExchange, GatewayInv, TypeOK

LEMMA ExchangeCutInv ==
  ASSUME NEW c \in Calls PROVE GatewayInv /\ ExchangeCut(c) => GatewayInv'
<1> SUFFICES ASSUME GatewayInv, ExchangeCut(c) PROVE GatewayInv'
  OBVIOUS
<1>1. Good(st, created) /\ Good(Reclaimed, created) BY ReclaimedGood DEF GatewayInv
<1>2. PICK S \in {st, Reclaimed} : \E dirty : Return(c, S, dirty, {})
  BY DEF ExchangeCut
<1> QED BY <1>1, <1>2, ReturnNothing DEF ExchangeCut

LEMMA ExchangeRefusedInv ==
  ASSUME NEW c \in Calls PROVE GatewayInv /\ ExchangeRefused(c) => GatewayInv'
<1> SUFFICES ASSUME GatewayInv, ExchangeRefused(c) PROVE GatewayInv'
  OBVIOUS
<1>1. \E dirty : Return(c, st, dirty, {}) BY DEF ExchangeRefused
<1> QED BY <1>1, ReturnNothing DEF ExchangeRefused, GatewayInv

\* The deliveries that calls tell their workers of.
LEMMA DeliveryType ==
  ASSUME GatewayInv, NEW c \in Calls, call[c] # NoCall
  PROVE  /\ tokens + 1 \in Nat
         /\ \A r \in Requests : NewDelivery(c, r) \in Delivery
<1>1. tokens \in Nat BY DEF GatewayInv, TypeOK
<1> QED BY <1>1, CallType DEF NewDelivery, Delivery

LEMMA FirstQueuedType ==
  ASSUME NEW S, NEW r \in FirstQueued(S)
  PROVE  r \in Requests /\ S.jobs[r].status = "queued"
BY DEF FirstQueued, With

LEMMA ExchangeRecoveryInv ==
  ASSUME NEW c \in Calls PROVE GatewayInv /\ ExchangeRecovery(c) => GatewayInv'
BY ReturnInv, BoundGood DEF ExchangeRecovery, Unseen, Serving, Claims

LEMMA ExchangeIdleInv ==
  ASSUME NEW c \in Calls PROVE GatewayInv /\ ExchangeIdle(c) => GatewayInv'
<1> SUFFICES ASSUME GatewayInv, ExchangeIdle(c) PROVE GatewayInv'
  OBVIOUS
<1> DEFINE P == [st EXCEPT !.pending = NoPending]
           S == RememberReplay(P, st.pending, 0, now)
<1>1. call[c] # NoCall /\ Good(st, created) /\ now \in Nat
  BY BoundAssumption DEF ExchangeIdle, GatewayInv, TypeOK
<1>2. CASE MatchesPending(st, call[c].session, call[c].completion)
  <2>1. st.pending \in Pending
    <3>1. st.pending \in Pending \cup {NoPending} BY DEF GatewayInv, TypeOK, State
    <3>2. st.pending.session # NoSession
      BY <1>1, <1>2, CallType, Sentinels DEF MatchesPending
    <3> QED BY <3>1, <3>2 DEF NoPending
  <2>2. Good(P, created) BY <1>1, PendingGood
  <2>3. 0 \in 0 .. MaxRequests BY SizeAssumption
  <2>4. Good(S, created) BY <1>1, <2>1, <2>2, <2>3, RememberGood
  <2>5. \E dirty : Return(c, S, dirty, {}) BY <1>2 DEF ExchangeIdle
  <2> HIDE DEF S
  <2> QED BY <1>1, <2>4, <2>5, ReturnNothing DEF ExchangeIdle
<1>3. CASE ~MatchesPending(st, call[c].session, call[c].completion)
  <2>1. \E dirty : Return(c, st, dirty, {}) BY <1>3 DEF ExchangeIdle
  <2> QED BY <1>1, <2>1, ReturnNothing DEF ExchangeIdle
<1> QED BY <1>2, <1>3

\* The session's outstanding delivery, made sure of.
LEMMA RedeliverGood ==
  ASSUME NEW S, NEW n, Good(S, n), NEW s \in Sessions, S.active = s
  PROVE  [S EXCEPT !.outstanding = Held(S, s)] = S
<1>1. S \in State BY DEF Good, Sane
<1>2. Held(S, s) = S.outstanding BY <1>1, HeldType DEF Good
<1> QED BY <1>1, <1>2 DEF State

LEMMA HeldDelivery ==
  ASSUME NEW S, NEW n, Good(S, n), NEW s \in Sessions, S.active = s, Held(S, s) # NoDelivery
  PROVE  Held(S, s) \in Delivery
<1>1. S \in State BY DEF Good, Sane
<1>2. Held(S, s) = S.outstanding BY <1>1, HeldType DEF Good
<1> QED BY <1>1, <1>2 DEF State

LEMMA ExchangePollInv ==
  ASSUME NEW c \in Calls PROVE GatewayInv /\ ExchangePoll(c) => GatewayInv'
<1> SUFFICES ASSUME GatewayInv, ExchangePoll(c) PROVE GatewayInv'
  OBVIOUS
<1> DEFINE S == Bound(c)
           s == call[c].session
<1>1. call[c] # NoCall /\ now \in Nat
  BY BoundAssumption DEF ExchangePoll, Serving, GatewayInv, TypeOK
<1>2. Good(S, created) /\ S.active = s /\ s \in Sessions BY <1>1, BoundGood, CallType
<1>3. \/ /\ Held(S, s) # NoDelivery
         /\ Return(c, [S EXCEPT !.outstanding = Held(S, s)], FALSE, {Held(S, s)})
         /\ NoClaim
      \/ /\ Held(S, s) = NoDelivery
         /\ \E r \in FirstQueued(S) :
              /\ Return(c, ClaimNext(S, s, r, tokens + 1, now), TRUE, {NewDelivery(c, r)})
              /\ TakeToken(c, r)
      \/ Wait(c, S, Touched(c))
  BY DEF ExchangePoll
<1> HIDE DEF S, s
<1>4. CASE /\ Held(S, s) # NoDelivery
           /\ Return(c, [S EXCEPT !.outstanding = Held(S, s)], FALSE, {Held(S, s)})
           /\ NoClaim
  <2>1. Return(c, S, FALSE, {Held(S, s)}) BY <1>2, <1>4, RedeliverGood
  <2>2. {Held(S, s)} \in SUBSET Delivery BY <1>2, <1>4, HeldDelivery
  <2> QED BY <1>1, <1>2, <1>4, <2>1, <2>2, ReturnInv DEF Claims
<1>5. CASE /\ Held(S, s) = NoDelivery
           /\ \E r \in FirstQueued(S) :
                /\ Return(c, ClaimNext(S, s, r, tokens + 1, now), TRUE, {NewDelivery(c, r)})
                /\ TakeToken(c, r)
  <2>1. PICK r \in FirstQueued(S) :
                /\ Return(c, ClaimNext(S, s, r, tokens + 1, now), TRUE, {NewDelivery(c, r)})
                /\ TakeToken(c, r)
    BY <1>5
  <2>2. r \in Requests /\ S.jobs[r].status = "queued" BY FirstQueuedType
  <2>3. tokens + 1 \in Nat /\ {NewDelivery(c, r)} \in SUBSET Delivery
    BY <1>1, <2>2, DeliveryType
  <2>4. Good(ClaimNext(S, s, r, tokens + 1, now), created)
    BY <1>1, <1>2, <1>5, <2>2, <2>3, ClaimNextGood
  <2> QED BY <1>1, <2>1, <2>2, <2>3, <2>4, ReturnInv DEF Claims
<1>6. CASE Wait(c, S, Touched(c)) BY <1>1, <1>2, <1>6, WaitInv
<1> QED BY <1>3, <1>4, <1>5, <1>6

LEMMA ExchangeReplayedInv ==
  ASSUME NEW c \in Calls PROVE GatewayInv /\ ExchangeReplayed(c) => GatewayInv'
<1> SUFFICES ASSUME GatewayInv, ExchangeReplayed(c) PROVE GatewayInv'
  OBVIOUS
<1> DEFINE S == Bound(c)
           s == call[c].session
           held == Held(S, s)
<1>1. call[c] # NoCall /\ now \in Nat
  BY BoundAssumption DEF ExchangeReplayed, Serving, GatewayInv, TypeOK
<1>2. Good(S, created) /\ S.active = s /\ s \in Sessions BY <1>1, BoundGood, CallType
<1>3. PICK q \in MatchingReplays(S, s, call[c].completion, now) :
        \/ /\ \E dirty : Return(c, S, dirty, {})
           /\ NoClaim
        \/ /\ \E dirty : Return(c, Resolve(S, q, q.next, TRUE), dirty, {})
           /\ NoClaim
        \/ /\ held # NoDelivery
           /\ Return(c, [S EXCEPT !.outstanding = held], Touched(c),
                     IF q.next \in {0, held.request} THEN {held} ELSE {})
           /\ NoClaim
        \/ /\ held = NoDelivery
           /\ \E r \in IF q.next # 0 THEN {q.next} ELSE FirstQueued(S) :
                /\ ~(q.next # 0 /\ IsOver(S, q.next))
                /\ Return(c, Claim(Resolve(S, q, r, FALSE), s, r, tokens + 1, now),
                          TRUE, {NewDelivery(c, r)})
                /\ TakeToken(c, r)
  BY DEF ExchangeReplayed
<1>4. q \in S.replays BY DEF MatchingReplays
<1>5. q.next \in 0 .. MaxRequests BY <1>2, <1>4 DEF Good, Sane, State, Replay
<1> HIDE DEF S, s, held
<1>6. CASE (\E dirty : Return(c, S, dirty, {})) /\ NoClaim
  BY <1>1, <1>2, <1>6, ReturnNothing
<1>7. CASE (\E dirty : Return(c, Resolve(S, q, q.next, TRUE), dirty, {})) /\ NoClaim
  <2>1. TRUE \in BOOLEAN OBVIOUS
  <2>2. Good(Resolve(S, q, q.next, TRUE), created)
    BY <1>2, <1>4, <1>5, <2>1, ResolveGood
  <2> QED BY <1>1, <1>7, <2>2, ReturnNothing
<1>8. CASE /\ held # NoDelivery
           /\ Return(c, [S EXCEPT !.outstanding = held], Touched(c),
                     IF q.next \in {0, held.request} THEN {held} ELSE {})
           /\ NoClaim
  <2>1. Return(c, S, Touched(c), IF q.next \in {0, held.request} THEN {held} ELSE {})
    BY <1>2, <1>8, RedeliverGood DEF held
  <2>2. held \in Delivery BY <1>2, <1>8, HeldDelivery DEF held
  <2>3. (IF q.next \in {0, held.request} THEN {held} ELSE {}) \in SUBSET Delivery BY <2>2
  <2> QED BY <1>1, <1>2, <1>8, <2>1, <2>3, ReturnInv DEF Claims
<1>9. CASE /\ held = NoDelivery
           /\ \E r \in IF q.next # 0 THEN {q.next} ELSE FirstQueued(S) :
                /\ ~(q.next # 0 /\ IsOver(S, q.next))
                /\ Return(c, Claim(Resolve(S, q, r, FALSE), s, r, tokens + 1, now),
                          TRUE, {NewDelivery(c, r)})
                /\ TakeToken(c, r)
  <2>1. PICK r \in IF q.next # 0 THEN {q.next} ELSE FirstQueued(S) :
                /\ ~(q.next # 0 /\ IsOver(S, q.next))
                /\ Return(c, Claim(Resolve(S, q, r, FALSE), s, r, tokens + 1, now),
                          TRUE, {NewDelivery(c, r)})
                /\ TakeToken(c, r)
    BY <1>9
  <2>2. r \in Requests /\ S.jobs[r].status # "absent"
    <3>1. CASE q.next # 0
      BY <1>5, <2>1, <3>1, SizeAssumption DEF Requests, IsOver, IsLive
    <3>2. CASE q.next = 0 BY <2>1, <3>2, FirstQueuedType
    <3> QED BY <3>1, <3>2
  <2> DEFINE U == Resolve(S, q, r, FALSE)
  <2>3. /\ Good(U, created) /\ U.active = S.active /\ U.jobs = S.jobs
        /\ U.outstanding = S.outstanding
    <3>1. r \in 0 .. MaxRequests /\ FALSE \in BOOLEAN BY <2>2 DEF Requests
    <3> QED BY <1>2, <1>4, <3>1, ResolveGood
  <2> HIDE DEF U
  <2>4. U.active = s /\ Held(U, s) = NoDelivery
    <3>1. S \in State /\ Coherent(S) /\ U \in State /\ Coherent(U)
      BY <1>2, <2>3 DEF Good, Sane
    <3> QED BY <1>2, <1>9, <2>3, <3>1, HeldType DEF held
  <2>5. tokens + 1 \in Nat /\ {NewDelivery(c, r)} \in SUBSET Delivery
    BY <1>1, <2>2, DeliveryType
  <2>6. Good(Claim(U, s, r, tokens + 1, now), created)
    BY <1>1, <1>2, <2>2, <2>3, <2>4, <2>5, ClaimGood
  <2>7. Return(c, Claim(U, s, r, tokens + 1, now), TRUE, {NewDelivery(c, r)}) /\ Claims(c)
    BY <2>1, <2>2 DEF U, Claims
  <2> QED BY <1>1, <2>5, <2>6, <2>7, ReturnInv
<1> QED BY <1>3, <1>6, <1>7, <1>8, <1>9

LEMMA ExchangeAcceptedInv ==
  ASSUME NEW c \in Calls PROVE GatewayInv /\ ExchangeAccepted(c) => GatewayInv'
<1> SUFFICES ASSUME GatewayInv, ExchangeAccepted(c) PROVE GatewayInv'
  OBVIOUS
<1> DEFINE S == Bound(c)
           s == call[c].session
           cmp == call[c].completion
           dup == IsDuplicate(S, s, cmp)
           done == DropDelivery(IF dup THEN S ELSE Complete(S, cmp, now), cmp.request)
           key == [session |-> s, request |-> cmp.request, token |-> cmp.token,
                   answer |-> cmp.answer]
           next == [done EXCEPT !.pending = key]
<1>1. call[c] # NoCall /\ now \in Nat
  BY BoundAssumption DEF ExchangeAccepted, Unseen, Serving, GatewayInv, TypeOK
<1>2. Good(S, created) /\ S.active = s /\ s \in Sessions BY <1>1, BoundGood, CallType
<1>3. cmp \in Completion BY <1>1, CallType DEF ExchangeAccepted, Unseen
<1>4. key \in Pending BY <1>2, <1>3 DEF Completion, Pending
<1>5. dup \/ IsCurrent(S, s, cmp) BY DEF ExchangeAccepted
<1>6. \/ /\ Held(S, s) # NoDelivery
         /\ Return(c, S, FALSE, {Held(S, s)})
         /\ NoClaim
      \/ /\ Held(done, s) = NoDelivery
         /\ \E r \in FirstQueued(done) :
              /\ Return(c, ClaimNext(next, s, r, tokens + 1, now), TRUE, {NewDelivery(c, r)})
              /\ TakeToken(c, r)
      \/ \E dirty : Wait(c, next, dirty)
  BY DEF ExchangeAccepted
<1>7. Good(done, created) /\ done.active = s
  <2>1. CASE dup
    <3>1. S.jobs[cmp.request].status # "claimed" /\ cmp.request \in Requests
      BY <1>3, <2>1 DEF IsDuplicate, Answered, Completion
    <3>2. Coherent(S) BY <1>2 DEF Good
    <3> HIDE DEF S, cmp, s
    <3>3. done = S BY <2>1, <3>1, <3>2, DropNothing
    <3> QED BY <1>2, <3>3
  <2>2. CASE ~dup
    <3>1. S.jobs[cmp.request].status = "claimed" BY <1>5, <2>2 DEF IsCurrent
    <3>2. done = DropDelivery(Complete(S, cmp, now), cmp.request) BY <2>2
    <3> HIDE DEF S, cmp, s, done
    <3> QED BY <1>1, <1>2, <1>3, <3>1, <3>2, CompleteGood
  <2> QED BY <2>1, <2>2
<1> HIDE DEF S, s, cmp, key, done
<1>8. /\ Good(next, created) /\ next.active = s
      /\ next.jobs = done.jobs /\ next.outstanding = done.outstanding
  BY <1>4, <1>7, PendingGood
<1> HIDE DEF next
<1>9. CASE /\ Held(S, s) # NoDelivery
           /\ Return(c, S, FALSE, {Held(S, s)})
           /\ NoClaim
  <2>1. {Held(S, s)} \in SUBSET Delivery BY <1>2, <1>9, HeldDelivery
  <2> QED BY <1>1, <1>2, <1>9, <2>1, ReturnInv DEF Claims
<1>10. CASE /\ Held(done, s) = NoDelivery
            /\ \E r \in FirstQueued(done) :
                 /\ Return(c, ClaimNext(next, s, r, tokens + 1, now), TRUE, {NewDelivery(c, r)})
                 /\ TakeToken(c, r)
  <2>1. PICK r \in FirstQueued(done) :
                 /\ Return(c, ClaimNext(next, s, r, tokens + 1, now), TRUE, {NewDelivery(c, r)})
                 /\ TakeToken(c, r)
    BY <1>10
  <2>2. r \in Requests /\ next.jobs[r].status = "queued" BY <1>8, FirstQueuedType
  <2>3. Held(next, s) = NoDelivery
    <3>1. done \in State /\ Coherent(done) /\ next \in State /\ Coherent(next)
      BY <1>7, <1>8 DEF Good, Sane
    <3> QED BY <1>2, <1>7, <1>8, <1>10, <3>1, HeldType
  <2>4. tokens + 1 \in Nat /\ {NewDelivery(c, r)} \in SUBSET Delivery
    BY <1>1, <2>2, DeliveryType
  <2>5. Good(ClaimNext(next, s, r, tokens + 1, now), created)
    BY <1>1, <1>2, <1>8, <2>2, <2>3, <2>4, ClaimNextGood
  <2> QED BY <1>1, <2>1, <2>2, <2>4, <2>5, ReturnInv DEF Claims
<1>11. CASE \E dirty : Wait(c, next, dirty) BY <1>1, <1>8, <1>11, WaitInv
<1> QED BY <1>6, <1>9, <1>10, <1>11

-----------------------------------------------------------------------------
LEMMA InvNext == GatewayInv /\ [Next]_vars => GatewayInv'
<1> SUFFICES ASSUME GatewayInv, [Next]_vars PROVE GatewayInv'
  OBVIOUS
<1>1. CASE UNCHANGED vars
  BY <1>1 DEF vars, GatewayInv, TypeOK
<1>2. CASE Next
  <2>1. CASE Tick \/ Restart \/ Release \/ Status \/ Admit \/ Enqueue
    BY <2>1, TickInv, RestartInv, ReleaseInv, StatusInv, AdmitInv, EnqueueInv
  <2>2. CASE \E r \in Requests : CallerStep(r)
    BY <2>2, ReadResultInv, GiveUpInv, CancelRequestInv DEF CallerStep
  <2>3. CASE \E s \in Sessions : Disconnect(s) \/ FinishDisconnect(s)
    BY <2>3, DisconnectInv, FinishDisconnectInv
  <2>4. CASE \E c \in Calls : EnterExchange(c) \/ ExchangeStep(c)
    BY <2>4, EnterExchangeInv, ExchangeCutInv, ExchangeRefusedInv, ExchangeReplayedInv,
       ExchangeRecoveryInv, ExchangeAcceptedInv, ExchangePollInv, ExchangeIdleInv
       DEF ExchangeStep
  <2> QED BY <1>2, <2>1, <2>2, <2>3, <2>4 DEF Next
<1> QED BY <1>1, <1>2

\* The inductive invariant holds in every reachable state.
LEMMA InvHolds == Spec => []GatewayInv
BY InvInit, InvNext, PTL DEF Spec

\* Every mutation of llm-gateway-store.ts, interleaved in any order with the
\* others and with restarts and failed writes, leaves well-typed state behind.
THEOREM TypeCorrect == Spec => []TypeOK
<1>1. GatewayInv => TypeOK BY DEF GatewayInv
<1> QED BY <1>1, InvHolds, PTL

\* At most one delivery is out at any time, and it is the one claim of the
\* active session (claimJob, outstandingDelivery, activeSessionId).
THEOREM OneDeliveryHolds == Spec => []OneDelivery
<1>1. GatewayInv => OneDelivery BY DEF GatewayInv, Good, OneDelivery
<1> QED BY <1>1, InvHolds, PTL

-----------------------------------------------------------------------------
(***************************************************************************)
(* What the gateway promises about requests and their answers: the         *)
(* properties that relate the stored jobs to the clock, to the deliveries  *)
(* and answers of the past and to what callers were told, and the          *)
(* refinement of RequestReply.                                             *)
(*                                                                         *)
(* Every mutation commits one state.  The argument is about that state:    *)
(* how each job of it may differ from the job before (Moved), that no      *)
(* running lease was broken to get there (Honours), and that what it       *)
(* remembers of answers agrees with its jobs (Remembers).                  *)
(***************************************************************************)

(* One job. *)

Live(job) == job.status \in {"queued", "claimed"}

\* An answer is there if and only if a claim ended with it, and is acceptable.
Shaped(job) ==
  /\ job.status = "absent" => job = NoJob
  /\ job.status # "claimed" => job.by = NoSession
  /\ job.answer # NoAnswer => job.status \in {"completed", "failed"}
  /\ job.lastReason = "completed" <=> job.answer # NoAnswer
  /\ job.answer \in Responses => job.answer \notin InvalidResponses

\* A job loses its claim, or ends without an answer.
LetsGo(j, k) ==
  /\ Live(j)
  /\ k.status \in {"queued"} \cup Terminal
  /\ k.by = NoSession /\ k.answer = j.answer /\ k.lastReason # "completed"

\* What becomes of a job when nobody claims or answers it.
Ages(j, k) ==
  \/ k = j
  \/ LetsGo(j, k)
  \/ j.status # "absent" /\ k = NoJob

Age(S, T) == \A r \in Requests : Ages(S.jobs[r], T.jobs[r])

LEMMA NoJobFacts ==
  /\ NoJob.status = "absent" /\ NoJob.by = NoSession /\ NoJob.answer = NoAnswer
  /\ NoJob.lastReason = "none" /\ Shaped(NoJob) /\ ~Live(NoJob)
<1>1. /\ NoJob.status = "absent" /\ NoJob.by = NoSession /\ NoJob.answer = NoAnswer
      /\ NoJob.lastReason = "none"
  BY DEF NoJob
<1> QED BY <1>1, SentinelAssumption DEF Shaped, Live

LEMMA AgesTrans ==
  ASSUME NEW i, NEW j, NEW k, Ages(i, j), Ages(j, k)
  PROVE  Ages(i, k)
BY NoJobFacts DEF Ages, LetsGo, Live

LEMMA AgeTrans ==
  ASSUME NEW S, NEW T, NEW U, Age(S, T), Age(T, U)
  PROVE  Age(S, U)
BY AgesTrans DEF Age

LEMMA AgesShaped ==
  ASSUME NEW j, NEW k, Shaped(j), Ages(j, k)
  PROVE  Shaped(k)
<1>1. CASE k = j BY <1>1
<1>2. CASE k = NoJob BY <1>2, NoJobFacts
<1>3. CASE LetsGo(j, k)
  <2>1. k.answer = NoAnswer BY <1>3 DEF LetsGo, Live, Shaped
  <2> QED BY <1>3, <2>1, SentinelAssumption DEF LetsGo, Shaped, Terminal
<1> QED BY <1>1, <1>2, <1>3 DEF Ages

\* The two ways in which a claim ends without an answer.
LEMMA RequeuedAges ==
  ASSUME NEW job \in Job, job.status = "claimed"
  PROVE  Ages(job, Requeued(job))
<1>1. /\ Requeued(job).status = "queued" /\ Requeued(job).by = NoSession
      /\ Requeued(job).answer = job.answer /\ Requeued(job).lastReason = "stale_claim"
  BY DEF Requeued, EndClaim, Job
<1> QED BY <1>1 DEF Ages, LetsGo, Live

LEMMA AbandonAges ==
  ASSUME NEW job \in Job, Live(job), Shaped(job), NEW status \in Terminal,
         NEW reason \in Endings, reason # "completed", NEW t
  PROVE  Ages(job, Abandon(job, status, reason, t))
<1> DEFINE e == IF job.status = "claimed" THEN EndClaim(job, reason) ELSE job
           k == Abandon(job, status, reason, t)
<1>1. job.answer = NoAnswer /\ job.lastReason # "completed" BY DEF Live, Shaped
<1>2. e \in Job BY EndClaimType
<1>3. e.by = NoSession /\ e.answer = job.answer /\ e.lastReason # "completed"
  <2>1. CASE job.status = "claimed" BY <2>1 DEF EndClaim, Job
  <2>2. CASE job.status # "claimed" BY <1>1, <2>2 DEF Shaped
  <2> QED BY <2>1, <2>2
<1>4. k = [e EXCEPT !.status = status, !.doneAt = t] BY DEF Abandon
<1> HIDE DEF e, k
<1>5. k.status = status /\ k.by = e.by /\ k.answer = e.answer /\ k.lastReason = e.lastReason
  BY <1>2, <1>4 DEF Job
<1> QED BY <1>3, <1>5 DEF Ages, LetsGo, k

-----------------------------------------------------------------------------
(* What the operators on states do to every job.       *)

\* The memory of answers does not grow.
Declines(S, T) ==
  /\ Age(S, T)
  /\ T.replays \subseteq S.replays
  /\ T.pending \in {S.pending, NoPending}

LEMMA DeclinesTrans ==
  ASSUME NEW S, NEW T, NEW U, Declines(S, T), Declines(T, U)
  PROVE  Declines(S, U)
BY AgeTrans DEF Declines

LEMMA RequeueAges ==
  ASSUME NEW S \in State, NEW R, R \subseteq With(S, "claimed")
  PROVE  Declines(S, Requeue(S, R))
<1>1. \A r \in Requests :
        Requeue(S, R).jobs[r] = IF r \in R THEN Requeued(S.jobs[r]) ELSE S.jobs[r]
  BY DEF Requeue, State
<1>2. Requeue(S, R).replays = S.replays /\ Requeue(S, R).pending = S.pending
  BY DEF Requeue, State
<1>3. Age(S, Requeue(S, R))
  <2> SUFFICES ASSUME NEW r \in Requests PROVE Ages(S.jobs[r], Requeue(S, R).jobs[r])
    BY DEF Age
  <2>1. S.jobs[r] \in Job BY DEF State
  <2>2. CASE r \in R
    <3>1. S.jobs[r].status = "claimed" BY <2>2 DEF With
    <3> QED BY <1>1, <2>1, <2>2, <3>1, RequeuedAges
  <2>3. CASE r \notin R BY <1>1, <2>3 DEF Ages
  <2> QED BY <2>2, <2>3
<1> QED BY <1>2, <1>3 DEF Declines

\* A state with the jobs and no more memory of S than S itself.
LEMMA SameDeclines ==
  ASSUME NEW S, NEW T, T.jobs = S.jobs, T.replays \subseteq S.replays,
         T.pending \in {S.pending, NoPending}
  PROVE  Declines(S, T)
BY DEF Declines, Age, Ages

LEMMA ReclaimDeclines ==
  ASSUME NEW S \in State, NEW t
  PROVE  LET T == ReclaimExpiredClaims(S, t)
         IN /\ Declines(S, T) /\ T.heard = S.heard
            /\ \A r \in With(S, "claimed") : ~(S.jobs[r].lease <= t) => T.jobs[r] = S.jobs[r]
            /\ With(T, "claimed") \subseteq With(S, "claimed")
<1> DEFINE X == Expired(S, t)
           U == Requeue(S, X)
           T == DropDeadDelivery(U)
<1>1. X \subseteq With(S, "claimed") /\ X \subseteq Requests BY DEF Expired, With
<1>2. Declines(S, U) BY <1>1, RequeueAges
<1>3. /\ \A r \in Requests : U.jobs[r] = IF r \in X THEN Requeued(S.jobs[r]) ELSE S.jobs[r]
      /\ U.heard = S.heard /\ DOMAIN U = DOMAIN S
  BY DEF Requeue, State
<1>4. T = U \/ T = [U EXCEPT !.outstanding = NoDelivery] BY DEF DropDeadDelivery
<1>5. /\ T.jobs = U.jobs /\ T.heard = U.heard /\ T.replays = U.replays /\ T.pending = U.pending
  <2>1. DOMAIN U = {"released", "active", "heard", "jobs", "outstanding", "pending", "replays"}
    BY <1>3 DEF State
  <2> HIDE DEF U, T
  <2> QED BY <1>4, <2>1
<1> HIDE DEF U, T
<1>6. Declines(U, T) BY <1>5, SameDeclines
<1>7. Declines(S, T) BY <1>2, <1>6, DeclinesTrans
<1>8. \A r \in With(S, "claimed") : ~(S.jobs[r].lease <= t) => T.jobs[r] = S.jobs[r]
  BY <1>3, <1>5 DEF With, Expired
<1>9. With(T, "claimed") \subseteq With(S, "claimed")
  <2> SUFFICES ASSUME NEW r \in With(T, "claimed") PROVE r \in With(S, "claimed")
    OBVIOUS
  <2>1. r \in Requests /\ Ages(S.jobs[r], T.jobs[r]) /\ T.jobs[r].status = "claimed"
    BY <1>7 DEF Declines, Age, With
  <2> QED BY <2>1, NoJobFacts DEF Ages, LetsGo, Terminal, With
<1> QED BY <1>3, <1>5, <1>7, <1>8, <1>9 DEF ReclaimExpiredClaims, U, T

LEMMA BindDeclines ==
  ASSUME NEW S \in State, NEW s
  PROVE  /\ Declines(S, BindSession(S, s))
         /\ BindSession(S, s).heard = S.heard
         /\ S.active \in {NoSession, s} =>
              /\ BindSession(S, s).jobs = S.jobs
              /\ BindSession(S, s).outstanding = S.outstanding
         /\ S.active = s => BindSession(S, s) = S
<1>1. CASE S.active \in {NoSession, s}
  <2> DEFINE T == [S EXCEPT !.active = s]
  <2>1. BindSession(S, s) = T BY <1>1 DEF BindSession
  <2>2. /\ T.jobs = S.jobs /\ T.replays = S.replays /\ T.pending = S.pending
        /\ T.heard = S.heard /\ T.outstanding = S.outstanding /\ (S.active = s => T = S)
    BY DEF State
  <2> HIDE DEF T
  <2> QED BY <2>1, <2>2, SameDeclines
<1>2. CASE S.active \notin {NoSession, s}
  <2> DEFINE U == Requeue(S, ClaimedBy(S, S.active))
             T == [U EXCEPT !.active = s, !.outstanding = NoDelivery,
                            !.pending = NoPending, !.replays = {}]
  <2>1. BindSession(S, s) = T BY <1>2 DEF BindSession
  <2>2. ClaimedBy(S, S.active) \subseteq With(S, "claimed") BY DEF ClaimedBy
  <2>3. Declines(S, U) BY <2>2, RequeueAges
  <2>4. U.heard = S.heard
        /\ DOMAIN U = {"released", "active", "heard", "jobs", "outstanding", "pending", "replays"}
    BY DEF Requeue, State
  <2> HIDE DEF U
  <2>5. T.jobs = U.jobs /\ T.replays = {} /\ T.pending = NoPending /\ T.heard = U.heard
    BY <2>4
  <2> HIDE DEF T
  <2>6. Declines(U, T) BY <2>5, SameDeclines
  <2> QED BY <1>2, <2>1, <2>3, <2>4, <2>5, <2>6, DeclinesTrans
<1> QED BY <1>1, <1>2

LEMMA HearDeclines ==
  ASSUME NEW S \in State, NEW t
  PROVE  /\ Declines(S, Hear(S, t)) /\ Hear(S, t).heard = t /\ Hear(S, t).jobs = S.jobs
         /\ Hear(S, t).outstanding = S.outstanding /\ Hear(S, t).active = S.active
         /\ Hear(S, t).pending = S.pending /\ Hear(S, t).replays = S.replays
         /\ Hear(S, t).released = S.released
         /\ \A u : Hear(Hear(S, t), u) = Hear(S, u)
<1> DEFINE T == Hear(S, t)
<1>1. /\ T.jobs = S.jobs /\ T.replays = S.replays /\ T.pending = S.pending /\ T.heard = t
      /\ T.outstanding = S.outstanding /\ T.active = S.active /\ T.released = S.released
  BY DEF Hear, State
<1>2. \A u : Hear(Hear(S, t), u) = Hear(S, u) BY DEF Hear, State
<1> HIDE DEF T
<1> QED BY <1>1, <1>2, SameDeclines DEF T

LEMMA PruneDeclines ==
  ASSUME NEW S \in State
  PROVE  /\ Declines(S, PruneJobs(S))
         /\ PruneJobs(S).heard = S.heard /\ PruneJobs(S).active = S.active
         /\ \A r \in Requests : PruneJobs(S).jobs[r] = S.jobs[r]
                                  \/ (S.jobs[r].status \in Terminal /\ PruneJobs(S).jobs[r] = NoJob)
<1> DEFINE excess == Cardinality(Present(S)) - MaxRetainedJobs
           removed == {r \in Finished(S) :
                         Cardinality({q \in Finished(S) : EndedBefore(S, q, r)}) < excess}
           T == PruneJobs(S)
<1>1. \A r \in removed : S.jobs[r].status \in Terminal BY DEF Finished
<1>2. T = [S EXCEPT !.jobs = [r \in Requests |-> IF r \in removed THEN NoJob ELSE S.jobs[r]]]
  BY DEF PruneJobs
<1> HIDE DEF removed, T
<1>3. /\ \A r \in Requests : T.jobs[r] = IF r \in removed THEN NoJob ELSE S.jobs[r]
      /\ T.replays = S.replays /\ T.pending = S.pending /\ T.heard = S.heard
      /\ T.active = S.active
  BY <1>2 DEF State
<1>4. \A r \in Requests : T.jobs[r] = S.jobs[r]
                            \/ (S.jobs[r].status \in Terminal /\ T.jobs[r] = NoJob)
  BY <1>1, <1>3
<1>5. Age(S, T) BY <1>4 DEF Age, Ages, Terminal
<1> QED BY <1>3, <1>4, <1>5 DEF Declines, T

LEMMA DisconnectedDeclines ==
  ASSUME NEW S \in State, NEW s
  PROVE  Declines(S, Disconnected(S, s)) /\ Disconnected(S, s).active = NoSession
<1> DEFINE U == Requeue(S, ClaimedBy(S, s))
           T == [U EXCEPT !.outstanding = NoDelivery, !.active = NoSession, !.heard = Never]
<1>1. ClaimedBy(S, s) \subseteq With(S, "claimed") BY DEF ClaimedBy
<1>2. Declines(S, U) BY <1>1, RequeueAges
<1>3. DOMAIN U = {"released", "active", "heard", "jobs", "outstanding", "pending", "replays"}
  BY DEF Requeue, State
<1> HIDE DEF U
<1>4. T.jobs = U.jobs /\ T.replays = U.replays /\ T.pending = U.pending /\ T.active = NoSession
  BY <1>3
<1>5. Disconnected(S, s) = T BY DEF Disconnected, U
<1> HIDE DEF T
<1>6. Declines(U, T) BY <1>4, SameDeclines
<1> QED BY <1>2, <1>4, <1>5, <1>6, DeclinesTrans

LEMMA ActivatedDeclines ==
  ASSUME NEW S \in State
  PROVE  /\ Declines(S, Activated(S)) /\ Activated(S).active = NoSession
         /\ Activated(S).heard = Never
<1> DEFINE U == Requeue(S, With(S, "claimed"))
           R == TrimExchangeReplays(S.replays, now)
           T == [U EXCEPT !.released = FALSE, !.active = NoSession, !.heard = Never,
                          !.outstanding = NoDelivery, !.replays = R]
<1>1. Declines(S, U) BY RequeueAges
<1>2. U.replays = S.replays /\ U \in State
  <2>1. \A r \in Requests : S.jobs[r] \in Job BY DEF State
  <2> QED BY <2>1, RequeuedType DEF Requeue, State
<1>3. R \subseteq S.replays /\ R \in SUBSET Replay
  <2>1. R \subseteq S.replays BY DEF TrimExchangeReplays
  <2> QED BY <2>1 DEF State
<1> HIDE DEF U, R
<1>4. T.jobs = U.jobs /\ T.replays \subseteq U.replays /\ T.pending = U.pending
      /\ T.active = NoSession /\ T.heard = Never
  BY <1>2, <1>3 DEF State
<1>5. T \in State
  <2> DEFINE V == [U EXCEPT !.released = FALSE, !.active = NoSession, !.heard = Never]
  <2>1. V \in State BY <1>2, NeverType DEF State
  <2>2. T = [V EXCEPT !.outstanding = NoDelivery, !.replays = R] BY <1>2 DEF State
  <2> HIDE DEF V
  <2> QED BY <1>3, <2>1, <2>2 DEF State
<1>6. Activated(S) = PruneJobs(T) BY DEF Activated, U, R
<1> HIDE DEF T
<1>7. Declines(U, T) BY <1>4, SameDeclines
<1> QED BY <1>1, <1>4, <1>5, <1>6, <1>7, PruneDeclines, DeclinesTrans

LEMMA ReleasedDeclines ==
  ASSUME NEW S \in State, \A r \in Requests : Shaped(S.jobs[r]), now \in Nat
  PROVE  /\ Declines(S, Released(S)) /\ Released(S).active = NoSession
         /\ \A r \in Requests : ~Live(Released(S).jobs[r])
<1> DEFINE J == [r \in Requests |-> IF IsLive(S, r)
                                      THEN Abandon(S.jobs[r], "failed", "released", now)
                                      ELSE S.jobs[r]]
           T == [S EXCEPT !.released = TRUE, !.active = NoSession, !.heard = Never, !.jobs = J,
                          !.outstanding = NoDelivery, !.pending = NoPending, !.replays = {}]
<1>1. \A r \in Requests : S.jobs[r] \in Job BY DEF State
<1>2. "failed" \in Terminal /\ "released" \in Endings BY DEF Terminal, Endings
<1>3. \A r \in Requests : J[r] \in Job /\ Ages(S.jobs[r], J[r]) /\ ~Live(J[r])
  <2> SUFFICES ASSUME NEW r \in Requests
               PROVE  J[r] \in Job /\ Ages(S.jobs[r], J[r]) /\ ~Live(J[r])
    OBVIOUS
  <2>1. CASE IsLive(S, r)
    <3>1. J[r] = Abandon(S.jobs[r], "failed", "released", now) BY <2>1
    <3>2. J[r] \in Job /\ J[r].status = "failed" BY <1>1, <1>2, <3>1, AbandonType
    <3>3. Ages(S.jobs[r], J[r]) BY <1>1, <1>2, <2>1, <3>1, AbandonAges DEF IsLive, Live
    <3> QED BY <3>2, <3>3 DEF Live
  <2>2. CASE ~IsLive(S, r) BY <1>1, <2>2 DEF Ages, IsLive, Live
  <2> QED BY <2>1, <2>2
<1>4. J \in [Requests -> Job] BY <1>3
<1> HIDE DEF J
<1>5. /\ T.jobs = J /\ T.replays = {} /\ T.pending = NoPending /\ T.active = NoSession
      /\ T \in State
  BY <1>4, NeverType DEF State
<1>6. Released(S) = PruneJobs(T) BY DEF Released, J
<1> HIDE DEF T
<1>7. Declines(S, T) BY <1>3, <1>5 DEF Declines, Age
<1>8. \A r \in Requests : ~Live(PruneJobs(T).jobs[r]) BY <1>3, <1>5, PruneDeclines, NoJobFacts
<1> QED BY <1>5, <1>6, <1>7, <1>8, PruneDeclines, DeclinesTrans

LEMMA CancelledDeclines ==
  ASSUME NEW S \in State, NEW r \in Requests, IsLive(S, r), Shaped(S.jobs[r]), now \in Nat
  PROVE  /\ Declines(S, Cancelled(S, r)) /\ Cancelled(S, r).heard = S.heard
         /\ Cancelled(S, r).jobs[r].status = "cancelled"
         /\ \A q \in Requests \ {r} : Cancelled(S, r).jobs[q] = S.jobs[q]
<1> DEFINE job == Abandon(S.jobs[r], "cancelled", "cancelled", now)
           U == [S EXCEPT !.jobs[r] = job]
           T == Cancelled(S, r)
<1>1. S.jobs[r] \in Job BY DEF State
<1>2. "cancelled" \in Terminal /\ "cancelled" \in Endings BY DEF Terminal, Endings
<1>3. job.status = "cancelled" /\ Ages(S.jobs[r], job)
  BY <1>1, <1>2, AbandonType, AbandonAges DEF IsLive, Live
<1>4. T = U \/ T = [U EXCEPT !.outstanding = NoDelivery] BY DEF Cancelled, DropDelivery
<1> HIDE DEF job, T
<1>5. /\ U.jobs[r] = job /\ \A q \in Requests \ {r} : U.jobs[q] = S.jobs[q]
      /\ U.replays = S.replays /\ U.pending = S.pending /\ U.heard = S.heard
      /\ DOMAIN U = {"released", "active", "heard", "jobs", "outstanding", "pending", "replays"}
  BY DEF State
<1> HIDE DEF U
<1>6. T.jobs = U.jobs /\ T.replays = U.replays /\ T.pending = U.pending /\ T.heard = U.heard
  BY <1>4, <1>5
<1>7. Age(S, T) BY <1>3, <1>5, <1>6 DEF Age, Ages
<1> QED BY <1>3, <1>5, <1>6, <1>7 DEF Declines, T

-----------------------------------------------------------------------------
(***************************************************************************)
(* The inductive invariant.                                                *)
(***************************************************************************)

\* What q says of an answer, the job that it is about says too.  n requests exist.
Backs(S, n, q) ==
  /\ q.request <= n
  /\ \/ S.jobs[q.request].status = "absent"
     \/ Answered(S, q.session, q) /\ S.jobs[q.request].answer = q.answer

Remembers(S, n) ==
  /\ \A q \in S.replays : Backs(S, n, q)
  /\ S.pending # NoPending => Backs(S, n, S.pending)

\* Who holds a claim has been heard.
Alive(S) == With(S, "claimed") # {} => S.heard # Never

\* No worker was told of a later delivery of a request than the last one, and a
\* token stands for one request, even when workers mix up their completions.
Numbered ==
  /\ \A d \in told : d.token <= tokens
  /\ \A r \in With(st, "claimed") :
       /\ st.jobs[r].token <= tokens
       /\ \A d \in told : /\ d.request = r => d.token <= st.jobs[r].token
                          /\ d.token = st.jobs[r].token => d.request = r
  /\ \A r \in Requests :
       st.jobs[r].answer # NoAnswer =>
         /\ [session |-> st.jobs[r].lastBy, request |-> r, token |-> st.jobs[r].lastToken] \in told
         /\ \A d \in told : d.request = r => d.token <= st.jobs[r].lastToken

\* A call quotes the token of a delivery that its session was told of.
Quotes(record) ==
  record # NoCall /\ record.completion # NoCompletion =>
    \E d \in told : d.session = record.session /\ d.token = record.completion.token

PromiseInv ==
  /\ GatewayInv
  /\ MemoryIsDurable
  /\ \A r \in Requests : Shaped(st.jobs[r])
  /\ Alive(st)
  /\ Remembers(st, created)
  /\ Numbered
  /\ \A c \in Calls : Quotes(call[c])
  /\ NothingStranded
  /\ OutcomeKept

(***************************************************************************)
(* What a mutation commits.                                                *)
(***************************************************************************)

\* The active session is handed a request with a new token.
Gives(S, r) ==
  /\ Live(st.jobs[r])
  /\ S.jobs[r].status = "claimed" /\ S.jobs[r].by \in Sessions
  /\ S.jobs[r].answer = st.jobs[r].answer /\ S.jobs[r].lastReason # "completed"
  /\ S.jobs[r].token = tokens + 1 /\ tokens' = tokens + 1
  /\ claimGen'[r] = gen[S.jobs[r].by]

\* The worker that was told of the request's claim answers it.
Takes(S, r) ==
  LET j == st.jobs[r]
      k == S.jobs[r]
  IN /\ j.status = "claimed" /\ j.by \in Sessions
     /\ k.status \in {"completed", "failed"}
     /\ k.by = NoSession /\ k.lastBy = j.by /\ k.lastToken = j.token
     /\ k.lastReason = "completed" /\ k.answer \in Answers \ InvalidResponses
     /\ [session |-> j.by, request |-> r, token |-> j.token] \in told

\* The request is new.
Arrives(S, r) ==
  /\ r = created + 1 /\ created' = created + 1
  /\ S.jobs[r] = [NoJob EXCEPT !.status = "queued"]

Moved(S, r) == Ages(st.jobs[r], S.jobs[r]) \/ Gives(S, r) \/ Takes(S, r) \/ Arrives(S, r)

\* The formula inside LeaseHonoured.
Honours(S) ==
  \A r \in With(st, "claimed") :
    st.jobs[r].lease > now =>
      \/ S.jobs[r] = st.jobs[r]
      \/ S.jobs[r].status \in Terminal \cup {"absent"}
      \/ S.jobs[r].status = "queued" /\ S.active = NoSession

Worthy(S, n) ==
  /\ \A r \in Requests : Moved(S, r)
  /\ Honours(S)
  /\ Alive(S)
  /\ Remembers(S, n)

\* The deliveries that a step tells workers of are claims of the state it commits.
IsClaim(S, d) ==
  /\ d.request \in With(S, "claimed")
  /\ d = [session |-> S.jobs[d.request].by, request |-> d.request,
          token |-> S.jobs[d.request].token]

Stepped ==
  /\ Worthy(st', created')
  /\ MemoryIsDurable'
  /\ tokens' \in {tokens, tokens + 1}
  /\ told \subseteq told'
  /\ \A d \in told' \ told : IsClaim(st', d)

\* What every step does: it keeps the invariant, moves each request as it may,
\* and breaks no running lease.
Advances ==
  /\ PromiseInv'
  /\ \A r \in Requests : Moved(st', r)
  /\ Honours(st')
  /\ created' \in {created, created + 1}

-----------------------------------------------------------------------------
(* A step like that keeps the history in order. *)

LEMMA PromiseTypes ==
  ASSUME PromiseInv
  PROVE  /\ st \in State /\ Coherent(st) /\ Unborn(st, created)
         /\ \A r \in Requests : st.jobs[r] \in Job /\ Shaped(st.jobs[r])
         /\ now \in Nat /\ created \in Nat /\ tokens \in Nat /\ faults \in Nat
         /\ \A d \in told : d \in Delivery
  BY SizeAssumption, BoundAssumption
     DEF PromiseInv, GatewayInv, TypeOK, Good, Sane, State

LEMMA JobsStayShaped ==
  ASSUME PromiseInv, NEW S, NEW r \in Requests, Moved(S, r)
  PROVE  Shaped(S.jobs[r])
<1>1. Shaped(st.jobs[r]) BY DEF PromiseInv
<1>2. CASE Ages(st.jobs[r], S.jobs[r]) BY <1>1, <1>2, AgesShaped
<1>3. CASE Gives(S, r)
  <2>1. S.jobs[r].answer = NoAnswer BY <1>1, <1>3 DEF Gives, Live, Shaped
  <2> QED BY <1>3, <2>1, SentinelAssumption DEF Gives, Shaped
<1>4. CASE Takes(S, r)
  BY <1>4, SentinelAssumption DEF Takes, Shaped, Answers
<1>5. CASE Arrives(S, r)
  <2>1. /\ S.jobs[r].status = "queued" /\ S.jobs[r].by = NoSession
        /\ S.jobs[r].answer = NoAnswer /\ S.jobs[r].lastReason = "none"
    BY <1>5 DEF Arrives, NoJob
  <2> QED BY <2>1, SentinelAssumption DEF Shaped
<1> QED BY <1>2, <1>3, <1>4, <1>5 DEF Moved

\* An answered job stays as it is, until it is pruned.
LEMMA AnswerStays ==
  ASSUME PromiseInv, NEW S, NEW r \in Requests, Moved(S, r), st.jobs[r].status \in Terminal
  PROVE  S.jobs[r] = st.jobs[r] \/ S.jobs[r].status = "absent"
<1>1. ~Live(st.jobs[r]) /\ st.jobs[r].status \notin {"claimed", "absent"}
  BY DEF Live, Terminal
<1>2. ~Arrives(S, r)
  BY <1>1, PromiseTypes DEF Arrives, Unborn
<1> QED BY <1>1, <1>2, NoJobFacts DEF Moved, Ages, LetsGo, Gives, Takes

LEMMA NumberedStep ==
  ASSUME PromiseInv, GatewayInv', Stepped
  PROVE  Numbered'
<1> DEFINE j(r) == st.jobs[r]
           k(r) == st'.jobs[r]
<1>1. \A r \in Requests : Moved(st', r) BY DEF Stepped, Worthy
<1>2. tokens \in Nat /\ tokens' \in {tokens, tokens + 1} BY PromiseTypes DEF Stepped
<1>3. /\ \A d \in told : d.token \in Nat /\ d.token <= tokens
      /\ \A r \in Requests : j(r) \in Job /\ Shaped(j(r))
  BY PromiseTypes DEF PromiseInv, Numbered, Delivery
<1>4. Coherent(st') /\ told' \in SUBSET Delivery /\ told \subseteq told'
  BY DEF GatewayInv, TypeOK, Good, Stepped
<1>5. \A d \in told' \ told : IsClaim(st', d) BY DEF Stepped
<1>6. ASSUME NEW d \in told' \ told
      PROVE  /\ With(st', "claimed") = {d.request} /\ d.token = k(d.request).token
             /\ d.session = k(d.request).by
  <2>1. /\ d.request \in With(st', "claimed")
        /\ d = [session |-> st'.jobs[d.request].by, request |-> d.request,
                token |-> st'.jobs[d.request].token]
    BY <1>5, <1>6 DEF IsClaim
  <2>2. With(st', "claimed") = {d.request} BY <1>4, <2>1, OneClaim
  <2>3. d.token = st'.jobs[d.request].token /\ d.session = st'.jobs[d.request].by
    BY <2>1
  <2> QED BY <2>2, <2>3
\* A claim is as before, or new.
<1>7. ASSUME NEW r \in With(st', "claimed")
      PROVE  \/ r \in With(st, "claimed") /\ k(r) = j(r)
             \/ k(r).token = tokens + 1 /\ tokens' = tokens + 1
  <2>1. r \in Requests /\ k(r).status = "claimed" BY DEF With
  <2>2. CASE Ages(j(r), k(r))
    BY <2>1, <2>2, NoJobFacts DEF Ages, LetsGo, Terminal, With
  <2>3. CASE Gives(st', r) BY <2>3 DEF Gives
  <2>4. ~Takes(st', r) BY <2>1 DEF Takes
  <2>5. ~Arrives(st', r) BY <2>1 DEF Arrives, NoJob
  <2> QED BY <1>1, <2>1, <2>2, <2>3, <2>4, <2>5 DEF Moved
<1>8. ASSUME NEW r \in With(st', "claimed")
      PROVE  /\ k(r).token \in Nat /\ k(r).token <= tokens'
             /\ \A d \in told' : /\ d.request = r => d.token <= k(r).token
                                 /\ d.token = k(r).token => d.request = r
  <2>1. CASE r \in With(st, "claimed") /\ k(r) = j(r)
    <3>1. r \in Requests /\ j(r).token \in Nat BY <1>3, <2>1 DEF With, Job
    <3>2. /\ j(r).token <= tokens
          /\ \A d \in told : /\ d.request = r => d.token <= j(r).token
                             /\ d.token = j(r).token => d.request = r
      BY <2>1 DEF PromiseInv, Numbered
    <3> HIDE DEF j, k
    <3> QED BY <1>2, <1>6, <2>1, <3>1, <3>2
  <2>2. CASE k(r).token = tokens + 1 /\ tokens' = tokens + 1
    <3> HIDE DEF j, k
    <3> QED BY <1>2, <1>3, <1>6, <2>2
  <2> QED BY <1>7, <2>1, <2>2
<1>9. \A d \in told' : d.token <= tokens'
  <2> HIDE DEF j, k
  <2>1. \A d \in told : d.token <= tokens' BY <1>2, <1>3
  <2>2. ASSUME NEW d \in told' \ told PROVE d.token <= tokens' BY <1>6, <1>8, <2>2
  <2> QED BY <2>1, <2>2
<1>10. ASSUME NEW r \in Requests, k(r).answer # NoAnswer
       PROVE  /\ [session |-> k(r).lastBy, request |-> r, token |-> k(r).lastToken] \in told'
              /\ \A d \in told' : d.request = r => d.token <= k(r).lastToken
  <2>1. Shaped(k(r)) BY <1>1, JobsStayShaped
  <2>2. k(r).status \in {"completed", "failed"} BY <1>10, <2>1 DEF Shaped
  <2>3. r \notin With(st', "claimed") BY <2>2 DEF With
  <2>4. \A d \in told' : d.request = r => d \in told BY <1>6, <2>3
  <2>5. CASE Takes(st', r)
    <3>1. /\ r \in With(st, "claimed") /\ k(r).lastBy = j(r).by /\ k(r).lastToken = j(r).token
          /\ [session |-> j(r).by, request |-> r, token |-> j(r).token] \in told
      BY <2>5 DEF Takes, With
    <3>2. \A d \in told : d.request = r => d.token <= j(r).token
      BY <3>1 DEF PromiseInv, Numbered
    <3> HIDE DEF j, k
    <3> QED BY <1>4, <2>4, <3>1, <3>2
  <2>6. CASE Ages(j(r), k(r))
    <3>1. k(r) = j(r)
      <4>1. k(r) # NoJob BY <1>10, NoJobFacts
      <4>2. ~LetsGo(j(r), k(r)) BY <1>3, <1>10 DEF LetsGo, Live, Shaped
      <4> QED BY <2>6, <4>1, <4>2 DEF Ages
    <3>2. /\ [session |-> j(r).lastBy, request |-> r, token |-> j(r).lastToken] \in told
          /\ \A d \in told : d.request = r => d.token <= j(r).lastToken
      BY <1>10, <3>1 DEF PromiseInv, Numbered
    <3> HIDE DEF j, k
    <3> QED BY <1>4, <2>4, <3>1, <3>2
  <2>7. ~Gives(st', r) BY <2>2 DEF Gives
  <2>8. ~Arrives(st', r) BY <2>2 DEF Arrives, NoJob
  <2> QED BY <1>1, <2>5, <2>6, <2>7, <2>8 DEF Moved
<1> QED BY <1>8, <1>9, <1>10 DEF Numbered, With

LEMMA HistoryStep ==
  ASSUME PromiseInv, GatewayInv', Stepped
  PROVE  /\ MemoryIsDurable' /\ (\A r \in Requests : Shaped(st.jobs[r]))'
         /\ Alive(st)' /\ Remembers(st, created)' /\ Numbered'
<1>1. \A r \in Requests : Shaped(st'.jobs[r]) BY JobsStayShaped DEF Stepped, Worthy
<1>2. Alive(st)' BY DEF Stepped, Worthy, Alive, With
<1>3. Remembers(st, created)' BY DEF Stepped, Worthy, Remembers, Backs, Answered
<1> QED BY <1>1, <1>2, <1>3, NumberedStep DEF Stepped

-----------------------------------------------------------------------------
(* Worthy states. *)

LEMMA DeclinesRemembers ==
  ASSUME NEW S \in State, NEW T, NEW n, Declines(S, T), Remembers(S, n)
  PROVE  Remembers(T, n)
<1>1. ASSUME NEW q, q.request \in Requests, Backs(S, n, q) PROVE Backs(T, n, q)
  <2>1. Ages(S.jobs[q.request], T.jobs[q.request]) BY <1>1 DEF Declines, Age
  <2>2. CASE S.jobs[q.request].status = "absent"
    <3>1. T.jobs[q.request].status = "absent" BY <2>1, <2>2 DEF Ages, LetsGo, Live
    <3> QED BY <1>1, <3>1 DEF Backs
  <2>3. CASE Answered(S, q.session, q) /\ S.jobs[q.request].answer = q.answer
    <3>1. T.jobs[q.request] = S.jobs[q.request] \/ T.jobs[q.request].status = "absent"
      BY <2>1, <2>3, NoJobFacts DEF Ages, LetsGo, Live, Answered
    <3> QED BY <1>1, <2>3, <3>1 DEF Backs, Answered
  <2> QED BY <1>1, <2>2, <2>3 DEF Backs
<1>2. /\ \A q \in S.replays : q.request \in Requests
      /\ S.pending # NoPending => S.pending.request \in Requests
  BY DEF State, Replay, Pending
<1> QED BY <1>1, <1>2 DEF Declines, Remembers

LEMMA DeclinedWorthy ==
  ASSUME PromiseInv, NEW T, Declines(st, T), Honours(T), Alive(T)
  PROVE  Worthy(T, created)
<1>1. Remembers(T, created) BY PromiseTypes, DeclinesRemembers DEF PromiseInv
<1> QED BY <1>1 DEF Worthy, Moved, Declines, Age

LEMMA StWorthy ==
  ASSUME PromiseInv
  PROVE  /\ Worthy(st, created) /\ Worthy(st, created + 1)
         /\ Declines(st, st)
<1>1. Declines(st, st) BY SameDeclines
<1>2. Honours(st) BY DEF Honours
<1>3. Worthy(st, created) BY <1>1, <1>2, DeclinedWorthy DEF PromiseInv
<1>4. \A q : Backs(st, created, q) /\ q.request \in Requests => Backs(st, created + 1, q)
  <2>1. \A r \in Requests : r <= created => r <= created + 1 BY PromiseTypes, Sentinels
  <2> QED BY <2>1 DEF Backs
<1>5. Remembers(st, created + 1)
  <2>1. /\ \A q \in st.replays : q.request \in Requests
        /\ st.pending # NoPending => st.pending.request \in Requests
    BY PromiseTypes DEF State, Replay, Pending
  <2> QED BY <1>4, <2>1 DEF PromiseInv, Remembers
<1> QED BY <1>1, <1>3, <1>5 DEF Worthy

\* Nothing but the heartbeat has changed.
Clean(S) == Hear(S, Never) = Hear(st, Never)

LEMMA SaveStep ==
  ASSUME PromiseInv, NEW S \in State, NEW dirty, NEW w \in WriteResult(dirty),
         Save(S, dirty, w), NEW n \in {created, created + 1}, Worthy(S, n), dirty \/ Clean(S)
  PROVE  /\ Worthy(st', n)
         /\ MemoryIsDurable'
         /\ w = "saved" => st' = S /\ faults' = faults
         /\ w = "unwritten" => st' = st
         /\ st' \in {S, st}
         /\ w # "saved" => faults' # 0
<1>1. faults \in Nat BY PromiseTypes
<1>2. w # "saved" => dirty /\ w \in {"unwritten", "unsynced"}
  BY DEF WriteResult, WriteResults
<1>3. disk = Hear(st, Never) BY DEF PromiseInv, MemoryIsDurable
<1>4. disk' = Hear(st', Never) BY <1>2, <1>3 DEF Save, Clean
<1>5. w # "saved" => faults' # 0 BY <1>1 DEF Save
<1> QED BY <1>4, <1>5, StWorthy DEF Save, MemoryIsDurable

\* The states that the methods start from.
LEMMA ReclaimedFacts ==
  ASSUME PromiseInv
  PROVE  /\ Reclaimed \in State /\ Declines(st, Reclaimed)
         /\ Reclaimed.heard = st.heard /\ Reclaimed.active = st.active
         /\ \A r \in With(st, "claimed") : st.jobs[r].lease > now => Reclaimed.jobs[r] = st.jobs[r]
         /\ With(Reclaimed, "claimed") \subseteq With(st, "claimed")
         /\ Worthy(Reclaimed, created)
<1>1. Reclaimed \in State /\ Reclaimed.active = st.active
  BY ReclaimedGood DEF PromiseInv, Good, Sane
<1>2. /\ Declines(st, Reclaimed) /\ Reclaimed.heard = st.heard
      /\ \A r \in With(st, "claimed") : ~(st.jobs[r].lease <= now) => Reclaimed.jobs[r] = st.jobs[r]
      /\ With(Reclaimed, "claimed") \subseteq With(st, "claimed")
  BY PromiseTypes, ReclaimDeclines DEF Reclaimed
<1>3. \A r \in With(st, "claimed") : st.jobs[r].lease > now => Reclaimed.jobs[r] = st.jobs[r]
  <2>1. \A r \in With(st, "claimed") : st.jobs[r].lease \in Nat
    BY PromiseTypes DEF With, Job
  <2> QED BY <1>2, <2>1, PromiseTypes
<1>4. Honours(Reclaimed) BY <1>3 DEF Honours
<1>5. Alive(Reclaimed) BY <1>2 DEF PromiseInv, Alive
<1> QED BY <1>1, <1>2, <1>3, <1>4, <1>5, DeclinedWorthy

\* A session that may bind takes no claim away whose lease runs.
LEMMA BoundFacts ==
  ASSUME PromiseInv, NEW c \in Calls, call[c] # NoCall, CanBind(Reclaimed, call[c].session, now)
  PROVE  /\ Bound(c) \in State /\ Declines(st, Bound(c)) /\ Worthy(Bound(c), created)
         /\ Bound(c).heard = now
<1> DEFINE s == call[c].session
           B == BindSession(Reclaimed, s)
<1>1. s \in Sessions BY CallType DEF PromiseInv
<1>2. Good(Reclaimed, created) BY ReclaimedGood DEF PromiseInv
<1>3. B \in State BY <1>1, <1>2, BindGood DEF Good, Sane
<1>4. Declines(st, B)
  BY ReclaimedFacts, BindDeclines, DeclinesTrans
<1>5. /\ Declines(B, Bound(c)) /\ Bound(c).heard = now /\ Bound(c).jobs = B.jobs
      /\ Bound(c).active = B.active
  BY <1>3, HearDeclines DEF Bound
<1>6. Bound(c) \in State BY BoundGood DEF PromiseInv, Good, Sane
<1>7. Declines(st, Bound(c)) BY <1>4, <1>5, DeclinesTrans
<1>8. ASSUME NEW r \in With(st, "claimed"), st.jobs[r].lease > now
      PROVE  B.jobs[r] = st.jobs[r]
  <2>1. Reclaimed.jobs[r] = st.jobs[r] /\ r \in Requests BY <1>8, ReclaimedFacts DEF With
  <2>2. r \in With(Reclaimed, "claimed") BY <1>8, <2>1 DEF With
  <2>3. ClaimIsDelivered(Reclaimed, r) BY <1>2, <2>2 DEF Good, Coherent
  <2>4. r \in ClaimedBy(Reclaimed, Reclaimed.active)
    BY <2>2, <2>3 DEF ClaimIsDelivered, ClaimedBy
  <2>5. Reclaimed.active # NoSession BY <2>3, Sentinels DEF ClaimIsDelivered
  <2>6. Reclaimed.heard # Never BY <1>8, ReclaimedFacts DEF PromiseInv, Alive
  <2>7. IsSessionFresh(Reclaimed, now) BY <1>8, <2>1, <2>4, <2>5, <2>6 DEF IsSessionFresh
  <2>8. Reclaimed.active \in {NoSession, s} BY <2>7 DEF CanBind
  <2>9. B.jobs = Reclaimed.jobs BY <2>8, ReclaimedFacts, BindDeclines
  <2> QED BY <2>1, <2>9
<1>9. Honours(Bound(c)) BY <1>5, <1>8 DEF Honours
<1>10. Alive(Bound(c))
  <2>1. now # Never BY PromiseTypes DEF Never
  <2> QED BY <1>5, <2>1 DEF Alive
<1> QED BY <1>5, <1>6, <1>7, <1>9, <1>10, DeclinedWorthy

\* When nothing was reclaimed and the session was active, only the heartbeat changed.
LEMMA UntouchedClean ==
  ASSUME PromiseInv, NEW c \in Calls, call[c] # NoCall, ~Touched(c)
  PROVE  Clean(Bound(c))
<1>1. Reclaimed = st /\ st.active = call[c].session BY DEF Touched
<1>2. BindSession(st, call[c].session) = st BY <1>1, PromiseTypes, BindDeclines
<1>3. Bound(c) = Hear(st, now) BY <1>1, <1>2 DEF Bound
<1> QED BY <1>3, PromiseTypes, HearDeclines DEF Clean

\* Had anything been reclaimed or bound, nothing would be outstanding any more.
LEMMA OutstandingClean ==
  ASSUME PromiseInv, NEW c \in Calls, call[c] # NoCall,
         Held(Bound(c), call[c].session) # NoDelivery
  PROVE  Clean(Bound(c))
<1> DEFINE s == call[c].session
           B == BindSession(Reclaimed, s)
<1>1. s \in Sessions BY CallType DEF PromiseInv
<1>2. Good(Reclaimed, created) /\ Reclaimed \in State
  BY ReclaimedGood DEF PromiseInv, Good, Sane
<1>3. Good(B, created) /\ B.active = s /\ B \in State
  BY <1>1, <1>2, BindGood DEF Good, Sane
<1>4. Good(Bound(c), created) /\ Bound(c).active = s
  BY BoundGood DEF PromiseInv
<1>5. Bound(c).outstanding # NoDelivery
  BY <1>1, <1>4, HeldType DEF Good, Sane
<1>6. B.outstanding # NoDelivery BY <1>3, <1>5, HearDeclines DEF Bound
<1>7. Reclaimed.active = s
  <2>1. CASE Reclaimed.active = NoSession
    <3>1. Reclaimed.outstanding = NoDelivery BY <1>2, <2>1, Idle
    <3>2. B.outstanding = NoDelivery BY <1>2, <2>1, <3>1, BindDeclines
    <3> QED BY <1>6, <3>2
  <2>2. CASE Reclaimed.active \notin {NoSession, s}
    <3>1. B = [Requeue(Reclaimed, ClaimedBy(Reclaimed, Reclaimed.active))
                 EXCEPT !.active = s, !.outstanding = NoDelivery,
                        !.pending = NoPending, !.replays = {}]
      BY <2>2 DEF BindSession
    <3>2. DOMAIN Requeue(Reclaimed, ClaimedBy(Reclaimed, Reclaimed.active)) =
            {"released", "active", "heard", "jobs", "outstanding", "pending", "replays"}
      BY <1>2 DEF Requeue, State
    <3>3. B.outstanding = NoDelivery BY <3>1, <3>2
    <3> QED BY <1>6, <3>3
  <2> QED BY <2>1, <2>2
<1>8. B = Reclaimed BY <1>2, <1>7, BindDeclines
<1>9. Reclaimed = st
  <2> DEFINE X == Expired(st, now)
             U == Requeue(st, X)
  <2>1. Reclaimed = DropDeadDelivery(U) BY DEF Reclaimed, ReclaimExpiredClaims
  <2>2. /\ U.outstanding = st.outstanding
        /\ \A r \in Requests : U.jobs[r] = IF r \in X THEN Requeued(st.jobs[r]) ELSE st.jobs[r]
        /\ DOMAIN U = {"released", "active", "heard", "jobs", "outstanding", "pending", "replays"}
    BY PromiseTypes DEF Requeue, State
  <2>3. Reclaimed = U
    <3> HIDE DEF U
    <3>1. Reclaimed # [U EXCEPT !.outstanding = NoDelivery] BY <1>6, <1>8, <2>2
    <3> QED BY <2>1, <3>1 DEF DropDeadDelivery
  <2>4. PICK r \in With(U, "claimed") : r = U.outstanding.request
    <3>1. Coherent(U) /\ U.outstanding # NoDelivery BY <1>2, <1>6, <1>8, <2>3 DEF Good
    <3> QED BY <3>1 DEF Coherent
  <2>5. r \in With(st, "claimed") /\ r \notin X
    <3>1. r \in Requests /\ U.jobs[r].status = "claimed" BY <2>4 DEF With
    <3>2. st.jobs[r] \in Job BY <3>1, PromiseTypes
    <3> HIDE DEF U, X
    <3>3. r \notin X BY <2>2, <3>1, <3>2, RequeuedType
    <3> QED BY <2>2, <3>1, <3>3 DEF With
  <2>6. With(st, "claimed") = {r} BY <2>5, OneClaim, PromiseTypes
  <2>7. X = {} BY <2>5, <2>6 DEF Expired
  <2>8. U = st
    <3>1. [q \in Requests |-> IF q \in X THEN Requeued(st.jobs[q]) ELSE st.jobs[q]] = st.jobs
      BY <2>7, PromiseTypes DEF State
    <3> QED BY <3>1, PromiseTypes DEF Requeue, State
  <2> QED BY <2>3, <2>8
<1>10. Bound(c) = Hear(st, now) BY <1>8, <1>9 DEF Bound
<1> QED BY <1>10, PromiseTypes, HearDeclines DEF Clean

-----------------------------------------------------------------------------
(* What an exchange call does to the state it is bound to. *)

\* Changes that leave jobs, session and heartbeat alone.
LEMMA SameJobsWorthy ==
  ASSUME NEW S, NEW n, Worthy(S, n), NEW T, T.jobs = S.jobs, T.active = S.active,
         T.heard = S.heard, Remembers(T, n)
  PROVE  Worthy(T, n)
BY DEF Worthy, Moved, Gives, Takes, Arrives, Honours, Alive, With

\* A request that is handed out has no answer to remember.
LEMMA ClaimWorthy ==
  ASSUME PromiseInv, created' = created, NEW S \in State, Worthy(S, created),
         NEW s \in Sessions, S.active = s, S.heard # Never,
         NEW r \in Requests, S.jobs[r].status = "queued",
         tokens' = tokens + 1, claimGen'[r] = gen[s]
  PROVE  LET T == Claim(S, s, r, tokens + 1, now)
         IN  /\ Worthy(T, created) /\ Gives(T, r)
             /\ IsClaim(T, [session |-> s, request |-> r, token |-> tokens + 1])
             /\ \A q : Backs(S, created, q) => Backs(T, created, q)
<1> DEFINE T == Claim(S, s, r, tokens + 1, now)
           job == [S.jobs[r] EXCEPT !.status = "claimed", !.by = s, !.token = tokens + 1,
                                    !.lease = now + ClaimLease]
           d == [session |-> s, request |-> r, token |-> tokens + 1]
<1>1. /\ S.jobs[r] \in Job /\ st.jobs[r] \in Job /\ Shaped(st.jobs[r])
  BY PromiseTypes DEF State
<1>2. T = [S EXCEPT !.jobs[r] = job, !.outstanding = d] BY DEF Claim
<1>3. /\ job.status = "claimed" /\ job.by = s /\ job.token = tokens + 1
      /\ job.answer = S.jobs[r].answer /\ job.lastReason = S.jobs[r].lastReason
  BY <1>1 DEF Job
<1> HIDE DEF job, d, T
<1>4. /\ T.jobs[r] = job /\ \A q \in Requests \ {r} : T.jobs[q] = S.jobs[q]
      /\ T.active = s /\ T.heard = S.heard /\ T.pending = S.pending /\ T.replays = S.replays
  BY <1>2 DEF State
<1>5. Ages(st.jobs[r], S.jobs[r])
  <2>1. Moved(S, r) BY DEF Worthy
  <2>2. ~Gives(S, r) /\ ~Takes(S, r) BY DEF Gives, Takes
  <2>3. ~Arrives(S, r) BY PromiseTypes DEF Arrives
  <2> QED BY <2>1, <2>2, <2>3 DEF Moved
<1>6. /\ Live(st.jobs[r]) /\ S.jobs[r].answer = st.jobs[r].answer
      /\ S.jobs[r].lastReason # "completed"
  BY <1>1, <1>5, NoJobFacts DEF Ages, LetsGo, Live, Shaped
<1>7. Gives(T, r) BY <1>3, <1>4, <1>6 DEF Gives
<1>8. \A q \in Requests : Moved(T, q)
  <2>1. \A q \in Requests \ {r} : Moved(T, q)
    BY <1>4 DEF Worthy, Moved, Gives, Takes, Arrives
  <2> QED BY <1>7, <2>1 DEF Moved
<1>9. Honours(T)
  <2> SUFFICES ASSUME NEW q \in With(st, "claimed"), st.jobs[q].lease > now
               PROVE  \/ T.jobs[q] = st.jobs[q]
                      \/ T.jobs[q].status \in Terminal \cup {"absent"}
                      \/ T.jobs[q].status = "queued" /\ T.active = NoSession
    BY DEF Honours
  <2>1. \/ S.jobs[q] = st.jobs[q]
        \/ S.jobs[q].status \in Terminal \cup {"absent"}
    BY Sentinels DEF Worthy, Honours
  <2>2. q # r BY <2>1 DEF With, Terminal
  <2>3. T.jobs[q] = S.jobs[q] BY <1>4, <2>2 DEF With
  <2> QED BY <2>1, <2>3
<1>10. Alive(T) BY <1>4 DEF Alive
<1>11. \A q : Backs(S, created, q) => Backs(T, created, q)
  <2> SUFFICES ASSUME NEW q, Backs(S, created, q) PROVE Backs(T, created, q)
    OBVIOUS
  <2>1. q.request # r BY DEF Backs, Answered
  <2>2. T.jobs[q.request] = S.jobs[q.request]
    BY <1>2, <2>1 DEF State
  <2> QED BY <2>2 DEF Backs, Answered
<1>12. Remembers(T, created) BY <1>4, <1>11 DEF Worthy, Remembers
<1>13. IsClaim(T, d) BY <1>3, <1>4 DEF IsClaim, With, d
<1> QED BY <1>7, <1>8, <1>9, <1>10, <1>11, <1>12, <1>13 DEF Worthy, T, d

\* The completion of the current claim is an answer of the worker that was told of it.
LEMMA CompleteWorthy ==
  ASSUME PromiseInv, NEW S \in State, Worthy(S, created), Declines(st, S),
         NEW s \in Sessions, NEW c \in Completion, IsCurrent(S, s, c),
         \E d \in told : d.session = s /\ d.token = c.token
  PROVE  LET T == DropDelivery(Complete(S, c, now), c.request)
         IN  /\ Worthy(T, created) /\ T.heard = S.heard /\ T.active = S.active
             /\ T.pending = S.pending /\ T.replays = S.replays
             /\ Backs(T, created, [session |-> s, request |-> c.request, token |-> c.token,
                                   answer |-> c.answer])
<1> DEFINE r == c.request
           e == EndClaim(S.jobs[r], "completed")
           job == [e EXCEPT !.status = IF c.answer \in Responses THEN "completed" ELSE "failed",
                            !.answer = c.answer, !.doneAt = now]
           U == Complete(S, c, now)
           T == DropDelivery(U, r)
           key == [session |-> s, request |-> r, token |-> c.token, answer |-> c.answer]
<1>1. /\ r \in Requests /\ c.answer \in Answers /\ S.jobs[r] \in Job
      /\ S.jobs[r].status = "claimed" /\ S.jobs[r].by = s /\ S.jobs[r].token = c.token
      /\ c.answer \notin InvalidResponses
  BY DEF Completion, State, IsCurrent
<1>2. e \in Job /\ e.by = NoSession /\ e.lastBy = s /\ e.lastToken = c.token
      /\ e.lastReason = "completed"
  <2>1. "completed" \in Endings BY DEF Endings
  <2>2. e \in Job BY <1>1, <2>1, EndClaimType
  <2> QED BY <1>1, <2>2 DEF EndClaim, Job
<1>3. U = [S EXCEPT !.jobs[r] = job] BY DEF Complete
<1> HIDE DEF e, U
<1>4. /\ job.status \in {"completed", "failed"} /\ job.by = NoSession /\ job.lastBy = s
      /\ job.lastToken = c.token /\ job.lastReason = "completed" /\ job.answer = c.answer
  BY <1>2 DEF Job
<1> HIDE DEF job
<1>5. /\ U.jobs[r] = job /\ \A q \in Requests \ {r} : U.jobs[q] = S.jobs[q]
      /\ U.heard = S.heard /\ U.active = S.active /\ U.pending = S.pending
      /\ U.replays = S.replays
      /\ DOMAIN U = {"released", "active", "heard", "jobs", "outstanding", "pending", "replays"}
  BY <1>1, <1>3 DEF State
<1>6. /\ T.jobs = U.jobs /\ T.heard = S.heard /\ T.active = S.active /\ T.pending = S.pending
      /\ T.replays = S.replays
  <2>1. T = U \/ T = [U EXCEPT !.outstanding = NoDelivery] BY DEF DropDelivery
  <2> HIDE DEF T
  <2> QED BY <1>5, <2>1
<1> HIDE DEF T
<1>7. r \in With(st, "claimed") /\ st.jobs[r] = S.jobs[r]
  <2>1. Ages(st.jobs[r], S.jobs[r]) BY <1>1 DEF Declines, Age
  <2>2. st.jobs[r] = S.jobs[r] BY <1>1, <2>1, NoJobFacts DEF Ages, LetsGo, Terminal
  <2> QED BY <1>1, <2>2 DEF With
<1>8. Takes(T, r)
  <2>1. PICK d \in told : d.session = s /\ d.token = c.token OBVIOUS
  <2>2. d.request = r BY <1>1, <1>7, <2>1 DEF PromiseInv, Numbered
  <2>3. d = [session |-> s, request |-> r, token |-> c.token]
    BY <2>1, <2>2, PromiseTypes DEF Delivery
  <2>4. [session |-> st.jobs[r].by, request |-> r, token |-> st.jobs[r].token] \in told
    BY <1>1, <1>7, <2>1, <2>3
  <2> QED BY <1>1, <1>4, <1>5, <1>6, <1>7, <2>4 DEF Takes
<1>9. \A q \in Requests : Moved(T, q)
  <2>1. \A q \in Requests \ {r} : Moved(T, q)
    BY <1>5, <1>6 DEF Worthy, Moved, Gives, Takes, Arrives
  <2> QED BY <1>8, <2>1 DEF Moved
<1>10. Honours(T)
  BY <1>1, <1>4, <1>5, <1>6 DEF Worthy, Honours, With, Terminal
<1>11. Alive(T)
  <2>1. With(T, "claimed") \subseteq With(S, "claimed") BY <1>4, <1>5, <1>6 DEF With
  <2> QED BY <1>6, <2>1 DEF Worthy, Alive
<1>12. \A q : Backs(S, created, q) => Backs(T, created, q)
  <2> SUFFICES ASSUME NEW q, Backs(S, created, q) PROVE Backs(T, created, q)
    OBVIOUS
  <2>1. q.request # r BY <1>1 DEF Backs, Answered
  <2>2. T.jobs[q.request] = S.jobs[q.request] BY <1>3, <1>6, <2>1 DEF State
  <2> QED BY <2>2 DEF Backs, Answered
<1>13. Remembers(T, created) BY <1>6, <1>12 DEF Worthy, Remembers
<1>14. r <= created BY <1>1, <1>7, PromiseTypes, Sentinels DEF Unborn, With
<1>15. Backs(T, created, key)
  BY <1>4, <1>5, <1>6, <1>14 DEF Backs, Answered
<1> QED BY <1>6, <1>9, <1>10, <1>11, <1>13, <1>15 DEF Worthy, T, U

LEMMA RememberWorthy ==
  ASSUME NEW S \in State, NEW n, Worthy(S, n), NEW p, Backs(S, n, p), NEW next, NEW t
  PROVE  Worthy(RememberReplay(S, p, next, t), n)
<1> DEFINE older == {[q EXCEPT !.rank = @ + 1] : q \in {q \in S.replays : ~SameKey(p, q)}}
           entry == [session |-> p.session, request |-> p.request, token |-> p.token,
                     answer |-> p.answer, at |-> t, rank |-> 0, next |-> next, lost |-> FALSE]
           R == TrimExchangeReplays(older \cup {entry}, t)
           T == [S EXCEPT !.replays = R]
<1>1. RememberReplay(S, p, next, t) = T BY DEF RememberReplay
<1>2. Backs(S, n, entry) BY DEF Backs, Answered
<1>3. \A q \in older : Backs(S, n, q)
  <2> SUFFICES ASSUME NEW q \in S.replays PROVE Backs(S, n, [q EXCEPT !.rank = @ + 1])
    OBVIOUS
  <2>1. Backs(S, n, q) /\ q \in Replay BY DEF Worthy, Remembers, State
  <2>2. LET e == [q EXCEPT !.rank = @ + 1]
        IN  /\ e.session = q.session /\ e.request = q.request /\ e.token = q.token
            /\ e.answer = q.answer
    BY <2>1 DEF Replay
  <2> QED BY <2>1, <2>2 DEF Backs, Answered
<1>4. R \subseteq older \cup {entry} BY DEF TrimExchangeReplays
<1> HIDE DEF older, entry, R
<1>5. /\ T.jobs = S.jobs /\ T.active = S.active /\ T.heard = S.heard /\ T.pending = S.pending
      /\ T.replays = R
  BY DEF State
<1> HIDE DEF T
<1>6. Remembers(T, n) BY SMTT(30), <1>2, <1>3, <1>4, <1>5 DEF Worthy, Remembers, Backs, Answered
<1> QED BY <1>1, <1>5, <1>6, SameJobsWorthy

LEMMA ResolveWorthy ==
  ASSUME NEW S \in State, NEW n, Worthy(S, n), NEW q \in S.replays, NEW next, NEW lost
  PROVE  Worthy(Resolve(S, q, next, lost), n)
<1> DEFINE entry == [q EXCEPT !.next = next, !.lost = lost]
           T == Resolve(S, q, next, lost)
<1>1. q \in Replay /\ Backs(S, n, q) BY DEF State, Worthy, Remembers
<1>2. /\ entry.session = q.session /\ entry.request = q.request /\ entry.token = q.token
      /\ entry.answer = q.answer
  BY <1>1 DEF Replay
<1>3. T = [S EXCEPT !.replays = (S.replays \ {q}) \cup {entry}] BY DEF Resolve
<1> HIDE DEF entry, T
<1>4. Backs(S, n, entry) BY <1>1, <1>2 DEF Backs, Answered
<1>5. /\ T.jobs = S.jobs /\ T.active = S.active /\ T.heard = S.heard /\ T.pending = S.pending
      /\ T.replays \subseteq S.replays \cup {entry}
  BY <1>3 DEF State
<1>6. Remembers(T, n) BY <1>4, <1>5 DEF Worthy, Remembers, Backs, Answered
<1> QED BY <1>5, <1>6, SameJobsWorthy DEF T

LEMMA PendingWorthy ==
  ASSUME NEW S \in State, NEW n, Worthy(S, n), NEW p, p = NoPending \/ Backs(S, n, p)
  PROVE  Worthy([S EXCEPT !.pending = p], n)
<1> DEFINE T == [S EXCEPT !.pending = p]
<1>1. /\ T.jobs = S.jobs /\ T.active = S.active /\ T.heard = S.heard
      /\ T.replays = S.replays /\ T.pending = p
  BY DEF State
<1> HIDE DEF T
<1>2. Remembers(T, n) BY <1>1 DEF Worthy, Remembers, Backs, Answered
<1> QED BY <1>1, <1>2, SameJobsWorthy DEF T

LEMMA ClaimNextWorthy ==
  ASSUME PromiseInv, created' = created, NEW S \in State, Worthy(S, created),
         Good(S, created), NEW s \in Sessions, S.active = s, S.heard # Never,
         Held(S, s) = NoDelivery,
         NEW r \in Requests, S.jobs[r].status = "queued",
         tokens' = tokens + 1, claimGen'[r] = gen[s]
  PROVE  LET T == ClaimNext(S, s, r, tokens + 1, now)
         IN  /\ Worthy(T, created) /\ Gives(T, r)
             /\ IsClaim(T, [session |-> s, request |-> r, token |-> tokens + 1])
<1> DEFINE C == Claim(S, s, r, tokens + 1, now)
           P == [C EXCEPT !.pending = NoPending]
           d == [session |-> s, request |-> r, token |-> tokens + 1]
<1>1. /\ Worthy(C, created) /\ Gives(C, r) /\ IsClaim(C, d)
      /\ \A q : Backs(S, created, q) => Backs(C, created, q)
  BY ClaimWorthy
<1>2. C \in State
  BY PromiseTypes, ClaimGood DEF Good, Sane
<1> HIDE DEF C, d
<1>3. CASE S.pending.session = s
  <2>1. S.pending # NoPending BY <1>3, Sentinels DEF NoPending
  <2>2. Backs(C, created, S.pending) BY <1>1, <2>1 DEF Worthy, Remembers
  <2>3. Worthy(P, created) BY <1>1, <1>2, PendingWorthy
  <2>4. P \in State /\ P.jobs = C.jobs BY <1>2 DEF State
  <2> HIDE DEF P
  <2>5. Backs(P, created, S.pending) BY <2>2, <2>4 DEF Backs, Answered
  <2> DEFINE T == RememberReplay(P, S.pending, r, now)
  <2>6. Worthy(T, created) BY <2>3, <2>4, <2>5, RememberWorthy
  <2>7. T.jobs = P.jobs BY <2>4 DEF RememberReplay, State
  <2> HIDE DEF T
  <2>8. Gives(T, r) /\ IsClaim(T, d) BY <1>1, <2>4, <2>7 DEF Gives, IsClaim, With
  <2>9. ClaimNext(S, s, r, tokens + 1, now) = T BY <1>3 DEF ClaimNext, T, P, C
  <2> QED BY <2>6, <2>8, <2>9 DEF d
<1>4. CASE S.pending.session # s
  <2>1. ClaimNext(S, s, r, tokens + 1, now) = C BY <1>4 DEF ClaimNext, C
  <2> QED BY <1>1, <2>1 DEF d
<1> QED BY <1>3, <1>4

-----------------------------------------------------------------------------
(* Callers and transports. *)

\* What a step may tell the caller of request r: nothing, or the truth.
Informs(r) ==
  \/ caller'[r] = caller[r] /\ ~Arrives(st', r)
  \/ caller'[r].phase \in {"waiting", "leaving", "crashed"}
  \/ /\ caller'[r].phase \in {"left", "missing", "error"}
     /\ faults' = 0 => st'.jobs[r].status \in Terminal \cup {"absent"}
  \/ /\ caller'[r].phase = st'.jobs[r].status /\ caller'[r].answer = st'.jobs[r].answer
     /\ st'.jobs[r].status \in Terminal

LEMMA CallersStep ==
  ASSUME PromiseInv, \A r \in Requests : Moved(st', r) /\ Informs(r),
         faults' = 0 => faults = 0
  PROVE  NoOrphan' /\ OutcomeKept'
<1>1. OutcomeKept'
  <2> SUFFICES ASSUME NEW r \in Requests,
                      caller'[r].phase \in {"completed", "failed", "cancelled"}
               PROVE  \/ st'.jobs[r].status = "absent"
                      \/ /\ st'.jobs[r].status = caller'[r].phase
                         /\ st'.jobs[r].answer = caller'[r].answer
    BY DEF OutcomeKept
  <2>1. CASE caller'[r] = caller[r] /\ ~Arrives(st', r)
    <3>1. \/ st.jobs[r].status = "absent"
          \/ st.jobs[r].status = caller[r].phase /\ st.jobs[r].answer = caller[r].answer
      BY <2>1 DEF PromiseInv, OutcomeKept
    <3>2. CASE st.jobs[r].status = "absent"
      BY <2>1, <3>2 DEF Moved, Ages, LetsGo, Live, Gives, Takes
    <3>3. CASE st.jobs[r].status # "absent"
      <4>1. st.jobs[r].status \in Terminal BY <2>1, <3>1, <3>3 DEF Terminal
      <4>2. st'.jobs[r] = st.jobs[r] \/ st'.jobs[r].status = "absent" BY <4>1, AnswerStays
      <4> QED BY <2>1, <3>1, <4>2
    <3> QED BY <3>2, <3>3
  <2> QED BY <2>1 DEF Informs
<1>2. NoOrphan'
  <2> SUFFICES ASSUME faults' = 0, NEW r \in Requests, caller'[r].phase \in Ended \ {"crashed"}
               PROVE  st'.jobs[r].status \in Terminal \cup {"absent"}
    BY DEF NoOrphan
  <2>1. CASE caller'[r] = caller[r] /\ ~Arrives(st', r)
    <3>1. st.jobs[r].status \in Terminal \cup {"absent"}
      BY <2>1 DEF PromiseInv, NothingStranded, NoOrphan
    <3>2. CASE st.jobs[r].status \in Terminal BY <3>2, AnswerStays
    <3>3. CASE st.jobs[r].status = "absent"
      BY <2>1, <3>3 DEF Moved, Ages, LetsGo, Live, Gives, Takes
    <3> QED BY <3>1, <3>2, <3>3
  <2> QED BY <2>1 DEF Informs, Ended
<1> QED BY <1>1, <1>2

\* Nobody disconnects: the claims of live transports are theirs still.
LEMMA TransportsStep ==
  ASSUME PromiseInv, \A r \in Requests : Moved(st', r), faults' = 0 => faults = 0,
         \A s \in Sessions : gen'[s] = gen[s] /\ closing'[s] = closing[s],
         faults' = 0 => \A r \in Requests : claimGen'[r] = claimGen[r] \/ Gives(st', r)
  PROVE  ClaimOnLiveTransport'
<1> SUFFICES ASSUME faults' = 0, NEW s \in Sessions, NEW r \in ClaimedBy(st', s)
             PROVE  closing'[s] > 0 \/ claimGen'[r] = gen'[s]
  BY DEF ClaimOnLiveTransport, ClaimedBy, With
<1>1. r \in Requests /\ st'.jobs[r].status = "claimed" /\ st'.jobs[r].by = s
  BY DEF ClaimedBy, With
<1>2. CASE Gives(st', r) BY <1>1, <1>2 DEF Gives
<1>3. CASE ~Gives(st', r)
  <2>1. st'.jobs[r] = st.jobs[r]
    BY <1>1, <1>3, NoJobFacts DEF Moved, Ages, LetsGo, Terminal, Takes, Arrives, NoJob
  <2>2. r \in ClaimedBy(st, s) BY <1>1, <2>1 DEF ClaimedBy, With
  <2>3. closing[s] > 0 \/ claimGen[r] = gen[s]
    BY <2>2 DEF PromiseInv, NothingStranded, ClaimOnLiveTransport
  <2> QED BY <1>1, <1>3, <2>3
<1> QED BY <1>2, <1>3

LEMMA QuotesStep ==
  ASSUME PromiseInv, told \subseteq told', NEW c \in Calls,
         \/ call'[c] = call[c] \/ call'[c] = NoCall
         \/ call[c] # NoCall /\ call'[c] = [call[c] EXCEPT !.phase = "waiting"]
  PROVE  Quotes(call[c])'
<1>1. Quotes(call[c]) BY DEF PromiseInv
<1>2. CASE call'[c] = call[c] BY <1>1, <1>2 DEF Quotes
<1>3. CASE call'[c] = NoCall BY <1>3 DEF Quotes
<1>4. CASE call[c] # NoCall /\ call'[c] = [call[c] EXCEPT !.phase = "waiting"]
  <2>1. call[c] \in CallRecord BY <1>4, CallType DEF PromiseInv
  <2>2. call'[c].session = call[c].session /\ call'[c].completion = call[c].completion
    BY <1>4, <2>1 DEF CallRecord
  <2> QED BY <1>1, <1>4, <2>2 DEF Quotes
<1> QED BY <1>2, <1>3, <1>4

-----------------------------------------------------------------------------
(* The steps of exchange calls. *)

\* No claim was made, or the one in S.
Accounts(c, S) == NoClaim \/ \E r \in Requests : TakeToken(c, r) /\ Gives(S, r)

\* The call is over, or waits.
Leaves(c) ==
  \/ call' = [call EXCEPT ![c] = NoCall]
  \/ call' = [call EXCEPT ![c] = [@ EXCEPT !.phase = "waiting"]]

LEMMA CallStep ==
  ASSUME PromiseInv, GatewayInv', NEW c \in Calls, call[c] # NoCall,
         NEW S \in State, Worthy(S, created), NEW dirty, dirty \/ Clean(S), Accounts(c, S),
         NEW w \in WriteResult(dirty), Save(S, dirty, w),
         NEW D, \A d \in D : IsClaim(S, d),
         told' = IF w = "saved" THEN told \cup D ELSE told, Leaves(c),
         UNCHANGED <<gen, closing, caller, created>>
  PROVE  Advances
<1>1. /\ Worthy(st', created) /\ MemoryIsDurable'
      /\ w = "saved" => st' = S /\ faults' = faults
      /\ w # "saved" => faults' # 0
  BY SaveStep
<1>2. tokens' \in {tokens, tokens + 1} BY DEF Accounts, NoClaim, TakeToken
<1>3. \A d \in told' \ told : IsClaim(st', d) BY <1>1
<1>4. Stepped BY <1>1, <1>2, <1>3 DEF Stepped
<1>5. \A r \in Requests : Moved(st', r) BY <1>1 DEF Worthy
<1>6. \A r \in Requests : Informs(r)
  BY PromiseTypes DEF Informs, Arrives
<1>7. \A q \in Calls : Quotes(call[q])'
  <2>1. \A q \in Calls : \/ call'[q] = call[q] \/ call'[q] = NoCall
                         \/ call[q] # NoCall /\ call'[q] = [call[q] EXCEPT !.phase = "waiting"]
    BY DEF Leaves, PromiseInv, GatewayInv, TypeOK
  <2> QED BY <2>1, QuotesStep
<1>8. faults' = 0 => \A r \in Requests : claimGen'[r] = claimGen[r] \/ Gives(st', r)
  <2> SUFFICES ASSUME faults' = 0, NEW r \in Requests, claimGen'[r] # claimGen[r]
               PROVE  Gives(st', r)
    OBVIOUS
  <2>1. st' = S BY <1>1
  <2>2. PICK q \in Requests : TakeToken(c, q) /\ Gives(S, q) BY DEF Accounts, NoClaim
  <2>3. q = r BY <2>2 DEF TakeToken, PromiseInv, GatewayInv, TypeOK
  <2> QED BY <2>1, <2>2, <2>3
<1>9. faults' = 0 => faults = 0 BY <1>1
<1>10. ClaimOnLiveTransport' BY <1>5, <1>8, <1>9, TransportsStep
<1>11. NoOrphan' /\ OutcomeKept' BY <1>5, <1>6, <1>9, CallersStep
<1>12. PromiseInv'
  BY <1>4, <1>7, <1>10, <1>11, HistoryStep DEF PromiseInv, NothingStranded
<1>13. Honours(st') /\ created' \in {created, created + 1} BY <1>1 DEF Worthy
<1> QED BY <1>5, <1>12, <1>13 DEF Advances

LEMMA ReturnStep ==
  ASSUME PromiseInv, GatewayInv', NEW c \in Calls, call[c] # NoCall,
         NEW S \in State, Worthy(S, created), NEW dirty, dirty \/ Clean(S), Accounts(c, S),
         NEW D, \A d \in D : IsClaim(S, d), Return(c, S, dirty, D)
  PROVE  Advances
BY CallStep DEF Return, Leaves

LEMMA WaitStep ==
  ASSUME PromiseInv, GatewayInv', NEW c \in Calls, call[c] # NoCall,
         NEW S \in State, Worthy(S, created), NEW dirty, dirty \/ Clean(S),
         Wait(c, S, dirty)
  PROVE  Advances
<1>1. PICK w \in WriteResult(dirty) :
        /\ Save(S, dirty, w)
        /\ call' = [call EXCEPT ![c] = IF w = "saved" THEN [@ EXCEPT !.phase = "waiting"]
                                                      ELSE NoCall]
        /\ UNCHANGED <<now, gen, closing, caller, admitted, created, tokens, told,
                       claimGen, crashes>>
  BY DEF Wait
<1>2. Leaves(c)
  <2>1. CASE w = "saved" BY <1>1, <2>1 DEF Leaves
  <2>2. CASE w # "saved" BY <1>1, <2>2 DEF Leaves
  <2> QED BY <2>1, <2>2
<1>3. Accounts(c, S) BY <1>1 DEF Accounts, NoClaim
<1> DEFINE D == {}
<1>4. told' = IF w = "saved" THEN told \cup D ELSE told BY <1>1
<1>5. \A d \in D : IsClaim(S, d) OBVIOUS
<1> HIDE DEF D
<1>6. UNCHANGED <<gen, closing, caller, created>> BY <1>1
<1>7. Save(S, dirty, w) BY <1>1
<1> QED BY <1>2, <1>3, <1>4, <1>5, <1>6, <1>7, CallStep

\* A call returns with nothing to tell its worker of, or with what its session holds.
LEMMA ReturnNothingStep ==
  ASSUME PromiseInv, GatewayInv', NEW c \in Calls, call[c] # NoCall,
         NEW S \in State, Worthy(S, created), NEW dirty, dirty \/ Clean(S),
         Return(c, S, dirty, {}), NoClaim
  PROVE  Advances
<1> DEFINE D == {}
<1>1. Return(c, S, dirty, D) /\ \A d \in D : IsClaim(S, d) OBVIOUS
<1>2. Accounts(c, S) BY DEF Accounts
<1> HIDE DEF D
<1> QED BY <1>1, <1>2, ReturnStep

LEMMA HeldIsClaim ==
  ASSUME NEW S, NEW n, Good(S, n), NEW s \in Sessions, S.active = s, Held(S, s) # NoDelivery
  PROVE  IsClaim(S, Held(S, s))
<1>1. S \in State /\ Coherent(S) BY DEF Good, Sane
<1>2. Held(S, s) = S.outstanding BY <1>1, HeldType
<1>3. PICK r \in With(S, "claimed") : r = S.outstanding.request
  BY <1>1, <1>2 DEF Coherent
<1>4. ClaimIsDelivered(S, r) BY <1>1, <1>3 DEF Coherent
<1> QED BY <1>2, <1>3, <1>4 DEF ClaimIsDelivered, IsClaim

\* What every call that is served starts from.
LEMMA ServedFacts ==
  ASSUME PromiseInv, NEW c \in Calls, Serving(c)
  PROVE  /\ call[c] # NoCall /\ call[c].session \in Sessions
         /\ call[c].gen = gen[call[c].session]
         /\ Bound(c) \in State /\ Good(Bound(c), created) /\ Worthy(Bound(c), created)
         /\ Bound(c).active = call[c].session /\ Bound(c).heard = now /\ now # Never
         /\ Declines(st, Bound(c))
         /\ Touched(c) \/ Clean(Bound(c))
<1>1. call[c] # NoCall /\ CanBind(Reclaimed, call[c].session, now) BY DEF Serving
<1>2. now # Never BY PromiseTypes DEF Never
<1> QED BY <1>1, <1>2, CallType, BoundGood, BoundFacts, UntouchedClean
        DEF PromiseInv, Serving, Fenced

LEMMA ExchangeCutStep ==
  ASSUME PromiseInv, GatewayInv', NEW c \in Calls, ExchangeCut(c) PROVE Advances
<1>1. call[c] # NoCall /\ NoClaim BY DEF ExchangeCut
<1>2. CASE Return(c, st, FALSE, {})
  <2>1. Clean(st) BY DEF Clean
  <2> QED BY <1>1, <1>2, <2>1, PromiseTypes, StWorthy, ReturnNothingStep
<1>3. CASE Return(c, Reclaimed, Reclaimed # st, {})
  <2>1. Reclaimed # st \/ Clean(Reclaimed) BY DEF Clean
  <2> QED BY <1>1, <1>3, <2>1, ReclaimedFacts, ReturnNothingStep
<1> QED BY <1>2, <1>3 DEF ExchangeCut

LEMMA ExchangeRefusedStep ==
  ASSUME PromiseInv, GatewayInv', NEW c \in Calls, ExchangeRefused(c) PROVE Advances
<1>1. call[c] # NoCall /\ NoClaim /\ Return(c, st, FALSE, {}) BY DEF ExchangeRefused
<1>2. Clean(st) BY DEF Clean
<1> QED BY <1>1, <1>2, PromiseTypes, StWorthy, ReturnNothingStep

LEMMA ExchangeRecoveryStep ==
  ASSUME PromiseInv, GatewayInv', NEW c \in Calls, ExchangeRecovery(c) PROVE Advances
<1>1. Serving(c) /\ NoClaim /\ Return(c, Bound(c), Touched(c), {})
  BY DEF ExchangeRecovery, Unseen
<1> QED BY <1>1, ServedFacts, ReturnNothingStep

LEMMA ExchangeIdleStep ==
  ASSUME PromiseInv, GatewayInv', NEW c \in Calls, ExchangeIdle(c) PROVE Advances
<1>1. call[c] # NoCall /\ NoClaim BY DEF ExchangeIdle
<1>2. CASE MatchesPending(st, call[c].session, call[c].completion)
  <2> DEFINE P == [st EXCEPT !.pending = NoPending]
             S == RememberReplay(P, st.pending, 0, now)
  <2>1. st.pending # NoPending
    BY <1>1, <1>2, CallType, Sentinels DEF PromiseInv, MatchesPending, NoPending
  <2>2. Worthy(P, created) BY PromiseTypes, StWorthy, PendingWorthy
  <2>3. Good(P, created) BY PendingGood DEF PromiseInv, GatewayInv
  <2>4. P \in State /\ P.jobs = st.jobs BY <2>3, PromiseTypes DEF Good, Sane, State
  <2>5. st.pending \in Pending BY <2>1, PromiseTypes DEF State
  <2> HIDE DEF P
  <2>6. Backs(P, created, st.pending) BY <2>1, <2>4 DEF PromiseInv, Remembers, Backs, Answered
  <2>7. Worthy(S, created) BY <2>2, <2>4, <2>6, RememberWorthy
  <2>8. S \in State
    <3>1. 0 \in 0 .. MaxRequests /\ now \in Nat BY SizeAssumption, PromiseTypes
    <3> QED BY <2>3, <2>5, <3>1, RememberGood DEF Good, Sane
  <2>9. Return(c, S, TRUE, {}) BY <1>2 DEF ExchangeIdle, P
  <2> HIDE DEF S
  <2> QED BY <1>1, <2>7, <2>8, <2>9, ReturnNothingStep
<1>3. CASE ~MatchesPending(st, call[c].session, call[c].completion)
  <2>1. Return(c, st, FALSE, {}) BY <1>3 DEF ExchangeIdle
  <2>2. Clean(st) BY DEF Clean
  <2> QED BY <1>1, <2>1, <2>2, PromiseTypes, StWorthy, ReturnNothingStep
<1> QED BY <1>2, <1>3

\* A request is claimed and its delivery returned.
LEMMA DeliverStep ==
  ASSUME PromiseInv, GatewayInv', NEW c \in Calls, call[c] # NoCall,
         NEW S \in State, Worthy(S, created), NEW r \in Requests, Gives(S, r),
         IsClaim(S, NewDelivery(c, r)), TakeToken(c, r),
         Return(c, S, TRUE, {NewDelivery(c, r)})
  PROVE  Advances
<1>1. Accounts(c, S) BY DEF Accounts
<1> QED BY <1>1, ReturnStep

LEMMA TakeTokenFacts ==
  ASSUME PromiseInv, NEW c \in Calls, Serving(c), NEW r \in Requests, TakeToken(c, r)
  PROVE  tokens' = tokens + 1 /\ claimGen'[r] = gen[call[c].session]
BY ServedFacts DEF TakeToken, PromiseInv, GatewayInv, TypeOK

LEMMA ExchangePollStep ==
  ASSUME PromiseInv, GatewayInv', NEW c \in Calls, ExchangePoll(c) PROVE Advances
<1> DEFINE S == Bound(c)
           s == call[c].session
<1>1. Serving(c) BY DEF ExchangePoll
<1>2. /\ call[c] # NoCall /\ s \in Sessions /\ S \in State /\ Good(S, created)
      /\ Worthy(S, created) /\ S.active = s /\ S.heard # Never
      /\ Touched(c) \/ Clean(S)
  BY <1>1, ServedFacts
<1>3. Held(S, s) # NoDelivery => Clean(S) BY <1>2, OutstandingClean
<1>4. \/ /\ Held(S, s) # NoDelivery
         /\ Return(c, [S EXCEPT !.outstanding = Held(S, s)], FALSE, {Held(S, s)})
         /\ NoClaim
      \/ /\ Held(S, s) = NoDelivery
         /\ \E r \in FirstQueued(S) :
              /\ Return(c, ClaimNext(S, s, r, tokens + 1, now), TRUE, {NewDelivery(c, r)})
              /\ TakeToken(c, r)
      \/ Wait(c, S, Touched(c))
  BY DEF ExchangePoll
<1>5. s = call[c].session OBVIOUS
<1> HIDE DEF S, s
<1>6. CASE /\ Held(S, s) # NoDelivery
           /\ Return(c, [S EXCEPT !.outstanding = Held(S, s)], FALSE, {Held(S, s)})
           /\ NoClaim
  <2>1. Return(c, S, FALSE, {Held(S, s)}) BY <1>2, <1>6, RedeliverGood
  <2>2. \A d \in {Held(S, s)} : IsClaim(S, d) BY <1>2, <1>6, HeldIsClaim
  <2>3. Accounts(c, S) BY <1>6 DEF Accounts
  <2> QED BY <1>2, <1>3, <1>6, <2>1, <2>2, <2>3, ReturnStep
<1>7. CASE /\ Held(S, s) = NoDelivery
           /\ \E r \in FirstQueued(S) :
                /\ Return(c, ClaimNext(S, s, r, tokens + 1, now), TRUE, {NewDelivery(c, r)})
                /\ TakeToken(c, r)
  <2>1. PICK r \in FirstQueued(S) :
                /\ Return(c, ClaimNext(S, s, r, tokens + 1, now), TRUE, {NewDelivery(c, r)})
                /\ TakeToken(c, r)
    BY <1>7
  <2>2. r \in Requests /\ S.jobs[r].status = "queued" BY FirstQueuedType
  <2>3. tokens' = tokens + 1 /\ claimGen'[r] = gen[s]
    BY <1>1, <1>5, <2>1, <2>2, TakeTokenFacts
  <2>4. created' = created BY <2>1 DEF Return
  <2> DEFINE T == ClaimNext(S, s, r, tokens + 1, now)
  <2>5. Worthy(T, created) /\ Gives(T, r) /\ IsClaim(T, NewDelivery(c, r))
    BY <1>2, <1>5, <1>7, <2>2, <2>3, <2>4, ClaimNextWorthy DEF NewDelivery
  <2>6. T \in State
    BY <1>2, <1>7, <2>2, PromiseTypes, ClaimNextGood DEF Good, Sane
  <2> HIDE DEF T
  <2>7. Return(c, T, TRUE, {NewDelivery(c, r)}) BY <2>1 DEF T
  <2> QED BY <1>2, <2>1, <2>2, <2>5, <2>6, <2>7, DeliverStep
<1>8. CASE Wait(c, S, Touched(c)) BY <1>2, <1>8, WaitStep
<1> QED BY <1>4, <1>6, <1>7, <1>8

LEMMA ExchangeReplayedStep ==
  ASSUME PromiseInv, GatewayInv', NEW c \in Calls, ExchangeReplayed(c) PROVE Advances
<1> DEFINE S == Bound(c)
           s == call[c].session
           held == Held(S, s)
<1>1. Serving(c) BY DEF ExchangeReplayed
<1>2. /\ call[c] # NoCall /\ s \in Sessions /\ S \in State /\ Good(S, created)
      /\ Worthy(S, created) /\ S.active = s /\ S.heard # Never
      /\ Touched(c) \/ Clean(S)
  BY <1>1, ServedFacts
<1>3. PICK q \in MatchingReplays(S, s, call[c].completion, now) :
        \/ Return(c, S, Touched(c), {}) /\ NoClaim
        \/ Return(c, Resolve(S, q, q.next, TRUE), TRUE, {}) /\ NoClaim
        \/ /\ held # NoDelivery
           /\ Return(c, [S EXCEPT !.outstanding = held], Touched(c),
                     IF q.next \in {0, held.request} THEN {held} ELSE {})
           /\ NoClaim
        \/ /\ held = NoDelivery
           /\ \E r \in IF q.next # 0 THEN {q.next} ELSE FirstQueued(S) :
                /\ ~(q.next # 0 /\ IsOver(S, q.next))
                /\ Return(c, Claim(Resolve(S, q, r, FALSE), s, r, tokens + 1, now),
                          TRUE, {NewDelivery(c, r)})
                /\ TakeToken(c, r)
  BY DEF ExchangeReplayed
<1>4. q \in S.replays BY DEF MatchingReplays
<1>5. q.next \in 0 .. MaxRequests BY <1>2, <1>4 DEF State, Replay
<1>6. s = call[c].session OBVIOUS
<1> HIDE DEF S, s
<1>7. CASE Return(c, S, Touched(c), {}) /\ NoClaim BY <1>2, <1>7, ReturnNothingStep
<1>8. CASE Return(c, Resolve(S, q, q.next, TRUE), TRUE, {}) /\ NoClaim
  <2> DEFINE T == Resolve(S, q, q.next, TRUE)
  <2>1. TRUE \in BOOLEAN OBVIOUS
  <2>2. T \in State BY <1>2, <1>4, <1>5, <2>1, ResolveGood DEF Good, Sane
  <2>3. Worthy(T, created) BY <1>2, <1>4, ResolveWorthy
  <2>4. Return(c, T, TRUE, {}) /\ NoClaim BY <1>8
  <2> HIDE DEF T
  <2> QED BY <1>2, <2>2, <2>3, <2>4, ReturnNothingStep
<1>9. CASE /\ held # NoDelivery
           /\ Return(c, [S EXCEPT !.outstanding = held], Touched(c),
                     IF q.next \in {0, held.request} THEN {held} ELSE {})
           /\ NoClaim
  <2> DEFINE D == IF q.next \in {0, held.request} THEN {held} ELSE {}
  <2>1. Return(c, S, Touched(c), D) BY <1>2, <1>9, RedeliverGood
  <2>2. \A d \in D : IsClaim(S, d) BY <1>2, <1>9, HeldIsClaim
  <2>3. Accounts(c, S) BY <1>9 DEF Accounts
  <2> HIDE DEF D
  <2> QED BY <1>2, <2>1, <2>2, <2>3, ReturnStep
<1>10. CASE /\ held = NoDelivery
            /\ \E r \in IF q.next # 0 THEN {q.next} ELSE FirstQueued(S) :
                 /\ ~(q.next # 0 /\ IsOver(S, q.next))
                 /\ Return(c, Claim(Resolve(S, q, r, FALSE), s, r, tokens + 1, now),
                           TRUE, {NewDelivery(c, r)})
                 /\ TakeToken(c, r)
  <2>1. PICK r \in IF q.next # 0 THEN {q.next} ELSE FirstQueued(S) :
                 /\ ~(q.next # 0 /\ IsOver(S, q.next))
                 /\ Return(c, Claim(Resolve(S, q, r, FALSE), s, r, tokens + 1, now),
                           TRUE, {NewDelivery(c, r)})
                 /\ TakeToken(c, r)
    BY <1>10
  <2>2. With(S, "claimed") = {}
    <3>1. Coherent(S) /\ Held(S, s) = NoDelivery BY <1>2, <1>10 DEF Good
    <3> QED BY <1>2, <3>1, NothingHeld
  <2>3. r \in Requests /\ S.jobs[r].status = "queued"
    <3>1. CASE q.next # 0
      <4>1. r = q.next /\ r \in Requests /\ IsLive(S, r)
        BY <1>5, <2>1, <3>1, SizeAssumption DEF Requests, IsOver
      <4> QED BY <2>2, <4>1 DEF IsLive, With
    <3>2. CASE q.next = 0 BY <2>1, <3>2, FirstQueuedType
    <3> QED BY <3>1, <3>2
  <2> DEFINE U == Resolve(S, q, r, FALSE)
  <2>4. /\ Good(U, created) /\ U.active = s /\ U.jobs = S.jobs
        /\ U.outstanding = S.outstanding
    <3>1. r \in 0 .. MaxRequests /\ FALSE \in BOOLEAN BY <2>3 DEF Requests
    <3> QED BY <1>2, <1>4, <3>1, ResolveGood
  <2>5. Worthy(U, created) BY <1>2, <1>4, ResolveWorthy
  <2>6. U.heard # Never BY <1>2 DEF Resolve, State
  <2>7. Return(c, Claim(U, s, r, tokens + 1, now), TRUE, {NewDelivery(c, r)})
    BY <2>1
  <2> HIDE DEF U
  <2>8. U \in State /\ Held(U, s) = NoDelivery
    <3>1. S \in State /\ Coherent(S) /\ U \in State /\ Coherent(U)
      BY <1>2, <2>4 DEF Good, Sane
    <3> QED BY <1>2, <1>10, <2>4, <3>1, HeldType
  <2>9. tokens' = tokens + 1 /\ claimGen'[r] = gen[s]
    BY <1>1, <1>6, <2>1, <2>3, TakeTokenFacts
  <2>10. created' = created BY <2>1 DEF Return
  <2>11. U.jobs[r].status = "queued" BY <2>3, <2>4
  <2> DEFINE T == Claim(U, s, r, tokens + 1, now)
  <2>12. Worthy(T, created) /\ Gives(T, r) /\ IsClaim(T, NewDelivery(c, r))
    BY <1>2, <1>6, <2>3, <2>4, <2>5, <2>6, <2>8, <2>9, <2>10, <2>11, ClaimWorthy
       DEF NewDelivery
  <2>13. T \in State
    <3>1. tokens + 1 \in Nat /\ now \in Nat BY PromiseTypes
    <3>2. U.jobs[r].status # "absent" BY <2>11
    <3> QED BY <1>2, <2>3, <2>4, <2>8, <3>1, <3>2, ClaimGood DEF Good, Sane
  <2>14. Return(c, T, TRUE, {NewDelivery(c, r)}) /\ TakeToken(c, r) BY <2>1, <2>7
  <2> HIDE DEF T
  <2> QED BY <1>2, <2>3, <2>12, <2>13, <2>14, DeliverStep
<1> QED BY <1>3, <1>7, <1>8, <1>9, <1>10

\* The answered request and its answer, as they are kept pending.
LEMMA AcceptedWorthy ==
  ASSUME PromiseInv, NEW c \in Calls, Unseen(c),
         IsDuplicate(Bound(c), call[c].session, call[c].completion)
           \/ IsCurrent(Bound(c), call[c].session, call[c].completion)
  PROVE  LET S    == Bound(c)
             s    == call[c].session
             cmp  == call[c].completion
             dup  == IsDuplicate(S, s, cmp)
             done == DropDelivery(IF dup THEN S ELSE Complete(S, cmp, now), cmp.request)
             key  == [session |-> s, request |-> cmp.request, token |-> cmp.token,
                      answer |-> cmp.answer]
         IN  /\ Good(done, created) /\ done \in State /\ done.active = s
             /\ done.heard # Never
             /\ Worthy(done, created) /\ Backs(done, created, key) /\ key \in Pending
             /\ dup => done = S
<1> DEFINE S == Bound(c)
           s == call[c].session
           cmp == call[c].completion
           dup == IsDuplicate(S, s, cmp)
           done == DropDelivery(IF dup THEN S ELSE Complete(S, cmp, now), cmp.request)
           key == [session |-> s, request |-> cmp.request, token |-> cmp.token,
                   answer |-> cmp.answer]
<1>1. Serving(c) /\ Submitting(c) BY DEF Unseen
<1>2. /\ call[c] # NoCall /\ s \in Sessions /\ S \in State /\ Good(S, created)
      /\ Worthy(S, created) /\ S.active = s /\ S.heard # Never /\ Declines(st, S)
  BY <1>1, ServedFacts
<1>3. cmp \in Completion
  BY <1>1, <1>2, CallType DEF PromiseInv, Submitting
<1>4. key \in Pending BY <1>2, <1>3 DEF Completion, Pending
<1>5. \E d \in told : d.session = s /\ d.token = cmp.token
  BY <1>1, <1>2 DEF Submitting, PromiseInv, Quotes
<1>6. dup \/ IsCurrent(S, s, cmp) OBVIOUS
<1>7. Coherent(S) /\ Unborn(S, created) BY <1>2 DEF Good, Sane
<1> HIDE DEF S, s, cmp
<1>8. CASE dup
  <2>1. /\ S.jobs[cmp.request].status \in {"completed", "failed"} /\ cmp.request \in Requests
        /\ Answered(S, s, cmp) /\ S.jobs[cmp.request].answer = cmp.answer
    BY <1>3, <1>8 DEF IsDuplicate, Answered, Completion
  <2>2. done = S BY <1>7, <1>8, <2>1, DropNothing
  <2>3. cmp.request <= created BY <1>7, <2>1, PromiseTypes, Sentinels DEF Unborn
  <2>4. Backs(S, created, key) BY <2>1, <2>3 DEF Backs, Answered
  <2> HIDE DEF done, key
  <2> QED BY <1>2, <1>4, <2>2, <2>4 DEF S, s, cmp, dup, done, key
<1>9. CASE ~dup
  <2>1. S.jobs[cmp.request].status = "claimed" /\ IsCurrent(S, s, cmp)
    BY <1>6, <1>9 DEF IsCurrent
  <2>2. done = DropDelivery(Complete(S, cmp, now), cmp.request) BY <1>9
  <2> HIDE DEF done
  <2>3. Good(done, created) /\ done.active = s
    BY <1>2, <1>3, <2>1, <2>2, PromiseTypes, CompleteGood
  <2>4. /\ Worthy(done, created) /\ done.heard = S.heard /\ Backs(done, created, key)
    BY <1>2, <1>3, <1>5, <2>1, <2>2, CompleteWorthy
  <2>5. done \in State BY <2>3 DEF Good, Sane
  <2> HIDE DEF key
  <2> QED BY <1>2, <1>4, <1>9, <2>3, <2>4, <2>5 DEF S, s, cmp, dup, done, key
<1> QED BY <1>8, <1>9

LEMMA ExchangeAcceptedStep ==
  ASSUME PromiseInv, GatewayInv', NEW c \in Calls, ExchangeAccepted(c) PROVE Advances
<1> DEFINE S == Bound(c)
           s == call[c].session
           cmp == call[c].completion
           dup == IsDuplicate(S, s, cmp)
           done == DropDelivery(IF dup THEN S ELSE Complete(S, cmp, now), cmp.request)
           key == [session |-> s, request |-> cmp.request, token |-> cmp.token,
                   answer |-> cmp.answer]
           next == [done EXCEPT !.pending = key]
<1>1. Serving(c) /\ Unseen(c) BY DEF ExchangeAccepted, Unseen
<1>2. /\ call[c] # NoCall /\ s \in Sessions /\ S \in State /\ Good(S, created)
      /\ Worthy(S, created) /\ S.active = s
  BY <1>1, ServedFacts
<1>3. dup \/ IsCurrent(S, s, cmp) BY DEF ExchangeAccepted
<1>4. \/ /\ Held(S, s) # NoDelivery
         /\ Return(c, S, FALSE, {Held(S, s)})
         /\ NoClaim
      \/ /\ Held(done, s) = NoDelivery
         /\ \E r \in FirstQueued(done) :
              /\ Return(c, ClaimNext(next, s, r, tokens + 1, now), TRUE, {NewDelivery(c, r)})
              /\ TakeToken(c, r)
      \/ Wait(c, next, TRUE)
  BY DEF ExchangeAccepted
<1>5. /\ Good(done, created) /\ done \in State /\ done.active = s /\ done.heard # Never
      /\ Worthy(done, created) /\ Backs(done, created, key) /\ key \in Pending
  BY <1>1, <1>3, AcceptedWorthy
<1>6. Held(S, s) # NoDelivery => Clean(S) BY <1>2, OutstandingClean
<1>7. s = call[c].session OBVIOUS
<1> HIDE DEF S, s, cmp, key, done
<1>8. /\ Good(next, created) /\ next.active = s
      /\ next.jobs = done.jobs /\ next.outstanding = done.outstanding
  BY <1>5, PendingGood
<1>9. Worthy(next, created) BY <1>5, PendingWorthy
<1>10. next.heard # Never BY <1>5 DEF State
<1>11. next \in State BY <1>8 DEF Good, Sane
<1> HIDE DEF next
<1>12. CASE /\ Held(S, s) # NoDelivery
            /\ Return(c, S, FALSE, {Held(S, s)})
            /\ NoClaim
  <2>1. \A d \in {Held(S, s)} : IsClaim(S, d) BY <1>2, <1>12, HeldIsClaim
  <2>2. Accounts(c, S) BY <1>12 DEF Accounts
  <2> QED BY <1>2, <1>6, <1>12, <2>1, <2>2, ReturnStep
<1>13. CASE /\ Held(done, s) = NoDelivery
            /\ \E r \in FirstQueued(done) :
                 /\ Return(c, ClaimNext(next, s, r, tokens + 1, now), TRUE, {NewDelivery(c, r)})
                 /\ TakeToken(c, r)
  <2>1. PICK r \in FirstQueued(done) :
                 /\ Return(c, ClaimNext(next, s, r, tokens + 1, now), TRUE, {NewDelivery(c, r)})
                 /\ TakeToken(c, r)
    BY <1>13
  <2>2. r \in Requests /\ next.jobs[r].status = "queued" BY <1>8, FirstQueuedType
  <2>3. Held(next, s) = NoDelivery
    <3>1. Coherent(done) /\ Coherent(next) BY <1>5, <1>8 DEF Good
    <3> QED BY <1>2, <1>5, <1>8, <1>11, <1>13, <3>1, HeldType
  <2>4. tokens' = tokens + 1 /\ claimGen'[r] = gen[s]
    BY <1>1, <1>7, <2>1, <2>2, TakeTokenFacts
  <2>5. created' = created BY <2>1 DEF Return
  <2> DEFINE T == ClaimNext(next, s, r, tokens + 1, now)
  <2>6. Worthy(T, created) /\ Gives(T, r) /\ IsClaim(T, NewDelivery(c, r))
    BY <1>2, <1>7, <1>8, <1>9, <1>10, <1>11, <2>2, <2>3, <2>4, <2>5, ClaimNextWorthy
       DEF NewDelivery
  <2>7. T \in State
    BY <1>2, <1>8, <2>2, <2>3, PromiseTypes, ClaimNextGood DEF Good, Sane
  <2> HIDE DEF T
  <2>8. Return(c, T, TRUE, {NewDelivery(c, r)}) /\ TakeToken(c, r) BY <2>1 DEF T
  <2> QED BY <1>2, <2>2, <2>6, <2>7, <2>8, DeliverStep
<1>14. CASE Wait(c, next, TRUE) BY <1>2, <1>9, <1>11, <1>14, WaitStep
<1> QED BY <1>4, <1>12, <1>13, <1>14

-----------------------------------------------------------------------------
(* The other steps. *)

LEMMA MutationStep ==
  ASSUME PromiseInv, GatewayInv', NEW S \in State, NEW dirty, NEW w \in WriteResult(dirty),
         Save(S, dirty, w), dirty \/ Clean(S),
         created' \in {created, created + 1}, Worthy(S, created'),
         tokens' = tokens, told' = told, \A c \in Calls : Quotes(call[c])',
         ClaimOnLiveTransport', \A r \in Requests : Informs(r)
  PROVE  Advances
<1>1. /\ Worthy(st', created') /\ MemoryIsDurable'
      /\ w = "saved" => faults' = faults
      /\ w # "saved" => faults' # 0
  BY SaveStep
<1>2. \A d \in told' \ told : IsClaim(st', d) OBVIOUS
<1>3. Stepped BY <1>1, <1>2 DEF Stepped
<1>4. \A r \in Requests : Moved(st', r) BY <1>1 DEF Worthy
<1>5. faults' = 0 => faults = 0 BY <1>1
<1>6. NoOrphan' /\ OutcomeKept' BY <1>4, <1>5, CallersStep
<1>7. PromiseInv'
  BY <1>3, <1>6, HistoryStep DEF PromiseInv, NothingStranded
<1>8. Honours(st') BY <1>1 DEF Worthy
<1> QED BY <1>4, <1>7, <1>8 DEF Advances

\* Nothing is written.
LEMMA NothingSaved ==
  ASSUME PromiseInv, UNCHANGED <<st, disk, faults>>
  PROVE  /\ "saved" \in WriteResult(FALSE) /\ Save(st, FALSE, "saved") /\ Clean(st)
         /\ st \in State
BY PromiseTypes DEF WriteResult, Save, Clean

\* Calls that are as they were quote what they quoted.
LEMMA SameQuotes ==
  ASSUME PromiseInv, call' = call, told' = told
  PROVE  \A c \in Calls : Quotes(call[c])'
BY DEF PromiseInv, Quotes

\* Callers that were told nothing.
LEMMA SilentInforms ==
  ASSUME PromiseInv, created' = created, NEW r \in Requests, caller'[r] = caller[r]
  PROVE  Informs(r)
BY PromiseTypes DEF Informs, Arrives

LEMMA SameTransports ==
  ASSUME PromiseInv, NEW S \in State, NEW dirty, NEW w \in WriteResult(dirty),
         Save(S, dirty, w), dirty \/ Clean(S),
         created' \in {created, created + 1}, Worthy(S, created'),
         UNCHANGED <<gen, closing, claimGen>>
  PROVE  ClaimOnLiveTransport'
<1>1. /\ Worthy(st', created')
      /\ w = "saved" => faults' = faults
      /\ w # "saved" => faults' # 0
  BY SaveStep
<1>2. \A r \in Requests : Moved(st', r) BY <1>1 DEF Worthy
<1> QED BY <1>1, <1>2, TransportsStep

\* A session that is dropped leaves no lease behind.
LEMMA DroppedWorthy ==
  ASSUME PromiseInv, NEW T, Declines(st, T), T.active = NoSession, Good(T, created)
  PROVE  Worthy(T, created) /\ With(T, "claimed") = {}
<1>1. With(T, "claimed") = {} BY Idle
<1>2. Honours(T)
  <2> SUFFICES ASSUME NEW r \in With(st, "claimed")
               PROVE  \/ T.jobs[r] = st.jobs[r]
                      \/ T.jobs[r].status \in Terminal \cup {"absent"}
                      \/ T.jobs[r].status = "queued" /\ T.active = NoSession
    BY DEF Honours
  <2>1. Ages(st.jobs[r], T.jobs[r]) BY DEF Declines, Age, With
  <2> QED BY <2>1, NoJobFacts DEF Ages, LetsGo
<1>3. Alive(T) BY <1>1 DEF Alive
<1> QED BY <1>1, <1>2, <1>3, DeclinedWorthy

LEMMA TickStep ==
  ASSUME PromiseInv, GatewayInv', Tick PROVE Advances
<1>1. /\ "saved" \in WriteResult(FALSE) /\ Save(st, FALSE, "saved") /\ Clean(st)
      /\ st \in State
  BY NothingSaved DEF Tick
<1>2. /\ created' = created /\ caller' = caller /\ tokens' = tokens /\ told' = told
      /\ call' = call /\ UNCHANGED <<gen, closing, claimGen>>
  BY DEF Tick
<1>3. Worthy(st, created') BY <1>2, StWorthy
<1>4. ClaimOnLiveTransport' BY <1>1, <1>2, <1>3, SameTransports
<1>5. \A r \in Requests : Informs(r) BY <1>2, SilentInforms
<1>6. \A c \in Calls : Quotes(call[c])' BY <1>2, SameQuotes
<1> QED BY <1>1, <1>2, <1>3, <1>4, <1>5, <1>6, MutationStep

LEMMA RestartStep ==
  ASSUME PromiseInv, GatewayInv', Restart PROVE Advances
<1>1. /\ st' = Activated(disk) /\ disk' = st' /\ created' = created /\ tokens' = tokens
      /\ told' = told /\ faults' = faults
  BY DEF Restart
<1>2. disk = Hear(st, Never) /\ disk \in State
  BY DEF PromiseInv, MemoryIsDurable, GatewayInv, TypeOK
<1>3. Declines(st, disk) BY <1>2, PromiseTypes, HearDeclines
<1>4. /\ Declines(disk, st') /\ st'.active = NoSession /\ st'.heard = Never
  BY <1>1, <1>2, ActivatedDeclines
<1>5. Declines(st, st') BY <1>3, <1>4, DeclinesTrans
<1>6. Good(st', created) /\ st' \in State BY <1>1 DEF GatewayInv, TypeOK
<1>7. Worthy(st', created) /\ With(st', "claimed") = {} BY <1>4, <1>5, <1>6, DroppedWorthy
<1>8. MemoryIsDurable' BY <1>1, <1>4, <1>6 DEF MemoryIsDurable, Hear, State
<1>9. Stepped BY <1>1, <1>7, <1>8 DEF Stepped
<1>10. \A r \in Requests : Moved(st', r) /\ Informs(r)
  <2>1. \A r \in Requests : Informs(r)
    <3> SUFFICES ASSUME NEW r \in Requests PROVE Informs(r)
      OBVIOUS
    <3>1. caller'[r] = caller[r] \/ caller'[r].phase = "crashed" BY DEF Restart
    <3> QED BY <1>1, <3>1, SilentInforms DEF Informs
  <2> QED BY <1>7, <2>1 DEF Worthy
<1>11. NoOrphan' /\ OutcomeKept' BY <1>1, <1>10, CallersStep
<1>12. ClaimOnLiveTransport' BY <1>7 DEF ClaimOnLiveTransport, ClaimedBy, With
<1>13. \A c \in Calls : Quotes(call[c])' BY DEF Restart, Quotes
<1>14. PromiseInv'
  BY <1>9, <1>11, <1>12, <1>13, HistoryStep DEF PromiseInv, NothingStranded
<1> QED BY <1>1, <1>7, <1>14 DEF Advances, Worthy

LEMMA ReleaseStep ==
  ASSUME PromiseInv, GatewayInv', Release PROVE Advances
<1> DEFINE S == Released(st)
<1>1. PICK w \in WriteResult(TRUE) : Save(S, TRUE, w) BY DEF Release
<1>2. /\ created' = created /\ caller' = caller /\ tokens' = tokens /\ told' = told
      /\ call' = call
  BY DEF Release
<1>3. Declines(st, S) /\ S.active = NoSession BY PromiseTypes, ReleasedDeclines
<1>4. Good(S, created) /\ S \in State
  BY PromiseTypes, ReleasedGood DEF PromiseInv, GatewayInv, Good, Sane
<1> HIDE DEF S
<1>5. Worthy(S, created) /\ With(S, "claimed") = {} BY <1>3, <1>4, DroppedWorthy
<1>6. ClaimOnLiveTransport'
  <2>1. (w = "saved" => st' = S) /\ (w # "saved" => faults' # 0)
    BY <1>1, <1>4, <1>5, SaveStep
  <2> QED BY <1>5, <2>1 DEF ClaimOnLiveTransport, ClaimedBy, With
<1>7. \A r \in Requests : Informs(r) BY <1>2, SilentInforms
<1>8. \A c \in Calls : Quotes(call[c])' BY <1>2, SameQuotes
<1> QED BY <1>1, <1>2, <1>4, <1>5, <1>6, <1>7, <1>8, MutationStep

LEMMA StatusStep ==
  ASSUME PromiseInv, GatewayInv', Status \/ Admit PROVE Advances
<1> PICK dirty \in BOOLEAN : \E w \in WriteResult(dirty) :
       Save(Reclaimed, dirty, w) /\ (dirty \/ Reclaimed = st)
  BY DEF Status, Admit
<1>1. PICK w \in WriteResult(dirty) : Save(Reclaimed, dirty, w) /\ (dirty \/ Reclaimed = st)
  OBVIOUS
<1>2. /\ created' = created /\ caller' = caller /\ tokens' = tokens /\ told' = told
      /\ call' = call /\ UNCHANGED <<gen, closing, claimGen>>
  BY DEF Status, Admit
<1>3. dirty \/ Clean(Reclaimed) BY <1>1 DEF Clean
<1>4. Worthy(Reclaimed, created') /\ Reclaimed \in State BY <1>2, ReclaimedFacts
<1>5. ClaimOnLiveTransport' BY <1>1, <1>2, <1>3, <1>4, SameTransports
<1>6. \A r \in Requests : Informs(r) BY <1>2, SilentInforms
<1>7. \A c \in Calls : Quotes(call[c])' BY <1>2, SameQuotes
<1> QED BY <1>1, <1>2, <1>3, <1>4, <1>5, <1>6, <1>7, MutationStep

LEMMA ReadResultStep ==
  ASSUME PromiseInv, GatewayInv', NEW r \in Requests, ReadResult(r) PROVE Advances
<1> DEFINE dirty == Reclaimed # st
           job == Reclaimed.jobs[r]
<1>1. PICK w \in WriteResult(dirty) :
        /\ w # "saved" \/ ~IsLive(Reclaimed, r)
        /\ Save(Reclaimed, dirty, w)
        /\ IF w # "saved" THEN Tell(r, "error", NoAnswer)
           ELSE IF job.status = "absent" THEN Tell(r, "missing", NoAnswer)
           ELSE Tell(r, job.status, job.answer)
  BY DEF ReadResult
<1>2. /\ created' = created /\ tokens' = tokens /\ told' = told
      /\ call' = call /\ UNCHANGED <<gen, closing, claimGen>>
  BY DEF ReadResult
<1>3. dirty \/ Clean(Reclaimed) BY DEF Clean
<1>4. Worthy(Reclaimed, created') /\ Reclaimed \in State BY <1>2, ReclaimedFacts
<1>5. (w = "saved" => st' = Reclaimed) /\ (w # "saved" => faults' # 0)
  BY <1>1, <1>2, <1>3, <1>4, SaveStep
<1>6. caller \in [Requests -> [phase : {"unborn"} \cup Open \cup Ended,
                               answer : Answers \cup {NoAnswer}]]
  BY DEF PromiseInv, GatewayInv, TypeOK
<1> HIDE DEF dirty
<1>7. Informs(r)
  <2>1. CASE w # "saved"
    <3>1. caller'[r].phase = "error" BY <1>1, <1>6, <2>1 DEF Tell
    <3> QED BY <1>5, <2>1, <3>1 DEF Informs
  <2>2. CASE w = "saved" /\ job.status = "absent"
    <3>1. caller'[r].phase = "missing" BY <1>1, <1>6, <2>2 DEF Tell
    <3> QED BY <1>5, <2>2, <3>1 DEF Informs
  <2>3. CASE w = "saved" /\ job.status # "absent"
    <3>1. caller'[r].phase = job.status /\ caller'[r].answer = job.answer
      BY <1>1, <1>6, <2>3 DEF Tell
    <3>2. job.status \in Terminal
      BY <1>1, <1>4, <2>3 DEF IsLive, State, Job, Statuses
    <3> QED BY <1>5, <2>3, <3>1, <3>2 DEF Informs
  <2> QED BY <2>1, <2>2, <2>3
<1>8. \A q \in Requests \ {r} : caller'[q] = caller[q]
  BY <1>1, <1>6 DEF Tell
<1>9. \A q \in Requests : Informs(q) BY <1>2, <1>7, <1>8, SilentInforms
<1>10. ClaimOnLiveTransport' BY <1>1, <1>2, <1>3, <1>4, SameTransports
<1>11. \A c \in Calls : Quotes(call[c])' BY <1>2, SameQuotes
<1> QED BY <1>1, <1>2, <1>3, <1>4, <1>9, <1>10, <1>11, MutationStep

LEMMA GiveUpStep ==
  ASSUME PromiseInv, GatewayInv', NEW r \in Requests, GiveUp(r) PROVE Advances
<1>1. /\ "saved" \in WriteResult(FALSE) /\ Save(st, FALSE, "saved") /\ Clean(st)
      /\ st \in State
  BY NothingSaved DEF GiveUp
<1>2. /\ created' = created /\ tokens' = tokens /\ told' = told
      /\ call' = call /\ UNCHANGED <<gen, closing, claimGen>>
  BY DEF GiveUp
<1>3. Worthy(st, created') BY <1>2, StWorthy
<1>4. ClaimOnLiveTransport' BY <1>1, <1>2, <1>3, SameTransports
<1>5. /\ caller'[r].phase = "leaving"
      /\ \A q \in Requests \ {r} : caller'[q] = caller[q]
  BY DEF GiveUp, Tell, PromiseInv, GatewayInv, TypeOK
<1>6. Informs(r) BY <1>5 DEF Informs
<1>7. \A q \in Requests : Informs(q) BY <1>2, <1>5, <1>6, SilentInforms
<1>8. \A c \in Calls : Quotes(call[c])' BY <1>2, SameQuotes
<1> QED BY <1>1, <1>2, <1>3, <1>4, <1>7, <1>8, MutationStep

LEMMA CancelRequestStep ==
  ASSUME PromiseInv, GatewayInv', NEW r \in Requests, CancelRequest(r) PROVE Advances
<1> DEFINE live == IsLive(st, r)
           S == IF live THEN Cancelled(st, r) ELSE st
<1>1. PICK w \in WriteResult(live) : Save(S, live, w) BY DEF CancelRequest
<1>2. /\ created' = created /\ tokens' = tokens /\ told' = told
      /\ call' = call /\ UNCHANGED <<gen, closing, claimGen>>
  BY DEF CancelRequest
<1>3. /\ caller'[r].phase = "left"
      /\ \A q \in Requests \ {r} : caller'[q] = caller[q]
  BY DEF CancelRequest, Tell, PromiseInv, GatewayInv, TypeOK
<1>4. S \in State
  BY PromiseTypes, CancelledGood DEF PromiseInv, GatewayInv, Good, Sane
<1>5. live \/ S = st OBVIOUS
<1>6. live \/ Clean(S) BY <1>5 DEF Clean
<1>7. S.jobs[r].status \in Terminal \cup {"absent"}
  <2>1. CASE live BY <2>1, PromiseTypes, CancelledDeclines DEF Terminal
  <2>2. CASE ~live BY <2>2, PromiseTypes DEF IsLive, Job, Statuses
  <2> QED BY <2>1, <2>2
<1>8. Worthy(S, created)
  <2>1. CASE live
    <3>1. /\ Declines(st, S) /\ S.heard = st.heard /\ S.jobs[r].status = "cancelled"
          /\ \A q \in Requests \ {r} : S.jobs[q] = st.jobs[q]
      BY <2>1, PromiseTypes, CancelledDeclines
    <3> HIDE DEF S
    <3>2. Honours(S) BY <3>1 DEF Honours, With, Terminal
    <3>3. With(S, "claimed") \subseteq With(st, "claimed") BY <3>1 DEF With
    <3>4. Alive(S) BY <3>1, <3>3 DEF PromiseInv, Alive
    <3> QED BY <3>1, <3>2, <3>4, DeclinedWorthy
  <2>2. CASE ~live BY <2>2, StWorthy
  <2> QED BY <2>1, <2>2
<1> HIDE DEF S, live
<1>9. (w = "saved" => st' = S) /\ (w # "saved" => faults' # 0)
  BY <1>1, <1>4, <1>6, <1>8, SaveStep
<1>10. Informs(r) BY <1>3, <1>7, <1>9 DEF Informs
<1>11. \A q \in Requests : Informs(q) BY <1>2, <1>3, <1>10, SilentInforms
<1>12. ClaimOnLiveTransport' BY <1>1, <1>2, <1>4, <1>6, <1>8, SameTransports
<1>13. \A c \in Calls : Quotes(call[c])' BY <1>2, SameQuotes
<1> QED BY <1>1, <1>2, <1>4, <1>6, <1>8, <1>11, <1>12, <1>13, MutationStep

LEMMA DisconnectStep ==
  ASSUME PromiseInv, GatewayInv', NEW s \in Sessions, Disconnect(s) PROVE Advances
<1>1. /\ "saved" \in WriteResult(FALSE) /\ Save(st, FALSE, "saved") /\ Clean(st)
      /\ st \in State
  BY NothingSaved DEF Disconnect
<1>2. /\ created' = created /\ caller' = caller /\ tokens' = tokens /\ told' = told
      /\ call' = call /\ st' = st /\ faults' = faults /\ claimGen' = claimGen
  BY DEF Disconnect
<1>3. Worthy(st, created') BY <1>2, StWorthy
<1>4. ClaimOnLiveTransport'
  <2>1. /\ closing'[s] = closing[s] + 1 /\ closing[s] \in Nat
        /\ \A q \in Sessions \ {s} : closing'[q] = closing[q] /\ gen'[q] = gen[q]
    BY DEF Disconnect, PromiseInv, GatewayInv, TypeOK
  <2>2. closing'[s] > 0 BY <2>1
  <2>3. \A q \in Sessions : ClaimedBy(st', q) = ClaimedBy(st, q) BY <1>2
  <2> QED BY <1>2, <2>1, <2>2, <2>3
      DEF PromiseInv, NothingStranded, ClaimOnLiveTransport, ClaimedBy, With
<1>5. \A r \in Requests : Informs(r) BY <1>2, SilentInforms
<1>6. \A c \in Calls : Quotes(call[c])' BY <1>2, SameQuotes
<1> QED BY <1>1, <1>2, <1>3, <1>4, <1>5, <1>6, MutationStep

LEMMA FinishDisconnectStep ==
  ASSUME PromiseInv, GatewayInv', NEW s \in Sessions, FinishDisconnect(s) PROVE Advances
<1> DEFINE mine == st.active = s
           S == IF mine THEN Disconnected(st, s) ELSE st
<1>1. PICK w \in WriteResult(mine) : Save(S, mine, w) BY DEF FinishDisconnect
<1>2. /\ created' = created /\ caller' = caller /\ tokens' = tokens /\ told' = told
      /\ call' = call /\ gen' = gen /\ claimGen' = claimGen
      /\ \A q \in Sessions \ {s} : closing'[q] = closing[q]
  BY DEF FinishDisconnect, PromiseInv, GatewayInv, TypeOK
<1>3. Good(S, created) /\ S \in State
  BY PromiseTypes, DisconnectedGood DEF PromiseInv, GatewayInv, Good, Sane
<1>4. mine \/ S = st OBVIOUS
<1>5. mine \/ Clean(S) BY <1>4 DEF Clean
<1>6. /\ Worthy(S, created) /\ ClaimedBy(S, s) = {}
      /\ \A q \in Sessions : ClaimedBy(S, q) \subseteq ClaimedBy(st, q)
  <2>1. CASE mine
    <3>1. Declines(st, S) /\ S.active = NoSession BY <2>1, PromiseTypes, DisconnectedDeclines
    <3> HIDE DEF S
    <3> QED BY <1>3, <3>1, DroppedWorthy DEF ClaimedBy
  <2>2. CASE ~mine
    <3>1. ClaimedBy(st, s) = {}
      BY <2>2, PromiseTypes DEF Coherent, ClaimIsDelivered, ClaimedBy
    <3> QED BY <2>2, <3>1, StWorthy
  <2> QED BY <2>1, <2>2
<1> HIDE DEF S, mine
<1>7. /\ w = "saved" => st' = S /\ faults' = faults
      /\ w # "saved" => faults' # 0
  BY <1>1, <1>3, <1>5, <1>6, SaveStep
<1>8. ClaimOnLiveTransport'
  <2> SUFFICES ASSUME faults' = 0, NEW q \in Sessions, NEW r \in ClaimedBy(st', q)
               PROVE  closing'[q] > 0 \/ claimGen'[r] = gen'[q]
    BY DEF ClaimOnLiveTransport, ClaimedBy, With
  <2>1. q # s /\ r \in ClaimedBy(st, q) /\ faults = 0 BY <1>6, <1>7
  <2>2. closing[q] > 0 \/ claimGen[r] = gen[q]
    BY <2>1 DEF PromiseInv, NothingStranded, ClaimOnLiveTransport
  <2> QED BY <1>2, <2>1, <2>2
<1>9. \A r \in Requests : Informs(r) BY <1>2, SilentInforms
<1>10. \A c \in Calls : Quotes(call[c])' BY <1>2, SameQuotes
<1> QED BY <1>1, <1>2, <1>3, <1>5, <1>6, <1>8, <1>9, <1>10, MutationStep

LEMMA EnterExchangeStep ==
  ASSUME PromiseInv, GatewayInv', NEW c \in Calls, EnterExchange(c) PROVE Advances
<1>1. /\ "saved" \in WriteResult(FALSE) /\ Save(st, FALSE, "saved") /\ Clean(st)
      /\ st \in State
  BY NothingSaved DEF EnterExchange
<1>2. /\ created' = created /\ caller' = caller /\ tokens' = tokens /\ told' = told
      /\ UNCHANGED <<gen, closing, claimGen>>
  BY DEF EnterExchange
<1>3. Worthy(st, created') BY <1>2, StWorthy
<1>4. ClaimOnLiveTransport' BY <1>1, <1>2, <1>3, SameTransports
<1>5. \A r \in Requests : Informs(r) BY <1>2, SilentInforms
<1> PICK s \in Sessions : \E cmp \in Submittable(s) :
       call' = [call EXCEPT ![c] = [session |-> s, gen |-> gen[s],
                                    completion |-> cmp, phase |-> "entered"]]
  BY DEF EnterExchange
<1>6. PICK cmp \in Submittable(s) :
        call' = [call EXCEPT ![c] = [session |-> s, gen |-> gen[s],
                                     completion |-> cmp, phase |-> "entered"]]
  OBVIOUS
<1>7. /\ call'[c].session = s /\ call'[c].completion = cmp
      /\ \A q \in Calls \ {c} : call'[q] = call[q]
  BY <1>6 DEF PromiseInv, GatewayInv, TypeOK
<1>8. cmp # NoCompletion => \E d \in told : d.session = s /\ d.token = cmp.token
  BY DEF Submittable
<1>9. \A q \in Calls : Quotes(call[q])'
  BY <1>2, <1>7, <1>8 DEF PromiseInv, Quotes
<1> QED BY <1>1, <1>2, <1>3, <1>4, <1>5, <1>9, MutationStep

\* enqueueRequest: the new request is queued; what is remembered is about others.
LEMMA PushedWorthy ==
  ASSUME PromiseInv, created + 1 \in Requests, created' = created + 1
  PROVE  Worthy(Pushed(Reclaimed, created + 1), created + 1)
<1> DEFINE r == created + 1
           job == [NoJob EXCEPT !.status = "queued"]
           U == [Reclaimed EXCEPT !.jobs[r] = job]
           T == Pushed(Reclaimed, r)
<1>1. /\ Reclaimed \in State /\ Declines(st, Reclaimed) /\ Reclaimed.heard = st.heard
      /\ \A q \in With(st, "claimed") : st.jobs[q].lease > now => Reclaimed.jobs[q] = st.jobs[q]
      /\ With(Reclaimed, "claimed") \subseteq With(st, "claimed")
      /\ Worthy(Reclaimed, created)
  BY ReclaimedFacts
<1>2. st.jobs[r].status = "absent" BY PromiseTypes DEF Unborn
<1>3. job \in Job /\ job.status = "queued" BY NoJobType DEF NoJob, Job, Statuses
<1>4. T = PruneJobs(U) BY DEF Pushed
<1>5. job = [NoJob EXCEPT !.status = "queued"] OBVIOUS
<1> HIDE DEF job
<1>6. /\ U \in State /\ U.jobs[r] = job /\ \A q \in Requests \ {r} : U.jobs[q] = Reclaimed.jobs[q]
      /\ U.heard = Reclaimed.heard /\ U.replays = Reclaimed.replays
      /\ U.pending = Reclaimed.pending
  BY <1>1, <1>3 DEF State
<1> HIDE DEF U, T
<1>7. /\ Declines(U, T) /\ T.heard = U.heard
      /\ \A q \in Requests : T.jobs[q] = U.jobs[q]
                               \/ (U.jobs[q].status \in Terminal /\ T.jobs[q] = NoJob)
  BY <1>4, <1>6, PruneDeclines
<1>8. \A q \in Requests : Moved(T, q)
  <2>1. T.jobs[r] = job BY <1>3, <1>6, <1>7 DEF Terminal
  <2>2. Moved(T, r) BY <1>5, <2>1 DEF Moved, Arrives
  <2>3. ASSUME NEW q \in Requests \ {r} PROVE Moved(T, q)
    <3>1. Ages(st.jobs[q], U.jobs[q]) BY <1>1, <1>6 DEF Declines, Age
    <3>2. Ages(U.jobs[q], T.jobs[q]) BY <1>7 DEF Declines, Age
    <3>3. Ages(st.jobs[q], T.jobs[q]) BY <3>1, <3>2, AgesTrans
    <3> QED BY <3>3 DEF Moved
  <2> QED BY <2>2, <2>3
<1>9. Honours(T)
  <2> SUFFICES ASSUME NEW q \in With(st, "claimed"), st.jobs[q].lease > now
               PROVE  T.jobs[q] = st.jobs[q]
    BY DEF Honours
  <2>1. q \in Requests \ {r} /\ st.jobs[q].status = "claimed" BY <1>2 DEF With
  <2>2. U.jobs[q] = st.jobs[q] BY <1>1, <1>6, <2>1
  <2> QED BY <1>7, <2>1, <2>2 DEF Terminal
<1>10. Alive(T)
  <2>1. ASSUME NEW q \in With(T, "claimed") PROVE q \in With(st, "claimed")
    <3>1. q \in Requests /\ T.jobs[q].status = "claimed" BY DEF With
    <3>2. U.jobs[q].status = "claimed" BY <1>7, <3>1, NoJobFacts
    <3>3. q # r BY <1>3, <1>6, <3>2
    <3>4. q \in With(Reclaimed, "claimed") BY <1>6, <3>1, <3>2, <3>3 DEF With
    <3> QED BY <1>1, <3>4
  <2> QED BY <1>1, <1>6, <1>7, <2>1 DEF PromiseInv, Alive
<1>11. Remembers(T, r)
  <2>1. ASSUME NEW q, q.request \in Requests, Backs(Reclaimed, created, q)
        PROVE  Backs(U, r, q)
    <3>1. q.request <= created /\ q.request # r /\ q.request <= r
      <4>1. q.request <= created BY <2>1 DEF Backs
      <4>2. q.request \in Int /\ created \in Int BY <2>1, PromiseTypes DEF Requests
      <4> QED BY <4>1, <4>2
    <3>2. U.jobs[q.request] = Reclaimed.jobs[q.request] BY <1>6, <2>1, <3>1
    <3> QED BY <2>1, <3>1, <3>2 DEF Backs, Answered
  <2>2. Remembers(Reclaimed, created) BY <1>1 DEF Worthy
  <2>3. /\ \A q \in Reclaimed.replays : q.request \in Requests
        /\ Reclaimed.pending # NoPending => Reclaimed.pending.request \in Requests
    BY <1>1 DEF State, Replay, Pending
  <2>4. Remembers(U, r) BY <1>6, <2>1, <2>2, <2>3 DEF Remembers
  <2> QED BY <1>6, <1>7, <2>4, DeclinesRemembers
<1> QED BY <1>8, <1>9, <1>10, <1>11 DEF Worthy, T

LEMMA EnqueueStep ==
  ASSUME PromiseInv, GatewayInv', Enqueue PROVE Advances
<1> DEFINE r == created + 1
           S == Pushed(Reclaimed, r)
<1>1. /\ created \in Nat /\ admitted \in Nat /\ created + admitted <= MaxRequests
      /\ MaxRequests \in Nat
  BY SizeAssumption DEF PromiseInv, GatewayInv, TypeOK
<1>2. /\ admitted > 0 /\ created' = r /\ tokens' = tokens /\ told' = told
      /\ call' = call /\ UNCHANGED <<gen, closing, claimGen>>
  BY DEF Enqueue
<1>3. r \in Requests BY <1>1, <1>2 DEF Requests
<1>4. \A c \in Calls : Quotes(call[c])' BY <1>2, SameQuotes
<1>5. caller \in [Requests -> [phase : {"unborn"} \cup Open \cup Ended,
                               answer : Answers \cup {NoAnswer}]]
  BY DEF PromiseInv, GatewayInv, TypeOK
<1>6. \A q \in Requests \ {r} : ~Arrives(st', q) BY DEF Arrives
<1>7. CASE /\ Tell(r, "error", NoAnswer)
           /\ UNCHANGED <<st, disk, faults>>
  <2>1. /\ "saved" \in WriteResult(FALSE) /\ Save(st, FALSE, "saved") /\ Clean(st)
        /\ st \in State
    BY <1>7, NothingSaved
  <2>2. Worthy(st, created') BY <1>2, StWorthy
  <2>3. ClaimOnLiveTransport' BY <1>2, <2>1, <2>2, SameTransports
  <2>4. st'.jobs[r].status = "absent" BY <1>1, <1>3, <1>7, PromiseTypes DEF Unborn
  <2>5. /\ caller'[r].phase = "error"
        /\ \A q \in Requests \ {r} : caller'[q] = caller[q]
    BY <1>3, <1>5, <1>7 DEF Tell
  <2>6. \A q \in Requests : Informs(q) BY <1>6, <2>4, <2>5 DEF Informs
  <2> QED BY <1>2, <1>4, <2>1, <2>2, <2>3, <2>6, MutationStep
<1>8. CASE \E w \in WriteResult(TRUE) :
             /\ Save(S, TRUE, w)
             /\ Tell(r, IF w = "saved" THEN "waiting" ELSE "error", NoAnswer)
  <2>1. PICK w \in WriteResult(TRUE) :
             /\ Save(S, TRUE, w)
             /\ Tell(r, IF w = "saved" THEN "waiting" ELSE "error", NoAnswer)
    BY <1>8
  <2>2. Worthy(S, r) BY <1>2, <1>3, PushedWorthy
  <2>3. S \in State
    BY <1>1, <1>3, ReclaimedGood, PushedGood DEF PromiseInv, Good, Sane
  <2> HIDE DEF S
  <2>4. w # "saved" => faults' # 0 BY <1>2, <2>1, <2>2, <2>3, SaveStep
  <2>5. Worthy(S, created') BY <1>2, <2>2
  <2>6. ClaimOnLiveTransport' BY <1>2, <2>1, <2>3, <2>5, SameTransports
  <2>7. /\ caller'[r].phase = IF w = "saved" THEN "waiting" ELSE "error"
        /\ \A q \in Requests \ {r} : caller'[q] = caller[q]
    BY <1>3, <1>5, <2>1 DEF Tell
  <2>8. \A q \in Requests : Informs(q) BY <1>6, <2>4, <2>7 DEF Informs
  <2> QED BY <1>2, <1>4, <2>1, <2>3, <2>5, <2>6, <2>8, MutationStep
<1> QED BY <1>7, <1>8 DEF Enqueue

-----------------------------------------------------------------------------
LEMMA PromiseInit == Init => PromiseInv
<1> SUFFICES ASSUME Init PROVE PromiseInv
  OBVIOUS
<1>1. GatewayInv BY InvInit
<1>2. st = EmptyState /\ disk = EmptyState BY DEF Init
<1>3. \A r \in Requests : st.jobs[r] = NoJob BY <1>2 DEF EmptyState
<1>4. MemoryIsDurable
  <2>1. st \in State BY <1>1 DEF GatewayInv, TypeOK
  <2>2. st.heard = Never BY <1>2 DEF EmptyState
  <2>3. st = Hear(st, Never) BY <2>1, <2>2 DEF Hear, State
  <2> QED BY <1>2, <2>3 DEF MemoryIsDurable
<1>5. \A r \in Requests : Shaped(st.jobs[r]) BY <1>3, NoJobFacts
<1>6. With(st, "claimed") = {} BY <1>3, NoJobFacts DEF With
<1>7. Alive(st) BY <1>6 DEF Alive
<1>8. Remembers(st, created) BY <1>2 DEF Remembers, EmptyState
<1>9. Numbered
  <2>1. told = {} BY DEF Init
  <2>2. \A r \in Requests : st.jobs[r].answer = NoAnswer BY <1>3, NoJobFacts
  <2> QED BY <1>6, <2>1, <2>2 DEF Numbered
<1>10. \A c \in Calls : Quotes(call[c]) BY DEF Init, Quotes
<1>11. \A r \in Requests : caller[r].phase = "unborn" BY DEF Init
<1>12. NothingStranded
  <2>1. ClaimOnLiveTransport BY <1>6 DEF ClaimOnLiveTransport, ClaimedBy
  <2>2. NoOrphan BY <1>11 DEF NoOrphan, Ended
  <2> QED BY <2>1, <2>2 DEF NothingStranded
<1>13. OutcomeKept BY <1>11 DEF OutcomeKept
<1> QED BY <1>1, <1>4, <1>5, <1>7, <1>8, <1>9, <1>10, <1>12, <1>13 DEF PromiseInv

LEMMA PromiseNext == PromiseInv /\ Next => Advances
<1> SUFFICES ASSUME PromiseInv, Next PROVE Advances
  OBVIOUS
<1>1. GatewayInv' BY InvNext DEF PromiseInv
<1>2. CASE Tick \/ Restart \/ Release \/ Status \/ Admit \/ Enqueue
  BY <1>1, <1>2, TickStep, RestartStep, ReleaseStep, StatusStep, EnqueueStep
<1>3. CASE \E r \in Requests : CallerStep(r)
  BY <1>1, <1>3, ReadResultStep, GiveUpStep, CancelRequestStep DEF CallerStep
<1>4. CASE \E s \in Sessions : Disconnect(s) \/ FinishDisconnect(s)
  BY <1>1, <1>4, DisconnectStep, FinishDisconnectStep
<1>5. CASE \E c \in Calls : EnterExchange(c) \/ ExchangeStep(c)
  BY <1>1, <1>5, EnterExchangeStep, ExchangeCutStep, ExchangeRefusedStep,
     ExchangeReplayedStep, ExchangeRecoveryStep, ExchangeAcceptedStep, ExchangePollStep,
     ExchangeIdleStep DEF ExchangeStep
<1> QED BY <1>2, <1>3, <1>4, <1>5 DEF Next

LEMMA PromiseStutter == PromiseInv /\ UNCHANGED vars => PromiseInv'
<1> SUFFICES ASSUME PromiseInv, UNCHANGED vars PROVE PromiseInv'
  OBVIOUS
<1>1. GatewayInv' BY InvNext DEF PromiseInv
<1>2. /\ st' = st /\ disk' = disk /\ created' = created /\ told' = told /\ tokens' = tokens
      /\ call' = call /\ caller' = caller /\ faults' = faults /\ gen' = gen
      /\ closing' = closing /\ claimGen' = claimGen
  BY DEF vars
<1>3. Remembers(st, created)' /\ Alive(st)' /\ Numbered'
  BY <1>2 DEF PromiseInv, Remembers, Backs, Answered, Alive, With, Numbered
<1>4. NothingStranded' /\ OutcomeKept' /\ MemoryIsDurable'
  BY <1>2 DEF PromiseInv, NothingStranded, ClaimOnLiveTransport, NoOrphan, ClaimedBy, With,
              OutcomeKept, MemoryIsDurable
<1>5. \A c \in Calls : Quotes(call[c])' BY <1>2, SameQuotes
<1>6. (\A r \in Requests : Shaped(st.jobs[r]))' BY <1>2 DEF PromiseInv
<1> QED BY <1>1, <1>3, <1>4, <1>5, <1>6 DEF PromiseInv

\* The inductive invariant holds in every reachable state.
LEMMA PromiseHolds == Spec => []PromiseInv
<1>1. PromiseInv /\ [Next]_vars => PromiseInv'
  BY PromiseNext, PromiseStutter DEF Advances
<1> QED BY <1>1, PromiseInit, PTL DEF Spec

-----------------------------------------------------------------------------
(* The promises. *)

\* A cut or abandoned exchange leaves no claim without a transport that serves it,
\* and a caller that left leaves no request in the queue (disconnectSession, the
\* fence in exchange(), cancelRequest): nothing waits for somebody who is gone.
THEOREM NothingStrandedHolds == Spec => []NothingStranded
<1>1. PromiseInv => NothingStranded BY DEF PromiseInv
<1> QED BY <1>1, PromiseHolds, PTL

\* What a caller was told of its request is what the store keeps, memory and the
\* state file agree on all but the heartbeat, and the file passes the checks of the
\* next start (persist, readState), after any crash and any failed write.
THEOREM OutcomeDurableHolds == Spec => []OutcomeDurable
<1>1. PromiseInv => OutcomeDurable
  <2> SUFFICES ASSUME PromiseInv PROVE OutcomeDurable
    OBVIOUS
  <2>1. disk \in State /\ disk = Hear(st, Never)
    BY DEF PromiseInv, MemoryIsDurable, GatewayInv, TypeOK
  <2>2. disk.jobs = st.jobs BY <2>1, PromiseTypes, HearDeclines
  <2>3. \A r \in Requests : StoredJobValid(disk.jobs[r])
    BY <2>2, PromiseTypes DEF StoredJobValid, Shaped
  <2>4. \A q \in disk.replays : StoredReplayValid(q)
    BY <2>1 DEF State, StoredReplayValid
  <2> QED BY <2>1, <2>3, <2>4 DEF PromiseInv, OutcomeDurable, Readable
<1> QED BY <1>1, PromiseHolds, PTL

\* The answer that a request ended with came from the last delivery of it that any
\* worker was told of (applyCompletion compares the token of the current claim):
\* a claim that was taken back cannot answer any more.
THEOREM AnswerOfLastDeliveryHolds == Spec => []AnswerOfLastDelivery
<1>1. PromiseInv => AnswerOfLastDelivery
  <2> SUFFICES ASSUME PromiseInv, NEW r \in Requests, NEW s \in Sessions,
                      st.jobs[r].lastReason = "completed", st.jobs[r].lastBy = s
               PROVE  /\ [session |-> s, request |-> r, token |-> st.jobs[r].lastToken] \in told
                      /\ \A d \in told : d.request = r => d.token <= st.jobs[r].lastToken
    BY DEF AnswerOfLastDelivery, Answered
  <2>1. st.jobs[r].answer # NoAnswer BY PromiseTypes DEF Shaped
  <2> QED BY <2>1 DEF PromiseInv, Numbered
<1> QED BY <1>1, PromiseHolds, PTL

\* Reclaiming and binding leave alone what is not claimed.
LEMMA MetFacts ==
  ASSUME PromiseInv, NEW s \in Sessions
  PROVE  /\ Declines(st, Met(s))
         /\ \A r \in Requests : st.jobs[r].status # "claimed" => Met(s).jobs[r] = st.jobs[r]
<1> DEFINE B == BindSession(Reclaimed, s)
<1>1. Good(Reclaimed, created) /\ Reclaimed \in State
  BY ReclaimedGood DEF PromiseInv, Good, Sane
<1>2. B \in State BY <1>1, BindGood DEF Good, Sane
<1>3. Declines(st, B)
  BY <1>1, ReclaimedFacts, BindDeclines, DeclinesTrans
<1>4. Declines(B, Met(s)) /\ Met(s).jobs = B.jobs BY <1>2, HearDeclines DEF Met
<1>5. Declines(st, Met(s)) BY <1>3, <1>4, DeclinesTrans
<1>6. ASSUME NEW S \in State, NEW R, R \subseteq With(S, "claimed"),
             NEW r \in Requests, S.jobs[r].status # "claimed"
      PROVE  Requeue(S, R).jobs[r] = S.jobs[r]
  BY <1>6 DEF Requeue, State, With
<1>7. ASSUME NEW r \in Requests, st.jobs[r].status # "claimed"
      PROVE  Reclaimed.jobs[r] = st.jobs[r]
  <2> DEFINE U == Requeue(st, Expired(st, now))
  <2>1. Expired(st, now) \subseteq With(st, "claimed") BY DEF Expired
  <2>2. U.jobs[r] = st.jobs[r] BY <1>6, <1>7, <2>1, PromiseTypes
  <2>3. DOMAIN U = {"released", "active", "heard", "jobs", "outstanding", "pending", "replays"}
    BY PromiseTypes DEF Requeue, State
  <2>4. Reclaimed = U \/ Reclaimed = [U EXCEPT !.outstanding = NoDelivery]
    BY DEF Reclaimed, ReclaimExpiredClaims, DropDeadDelivery
  <2> HIDE DEF U
  <2> QED BY <2>2, <2>3, <2>4
<1>8. ASSUME NEW r \in Requests, Reclaimed.jobs[r].status # "claimed"
      PROVE  B.jobs[r] = Reclaimed.jobs[r]
  <2>1. CASE Reclaimed.active \in {NoSession, s} BY <1>1, <2>1, BindDeclines
  <2>2. CASE Reclaimed.active \notin {NoSession, s}
    <3> DEFINE U == Requeue(Reclaimed, ClaimedBy(Reclaimed, Reclaimed.active))
    <3>1. ClaimedBy(Reclaimed, Reclaimed.active) \subseteq With(Reclaimed, "claimed")
      BY DEF ClaimedBy
    <3>2. U.jobs[r] = Reclaimed.jobs[r] BY <1>1, <1>6, <1>8, <3>1
    <3>3. DOMAIN U = {"released", "active", "heard", "jobs", "outstanding", "pending", "replays"}
      BY <1>1 DEF Requeue, State
    <3>4. B = [U EXCEPT !.active = s, !.outstanding = NoDelivery,
                        !.pending = NoPending, !.replays = {}]
      BY <2>2 DEF BindSession
    <3> HIDE DEF U, B
    <3>5. B.jobs = U.jobs BY <3>3, <3>4
    <3> QED BY <3>2, <3>5
  <2> QED BY <2>1, <2>2
<1> QED BY <1>4, <1>5, <1>7, <1>8

\* A worker that lost the reply to its completion may repeat it as long as the
\* request is kept, and may not change it (resolveExchangeReplay, pendingCompletion,
\* isAcceptedTerminalCompletion take turns to remember the answer).
THEOREM RetrySafeHolds == Spec => []RetrySafe
<1>1. PromiseInv => RetrySafe
  <2> SUFFICES ASSUME PromiseInv, NEW r \in Requests, NEW s \in Sessions, NEW a \in Answers,
                      Answered(st, s, [request |-> r, token |-> st.jobs[r].lastToken,
                                       answer |-> a])
               PROVE  Refused(Met(s), s, [request |-> r, token |-> st.jobs[r].lastToken,
                                          answer |-> a], now)
                        <=> a # st.jobs[r].answer
    BY DEF RetrySafe
  <2> DEFINE c == [request |-> r, token |-> st.jobs[r].lastToken, answer |-> a]
             M == Met(s)
  <2>1. /\ st.jobs[r].status \in {"completed", "failed"}
        /\ st.jobs[r].lastReason = "completed" /\ st.jobs[r].lastBy = s
        /\ c.request = r /\ c.token = st.jobs[r].lastToken /\ c.answer = a
    BY DEF Answered
  <2>2. M.jobs[r] = st.jobs[r] /\ M.replays \subseteq st.replays
        /\ M.pending \in {st.pending, NoPending}
    BY <2>1, MetFacts DEF Declines
  <2> HIDE DEF c, M
  <2>3. CASE MatchingReplays(M, s, c, now) # {}
    <3>1. \A q \in MatchingReplays(M, s, c, now) : q.answer = st.jobs[r].answer
      BY <2>1, <2>2 DEF MatchingReplays, PromiseInv, Remembers, Backs
    <3> QED BY <2>1, <2>3, <3>1 DEF Refused, c, M
  <2>4. CASE MatchingReplays(M, s, c, now) = {} /\ MatchesPending(M, s, c)
    <3>1. M.pending.session = s /\ M.pending.request = r BY <2>1, <2>4 DEF MatchesPending
    <3>2. M.pending = st.pending /\ st.pending # NoPending
      BY <2>2, <3>1, Sentinels DEF NoPending
    <3>3. M.pending.answer = st.jobs[r].answer
      BY <2>1, <3>1, <3>2 DEF PromiseInv, Remembers, Backs
    <3> QED BY <2>1, <2>4, <3>3 DEF Refused, c, M
  <2>5. CASE MatchingReplays(M, s, c, now) = {} /\ ~MatchesPending(M, s, c)
    <3>1. Answered(M, s, c) BY <2>1, <2>2 DEF Answered
    <3>2. IsDuplicate(M, s, c) <=> a = st.jobs[r].answer
      BY <2>1, <2>2, <3>1 DEF IsDuplicate
    <3>3. ~IsLate(M, s, c) BY <2>1, <2>2 DEF IsLate
    <3>4. ~IsBusy(M, s, c) BY <3>1 DEF IsBusy
    <3>5. ~IsCurrent(M, s, c) BY <2>1, <2>2 DEF IsCurrent
    <3>6. Refused(M, s, c, now) <=> a # st.jobs[r].answer
      BY <2>5, <3>2, <3>3, <3>4, <3>5 DEF Refused
    <3> QED BY <3>6 DEF c, M
  <2> QED BY <2>3, <2>4, <2>5
<1> QED BY <1>1, PromiseHolds, PTL

\* While its lease runs, a worker loses its claim only to an end of the request or
\* with its session (isSessionFresh guards bindSession; reclaimExpiredClaims
\* compares the lease), whatever other workers, callers and restarts do.
THEOREM LeaseHonouredHolds == Spec => LeaseHonoured
<1>1. PromiseInv /\ [Next]_vars
        => [\A r \in With(st, "claimed") :
              st.jobs[r].lease > now =>
                \/ st'.jobs[r] = st.jobs[r]
                \/ st'.jobs[r].status \in Terminal \cup {"absent"}
                \/ st'.jobs[r].status = "queued" /\ st'.active = NoSession]_vars
  BY PromiseNext DEF Advances, Honours
<1> QED BY <1>1, PromiseHolds, PTL DEF Spec, LeaseHonoured

-----------------------------------------------------------------------------
(***************************************************************************)
(* The refinement: every step of the store moves each request as           *)
(* RequestReply says, or leaves it alone.                                  *)
(***************************************************************************)
LEMMA InitReplies == Init => Reply!Init
<1> SUFFICES ASSUME Init PROVE Reply!Init
  OBVIOUS
<1>1. \A r \in Requests : st.jobs[r] = NoJob BY DEF Init, EmptyState
<1>2. \A r \in Requests : r > created BY DEF Init, Requests
<1>3. \A r \in Requests : Stage(r) = "new" BY <1>1, <1>2, NoJobFacts DEF Stage
<1> QED BY <1>1, <1>3, NoJobFacts DEF Reply!Init

\* The stage of a request, by the status of its job.
LEMMA StageOf ==
  ASSUME NEW r \in Requests, Shaped(st.jobs[r]), st.jobs[r] \in Job
  PROVE  /\ Live(st.jobs[r]) => Stage(r) = "open"
         /\ st.jobs[r].status = "absent" =>
              Stage(r) = IF r > created THEN "new" ELSE "forgotten"
         /\ st.jobs[r].status \in Terminal =>
              Stage(r) = IF st.jobs[r].answer # NoAnswer THEN "answered" ELSE "dropped"
  BY DEF Stage, Live, Terminal

LEMMA RequestReplies ==
  ASSUME PromiseInv, Advances, NEW r \in Requests
  PROVE  \/ /\ Stage(r)' = Stage(r) /\ st'.jobs[r].by = st.jobs[r].by
            /\ st'.jobs[r].answer = st.jobs[r].answer
         \/ /\ Stage(r)' = "forgotten"
            /\ st'.jobs[r].by = NoSession /\ st'.jobs[r].answer = NoAnswer
         \/ /\ Stage(r) \in {"new", "open"} /\ Stage(r)' = "open"
            /\ st'.jobs[r].by \in Sessions \cup {NoSession} /\ st'.jobs[r].answer = NoAnswer
         \/ /\ Stage(r) = "open" /\ st.jobs[r].by # NoSession
            /\ Stage(r)' = "answered"
            /\ st'.jobs[r].by = NoSession /\ st'.jobs[r].answer \in Answers
         \/ /\ Stage(r) = "open" /\ Stage(r)' = "dropped"
            /\ st'.jobs[r].by = NoSession /\ st'.jobs[r].answer = NoAnswer
<1> DEFINE j == st.jobs[r]
           k == st'.jobs[r]
<1>1. /\ j \in Job /\ Shaped(j) /\ created \in Nat
      /\ r > created => j.status = "absent"
  BY PromiseTypes DEF Unborn
<1>2. k \in Job /\ Shaped(k)
  BY DEF Advances, PromiseInv, GatewayInv, TypeOK, State
<1>3. Moved(st', r) /\ created' \in {created, created + 1} BY DEF Advances
<1>4. /\ Live(j) => Stage(r) = "open"
      /\ j.status = "absent" => Stage(r) = IF r > created THEN "new" ELSE "forgotten"
      /\ j.status \in Terminal =>
           Stage(r) = IF j.answer # NoAnswer THEN "answered" ELSE "dropped"
  BY <1>1, StageOf
<1>5. /\ Live(k) => Stage(r)' = "open"
      /\ k.status = "absent" => Stage(r)' = IF r > created' THEN "new" ELSE "forgotten"
      /\ k.status \in Terminal =>
           Stage(r)' = IF k.answer # NoAnswer THEN "answered" ELSE "dropped"
  BY <1>2 DEF Stage, Live, Terminal
<1>6. \A job \in Job : job.status = "absent" \/ Live(job) \/ job.status \in Terminal
  BY DEF Job, Statuses, Live
<1>7. Live(j) => j.answer = NoAnswer BY <1>1 DEF Live, Shaped
<1>8. CASE k = j
  <2>1. CASE j.status = "absent"
    <3>1. j = NoJob BY <1>1, <2>1 DEF Shaped
    <3>2. r \in Int BY DEF Requests
    <3> HIDE DEF j, k
    <3>3. Stage(r)' = Stage(r) \/ Stage(r)' = "forgotten"
      BY <1>1, <1>3, <1>4, <1>5, <1>8, <2>1, <3>2
    <3> QED BY <1>8, <3>1, <3>3, NoJobFacts DEF j, k
  <2>2. CASE j.status # "absent" BY <1>1, <1>4, <1>5, <1>6, <1>8, <2>2
  <2> QED BY <2>1, <2>2
<1>9. CASE LetsGo(j, k)
  <2>1. Stage(r) = "open" /\ k.by = NoSession /\ k.answer = NoAnswer
    BY <1>4, <1>7, <1>9 DEF LetsGo
  <2>2. Stage(r)' \in {"open", "dropped"}
    BY <1>5, <1>9, <2>1 DEF LetsGo, Live
  <2> QED BY <2>1, <2>2
<1>10. CASE j.status # "absent" /\ k = NoJob
  <2>1. ~(r > created') 
    <3>1. r \in Int BY DEF Requests
    <3> QED BY <1>1, <1>3, <1>10, <3>1
  <2> QED BY <1>5, <1>10, <2>1, NoJobFacts
<1>11. CASE Gives(st', r)
  <2>1. Stage(r) = "open" /\ Stage(r)' = "open" BY <1>4, <1>5, <1>11 DEF Gives, Live
  <2> QED BY <1>7, <1>11, <2>1 DEF Gives
<1>12. CASE Takes(st', r)
  <2>1. j.status = "claimed" /\ k.status \in {"completed", "failed"} /\ j.by \in Sessions
        /\ k.by = NoSession /\ k.answer \in Answers
    BY <1>12 DEF Takes
  <2>2. Stage(r) = "open" /\ j.by # NoSession BY <1>4, <2>1, Sentinels DEF Live
  <2>3. Stage(r)' = "answered"
    BY <1>5, <2>1, SentinelAssumption DEF Terminal, Answers
  <2> QED BY <2>1, <2>2, <2>3
<1>13. CASE Arrives(st', r)
  <2>1. k.status = "queued" /\ k.by = NoSession /\ k.answer = NoAnswer
    BY <1>13 DEF Arrives, NoJob
  <2>2. r > created /\ j.status = "absent" BY <1>1, <1>13 DEF Arrives
  <2> QED BY <1>4, <1>5, <2>1, <2>2 DEF Live
<1> QED BY <1>3, <1>8, <1>9, <1>10, <1>11, <1>12, <1>13 DEF Moved, Ages

\* RequestReply is an abstraction of the store: whatever happens to workers,
\* transports, callers, the process and its disk, a request gets one verdict,
\* from the one worker that holds it, and never comes back (llm-gateway-store.ts).
THEOREM KeepsPromiseHolds == Spec => KeepsPromise
<1>1. PromiseInv /\ Next => Reply!Next
  <2> SUFFICES ASSUME PromiseInv, Next PROVE Reply!Next
    OBVIOUS
  <2>1. Advances BY PromiseNext
  <2>2. \A r \in Requests :
          \/ Reply!Untouched(r) \/ Reply!Forgets(r) \/ Reply!Opens(r)
          \/ Reply!Verdict(r) \/ Reply!Drops(r)
    BY <2>1, RequestReplies
       DEF Reply!Untouched, Reply!Forgets, Reply!Opens, Reply!Verdict, Reply!Drops
  <2>3. Reply!OneHeld'
    <3>1. Coherent(st') /\ \A r \in Requests : Shaped(st'.jobs[r])
      BY <2>1 DEF Advances, PromiseInv, GatewayInv, Good
    <3>2. \A r \in Requests : st'.jobs[r].by # NoSession => r \in With(st', "claimed")
      BY <3>1 DEF Shaped, With
    <3>3. \A q, r \in With(st', "claimed") : q = r BY <3>1, OneClaim
    <3> QED BY <3>2, <3>3 DEF Reply!OneHeld
  <2> QED BY <2>2, <2>3 DEF Reply!Next
<1>2. UNCHANGED vars => UNCHANGED Reply!vars
  BY DEF vars, Reply!vars, Stage
<1>3. PromiseInv /\ [Next]_vars => [Reply!Next]_(Reply!vars) BY <1>1, <1>2
<1> QED BY <1>3, InitReplies, PromiseHolds, PTL DEF Spec, KeepsPromise, Reply!Spec

=============================================================================
