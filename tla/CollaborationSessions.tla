------------------------ MODULE CollaborationSessions ------------------------
(***************************************************************************)
(* The state of the collaboration session store (src/src/                  *)
(* collaboration-sessions.ts) and what each of its operations does to it.  *)
(* The modules that use it hold the variables.                             *)
(*                                                                         *)
(* A secret stands for what it is derived from: the generation it belongs  *)
(* to and the resume request that asked for it (the first one is random,   *)
(* NoRequest).  A verifier is the secret that it accepts.  Labels, names,  *)
(* roles, revisions and the timestamps that nothing is decided by are left *)
(* out; of releasedAt and revokedAt only whether they are set.             *)
(***************************************************************************)
EXTENDS Integers, FiniteSets, Functions

CONSTANTS
  Linux,               \* whether the host is a Linux host
  NoRequest,           \* no resume request
  None,                \* no owner, no recovery, no date
  DefaultTtl,          \* how long a session lives
  ResumeGrace,         \* how long an expired session can be resumed
  ResumeRecovery,      \* how long a lost resume reply can be asked for again
  MaxLivePerActor      \* maxLiveSessionsPerActor

ASSUME SessionsAssumption ==
  /\ Linux \in BOOLEAN
  /\ ResumeGrace \in Nat
  /\ {DefaultTtl, ResumeRecovery, MaxLivePerActor} \subseteq Nat \ {0}

-----------------------------------------------------------------------------
(***************************************************************************)
(* Who owns a session (src/src/runtime-owner.ts).  A PiLink process signs  *)
(* what it stores with its identity: a random instance, its process id,    *)
(* the boot of the host and the moment the process started.  Another       *)
(* process judges from these, and from what the host shows of that process *)
(* id, whether the owner is still there.                                   *)
(***************************************************************************)
Unknown == 0  \* a boot or a start that could not be read
Refused == -1 \* the start of a process that this user may not signal

SameRuntimeOwner(left, right) == left = right

\* What kill(pid, 0) tells: starts[pid] is the start of the process that has this
\* id now, Unknown if there is none and Refused if the host tells nothing of it.
ProcessExistence(starts, pid) ==
  CASE starts[pid] = Unknown -> "absent"
    [] starts[pid] = Refused -> "ambiguous"
    [] OTHER                 -> "exists"

\* Mutant: every other process is gone.
Mutant_classifyRuntimeOwnerLiveness(owner, current, linux, existence, observed) ==
  IF SameRuntimeOwner(owner, current) THEN "alive" ELSE "dead"

\* The same process; a process with my id that is not me; another boot; nobody
\* with that id; somebody with that id, who started then or at another moment.
classifyRuntimeOwnerLiveness(owner, current, linux, existence, observed) ==
  LET otherBoot == linux /\ Unknown \notin {owner.boot, current.boot} /\ owner.boot # current.boot
      timed     == Unknown \notin {owner.start, observed}
  IN CASE SameRuntimeOwner(owner, current)               -> "alive"
       [] ~SameRuntimeOwner(owner, current)
            /\ \/ owner.pid = current.pid
               \/ otherBoot
               \/ existence = "absent"
               \/ existence = "exists" /\ timed /\ owner.start # observed -> "dead"
       [] ~SameRuntimeOwner(owner, current)
            /\ owner.pid # current.pid /\ ~otherBoot /\ existence = "exists"
            /\ timed /\ owner.start = observed           -> "alive"
       [] OTHER                                          -> "ambiguous"

\* The start of a process is only read on Linux, and if the process is known to be there.
classifyPersistedRuntimeOwner(owner, current, linux, starts) ==
  LET existence == ProcessExistence(starts, owner.pid)
  IN  classifyRuntimeOwnerLiveness(owner, current, linux, existence,
        IF linux /\ existence = "exists" THEN starts[owner.pid] ELSE Unknown)

-----------------------------------------------------------------------------
(* The sessions. *)

Live     == {"active", "expired"}
Ended    == {"released", "revoked"}

Secret(generation, request) == [generation |-> generation, request |-> request]

\* The holder of a session keeps its id and the current secret.
Handle(id, secret) == [id |-> id, secret |-> secret]

\* The file that is written is one that can be read back.
StoredSessionValid(s) ==
  /\ s.resumeUntil >= s.expiresAt
  /\ s.verifier.generation = s.generation
  /\ s.recovery # None =>
       /\ s.recovery.target = s.generation
       /\ s.recovery.source + 1 = s.recovery.target
       /\ s.recovery.previous.generation = s.recovery.source
       /\ s.recovery.until >= s.recovery.rotatedAt
       /\ s.rotatedAt = s.recovery.rotatedAt
  /\ s.generation > 1 => s.rotatedAt # None
  /\ s.status = "released" <=> s.releasedAt
  /\ s.status = "revoked" <=> s.revokedAt
  /\ s.status \in Ended => s.recovery = None
  /\ s.status \in Live <=> s.owner # None
  /\ s.lost => s.status = "revoked"

\* A session with the identity `owner' on the host that `starts' describes.
Orphaned(s, me, starts) ==
  /\ s.status \in Live
  /\ classifyPersistedRuntimeOwner(s.owner, me, Linux, starts) = "dead"

\* What every operation does first: sessions of dead owners are revoked, those
\* past their time expire, and an old resume reply can no longer be recovered.
readAndExpire(file, me, starts, now) ==
  LET Settle(s) ==
        LET recoverable == s.recovery # None => s.recovery.until >= now
            kept == IF recoverable THEN s ELSE [s EXCEPT !.recovery = None]
        IN  IF Orphaned(s, me, starts)
              THEN [s EXCEPT !.status = "revoked", !.owner = None, !.lost = TRUE,
                             !.revokedAt = TRUE, !.recovery = None]
            ELSE IF s.status = "active" /\ s.expiresAt <= now
              THEN [kept EXCEPT !.status = "expired"]
            ELSE kept
  IN  [id \in DOMAIN file |-> Settle(file[id])]

LiveOrResumable(s, now) ==
  \/ s.status = "active"
  \/ s.status = "expired" /\ s.resumeUntil >= now

SessionsOf(file, actor) == {id \in DOMAIN file : file[id].actor = actor}

\* Mutant: sessions that can still be resumed do not count.
Mutant_hasActorSessionCapacity(file, actor, now) ==
  Cardinality({id \in SessionsOf(file, actor) : file[id].status = "active"}) < MaxLivePerActor

hasActorSessionCapacity(file, actor, now) ==
  Cardinality({id \in SessionsOf(file, actor) : LiveOrResumable(file[id], now)})
    < MaxLivePerActor

\* Mutant: a session that can still be resumed may go.
Mutant_Rooms(file, limit, now) ==
  IF Cardinality(DOMAIN file) < limit THEN {file}
  ELSE {Restrict(file, DOMAIN file \ {id}) : id \in {i \in DOMAIN file : file[i].status # "active"}}

\* The files with room for one more session: a full file loses a session that
\* nobody can use any more (of several, the one unchanged for longest), or
\* there is none.
Rooms(file, limit, now) ==
  IF Cardinality(DOMAIN file) < limit THEN {file}
  ELSE {Restrict(file, DOMAIN file \ {id}) :
          id \in {i \in DOMAIN file : ~LiveOrResumable(file[i], now)}}

NewSession(actor, me, now) ==
  [actor |-> actor, owner |-> me, status |-> "active", lost |-> FALSE,
   expiresAt |-> now + DefaultTtl, resumeUntil |-> now + DefaultTtl + ResumeGrace,
   generation |-> 1, verifier |-> Secret(1, NoRequest), rotatedAt |-> None,
   recovery |-> None, releasedAt |-> FALSE, revokedAt |-> FALSE]

\* An ended session may be inspected by anyone who holds its handle; a live one
\* only from the process that owns it.
CurrentRuntime(s, me) == s.status \in Ended \/ SameRuntimeOwner(s.owner, me)

\* Who may inspect, authenticate or release.
Authorised(file, actor, me, handle) ==
  /\ handle.id \in DOMAIN file
  /\ LET s == file[handle.id] IN
       /\ s.actor = actor
       /\ s.verifier = handle.secret
       /\ CurrentRuntime(s, me)

\* The resume whose reply got lost is asked for again with the old handle.
MayRecover(s, me, handle, request, now) ==
  /\ s.verifier # handle.secret
  /\ s.recovery # None
  /\ s.recovery.until >= now
  /\ s.recovery.previous = handle.secret
  /\ CurrentRuntime(s, me)
  /\ s.recovery.request = request
  /\ s.recovery.target = s.generation
  /\ s.verifier = Secret(s.recovery.target, request)

\* Mutant: an ended session can be resumed.
Mutant_MayRotate(s, me, handle, request, now) ==
  /\ s.verifier = handle.secret
  /\ CurrentRuntime(s, me)
  /\ s.recovery # None => s.recovery.request # request
  /\ s.status = "expired" => now <= s.resumeUntil

\* A resume that rotates the secret: with the current handle, a new request, and
\* not after the resume window.
MayRotate(s, me, handle, request, now) ==
  /\ s.verifier = handle.secret
  /\ s.status \in Live
  /\ CurrentRuntime(s, me)
  /\ s.recovery # None => s.recovery.request # request
  /\ s.status = "expired" => now <= s.resumeUntil

\* Mutant: the resume cannot be repeated.
Mutant_Rotated(s, me, request, now) ==
  LET target == s.generation + 1 IN
  [s EXCEPT !.status = "active", !.owner = me, !.lost = FALSE,
            !.expiresAt = now + DefaultTtl, !.resumeUntil = now + DefaultTtl + ResumeGrace,
            !.generation = target, !.verifier = Secret(target, request), !.rotatedAt = now,
            !.releasedAt = FALSE, !.revokedAt = FALSE, !.recovery = None]

Rotated(s, me, request, now) ==
  LET target == s.generation + 1 IN
  [s EXCEPT !.status = "active", !.owner = me, !.lost = FALSE,
            !.expiresAt = now + DefaultTtl, !.resumeUntil = now + DefaultTtl + ResumeGrace,
            !.generation = target, !.verifier = Secret(target, request), !.rotatedAt = now,
            !.releasedAt = FALSE, !.revokedAt = FALSE,
            !.recovery = [source |-> s.generation, target |-> target, previous |-> s.verifier,
                          request |-> request, until |-> now + ResumeRecovery,
                          rotatedAt |-> now]]

\* Nothing is left to resume.
Released(s) ==
  IF s.status = "released" THEN s
  ELSE [s EXCEPT !.status = "released", !.owner = None, !.lost = FALSE, !.releasedAt = TRUE,
                 !.recovery = None]

\* An administrator may also revoke a session that was released.
Revoked(s) ==
  IF s.status = "revoked" THEN s
  ELSE [s EXCEPT !.status = "revoked", !.owner = None, !.lost = FALSE, !.revokedAt = TRUE,
                 !.releasedAt = FALSE, !.recovery = None]

=============================================================================
