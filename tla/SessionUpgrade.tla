--------------------------- MODULE SessionUpgrade ---------------------------
(***************************************************************************)
(* Reading the session file of an earlier PiLink (src/src/                 *)
(* collaboration-sessions.ts).  The first store to open a file of version  *)
(* 1 or 2 rewrites it as version 3 and revokes the sessions that nobody    *)
(* can own any more; a file that was tampered with, that is too large or   *)
(* that belongs to another server key is refused as it is.  What one       *)
(* process writes, the next one has to be able to read.                    *)
(*                                                                         *)
(* A session of version 1 has one secret and no generations (Legacy); one  *)
(* of version 2 has them, and no owner.  A role binding is what its check  *)
(* makes of it.                                                            *)
(***************************************************************************)
EXTENDS CollaborationSessions, TLC

CONSTANTS
  Keys,          \* configured credential keys: an id and its material
  Limits,        \* configured limits of the number of sessions
  OldSessions,   \* bound: sessions in an old file
  MaxBoots,      \* bound: processes that open the file
  MaxCreated,    \* bound: sessions ever created
  MaxGeneration, \* bound: resumes of a session
  MaxTime        \* bound on the clock

VARIABLES
  stored,        \* the file: its version, the key it is bound to, its sessions
  server,        \* the process: whether it could read the file, its key and limit
  handles,       \* the handles that clients hold
  used,          \* session ids
  boots, clock

upgradeVars == <<stored, server, handles, used, boots, clock>>

UpgradeAssumption ==
  /\ \A k, l \in Keys : k.id = l.id /\ k.material = l.material => k = l
  /\ Limits \subseteq Nat \ {0}
  /\ {OldSessions, MaxBoots, MaxCreated, MaxGeneration, MaxTime} \subseteq Nat

Client   == "client"
Roles    == {"none", "recognized", "custom", "custom as another role", "incomplete"}
Requests == {"first", "second"}
Old      == 1 .. OldSessions

\* Nobody has the secret that a revoked session of version 1 is given.
Nobodys == Secret(1, None)
Legacy  == Secret(0, NoRequest)

Me == [instance |-> boots, pid |-> boots, boot |-> 1, start |-> boots]
Starts == [p \in 1 .. MaxBoots |-> IF p = boots THEN boots ELSE Unknown]

-----------------------------------------------------------------------------
(* What is accepted. *)

\* validateRoleBinding: a custom role is a collaborator with its own occupancy.
validateRoleBinding(role) == role \in {"none", "recognized", "custom"}

\* validateStoredRoleBinding: all of its fields, or none.
validateStoredRoleBinding(role) == role # "incomplete" /\ validateRoleBinding(role)

Dated(s) ==
  /\ s.resumeUntil >= s.expiresAt
  /\ s.status = "released" <=> s.releasedAt
  /\ s.status = "revoked" <=> s.revokedAt

\* validateLegacyStoredSession
LegacyValid(s) == Dated(s)

\* validateStoredSession, with the owner "forbidden".
VersionTwoValid(s) ==
  /\ validateStoredRoleBinding(s.role)
  /\ StoredSessionValid(IF s.status \in Live THEN [s EXCEPT !.owner = Me] ELSE s)

\* validateStoredSession, with the owner "required-for-live".
VersionThreeValid(s) == validateStoredRoleBinding(s.role) /\ StoredSessionValid(s)

SessionsValid(file) ==
  \A id \in DOMAIN file.sessions :
    LET s == file.sessions[id] IN
    CASE file.version = 1 -> LegacyValid(s)
      [] file.version = 2 -> VersionTwoValid(s)
      [] file.version = 3 -> VersionThreeValid(s)

\* validateState and its two predecessors; version 1 is bound to no key.
Readable(file, key, limit) ==
  /\ Cardinality(DOMAIN file.sessions) <= limit
  /\ file.version = 1 \/ file.key = key
  /\ SessionsValid(file)

-----------------------------------------------------------------------------
(* What the old sessions become. *)

\* Mutant: what was released keeps its date.
Mutant_migrateLegacy(s) ==
  [actor |-> s.actor, role |-> "none", owner |-> None, status |-> "revoked", lost |-> FALSE,
   expiresAt |-> s.expiresAt, resumeUntil |-> s.resumeUntil, generation |-> 1,
   verifier |-> Nobodys, rotatedAt |-> None, recovery |-> None,
   releasedAt |-> s.releasedAt, revokedAt |-> TRUE]

\* migrateLegacyState: every session ends, and its handle serves no more.
migrateLegacy(s) ==
  [actor |-> s.actor, role |-> "none", owner |-> None, status |-> "revoked", lost |-> FALSE,
   expiresAt |-> s.expiresAt, resumeUntil |-> s.resumeUntil, generation |-> 1,
   verifier |-> Nobodys, rotatedAt |-> None, recovery |-> None,
   releasedAt |-> FALSE, revokedAt |-> TRUE]

\* Mutant: a resume under way can still be repeated.
Mutant_migrateVersionTwo(s) ==
  IF s.status \in Ended THEN s
  ELSE [s EXCEPT !.status = "revoked", !.owner = None, !.lost = TRUE, !.releasedAt = FALSE,
                 !.revokedAt = TRUE]

\* migrateVersionTwoState: a session that has no owner to check ends.
migrateVersionTwo(s) ==
  IF s.status \in Ended THEN s
  ELSE [s EXCEPT !.status = "revoked", !.owner = None, !.lost = TRUE, !.releasedAt = FALSE,
                 !.revokedAt = TRUE, !.recovery = None]

Migrated(file, key) ==
  [version |-> 3, key |-> key, sessions |->
     [id \in DOMAIN file.sessions |->
        CASE file.version = 1 -> migrateLegacy(file.sessions[id])
          [] file.version = 2 -> migrateVersionTwo(file.sessions[id])
          [] file.version = 3 -> file.sessions[id]]]

-----------------------------------------------------------------------------
(* Old files. *)

LegacySessions ==
  [actor : {Client}, status : Live \cup Ended, expiresAt : {1}, resumeUntil : {0, 1},
   releasedAt : BOOLEAN, revokedAt : BOOLEAN, secret : {Legacy}]

\* With the generations of a session that was never resumed, of one that was, and
\* of one whose resume can be repeated.
VersionTwoSessions ==
  LET recovery == [source |-> 1, target |-> 2, previous |-> Secret(1, NoRequest),
                   request |-> "first", until |-> 1, rotatedAt |-> 1]
      Session(status, role, g, r) ==
        [actor |-> Client, role |-> role, owner |-> None, status |-> status, lost |-> FALSE,
         expiresAt |-> 1, resumeUntil |-> 1, generation |-> g,
         verifier |-> IF g = 1 THEN Secret(1, NoRequest) ELSE Secret(2, "first"),
         rotatedAt |-> IF g = 1 THEN None ELSE 1, recovery |-> r,
         releasedAt |-> status = "released", revokedAt |-> status = "revoked"]
  IN {Session(status, role, g, r) :
        status \in Live \cup Ended, role \in Roles, g \in {1}, r \in {None}}
     \cup {Session(status, "none", 2, r) : status \in Live \cup Ended, r \in {None, recovery}}

OldFiles ==
  [version : {1}, key : {None}, sessions : [Old -> LegacySessions]]
    \cup [version : {2}, key : Keys, sessions : [Old -> VersionTwoSessions]]

\* The secret that the client of an old session holds.
OldHandles(file) ==
  {Handle(id, IF file.version = 1 THEN Legacy ELSE file.sessions[id].verifier) : id \in Old}

Down == [at |-> "down", key |-> None, limit |-> 0]

Init ==
  /\ stored \in OldFiles
  /\ handles = OldHandles(stored) /\ server = Down
  /\ used = OldSessions /\ boots = 0 /\ clock = 1

TypeOK ==
  /\ stored.version \in 1 .. 3 /\ stored.key \in Keys \cup {None}
  /\ DOMAIN stored.sessions \subseteq 1 .. used
  /\ server.at \in {"down", "ready", "refused"}
  /\ \A h \in handles : h.id \in 1 .. used
  /\ used \in 0 .. MaxCreated /\ boots \in 0 .. MaxBoots /\ clock \in 1 .. MaxTime

-----------------------------------------------------------------------------
\* A process starts with a configured key and limit and reads the file: readStateFile.
Open ==
  /\ server.at = "down" /\ boots < MaxBoots /\ boots' = boots + 1
  /\ \E key \in Keys, limit \in Limits :
       IF Readable(stored, key, limit)
         THEN /\ server' = [at |-> "ready", key |-> key, limit |-> limit]
              /\ stored' = Migrated(stored, key)
         ELSE /\ server' = [at |-> "refused", key |-> key, limit |-> limit]
              /\ UNCHANGED stored
  /\ UNCHANGED <<handles, used, clock>>

\* The process ends; what it has written stays.
Stop ==
  /\ server.at # "down" /\ server' = Down
  /\ UNCHANGED <<stored, handles, used, boots, clock>>

Tick ==
  /\ clock < MaxTime /\ clock' = clock + 1
  /\ UNCHANGED <<stored, server, handles, used, boots>>

Settled == readAndExpire(stored.sessions, Me, Starts, clock)

Write(sessions) == stored' = [stored EXCEPT !.sessions = sessions]

\* A new session, with a role that its client asked for.
Start ==
  /\ server.at = "ready" /\ used < MaxCreated
  /\ hasActorSessionCapacity(Settled, Client, clock)
  /\ \E role \in {r \in Roles \ {"incomplete"} : validateRoleBinding(r)},
        room \in Rooms(Settled, server.limit, clock) :
       Write(room @@ (used + 1 :> (NewSession(Client, Me, clock) @@ ("role" :> role))))
  /\ used' = used + 1
  /\ handles' = handles \cup {Handle(used + 1, Secret(1, NoRequest))}
  /\ UNCHANGED <<server, boots, clock>>

Resume(h, request) ==
  /\ server.at = "ready" /\ h.id \in DOMAIN Settled
  /\ MayRotate(Settled[h.id], Me, h, request, clock)
  /\ Settled[h.id].generation < MaxGeneration
  /\ LET s == Rotated(Settled[h.id], Me, request, clock) IN
       /\ Write([Settled EXCEPT ![h.id] = s])
       /\ handles' = handles \cup {Handle(h.id, s.verifier)}
  /\ UNCHANGED <<server, used, boots, clock>>

Release(h) ==
  /\ server.at = "ready" /\ Authorised(Settled, Client, Me, h)
  /\ Settled[h.id].status \in Live
  /\ Write([Settled EXCEPT ![h.id] = Released(@)])
  /\ UNCHANGED <<server, handles, used, boots, clock>>

Next ==
  \/ Open \/ Stop \/ Tick \/ Start
  \/ \E h \in handles : Release(h) \/ \E request \in Requests : Resume(h, request)

UpgradeSpec == Init /\ [][Next]_upgradeVars

-----------------------------------------------------------------------------
(* Properties. *)

\* What a process has read, migrated and written since, a restart with the same key
\* and limit reads again.
StaysReadable ==
  server.at = "ready" => Readable(stored, server.key, server.limit)

\* No session outlives the upgrade: a handle from before it can neither go on with
\* its session nor repeat a resume that was under way.
OldHandlesEnd ==
  stored.version = 3 =>
    \A h \in handles, request \in Requests :
      h.id \in Old \cap DOMAIN stored.sessions =>
        LET s == stored.sessions[h.id] IN
          s.status \in Ended /\ ~MayRotate(s, Me, h, request, clock)
                            /\ ~MayRecover(s, Me, h, request, clock)
=============================================================================
