----------------------- MODULE CollaborationContexts -----------------------
(***************************************************************************)
(* How a client keeps its collaboration session.  A registry in each       *)
(* PiLink process (src/src/collaboration-context-registry.ts) shares one   *)
(* bootstrap object (src/src/collaboration-bootstrap.ts) among the         *)
(* transports of a client and disposes of it some time after the last one  *)
(* is gone.  The bootstrap holds the session's handle and works off its    *)
(* calls one after the other; each call is one or more operations of the   *)
(* session store, and the processes that share the store, the clock and    *)
(* the host act between them.                                              *)
(*                                                                         *)
(* An operation of the store is one step (module FileLock).  It may fail   *)
(* before it has written anything, after the write that settles the        *)
(* expired sessions, or after its own write: the caller sees an error each *)
(* time.                                                                   *)
(***************************************************************************)
EXTENDS CollaborationSessions, Sequences

CONSTANTS
  Runtimes,      \* PiLink processes that may ever run
  Pids,          \* process ids of the host
  Bindings,      \* trusted client bindings
  ActorOf,       \* the OAuth actor of a binding
  MaxSessions,   \* maxSessions
  MaxRefs,       \* bound: transports attached to one context
  MaxQueue,      \* bound: calls waiting in one bootstrap
  MaxContexts,   \* bound: contexts ever created
  MaxCreated,    \* bound: sessions ever created
  MaxStarts,     \* bound: processes started in one boot
  MaxBoots,      \* bound: boots of the host
  MaxFaults,     \* bound: failures of the store
  MaxTime        \* bound on the clock

ASSUME ContextsAssumption ==
  /\ {MaxSessions, MaxRefs, MaxQueue, MaxContexts, MaxCreated, MaxStarts, MaxBoots, MaxTime}
       \subseteq Nat \ {0}
  /\ MaxFaults \in Nat
  /\ Pids \subseteq Nat \ {0}

VARIABLES
  file,      \* the stored sessions, by id
  created,   \* sessions ever created
  contexts,  \* registry entries with their bootstraps, in the order of creation
  runtime,   \* the identity of each running PiLink process, None when it is not running
  disposed,  \* processes whose registry was disposed of
  host,      \* the boot, how many processes it started, and which has each process id
  faults,
  now

vars == <<file, created, contexts, runtime, disposed, host, faults, now>>

Actors == {ActorOf[b] : b \in Bindings}

\* A resume request is named by its context and the generation it resumes; what is
\* kept to repeat the answer to one is a record, and no date and no record is None.
Requests   == {NoRequest} \cup (Nat \X Nat)
Recoveries == [source : Nat, target : Nat, previous : [generation : Nat, request : Requests],
               request : Requests, until : Nat, rotatedAt : Nat]

ASSUME NothingAssumption ==
  /\ NoRequest \notin Nat \X Nat
  /\ None \notin Nat \cup Recoveries

NoHandle == [id |-> 0]

\* A client that attaches gets a context of its own process.
NewContext(r, b) ==
  [runtime |-> r, binding |-> b, mapped |-> TRUE, mode |-> "pristine", refs |-> 1,
   timer |-> FALSE, disposing |-> "no", queue |-> <<>>, at |-> "begin",
   handle |-> NoHandle, pending |-> NoRequest, disposeRequested |-> FALSE]

Me(k) == runtime[contexts[k].runtime]

\* Contexts die with their process; what is left of one then means nothing.
Running == {k \in DOMAIN contexts : Me(k) # None}

TypeOK ==
  /\ created \in 0 .. MaxCreated
  /\ DOMAIN file \subseteq 1 .. created
  /\ \A id \in DOMAIN file : /\ file[id].actor \in Actors /\ file[id].status \in Live \cup Ended
                            /\ file[id].recovery \in {None} \cup Recoveries
  /\ \A k \in DOMAIN contexts :
       /\ contexts[k].mode \in {"pristine", "bootstrapping", "bootstrapped", "generic_locked"}
       /\ contexts[k].disposing \in {"no", "verifying", "releasing", "done"}
       /\ contexts[k].refs \in 0 .. MaxRefs
       /\ contexts[k].handle.id \in 0 .. created
  /\ disposed \subseteq Runtimes
  /\ faults \in 0 .. MaxFaults
  /\ now \in 1 .. MaxTime

Init ==
  /\ file = [id \in {} |-> NoHandle]
  /\ created = 0
  /\ contexts = <<>>
  /\ runtime = [r \in Runtimes |-> None]
  /\ disposed = {}
  /\ host = [boot |-> 1, started |-> 0, starts |-> [p \in Pids |-> Unknown], used |-> {}]
  /\ faults = 0
  /\ now = 1

-----------------------------------------------------------------------------
(* The host. *)

\* A process of the host gets a free process id.
Spawn(p, shown) ==
  /\ host.starts[p] = Unknown
  /\ host.started < MaxStarts
  /\ host' = [host EXCEPT !.started = @ + 1, !.starts[p] = shown]

LocalRuntimeOwner(r, p) ==
  [instance |-> r, pid |-> p,
   boot |-> IF Linux THEN host.boot ELSE Unknown,
   start |-> IF Linux THEN host.started + 1 ELSE Unknown]

StartRuntime(r) ==
  /\ r \notin host.used
  /\ \E p \in Pids :
       /\ host.starts[p] = Unknown
       /\ host.started < MaxStarts
       /\ host' = [host EXCEPT !.started = @ + 1, !.starts[p] = host.started + 1,
                               !.used = @ \cup {r}]
       /\ runtime' = [runtime EXCEPT ![r] = LocalRuntimeOwner(r, p)]
  /\ UNCHANGED <<file, created, contexts, disposed, faults, now>>

\* Any other process: this user's, or one that PiLink may not signal.
OtherProcess ==
  /\ host.used # {}
  /\ \E p \in Pids, shown \in {host.started + 1, Refused} : Spawn(p, shown)
  /\ UNCHANGED <<file, created, contexts, runtime, disposed, faults, now>>

Crash(r) ==
  /\ runtime[r] # None
  /\ runtime' = [runtime EXCEPT ![r] = None]
  /\ host' = [host EXCEPT !.starts[runtime[r].pid] = Unknown]
  /\ contexts' = [k \in DOMAIN contexts |->
       IF contexts[k].runtime = r THEN NewContext(r, contexts[k].binding) ELSE contexts[k]]
  /\ UNCHANGED <<file, created, disposed, faults, now>>

Reboot ==
  /\ host.boot < MaxBoots
  /\ host' = [host EXCEPT !.boot = @ + 1, !.started = 0, !.starts = [p \in Pids |-> Unknown]]
  /\ runtime' = [r \in Runtimes |-> None]
  /\ contexts' = [k \in DOMAIN contexts |->
       NewContext(contexts[k].runtime, contexts[k].binding)]
  /\ UNCHANGED <<file, created, disposed, faults, now>>

Tick ==
  /\ now < MaxTime
  /\ now' = now + 1
  /\ UNCHANGED <<file, created, contexts, runtime, disposed, host, faults>>

-----------------------------------------------------------------------------
(* The registry. *)

UnchangedStore == UNCHANGED <<file, created, faults>>
UnchangedHost  == UNCHANGED <<runtime, disposed, host, now>>

Call(k, op) == contexts' = [contexts EXCEPT ![k].queue = Append(@, op)]

\* Dispose is called: nothing that is not yet queued gets in any more.
WithDispose(c) ==
  [c EXCEPT !.disposing = "releasing", !.disposeRequested = TRUE, !.queue = Append(@, "dispose")]

\* disposeEntry: one last verification names the session whose participant
\* leaves the work loop (module AgentWork), then the bootstrap is disposed of.
Disposal(c) ==
  LET unmapped == [c EXCEPT !.mapped = FALSE, !.timer = FALSE]
  IN  IF c.disposing # "no" THEN unmapped
      ELSE IF c.handle = NoHandle THEN WithDispose(unmapped)
      ELSE [unmapped EXCEPT !.disposing = "verifying", !.queue = Append(@, "lastVerify")]

attach(r, b) ==
  /\ runtime[r] # None
  /\ r \notin disposed
  /\ LET entry == {k \in DOMAIN contexts :
                     contexts[k].mapped /\ contexts[k].runtime = r /\ contexts[k].binding = b}
     IN  \/ \E k \in entry :
              /\ contexts[k].refs < MaxRefs
              /\ contexts' = [contexts EXCEPT ![k].refs = @ + 1, ![k].timer = FALSE]
         \/ /\ entry = {}
            /\ Len(contexts) < MaxContexts
            /\ contexts' = Append(contexts, NewContext(r, b))
  /\ UnchangedStore /\ UnchangedHost

\* The timer runs from the moment the last transport is gone.
detach(k) ==
  /\ contexts[k].refs > 0
  /\ contexts' = [contexts EXCEPT
       ![k].refs = @ - 1,
       ![k].timer = \/ @
                    \/ /\ contexts[k].refs = 1
                       /\ contexts[k].disposing = "no"
                       /\ contexts[k].runtime \notin disposed]
  /\ UnchangedStore /\ UnchangedHost

\* (Attaching stops the timer, so there is nobody attached.)
disposeTimer(k) ==
  /\ contexts[k].timer
  /\ contexts' = [contexts EXCEPT
       ![k] = IF @.refs > 0 \/ ~@.mapped THEN [@ EXCEPT !.timer = FALSE] ELSE Disposal(@)]
  /\ UnchangedStore /\ UnchangedHost

\* At the shutdown of the process.
disposeAll(r) ==
  /\ runtime[r] # None
  /\ r \notin disposed
  /\ disposed' = disposed \cup {r}
  /\ contexts' = [k \in DOMAIN contexts |->
       IF contexts[k].mapped /\ contexts[k].runtime = r
         THEN Disposal(contexts[k]) ELSE contexts[k]]
  /\ UnchangedStore /\ UNCHANGED <<runtime, host, now>>

\* The first attempt owns the bootstrapping; later ones wait for it, and then
\* ask the bootstrap whether the role is the same.
initializeEntry(k) ==
  /\ contexts[k].refs > 0
  /\ ~contexts[k].disposeRequested
  /\ Len(contexts[k].queue) < MaxQueue
  /\ contexts[k].mode \in {"pristine", "bootstrapped"}
  /\ contexts' = [contexts EXCEPT
       ![k].mode = IF @ = "pristine" THEN "bootstrapping" ELSE @,
       ![k].queue = Append(@, "initialize")]
  /\ UnchangedStore /\ UnchangedHost

\* A project access before a role was chosen rules the choice out for good.
prepareSharedProjectAccess(k) ==
  /\ contexts[k].refs > 0
  /\ contexts[k].mode = "pristine"
  /\ contexts' = [contexts EXCEPT ![k].mode = "generic_locked"]
  /\ UnchangedStore /\ UnchangedHost

verify(k) ==
  /\ contexts[k].refs > 0
  /\ ~contexts[k].disposeRequested
  /\ Len(contexts[k].queue) < MaxQueue
  /\ contexts[k].mode = "bootstrapped"
  /\ Call(k, "verify")
  /\ UnchangedStore /\ UnchangedHost

-----------------------------------------------------------------------------
(* The bootstrap: the call at the head of its queue, and where that is. *)

At(k, ops, place) ==
  /\ contexts[k].queue # <<>>
  /\ Head(contexts[k].queue) \in ops
  /\ contexts[k].at = place

\* The call is over; a registry that waited for it goes on.
Over(c) ==
  LET done == [c EXCEPT !.queue = Tail(@), !.at = "begin",
                        !.mode = IF @ = "bootstrapping" /\ Head(c.queue) = "initialize"
                                   THEN IF c.handle = NoHandle THEN "pristine" ELSE "bootstrapped"
                                   ELSE @]
  IN  CASE Head(c.queue) = "lastVerify" -> WithDispose(done)
        [] Head(c.queue) = "dispose"     -> [done EXCEPT !.disposing = "done"]
        [] OTHER                         -> done

Settled(k) == readAndExpire(file, Me(k), host.starts, now)
ActorAt(k) == ActorOf[contexts[k].binding]

\* An operation that leaves the sessions `new' and the context `c'.  If it
\* fails the call is over, whatever was written.
Store(k, new, c) ==
  \/ /\ file' = new
     /\ contexts' = [contexts EXCEPT ![k] = c]
     /\ UNCHANGED faults
  \/ /\ faults < MaxFaults
     /\ faults' = faults + 1
     /\ file' \in {file, Settled(k), new}
     /\ contexts' = [contexts EXCEPT ![k] = Over(@)]

Read(k, c) == Store(k, Settled(k), c)

\* The first thing an initialization does at its turn.
beginInitialize(k) ==
  LET c == contexts[k] IN
  /\ At(k, {"initialize"}, "begin")
  /\ c.disposeRequested \/ c.handle = NoHandle
  /\ contexts' = [contexts EXCEPT
       ![k] = IF c.disposeRequested THEN Over(c) ELSE [c EXCEPT !.at = "start"]]
  /\ UnchangedStore /\ UnchangedHost

\* The session is started, unless the actor has too many or there is no room.
\* A disposal that was requested in the meantime has it released at once.
start(k) ==
  LET c == contexts[k]
      id == created + 1
      started == [c EXCEPT !.handle = Handle(id, Secret(1, NoRequest))]
  IN
  /\ At(k, {"initialize"}, "start")
  /\ created < MaxCreated
  /\ \/ /\ hasActorSessionCapacity(Settled(k), ActorAt(k), now)
        /\ \E room \in Rooms(Settled(k), MaxSessions, now) :
             Store(k, [i \in DOMAIN room \cup {id} |->
                         IF i = id THEN NewSession(ActorAt(k), Me(k), now) ELSE room[i]],
                   IF c.disposeRequested THEN [started EXCEPT !.at = "inspect"] ELSE Over(started))
     \/ /\ ~hasActorSessionCapacity(Settled(k), ActorAt(k), now) \/ Rooms(Settled(k), MaxSessions, now) = {}
        /\ Read(k, Over(c))
  /\ created' = IF id \in DOMAIN file' THEN id ELSE created
  /\ UnchangedHost

Verifying(k) ==
  /\ At(k, {"initialize", "verify", "lastVerify"}, "begin")
  /\ contexts[k].handle # NoHandle
  /\ Head(contexts[k].queue) = "initialize" => ~contexts[k].disposeRequested

StatusFor(k) ==
  IF Authorised(Settled(k), ActorAt(k), Me(k), contexts[k].handle)
    THEN Settled(k)[contexts[k].handle.id].status ELSE "unknown"

\* ensureActiveUnlocked: an expired session is resumed with a new request, which
\* is remembered until it is answered.
ensureActive(k) ==
  LET c == contexts[k] IN
  /\ Verifying(k)
  /\ c.pending = NoRequest
  /\ Read(k, CASE StatusFor(k) = "active"  -> [c EXCEPT !.at = "authenticate"]
               [] StatusFor(k) = "expired" -> [c EXCEPT !.at = "resume",
                                                        !.pending = <<k, c.handle.secret.generation>>]
               [] OTHER                    -> Over(c))
  /\ UNCHANGED created /\ UnchangedHost

\* (What it writes is when the session was last seen.)
authenticate(k) ==
  /\ At(k, {"initialize", "verify", "lastVerify"}, "authenticate")
  /\ Read(k, Over(contexts[k]))
  /\ UNCHANGED created /\ UnchangedHost

\* The resume, or its repetition.  It is forgotten only when it was answered.
resume(k) ==
  LET c == contexts[k]
      f == Settled(k)
      id == c.handle.id
      known == id \in DOMAIN f /\ f[id].actor = ActorAt(k)
      recovers == known /\ MayRecover(f[id], Me(k), c.handle, c.pending, now)
      rotates == known /\ MayRotate(f[id], Me(k), c.handle, c.pending, now)
      Answered(s) == Over([c EXCEPT !.handle = Handle(id, s.verifier), !.pending = NoRequest])
  IN
  /\ \/ At(k, {"initialize", "verify", "lastVerify"}, "resume")
     \/ Verifying(k) /\ c.pending # NoRequest
  /\ CASE recovers -> Read(k, Answered(f[id]))
       [] rotates  -> LET s == Rotated(f[id], Me(k), c.pending, now)
                      IN  Store(k, [f EXCEPT ![id] = s], Answered(s))
       [] OTHER    -> Read(k, Over(c))
  /\ UNCHANGED created /\ UnchangedHost

\* A disposal without a session.
disposeNothing(k) ==
  /\ At(k, {"dispose"}, "begin")
  /\ contexts[k].handle = NoHandle
  /\ contexts' = [contexts EXCEPT ![k] = Over(@)]
  /\ UnchangedStore /\ UnchangedHost

\* releaseUnlocked, called by a disposal or by an initialization that was
\* overtaken by one.
inspect(k) ==
  /\ \/ At(k, {"dispose"}, "begin") /\ contexts[k].handle # NoHandle
     \/ At(k, {"initialize"}, "inspect")
  /\ Read(k, IF StatusFor(k) \in Live THEN [contexts[k] EXCEPT !.at = "release"]
             ELSE Over(contexts[k]))
  /\ UNCHANGED created /\ UnchangedHost

release(k) ==
  LET id == contexts[k].handle.id IN
  /\ At(k, {"dispose", "initialize"}, "release")
  /\ Store(k, IF StatusFor(k) \in Live \cup {"released"}
                THEN [Settled(k) EXCEPT ![id] = Released(@)] ELSE Settled(k),
           Over(contexts[k]))
  /\ UNCHANGED created /\ UnchangedHost

\* An administrator revokes a session through any process.
revoke(r, id) ==
  /\ runtime[r] # None
  /\ LET f == readAndExpire(file, runtime[r], host.starts, now)
     IN  file' = [f EXCEPT ![id] = Revoked(@)]
  /\ UNCHANGED <<created, contexts, faults>> /\ UnchangedHost

\* What any process does before it answers anything from the store.
listByActor(r) ==
  /\ runtime[r] # None
  /\ file' = readAndExpire(file, runtime[r], host.starts, now)
  /\ UNCHANGED <<created, contexts, faults>> /\ UnchangedHost

-----------------------------------------------------------------------------
Work(k) ==
  \/ beginInitialize(k) \/ start(k)
  \/ ensureActive(k) \/ authenticate(k) \/ resume(k)
  \/ disposeNothing(k) \/ inspect(k) \/ release(k)

Next ==
  \/ Tick \/ Reboot \/ OtherProcess
  \/ \E r \in Runtimes :
       \/ StartRuntime(r) \/ Crash(r) \/ disposeAll(r) \/ listByActor(r)
       \/ \E b \in Bindings : attach(r, b)
       \/ \E id \in DOMAIN file : revoke(r, id)
  \/ \E k \in Running :
       \/ detach(k) \/ disposeTimer(k)
       \/ initializeEntry(k) \/ prepareSharedProjectAccess(k) \/ verify(k)
       \/ Work(k)

Spec == Init /\ [][Next]_vars

-----------------------------------------------------------------------------
(* Properties. *)

\* Every file the store leaves behind is one it will read: its validation
\* refuses the whole file for one inconsistent session, and then no session of
\* the project can be used.
FileReadable ==
  /\ Cardinality(DOMAIN file) <= MaxSessions
  /\ \A id \in DOMAIN file : StoredSessionValid(file[id])

\* A connection does not lose its session by a failure between a rotation and
\* its reply: while the recovery window lasts, the connection's handle is the
\* current one, or the repetition of its pending resume gets the new one.
HandleKept ==
  \A k \in Running :
    LET c == contexts[k] IN
    c.handle # NoHandle /\ c.handle.id \in DOMAIN file /\ file[c.handle.id].status \in Live =>
      LET s == file[c.handle.id] IN
      \/ s.verifier = c.handle.secret
      \/ MayRecover(s, Me(k), c.handle, c.pending, now)
      \/ s.rotatedAt + ResumeRecovery < now

\* An actor never has more sessions that are active or can still be resumed
\* than its limit, through any number of processes, failed starts and resumes.
ActorWithinLimit ==
  \A actor \in Actors :
    Cardinality({id \in SessionsOf(file, actor) : LiveOrResumable(file[id], now)})
      <= MaxLivePerActor

\* When the disposal of a context is over and the store did not fail it, the
\* session it held is not live: also when the disposal came while the session
\* was being started.
DisposedReleased ==
  \A k \in Running :
    contexts[k].disposing = "done" /\ faults = 0 /\ contexts[k].handle.id \in DOMAIN file
      => file[contexts[k].handle.id].status \notin Live

\* A session is taken away as lost only when the process that owns it is gone,
\* whatever processes have started, ended and taken over process ids.
OnlyOrphansLost ==
  \A id \in DOMAIN file' :
    file'[id].lost /\ (id \in DOMAIN file => ~file[id].lost)
      => \A r \in Runtimes : runtime[r] # None => ~SameRuntimeOwner(runtime[r], file[id].owner)

\* To make room, the store forgets no session that could still be used.
UsableKept ==
  \A id \in DOMAIN file :
    id \in DOMAIN file'
      \/ ~LiveOrResumable(file[id], now)
      \/ (/\ file[id].expiresAt <= now
          /\ file[id].resumeUntil < now)
      \/ (\E r \in Runtimes : runtime[r] # None /\ Orphaned(file[id], runtime[r], host.starts))

\* What the store says of a session, in the terms of SessionLifecycle.
StatusOf(id) ==
  IF id > created THEN "none"
  ELSE IF id \in DOMAIN file THEN file[id].status ELSE "forgotten"

=============================================================================
