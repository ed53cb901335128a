----------------------------- MODULE AgentMemory -----------------------------
(***************************************************************************)
(* The governed memory of a project (AgentMemoryStore, src/src/memory.ts)  *)
(* and what the reading tools show of it (src/src/memory-mcp.ts).          *)
(*                                                                         *)
(* Agents propose entries, the server derives them, and governance         *)
(* promotes, replaces, disputes, withdraws and deletes them.  Every entry  *)
(* keeps the history of its transitions, from which it is shown as of an   *)
(* earlier time.  A mutation runs under a lock like that of module         *)
(* FileLock, reads the file and writes it back after validating it: it is  *)
(* one step, which a state that would not validate does not take.  Some    *)
(* take their time before they wait for the lock.  Of the content only     *)
(* what decides is kept: its kind, whether it is formatted like a policy,  *)
(* who may read it, from when and for how long it holds, and what it       *)
(* refers to.                                                              *)
(***************************************************************************)
EXTENDS Integers, FiniteSets, Sequences, SequencesExt

CONSTANTS
  Contents,       \* what may be written: records [kind, policy, readers, from, lasts]
  LinkTypes,      \* bound: the types of the links that a writer supplies
  Readers,        \* access contexts; an entry is for some of them
  Keys,           \* idempotency keys of the server
  Authorities,    \* who governs: manager, owner, reviewer; the server's is refused
  None,
  MaximumEntries, MaximumTombstones,
  MaxTransitions, \* transitions that an entry may have (256)
  MaxRelations,   \* links that an entry may have (32)
  MaxWait,        \* bound: how long a call waits for its turn
  MaxCreated,     \* bound: entries ever created
  MaxTime         \* bound on the clock

Kinds         == {"decision", "procedure", "risk", "verified_fact"}
Authoritative == {"decision", "procedure"}
Lifecycles    == {"candidate", "active", "disputed", "superseded", "retracted", "archived"}
Terminal      == {"superseded", "retracted", "archived"}
Shown         == {"active", "disputed"}             \* what a read returns by default

\* Links of the other types mean as little to the memory as "supports".
Types == {"contradicts", "failed_under", "superseded_by", "supersedes", "supports"}

MemoryAssumption ==
  /\ Contents \subseteq [kind : Kinds, policy : BOOLEAN, readers : SUBSET Readers,
                        from : Nat \cup {None}, lasts : Nat]
  /\ LinkTypes \subseteq Types
  /\ Authorities \subseteq {"manager", "owner", "reviewer"}
  /\ {MaximumEntries, MaximumTombstones, MaxTransitions, MaxRelations, MaxCreated}
       \subseteq Nat \ {0}
  /\ {MaxWait, MaxTime} \subseteq Nat

VARIABLES
  entries,    \* the stored entries, by their sequence number
  tombstones, \* what was deleted: its number and its idempotency key
  created,    \* the last sequence number
  damage,     \* whether something else has made the file unreadable
  clock

memoryVars == <<entries, tombstones, created, damage, clock>>

Ids == DOMAIN entries
Status(entry) == Last(entry.transitions)
Lifecycle(id) == Status(entries[id]).lifecycle

Link(type, id) == [type |-> type, id |-> id]

Init ==
  /\ entries = <<>>
  /\ tombstones = {}
  /\ created = 0
  /\ damage = "none"
  /\ clock = 0

-----------------------------------------------------------------------------
(* What the validation before a write and after a read asks for. *)

AgentStatus  == {"agent_inferred"}
Granted(authority) ==
  CASE authority = "manager"  -> {"manager_accepted", "externally_verified"}
    [] authority = "owner"    -> {"user_decided", "externally_verified"}
    [] authority = "reviewer" -> {"reviewer_verified", "externally_verified"}
    [] OTHER                  -> {}

TransitionsValid(transitions) ==
  /\ Len(transitions) \in 1 .. MaxTransitions
  /\ \A k \in 2 .. Len(transitions) :
       /\ transitions[k - 1].at <= transitions[k].at
       /\ \/ transitions[k].epistemic = transitions[k - 1].epistemic
          \/ transitions[k].epistemic \in Granted(transitions[k].authority)

ProvenanceValid(entry) ==
  LET first == Head(entry.transitions)
  IN  CASE entry.source = "agent"  ->
             first.authority = "agent" /\ first.lifecycle = "candidate" /\ first.epistemic \in AgentStatus
        [] entry.source = "server" ->
             /\ first.authority = "server" /\ first.lifecycle = "active"
             /\ {first.epistemic, Status(entry).epistemic} = {"server_derived"}
             /\ entry.key # None /\ ~entry.policy
        [] OTHER                   ->
             /\ first.lifecycle = "active" /\ first.authority \in Authorities
             /\ first.epistemic \in Granted(first.authority)

Valid(next, gone, last) ==
  /\ Cardinality(DOMAIN next) <= MaximumEntries /\ Cardinality(gone) <= MaximumTombstones
  /\ \A id \in DOMAIN next :
       /\ TransitionsValid(next[id].transitions) /\ ProvenanceValid(next[id])
       /\ Cardinality(next[id].relations) <= MaxRelations
       /\ {link.id : link \in next[id].relations} \cup next[id].derived \subseteq DOMAIN next
       /\ id <= last
  /\ \A id, other \in DOMAIN next : next[id].key = next[other].key => id = other \/ next[id].key = None
  /\ \A stone \in gone : stone.id \notin DOMAIN next
  /\ \A stone \in gone : \A id \in DOMAIN next : stone.key = next[id].key => stone.key = None

\* A file that cannot be read is changed by no mutation; a change is written when it
\* is valid.
Persist(next, gone, last) ==
  /\ damage # "present"
  /\ Valid(next, gone, last)
  /\ entries' = next
  /\ tombstones' = gone
  /\ created' = last
  /\ UNCHANGED <<damage, clock>>

-----------------------------------------------------------------------------
(* Creating entries. *)

Event(lifecycle, epistemic, at, authority) ==
  [lifecycle |-> lifecycle, epistemic |-> epistemic, at |-> at, authority |-> authority]

\* The time of a call that took it before it waited for its turn.
Stamps == {t \in 0 .. clock : clock - t <= MaxWait}

\* What the content may say depends on who writes it: a policy in a text is no
\* authority, and nobody claims a status that others give.
normalizeCreateInput(content, source, epistemic, authority) ==
  CASE source = "agent"  -> epistemic \in AgentStatus
    [] source = "server" -> ~content.policy /\ epistemic = "server_derived"
    [] OTHER             -> epistemic \in Granted(authority)

\* What the writer refers to: memories it derives this one from, and links of any
\* type to others.
Reference(derived, relations) == [derived |-> derived, relations |-> relations]

\* An entry holds from a time that its writer gives, or from when it was written.
createEntry(content, source, reference, key, event) ==
  LET from == IF content.from = None THEN event.at ELSE content.from
  IN  [kind |-> content.kind, policy |-> content.policy, readers |-> content.readers,
       from |-> from, until |-> IF content.lasts = 0 THEN None ELSE from + content.lasts,
       source |-> source, derived |-> reference.derived, key |-> key,
       relations |-> reference.relations, transitions |-> <<event>>]

Added(entry) == [id \in Ids \cup {created + 1} |-> IF id \in Ids THEN entries[id] ELSE entry]

assertCapacity == Cardinality(Ids) < MaximumEntries /\ created < MaxCreated

Referred(reference) == reference.derived \cup {link.id : link \in reference.relations}

\* An agent proposes only for readers of which it is one.
assertAgentProposalScope(reader, content) == reader \in content.readers

\* An agent refers to what it may read itself.
propose(reader, content, reference, stamp) ==
  /\ assertCapacity
  /\ normalizeCreateInput(content, "agent", "agent_inferred", "agent")
  /\ assertAgentProposalScope(reader, content)
  /\ \A id \in Referred(reference) : reader \in entries[id].readers
  /\ Persist(Added(createEntry(content, "agent", reference, None,
                               Event("candidate", "agent_inferred", stamp, "agent"))),
             tombstones, created + 1)

\* A replay of what was derived before, or deleted since, changes nothing.
derive(key, content, reference, stamp) ==
  /\ \A id \in Ids : entries[id].key # key
  /\ \A stone \in tombstones : stone.key # key
  /\ assertCapacity
  /\ normalizeCreateInput(content, "server", "server_derived", "server")
  /\ Persist(Added(createEntry(content, "server", reference, key,
                               Event("active", "server_derived", stamp, "server"))),
             tombstones, created + 1)

-----------------------------------------------------------------------------
(* Governance. *)

MayPromote(authority, kind) == kind \in {"decision", "risk"} => authority \in {"manager", "owner"}

transitionEntry(entry, event) == [entry EXCEPT !.transitions = Append(@, event)]

Moved(id, lifecycle, authority, stamp) ==
  transitionEntry(entries[id], Event(lifecycle, Status(entries[id]).epistemic, stamp, authority))

\* Mutant: any authority may promote a policy.
Mutant_promote(authority, id, epistemic) ==
  /\ Lifecycle(id) \in {"candidate", "disputed"}
  /\ entries[id].kind \in Authoritative => ~entries[id].policy
  /\ epistemic \in Granted(authority)
  /\ Persist([entries EXCEPT ![id] = transitionEntry(@, Event("active", epistemic, clock, authority))],
             tombstones, created)

promote(authority, id, epistemic) ==
  /\ Lifecycle(id) \in {"candidate", "disputed"}
  /\ MayPromote(authority, entries[id].kind)
  /\ entries[id].kind \in Authoritative => ~entries[id].policy
  /\ epistemic \in Granted(authority)
  /\ Persist([entries EXCEPT ![id] = transitionEntry(@, Event("active", epistemic, clock, authority))],
             tombstones, created)

\* The replacement keeps the links it came with.
supersede(authority, id, content, epistemic, reference, stamp) ==
  /\ Lifecycle(id) \notin Terminal
  /\ MayPromote(authority, entries[id].kind) /\ MayPromote(authority, content.kind)
  /\ content.kind \in Authoritative => ~content.policy
  /\ assertCapacity
  /\ normalizeCreateInput(content, "governance", epistemic, authority)
  /\ LET replacement == [createEntry(content, "governance", reference, None,
                                     Event("active", epistemic, stamp, authority))
                           EXCEPT !.relations = @ \cup {Link("supersedes", id)}]
         superseded == [Moved(id, "superseded", authority, stamp)
                           EXCEPT !.relations = @ \cup {Link("superseded_by", created + 1)}]
     IN  Persist([Added(replacement) EXCEPT ![id] = superseded], tombstones, created + 1)

\* Two entries that contradict each other are disputed together.
dispute(authority, id, other) ==
  /\ id # other
  /\ Lifecycle(id) \notin Terminal /\ Lifecycle(other) \notin Terminal
  /\ Persist([entries EXCEPT
                ![id]    = [Moved(id, "disputed", authority, clock)
                              EXCEPT !.relations = @ \cup {Link("contradicts", other)}],
                ![other] = [Moved(other, "disputed", authority, clock)
                              EXCEPT !.relations = @ \cup {Link("contradicts", id)}]],
             tombstones, created)

\* retract, by any authority, and archive, by the manager or the owner
governedTransition(authority, id, lifecycle) ==
  /\ lifecycle = "archived" => authority \in {"manager", "owner"}
  /\ Lifecycle(id) \notin Terminal
  /\ Persist([entries EXCEPT ![id] = Moved(id, lifecycle, authority, clock)], tombstones, created)

\* An entry that refers to a deleted one loses the reference, in a transition
\* of its own that leaves its lifecycle alone.
Freed(entry, id, authority) ==
  LET links == {link \in entry.relations : link.id # id}
  IN  IF links = entry.relations /\ id \notin entry.derived THEN entry
      ELSE [transitionEntry(entry, Event(Status(entry).lifecycle, Status(entry).epistemic, clock, authority))
              EXCEPT !.relations = links, !.derived = @ \ {id}]

delete(authority, id) ==
  /\ authority \in {"manager", "owner"}
  /\ Cardinality(tombstones) < MaximumTombstones
  /\ Persist([other \in Ids \ {id} |-> Freed(entries[other], id, authority)],
             tombstones \cup {[id |-> id, key |-> entries[id].key]}, created)

\* Another program, or the disk, spoils the file.
spoil ==
  /\ damage = "none"
  /\ damage' = "present"
  /\ UNCHANGED <<entries, tombstones, created, clock>>

\* The owner or the server puts an unreadable file aside, and the memory begins anew;
\* one that can be read is never put aside.
quarantineMalformedState ==
  /\ damage = "present"
  /\ damage' = "mended"
  /\ entries' = <<>> /\ tombstones' = {} /\ created' = 0
  /\ UNCHANGED clock

tick ==
  /\ clock < MaxTime
  /\ clock' = clock + 1
  /\ UNCHANGED <<entries, tombstones, created, damage>>

\* Bound: a writer refers to one memory, in one way.
References ==
  {Reference({}, {})} \cup {Reference({id}, {}) : id \in Ids}
    \cup {Reference({}, {Link(type, id)}) : type \in LinkTypes, id \in Ids}

Next ==
  \/ \E content \in Contents, reference \in References, stamp \in Stamps :
       \/ \E reader \in Readers : propose(reader, content, reference, stamp)
       \/ \E key \in Keys : derive(key, content, reference, stamp)
  \/ \E authority \in Authorities, id \in Ids :
       \/ \E epistemic \in Granted(authority) :
            \/ promote(authority, id, epistemic)
            \/ \E content \in Contents, reference \in References, stamp \in Stamps :
                 supersede(authority, id, content, epistemic, reference, stamp)
       \/ \E other \in Ids : dispute(authority, id, other)
       \/ \E lifecycle \in {"retracted", "archived"} : governedTransition(authority, id, lifecycle)
       \/ delete(authority, id)
  \/ spoil \/ quarantineMalformedState \/ tick

Spec == Init /\ [][Next]_memoryVars

-----------------------------------------------------------------------------
(* Reading. *)

\* The entry as it was at a time; links are shown only if nothing changed since.
snapshotEntryAt(entry, at) ==
  LET past == SelectSeq(entry.transitions, LAMBDA event : event.at <= at)
  IN  [known |-> past # <<>>,
       historical |-> Len(past) < Len(entry.transitions),
       revision |-> Len(past),
       lifecycle |-> IF past = <<>> THEN None ELSE Last(past).lifecycle,
       epistemic |-> IF past = <<>> THEN None ELSE Last(past).epistemic,
       relations |-> IF Len(past) < Len(entry.transitions) THEN {} ELSE entry.relations]

isTemporallyValid(entry, at) ==
  entry.from <= at /\ (entry.until # None => at < entry.until)

canAccess(entry, reader) == reader \in entry.readers

\* What get, query, the manifest and the boot text show a reader, as of a time.
Visible(reader, at) ==
  {id \in Ids : /\ canAccess(entries[id], reader)
                /\ isTemporallyValid(entries[id], at)
                /\ snapshotEntryAt(entries[id], at).lifecycle \in Shown}

\* The links of an entry that its reader is warned of: an open contradiction, a
\* replacement, a known failure.  Links of other entries to it do not count.
buildRelationWarnings(id, reader, at) ==
  {link \in snapshotEntryAt(entries[id], at).relations :
     LET related   == entries[link.id]
         lifecycle == snapshotEntryAt(related, at).lifecycle
     IN  /\ canAccess(related, reader) /\ isTemporallyValid(related, at)
         /\ \/ link.type = "contradicts" /\ lifecycle \in Shown
            \/ link.type = "superseded_by" /\ lifecycle = "active"
            \/ link.type = "failed_under" /\ lifecycle # None}

-----------------------------------------------------------------------------
(* Properties. *)

TypeOK ==
  /\ Valid(entries, tombstones, created)
  /\ \A id \in Ids : \A k \in DOMAIN entries[id].transitions :
       /\ entries[id].transitions[k].lifecycle \in Lifecycles
       /\ entries[id].transitions[k].at \in 0 .. clock
  /\ created \in 0 .. MaxCreated /\ damage \in {"none", "present", "mended"} /\ clock \in 0 .. MaxTime

\* What an agent proposed counts as active only after a promotion by an authority
\* that its kind asks for, whatever disputes, deletions of related entries and
\* times came between; and no entry of an authoritative kind that is formatted
\* like a policy is ever active.
ActiveIsGoverned ==
  \A id \in Ids : Lifecycle(id) = "active" =>
    /\ entries[id].source = "agent" =>
         \E k \in DOMAIN entries[id].transitions :
           LET event == entries[id].transitions[k]
           IN  /\ event.authority \in Authorities /\ MayPromote(event.authority, entries[id].kind)
               /\ event.lifecycle = "active" /\ event.epistemic \in Granted(event.authority)
    /\ entries[id].kind \in Authoritative => ~entries[id].policy

\* Nobody is shown one side of a dispute that an authority opened as settled: a
\* reader who may see both sides, at any time, is warned of the other one, or told
\* that the entry is shown as of an earlier state without its links.  (A writer's
\* own links lead to older entries only, so that a link to a younger one is an
\* authority's.  What contradicts an older entry only in its writer's words warns
\* who reads it, and leaves the older one unmarked.)
DisputesShown ==
  \A id, other \in Ids :
    id < other /\ Link("contradicts", other) \in entries[id].relations =>
      \A reader \in Readers, at \in 0 .. clock :
        {id, other} \subseteq Visible(reader, at) =>
          /\ \/ Link("contradicts", other) \in buildRelationWarnings(id, reader, at)
             \/ snapshotEntryAt(entries[id], at).historical
          /\ \/ Link("contradicts", id) \in buildRelationWarnings(other, reader, at)
             \/ snapshotEntryAt(entries[other], at).historical

\* An entry that an authority replaced leads to what replaced it, until that is
\* deleted, and the two are never shown together, at any time.
SupersessionLinked ==
  \A id, other \in Ids :
    id < other /\ Link("superseded_by", other) \in entries[id].relations =>
      /\ Lifecycle(id) = "superseded" /\ Link("supersedes", id) \in entries[other].relations
      /\ \A reader \in Readers, at \in 0 .. clock : ~({id, other} \subseteq Visible(reader, at))

\* The past does not change: for a time that no waiting call can still be stamped
\* with, an entry is shown as it was before, for as long as it is not deleted, and
\* no entry appears.
HistoryKept ==
  \A at \in 0 .. clock - MaxWait - 1 :
    \A id \in DOMAIN entries' :
      LET then == snapshotEntryAt(entries'[id], at)
      IN  IF id \in Ids
          THEN LET now == snapshotEntryAt(entries[id], at)
               IN  /\ then.revision = now.revision
                   /\ then.lifecycle = now.lifecycle /\ then.epistemic = now.epistemic
          ELSE ~then.known

\* What was deleted stays deleted, until an unreadable file takes the tombstones
\* with it: it leaves its number and its idempotency key behind, no other entry is
\* given either, and nothing refers to it any more.
DeletedStays ==
  damage' = damage =>
    /\ \A id \in Ids \ DOMAIN entries' : [id |-> id, key |-> entries[id].key] \in tombstones'
    /\ tombstones \subseteq tombstones'
    /\ \A stone \in tombstones', id \in DOMAIN entries' :
         /\ id # stone.id /\ stone.id \notin Referred(entries'[id])
         /\ entries'[id].key = stone.key => stone.key = None
=============================================================================
