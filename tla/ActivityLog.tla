---------------------------- MODULE ActivityLog ----------------------------
(***************************************************************************)
(* The activity log of a project (AgentActivityStore, src/src/activity.ts).*)
(* An append reads, extends and replaces the file under the store's lock   *)
(* (FileLock), so it is one step here, that may fail before or after the   *)
(* new file is in place.  Readers page through the file without the lock,  *)
(* each with a filter of its own.                                          *)
(***************************************************************************)
EXTENDS Integers, Sequences, SequencesExt

CONSTANTS
  Keys,         \* idempotency keys
  NoKey,        \* an event whose author gave none
  Kinds,        \* what the filters tell apart
  Readers,
  MaximumEvents,
  MaxPage,      \* bound: the limits that readers ask for
  MaxFailures   \* bound: appends that fail

ActivityAssumption ==
  /\ {MaximumEvents, MaxPage} \subseteq Nat \ {0}
  /\ MaxFailures \in Nat
  /\ NoKey \notin Keys

VARIABLES
  events,     \* the stored events; the cursor of an event is its place
  told,       \* what authors were told: the input and the cursor it got
  pages,      \* of each reader: its filter, cursor, events and the last answer
  failures

activityVars == <<events, told, pages, failures>>

\* `cause' is the cursor of an earlier event, or 0.
Inputs == [key : Keys \cup {NoKey}, kind : Kinds, cause : 0 .. MaximumEvents]

\* What the validation of a stored file asks of its events, and of them together.
validateStoredEvent(event) == event \in Inputs

ValidState(log) ==
  /\ Len(log) <= MaximumEvents
  /\ \A k \in DOMAIN log :
       /\ validateStoredEvent(log[k])
       /\ log[k].cause < k
       /\ \A m \in 1 .. k - 1 : log[m].key = log[k].key => log[k].key = NoKey

NewReader(filter) == [filter |-> filter, after |-> 0, got |-> <<>>, end |-> 0]

TypeOK ==
  /\ ValidState(events)
  /\ \A t \in told : t.input \in Inputs /\ t.cursor \in 1 .. MaximumEvents
  /\ \A r \in Readers : /\ pages[r].filter \subseteq Kinds
                        /\ {pages[r].after, pages[r].end} \subseteq 0 .. MaximumEvents
                        /\ pages[r].got \in Seq(1 .. MaximumEvents)
  /\ failures \in 0 .. MaxFailures

Init ==
  /\ events = <<>>
  /\ told = {}
  /\ pages \in [Readers -> {NewReader(filter) : filter \in (SUBSET Kinds) \ {{}}}]
  /\ failures = 0

-----------------------------------------------------------------------------

\* The event that an earlier call with the same key stored.
Existing(input) == {k \in DOMAIN events : input.key # NoKey /\ events[k].key = input.key}

CanStore(input) == input.cause <= Len(events) /\ Len(events) < MaximumEvents

\* A repeated key with another payload is refused, an equal one is answered with
\* the stored event.
append(input) ==
  /\ IF Existing(input) # {}
     THEN \E k \in Existing(input) : /\ events[k] = input
                                     /\ told' = told \cup {[input |-> input, cursor |-> k]}
                                     /\ UNCHANGED events
     ELSE /\ CanStore(input)
          /\ events' = Append(events, input)
          /\ told' = told \cup {[input |-> input, cursor |-> Len(events')]}
  /\ UNCHANGED <<pages, failures>>

\* The author is told of a failure although the file may have been replaced; or
\* the reply is lost, or the process dies.
appendFails(input) ==
  /\ failures < MaxFailures
  /\ Existing(input) = {} /\ CanStore(input)
  /\ events' \in {events, Append(events, input)}
  /\ failures' = failures + 1
  /\ UNCHANGED <<told, pages>>

Matching(filter, from) == {k \in DOMAIN events : k >= from /\ events[k].kind \in filter}

\* The first `limit' matching events after the cursor.
Page(filter, after, limit) ==
  LET matching == SetToSortSeq(Matching(filter, after + 1), <)
  IN  SubSeq(matching, 1, IF Len(matching) < limit THEN Len(matching) ELSE limit)

\* Mutant: a full page ends at the end of the log too.
Mutant_Scanned(after, page, limit) == IF after > Len(events) THEN after ELSE Len(events)

\* The cursor that a page ends with: its last event when the page is full, or
\* else the end of the log.
Scanned(after, page, limit) ==
  IF Len(page) = limit THEN Last(page) ELSE IF after > Len(events) THEN after ELSE Len(events)

\* `end' is the length of the log when the reader was last told that there is no
\* more, or 0.
list(r, limit) ==
  LET reader == pages[r]
      page == Page(reader.filter, reader.after, limit)
      scanned == Scanned(reader.after, page, limit)
  IN  /\ pages' = [pages EXCEPT ![r] =
                     [@ EXCEPT !.after = scanned, !.got = @ \o page,
                               !.end = IF Matching(reader.filter, scanned + 1) = {}
                                       THEN Len(events) ELSE 0]]
      /\ UNCHANGED <<events, told, failures>>

Next ==
  \/ \E input \in Inputs : append(input) \/ appendFails(input)
  \/ \E r \in Readers, limit \in 1 .. MaxPage : list(r, limit)

ActivitySpec == Init /\ [][Next]_activityVars

-----------------------------------------------------------------------------
(* Properties. *)

\* An author that repeats an append with the same key, after a failure or a lost
\* reply, is given the one event that its key has: no two answers for a key
\* differ, and what was answered is what is stored.
StoredOnce ==
  \A t \in told :
    /\ t.cursor \in DOMAIN events /\ events[t.cursor] = t.input
    /\ \A u \in told : t.input.key = u.input.key /\ t.input.key # NoKey => t = u

\* A reader that follows the cursors is given every event that matches its filter
\* exactly once and in order, while events are appended between its pages; and
\* when it is told that there is no more, it had all there was.
PagesComplete ==
  \A r \in Readers :
    LET reader == pages[r] IN
    /\ reader.got = SetToSortSeq({k \in Matching(reader.filter, 1) : k <= reader.after}, <)
    /\ \A k \in Matching(reader.filter, 1) : k <= reader.end => Contains(reader.got, k)
=============================================================================
