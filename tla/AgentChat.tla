------------------------------ MODULE AgentChat ------------------------------
(***************************************************************************)
(* The chat of a project (AgentChatStore and AgentChatBroker, src/src/     *)
(* chat.ts), as its tools use it (src/src/mcp-core.ts).                    *)
(*                                                                         *)
(* A process reads the file once and then works on its own copy; posts     *)
(* are written before they are acknowledged, one after the other within a  *)
(* process.  Nothing keeps two processes apart.  Authors, texts and the    *)
(* scopes of the callers are left out.                                     *)
(***************************************************************************)
EXTENDS MessageLog, FiniteSets, TLC

CONSTANTS
  Processes,
  Readers,      \* MCP connections that read, each by its own cursor
  NoState,      \* the process has not read the file
  HistoryLimit, \* AGENT_CHAT_HISTORY_LIMIT
  MaxPosts,     \* bound: posts ever tried
  MaxFaults     \* bound: failed writes and restarts

ChatAssumption ==
  /\ {HistoryLimit, MaxPosts} \subseteq Nat \ {0}
  /\ MaxFaults \in Nat

VARIABLES
  file,       \* the stored log and the version of its format
  cache,      \* sharedState.state of each process
  posts,      \* posts tried so far; each message is known by its number
  accepted,   \* the messages whose authors were told that they are posted
  readers,    \* what each reader knows
  subscribed, \* the readers that asked to be notified
  notices,    \* notifications under way: for whom, and up to which cursor
  faults

chatVars == <<file, cache, posts, accepted, readers, subscribed, notices, faults>>

NewReader == [after |-> -1,     \* its cursor; -1 before the first read
              got |-> {},       \* the messages that it was given
              missed |-> {}]    \* cursors that it was told are gone

Current == 3
Stored(log) == [version |-> Current, log |-> log]
Legacy == [version |-> 2, log |-> Appended(EmptyLog, 0, HistoryLimit)]

Message(entry) == <<entry.cursor, entry.content>>

TypeOK ==
  /\ file.version \in {2, 3} /\ Contiguous(file.log, HistoryLimit)
  /\ \A p \in Processes : cache[p] # NoState => Contiguous(cache[p], HistoryLimit)
  /\ posts \in 0 .. MaxPosts
  /\ accepted \subseteq (1 .. MaxPosts + 1) \X (0 .. MaxPosts)
  /\ subscribed \subseteq Readers
  /\ notices \subseteq Readers \X (1 .. MaxPosts + 1)
  /\ faults \in 0 .. MaxFaults

\* There may be no file yet, or one that an earlier version wrote.
Init ==
  /\ file \in {Stored(EmptyLog), Legacy}
  /\ cache = [p \in Processes |-> NoState]
  /\ posts = 0
  /\ accepted = {Message(file.log.entries[k]) : k \in DOMAIN file.log.entries}
  /\ readers = [r \in Readers |-> NewReader]
  /\ subscribed = {}
  /\ notices = {}
  /\ faults = 0

State(p) == IF cache[p] = NoState THEN file.log ELSE cache[p]

-----------------------------------------------------------------------------
(* The store. *)

\* The first use of the store by a process: a file of an earlier version is
\* written in the new one before it is used.
loadState(p) ==
  /\ cache[p] = NoState
  /\ cache' = [cache EXCEPT ![p] = file.log]
  /\ file' = Stored(file.log)
  /\ UNCHANGED <<posts, accepted, readers, subscribed, notices, faults>>

\* Everyone but the author is notified.
dispatch(r, cursor) == {<<other, cursor>> : other \in subscribed \ {r}}

\* The author may be a reader, who is then not notified of its own message.
post(p, r) ==
  /\ cache[p] # NoState
  /\ posts < MaxPosts
  /\ LET next == Appended(cache[p], posts + 1, HistoryLimit)
     IN  /\ file' = Stored(next)
         /\ cache' = [cache EXCEPT ![p] = next]
         /\ accepted' = accepted \cup {Message(Last(next.entries))}
         /\ notices' = notices \cup dispatch(r, cache[p].next)
  /\ posts' = posts + 1
  /\ UNCHANGED <<readers, subscribed, faults>>

\* The write fails, before or after the file has its new name; the copy of the
\* process stays as it was and the author is told of the failure.
postFails(p) ==
  /\ cache[p] # NoState
  /\ posts < MaxPosts /\ faults < MaxFaults
  /\ file' \in {file, Stored(Appended(cache[p], posts + 1, HistoryLimit))}
  /\ posts' = posts + 1
  /\ faults' = faults + 1
  /\ UNCHANGED <<cache, accepted, readers, subscribed, notices>>

restart(p) ==
  /\ faults < MaxFaults
  /\ cache[p] # NoState
  /\ cache' = [cache EXCEPT ![p] = NoState]
  /\ faults' = faults + 1
  /\ subscribed' = {} /\ notices' = {}
  /\ UNCHANGED <<file, posts, accepted, readers>>

\* All that is retained the first time, then what is newer than the cursor.
read(p, r) ==
  LET log == cache[p]
      after == readers[r].after
      given == After(log, after)
  IN  /\ log # NoState
      /\ Readable(log, after)
      /\ readers' = [readers EXCEPT ![r] =
           [after  |-> Latest(log),
            got    |-> @.got \cup {Message(given[k]) : k \in DOMAIN given},
            missed |-> @.missed \cup
              IF after = -1 THEN 1 .. (Oldest(log) - 1)
              ELSE IF Gap(log, after) THEN (after + 1) .. (Oldest(log) - 1) ELSE {}]]
      /\ UNCHANGED <<file, cache, posts, accepted, subscribed, notices, faults>>

-----------------------------------------------------------------------------
(* Subscriptions. *)

subscribe(r) ==
  /\ r \notin subscribed
  /\ subscribed' = subscribed \cup {r}
  /\ UNCHANGED <<file, cache, posts, accepted, readers, notices, faults>>

unsubscribe(r) ==
  /\ r \in subscribed
  /\ subscribed' = subscribed \ {r}
  /\ UNCHANGED <<file, cache, posts, accepted, readers, notices, faults>>

\* A listener is called later, and drops what its connection no longer wants.
notify(notice) ==
  /\ notice \in notices
  /\ notices' = notices \ {notice}
  /\ UNCHANGED <<file, cache, posts, accepted, readers, subscribed, faults>>

Next ==
  \/ \E p \in Processes :
       \/ loadState(p) \/ postFails(p) \/ restart(p)
       \/ \E r \in Readers : post(p, r) \/ read(p, r)
  \/ \E r \in Readers : subscribe(r) \/ unsubscribe(r)
  \/ \E notice \in notices : notify(notice)

Spec == Init /\ [][Next]_chatVars

-----------------------------------------------------------------------------
(* Properties. *)

\* A reader that passes next_cursor back as `after', and looks at `gap', misses
\* no message silently: each posted message up to its cursor is one that it was
\* given, or one whose place it was told is gone.  Failed writes and restarts do
\* not change that, and two messages never share a cursor.
NothingMissed ==
  /\ \A m, n \in accepted : m[1] = n[1] => m = n
  /\ \A r \in Readers : \A m \in accepted :
       m[1] <= readers[r].after => m \in readers[r].got \/ m[1] \in readers[r].missed

\* A reader's cursor never runs ahead of the log, which would make all its later
\* reads fail, and what a notification announces can be read.
CursorsUsable ==
  \A p \in Processes :
    /\ \A r \in Readers : readers[r].after <= Latest(State(p))
    /\ \A notice \in notices : notice[2] <= Latest(State(p))
=============================================================================
