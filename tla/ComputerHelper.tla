--------------------------- MODULE ComputerHelper ---------------------------
(***************************************************************************)
(* The helper process through which PiLink looks at and acts on a Wayland  *)
(* desktop (src/src/computer-wayland.ts).  Operations run one at a time; a *)
(* request and its reply carry a number.  A helper that was given up may   *)
(* still have output under way, and nothing tells its output from that of  *)
(* its successor.                                                          *)
(*                                                                         *)
(* Output is modelled line by line: a line is the number of the request it *)
(* answers, or Garbage (malformed or oversized), or NoId (an error that    *)
(* names no request).                                                      *)
(***************************************************************************)
EXTENDS Integers, Sequences, FiniteSets, FiniteSetsExt

CONSTANTS MaxOperations, MaxHelpers, MaxOddLines     \* bounds

VARIABLES
  operations,   \* each operation: its state, its request and whose answer it got
  helpers,      \* each helper process, with what it was sent and has written
  child,        \* the helper in use, or Nothing
  pending,      \* the request that waits for its answer, or Nothing
  nextId,
  oddLines,     \* how many unusable lines were written
  forgotten     \* the helpers that were forgotten because of a line that did not fit

helperVars == <<operations, helpers, child, pending, nextId, oddLines, forgotten>>

HelperAssumption == {MaxOperations, MaxHelpers, MaxOddLines} \subseteq Nat

Operations == 1 .. MaxOperations
Helpers    == 1 .. MaxHelpers
Nothing    == 0
Garbage    == -1
NoId       == -2

NoHelper == [at |-> "none", killed |-> FALSE, sent |-> <<>>, output |-> <<>>]

TypeOK ==
  /\ operations \in [Operations -> [at : {"new", "queued", "sent", "done", "failed"},
                                    id : 0 .. MaxOperations, answer : 0 .. MaxOperations]]
  /\ \A h \in Helpers :
       /\ helpers[h].at \in {"none", "running", "exited"} /\ helpers[h].killed \in BOOLEAN
       /\ helpers[h].sent \in Seq(Operations)
       /\ helpers[h].output \in Seq(Operations \cup {Garbage, NoId})
  /\ child \in Helpers \cup {Nothing} /\ pending \in 0 .. MaxOperations
  /\ nextId \in 1 .. MaxOperations + 1 /\ oddLines \in 0 .. MaxOddLines
  /\ forgotten \subseteq Helpers

Init ==
  /\ operations = [o \in Operations |-> [at |-> "new", id |-> 0, answer |-> 0]]
  /\ helpers = [h \in Helpers |-> NoHelper]
  /\ child = Nothing /\ pending = Nothing /\ nextId = 1 /\ oddLines = 0
  /\ forgotten = {}

-----------------------------------------------------------------------------
\* The operation whose request is pending comes to an end.
Settled(at, answer) ==
  [o \in Operations |->
     IF operations[o].at = "sent" /\ operations[o].id = pending
       THEN [operations[o] EXCEPT !.at = at, !.answer = answer] ELSE operations[o]]

Unfinished == {o \in Operations : operations[o].at \in {"queued", "sent"}}

\* serialized: an operation joins the queue ...
Submit(o) ==
  /\ operations[o].at = "new" /\ \A p \in 1 .. o - 1 : operations[p].at # "new"
  /\ operations' = [operations EXCEPT ![o].at = "queued"]
  /\ UNCHANGED <<helpers, child, pending, nextId, oddLines, forgotten>>

\* ensureHelper: the helper is kept unless PiLink saw it exit or killed it.
usable == child # Nothing /\ helpers[child].at = "running" /\ ~helpers[child].killed

Unstarted == {h \in Helpers : helpers[h].at = "none"}

\* ... and sends its request when those before it are over; a helper is started
\* first when there is none.  The write may fail: the helper stays in use.
Request(o) ==
  /\ operations[o].at = "queued" /\ o = Min(Unfinished)
  /\ \E h \in Helpers :
       /\ IF usable THEN h = child ELSE Unstarted # {} /\ h = Min(Unstarted)
       /\ child' = h /\ nextId' = nextId + 1
       /\ \/ /\ operations' = [operations EXCEPT ![o] = [@ EXCEPT !.at = "sent", !.id = nextId]]
             /\ helpers' = [helpers EXCEPT ![h].at = "running", ![h].sent = Append(@, nextId)]
             /\ pending' = nextId
          \/ /\ operations' = [operations EXCEPT ![o].at = "failed"]
             /\ helpers' = [helpers EXCEPT ![h].at = "running"]
             /\ UNCHANGED pending
  /\ UNCHANGED <<oddLines, forgotten>>

\* failHelper: the pending request fails and the helper is forgotten.
failHelper ==
  operations' = Settled("failed", 0) /\ pending' = Nothing /\ child' = Nothing

\* stopHelper
stopHelper(hs) ==
  IF child # Nothing /\ hs[child].at = "running" THEN [hs EXCEPT ![child].killed = TRUE] ELSE hs

\* The permission dialog may stay unanswered for longer than a request waits.
TimeOut ==
  /\ pending # Nothing
  /\ helpers' = stopHelper(helpers)
  /\ operations' = Settled("failed", 0) /\ pending' = Nothing /\ child' = Nothing
  /\ UNCHANGED <<nextId, oddLines, forgotten>>

\* The helper answers what it was sent, in order, or writes something unusable.
Answer(h) ==
  /\ helpers[h].at = "running" /\ helpers[h].sent # <<>>
  /\ helpers' = [helpers EXCEPT ![h].output = Append(@, Head(helpers[h].sent)),
                                ![h].sent = Tail(@)]
  /\ UNCHANGED <<operations, child, pending, nextId, oddLines, forgotten>>

WriteOddLine(h) ==
  /\ helpers[h].at = "running" /\ oddLines < MaxOddLines
  /\ \E line \in {Garbage, NoId} :
       helpers' = [helpers EXCEPT ![h].output = Append(@, line)]
  /\ oddLines' = oddLines + 1
  /\ UNCHANGED <<operations, child, pending, nextId, forgotten>>

\* Mutant: whatever arrives answers the request that waits.
Mutant_Answers(line) == pending # Nothing /\ line \notin {Garbage, NoId}

Answers(line) == pending # Nothing /\ line = pending

\* consumeStdout, for the output of any helper, in use or not.  A line that fits
\* no pending request ends the use of the current helper: it is forgotten before
\* it would be stopped, so it runs on.
Read(h) ==
  LET line == Head(helpers[h].output) IN
  /\ helpers[h].output # <<>>
  /\ helpers' = [helpers EXCEPT ![h].output = Tail(@)]
  /\ \/ /\ Answers(line)
        /\ operations' = Settled("done", line) /\ pending' = Nothing
        /\ UNCHANGED <<child, forgotten>>
     \/ /\ line = NoId /\ pending # Nothing
        /\ operations' = Settled("failed", 0) /\ pending' = Nothing
        /\ UNCHANGED <<child, forgotten>>
     \/ /\ ~Answers(line) /\ ~(line = NoId /\ pending # Nothing)
        /\ failHelper /\ forgotten' = forgotten \cup ({child} \ {Nothing})
  /\ UNCHANGED <<nextId, oddLines>>

\* Output that was written can still be read after the exit.
Exit(h) ==
  /\ helpers[h].at = "running"
  /\ helpers' = [helpers EXCEPT ![h].at = "exited", ![h].sent = <<>>]
  /\ IF child = h THEN failHelper ELSE UNCHANGED <<operations, pending, child>>
  /\ UNCHANGED <<nextId, oddLines, forgotten>>

Next ==
  \/ \E o \in Operations : Submit(o) \/ Request(o)
  \/ TimeOut
  \/ \E h \in Helpers : Answer(h) \/ WriteOddLine(h) \/ Read(h) \/ Exit(h)

ComputerHelperSpec == Init /\ [][Next]_helperVars

-----------------------------------------------------------------------------
(* Properties. *)

\* An operation that succeeds got the answer to its own request, however late the
\* answers to given-up requests arrive.
OwnAnswer ==
  \A o \in Operations : operations[o].at = "done" => operations[o].answer = operations[o].id

\* One operation waits for the desktop at a time, and it is the pending one.
OneAtATime ==
  /\ Cardinality({o \in Operations : operations[o].at = "sent"}) <= 1
  /\ \A o \in Operations : operations[o].at = "sent" => operations[o].id = pending

\* A helper that runs is in use or was told to end, whatever failed; only one that
\* was in use when a line did not fit is left to itself (see Read).
HelpersAccounted ==
  \A h \in Helpers :
    helpers[h].at = "running" => h = child \/ helpers[h].killed \/ h \in forgotten
=============================================================================
