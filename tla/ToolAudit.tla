----------------------------- MODULE ToolAudit -----------------------------
(***************************************************************************)
(* The audit log of tool calls (ToolAuditLog, src/src/audit.ts): a file    *)
(* that grows line by line, moved to a second name when the next line      *)
(* would make it too long.  Appends and reads of a process follow one      *)
(* another; a failed write or the end of the process can leave part of a   *)
(* line behind, which the next line is then appended to.                   *)
(***************************************************************************)
EXTENDS Integers, Sequences, SequencesExt, FiniteSetsExt

CONSTANTS
  MaximumBytes, \* length at which the file is moved
  Sizes,        \* lengths of lines
  MaxEvents,    \* bound: events ever recorded
  MaxFaults     \* bound: writes that are cut short and crashes

AuditAssumption ==
  /\ {MaximumBytes, MaxEvents} \subseteq Nat \ {0}
  /\ Sizes \subseteq Nat \ {0} /\ MaxFaults \in Nat

VARIABLES
  active,    \* lines of tool-audit.jsonl
  rotated,   \* lines of tool-audit.1.jsonl
  step,      \* how far the rotation of an append has come, and for what length
  written,   \* every line ever written, in order
  recorded,  \* number of events so far; they are known by their numbers
  faults

auditVars == <<active, rotated, step, written, recorded, faults>>

\* `events' are the events whose text is on the line: more than one when a line
\* was appended to an unfinished one, which makes it unreadable.
Line(event, size) == [events |-> <<event>>, size |-> size, whole |-> TRUE]

Idle == <<"idle", 0>>

IsLine(line) ==
  /\ line.events \in Seq(1 .. MaxEvents) /\ line.size \in Nat /\ line.whole \in BOOLEAN

TypeOK ==
  /\ \A lines \in {active, rotated, written} : \A k \in DOMAIN lines : IsLine(lines[k])
  /\ step \in {Idle} \cup {"removed", "moved"} \X Sizes
  /\ recorded \in 0 .. MaxEvents /\ faults \in 0 .. MaxFaults

Init ==
  /\ active = <<>> /\ rotated = <<>> /\ written = <<>>
  /\ step = Idle
  /\ recorded = 0 /\ faults = 0

Bytes(lines) == FoldSeq(LAMBDA line, sum : line.size + sum, 0, lines)

\* The file after more text is written to its end.
Extended(lines, line) ==
  IF lines # <<>> /\ ~Last(lines).whole
  THEN Front(lines) \o <<[events |-> Last(lines).events \o line.events,
                          size |-> Last(lines).size + line.size, whole |-> line.whole]>>
  ELSE Append(lines, line)

-----------------------------------------------------------------------------

TooLong(size) == active # <<>> /\ Bytes(active) + size > MaximumBytes

\* append: make room in two file operations.
rotateRemove(size) ==
  /\ step = Idle /\ recorded < MaxEvents
  /\ TooLong(size)
  /\ rotated' = <<>>
  /\ step' = <<"removed", size>>
  /\ UNCHANGED <<active, written, recorded, faults>>

rotateRename ==
  /\ step[1] = "removed"
  /\ rotated' = active
  /\ active' = <<>>
  /\ step' = <<"moved", step[2]>>
  /\ UNCHANGED <<written, recorded, faults>>

MayWrite(size) == step = <<"moved", size>> \/ (step = Idle /\ ~TooLong(size))

append(size) ==
  /\ recorded < MaxEvents /\ MayWrite(size)
  /\ LET line == Line(recorded + 1, size)
     IN  /\ active' = Extended(active, line)
         /\ written' = IF active = <<>> THEN Append(written, line) ELSE Extended(written, line)
  /\ recorded' = recorded + 1
  /\ step' = Idle
  /\ UNCHANGED <<rotated, faults>>

\* Only part of the line is written: the disk is full, or the process dies.
appendCut(size) ==
  /\ recorded < MaxEvents /\ faults < MaxFaults /\ MayWrite(size)
  /\ LET line == [Line(recorded + 1, size) EXCEPT !.whole = FALSE]
     IN  /\ active' = Extended(active, line)
         /\ written' = IF active = <<>> THEN Append(written, line) ELSE Extended(written, line)
  /\ recorded' = recorded + 1
  /\ faults' = faults + 1
  /\ step' = Idle
  /\ UNCHANGED rotated

\* The process dies between the steps of a rotation.
crash ==
  /\ faults < MaxFaults
  /\ step # Idle
  /\ step' = Idle
  /\ faults' = faults + 1
  /\ UNCHANGED <<active, rotated, written, recorded>>

Next ==
  \/ rotateRename \/ crash
  \/ \E size \in Sizes : rotateRemove(size) \/ append(size) \/ appendCut(size)

AuditSpec == Init /\ [][Next]_auditVars

-----------------------------------------------------------------------------
(* Reading. *)

\* The events of the lines that can be read: a line that is not finished, or
\* that holds more than one event, is skipped.
parseRecentEvents(lines) ==
  LET good == SelectSeq(lines, LAMBDA line : line.whole /\ Len(line.events) = 1)
  IN  [k \in DOMAIN good |-> good[k].events[1]]

LastOf(seq, limit) == SubSeq(seq, IF Len(seq) > limit THEN Len(seq) - limit + 1 ELSE 1, Len(seq))

readRecent(limit) ==
  LET newest == LastOf(parseRecentEvents(active), limit)
  IN  LastOf(parseRecentEvents(rotated), limit - Len(newest)) \o newest

\* The lines, of those written last, that leave room for one more in a file.
Window ==
  LastOf(written, Max({k \in 0 .. Len(written) :
                         Bytes(LastOf(written, k)) <= MaximumBytes - Max(Sizes)}))

\* Whatever the rotations, the cut lines and the crashes between them, a reader is
\* given the events last written, as many as one file and one line less can hold,
\* in their order and with none left out but those on a damaged line.
NewestReadable ==
  \A limit \in 1 .. Len(parseRecentEvents(Window)) :
    readRecent(limit) = LastOf(parseRecentEvents(written), limit)
=============================================================================
