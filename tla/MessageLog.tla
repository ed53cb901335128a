----------------------------- MODULE MessageLog -----------------------------
(***************************************************************************)
(* A bounded log whose entries carry consecutive cursors, and what a       *)
(* reader who keeps a cursor is given.  The project chat (src/src/         *)
(* chat.ts), the coordination channel, its audit (src/src/agents/          *)
(* coordination.ts) and the output of an agent are such logs.              *)
(***************************************************************************)
EXTENDS Integers, Sequences, SequencesExt

EmptyLog == [next |-> 1, entries |-> <<>>]

LastOf(seq, limit) ==
  IF Len(seq) > limit THEN SubSeq(seq, Len(seq) - limit + 1, Len(seq)) ELSE seq

\* The log with one more entry; the oldest go when there are more than `limit'.
Appended(log, content, limit) ==
  [next |-> log.next + 1,
   entries |-> LastOf(Append(log.entries, [cursor |-> log.next, content |-> content]), limit)]

Oldest(log) == IF log.entries = <<>> THEN 0 ELSE Head(log.entries).cursor
Latest(log) == IF log.entries = <<>> THEN 0 ELSE Last(log.entries).cursor

\* Mutant: one lost entry is not noticed.
Mutant_Gap(log, after) == log.entries # <<>> /\ after < Oldest(log) - 2

\* Entries after the reader's cursor are no longer there.
Gap(log, after) == log.entries # <<>> /\ after < Oldest(log) - 1

\* The entries after the cursor of a reader: cursors are consecutive, so what the
\* filter leaves are the last entries.
After(log, after) == LastOf(log.entries, Latest(log) - after)

\* A cursor beyond the log is an error.
Readable(log, after) == after <= Latest(log)

\* What the validation of a stored log asks of it.
Contiguous(log, limit) ==
  /\ Len(log.entries) <= limit
  /\ \A k \in DOMAIN log.entries : log.entries[k].cursor = log.next - Len(log.entries) + k - 1
  /\ log.entries = <<>> => log.next = 1
=============================================================================
