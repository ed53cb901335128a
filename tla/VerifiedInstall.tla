-------------------------- MODULE VerifiedInstall ---------------------------
(***************************************************************************)
(* Downloading the programs that hosting needs, cloudflared and Caddy,     *)
(* into PiLink's own directory (src/src/cli-core.ts).  What is downloaded  *)
(* is checked against a digest before it takes its place, and what is      *)
(* already there is checked again before it is used.                       *)
(*                                                                         *)
(* A source stands for its digest and for the program that comes from it.  *)
(* The digest of the program is known in advance for cloudflared and for   *)
(* PiLink's own choice of Caddy (Known); for another Caddy archive it is   *)
(* recorded beside the program, in a file of its own.  A configured or an  *)
(* installed program is used as it is and has no part in this.             *)
(***************************************************************************)
EXTENDS Integers, FiniteSets

CONSTANTS
  Installers,   \* the processes that need the program
  Sources,      \* where it can be downloaded from
  Known,        \* the sources whose program has a known digest
  Working,      \* the sources whose program runs on this machine
  None, Bad     \* no program; a program from nowhere in particular

VARIABLES
  program,      \* the file in PiLink's directory
  record,       \* the file beside it: the source and the program that were verified
  installers    \* each process: its source, its next step, the payload it fetched, what
                \* it ran, and the sources of those that were at work beside it

installVars == <<program, record, installers>>

InstallAssumption ==
  Known \subseteq Sources /\ Working \subseteq Sources /\ {None, Bad} \cap Sources = {}

Idle == [at |-> "idle", source |-> None, payload |-> None, ran |-> None, others |-> {}]

NoRecord == [source |-> None, program |-> None]

TypeOK ==
  /\ program \in Sources \cup {None, Bad}
  /\ record \in [source : Sources \cup {None}, program : Sources \cup {None}]
  /\ installers \in [Installers ->
       [at : {"idle", "look", "fetch", "verify", "remove", "place", "note", "check",
              "launch", "runs", "failed", "dead"},
        source : Sources \cup {None}, payload : Sources \cup {None, Bad},
        ran : Sources \cup {None, Bad}, others : SUBSET Sources]]

Init ==
  /\ program \in {None, Bad} /\ record = NoRecord
  /\ installers = [i \in Installers |-> Idle]

Busy == {i \in Installers : installers[i].at \notin {"idle", "runs", "failed", "dead"}}

Step(i, at) == installers' = [installers EXCEPT ![i].at = at]

-----------------------------------------------------------------------------
\* isVerifiedCaddyCache, isVerifiedManagedFile
isVerified(source) ==
  IF source \in Known THEN program = source
  ELSE record.source = source /\ record.program = program

canRun == program \in Working

\* The source is PiLink's own or the one that the environment names.
Begin(i) ==
  /\ installers[i].at = "idle"
  /\ \E source \in Sources :
       installers' = [j \in Installers |->
         IF j = i THEN [Idle EXCEPT !.at = "look", !.source = source,
                                    !.others = {installers[b].source : b \in Busy}]
         ELSE IF j \in Busy THEN [installers[j] EXCEPT !.others = @ \cup {source}]
         ELSE installers[j]]
  /\ UNCHANGED <<program, record>>

Look(i) ==
  /\ installers[i].at = "look"
  /\ Step(i, IF isVerified(installers[i].source) /\ canRun THEN "launch" ELSE "fetch")
  /\ UNCHANGED <<program, record>>

\* fetchVerifiedDownload, into a directory of its own: the download fails, or
\* brings the program or something else.
Fetch(i) ==
  /\ installers[i].at = "fetch"
  /\ \/ Step(i, "failed")
     \/ \E payload \in {installers[i].source, Bad} :
          installers' = [installers EXCEPT ![i].at = "verify", ![i].payload = payload]
  /\ UNCHANGED <<program, record>>

matches(i) == installers[i].payload = installers[i].source

\* The digest of what was downloaded (and, for Caddy, extracted).
Verify(i) ==
  /\ installers[i].at = "verify"
  /\ Step(i, IF matches(i) THEN "remove" ELSE "failed")
  /\ UNCHANGED <<program, record>>

\* replaceManagedFile: the old program goes, then the new one comes.
Remove(i) ==
  /\ installers[i].at = "remove" /\ Step(i, "place")
  /\ program' = None
  /\ UNCHANGED record

Place(i) ==
  /\ installers[i].at = "place" /\ Step(i, "note")
  /\ program' = installers[i].payload
  /\ UNCHANGED record

\* The record of a source that needs one, or the end of the record of another.
Note(i) ==
  /\ installers[i].at = "note" /\ Step(i, "check")
  /\ record' = IF installers[i].source \in Known THEN NoRecord
               ELSE [source |-> installers[i].source, program |-> installers[i].payload]
  /\ UNCHANGED program

\* What is installed is checked as if it had been found, and goes if it is no use.
Check(i) ==
  LET fine == isVerified(installers[i].source) /\ canRun IN
  /\ installers[i].at = "check"
  /\ Step(i, IF fine THEN "launch" ELSE "failed")
  /\ program' = IF fine THEN program ELSE None
  /\ record' = IF fine THEN record ELSE NoRecord

\* The program is started by its path.
Launch(i) ==
  /\ installers[i].at = "launch"
  /\ installers' = [installers EXCEPT ![i].at = IF program = None THEN "failed" ELSE "runs",
                                      ![i].ran = program]
  /\ UNCHANGED <<program, record>>

Die(i) ==
  /\ i \in Busy /\ Step(i, "dead")
  /\ UNCHANGED <<program, record>>

\* The next launch of PiLink.
Restart(i) ==
  /\ installers[i].at \in {"runs", "failed", "dead"}
  /\ installers' = [installers EXCEPT ![i] = Idle]
  /\ UNCHANGED <<program, record>>

Next ==
  \E i \in Installers :
    \/ Begin(i) \/ Look(i) \/ Fetch(i) \/ Verify(i) \/ Remove(i) \/ Place(i)
    \/ Note(i) \/ Check(i) \/ Launch(i) \/ Die(i) \/ Restart(i)

InstallSpec == Init /\ [][Next]_installVars

-----------------------------------------------------------------------------
(* Properties. *)

\* A launch runs the program that its source stands for, whatever was there before
\* and wherever installations were cut off, or that of a launch beside it: a program
\* is started by its name, later than it was checked.
RunsWhatWasVerified ==
  \A i \in Installers :
    installers[i].ran \in {None, installers[i].source} \cup installers[i].others

\* A program that a launch has checked is there when it is started, unless another
\* launch replaces or rejects it meanwhile.
ReadyIsThere ==
  \A i \in Installers :
    installers[i].at = "launch" => program # None \/ installers[i].others # {}
=============================================================================
