------------------------------- MODULE CliLinks -------------------------------
(***************************************************************************)
(* The commands that a source build puts on the PATH                       *)
(* (src/src/ensure-cli-link.ts).  Every build of a checkout looks for a    *)
(* directory of its user, and writes there one launcher per command,       *)
(* without a lock.  A command that PiLink did not write stays as it is.    *)
(*                                                                         *)
(* The text of a launcher stands for the checkout that it starts.  A       *)
(* launcher that is being written, or whose writer died, is "torn": it     *)
(* does not begin with PiLink's marker.                                    *)
(***************************************************************************)
EXTENDS Integers, Sequences, SequencesExt

CONSTANTS
  Builds, Checkouts,  \* the builds, and the checkouts they build
  Commands,           \* the commands in the order in which they are linked
  Search,             \* the directories of the PATH, in its order
  Preferred,          \* those to be tried first: ~/.local/bin, ~/bin, that of Node.js
  MaxChanges          \* bound: what the user changes in the directories

VARIABLES
  posix,      \* FALSE: Windows
  targets,    \* the commands whose program each checkout has built
  writable,   \* the directories inside the home directory that can be written
  links,      \* the file of each command in each directory
  builds,     \* each build: its checkout, directory, next command and step, what it
              \* reported, and the commands that others changed since it looked at them
  changes     \* what the user changed

linkVars == <<posix, targets, writable, links, builds, changes>>

Directories == ToSet(Search)
Names == ToSet(Commands)

CliLinksAssumption ==
  /\ Search \in Seq(Directories)
  /\ Preferred \in Seq(Directories) \* the others are filtered out
  /\ Commands \in Seq(Names) \ {<<>>} /\ MaxChanges \in Nat
  /\ \A m, n \in DOMAIN Commands : Commands[m] = Commands[n] => m = n

File(kind, checkout) == [kind |-> kind, checkout |-> checkout]

NoFile   == File("none", "none")
Foreign  == File("foreign", "none")
Torn     == File("torn", "none")
Launchers == {File("launcher", o) : o \in Checkouts}
Symlinks  == {File("symlink", o) : o \in Checkouts}  \* of earlier versions of PiLink

Idle == [at |-> "idle", checkout |-> "none", dir |-> "none", next |-> 1,
         told |-> [c \in Names |-> "none"], crossed |-> {}]

Name(b) == Commands[builds[b].next]
Found(b) == links[builds[b].dir][Name(b)]

TypeOK ==
  /\ posix \in BOOLEAN /\ targets \in [Checkouts -> SUBSET Names]
  /\ writable \subseteq Directories /\ changes \in 0..MaxChanges
  /\ links \in [Directories -> [Names -> {NoFile, Foreign, Torn} \cup Launchers \cup Symlinks]]
  /\ builds \in [Builds ->
       [at : {"idle", "look", "unlink", "open", "fill", "done", "skipped", "dead"},
        checkout : Checkouts \cup {"none"}, dir : Directories \cup {"none"},
        next : 1..Len(Commands) + 1,
        told : [Names -> {"none", "linked", "already linked", "conflict"}],
        crossed : SUBSET Names]]

Init ==
  /\ posix \in BOOLEAN /\ targets \in [Checkouts -> {Names, {Commands[1]}}]
  /\ writable = Directories /\ changes = 0 /\ builds = [b \in Builds |-> Idle]
  /\ \E f \in {NoFile, Foreign} \cup (IF posix THEN Symlinks ELSE {}) :
       links = [d \in Directories |-> [c \in Names |->
                  IF d = Search[1] /\ c = Commands[1] THEN f ELSE NoFile]]

-----------------------------------------------------------------------------
First(numbers) == CHOOSE n \in numbers : \A m \in numbers : n <= m

\* selectCliBinDirectory: the first directory that is inside the home directory,
\* exists and can be written.
Candidates == Preferred \o Search
Usable == {n \in DOMAIN Candidates : Candidates[n] \in writable}

\* isOwnedPosixLauncher and the marker of the Windows shim.
isOwned(f) == f \in Launchers

\* isMigratablePiLinkSymlink: only of this checkout, and only for the first command.
\* Mutant: whatever stands in the place of the first command is replaced.
Mutant_isMigratable(f, c, o) == c = Commands[1] /\ f \notin Launchers

isMigratable(f, c, o) == c = Commands[1] /\ f = File("symlink", o)

\* The file of a command changes under the builds that work in that directory.
Crossed(others, dir, c) ==
  [a \in Builds |->
     IF a \in others /\ builds[a].dir = dir THEN [builds[a] EXCEPT !.crossed = @ \cup {c}]
     ELSE builds[a]]

\* The next command that has a program, or the end.
Advanced(r, c, told) ==
  LET later == {n \in r.next + 1..Len(Commands) : Commands[n] \in targets[r.checkout]}
  IN [r EXCEPT !.told[c] = told,
               !.next = IF later = {} THEN Len(Commands) + 1 ELSE First(later),
               !.at = IF later = {} THEN "done" ELSE "look"]

Step(b, at) == builds' = [builds EXCEPT ![b].at = at]

\* ensureCliLink
Begin(b) ==
  /\ builds[b].at = "idle"
  /\ \E o \in Checkouts :
       builds' = [builds EXCEPT ![b] =
         IF Usable = {} THEN [Idle EXCEPT !.at = "skipped", !.checkout = o]
         ELSE [Idle EXCEPT !.at = "look", !.checkout = o, !.dir = Candidates[First(Usable)]]]
  /\ UNCHANGED <<posix, targets, writable, links, changes>>

\* What is there decides, before anything is written.
ensurePosixLauncher(r, f, c) ==
  IF f = NoFile \/ (isOwned(f) /\ f # File("launcher", r.checkout)) THEN [r EXCEPT !.at = "open"]
  ELSE IF isOwned(f) THEN Advanced(r, c, "already linked")
  ELSE IF isMigratable(f, c, r.checkout) THEN [r EXCEPT !.at = "unlink"]
  ELSE Advanced(r, c, "conflict")

ensureWindowsShim(r, f, c) ==
  IF f # NoFile /\ ~isOwned(f) THEN Advanced(r, c, "conflict")
  ELSE IF f = File("launcher", r.checkout) THEN Advanced(r, c, "already linked")
  ELSE [r EXCEPT !.at = "open"]

Look(b) ==
  LET c == Name(b)  seen == [builds[b] EXCEPT !.crossed = @ \ {c}] IN
  /\ builds[b].at = "look"
  /\ builds' = [builds EXCEPT ![b] = IF posix THEN ensurePosixLauncher(seen, Found(b), c)
                                     ELSE ensureWindowsShim(seen, Found(b), c)]
  /\ UNCHANGED <<posix, targets, writable, links, changes>>

Unlink(b) ==
  LET d == builds[b].dir  c == Name(b) IN
  /\ builds[b].at = "unlink"
  /\ \/ Found(b) = NoFile /\ Step(b, "dead") /\ links' = links
     \/ /\ Found(b) # NoFile
        /\ links' = [links EXCEPT ![d][c] = NoFile]
        /\ builds' = [Crossed(Builds \ {b}, d, c) EXCEPT ![b].at = "open"]
  /\ UNCHANGED <<posix, targets, writable, changes>>

\* writePosixLauncher: the file of that name is emptied, whatever it is by now, or
\* made; then it is filled.
Open(b) ==
  LET d == builds[b].dir  c == Name(b) IN
  /\ builds[b].at = "open"
  /\ \/ /\ d \in writable
        /\ links' = [links EXCEPT ![d][c] = Torn]
        /\ builds' = [Crossed(Builds \ {b}, d, c) EXCEPT ![b].at = "fill"]
     \/ d \notin writable /\ Step(b, "dead") /\ links' = links
  /\ UNCHANGED <<posix, targets, writable, changes>>

Fill(b) ==
  LET d == builds[b].dir  c == Name(b) IN
  /\ builds[b].at = "fill"
  /\ links' = IF isOwned(Found(b)) \/ Found(b) = Torn
              THEN [links EXCEPT ![d][c] = File("launcher", builds[b].checkout)] ELSE links
  /\ builds' = [Crossed(Builds \ {b}, d, c) EXCEPT ![b] = Advanced(builds[b], c, "linked")]
  /\ UNCHANGED <<posix, targets, writable, changes>>

\* The build is interrupted, or a file cannot be written.
Die(b) ==
  /\ builds[b].at \in {"look", "unlink", "open", "fill"} /\ Step(b, "dead")
  /\ UNCHANGED <<posix, targets, writable, links, changes>>

Again(b) ==
  /\ builds[b].at \in {"done", "skipped", "dead"}
  /\ builds' = [builds EXCEPT ![b] = Idle]
  /\ UNCHANGED <<posix, targets, writable, links, changes>>

\* The user installs a command of the same name, removes one, or opens or closes a
\* directory.
Change ==
  /\ changes < MaxChanges /\ changes' = changes + 1
  /\ \/ \E d \in Directories, c \in Names :
          /\ links' = [links EXCEPT ![d][c] = IF @ = NoFile THEN Foreign ELSE NoFile]
          /\ builds' = Crossed(Builds, d, c)
          /\ writable' = writable
     \/ \E d \in Directories :
          /\ writable' = IF d \in writable THEN writable \ {d} ELSE writable \cup {d}
          /\ UNCHANGED <<links, builds>>
  /\ UNCHANGED <<posix, targets>>

Next ==
  \/ \E b \in Builds :
       Begin(b) \/ Look(b) \/ Unlink(b) \/ Open(b) \/ Fill(b) \/ Die(b) \/ Again(b)
  \/ Change

CliLinksSpec == Init /\ [][Next]_linkVars

-----------------------------------------------------------------------------
(* Properties. *)

\* A build is never about to empty a command that PiLink did not write, unless it came
\* there after the build had looked: ensureCliLink has no lock against the user.
OthersCommandsKept ==
  \A b \in Builds :
    builds[b].at \in {"unlink", "open"} /\ Name(b) \notin builds[b].crossed => Found(b) # Foreign

\* What a build reports as linked starts its checkout, until another build or the user
\* changes that command.
LinkedStarts ==
  \A b \in Builds, c \in Names :
    /\ builds[b].told[c] \in {"linked", "already linked"}
    /\ c \notin builds[b].crossed
    => links[builds[b].dir][c] = File("launcher", builds[b].checkout)
=============================================================================
