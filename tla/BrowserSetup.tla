---------------------------- MODULE BrowserSetup ----------------------------
(***************************************************************************)
(* Setting up the browser extension that wakes the gateway                 *)
(* (src/src/llm-gateway-browser-setup.ts).  A setup stages the files of    *)
(* the extension, and a marker asks for a reload when files that a browser *)
(* may have loaded were changed; automatic wake is switched on once the    *)
(* extension was seen enabled or the operator says so.  The browser keeps  *)
(* running the files it loaded until it is told to reload.                 *)
(*                                                                         *)
(* A version of the extension is a number; the three staged files are two  *)
(* here, the first and the last to be written.  Setups run in processes of *)
(* their own and die anywhere.                                             *)
(***************************************************************************)
EXTENDS Integers, FiniteSets

CONSTANTS Setups, MaxVersion     \* setup processes; a bound on rebuilds and renames

VARIABLES
  passive,      \* whether the platform lets Preferences prove the extension (Linux)
  built,        \* the version this checkout builds
  staged,       \* the version of each staged file, 0 before the first
  marker,       \* .pilink-reload-required
  owner,        \* .pilink-source.json: the checkout that set the directory up
  wake,         \* PI_LLM_GATEWAY_AUTO_WAKE
  loaded,       \* the files the browser runs
  preferences,  \* whether the browser's Preferences say that the extension is enabled
  setups,       \* each setup: its next step, what it is for, and what it found
  unusual       \* what the setup cannot exclude

browserVars == <<passive, built, staged, marker, owner, wake, loaded, preferences, setups, unusual>>

BrowserAssumption == MaxVersion \in Nat \ {0}

StagedFiles == {"first", "last"}
NotLoaded   == [f \in StagedFiles |-> 0]
Idle        == [at |-> "idle", purpose |-> "offer", version |-> 0, changed |-> FALSE,
                reload |-> FALSE]

TypeOK ==
  /\ passive \in BOOLEAN /\ built \in 1 .. MaxVersion
  /\ staged \in [StagedFiles -> 0 .. MaxVersion] /\ loaded \in [StagedFiles -> 0 .. MaxVersion]
  /\ marker \in BOOLEAN /\ owner \in {"none", "this", "other"}
  /\ wake \in BOOLEAN /\ preferences \in BOOLEAN
  /\ setups \in [Setups -> [at : {"idle", "first", "last", "mark", "pause", "decide", "ask",
                                  "enable", "clear", "dead"},
                            purpose : {"offer", "enable", "launch"},
                            version : 0 .. MaxVersion, changed : BOOLEAN, reload : BOOLEAN]]
  /\ unusual \subseteq {"interrupted", "unchecked", "crossed"}

Init ==
  /\ passive \in BOOLEAN /\ built = 1 /\ staged = NotLoaded
  /\ marker = FALSE /\ owner \in {"none", "other"} /\ wake = FALSE
  /\ loaded = NotLoaded /\ preferences = FALSE
  /\ setups = [s \in Setups |-> Idle] /\ unusual = {}

Active == {s \in Setups : setups[s].at \notin {"idle", "dead"}}

Step(s, at) == setups' = [setups EXCEPT ![s].at = at]

-----------------------------------------------------------------------------
(* Outside a setup: the checkout, the operator and the browser. *)

Rebuild ==
  /\ built < MaxVersion /\ built' = built + 1
  /\ UNCHANGED <<passive, staged, marker, owner, wake, loaded, preferences, setups, unusual>>

\* Load unpacked, Reload, or a start of the browser.
Load ==
  /\ \A f \in StagedFiles : staged[f] # 0
  /\ loaded' = staged
  /\ UNCHANGED <<passive, built, staged, marker, owner, wake, preferences, setups, unusual>>

Disable ==
  /\ loaded' = NotLoaded
  /\ UNCHANGED <<passive, built, staged, marker, owner, wake, preferences, setups, unusual>>

\* The browser writes its state later than it changes it.
SavePreferences ==
  /\ preferences' = (loaded # NotLoaded)
  /\ UNCHANGED <<passive, built, staged, marker, owner, wake, loaded, setups, unusual>>

-----------------------------------------------------------------------------
(* A setup: runGatewayBrowserSetup, or the staging of an automatic launch. *)

\* The files differ, and a browser may have loaded them.
approvedChange ==
  /\ owner = "this" \/ \E f \in StagedFiles : staged[f] # 0
  /\ \E f \in StagedFiles : staged[f] # built

\* stageGatewayBrowserExtension refuses a directory of another checkout ...
Begin(s) ==
  /\ setups[s].at = "idle" /\ owner # "other"
  /\ \E purpose \in {"offer", "enable", "launch"} :
       setups' = [setups EXCEPT ![s] = [at |-> "first", purpose |-> purpose, version |-> built,
                                        changed |-> approvedChange, reload |-> FALSE]]
  /\ unusual' = unusual \cup (IF Active # {} THEN {"crossed"} ELSE {})
  /\ UNCHANGED <<passive, built, staged, marker, owner, wake, loaded, preferences>>

\* ... writes the files one after the other ...
WriteFirst(s) ==
  /\ setups[s].at = "first" /\ Step(s, "last")
  /\ staged' = [staged EXCEPT !["first"] = setups[s].version]
  /\ UNCHANGED <<passive, built, marker, owner, wake, loaded, preferences, unusual>>

WriteLast(s) ==
  /\ setups[s].at = "last" /\ Step(s, "mark")
  /\ staged' = [staged EXCEPT !["last"] = setups[s].version]
  /\ UNCHANGED <<passive, built, marker, owner, wake, loaded, preferences, unusual>>

\* ... and then the marker.
Mark(s) ==
  /\ setups[s].at = "mark"
  /\ marker' = (marker \/ setups[s].changed)
  /\ setups' = [setups EXCEPT ![s].at = "pause", ![s].reload = marker']
  /\ UNCHANGED <<passive, built, staged, owner, wake, loaded, preferences, unusual>>

\* pauseGatewayBrowserWake
paused(s) == wake /\ ~setups[s].reload

Pause(s) ==
  /\ setups[s].at = "pause"
  /\ wake' = paused(s)
  /\ Step(s, IF setups[s].purpose = "launch" THEN "idle" ELSE "decide")
  /\ UNCHANGED <<passive, built, staged, marker, owner, loaded, preferences, unusual>>

\* loadedGatewayBrowserExtension: the browser's Preferences name the directory.
detected == preferences

\* The extension is active, the operator vouches for it, or it has to be asked.
Decide(s) ==
  /\ setups[s].at = "decide"
  /\ \/ /\ setups[s].purpose = "enable" /\ Step(s, "enable")
        /\ unusual' = unusual \cup (IF loaded # staged THEN {"unchecked"} ELSE {})
     \/ /\ setups[s].purpose = "offer" /\ ~setups[s].reload /\ passive /\ detected
        /\ Step(s, "enable") /\ UNCHANGED unusual
     \/ /\ setups[s].purpose = "offer" /\ ~(~setups[s].reload /\ passive /\ detected)
        /\ Step(s, "ask") /\ UNCHANGED unusual
  /\ UNCHANGED <<passive, built, staged, marker, owner, wake, loaded, preferences>>

\* Skipped, without a terminal, or confirmed; on Linux the confirmation counts
\* once the extension is detected.
Ask(s) ==
  /\ setups[s].at = "ask"
  /\ \/ Step(s, "idle") /\ UNCHANGED unusual
     \/ /\ ~passive \/ detected
        /\ Step(s, "enable")
        /\ unusual' = unusual \cup (IF loaded # staged THEN {"unchecked"} ELSE {})
  /\ UNCHANGED <<passive, built, staged, marker, owner, wake, loaded, preferences>>

\* enableGatewayBrowserWake
Enable(s) ==
  /\ setups[s].at = "enable" /\ Step(s, "clear")
  /\ wake' = TRUE
  /\ UNCHANGED <<passive, built, staged, marker, owner, loaded, preferences, unusual>>

\* rememberGatewayBrowserExtensionSource, and the end of the request to reload.
Clear(s) ==
  /\ setups[s].at = "clear" /\ Step(s, "idle")
  /\ owner' = "this" /\ marker' = FALSE
  /\ UNCHANGED <<passive, built, staged, wake, loaded, preferences, unusual>>

\* What a setup leaves undone matters once it has changed files that are in use.
Die(s) ==
  /\ s \in Active /\ Step(s, "dead")
  /\ unusual' = unusual \cup
       (IF setups[s].changed /\ setups[s].at \in {"last", "mark", "pause"}
          THEN {"interrupted"} ELSE {})
  /\ UNCHANGED <<passive, built, staged, marker, owner, wake, loaded, preferences>>

Next ==
  \/ Rebuild \/ Load \/ Disable \/ SavePreferences
  \/ \E s \in Setups :
       \/ Begin(s) \/ WriteFirst(s) \/ WriteLast(s) \/ Mark(s) \/ Pause(s)
       \/ Decide(s) \/ Ask(s) \/ Enable(s) \/ Clear(s) \/ Die(s)

BrowserSpec == Init /\ [][Next]_browserVars

-----------------------------------------------------------------------------
(* Properties. *)

Outdated == loaded \notin {NotLoaded, staged}

\* Automatic wake is not left on with a browser that runs old files, unless a setup
\* died between changing the files and pausing the wake, an operator vouched for
\* files that were not loaded, or two setups overlapped.
WakesCurrent == wake /\ Outdated => Active # {} \/ unusual # {}

\* A browser that runs old files is told to reload, with the same exceptions.
OutdatedIsMarked == Outdated => marker \/ Active # {} \/ unusual # {}
=============================================================================
