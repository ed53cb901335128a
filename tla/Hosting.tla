------------------------------ MODULE Hosting ------------------------------
(***************************************************************************)
(* `pilink hosting`: a named Cloudflare tunnel and the systemd units that  *)
(* run it (src/src/hosting/cloudflare.ts, systemd.ts, cli.ts), with an     *)
(* origin certificate.                                                     *)
(*                                                                         *)
(* A command inspects everything, plans, and then acts step by step on the *)
(* plan: files, the tunnel, two DNS records, units.  Each step may fail,   *)
(* the command may be killed between any two of them, and the operator or  *)
(* another tool may change what was planned on.  "open" is a file of       *)
(* PiLink's with the wrong mode, "foreign" what PiLink did not make.       *)
(***************************************************************************)
EXTENDS Naturals

CONSTANTS MaxCommands, MaxChanges \* bounds: commands, changes by others

HostingAssumption == {MaxCommands, MaxChanges} \subseteq Nat

VARIABLES
  files,     \* the state directory, the ingress configuration and the credentials
  tunnel,    \* there is a tunnel of the name
  dns,       \* the record of each hostname
  units,     \* the unit files
  loaded,    \* the units as systemd has read them
  services,  \* enabled, and what each running unit was started from
  command,
  standing,  \* (history) what somebody else's was ever put in a place
  history    \* (history) commands and changes, and what they could not undo

hostingVars == <<files, tunnel, dns, units, loaded, services, command, standing, history>>

Hostnames == {"mcp", "landing"}
Units == {"server", "tunnel"}
NoCommand == [kind |-> "none", at |-> "idle", actions |-> {}, dns |-> {}, units |-> {}]

Init ==
  /\ files = [directory |-> "missing", config |-> "missing", credentials |-> "missing"]
  /\ tunnel = FALSE /\ dns = [h \in Hostnames |-> "missing"]
  /\ units = [u \in Units |-> "missing"] /\ loaded = [u \in Units |-> "missing"]
  /\ services = [enabled |-> FALSE, running |-> [u \in Units |-> "missing"]]
  /\ command = NoCommand /\ standing = {}
  /\ history = [commands |-> 0, changes |-> 0, meddled |-> FALSE, unloaded |-> FALSE]

-----------------------------------------------------------------------------
(* Inspection and plans. *)

\* inspect: a record that exists while the tunnel does not is a conflict too.
Blocked ==
  \/ files.config = "foreign" \/ \E h \in Hostnames : dns[h] = "foreign"
  \/ ~tunnel /\ (files.credentials # "missing" \/ \E h \in Hostnames : dns[h] # "missing")

\* plan
Actions ==
  {a \in {"directory", "create-tunnel", "recover-credentials", "secure-credentials",
          "write-config", "secure-config"} :
    CASE a = "directory" -> files.directory # "secure"
      [] a = "create-tunnel" -> ~tunnel
      [] a = "recover-credentials" -> tunnel /\ files.credentials = "missing"
      [] a = "secure-credentials" -> files.credentials = "open"
      [] a = "write-config" -> files.config \in {"missing", "stale", "foreign"}
      [] a = "secure-config" -> files.config = "open"}

\* The records to create or to proxy, as they were found.
DnsActions == {a \in Hostnames \X {"missing", "unproxied"} : dns[a[1]] = a[2]}

Provisioned == ~Blocked /\ Actions = {} /\ DnsActions = {}

\* What is not PiLink's.
Foreign ==
  {p \in {<<"config", "config">>} \union ({"dns"} \X Hostnames) \union ({"unit"} \X Units) :
    "foreign" = CASE p[1] = "config" -> files.config
                  [] p[1] = "dns" -> dns[p[2]]
                  [] p[1] = "unit" -> units[p[2]]}

UnitsBlocked == \E u \in Units : units[u] = "foreign"
UnitActions == {u \in Units : units[u] # "current"}

-----------------------------------------------------------------------------
(* Commands. *)

Go(at) == command' = [command EXCEPT !.at = at]
End == command' = NoCommand

Begin(kind, at) ==
  /\ command = NoCommand /\ history.commands < MaxCommands
  /\ command' = [kind |-> kind, at |-> at, actions |-> Actions, dns |-> DnsActions,
                 units |-> UnitActions]
  /\ history' = [history EXCEPT !.commands = @ + 1]
  /\ UNCHANGED <<files, tunnel, dns, units, loaded, services, standing>>

BeginProvision == ~Blocked /\ ~Provisioned /\ Begin("provision", "directory")
BeginInstall == Provisioned /\ ~UnitsBlocked /\ UnitActions # {} /\ Begin("install", "replace")
BeginEnable == Provisioned /\ UnitActions = {} /\ ~services.enabled /\ Begin("enable", "systemctl")

\* start: a unit with the wrong mode has the right content.
BeginStart ==
  /\ Provisioned /\ \A u \in Units : units[u] \in {"current", "open"}
  /\ services.enabled /\ "missing" \in {services.running[u] : u \in Units}
  /\ Begin("start", "systemctl")

BeginStop ==
  /\ ~UnitsBlocked /\ \E u \in Units : services.running[u] # "missing"
  /\ Begin("stop", "systemctl")

BeginDisable == ~UnitsBlocked /\ services.enabled /\ Begin("disable", "systemctl")

\* The command is killed, or a step fails: what was done so far stays.
Interrupt ==
  /\ command # NoCommand /\ End
  /\ history' = [history EXCEPT !.unloaded = @ \/ "daemon-reload" \in command.actions]
  /\ UNCHANGED <<files, tunnel, dns, units, loaded, services, standing>>

-----------------------------------------------------------------------------
(* provision *)

EnsureDirectory ==
  /\ command.at = "directory" /\ files' = [files EXCEPT !.directory = "secure"] /\ Go("tunnel")
  /\ UNCHANGED <<tunnel, dns, units, loaded, services, standing, history>>

\* cloudflared makes the tunnel and writes the credentials, with its own mode; a
\* call that fails may have made the tunnel all the same.
CreateTunnel ==
  /\ command.at = "tunnel" /\ "create-tunnel" \in command.actions
  /\ \/ /\ ~tunnel /\ tunnel' = TRUE
        /\ \/ files' = [files EXCEPT !.credentials = "open"] /\ Go("credentials")
           \/ UNCHANGED files /\ End
     \/ tunnel /\ End /\ UNCHANGED <<files, tunnel>>
  /\ UNCHANGED <<dns, units, loaded, services, standing, history>>

RecoverCredentials ==
  /\ command.at = "tunnel" /\ "create-tunnel" \notin command.actions
  /\ files' = IF "recover-credentials" \in command.actions /\ files.credentials = "missing"
              THEN [files EXCEPT !.credentials = "open"] ELSE files
  /\ Go("credentials")
  /\ UNCHANGED <<tunnel, dns, units, loaded, services, standing, history>>

\* secureManagedFile
SecureCredentials ==
  /\ command.at = "credentials"
  /\ IF files.credentials = "missing" THEN End /\ UNCHANGED files
     ELSE Go("config") /\ files' = [files EXCEPT !.credentials = "secure"]
  /\ UNCHANGED <<tunnel, dns, units, loaded, services, standing, history>>

\* Mutant: the configuration is replaced whoever wrote it.
Mutant_MayReplace(file) == TRUE

\* atomicPrivateWrite and assertReplaceableManagedUnit look at the file again just
\* before they replace it (that the two are not one step is left out).
MayReplace(file) == file # "foreign"

WriteConfig ==
  /\ command.at = "config"
  /\ IF "write-config" \in command.actions
     THEN IF MayReplace(files.config)
          THEN files' = [files EXCEPT !.config = "current"] /\ Go("dns")
          ELSE UNCHANGED files /\ End
     ELSE /\ files' = IF "secure-config" \in command.actions /\ files.config = "open"
                      THEN [files EXCEPT !.config = "current"] ELSE files
          /\ Go("dns")
  /\ UNCHANGED <<tunnel, dns, units, loaded, services, standing, history>>

\* The record is inspected again: it is as planned, or it is right by now.  A
\* creation that fails is forgiven when the record is there after all.
RouteDns(a) ==
  /\ command.at = "dns" /\ a \in command.dns
  /\ IF dns[a[1]] \in {a[2], "matching"}
     THEN /\ dns' = [dns EXCEPT ![a[1]] = "matching"]
          /\ command' = [command EXCEPT !.dns = @ \ {a}]
     ELSE UNCHANGED dns /\ End
  /\ UNCHANGED <<files, tunnel, units, loaded, services, standing, history>>

InspectAgain ==
  /\ command.at = "dns" /\ command.dns = {} /\ End
  /\ UNCHANGED <<files, tunnel, dns, units, loaded, services, standing, history>>

-----------------------------------------------------------------------------
(* install, enable, start, stop, disable *)

\* applyUnitChanges: each unit is looked at again and replaced by a rename.
ReplaceUnit(u) ==
  /\ command.at = "replace" /\ u \in command.units
  /\ IF MayReplace(units[u])
     THEN /\ units' = [units EXCEPT ![u] = "current"]
          /\ command' = [command EXCEPT !.units = @ \ {u},
               !.actions = IF units[u] = "open" THEN @ ELSE @ \union {"daemon-reload"}]
          /\ UNCHANGED history
     ELSE /\ UNCHANGED units /\ End
          /\ history' = [history EXCEPT !.unloaded = @ \/ "daemon-reload" \in command.actions]
  /\ UNCHANGED <<files, tunnel, dns, loaded, services, standing>>

Replaced ==
  /\ command.at = "replace" /\ command.units = {}
  /\ IF "daemon-reload" \in command.actions THEN Go("daemon-reload") ELSE End
  /\ UNCHANGED <<files, tunnel, dns, units, loaded, services, standing, history>>

Reloaded == [u \in Units |-> IF units[u] = "open" THEN "current" ELSE units[u]]

DaemonReload ==
  /\ command.at = "daemon-reload" /\ loaded' = Reloaded /\ End
  /\ history' = [history EXCEPT !.unloaded = FALSE]
  /\ UNCHANGED <<files, tunnel, dns, units, services, standing>>

\* `systemctl --user enable` reads the units again.
Enable ==
  /\ command.kind = "enable" /\ End
  /\ services' = [services EXCEPT !.enabled = TRUE] /\ loaded' = Reloaded
  /\ history' = [history EXCEPT !.unloaded = FALSE]
  /\ UNCHANGED <<files, tunnel, dns, units, standing>>

\* The tunnel unit pulls in the server unit; each is started as it was read.
Start ==
  /\ command.kind = "start" /\ End
  /\ services' = [services EXCEPT !.running =
       [u \in Units |-> IF @[u] = "missing" THEN loaded[u] ELSE @[u]]]
  /\ UNCHANGED <<files, tunnel, dns, units, loaded, standing, history>>

Stop ==
  /\ command.kind = "stop" /\ End
  /\ services' = [services EXCEPT !.running = [u \in Units |-> "missing"]]
  /\ UNCHANGED <<files, tunnel, dns, units, loaded, standing, history>>

Disable ==
  /\ command.kind = "disable" /\ End /\ services' = [services EXCEPT !.enabled = FALSE]
  /\ UNCHANGED <<files, tunnel, dns, units, loaded, standing, history>>

-----------------------------------------------------------------------------
(* Others. *)

Change(meddled) ==
  /\ history.changes < MaxChanges
  /\ history' = [history EXCEPT !.changes = @ + 1, !.meddled = @ \/ meddled]
  /\ UNCHANGED <<loaded, services, command>>

\* The next commands are given other settings.
ChangeSettings ==
  /\ Change(FALSE) /\ command = NoCommand
  /\ files' = [files EXCEPT !.config = IF @ \in {"current", "open"} THEN "stale" ELSE @]
  /\ units' = [u \in Units |-> IF units[u] \in {"current", "open"} THEN "old" ELSE units[u]]
  /\ UNCHANGED <<tunnel, dns, standing>>

\* Modes are changed, a proxy is turned off, and credentials are removed.
Loosen ==
  /\ Change(FALSE)
  /\ \/ /\ files' \in {[files EXCEPT !.config = IF @ = "current" THEN "open" ELSE @],
                       [files EXCEPT !.credentials = IF @ = "secure" THEN "open" ELSE @],
                       IF tunnel THEN [files EXCEPT !.credentials = "missing"] ELSE files}
        /\ UNCHANGED <<dns, units>>
     \/ /\ \E h \in Hostnames : dns[h] = "matching" /\ dns' = [dns EXCEPT ![h] = "unproxied"]
        /\ UNCHANGED <<files, units>>
     \/ /\ \E u \in Units : units[u] = "current" /\ units' = [units EXCEPT ![u] = "open"]
        /\ UNCHANGED <<files, dns>>
  /\ UNCHANGED <<tunnel, standing>>

\* Something of somebody else's takes a place, or the tunnel is deleted.
Meddle ==
  /\ Change(TRUE)
  /\ \/ files' = [files EXCEPT !.config = "foreign"] /\ UNCHANGED <<tunnel, dns, units>>
     \/ \E h \in Hostnames : dns' = [dns EXCEPT ![h] = "foreign"] /\ UNCHANGED <<files, tunnel, units>>
     \/ \E u \in Units : units' = [units EXCEPT ![u] = "foreign"] /\ UNCHANGED <<files, tunnel, dns>>
     \/ tunnel' = FALSE /\ UNCHANGED <<files, dns, units>>
  /\ standing' = Foreign'

Next ==
  \/ BeginProvision \/ BeginInstall \/ BeginEnable \/ BeginStart \/ BeginStop \/ BeginDisable
  \/ Interrupt \/ EnsureDirectory \/ CreateTunnel \/ RecoverCredentials \/ SecureCredentials
  \/ WriteConfig \/ (\E a \in Hostnames \X {"missing", "unproxied"} : RouteDns(a)) \/ InspectAgain
  \/ (\E u \in Units : ReplaceUnit(u)) \/ Replaced \/ DaemonReload
  \/ Enable \/ Start \/ Stop \/ Disable
  \/ ChangeSettings \/ Loosen \/ Meddle

Spec == Init /\ [][Next]_hostingVars

-----------------------------------------------------------------------------
(* Properties. *)

TypeOK ==
  /\ files.directory \in {"missing", "secure"}
  /\ files.config \in {"missing", "foreign", "stale", "open", "current"}
  /\ files.credentials \in {"missing", "open", "secure"}
  /\ tunnel \in BOOLEAN /\ dns \in [Hostnames -> {"missing", "unproxied", "matching", "foreign"}]
  /\ units \in [Units -> {"missing", "foreign", "old", "open", "current"}]

\* What somebody else put in a place stays theirs, whatever a command had planned
\* (atomicPrivateWrite, createDnsIdempotently, assertReplaceableManagedUnit).
ForeignKept == standing \subseteq Foreign

\* No interrupted command leaves a state that blocks the next one: only others can.
NeverBlocksItself == history.meddled \/ ~(Blocked \/ UnitsBlocked)

\* systemd has read the units that are installed, unless an installation was
\* interrupted before it reloaded them.
LoadedAsInstalled ==
  \A u \in Units :
    units[u] = "current" /\ command.kind # "install" /\ ~history.unloaded => loaded[u] = "current"

=============================================================================
