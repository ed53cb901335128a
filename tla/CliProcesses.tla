---------------------------- MODULE CliProcesses ----------------------------
(***************************************************************************)
(* The processes of one `pilink start` (src/src/cli-core.ts): the command  *)
(* line starts an edge (cloudflared or Caddy), the server and, when        *)
(* ChatGPT has connected, the chat client.  Each of them may end at any    *)
(* time; the command line passes the end on to the others and ends with    *)
(* the last of them.                                                       *)
(*                                                                         *)
(* The end of a process and what it wrote are separate events: output that *)
(* a process wrote may be read after the event of its end.                 *)
(***************************************************************************)
EXTENDS Naturals

VARIABLES
  hosting,    \* the hosting mode
  cli,        \* "running", "ended" (nothing was left to do) or "killed"
  edge,       \* the edge's process
  server,     \* the server's process; "struck" is ended by a signal, without an exit code
  chat,       \* the chat client's process
  signalled,  \* the processes that were told to end
  url,        \* the Quick Tunnel's address: "none", "written" or "read"
  events,     \* what is known of the server and the certificate: "unknown", "yes", "no"
  setup,      \* runFirstTimeSetup
  mappings,   \* the router's port mappings
  handlers,   \* the signals whose handler has not been used up
  late        \* (history) what was started after the end of what it belongs to

cliVars == <<hosting, cli, edge, server, chat, signalled, url, events, setup, mappings,
             handlers, late>>

Signals == {"SIGINT", "SIGTERM"}
Unknown == [ready |-> "unknown", connected |-> "unknown", certificate |-> "unknown"]

Alive(process) == process = "running"
Processes == [edge |-> edge, server |-> server, chat |-> chat]
Settle(event, value) == [events EXCEPT ![event] = IF @ = "unknown" THEN value ELSE @]

\* startCloudflareNamed and serve start the server at once, startNipIo when Caddy
\* has been started, startQuickTunnel when the address of the tunnel is known.  A
\* configuration that startServer refuses leaves the edge without a server.
Init ==
  /\ hosting \in {"serve", "cloudflare-fixed", "quick-tunnel", "nip-io"}
  /\ cli = "running" /\ chat = "none" /\ signalled = {} /\ url = "none"
  /\ events = Unknown /\ setup = "none" /\ late = {}
  /\ edge = IF hosting \in {"cloudflare-fixed", "quick-tunnel"} THEN "running" ELSE "none"
  /\ server \in CASE hosting = "serve" -> {"running"}
                   [] hosting = "cloudflare-fixed" -> {"running", "none"}
                   [] OTHER -> {"none"}
  /\ mappings \in IF hosting = "nip-io" THEN {"none", "active"} ELSE {"none"}
  /\ handlers = IF server = "running" THEN Signals ELSE {}

-----------------------------------------------------------------------------
(* Start of the server. *)

\* startServer installs the handlers of both signals.
StartServer == server' = "running" /\ handlers' = Signals /\ UNCHANGED cli

\* It throws on a configuration that it refuses; nobody listens for the error of a
\* program that cannot be spawned, which ends the command line.
NoServer(lost) == cli' \in lost \union {"killed"} /\ UNCHANGED <<server, handlers>>

\* startCaddy: Caddy runs, or the mappings are released and nothing is started.  The
\* mappings of a Caddy whose server does not start are nobody's.
StartCaddy ==
  /\ hosting = "nip-io" /\ edge = "none" /\ cli = "running"
  /\ \/ edge' = "running" /\ (StartServer \/ NoServer({"running"})) /\ UNCHANGED mappings
     \/ edge' = "ended" /\ mappings' = "none" /\ UNCHANGED <<cli, server, handlers>>
  /\ UNCHANGED <<hosting, chat, signalled, url, events, setup, late>>

WriteUrl ==
  /\ hosting = "quick-tunnel" /\ Alive(edge) /\ url = "none" /\ url' = "written"
  /\ UNCHANGED <<hosting, cli, edge, server, chat, signalled, events, setup, mappings, handlers, late>>

\* discoverUrl: it does not ask whether the tunnel still runs, and nobody catches
\* what startServer throws here.
DiscoverUrl ==
  /\ url = "written" /\ cli = "running" /\ url' = "read"
  /\ \/ StartServer /\ late' = IF Alive(edge) THEN late ELSE late \union {"server"}
     \/ NoServer({}) /\ UNCHANGED late
  /\ UNCHANGED <<hosting, edge, chat, signalled, events, setup, mappings>>

-----------------------------------------------------------------------------
(* The ends of the processes. *)

\* A signal is not sent, and killed not set, where there is no process any more.
Tell(processes) == signalled' = signalled \union {p \in processes : Alive(Processes[p])}

\* Mutant: the end of the edge is only reported.
Mutant_EdgeEnds == UNCHANGED signalled

\* The edge's "exit" handler tells the server, if there is one.
EdgeEnds == Tell({"server"})

\* The handler of startNipIo, which releases the mappings, is installed after the
\* server has been started.
EdgeExit ==
  /\ Alive(edge) /\ edge' = "ended" /\ EdgeEnds
  /\ mappings' = IF server = "none" THEN mappings ELSE "none"
  /\ events' = Settle("certificate", "no")
  /\ UNCHANGED <<hosting, cli, server, chat, url, setup, handlers, late>>

ServerExit ==
  /\ Alive(server) /\ server' \in {"ended", "struck"}
  /\ Tell({"edge", "chat"})
  /\ events' = [Settle("ready", "no") EXCEPT !.connected = IF @ = "unknown" THEN "no" ELSE @]
  /\ UNCHANGED <<hosting, cli, edge, chat, url, setup, mappings, handlers, late>>

\* finish: the chat client ends the server, unless it was told already.
ChatExit ==
  /\ Alive(chat) /\ chat' = "ended" /\ Tell({"server"})
  /\ UNCHANGED <<hosting, cli, edge, server, url, events, setup, mappings, handlers, late>>

\* Nothing is left that keeps the command line running.
CliExit ==
  /\ cli = "running" /\ ~Alive(edge) /\ ~Alive(server) /\ ~Alive(chat) /\ url # "written"
  /\ hosting = "nip-io" => edge # "none"
  /\ setup # "asking"
  /\ cli' = "ended"
  /\ UNCHANGED <<hosting, edge, server, chat, signalled, url, events, setup, mappings, handlers, late>>

\* A signal reaches the command line; its handler serves once, and without one the
\* command line dies.
Signal(s) ==
  /\ cli = "running"
  /\ \/ /\ s \in handlers /\ handlers' = handlers \ {s} /\ mappings' = "none"
        /\ Tell({"server", "edge", "chat"}) /\ UNCHANGED cli
     \/ /\ s \notin handlers /\ cli' = "killed" /\ UNCHANGED <<handlers, mappings, signalled>>
  /\ UNCHANGED <<hosting, edge, server, chat, url, events, setup, late>>

-----------------------------------------------------------------------------
(* The way to the chat client. *)

\* "ready" and "mcp-connected" are read from a pipe, possibly after the end.
ServerReports(event) ==
  /\ server # "none"
  /\ event = "connected" => events.ready = "yes"
  /\ events[event] = "unknown" /\ events' = Settle(event, "yes")
  /\ UNCHANGED <<hosting, cli, edge, server, chat, signalled, url, setup, mappings, handlers, late>>

\* Caddy obtained a certificate, or an old one still serves.
Certificate ==
  /\ hosting = "nip-io" /\ Alive(edge) /\ events.certificate = "unknown"
  /\ events' = Settle("certificate", "yes")
  /\ UNCHANGED <<hosting, cli, edge, server, chat, signalled, url, setup, mappings, handlers, late>>

\* publicReady: for nip-io the certificate is waited for too.
PublicReady ==
  IF hosting = "nip-io"
  THEN CASE "unknown" \in {events.ready, events.certificate} -> "unknown"
         [] {events.ready, events.certificate} = {"yes"} /\ Alive(edge) -> "yes"
         [] OTHER -> "no"
  ELSE events.ready

\* runFirstTimeSetup asks the owner; without a ready server there is no setup.
Setup ==
  /\ hosting # "serve"
  /\ \/ /\ setup = "none" /\ PublicReady # "unknown"
        /\ setup' = IF PublicReady = "yes" THEN "asking" ELSE "done"
     \/ setup = "asking" /\ setup' = "done"
  /\ UNCHANGED <<hosting, cli, edge, server, chat, signalled, url, events, mappings, handlers, late>>

\* armChatCliAutoLaunch asks for an exit code and for a signal of the command line's
\* own; the end of a server that has ended already is told to nobody.
LaunchChat ==
  /\ cli = "running" /\ chat = "none"
  /\ hosting = "serve" \/ setup = "done"
  /\ events.connected = "yes" /\ server # "ended" /\ "server" \notin signalled
  /\ chat' = "running" /\ late' = IF Alive(server) THEN late ELSE late \union {"chat"}
  /\ UNCHANGED <<hosting, cli, edge, server, signalled, url, events, setup, mappings, handlers>>

-----------------------------------------------------------------------------
Next ==
  \/ StartCaddy \/ WriteUrl \/ DiscoverUrl \/ EdgeExit \/ ServerExit \/ ChatExit \/ CliExit
  \/ \E s \in Signals : Signal(s)
  \/ \E event \in {"ready", "connected"} : ServerReports(event)
  \/ Certificate \/ Setup \/ LaunchChat

Spec == Init /\ [][Next]_cliVars

-----------------------------------------------------------------------------
(* Properties. *)

TypeOK ==
  /\ cli \in {"running", "ended", "killed"} /\ signalled \subseteq DOMAIN Processes
  /\ {edge, chat} \subseteq {"none", "running", "ended"}
  /\ server \in {"none", "running", "ended", "struck"} /\ late \subseteq {"server", "chat"}
  /\ setup \in {"none", "asking", "done"} /\ mappings \in {"none", "active"}

\* While the command line lives, what ends is followed by the others: they have
\* ended or were told to.  (A tunnel's address that is read after the end of the
\* tunnel starts a server all the same; so does a server that was struck down by
\* somebody else's signal, and only such a one, the chat client.)
EndsTogether ==
  cli = "running" =>
    /\ edge = "ended" /\ Alive(server) => "server" \in signalled \union late
    /\ server \in {"ended", "struck"} =>
         \A p \in {"edge", "chat"} : Alive(Processes[p]) => p \in signalled \union late
    /\ chat = "ended" /\ Alive(server) => "server" \in signalled
    /\ "chat" \in late => server = "struck"

\* The router's mappings do not outlive a command line that was not killed, but for
\* one whose server could not be started.
MappingsReleased == cli = "ended" => mappings = "none" \/ server = "none"

\* A killed command line leaves no process behind that was not told to end, but
\* for an edge whose server was not started.
LeftBehind ==
  cli = "killed" =>
    /\ Alive(server) => "server" \in signalled
    /\ Alive(edge) /\ server # "none" => "edge" \in signalled

=============================================================================
