---------------------------- MODULE FixedDomain ----------------------------
(***************************************************************************)
(* The fixed-domain tunnel that PiLink provisions through Cloudflare's API *)
(* (src/src/hosting/fixed-domain.ts) and the callers that save or expect   *)
(* its identity (cli-core.ts, llm-gateway-launch.ts).                      *)
(*                                                                         *)
(* A run is a series of requests to the API.  Any of them may fail before  *)
(* or after it took effect, two runs may overlap, and the domain's owner   *)
(* may have rules and records of their own.                                *)
(***************************************************************************)
EXTENDS Naturals

CONSTANTS Runs, MaxBegins, MaxChanges \* runs that may overlap; bounds

FixedDomainAssumption == {MaxBegins, MaxChanges} \subseteq Nat

VARIABLES
  remote,   \* the tunnel (0: none), its ingress and the DNS record of the hostname
  saved,    \* PI_CLOUDFLARE_TUNNEL_ID in the configuration
  token,    \* the tunnels whose token file exists
  runs,     \* provisionFixedDomainTunnel
  unrelated, \* (history) the ingress and the record that are the owner's own
  history

fixedDomainVars == <<remote, saved, token, runs, unrelated, history>>

NoTunnel == 0
Finished == [at |-> "finished", tunnel |-> NoTunnel, expected |-> FALSE, port |-> 0]
Ports == {1, 2}

\* The ingress of a tunnel: nothing, PiLink's rules for a port, or other rules.
Nothing == [kind |-> "none", port |-> 0]
Rules(port) == [kind |-> "pilink", port |-> port]
Other == [kind |-> "unrelated", port |-> 0]

\* The hostname's record: what it points to.
Record(kind, tunnel, proxied) == [kind |-> kind, tunnel |-> tunnel, proxied |-> proxied]
NoRecord == Record("none", NoTunnel, FALSE)

Init ==
  /\ remote \in {[tunnel |-> NoTunnel, made |-> 0, ingress |-> Nothing, dns |-> d] :
                 d \in {NoRecord, Record("unrelated", NoTunnel, FALSE)}}
  /\ saved = NoTunnel /\ token = {} /\ runs = [r \in Runs |-> Finished]
  /\ unrelated = [ingress |-> FALSE, dns |-> remote.dns.kind = "unrelated"]
  /\ history = [begins |-> 0, changes |-> 0, meddled |-> remote.dns # NoRecord]

Go(r, at) == runs' = [runs EXCEPT ![r].at = at]
Abort(r) == runs' = [runs EXCEPT ![r] = Finished]

\* The setup of the hosting provisions for the port it is given; a gateway that
\* moves to another port expects the tunnel that was saved.
Begin(r, expected, port) ==
  /\ runs[r].at = "finished" /\ history.begins < MaxBegins
  /\ expected => saved # NoTunnel
  /\ runs' = [runs EXCEPT ![r] = [at |-> "find", tunnel |-> NoTunnel, expected |-> expected, port |-> port]]
  /\ history' = [history EXCEPT !.begins = @ + 1]
  /\ UNCHANGED <<remote, saved, token, unrelated>>

\* findTunnel, and the refusal to replace an expected tunnel.
FindTunnel(r) ==
  /\ runs[r].at = "find"
  /\ IF runs[r].expected /\ remote.tunnel # saved THEN Abort(r)
     ELSE runs' = [runs EXCEPT ![r].tunnel = remote.tunnel,
            ![r].at = IF remote.tunnel = NoTunnel THEN "create" ELSE "configure"]
  /\ UNCHANGED <<remote, saved, token, unrelated, history>>

\* Cloudflare refuses a second tunnel of the same name.
CreateTunnel(r) ==
  /\ runs[r].at = "create"
  /\ IF remote.tunnel # NoTunnel THEN Abort(r) /\ UNCHANGED remote
     ELSE /\ remote' = [remote EXCEPT !.tunnel = remote.made + 1, !.made = @ + 1, !.ingress = Nothing]
          /\ runs' = [runs EXCEPT ![r].tunnel = remote.made + 1, ![r].at = "put"]
  /\ UNCHANGED <<saved, token, unrelated, history>>

\* Mutant: any rules of the tunnel are taken for PiLink's.
Mutant_isClaimable(ingress) == TRUE

\* isClaimableTunnelConfiguration: nothing, or one loopback rule for the hostname.
isClaimable(ingress) == ingress.kind # "unrelated"

\* getTunnelConfiguration
Configure(r) ==
  /\ runs[r].at = "configure"
  /\ IF remote.tunnel # runs[r].tunnel THEN Abort(r)
     ELSE IF remote.ingress = Rules(runs[r].port) THEN Go(r, "dns")
     ELSE IF isClaimable(remote.ingress) THEN Go(r, "put") ELSE Abort(r)
  /\ UNCHANGED <<remote, saved, token, unrelated, history>>

\* putTunnelConfiguration replaces whatever is there by now.
Put(r) ==
  /\ runs[r].at = "put"
  /\ IF remote.tunnel # runs[r].tunnel THEN Abort(r) /\ UNCHANGED remote
     ELSE remote' = [remote EXCEPT !.ingress = Rules(runs[r].port)] /\ Go(r, "dns")
  /\ UNCHANGED <<saved, token, unrelated, history>>

PointsTo(tunnel) == remote.dns.kind = "tunnel" /\ remote.dns.tunnel = tunnel

\* ensureDnsRecord: only a record of this tunnel is touched.
EnsureDns(r) ==
  /\ runs[r].at = "dns"
  /\ IF remote.dns = NoRecord \/ PointsTo(runs[r].tunnel)
     THEN remote' = [remote EXCEPT !.dns = Record("tunnel", runs[r].tunnel, TRUE)] /\ Go(r, "token")
     ELSE UNCHANGED remote /\ Abort(r)
  /\ UNCHANGED <<saved, token, unrelated, history>>

\* getTunnelToken and writeFixedDomainTokenFile
WriteToken(r) ==
  /\ runs[r].at = "token"
  /\ IF remote.tunnel # runs[r].tunnel THEN Abort(r) /\ UNCHANGED token
     ELSE token' = token \union {runs[r].tunnel} /\ Go(r, "save")
  /\ UNCHANGED <<remote, saved, unrelated, history>>

Save(r) ==
  /\ runs[r].at = "save" /\ Abort(r)
  /\ saved' = IF runs[r].expected THEN saved ELSE runs[r].tunnel
  /\ UNCHANGED <<remote, token, unrelated, history>>

\* A request fails, or its reply does not arrive; the process may be killed.
Fail(r) ==
  /\ runs[r].at # "finished" /\ Abort(r)
  /\ UNCHANGED <<remote, saved, token, unrelated, history>>

\* The owner of the domain acts between two runs.
Owner ==
  /\ history.changes < MaxChanges /\ \A r \in Runs : runs[r].at = "finished"
  /\ history' = [history EXCEPT !.changes = @ + 1, !.meddled = TRUE]
  /\ \/ /\ remote.tunnel # NoTunnel
        /\ \/ remote' = [remote EXCEPT !.ingress = Other] /\ unrelated' = [unrelated EXCEPT !.ingress = TRUE]
           \/ /\ remote' = [remote EXCEPT !.tunnel = NoTunnel, !.ingress = Nothing]
              /\ unrelated' = [unrelated EXCEPT !.ingress = FALSE]
     \/ /\ remote' = [remote EXCEPT !.dns = Record("unrelated", NoTunnel, FALSE)]
        /\ unrelated' = [unrelated EXCEPT !.dns = TRUE]
     \/ /\ remote.dns.kind = "tunnel" /\ remote' = [remote EXCEPT !.dns.proxied = FALSE]
        /\ UNCHANGED unrelated
  /\ UNCHANGED <<saved, token, runs>>

Next ==
  \/ \E r \in Runs :
       \/ \E expected \in BOOLEAN, port \in Ports : Begin(r, expected, port)
       \/ FindTunnel(r) \/ CreateTunnel(r) \/ Configure(r) \/ Put(r) \/ EnsureDns(r)
       \/ WriteToken(r) \/ Save(r) \/ Fail(r)
  \/ Owner

Spec == Init /\ [][Next]_fixedDomainVars

-----------------------------------------------------------------------------
(* Properties. *)

TypeOK ==
  /\ remote.tunnel \in 0 .. remote.made /\ saved \in 0 .. remote.made
  /\ token \subseteq 1 .. remote.made

\* "PiLink will not overwrite them": the owner's rules and records stay
\* (isClaimableTunnelConfiguration, ensureDnsRecord).
OwnersStay ==
  /\ unrelated.ingress => remote.ingress = Other
  /\ unrelated.dns => remote.dns.kind = "unrelated"

\* What an interrupted run leaves, the next run takes up: without the owner's
\* changes no state is refused.
Resumable ==
  ~history.meddled =>
    isClaimable(remote.ingress) /\ (remote.dns = NoRecord \/ PointsTo(remote.tunnel))

\* The tunnel that the configuration names has its token, and a route unless the
\* owner changed it.
SavedIsServed ==
  saved # NoTunnel =>
    /\ saved \in token
    /\ ~history.meddled => remote.tunnel = saved /\ remote.dns = Record("tunnel", saved, TRUE)

=============================================================================
