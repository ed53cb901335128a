---------------------------- MODULE OAuthTokens ----------------------------
(***************************************************************************)
(* The clients, authorization codes and tokens of PiLink's OAuth server    *)
(* (src/src/auth.ts) and its token endpoint (src/src/oauth.ts).            *)
(*                                                                         *)
(* Every change of a file is made under the lock oauth-state.lock and is   *)
(* one step here; a change that writes two files may be cut off between    *)
(* them.  A token request waits where the code awaits: for the comparison  *)
(* of the client's secret, and for the lock.  What a request presents      *)
(* (redirect address, PKCE verifier, scopes) is valid here.                *)
(***************************************************************************)
EXTENDS Integers, Sequences, FiniteSets, SequencesExt

CONSTANTS
  Clients,
  Requests,      \* requests that the token endpoint handles at a time
  CodeLimit,     \* MAX_AUTHORIZATION_CODES
  RefreshLimit,  \* MAX_REFRESH_TOKENS
  ConsumedLimit, \* MAX_CONSUMED_REFRESH_TOKENS
  CodeLife, AccessLife, RefreshLife, \* in ticks of the clock
  MaxCodes, MaxRefresh, MaxAccess, MaxChanges, MaxFaults, MaxTime \* bounds

OAuthAssumption ==
  /\ {CodeLimit, RefreshLimit, ConsumedLimit, CodeLife, AccessLife, RefreshLife}
       \subseteq Nat \ {0}
  /\ {MaxCodes, MaxRefresh, MaxAccess, MaxChanges, MaxFaults, MaxTime} \subseteq Nat

VARIABLES
  clients,   \* clients.json
  refresh,   \* refresh-tokens.json: the live tokens and the consumed ones
  revoked,   \* revoked-tokens.json
  codes,     \* authCodes, lost when PiLink restarts
  requests,  \* the token requests being handled
  access,    \* the access tokens that were ever signed
  replayed,  \* the families of which a used token was presented again
  oauth      \* counters: codes, refresh tokens, changes, faults; the clock

oauthVars == <<clients, refresh, revoked, codes, requests, access, replayed, oauth>>

Methods == {"none", "secret"}  \* public, or with a secret
\* era counts the changes of a client's credentials; the code keeps no such
\* number, and tells the tokens of before and after a change by the version.
Unregistered == [status |-> "unregistered", method |-> "none", version |-> 0,
                 secret |-> 0, era |-> 0]
Idle == [step |-> "idle"]
Active(c) == clients[c].status = "active"
now == oauth.clock
Advance(fields) == oauth' = [f \in DOMAIN oauth |->
                               oauth[f] + IF f \in fields THEN 1 ELSE 0]

TypeOK ==
  /\ \A c \in Clients :
       /\ clients[c].status \in {"unregistered", "active", "disabled", "deleted"}
       /\ clients[c].version \in 0 .. MaxChanges + 1
  /\ Len(refresh.live) =< RefreshLimit /\ Len(refresh.consumed) =< ConsumedLimit
  /\ Len(codes) =< CodeLimit
  /\ \A q \in Requests : requests[q].step \in
       {"idle", "authenticating", "saving", "rotating"}
  /\ \A t \in access : t.client \in Clients

Init ==
  /\ clients = [c \in Clients |-> Unregistered]
  /\ refresh = [live |-> <<>>, consumed |-> <<>>]
  /\ revoked = {}
  /\ codes = <<>>
  /\ requests = [q \in Requests |-> Idle]
  /\ access = {}
  /\ replayed = {}
  /\ oauth = [codes |-> 0, refresh |-> 0, changes |-> 0, faults |-> 0, clock |-> 0]

-----------------------------------------------------------------------------
(* The clients. *)

registerClient(c, method) ==
  /\ clients[c] = Unregistered
  /\ clients' = [clients EXCEPT ![c] = [status |-> "active", method |-> method,
                                        version |-> 1, secret |-> 1, era |-> 0]]
  /\ UNCHANGED <<refresh, revoked, codes, requests, access, replayed, oauth>>

removeRefreshTokensUnlocked(c) ==
  [live |-> SelectSeq(refresh.live, LAMBDA t : t.client # c),
   consumed |-> SelectSeq(refresh.consumed, LAMBDA t : t.client # c)]

\* A change of a client's credentials, and the removal of its refresh tokens.
\* PiLink may stop after the first of the two writes.
Changed(c, change, tokensFirst) ==
  LET saved == [clients EXCEPT ![c] = [change EXCEPT !.era = @ + 1]] IN
  /\ oauth.changes < MaxChanges
  /\ \/ /\ clients' = saved
        /\ refresh' = removeRefreshTokensUnlocked(c)
        /\ Advance({"changes"})
     \/ /\ oauth.faults < MaxFaults
        /\ IF tokensFirst
           THEN refresh' = removeRefreshTokensUnlocked(c) /\ UNCHANGED clients
           ELSE clients' = saved /\ UNCHANGED refresh
        /\ Advance({"changes", "faults"})
  /\ UNCHANGED <<revoked, codes, requests, access, replayed>>

deleteClient(c) ==
  /\ clients[c].status \in {"active", "disabled"}
  /\ Changed(c, [clients[c] EXCEPT !.status = "deleted"], FALSE)

\* Mutant: the version of the tokens stays.
Mutant_Disabled(client) == [client EXCEPT !.status = "disabled"]

Disabled(client) == [client EXCEPT !.status = "disabled", !.version = @ + 1]

setClientDisabled(c, disabled) ==
  \/ disabled /\ Active(c) /\ Changed(c, Disabled(clients[c]), TRUE)
  \/ /\ ~disabled /\ clients[c].status = "disabled"
     /\ clients' = [clients EXCEPT ![c].status = "active"]
     /\ UNCHANGED <<refresh, revoked, codes, requests, access, replayed, oauth>>

rotateClientSecret(c) ==
  /\ clients[c].status \in {"active", "disabled"} /\ clients[c].method = "secret"
  /\ Changed(c, [clients[c] EXCEPT !.secret = @ + 1, !.version = @ + 1], FALSE)

-----------------------------------------------------------------------------
(* Authorization codes. *)

\* The owner approved the request of an active client.
createAuthorizationCode(c) ==
  /\ Active(c) /\ oauth.codes < MaxCodes
  /\ LET live == SelectSeq(codes, LAMBDA code : code.expires > now)
         kept == SubSeq(live, Len(live) - Min({Len(live), CodeLimit - 1}) + 1, Len(live))
     IN codes' = Append(kept, [id |-> oauth.codes + 1, client |-> c,
                               version |-> clients[c].version, expires |-> now + CodeLife])
  /\ Advance({"codes"})
  /\ UNCHANGED <<clients, refresh, revoked, requests, access, replayed>>

Code(id) == {codes[k] : k \in {n \in DOMAIN codes : codes[n].id = id}}
WithoutCode(id) == SelectSeq(codes, LAMBDA code : code.id # id)

peekAuthorizationCode(id) == {code \in Code(id) : now =< code.expires}
consumeAuthorizationCode(id) == peekAuthorizationCode(id)

-----------------------------------------------------------------------------
(* The token endpoint. *)

\* Until the client is authenticated: what was presented, and the client as
\* it was when the request came in.
authenticateAuthorizationClient(q, grant, c, secret, presented) ==
  /\ requests[q] = Idle /\ Active(c)
  /\ requests' = [requests EXCEPT ![q] =
       [step |-> "authenticating", grant |-> grant, client |-> c, seen |-> clients[c],
        valid |-> clients[c].method = "none" \/ secret = clients[c].secret,
        presented |-> presented]]
  /\ UNCHANGED <<clients, refresh, revoked, codes, access, replayed, oauth>>

\* Mutant: an active client is enough.
Mutant_sameClientCredentialGeneration(seen, c) == Active(c)

sameClientCredentialGeneration(seen, c) ==
  Active(c) /\ clients[c].secret = seen.secret /\ clients[c].version = seen.version

\* createAccessToken, of the client as the request holds it.
Signed(client, version, code, era) ==
  [client |-> client, version |-> version, code |-> code, era |-> era,
   jti |-> Cardinality(access) + 1, expires |-> now + AccessLife]

Refused(q) ==
  /\ requests' = [requests EXCEPT ![q] = Idle]
  /\ UNCHANGED <<clients, refresh, revoked, access, replayed, oauth>>

startAuthorizationCode(q) ==
  \E c \in Clients, secret \in 1 .. MaxChanges + 1, id \in 1 .. MaxCodes :
    /\ secret =< clients[c].secret
    /\ \E code \in peekAuthorizationCode(id) : code.client = c
    /\ authenticateAuthorizationClient(q, "code", c, secret, id)

\* A second request with the same code finds it gone.
exchangeCode(q) ==
  LET r == requests[q]
      consumed == consumeAuthorizationCode(r.presented)
      good == /\ consumed # {}
              /\ sameClientCredentialGeneration(r.seen, r.client)
              /\ \A code \in consumed : code.version = clients[r.client].version
      token == Signed(r.client, clients[r.client].version, r.presented, r.seen.era)
  IN /\ r.step = "authenticating" /\ r.grant = "code"
     /\ codes' = IF r.valid THEN WithoutCode(r.presented) ELSE codes
     /\ IF ~(r.valid /\ good) THEN Refused(q)
        ELSE /\ Cardinality(access) < MaxAccess
             /\ \/ /\ access' = access \union {token}       \* no offline_access
                   /\ requests' = [requests EXCEPT ![q] = Idle]
                \/ /\ requests' = [requests EXCEPT ![q] =
                        [step |-> "saving", client |-> r.client, token |-> token,
                         version |-> token.version]]
                   /\ UNCHANGED access
             /\ UNCHANGED <<clients, refresh, revoked, replayed, oauth>>

\* The last of a list, as slice(-limit) keeps them.
Latest(list, limit) == SubSeq(list, Max({1, Len(list) - limit + 1}), Len(list))
Unexpired(list) == SelectSeq(list, LAMBDA t : t.expires > now)
saveRefreshTokenState(live, consumed) ==
  refresh' = [live |-> Latest(live, RefreshLimit), consumed |-> Latest(consumed, ConsumedLimit)]

\* The new refresh token of a family; a new family has the token's number.
NewRefresh(c, version, family, era) ==
  [id |-> oauth.refresh + 1, client |-> c, version |-> version,
   family |-> IF family = 0 THEN oauth.refresh + 1 ELSE family,
   era |-> era, expires |-> now + RefreshLife]

createRefreshToken(q) ==
  LET r == requests[q] IN
  /\ r.step = "saving"
  /\ IF Active(r.client) /\ clients[r.client].version = r.version
     THEN /\ oauth.refresh < MaxRefresh
          /\ saveRefreshTokenState(
               Append(Unexpired(refresh.live), NewRefresh(r.client, r.version, 0, r.token.era)),
               Unexpired(refresh.consumed))
          /\ access' = access \union {[r.token EXCEPT !.jti = Cardinality(access) + 1]}
          /\ Advance({"refresh"})
     ELSE UNCHANGED <<refresh, access, oauth>> \* the request fails
  /\ requests' = [requests EXCEPT ![q] = Idle]
  /\ UNCHANGED <<clients, revoked, codes, replayed>>

\* Any token that was ever issued may be presented, more than once too.
startRefresh(q) ==
  \E c \in Clients, secret \in 1 .. MaxChanges + 1, id \in 1 .. oauth.refresh :
    /\ secret =< clients[c].secret
    /\ authenticateAuthorizationClient(q, "refresh", c, secret, id)

acceptRefresh(q) ==
  LET r == requests[q] IN
  /\ r.step = "authenticating" /\ r.grant = "refresh"
  /\ IF r.valid /\ sameClientCredentialGeneration(r.seen, r.client)
     THEN /\ requests' = [requests EXCEPT ![q] =
               [step |-> "rotating", client |-> r.client, version |-> clients[r.client].version,
                presented |-> r.presented, era |-> r.seen.era]]
          /\ UNCHANGED <<clients, refresh, revoked, access, replayed, oauth>>
     ELSE Refused(q)
  /\ UNCHANGED codes

\* The tokens of a list that a request may mean by the one it presents.
Presented(list, r) ==
  {k \in DOMAIN list : /\ list[k].id = r.presented /\ list[k].client = r.client
                       /\ list[k].version = r.version}

Surviving(list, used) ==
  SelectSeq(list, LAMBDA t : ~(/\ t.client = used.client /\ t.version = used.version
                               /\ t.family = used.family))

rotateRefreshToken(q) ==
  LET r == requests[q]
      live == Unexpired(refresh.live)
      consumed == Unexpired(refresh.consumed)
      same == Active(r.client) /\ clients[r.client].version = r.version
  IN
  /\ r.step = "rotating"
  /\ requests' = [requests EXCEPT ![q] = Idle]
  /\ \/ /\ same
        /\ oauth.refresh < MaxRefresh /\ Cardinality(access) < MaxAccess
        /\ \E k \in Presented(live, r) :
             /\ saveRefreshTokenState(
                  Append(RemoveAt(live, k), NewRefresh(r.client, r.version, live[k].family, r.era)),
                  Append(consumed, live[k]))
             /\ access' = access \union {Signed(r.client, r.version, 0, r.era)}
             /\ Advance({"refresh"})
        /\ UNCHANGED replayed
     \/ /\ same /\ Presented(live, r) = {}
        /\ \E k \in Presented(consumed, r) :
             /\ saveRefreshTokenState(Surviving(live, consumed[k]), consumed)
             /\ replayed' = replayed \union {consumed[k].family}
        /\ UNCHANGED <<access, oauth>>
     \/ /\ same => Presented(live, r) \union Presented(consumed, r) = {}
        /\ refresh' = IF same THEN [live |-> live, consumed |-> consumed] ELSE refresh
        /\ UNCHANGED <<access, replayed, oauth>>
  /\ UNCHANGED <<clients, revoked, codes>>

startClientCredentials(q) ==
  \E c \in Clients, secret \in 1 .. MaxChanges + 1 :
    /\ clients[c].method = "secret" /\ secret =< clients[c].secret
    /\ authenticateAuthorizationClient(q, "credentials", c, secret, 0)

grantClientCredentials(q) ==
  LET r == requests[q] IN
  /\ r.step = "authenticating" /\ r.grant = "credentials"
  /\ IF r.valid /\ sameClientCredentialGeneration(r.seen, r.client)
     THEN /\ Cardinality(access) < MaxAccess
          /\ access' = access \union
               {Signed(r.client, clients[r.client].version, 0, r.seen.era)}
          /\ requests' = [requests EXCEPT ![q] = Idle]
          /\ UNCHANGED <<clients, refresh, revoked, replayed, oauth>>
     ELSE Refused(q)
  /\ UNCHANGED codes

\* The record of a revoked token is kept until the token expires.
revokeAccessToken(t) ==
  /\ t.expires > now
  /\ revoked' = {u \in revoked : u.expires > now} \union {[jti |-> t.jti, expires |-> t.expires]}
  /\ revoked' # revoked
  /\ UNCHANGED <<clients, refresh, codes, requests, access, replayed, oauth>>

verifyAccessToken(t) ==
  /\ t.expires > now
  /\ \A u \in revoked : u.jti # t.jti
  /\ Active(t.client) /\ t.version = clients[t.client].version

-----------------------------------------------------------------------------
\* PiLink stops and starts again: the codes and the requests are gone.
restart ==
  /\ oauth.faults < MaxFaults
  /\ codes' = <<>>
  /\ requests' = [q \in Requests |-> Idle]
  /\ Advance({"faults"})
  /\ UNCHANGED <<clients, refresh, revoked, access, replayed>>

tick ==
  /\ now < MaxTime
  /\ Advance({"clock"})
  /\ UNCHANGED <<clients, refresh, revoked, codes, requests, access, replayed>>

Next ==
  \/ \E c \in Clients :
       \/ \E method \in Methods : registerClient(c, method)
       \/ deleteClient(c)
       \/ \E disabled \in BOOLEAN : setClientDisabled(c, disabled)
       \/ rotateClientSecret(c)
       \/ createAuthorizationCode(c)
  \/ \E q \in Requests :
       \/ startAuthorizationCode(q) \/ exchangeCode(q) \/ createRefreshToken(q)
       \/ startRefresh(q) \/ acceptRefresh(q) \/ rotateRefreshToken(q)
       \/ startClientCredentials(q) \/ grantClientCredentials(q)
  \/ \E t \in access : revokeAccessToken(t)
  \/ restart
  \/ tick

-----------------------------------------------------------------------------
(* Properties. *)

\* A change of a client's credentials (its secret is rotated, the client is
\* disabled or deleted) ends all that was granted before, even to a request
\* that was under way, across a stop between the two files, and even when the
\* client is enabled again (auth.ts verifyAccessToken, rotateRefreshToken;
\* oauth.ts sameClientCredentialGeneration).
OnlyCurrentCredentials ==
  /\ \A t \in access : verifyAccessToken(t) => t.era = clients[t.client].era
  /\ \A k \in DOMAIN refresh.live :
       LET t == refresh.live[k] IN
       Active(t.client) /\ t.version = clients[t.client].version
         => t.era = clients[t.client].era

\* However the requests overlap, an authorization code yields one access token
\* (docs/TROUBLESHOOTING.md: "authorization codes are single-use").
CodeYieldsOnce ==
  \A t, u \in access : t.code = u.code /\ t.code # 0 => t = u

\* Of a family of refresh tokens one at most is good, and none once a used
\* one of the family came back (auth.ts rotateRefreshToken).
ReplayEndsFamily ==
  \A j, k \in DOMAIN refresh.live :
    /\ refresh.live[j].family = refresh.live[k].family => j = k
    /\ refresh.live[k].family \notin replayed

\* An access token that is refused is never accepted again, although the
\* records of revoked tokens are dropped and clients are enabled again.
RefusedForGood ==
  \A t \in access : ~verifyAccessToken(t) => ~verifyAccessToken(t)'

OAuthSpec == Init /\ [][Next]_oauthVars
=============================================================================
