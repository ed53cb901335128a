---------------------------- MODULE OAuthConsent ----------------------------
(***************************************************************************)
(* How the owner of PiLink lets a client in: pairing of the owner's        *)
(* browser (src/src/oauth-owner.ts), registration of clients while the     *)
(* owner's window is open and the consent form (src/src/oauth.ts), and the *)
(* approval at the terminal (src/src/oauth-local-approval.ts).             *)
(*                                                                         *)
(* All of it is the memory of one process, except the clients.  An         *)
(* authorization request is a client and a PKCE challenge; whatever else   *)
(* it carries is valid here.                                               *)
(***************************************************************************)
EXTENDS Integers, Sequences, FiniteSets, SequencesExt, TLC

CONSTANTS
  Clients,        \* the clients that may register
  Challenges,
  Browsers,       \* users that open pages, one of which is the owner's
  Connections,    \* authorization requests that wait for the terminal
  PairingLimit,   \* MAX_PENDING_PAIRINGS
  AttemptLimit,   \* MAX_PAIRING_ATTEMPTS
  SessionLimit,   \* MAX_OWNER_SESSIONS
  ConsentLimit,   \* MAX_CONSENT_REQUESTS
  ClientLimit,    \* public clients that may wait
  PairingLife, SessionLife, ConsentLife, \* in ticks
  MaxPairings, MaxForms, MaxDecisions, MaxFaults, MaxTime \* bounds

ConsentAssumption ==
  /\ {PairingLimit, AttemptLimit, SessionLimit, ConsentLimit, ClientLimit,
      PairingLife, SessionLife, ConsentLife} \subseteq Nat \ {0}
  /\ {MaxPairings, MaxForms, MaxDecisions, MaxFaults, MaxTime} \subseteq Nat

VARIABLES
  registered, \* the clients in clients.json, active or disabled
  arriving,   \* the registrations that wait for the lock
  pairings,   \* pairingCodes
  sessions,   \* ownerSessions
  window,     \* registrationWindowExpiresAt
  forms,      \* consentRequests
  prompt,     \* activeApproval, and the connections that wait for it
  disabling,  \* the clients to disable as soon as the lock comes
  granted,    \* the codes that were issued, and the decision behind each
  decisions,  \* what the owner decided, in order
  consent     \* counters: pairings, forms, faults; the clock

consentVars == <<registered, arriving, pairings, sessions, window, forms,
                 prompt, disabling, granted, decisions, consent>>

now == consent.clock
Fresh(list) == SelectSeq(list, LAMBDA e : e.expires > now)
Advance(field) == consent' = [consent EXCEPT ![field] = @ + 1]

\* A bounded map: when it is full the oldest entry makes room.
Put(list, entry, limit) ==
  Append(IF Len(list) < limit THEN list ELSE Tail(list), entry)

NoPrompt == [waiting |-> <<>>]
Active(c) == registered[c] = "active"
windowOpen == window > now

TypeOK ==
  /\ registered \in [Clients -> {"none", "active", "disabled"}]
  /\ arriving \subseteq Clients
  /\ Len(pairings) =< PairingLimit /\ Len(sessions) =< SessionLimit
  /\ Len(forms) =< ConsentLimit
  /\ \A k \in DOMAIN pairings : pairings[k].attempts < AttemptLimit
  /\ \A code \in granted : code.by \in DOMAIN decisions

Init ==
  /\ registered = [c \in Clients |-> "none"]
  /\ arriving = {}
  /\ pairings = <<>> /\ sessions = <<>> /\ window = 0
  /\ forms = <<>>
  /\ prompt = NoPrompt
  /\ disabling = {}
  /\ granted = {}
  /\ decisions = <<>>
  /\ consent = [pairings |-> 0, forms |-> 0, faults |-> 0, clock |-> 0]

-----------------------------------------------------------------------------
(* The owner. *)

createOwnerPairing ==
  /\ consent.pairings < MaxPairings
  /\ pairings' = Put(Fresh(pairings), [code |-> consent.pairings + 1, attempts |-> 0,
                                       expires |-> now + PairingLife], PairingLimit)
  /\ window' = now + PairingLife
  /\ Advance("pairings")
  /\ UNCHANGED <<registered, arriving, sessions, forms, prompt, disabling, granted, decisions>>

\* A browser presents the code and the verification code of a pairing; the
\* second is right or wrong.
consumeOwnerPairing(b, right) ==
  \E k \in DOMAIN Fresh(pairings) :
    LET live == Fresh(pairings)
        pending == [live[k] EXCEPT !.attempts = @ + 1]
    IN /\ IF right
          THEN /\ pairings' = RemoveAt(live, k)
               /\ sessions' = Put(Fresh(sessions), [browser |-> b, expires |-> now + SessionLife],
                                  SessionLimit)
          ELSE /\ pairings' = IF pending.attempts >= AttemptLimit THEN RemoveAt(live, k)
                              ELSE ReplaceAt(live, k, pending)
               /\ sessions' = Fresh(sessions)
       /\ UNCHANGED <<registered, arriving, window, forms, prompt, disabling, granted, decisions, consent>>

hasOwnerSession(b) == \E k \in DOMAIN Fresh(sessions) : Fresh(sessions)[k].browser = b

-----------------------------------------------------------------------------
(* Registration by the clients themselves. *)

\* The conditions are checked, then the request waits for the lock.
register(c) ==
  /\ windowOpen /\ registered[c] = "none" /\ c \notin arriving
  /\ Cardinality({d \in Clients : Active(d)}) < ClientLimit
  /\ arriving' = arriving \union {c}
  /\ UNCHANGED <<registered, pairings, sessions, window, forms, prompt, disabling, granted, decisions, consent>>

registerClient(c) ==
  /\ c \in arriving
  /\ arriving' = arriving \ {c}
  /\ registered' = [registered EXCEPT ![c] = "active"]
  /\ UNCHANGED <<pairings, sessions, window, forms, prompt, disabling, granted, decisions, consent>>

-----------------------------------------------------------------------------
(* The consent form. *)

\* A code of the decision numbered n.
Code(c, challenge, n) == [client |-> c, challenge |-> challenge, by |-> n]
Decision(c, challenge, verdict, place) ==
  [client |-> c, challenge |-> challenge, verdict |-> verdict, place |-> place]

\* GET /oauth/authorize of a browser that is paired.
createConsentRequest(b, c, challenge) ==
  /\ hasOwnerSession(b) /\ Active(c) /\ consent.forms < MaxForms
  /\ forms' = Put(Fresh(forms), [token |-> consent.forms + 1, client |-> c,
                                 challenge |-> challenge, expires |-> now + ConsentLife],
                  ConsentLimit)
  /\ Advance("forms")
  /\ UNCHANGED <<registered, arriving, pairings, sessions, window, prompt, disabling, granted, decisions>>

\* Mutant: the form can be sent again.
Mutant_Used(live, token) == live

\* The entry goes whether or not it is the one of this request.
Used(live, token) == SelectSeq(live, LAMBDA f : f.token # token)

\* POST /oauth/authorize: any token of a form, for any request.
consumeConsentRequest(b, token, c, challenge, approve) ==
  LET live == Fresh(forms)
      matches == \E k \in DOMAIN live :
                   /\ live[k].token = token /\ live[k].client = c
                   /\ live[k].challenge = challenge
  IN /\ hasOwnerSession(b) /\ Active(c) /\ token \in 1 .. consent.forms
     /\ Len(decisions) < MaxDecisions
     /\ forms' = Used(live, token)
     /\ IF ~matches THEN forms' # forms /\ UNCHANGED <<granted, decisions>>
        ELSE /\ decisions' = Append(decisions,
                  Decision(c, challenge, IF approve THEN "approved" ELSE "declined", token))
             /\ IF approve
                THEN granted' = granted \union {Code(c, challenge, Len(decisions')) @@ [form |-> token]}
                ELSE UNCHANGED granted
     /\ UNCHANGED <<registered, arriving, pairings, sessions, window, prompt, disabling, consent>>

-----------------------------------------------------------------------------
(* The terminal. *)

\* While an approval is pending, a request for the same waits for it too; any
\* other is refused, and a refused client will be disabled.
Same(waiting) == waiting = [client |-> prompt.client, challenge |-> prompt.challenge]

requestLocalApproval(n, waiting) ==
  \/ /\ prompt = NoPrompt
     /\ prompt' = waiting @@ [waiting |-> [m \in {n} |-> waiting]]
     /\ UNCHANGED disabling
  \/ /\ prompt # NoPrompt /\ Same(waiting)
     /\ prompt' = [prompt EXCEPT !.waiting = @ @@ (n :> waiting)]
     /\ UNCHANGED disabling
  \/ /\ prompt # NoPrompt /\ ~Same(waiting)
     /\ disabling' = disabling \union {waiting.client}
     /\ UNCHANGED prompt

tryHandleLocalChatGptAuthorization(n, c, challenge) ==
  /\ windowOpen /\ Active(c) /\ n \notin DOMAIN prompt.waiting
  /\ requestLocalApproval(n, [client |-> c, challenge |-> challenge])
  /\ UNCHANGED <<registered, arriving, pairings, sessions, window, forms, granted,
                 decisions, consent>>

\* The owner answers, or the time is over; every connection that waits goes on:
\* with a code, if its client is still active, or to have its client disabled.
promptForApproval(approve) ==
  LET answered == {n \in DOMAIN prompt.waiting : Active(prompt.waiting[n].client)}
      codes == {Code(prompt.waiting[n].client, prompt.waiting[n].challenge, Len(decisions) + 1)
                  @@ [to |-> n] : n \in answered}
  IN /\ prompt # NoPrompt /\ Len(decisions) < MaxDecisions
     /\ decisions' = Append(decisions, Decision(prompt.client, prompt.challenge,
                              IF approve THEN "approved" ELSE "declined", 0))
     /\ prompt' = NoPrompt
     /\ IF approve
        THEN /\ granted' = granted \union codes
             /\ window' = IF answered = {} THEN window ELSE 0
             /\ UNCHANGED disabling
        ELSE /\ disabling' = disabling \union {prompt.waiting[n].client : n \in DOMAIN prompt.waiting}
             /\ UNCHANGED <<granted, window>>
     /\ UNCHANGED <<registered, arriving, pairings, sessions, forms, consent>>

\* The terminal cannot be read: every connection that waits ends with the error,
\* and nothing was decided.
promptFails ==
  /\ prompt # NoPrompt /\ prompt' = NoPrompt
  /\ UNCHANGED <<registered, arriving, pairings, sessions, window, forms, disabling,
                 granted, decisions, consent>>

\* auth.ts, when the lock comes.
setClientDisabled(c) ==
  /\ c \in disabling
  /\ disabling' = disabling \ {c}
  /\ registered' = [registered EXCEPT ![c] = "disabled"]
  /\ UNCHANGED <<arriving, pairings, sessions, window, forms, prompt, granted, decisions, consent>>

-----------------------------------------------------------------------------
\* A new process knows the clients and nothing else.
restart ==
  /\ consent.faults < MaxFaults
  /\ arriving' = {} /\ pairings' = <<>> /\ sessions' = <<>> /\ window' = 0 /\ forms' = <<>>
  /\ prompt' = NoPrompt /\ disabling' = {}
  /\ Advance("faults")
  /\ UNCHANGED <<registered, granted, decisions>>

tick ==
  /\ now < MaxTime
  /\ Advance("clock")
  /\ UNCHANGED <<registered, arriving, pairings, sessions, window, forms, prompt, disabling,
                 granted, decisions>>

Next ==
  \/ createOwnerPairing
  \/ \E b \in Browsers, right \in BOOLEAN : consumeOwnerPairing(b, right)
  \/ \E c \in Clients : register(c) \/ registerClient(c) \/ setClientDisabled(c)
  \/ \E c \in Clients, challenge \in Challenges :
       \/ \E b \in Browsers :
            \/ createConsentRequest(b, c, challenge)
            \/ \E token \in 1 .. MaxForms, approve \in BOOLEAN :
                 consumeConsentRequest(b, token, c, challenge, approve)
       \/ \E n \in Connections : tryHandleLocalChatGptAuthorization(n, c, challenge)
  \/ \E approve \in BOOLEAN : promptForApproval(approve)
  \/ promptFails
  \/ restart
  \/ tick

-----------------------------------------------------------------------------
(* Properties. *)

\* Every code answers a decision of the owner to approve that very client and
\* challenge; a form that was sent twice, or for another request than it was
\* shown for, yields nothing more (oauth.ts consumeConsentRequest), and a
\* connection never rides on the approval of a different one
\* (oauth-local-approval.ts requestLocalApproval).
CodesWereApproved ==
  \A code \in granted :
    LET d == decisions[code.by] IN
    /\ d.verdict = "approved" /\ d.client = code.client /\ d.challenge = code.challenge
    /\ d.place # 0 =>
         \A other \in granted : decisions[other.by].place = d.place => other = code

ConsentSpec == Init /\ [][Next]_consentVars
=============================================================================
