---------------------------- MODULE AnswersProofs ----------------------------
(***************************************************************************)
(* Invariants of the parts of the services that answer (conversations over *)
(* the gateway, the desktop helper and the command run tool) and of those  *)
(* that put something in place (downloads, the browser extension, the      *)
(* commands on the PATH), for any functions, operations, installers,       *)
(* sources, directories and bounds.                                        *)
(*                                                                         *)
(* A behaviour is one part's alone, so each part has an invariant of its   *)
(* own that no step of another part touches.                               *)
(***************************************************************************)
EXTENDS MCServices, FiniteSetTheorems, SequenceTheorems, WellFoundedInduction, TLAPS

-----------------------------------------------------------------------------
(* The conversation over the gateway (GatewayConversation). *)

\* The constants.
LEMMA TalkAssumed ==
  /\ Unlisted \notin Functions /\ {"auto", "none", "required"} \cap Functions = {}
  /\ MaxCalls \in Nat \ {0} /\ MaxMessages \in Nat /\ MaxTurns \in Nat
BY PartsAssumption DEF Talk!ConversationAssumption

\* Up to n members of a set, in some order.
LEMMA UpTo ==
  ASSUME NEW S, NEW n \in Nat
  PROVE  \A s : s \in Talk!BoundedSeq(S, n) <=> s \in Seq(S) /\ Len(s) <= n
<1>1. Talk!BoundedSeq(S, n) = UNION {[1 .. m -> S] : m \in 0 .. n}
  BY DEF Talk!BoundedSeq, Talk!SeqOf
<1>2. ASSUME NEW s \in Talk!BoundedSeq(S, n)  PROVE s \in Seq(S) /\ Len(s) <= n
  BY <1>1, <1>2
<1>3. ASSUME NEW s \in Seq(S), Len(s) <= n  PROVE s \in Talk!BoundedSeq(S, n)
  <2>1. s \in [1 .. Len(s) -> S] /\ Len(s) \in 0 .. n
    BY <1>3
  <2> QED BY <1>1, <2>1
<1> QED BY <1>2, <1>3

\* A function on the first numbers is a sequence.
LEMMA ListIs ==
  ASSUME NEW S, NEW n \in Nat, NEW s \in [1 .. n -> S]
  PROVE  s \in Seq(S)
BY Zenon, SeqDef

\* A sequence in which nothing stands twice has as many members as places.
LEMMA DistinctIs ==
  ASSUME NEW S, NEW s \in Seq(S), \A i, j \in 1 .. Len(s) : s[i] = s[j] => i = j
  PROVE  Talk!Distinct(s)
<1> DEFINE R == {s[i] : i \in DOMAIN s}
<1>1. Len(s) \in Nat /\ s \in [1 .. Len(s) -> R] /\ DOMAIN s = 1 .. Len(s)
  BY LenProperties
<1>2. s \in Bijection(1 .. Len(s), R)
  BY <1>1 DEF Bijection, Injection, Surjection, IsInjective
<1>3. Cardinality(R) = Len(s)
  BY <1>1, <1>2, FS_CountingElements DEF ExistsBijection
<1>4. Talk!Cardinality(R) = Len(s)
  BY <1>3 DEF Talk!Cardinality, Talk!IsFiniteSet, Cardinality, IsFiniteSet
<1> QED BY <1>4 DEF Talk!Distinct, Talk!Range

\* What a request may be, what a message and what an answer.
TalkPayload ==
  [tools : Talk!BoundedSeq(Functions, 2), choice : Talk!ToolChoices, parallel : BOOLEAN]

TalkAnswer == [content : Talk!Texts, calls : Talk!BoundedSeq(Talk!Calls, MaxCalls)]

\* The messages of the conversation: the harness may send each back but a long one.
TalkMessage ==
  {m \in [role : {"user", "assistant", "tool"}, content : Talk!Texts,
          calls : Talk!BoundedSeq(Talk!Calls, MaxCalls), result : BOOLEAN] :
     Talk!validateGatewayMessage(m) \/ m.content = "long"}

\* The invariant: what was asked allows an answer, what was answered may be sent back, and
\* an identifier names the request that it was given in, which was the last one.
TalkInv ==
  /\ phase \in {"idle", "queued", "answered"} /\ request \in TalkPayload
  /\ history \in Seq(TalkMessage) /\ answer \in TalkAnswer
  /\ turn \in 0 .. MaxTurns /\ given \in Seq(Talk!LocalIds)
  /\ phase = "queued" => turn # 0 /\ Talk!validateToolChoice(request.tools, request.choice)
  /\ phase = "answered" => Talk!validateAssistantObject(answer)
  /\ \A i \in 1 .. Len(given) :
       given[i].request <= turn /\ (phase = "queued" => given[i].request < turn)
  /\ \A i, j \in 1 .. Len(given) : given[i] = given[j] => i = j

\* No calls.
LEMMA NoCalls ==
  /\ <<>> \in Talk!BoundedSeq(Talk!Calls, MaxCalls) /\ <<>> \in Talk!BoundedSeq(Functions, 2)
  /\ Talk!validateGatewayToolCalls(<<>>)
<1>1. \A S : <<>> \in Seq(S) /\ Len(<<>>) = 0
  BY EmptySeq
<1>2. <<>> \in Talk!BoundedSeq(Talk!Calls, MaxCalls) /\ <<>> \in Talk!BoundedSeq(Functions, 2)
  <2>1. <<>> \in Seq(Talk!Calls) /\ <<>> \in Seq(Functions) /\ Len(<<>>) = 0
    BY Zenon, <1>1
  <2>2. Len(<<>>) <= MaxCalls /\ Len(<<>>) <= 2 /\ MaxCalls \in Nat /\ 2 \in Nat
    BY <2>1, TalkAssumed
  <2> QED BY Zenon, <2>1, <2>2, UpTo
<1>3. [k_ \in DOMAIN <<>> |-> <<>>[k_].id] = <<>>
  OBVIOUS
<1>4. Talk!Distinct(<<>>)
  <2>1. <<>> \in Seq(Nat) /\ \A i, j \in 1 .. Len(<<>>) : <<>>[i] = <<>>[j] => i = j
    BY <1>1
  <2> QED BY Zenon, <2>1, DistinctIs
<1> QED BY <1>1, <1>2, <1>3, <1>4, TalkAssumed DEF Talk!validateGatewayToolCalls

\* Nothing was asked at first.
LEMMA TalkInitial ==
  ASSUME Talk!Init
  PROVE  TalkInv
<1>1. /\ phase = "idle" /\ history = <<>> /\ turn = 0 /\ given = <<>>
      /\ request = [tools |-> <<>>, choice |-> "auto", parallel |-> TRUE]
      /\ answer = [content |-> "null", calls |-> <<>>]
  BY DEF Talk!Init, Talk!NoPayload, Talk!NoAnswer
<1>2. request \in TalkPayload /\ answer \in TalkAnswer
  BY <1>1, NoCalls DEF TalkPayload, TalkAnswer, Talk!ToolChoices, Talk!Texts
<1>3. history \in Seq(TalkMessage) /\ given \in Seq(Talk!LocalIds) /\ Len(given) = 0
  BY <1>1, EmptySeq
<1> QED BY <1>1, <1>2, <1>3, TalkAssumed DEF TalkInv

\* The message of a user.
LEMMA UserIs == Talk!User \in TalkMessage
<1>1. Talk!User = [role |-> "user", content |-> "short", calls |-> <<>>, result |-> FALSE]
  BY DEF Talk!User, Talk!Message
<1>2. Talk!validateGatewayMessage(Talk!User)
  BY <1>1 DEF Talk!validateGatewayMessage
<1> QED BY <1>1, <1>2, NoCalls DEF TalkMessage, Talk!Texts

\* The harness asks.
LEMMA AskKeeps ==
  ASSUME TalkInv, Talk!Ask
  PROVE  TalkInv'
<1>1. PICK tools \in Talk!BoundedSeq(Functions, 2), choice \in Talk!ToolChoices, parallel \in BOOLEAN,
           messages \in {history, Append(history, Talk!User)} :
        Talk!parseCompletionRequest(messages,
          [tools |-> tools, choice |-> choice, parallel |-> parallel])
  BY DEF Talk!Ask
<1>2. PICK p : p = [tools |-> tools, choice |-> choice, parallel |-> parallel]
  OBVIOUS
<1>3. /\ turn < MaxTurns /\ phase' = "queued" /\ request' = p /\ history' = messages
      /\ turn' = turn + 1 /\ UNCHANGED <<answer, given>>
      /\ Talk!validateToolChoice(p.tools, p.choice)
  BY <1>1, <1>2 DEF Talk!parseCompletionRequest, Talk!validateGatewayRequestPayload
<1>4. p \in TalkPayload
  BY <1>2 DEF TalkPayload
<1>5. messages \in Seq(TalkMessage)
  BY UserIs, AppendProperties DEF TalkInv
<1>6. turn' \in 0 .. MaxTurns /\ turn' # 0
  BY <1>3, TalkAssumed DEF TalkInv
<1>7. \A i \in 1 .. Len(given) : given[i].request < turn'
  <2>1. ASSUME NEW i \in 1 .. Len(given)  PROVE given[i].request < turn'
    <3>1. given[i].request \in Int
      <4>1. given[i] \in Talk!LocalIds
        BY ElementOfSeq DEF TalkInv
      <4> QED BY <4>1, TalkAssumed DEF Talk!LocalIds
    <3> QED BY <1>3, <3>1, TalkAssumed DEF TalkInv
  <2> QED BY <2>1
<1>8. \A i \in 1 .. Len(given) : given[i].request <= turn'
  <2>1. ASSUME NEW i \in 1 .. Len(given)  PROVE given[i].request <= turn'
    <3>1. given[i].request \in Int
      <4>1. given[i] \in Talk!LocalIds
        BY ElementOfSeq DEF TalkInv
      <4> QED BY <4>1, TalkAssumed DEF Talk!LocalIds
    <3> QED BY <1>3, <3>1, TalkAssumed DEF TalkInv
  <2> QED BY <2>1
<1> QED BY <1>3, <1>4, <1>5, <1>6, <1>7, <1>8 DEF TalkInv

\* The harness continues with the answer and the results of its calls.
LEMMA ContinueKeeps ==
  ASSUME TalkInv, Talk!Continue
  PROVE  TalkInv'
<1>1. /\ phase = "answered" /\ phase' = "idle"
      /\ history' = Append(history, Talk!assistantMessage)
                    \o [k_ \in DOMAIN answer.calls |-> Talk!Message("tool", "short", <<>>, TRUE)]
      /\ request' = Talk!NoPayload /\ answer' = Talk!NoAnswer /\ UNCHANGED <<turn, given>>
  BY DEF Talk!Continue
<1>2. PICK c : c = answer
  OBVIOUS
<1>3. /\ c \in TalkAnswer /\ Talk!validateAssistantObject(c)
      /\ c.content \in Talk!Texts /\ c.calls \in Talk!BoundedSeq(Talk!Calls, MaxCalls)
  BY <1>1, <1>2 DEF TalkInv, TalkAnswer
<1>4. Talk!assistantMessage \in TalkMessage
  <2>1. PICK m : m = [role |-> "assistant", content |-> c.content, calls |-> c.calls, result |-> FALSE]
    OBVIOUS
  <2>2. Talk!assistantMessage = m
    BY <1>2, <2>1 DEF Talk!assistantMessage, Talk!Message
  <2>3. m.content # "long" => Talk!validateGatewayMessage(m)
    BY <1>3, <2>1 DEF Talk!validateGatewayMessage, Talk!validateAssistantObject
  <2>4. m \in [role : {"user", "assistant", "tool"}, content : Talk!Texts,
               calls : Talk!BoundedSeq(Talk!Calls, MaxCalls), result : BOOLEAN]
    BY <1>3, <2>1
  <2> QED BY <2>2, <2>3, <2>4 DEF TalkMessage
<1>5. Talk!Message("tool", "short", <<>>, TRUE) \in TalkMessage
  <2>1. PICK m : m = [role |-> "tool", content |-> "short", calls |-> <<>>, result |-> TRUE]
    OBVIOUS
  <2>2. Talk!Message("tool", "short", <<>>, TRUE) = m
    BY <2>1 DEF Talk!Message
  <2>3. Talk!validateGatewayMessage(m)
    BY <2>1 DEF Talk!validateGatewayMessage
  <2>4. m \in [role : {"user", "assistant", "tool"}, content : Talk!Texts,
               calls : Talk!BoundedSeq(Talk!Calls, MaxCalls), result : BOOLEAN]
    BY <2>1, NoCalls DEF Talk!Texts
  <2> QED BY <2>2, <2>3, <2>4 DEF TalkMessage
<1>6. [k_ \in DOMAIN answer.calls |-> Talk!Message("tool", "short", <<>>, TRUE)] \in Seq(TalkMessage)
  <2>1. c.calls \in Seq(Talk!Calls)
    BY <1>3, TalkAssumed, UpTo
  <2>2. DOMAIN c.calls = 1 .. Len(c.calls) /\ Len(c.calls) \in Nat
    BY <2>1, LenProperties
  <2> DEFINE results == [k_ \in 1 .. Len(c.calls) |-> Talk!Message("tool", "short", <<>>, TRUE)]
  <2>3. results \in [1 .. Len(c.calls) -> TalkMessage]
    BY <1>5
  <2>4. results \in Seq(TalkMessage)
    BY Zenon, <2>2, <2>3, ListIs
  <2> QED BY <1>2, <2>2, <2>4
<1>7. history' \in Seq(TalkMessage)
  <2>1. Append(history, Talk!assistantMessage) \in Seq(TalkMessage)
    BY <1>4, AppendProperties DEF TalkInv
  <2> QED BY <1>1, <1>6, <2>1, ConcatProperties
<1>8. request' \in TalkPayload /\ answer' \in TalkAnswer
  BY <1>1, NoCalls
    DEF TalkPayload, TalkAnswer, Talk!NoPayload, Talk!NoAnswer, Talk!ToolChoices, Talk!Texts
<1> QED BY <1>1, <1>7, <1>8 DEF TalkInv

\* The answer of a worker is taken.
LEMMA AcceptIs ==
  ASSUME TalkInv, NEW c, Talk!Accept(c), c.content \in Talk!Texts, c.calls \in Seq(Talk!Calls),
         c = [content |-> c.content, calls |-> c.calls]
  PROVE  /\ phase = "queued" /\ phase' = "answered" /\ answer' \in TalkAnswer
         /\ Talk!validateAssistantObject(answer')
         /\ UNCHANGED <<request, history, turn>>
<1>1. /\ phase = "queued" /\ phase' = "answered" /\ answer' = c
      /\ Talk!validateAssistantObject(c) /\ UNCHANGED <<request, history, turn>>
  BY DEF Talk!Accept, Talk!validateGatewayAssistantCompletion
<1>2. Len(c.calls) <= MaxCalls
  BY <1>1 DEF Talk!validateAssistantObject, Talk!validateGatewayToolCalls
<1>3. c.calls \in Talk!BoundedSeq(Talk!Calls, MaxCalls)
  BY <1>2, TalkAssumed, UpTo
<1>4. c \in TalkAnswer
  BY <1>3 DEF TalkAnswer
<1> QED BY <1>1, <1>4

\* The calls of an answer, by their identifiers and their names.
LEMMA CallsAre ==
  ASSUME NEW names \in Talk!Sequences(MaxCalls), NEW ids,
         \A k_ \in DOMAIN names : ids[k_] \in Talk!OwnIds \cup Talk!LocalIds
  PROVE  /\ DOMAIN names = 1 .. Len(names) /\ Len(names) \in 0 .. MaxCalls
         /\ [k_ \in DOMAIN names |-> [id |-> ids[k_], name |-> names[k_]]] \in Seq(Talk!Calls)
<1>1. names \in Seq(Functions \cup {Unlisted}) /\ Len(names) <= MaxCalls
  BY TalkAssumed, UpTo DEF Talk!Sequences
<1>2. DOMAIN names = 1 .. Len(names) /\ Len(names) \in Nat
  BY <1>1, LenProperties
<1> DEFINE calls == [k_ \in 1 .. Len(names) |-> [id |-> ids[k_], name |-> names[k_]]]
<1>3. ASSUME NEW k_ \in 1 .. Len(names)
      PROVE  [id |-> ids[k_], name |-> names[k_]] \in Talk!Calls
  <2>1. names[k_] \in Functions \cup {Unlisted}
    BY <1>1, ElementOfSeq
  <2> QED BY <1>2, <2>1 DEF Talk!Calls
<1>4. calls \in [1 .. Len(names) -> Talk!Calls]
  BY <1>3
<1>5. calls \in Seq(Talk!Calls)
  BY Zenon, <1>2, <1>4, ListIs
<1> QED BY <1>1, <1>2, <1>5, TalkAssumed

\* A worker that numbers its calls.
LEMMA ExchangeKeeps ==
  ASSUME TalkInv, Talk!exchange
  PROVE  TalkInv'
<1>1. PICK content \in Talk!Texts, names \in Talk!Sequences(MaxCalls) :
        \E ids \in [DOMAIN names -> Talk!OwnIds] :
          Talk!Accept([content |-> content,
                       calls |-> [k_ \in DOMAIN names |-> [id |-> ids[k_], name |-> names[k_]]]])
  BY DEF Talk!exchange
<1>2. PICK ids \in [DOMAIN names -> Talk!OwnIds] :
        Talk!Accept([content |-> content,
                     calls |-> [k_ \in DOMAIN names |-> [id |-> ids[k_], name |-> names[k_]]]])
  BY <1>1
<1>3. PICK calls : calls = [k_ \in DOMAIN names |-> [id |-> ids[k_], name |-> names[k_]]]
  OBVIOUS
<1>4. calls \in Seq(Talk!Calls)
  BY <1>2, <1>3, CallsAre
<1>5. /\ phase = "queued" /\ phase' = "answered" /\ answer' \in TalkAnswer
      /\ Talk!validateAssistantObject(answer') /\ UNCHANGED <<request, history, turn>>
  <2>1. PICK c : c = [content |-> content, calls |-> calls]
    OBVIOUS
  <2>2. Talk!Accept(c) /\ c.content = content /\ c.calls = calls
    BY <1>2, <1>3, <2>1
  <2> QED BY <1>4, <2>1, <2>2, AcceptIs
<1>6. given' = given
  BY DEF Talk!exchange
<1> QED BY <1>5, <1>6 DEF TalkInv

\* The calls that the gateway numbers: their identifiers were given to no call before.
LEMMA LocalKeeps ==
  ASSUME TalkInv, Talk!callLocalTool
  PROVE  TalkInv'
<1>1. PICK content \in Talk!Texts, names \in Talk!Sequences(MaxCalls) \ {<<>>} :
        LET calls == [k_ \in DOMAIN names |->
                        [id |-> Talk!gatewayLocalToolCallId(k_), name |-> names[k_]]]
        IN  /\ Talk!Accept([content |-> content, calls |-> calls])
            /\ given' = given \o [k_ \in DOMAIN calls |-> calls[k_].id]
  BY DEF Talk!callLocalTool
<1>2. PICK ids : ids = [k_ \in DOMAIN names |-> [request |-> turn, key |-> k_]]
  OBVIOUS
<1>3. PICK calls : calls = [k_ \in DOMAIN names |-> [id |-> ids[k_], name |-> names[k_]]]
  OBVIOUS
<1>4. /\ Talk!Accept([content |-> content, calls |-> calls])
      /\ given' = given \o [k_ \in DOMAIN calls |-> calls[k_].id]
  <2>1. calls = [k_ \in DOMAIN names |-> [id |-> Talk!gatewayLocalToolCallId(k_), name |-> names[k_]]]
    BY <1>2, <1>3 DEF Talk!gatewayLocalToolCallId
  <2> QED BY <1>1, <2>1
<1>5. phase = "queued" /\ turn \in 1 .. MaxTurns
  BY <1>4, TalkAssumed DEF TalkInv, Talk!Accept
<1>6. DOMAIN names = 1 .. Len(names) /\ Len(names) \in 0 .. MaxCalls
  <2>1. names \in Seq(Functions \cup {Unlisted}) /\ Len(names) <= MaxCalls
    BY TalkAssumed, UpTo DEF Talk!Sequences
  <2> QED BY <2>1, LenProperties, TalkAssumed
<1>7. ids \in [1 .. Len(names) -> Talk!LocalIds]
  BY <1>2, <1>5, <1>6, TalkAssumed DEF Talk!LocalIds
<1>8. calls \in Seq(Talk!Calls)
  BY <1>3, <1>6, <1>7, CallsAre
<1>9. /\ phase' = "answered" /\ answer' \in TalkAnswer
      /\ Talk!validateAssistantObject(answer') /\ UNCHANGED <<request, history, turn>>
  <2>1. PICK c : c = [content |-> content, calls |-> calls]
    OBVIOUS
  <2>2. Talk!Accept(c) /\ c.content = content /\ c.calls = calls
    BY <1>4, <2>1
  <2> QED BY <1>8, <2>1, <2>2, AcceptIs
<1>10. given' = given \o ids
  <2>1. DOMAIN calls = 1 .. Len(names)
    BY <1>3, <1>6
  <2>2. [k_ \in DOMAIN calls |-> calls[k_].id] = [k_ \in 1 .. Len(names) |-> ids[k_]]
    BY <1>3, <1>6, <2>1
  <2>3. [k_ \in 1 .. Len(names) |-> ids[k_]] = ids
    BY <1>7
  <2> QED BY <1>4, <2>2, <2>3
<1>11. given \in Seq(Talk!LocalIds) /\ ids \in Seq(Talk!LocalIds) /\ Len(ids) = Len(names)
  BY <1>6, <1>7, SeqDef, LenProperties DEF TalkInv
<1>12. /\ given' \in Seq(Talk!LocalIds) /\ Len(given') = Len(given) + Len(ids)
       /\ \A i \in 1 .. Len(given) + Len(ids) :
            given'[i] = IF i <= Len(given) THEN given[i] ELSE ids[i - Len(given)]
  BY <1>10, <1>11, ConcatProperties
<1>13. Len(given) \in Nat /\ Len(ids) \in Nat
  BY <1>11, LenProperties
<1>14. \A i \in 1 .. Len(ids) : ids[i].request = turn /\ ids[i].key = i
  BY <1>2, <1>6, <1>11
<1>15. ASSUME NEW i \in 1 .. Len(given')
       PROVE  given'[i].request <= turn /\ (i <= Len(given) <=> given'[i].request < turn)
  <2>1. CASE i <= Len(given)
    <3>1. i \in 1 .. Len(given) /\ given'[i] = given[i]
      BY <1>12, <1>13, <2>1
    <3>2. given[i].request < turn /\ given[i].request <= turn
      BY <1>5, <3>1 DEF TalkInv
    <3> QED BY <2>1, <3>1, <3>2
  <2>2. CASE ~(i <= Len(given))
    <3>1. i - Len(given) \in 1 .. Len(ids) /\ given'[i] = ids[i - Len(given)]
      BY <1>12, <1>13, <2>2
    <3>2. given'[i].request = turn
      BY <1>14, <3>1
    <3> QED BY <1>5, <2>2, <3>2
  <2> QED BY <2>1, <2>2
<1>16. ASSUME NEW i \in 1 .. Len(given'), NEW j \in 1 .. Len(given'), given'[i] = given'[j]
       PROVE  i = j
  <2>1. i <= Len(given) <=> j <= Len(given)
    BY <1>15, <1>16
  <2>2. CASE i <= Len(given)
    <3>1. i \in 1 .. Len(given) /\ j \in 1 .. Len(given) /\ given[i] = given[j]
      BY <1>12, <1>13, <1>16, <2>1, <2>2
    <3> QED BY <3>1 DEF TalkInv
  <2>3. CASE ~(i <= Len(given))
    <3>1. /\ i - Len(given) \in 1 .. Len(ids) /\ j - Len(given) \in 1 .. Len(ids)
          /\ ids[i - Len(given)] = ids[j - Len(given)]
      BY <1>12, <1>13, <1>16, <2>1, <2>3
    <3>2. i - Len(given) = j - Len(given)
      BY <1>14, <3>1
    <3> QED BY <1>12, <1>13, <3>2
  <2> QED BY <2>2, <2>3
<1> QED BY <1>9, <1>12, <1>15, <1>16 DEF TalkInv

\* The worker reports an error.
LEMMA FailKeeps ==
  ASSUME TalkInv, Talk!Fail
  PROVE  TalkInv'
<1>1. /\ phase' = "idle" /\ request' = Talk!NoPayload /\ UNCHANGED <<history, answer, turn, given>>
  BY DEF Talk!Fail
<1>2. request' \in TalkPayload
  BY <1>1, NoCalls DEF TalkPayload, Talk!NoPayload, Talk!ToolChoices
<1> QED BY <1>1, <1>2 DEF TalkInv

\* Every step keeps it.
LEMMA TalkStep ==
  ASSUME TalkInv, Talk!Next
  PROVE  TalkInv'
BY AskKeeps, ContinueKeeps, ExchangeKeeps, LocalKeeps, FailKeeps DEF Talk!Next

\* Whatever the request allows, an answer without calls or with one local call is allowed.
LEMMA AnswerableIs ==
  ASSUME TalkInv
  PROVE  Talk!Answerable
<1> SUFFICES ASSUME phase = "queued"
             PROVE  \/ Talk!validateGatewayAssistantCompletion([content |-> "short", calls |-> <<>>], request)
                    \/ \E f \in Functions :
                         Talk!validateGatewayAssistantCompletion(
                           [content |-> "null",
                            calls |-> <<[id |-> Talk!gatewayLocalToolCallId(1), name |-> f]>>], request)
  BY DEF Talk!Answerable
<1>1. /\ Talk!validateToolChoice(request.tools, request.choice)
      /\ request.tools \in Talk!BoundedSeq(Functions, 2)
      /\ request.choice \in {"auto", "none", "required"} \cup Functions
  BY DEF TalkInv, TalkPayload, Talk!ToolChoices
<1>2. request.tools \in Seq(Functions)
  BY <1>1, UpTo
<1>3. CASE request.choice \in {"auto", "none"}
  <2>1. PICK c : c = [content |-> "short", calls |-> <<>>]
    OBVIOUS
  <2>2. Talk!validateAssistantObject(c)
    BY <2>1, NoCalls DEF Talk!validateAssistantObject
  <2>3. Talk!Names(c.calls) = {} /\ Len(c.calls) = 0
    BY <2>1 DEF Talk!Names
  <2>4. Talk!enforceToolContract(c, request)
    BY <1>3, <2>1, <2>3, TalkAssumed DEF Talk!enforceToolContract
  <2> QED BY <2>1, <2>2, <2>4 DEF Talk!validateGatewayAssistantCompletion
<1>4. CASE request.choice \notin {"auto", "none"}
  <2>1. PICK f \in Functions : f \in Talk!Range(request.tools)
                               /\ (request.choice \in Functions => f = request.choice)
    <3>1. CASE request.choice = "required"
      <4>1. request.tools # <<>>
        BY <1>1, <3>1 DEF Talk!validateToolChoice
      <4>2. Len(request.tools) \in Nat \ {0}
        BY <1>2, <4>1, EmptySeq
      <4>3. 1 \in DOMAIN request.tools /\ request.tools[1] \in Functions
        BY <1>2, <4>2, LenProperties
      <4> QED BY <3>1, <4>3, TalkAssumed DEF Talk!Range
    <3>2. CASE request.choice \in Functions
      BY <1>1, <3>2 DEF Talk!validateToolChoice
    <3> QED BY <1>1, <1>4, <3>1, <3>2
  <2>2. PICK one : one = [id |-> Talk!gatewayLocalToolCallId(1), name |-> f]
    OBVIOUS
  <2>3. PICK c : c = [content |-> "null", calls |-> <<one>>]
    OBVIOUS
  <2>4. Talk!Names(c.calls) = {f} /\ Len(c.calls) = 1 /\ c.calls # <<>>
    BY <2>2, <2>3 DEF Talk!Names
  <2>5. Talk!validateGatewayToolCalls(c.calls)
    <3>1. [k_ \in DOMAIN c.calls |-> c.calls[k_].id] = <<one.id>>
      BY <2>3
    <3>2. <<one.id>> \in Seq({one.id}) /\ Len(<<one.id>>) = 1
      OBVIOUS
    <3>3. \A i, j \in 1 .. Len(<<one.id>>) : <<one.id>>[i] = <<one.id>>[j] => i = j
      BY <3>2
    <3>4. Talk!Distinct(<<one.id>>)
      BY Zenon, <3>2, <3>3, DistinctIs
    <3> QED BY <2>4, <3>1, <3>4, TalkAssumed DEF Talk!validateGatewayToolCalls
  <2>6. Talk!validateAssistantObject(c)
    BY <2>4, <2>5 DEF Talk!validateAssistantObject
  <2>7. Talk!enforceToolContract(c, request)
    BY <1>4, <2>1, <2>4, TalkAssumed DEF Talk!enforceToolContract
  <2> QED BY <2>1, <2>2, <2>3, <2>6, <2>7 DEF Talk!validateGatewayAssistantCompletion
<1> QED BY <1>3, <1>4

\* The invariant implies the properties.
LEMMA TalkContained ==
  ASSUME TalkInv
  PROVE  Talk!TypeOK /\ Talk!Answerable /\ Talk!Continues /\ Talk!CallsTold
<1>1. Talk!Continues
  <2>1. SUFFICES ASSUME NEW k_ \in DOMAIN history
                 PROVE  Talk!validateGatewayMessage(history[k_]) \/ history[k_].content = "long"
    BY DEF Talk!Continues
  <2>2. history[k_] \in TalkMessage
    BY ElementOfSeq, LenProperties DEF TalkInv
  <2> QED BY <2>2 DEF TalkMessage
<1>2. Talk!CallsTold
  BY DistinctIs DEF TalkInv, Talk!CallsTold
<1>3. Talk!TypeOK
  <2>1. ASSUME NEW k_ \in DOMAIN history
        PROVE  history[k_].role \in {"user", "assistant", "tool"}
    <3>1. history[k_] \in TalkMessage
      BY ElementOfSeq, LenProperties DEF TalkInv
    <3> QED BY <3>1 DEF TalkMessage
  <2>2. Talk!Range(given) \subseteq Talk!LocalIds
    BY ElementOfSeq, LenProperties DEF TalkInv, Talk!Range
  <2> QED BY <2>1, <2>2 DEF TalkInv, TalkPayload, TalkAnswer, Talk!TypeOK
<1> QED BY <1>1, <1>2, <1>3, AnswerableIs

\* Of the part that it is here.
TalkPart == part = "talk" => TalkInv

\* No other part touches it.
LEMMA TalkPartInvariant == ServicesSpec => []TalkPart
<1>1. ServicesInit => TalkPart
  BY TalkInitial DEF ServicesInit, Chosen, TalkPart
<1>2. TalkPart /\ [ServicesNext]_vars => TalkPart'
  <2> SUFFICES ASSUME TalkPart, [ServicesNext]_vars, part' = "talk"
               PROVE  TalkInv'
    BY DEF TalkPart
  <2>1. CASE part = "talk" /\ Talk!Next
    BY <2>1, TalkStep DEF TalkPart
  <2>2. CASE part' = part /\ UNCHANGED talkVars
    BY <2>2 DEF talkVars, TalkPart, TalkInv, TalkPayload, TalkAnswer, Talk!validateAssistantObject
  <2>3. part' = part /\ (part = "talk" => TalkNext \/ UNCHANGED talkVars)
    <3>1. CASE ServicesNext
      BY Zenon, <3>1 DEF ServicesNext, SchedulingNext, MemoryNext, TokensNext, ConsentNext, McpNext,
      ActivityNext, AuditNext, GraphNext, JobsNext, WakeNext, LaunchNext, CliNext, HostNext,
      DomainNext, TalkNext, LocalNext, HelperNext, BrowserNext, InstallNext, UpgradeNext, LinksNext,
      ListenerNext, RunNext, WaitsNext
    <3>2. CASE UNCHANGED vars
      BY <3>2 DEF vars, aroundVars, endVars
    <3> QED BY <3>1, <3>2
  <2> QED BY <2>1, <2>2, <2>3 DEF TalkNext
<1> QED BY <1>1, <1>2, PTL DEF ServicesSpec

-----------------------------------------------------------------------------
(* The desktop helper (ComputerHelper). *)

\* The bounds.
LEMMA HelperAssumed ==
  /\ MaxActions \in Nat /\ MaxHelpers \in Nat /\ MaxOddLines \in Nat
  /\ Helper!Operations = 1 .. MaxActions /\ Helper!Helpers = 1 .. MaxHelpers
BY PartsAssumption DEF Helper!HelperAssumption, Helper!Operations, Helper!Helpers

\* By the well-foundedness of strict inclusion: the least number of a set is the one
\* with the smallest interval below it.
LEMMA LeastIs ==
  ASSUME NEW ids \in SUBSET Nat, ids # {}
  PROVE  Helper!Min(ids) \in ids /\ \A j \in ids : Helper!Min(ids) <= j
<1> DEFINE R == StrictSubsetOrdering(Nat)
<1> DEFINE T == {0 .. i : i \in ids}
<1>1. IsWellFoundedOn(R, FiniteSubsetsOf(Nat))
  BY FS_StrictSubsetOrderingWellFounded
<1>2. \A i \in ids : 0 .. i \in FiniteSubsetsOf(Nat)
  <2>1. ASSUME NEW i \in ids  PROVE IsFiniteSet(0 .. i) /\ 0 .. i \in SUBSET Nat
    BY FS_Interval, i \in Int, 0 \in Int
  <2> QED BY <2>1 DEF FiniteSubsetsOf
<1>3. T \subseteq FiniteSubsetsOf(Nat) /\ T # {}
  BY <1>2
<1>4. \E t \in T : \A v \in T : <<v, t>> \notin R
  <2> HIDE DEF R, T
  <2> QED BY <1>1, <1>3, WFMin
<1>5. PICK i \in ids : \A v \in T : <<v, 0 .. i>> \notin R
  BY <1>4
<1>6. ASSUME NEW j \in ids  PROVE i <= j
  <2>1. <<0 .. j, 0 .. i>> \notin R
    BY <1>5
  <2>2. SUFFICES ASSUME j < i PROVE FALSE
    BY i \in Nat, j \in Nat
  <2>3. 0 .. j \subseteq 0 .. i /\ i \in 0 .. i /\ i \notin 0 .. j
    BY <2>2, i \in Nat, j \in Nat
  <2>4. 0 .. j \in SUBSET Nat /\ 0 .. i \in SUBSET Nat /\ 0 .. j # 0 .. i
    BY <2>3, i \in Nat, j \in Nat
  <2> QED BY <2>1, <2>3, <2>4 DEF StrictSubsetOrdering
<1> QED BY <1>6 DEF Helper!Min

\* The types of the operations and of the helpers.
OperationRecord ==
  [at : {"new", "queued", "sent", "done", "failed"}, id : 0 .. MaxActions, answer : 0 .. MaxActions]

HelperLines == 1 .. MaxActions \cup {-1, -2}

HelperRecord ==
  [at : {"none", "running", "exited"}, killed : BOOLEAN, sent : Seq(1 .. MaxActions),
   output : Seq(HelperLines)]

HelperTyped ==
  /\ helperOperations \in [1 .. MaxActions -> OperationRecord]
  /\ helpers \in [1 .. MaxHelpers -> HelperRecord]
  /\ child \in 0 .. MaxHelpers /\ pendingRequest \in 0 .. MaxActions
  /\ nextId \in 1 .. MaxActions + 1 /\ oddLines \in 0 .. MaxOddLines
  /\ forgotten \subseteq 1 .. MaxHelpers

\* How an operation o stands in the queue: they join it and are sent in the order of
\* their numbers, the one that is sent is the last that was, and it has its number.
InTurn(o, op) ==
  /\ op.at \in {"new", "queued"} <=> o >= nextId
  /\ op.at = "sent" => o = nextId - 1 /\ op.id = o /\ pendingRequest = o
  /\ op.at = "done" => op.answer = op.id

\* The invariant: the operations are in turn, and every helper is accounted for.
HelperInv ==
  /\ HelperTyped
  /\ \A o \in 1 .. MaxActions :
       /\ InTurn(o, helperOperations[o])
       /\ helperOperations[o].at # "new" => \A p \in 1 .. o - 1 : helperOperations[p].at # "new"
  /\ Helper!HelpersAccounted

\* The fields of an operation ...
LEMMA OperationIs ==
  ASSUME NEW a \in OperationRecord
  PROVE  /\ a.at \in {"new", "queued", "sent", "done", "failed"}
         /\ a.id \in 0 .. MaxActions /\ a.answer \in 0 .. MaxActions
         /\ a = [at |-> a.at, id |-> a.id, answer |-> a.answer]
BY DEF OperationRecord

\* ... and those of a helper.
LEMMA HelperIs ==
  ASSUME NEW h \in HelperRecord
  PROVE  /\ h.at \in {"none", "running", "exited"} /\ h.killed \in BOOLEAN
         /\ h.sent \in Seq(1 .. MaxActions) /\ h.output \in Seq(HelperLines)
         /\ h = [at |-> h.at, killed |-> h.killed, sent |-> h.sent, output |-> h.output]
BY DEF HelperRecord

\* A helper of which one field changes.
LEMMA HelperWith ==
  ASSUME NEW p, NEW q, NEW r, NEW s, NEW v,
         NEW g, g = [at |-> p, killed |-> q, sent |-> r, output |-> s]
  PROVE  /\ [g EXCEPT !.at = v] = [at |-> v, killed |-> q, sent |-> r, output |-> s]
         /\ [g EXCEPT !.killed = v] = [at |-> p, killed |-> v, sent |-> r, output |-> s]
         /\ [g EXCEPT !.sent = v] = [at |-> p, killed |-> q, sent |-> v, output |-> s]
         /\ [g EXCEPT !.output = v] = [at |-> p, killed |-> q, sent |-> r, output |-> v]
OBVIOUS

\* None exists at first.
LEMMA HelperInitial ==
  ASSUME Helper!Init
  PROVE  HelperInv
<1>1. /\ helperOperations = [o \in 1 .. MaxActions |-> [at |-> "new", id |-> 0, answer |-> 0]]
      /\ helpers = [h \in 1 .. MaxHelpers |->
                      [at |-> "none", killed |-> FALSE, sent |-> <<>>, output |-> <<>>]]
      /\ child = 0 /\ pendingRequest = 0 /\ nextId = 1 /\ oddLines = 0 /\ forgotten = {}
  BY HelperAssumed DEF Helper!Init, Helper!NoHelper, Helper!Nothing
<1>2. [at |-> "new", id |-> 0, answer |-> 0] \in OperationRecord
  BY HelperAssumed DEF OperationRecord
<1>3. [at |-> "none", killed |-> FALSE, sent |-> <<>>, output |-> <<>>] \in HelperRecord
  BY DEF HelperRecord
<1>4. HelperTyped
  BY <1>1, <1>2, <1>3, HelperAssumed DEF HelperTyped
<1>5. Helper!HelpersAccounted
  BY <1>1, HelperAssumed DEF Helper!HelpersAccounted
<1>6. \A o \in 1 .. MaxActions : InTurn(o, helperOperations[o])
  BY <1>1 DEF InTurn
<1> QED BY <1>1, <1>4, <1>5, <1>6 DEF HelperInv

-----------------------------------------------------------------------------
(* What a step does to the operations, and what it does to the helpers. *)

\* The end of the pending operation, or of none: nobody waits any more.
LEMMA SettledKeeps ==
  ASSUME HelperInv, NEW at \in {"done", "failed"}, NEW answer_ \in 0 .. MaxActions,
         at = "done" => answer_ = pendingRequest,
         helperOperations' = Helper!Settled(at, answer_), pendingRequest' = 0, nextId' = nextId
  PROVE  /\ helperOperations' \in [1 .. MaxActions -> OperationRecord]
         /\ \A o \in 1 .. MaxActions :
              /\ InTurn(o, helperOperations[o])'
              /\ helperOperations'[o].at = "new" <=> helperOperations[o].at = "new"
<1>1. helperOperations \in [1 .. MaxActions -> OperationRecord] /\ nextId \in Nat
  BY HelperAssumed DEF HelperInv, HelperTyped
<1>2. ASSUME NEW o \in 1 .. MaxActions
      PROVE  /\ helperOperations'[o] \in OperationRecord
             /\ InTurn(o, helperOperations[o])'
             /\ helperOperations'[o].at = "new" <=> helperOperations[o].at = "new"
  <2>1. PICK a : a = helperOperations[o]
    OBVIOUS
  <2>2. a \in OperationRecord /\ InTurn(o, a)
    BY <1>1, <2>1 DEF HelperInv
  <2>3. CASE a.at = "sent"
    <3>1. a.id = pendingRequest
      BY <2>2, <2>3 DEF InTurn
    <3>2. helperOperations'[o] = [a EXCEPT !.at = at, !.answer = answer_]
      BY <2>1, <2>3, <3>1, HelperAssumed DEF Helper!Settled
    <3>3. helperOperations'[o] = [at |-> at, id |-> a.id, answer |-> answer_]
      BY <2>2, <3>2, OperationIs
    <3>4. helperOperations'[o] \in OperationRecord
      BY <2>2, <3>3, OperationIs DEF OperationRecord
    <3>5. InTurn(o, helperOperations[o])'
      BY <1>1, <2>2, <2>3, <3>1, <3>3 DEF InTurn
    <3> QED BY <2>1, <2>3, <3>3, <3>4, <3>5
  <2>4. CASE a.at # "sent"
    <3>1. helperOperations'[o] = a
      BY <2>1, <2>4, HelperAssumed DEF Helper!Settled
    <3> QED BY <2>1, <2>2, <2>4, <3>1 DEF InTurn
  <2> QED BY <2>3, <2>4
<1>3. helperOperations' = [o \in 1 .. MaxActions |-> helperOperations'[o]]
  BY HelperAssumed DEF Helper!Settled
<1> QED BY <1>2, <1>3

\* Nothing happens to the operations.
LEMMA TurnsKept ==
  ASSUME HelperInv, UNCHANGED <<helperOperations, pendingRequest, nextId>>
  PROVE  \A o \in 1 .. MaxActions :
           /\ InTurn(o, helperOperations[o])'
           /\ helperOperations'[o].at = "new" <=> helperOperations[o].at = "new"
BY DEF HelperInv, InTurn

\* One helper h becomes g.
LEMMA HelpersMoved ==
  ASSUME HelperInv, NEW h \in 1 .. MaxHelpers, NEW g \in HelperRecord,
         helpers' = [helpers EXCEPT ![h] = g],
         forgotten \subseteq forgotten', forgotten' \subseteq 1 .. MaxHelpers,
         g.at = "running" => h = child' \/ g.killed \/ h \in forgotten',
         child' = child \/ child = h \/ child \in forgotten' \/ child \notin 1 .. MaxHelpers
           \/ helpers[child].at # "running" \/ helpers[child].killed
  PROVE  /\ helpers' \in [1 .. MaxHelpers -> HelperRecord]
         /\ Helper!HelpersAccounted'
<1>1. helpers \in [1 .. MaxHelpers -> HelperRecord]
  BY DEF HelperInv, HelperTyped
<1>2. ASSUME NEW i \in 1 .. MaxHelpers, helpers'[i].at = "running"
      PROVE  i = child' \/ helpers'[i].killed \/ i \in forgotten'
  <2>1. CASE i = h
    BY <1>1, <1>2, <2>1
  <2>2. CASE i # h
    <3>1. helpers'[i] = helpers[i]
      BY <1>1, <2>2
    <3>2. i = child \/ helpers[i].killed \/ i \in forgotten
      BY <1>2, <3>1, HelperAssumed DEF HelperInv, Helper!HelpersAccounted
    <3> QED BY <1>2, <2>2, <3>1, <3>2
  <2> QED BY <2>1, <2>2
<1> QED BY <1>1, <1>2, HelperAssumed DEF Helper!HelpersAccounted

\* An operation joins the queue when those before it have.
LEMMA SubmitKeeps ==
  ASSUME HelperInv, NEW o \in 1 .. MaxActions, Helper!Submit(o)
  PROVE  HelperInv'
<1>1. PICK a : a = helperOperations[o]
  OBVIOUS
<1>2. /\ a.at = "new" /\ \A p \in 1 .. o - 1 : helperOperations[p].at # "new"
      /\ helperOperations' = [helperOperations EXCEPT ![o].at = "queued"]
      /\ UNCHANGED <<helpers, child, pendingRequest, nextId, oddLines, forgotten>>
  BY <1>1 DEF Helper!Submit
<1>3. helperOperations \in [1 .. MaxActions -> OperationRecord] /\ a \in OperationRecord
      /\ InTurn(o, a)
  BY <1>1 DEF HelperInv, HelperTyped
<1>4. PICK b : b = [a EXCEPT !.at = "queued"]
  OBVIOUS
<1>5. helperOperations' = [helperOperations EXCEPT ![o] = b]
  BY <1>1, <1>2, <1>4
<1>6. b = [at |-> "queued", id |-> a.id, answer |-> a.answer]
  BY <1>3, <1>4, OperationIs
<1>7. b \in OperationRecord
  BY <1>3, <1>6, OperationIs DEF OperationRecord
<1>8. ASSUME NEW p \in 1 .. MaxActions
      PROVE  /\ InTurn(p, helperOperations[p])'
             /\ helperOperations'[p].at # "new" => \A r \in 1 .. p - 1 : helperOperations'[r].at # "new"
  <2>1. helperOperations'[p] = IF p = o THEN b ELSE helperOperations[p]
    BY <1>3, <1>5
  <2>2. InTurn(p, helperOperations[p])'
    <3>1. InTurn(p, helperOperations[p])
      BY DEF HelperInv
    <3>2. CASE p = o
      BY <1>2, <1>3, <1>6, <2>1, <3>2 DEF InTurn
    <3>3. CASE p # o
      BY <1>2, <2>1, <3>1, <3>3 DEF InTurn
    <3> QED BY <3>2, <3>3
  <2>3. ASSUME helperOperations'[p].at # "new", NEW r \in 1 .. p - 1
        PROVE  helperOperations'[r].at # "new"
    <3>1. r \in 1 .. MaxActions
      BY HelperAssumed
    <3>2. helperOperations'[r] = IF r = o THEN b ELSE helperOperations[r]
      BY <1>3, <1>5, <3>1
    <3>3. helperOperations[r].at # "new" \/ r = o
      <4>1. CASE p = o
        BY <1>2, <4>1
      <4>2. CASE p # o
        BY <2>1, <2>3, <4>2 DEF HelperInv
      <4> QED BY <4>1, <4>2
    <3> QED BY <1>6, <3>2, <3>3
  <2> QED BY <2>2, <2>3
<1>9. HelperTyped'
  <2>1. helperOperations' \in [1 .. MaxActions -> OperationRecord]
    BY <1>3, <1>5, <1>7
  <2> QED BY <1>2, <2>1 DEF HelperInv, HelperTyped
<1>10. Helper!HelpersAccounted'
  BY <1>2 DEF HelperInv, Helper!HelpersAccounted
<1> QED BY <1>8, <1>9, <1>10 DEF HelperInv

\* The next one is sent, by the helper in use or by a new one, or cannot be.
LEMMA RequestKeeps ==
  ASSUME HelperInv, NEW o \in 1 .. MaxActions, Helper!Request(o)
  PROVE  HelperInv'
<1> DEFINE waiting == Helper!Unfinished
<1>1. helperOperations \in [1 .. MaxActions -> OperationRecord]
      /\ helpers \in [1 .. MaxHelpers -> HelperRecord]
  BY DEF HelperInv, HelperTyped
<1>2. PICK a : a = helperOperations[o]
  OBVIOUS
<1>3. a.at = "queued" /\ a \in OperationRecord /\ InTurn(o, a)
  BY <1>1, <1>2 DEF HelperInv, Helper!Request
<1>4. o = nextId
  <2>1. nextId \in 1 .. o
    BY <1>3, HelperAssumed DEF InTurn, HelperInv, HelperTyped
  <2>2. helperOperations[nextId].at = "queued"
    <3>1. InTurn(nextId, helperOperations[nextId]) /\ nextId \in 1 .. MaxActions
      BY <2>1, HelperAssumed DEF HelperInv
    <3>2. helperOperations[nextId].at # "new"
      <4>1. CASE nextId = o
        BY <1>2, <1>3, <4>1
      <4>2. CASE nextId # o
        BY <1>2, <1>3, <2>1, <4>2, HelperAssumed DEF HelperInv
      <4> QED BY <4>1, <4>2
    <3> QED BY <3>1, <3>2, HelperAssumed DEF InTurn
  <2>3. nextId \in waiting /\ waiting \in SUBSET Nat /\ o = Helper!Min(waiting)
    BY <2>1, <2>2, HelperAssumed DEF Helper!Unfinished, Helper!Request
  <2>4. o <= nextId
    BY <2>3, LeastIs
  <2> QED BY <2>1, <2>4
<1>5. \A p \in 1 .. MaxActions : helperOperations[p].at # "sent"
  <2>1. SUFFICES ASSUME NEW p \in 1 .. MaxActions, helperOperations[p].at = "sent"
                 PROVE  FALSE
    OBVIOUS
  <2>2. p = o - 1
    BY <1>4, <2>1 DEF HelperInv, InTurn
  <2>3. p \in waiting /\ waiting \in SUBSET Nat /\ o = Helper!Min(waiting)
    BY <2>1, HelperAssumed DEF Helper!Unfinished, Helper!Request
  <2>4. o <= p
    BY <2>3, LeastIs
  <2> QED BY <2>2, <2>4
<1>6. PICK h \in 1 .. MaxHelpers :
        /\ IF Helper!usable THEN h = child ELSE Helper!Unstarted # {} /\ h = Helper!Min(Helper!Unstarted)
        /\ child' = h /\ nextId' = nextId + 1
        /\ \/ /\ helperOperations' = [helperOperations EXCEPT ![o] = [@ EXCEPT !.at = "sent", !.id = nextId]]
              /\ helpers' = [helpers EXCEPT ![h].at = "running", ![h].sent = Append(@, nextId)]
              /\ pendingRequest' = nextId
           \/ /\ helperOperations' = [helperOperations EXCEPT ![o].at = "failed"]
              /\ helpers' = [helpers EXCEPT ![h].at = "running"]
              /\ UNCHANGED pendingRequest
  BY HelperAssumed DEF Helper!Request
<1>7. UNCHANGED <<oddLines, forgotten>>
  BY DEF Helper!Request
<1>8. PICK g : g = helpers[h]
  OBVIOUS
<1>9. g \in HelperRecord
  BY <1>1, <1>8
<1>10. h = child \/ child \notin 1 .. MaxHelpers \/ helpers[child].at # "running" \/ helpers[child].killed
  <2>1. CASE Helper!usable
    BY <1>6, <2>1
  <2>2. CASE ~Helper!usable
    BY <2>2, HelperAssumed DEF Helper!usable, Helper!Nothing
  <2> QED BY <2>1, <2>2
<1>11. PICK b : /\ b \in {[at |-> "sent", id |-> nextId, answer |-> a.answer],
                             [at |-> "failed", id |-> a.id, answer |-> a.answer]}
                /\ helperOperations' = [helperOperations EXCEPT ![o] = b]
                /\ b.at = "sent" => pendingRequest' = nextId
                /\ pendingRequest' \in {pendingRequest, nextId}
  <2>1. CASE /\ helperOperations' = [helperOperations EXCEPT ![o] = [@ EXCEPT !.at = "sent", !.id = nextId]]
             /\ pendingRequest' = nextId
    <3>1. [a EXCEPT !.at = "sent", !.id = nextId] = [at |-> "sent", id |-> nextId, answer |-> a.answer]
      <4>1. PICK c : c = [a EXCEPT !.at = "sent"]
        OBVIOUS
      <4>2. c = [at |-> "sent", id |-> a.id, answer |-> a.answer]
        BY <1>3, <4>1, OperationIs
      <4>3. [a EXCEPT !.at = "sent", !.id = nextId] = [c EXCEPT !.id = nextId]
        BY <4>1
      <4>4. [c EXCEPT !.id = nextId] = [at |-> "sent", id |-> nextId, answer |-> a.answer]
        BY <4>2
      <4> QED BY <4>3, <4>4
    <3>2. helperOperations' = [helperOperations EXCEPT ![o] = [a EXCEPT !.at = "sent", !.id = nextId]]
      BY <1>2, <2>1
    <3> QED BY <2>1, <3>1, <3>2
  <2>2. CASE /\ helperOperations' = [helperOperations EXCEPT ![o].at = "failed"]
             /\ UNCHANGED pendingRequest
    <3>1. [a EXCEPT !.at = "failed"] = [at |-> "failed", id |-> a.id, answer |-> a.answer]
      BY <1>3, OperationIs
    <3>2. helperOperations' = [helperOperations EXCEPT ![o] = [a EXCEPT !.at = "failed"]]
      BY <1>2, <2>2
    <3> QED BY <2>2, <3>1, <3>2
  <2> QED BY <1>6, <2>1, <2>2
<1>12. b \in OperationRecord
  BY <1>3, <1>4, <1>11, OperationIs DEF OperationRecord
<1>13. PICK f \in HelperRecord : helpers' = [helpers EXCEPT ![h] = f]
  <2>1. CASE helpers' = [helpers EXCEPT ![h].at = "running", ![h].sent = Append(@, nextId)]
    <3>1. PICK e : e = [g EXCEPT !.at = "running"]
      OBVIOUS
    <3>2. e = [at |-> "running", killed |-> g.killed, sent |-> g.sent, output |-> g.output]
      BY <1>9, <3>1, HelperIs
    <3>3. PICK f : f = [e EXCEPT !.sent = Append(g.sent, nextId)]
      OBVIOUS
    <3>4. f = [at |-> "running", killed |-> g.killed, sent |-> Append(g.sent, nextId),
               output |-> g.output]
      BY Zenon, <3>2, <3>3, HelperWith
    <3>5. Append(g.sent, nextId) \in Seq(1 .. MaxActions)
      BY <1>4, <1>9, HelperIs
    <3>6. f \in HelperRecord
      BY <1>9, <3>4, <3>5, HelperIs DEF HelperRecord
    <3>7. helpers' = [helpers EXCEPT ![h] = f]
      BY <1>1, <1>8, <2>1, <3>1, <3>2, <3>3
    <3> QED BY <3>6, <3>7
  <2>2. CASE helpers' = [helpers EXCEPT ![h].at = "running"]
    <3>1. helpers' = [helpers EXCEPT ![h] = [g EXCEPT !.at = "running"]]
      BY <1>8, <2>2
    <3>2. [g EXCEPT !.at = "running"]
            = [at |-> "running", killed |-> g.killed, sent |-> g.sent, output |-> g.output]
      BY <1>9, HelperIs
    <3>3. [at |-> "running", killed |-> g.killed, sent |-> g.sent, output |-> g.output] \in HelperRecord
      BY <1>9, HelperIs DEF HelperRecord
    <3> QED BY <3>1, <3>2, <3>3
  <2> QED BY <1>6, <2>1, <2>2
<1>14. helpers' \in [1 .. MaxHelpers -> HelperRecord] /\ Helper!HelpersAccounted'
  <2>1. child' = h /\ forgotten' = forgotten /\ forgotten \subseteq 1 .. MaxHelpers
    BY <1>6, <1>7 DEF HelperInv, HelperTyped
  <2> QED BY <1>10, <1>13, <2>1, HelpersMoved
<1>15. \A p \in 1 .. MaxActions :
         helperOperations'[p] = IF p = o THEN b ELSE helperOperations[p]
  BY <1>1, <1>11
<1>16. HelperTyped'
  <2>1. helperOperations' \in [1 .. MaxActions -> OperationRecord]
    BY <1>1, <1>11, <1>12
  <2>2. child' \in 0 .. MaxHelpers /\ pendingRequest' \in 0 .. MaxActions
    BY <1>4, <1>6, <1>11, HelperAssumed DEF HelperInv, HelperTyped
  <2>3. nextId' \in 1 .. MaxActions + 1
    BY <1>4, <1>6, HelperAssumed
  <2> QED BY <1>7, <1>14, <2>1, <2>2, <2>3 DEF HelperInv, HelperTyped
<1>17. ASSUME NEW p \in 1 .. MaxActions
       PROVE  /\ InTurn(p, helperOperations[p])'
              /\ helperOperations'[p].at = "new" <=> helperOperations[p].at = "new"
  <2>1. InTurn(p, helperOperations[p]) /\ nextId' = o + 1
    BY <1>4, <1>6 DEF HelperInv
  <2>2. CASE p = o
    BY <1>2, <1>3, <1>4, <1>11, <1>15, <2>1, <2>2 DEF InTurn
  <2>3. CASE p # o
    BY <1>4, <1>5, <1>15, <2>1, <2>3 DEF InTurn
  <2> QED BY <2>2, <2>3
<1>18. \A p \in 1 .. MaxActions :
         helperOperations'[p].at # "new" => \A r \in 1 .. p - 1 : helperOperations'[r].at # "new"
  BY <1>17, HelperAssumed DEF HelperInv
<1> QED BY <1>14, <1>16, <1>17, <1>18 DEF HelperInv

\* One helper changes, and no operation.
LEMMA HelperChanges ==
  ASSUME HelperInv, NEW h \in 1 .. MaxHelpers, NEW g \in HelperRecord,
         helpers' = [helpers EXCEPT ![h] = g], g.at = helpers[h].at,
         g.killed = helpers[h].killed, oddLines' \in 0 .. MaxOddLines,
         UNCHANGED <<helperOperations, child, pendingRequest, nextId, forgotten>>
  PROVE  HelperInv'
<1>1. forgotten \subseteq 1 .. MaxHelpers
  BY DEF HelperInv, HelperTyped
<1>2. g.at = "running" => h = child' \/ g.killed \/ h \in forgotten'
  BY HelperAssumed DEF HelperInv, Helper!HelpersAccounted
<1>3. helpers' \in [1 .. MaxHelpers -> HelperRecord] /\ Helper!HelpersAccounted'
  BY <1>1, <1>2, HelpersMoved
<1>4. HelperTyped'
  BY <1>3 DEF HelperInv, HelperTyped
<1> QED BY <1>3, <1>4, TurnsKept DEF HelperInv

\* The helper writes: the answer to what it was sent first, or a line that is none.
LEMMA WritesKeep ==
  ASSUME HelperInv, NEW h \in 1 .. MaxHelpers, Helper!Answer(h) \/ Helper!WriteOddLine(h)
  PROVE  HelperInv'
<1>1. PICK g : g = helpers[h]
  OBVIOUS
<1>2. g \in HelperRecord
  BY <1>1 DEF HelperInv, HelperTyped
<1>3. CASE Helper!Answer(h)
  <2>1. /\ g.sent # <<>>
        /\ helpers' = [helpers EXCEPT ![h].output = Append(@, Head(helpers[h].sent)), ![h].sent = Tail(@)]
        /\ UNCHANGED <<helperOperations, child, pendingRequest, nextId, oddLines, forgotten>>
    BY <1>1, <1>3 DEF Helper!Answer
  <2>2. PICK e : e = [g EXCEPT !.output = Append(g.output, Head(g.sent))]
    OBVIOUS
  <2>3. e = [at |-> g.at, killed |-> g.killed, sent |-> g.sent,
             output |-> Append(g.output, Head(g.sent))]
    <3>1. g = [at |-> g.at, killed |-> g.killed, sent |-> g.sent, output |-> g.output]
      BY <1>2, HelperIs
    <3> QED BY Zenon, <2>2, <3>1, HelperWith
  <2>4. PICK f : f = [e EXCEPT !.sent = Tail(g.sent)]
    OBVIOUS
  <2>5. f = [at |-> g.at, killed |-> g.killed, sent |-> Tail(g.sent),
             output |-> Append(g.output, Head(g.sent))]
    BY Zenon, <2>3, <2>4, HelperWith
  <2>6. Head(g.sent) \in HelperLines /\ Tail(g.sent) \in Seq(1 .. MaxActions)
    <3>1. g.sent \in Seq(1 .. MaxActions) /\ g.sent # <<>>
      BY <1>2, <2>1, HelperIs
    <3>2. Head(g.sent) \in 1 .. MaxActions /\ Tail(g.sent) \in Seq(1 .. MaxActions)
      BY <3>1, HeadTailProperties
    <3> QED BY <3>2 DEF HelperLines
  <2>7. Append(g.output, Head(g.sent)) \in Seq(HelperLines)
    BY <1>2, <2>6, HelperIs
  <2>8. f \in HelperRecord
    BY <1>2, <2>5, <2>6, <2>7, HelperIs DEF HelperRecord
  <2>9. helpers' = [helpers EXCEPT ![h] = f]
    BY <1>1, <2>1, <2>2, <2>3, <2>4 DEF HelperInv, HelperTyped
  <2>10. oddLines' \in 0 .. MaxOddLines
    BY <2>1 DEF HelperInv, HelperTyped
  <2> QED BY <1>1, <2>1, <2>5, <2>8, <2>9, <2>10, HelperChanges
<1>4. CASE Helper!WriteOddLine(h)
  <2>1. PICK line \in {-1, -2} : helpers' = [helpers EXCEPT ![h].output = Append(@, line)]
    BY <1>4 DEF Helper!WriteOddLine, Helper!Garbage, Helper!NoId
  <2>2. /\ UNCHANGED <<helperOperations, child, pendingRequest, nextId, forgotten>>
        /\ oddLines' \in 0 .. MaxOddLines
    BY <1>4, HelperAssumed DEF Helper!WriteOddLine, HelperInv, HelperTyped
  <2>3. PICK f : f = [g EXCEPT !.output = Append(g.output, line)]
    OBVIOUS
  <2>4. f = [at |-> g.at, killed |-> g.killed, sent |-> g.sent, output |-> Append(g.output, line)]
    <3>1. g = [at |-> g.at, killed |-> g.killed, sent |-> g.sent, output |-> g.output]
      BY <1>2, HelperIs
    <3> QED BY Zenon, <2>3, <3>1, HelperWith
  <2>5. Append(g.output, line) \in Seq(HelperLines)
    BY <1>2, HelperIs DEF HelperLines
  <2>6. f \in HelperRecord
    BY <1>2, <2>4, <2>5, HelperIs DEF HelperRecord
  <2>7. helpers' = [helpers EXCEPT ![h] = f]
    BY <1>1, <2>1, <2>3
  <2> QED BY <1>1, <2>2, <2>4, <2>6, <2>7, HelperChanges
<1> QED BY <1>3, <1>4

\* After the end of the pending operation the rest of the invariant is that of the helpers.
LEMMA SettledInvariant ==
  ASSUME HelperInv, NEW at \in {"done", "failed"}, NEW answer_ \in 0 .. MaxActions,
         at = "done" => answer_ = pendingRequest,
         helperOperations' = Helper!Settled(at, answer_), pendingRequest' = 0,
         UNCHANGED <<nextId, oddLines>>, child' \in 0 .. MaxHelpers,
         forgotten' \subseteq 1 .. MaxHelpers,
         helpers' \in [1 .. MaxHelpers -> HelperRecord], Helper!HelpersAccounted'
  PROVE  HelperInv'
<1>1. /\ helperOperations' \in [1 .. MaxActions -> OperationRecord]
      /\ \A o \in 1 .. MaxActions :
           /\ InTurn(o, helperOperations[o])'
           /\ helperOperations'[o].at = "new" <=> helperOperations[o].at = "new"
  BY SettledKeeps
<1>2. \A p \in 1 .. MaxActions :
        helperOperations'[p].at # "new" => \A r \in 1 .. p - 1 : helperOperations'[r].at # "new"
  BY <1>1, HelperAssumed DEF HelperInv
<1>3. HelperTyped'
  BY <1>1, HelperAssumed DEF HelperInv, HelperTyped
<1> QED BY <1>1, <1>2, <1>3 DEF HelperInv

\* A request that failed has no answer.
LEMMA FailedInvariant ==
  ASSUME HelperInv, helperOperations' = Helper!Settled("failed", 0), pendingRequest' = 0,
         UNCHANGED <<nextId, oddLines>>, child' \in 0 .. MaxHelpers,
         forgotten' \subseteq 1 .. MaxHelpers,
         helpers' \in [1 .. MaxHelpers -> HelperRecord], Helper!HelpersAccounted'
  PROVE  HelperInv'
<1>1. 0 \in 0 .. MaxActions /\ "failed" \in {"done", "failed"} /\ "failed" # "done"
  BY HelperAssumed
<1> QED BY <1>1, SettledInvariant

\* The request has waited for too long: its helper is told to end.
LEMMA TimeOutKeeps ==
  ASSUME HelperInv, Helper!TimeOut
  PROVE  HelperInv'
<1>1. /\ helpers' = Helper!stopHelper(helpers)
      /\ helperOperations' = Helper!Settled("failed", 0) /\ pendingRequest' = 0 /\ child' = 0
      /\ UNCHANGED <<nextId, oddLines, forgotten>>
  BY DEF Helper!TimeOut, Helper!Nothing
<1>2. helpers \in [1 .. MaxHelpers -> HelperRecord] /\ child \in 0 .. MaxHelpers
      /\ forgotten \subseteq 1 .. MaxHelpers
  BY DEF HelperInv, HelperTyped
<1>3. helpers' \in [1 .. MaxHelpers -> HelperRecord] /\ Helper!HelpersAccounted'
  <2>1. CASE child # 0 /\ helpers[child].at = "running"
    <3>1. child \in 1 .. MaxHelpers
      BY <1>2, <2>1, HelperAssumed
    <3>2. PICK g : g = helpers[child]
      OBVIOUS
    <3>3. PICK f : f = [g EXCEPT !.killed = TRUE]
      OBVIOUS
    <3>4. g \in HelperRecord
      BY <1>2, <3>1, <3>2
    <3>5. f = [at |-> g.at, killed |-> TRUE, sent |-> g.sent, output |-> g.output]
      <4>1. g = [at |-> g.at, killed |-> g.killed, sent |-> g.sent, output |-> g.output]
        BY <3>4, HelperIs
      <4> QED BY Zenon, <3>3, <4>1, HelperWith
    <3>6. f \in HelperRecord
      BY <3>4, <3>5, HelperIs DEF HelperRecord
    <3>7. helpers' = [helpers EXCEPT ![child] = f]
      BY <1>1, <2>1, <3>2, <3>3 DEF Helper!stopHelper, Helper!Nothing
    <3> QED BY <1>1, <1>2, <3>1, <3>5, <3>6, <3>7, HelpersMoved
  <2>2. CASE ~(child # 0 /\ helpers[child].at = "running")
    <3>1. helpers' = helpers
      BY <1>1, <2>2 DEF Helper!stopHelper, Helper!Nothing
    <3>2. Helper!HelpersAccounted'
      BY <1>1, <1>2, <2>2, <3>1, HelperAssumed DEF HelperInv, Helper!HelpersAccounted
    <3> QED BY <1>2, <3>1, <3>2
  <2> QED BY <2>1, <2>2
<1>4. 0 \in 0 .. MaxHelpers
  BY HelperAssumed
<1> QED BY <1>1, <1>2, <1>3, <1>4, FailedInvariant

\* A line is read: it answers the pending request, fails it, or ends the use of the
\* helper, whichever helper wrote it.
LEMMA ReadKeeps ==
  ASSUME HelperInv, NEW h \in 1 .. MaxHelpers, Helper!Read(h)
  PROVE  HelperInv'
<1>1. PICK g : g = helpers[h]
  OBVIOUS
<1>2. PICK line : line = Head(g.output)
  OBVIOUS
<1>3. /\ g.output # <<>> /\ helpers' = [helpers EXCEPT ![h].output = Tail(@)]
      /\ UNCHANGED <<nextId, oddLines>>
      /\ \/ /\ Helper!Answers(line)
            /\ helperOperations' = Helper!Settled("done", line) /\ pendingRequest' = 0
            /\ UNCHANGED <<child, forgotten>>
         \/ /\ line = -2 /\ pendingRequest # 0
            /\ helperOperations' = Helper!Settled("failed", 0) /\ pendingRequest' = 0
            /\ UNCHANGED <<child, forgotten>>
         \/ Helper!failHelper /\ forgotten' = forgotten \cup ({child} \ {0})
  BY <1>1, <1>2 DEF Helper!Read, Helper!Nothing, Helper!NoId
<1>4. helpers \in [1 .. MaxHelpers -> HelperRecord] /\ child \in 0 .. MaxHelpers
      /\ forgotten \subseteq 1 .. MaxHelpers /\ pendingRequest \in 0 .. MaxActions
      /\ g \in HelperRecord
  BY <1>1 DEF HelperInv, HelperTyped
<1>5. PICK f : f = [g EXCEPT !.output = Tail(g.output)]
  OBVIOUS
<1>6. f = [at |-> g.at, killed |-> g.killed, sent |-> g.sent, output |-> Tail(g.output)]
  <2>1. g = [at |-> g.at, killed |-> g.killed, sent |-> g.sent, output |-> g.output]
    BY <1>4, HelperIs
  <2> QED BY Zenon, <1>5, <2>1, HelperWith
<1>7. f \in HelperRecord
  <2>1. Tail(g.output) \in Seq(HelperLines)
    BY <1>3, <1>4, HelperIs
  <2> QED BY <1>4, <1>6, <2>1, HelperIs DEF HelperRecord
<1>8. helpers' = [helpers EXCEPT ![h] = f]
  BY <1>1, <1>3, <1>5
<1>9. g.at = "running" => h = child \/ g.killed \/ h \in forgotten
  BY <1>1, HelperAssumed DEF HelperInv, Helper!HelpersAccounted
<1>10. CASE child' = child /\ forgotten' = forgotten
  <2>1. helpers' \in [1 .. MaxHelpers -> HelperRecord] /\ Helper!HelpersAccounted'
    BY <1>4, <1>6, <1>7, <1>8, <1>9, <1>10, HelpersMoved
  <2>2. CASE Helper!Answers(line) /\ helperOperations' = Helper!Settled("done", line) /\ pendingRequest' = 0
    <3>1. line = pendingRequest
      BY <2>2 DEF Helper!Answers
    <3>2. "done" \in {"done", "failed"} /\ line \in 0 .. MaxActions
      BY <1>4, <3>1
    <3> QED BY <1>3, <1>4, <1>10, <2>1, <2>2, <3>1, <3>2, SettledInvariant
  <2>3. CASE helperOperations' = Helper!Settled("failed", 0) /\ pendingRequest' = 0
    BY <1>3, <1>4, <1>10, <2>1, <2>3, FailedInvariant
  <2>4. CASE Helper!failHelper
    BY <1>3, <1>4, <1>10, <2>1, <2>4, FailedInvariant
      DEF Helper!failHelper, Helper!Nothing
  <2> QED BY <1>3, <2>2, <2>3, <2>4
<1>11. CASE Helper!failHelper /\ forgotten' = forgotten \cup ({child} \ {0})
  <2>1. /\ helperOperations' = Helper!Settled("failed", 0) /\ pendingRequest' = 0 /\ child' = 0
    BY <1>11 DEF Helper!failHelper, Helper!Nothing
  <2>2. forgotten' \subseteq 1 .. MaxHelpers
    BY <1>4, <1>11, HelperAssumed
  <2>3. child \in forgotten' \/ child \notin 1 .. MaxHelpers
    BY <1>4, <1>11, HelperAssumed
  <2>4. f.at = "running" => h = child' \/ f.killed \/ h \in forgotten'
    BY <1>6, <1>9, <1>11, HelperAssumed
  <2>5. forgotten \subseteq forgotten'
    BY <1>11
  <2>6. helpers' \in [1 .. MaxHelpers -> HelperRecord] /\ Helper!HelpersAccounted'
    BY <1>7, <1>8, <2>2, <2>3, <2>4, <2>5, HelpersMoved
  <2>7. child' \in 0 .. MaxHelpers
    BY <2>1, HelperAssumed
  <2> QED BY <1>3, <2>1, <2>2, <2>6, <2>7, FailedInvariant
<1> QED BY <1>3, <1>10, <1>11

\* A helper exits; when it was in use, the pending request fails.
LEMMA ExitKeeps ==
  ASSUME HelperInv, NEW h \in 1 .. MaxHelpers, Helper!Exit(h)
  PROVE  HelperInv'
<1>1. PICK g : g = helpers[h]
  OBVIOUS
<1>2. /\ helpers' = [helpers EXCEPT ![h].at = "exited", ![h].sent = <<>>]
      /\ IF child = h THEN Helper!failHelper ELSE UNCHANGED <<helperOperations, pendingRequest, child>>
      /\ UNCHANGED <<nextId, oddLines, forgotten>>
  BY DEF Helper!Exit
<1>3. helpers \in [1 .. MaxHelpers -> HelperRecord] /\ child \in 0 .. MaxHelpers
      /\ forgotten \subseteq 1 .. MaxHelpers /\ g \in HelperRecord
  BY <1>1 DEF HelperInv, HelperTyped
<1>4. PICK e : e = [g EXCEPT !.at = "exited"]
  OBVIOUS
<1>5. e = [at |-> "exited", killed |-> g.killed, sent |-> g.sent, output |-> g.output]
  BY <1>3, <1>4, HelperIs
<1>6. PICK f : f = [e EXCEPT !.sent = <<>>]
  OBVIOUS
<1>7. f = [at |-> "exited", killed |-> g.killed, sent |-> <<>>, output |-> g.output]
  BY <1>5, <1>6
<1>8. f \in HelperRecord
  BY <1>3, <1>7, HelperIs DEF HelperRecord
<1>9. helpers' = [helpers EXCEPT ![h] = f]
  BY <1>1, <1>2, <1>3, <1>4, <1>5, <1>6
<1>10. CASE child = h
  <2>1. /\ helperOperations' = Helper!Settled("failed", 0) /\ pendingRequest' = 0 /\ child' = 0
    BY <1>2, <1>10 DEF Helper!failHelper, Helper!Nothing
  <2>2. helpers' \in [1 .. MaxHelpers -> HelperRecord] /\ Helper!HelpersAccounted'
    BY <1>2, <1>3, <1>7, <1>8, <1>9, <1>10, HelpersMoved
  <2>3. child' \in 0 .. MaxHelpers
    BY <2>1, HelperAssumed
  <2> QED BY <1>2, <1>3, <2>1, <2>2, <2>3, FailedInvariant
<1>11. CASE child # h
  <2>1. UNCHANGED <<helperOperations, pendingRequest, child>>
    BY <1>2, <1>11
  <2>2. helpers' \in [1 .. MaxHelpers -> HelperRecord] /\ Helper!HelpersAccounted'
    BY <1>2, <1>3, <1>7, <1>8, <1>9, <2>1, HelpersMoved
  <2>3. HelperTyped'
    BY <1>2, <2>1, <2>2 DEF HelperInv, HelperTyped
  <2> QED BY <1>2, <2>1, <2>2, <2>3, TurnsKept DEF HelperInv
<1> QED BY <1>10, <1>11

\* Every step keeps it.
LEMMA HelperStep ==
  ASSUME HelperInv, Helper!Next
  PROVE  HelperInv'
<1>1. \/ \E o \in 1 .. MaxActions : Helper!Submit(o) \/ Helper!Request(o)
      \/ Helper!TimeOut
      \/ \E h \in 1 .. MaxHelpers :
           Helper!Answer(h) \/ Helper!WriteOddLine(h) \/ Helper!Read(h) \/ Helper!Exit(h)
  BY HelperAssumed DEF Helper!Next
<1> QED BY <1>1, SubmitKeeps, RequestKeeps, TimeOutKeeps, WritesKeep, ReadKeeps, ExitKeeps

\* The invariant implies the properties.
LEMMA HelperContained ==
  ASSUME HelperInv
  PROVE  /\ Helper!TypeOK /\ Helper!OwnAnswer
         /\ Helper!OneAtATime /\ Helper!HelpersAccounted
<1>1. Helper!TypeOK
  BY HelperAssumed DEF HelperInv, HelperTyped, OperationRecord, HelperRecord, HelperLines,
    Helper!TypeOK, Helper!Nothing, Helper!Garbage, Helper!NoId
<1>2. Helper!OwnAnswer
  BY HelperAssumed DEF HelperInv, InTurn, Helper!OwnAnswer
<1>3. Helper!OneAtATime
  <2> DEFINE S == {o \in Helper!Operations : helperOperations[o].at = "sent"}
  <2>1. \A o \in S : o = nextId - 1 /\ helperOperations[o].id = pendingRequest
    BY HelperAssumed DEF HelperInv, InTurn
  <2>2. S = {} \/ S = {nextId - 1}
    BY <2>1
  <2>3. Cardinality({}) = 0 /\ Cardinality({nextId - 1}) = 1
    BY FS_EmptySet, FS_Singleton
  <2>4. Cardinality(S) <= 1
    BY <2>2, <2>3
  <2>5. Helper!Cardinality(S) <= 1
    BY <2>4 DEF Helper!Cardinality, Helper!IsFiniteSet, Cardinality, IsFiniteSet
  <2> QED BY <2>1, <2>5 DEF Helper!OneAtATime
<1> QED BY <1>1, <1>2, <1>3 DEF HelperInv

\* Of the part that it is here.
HelperPart == part = "helper" => HelperInv

\* No other part touches it.
LEMMA HelperPartInvariant == ServicesSpec => []HelperPart
<1>1. ServicesInit => HelperPart
  BY HelperInitial DEF ServicesInit, Chosen, HelperPart
<1>2. HelperPart /\ [ServicesNext]_vars => HelperPart'
  <2> SUFFICES ASSUME HelperPart, [ServicesNext]_vars, part' = "helper"
               PROVE  HelperInv'
    BY DEF HelperPart
  <2>1. CASE part = "helper" /\ Helper!Next
    BY <2>1, HelperStep DEF HelperPart
  <2>2. CASE part' = part /\ UNCHANGED helperVars
    BY <2>2 DEF helperVars, HelperPart, HelperInv, HelperTyped, InTurn, Helper!HelpersAccounted
  <2>3. part' = part /\ (part = "helper" => HelperNext \/ UNCHANGED helperVars)
    <3>1. CASE ServicesNext
      BY Zenon, <3>1 DEF ServicesNext, SchedulingNext, MemoryNext, TokensNext, ConsentNext, McpNext,
      ActivityNext, AuditNext, GraphNext, JobsNext, WakeNext, LaunchNext, CliNext, HostNext,
      DomainNext, TalkNext, LocalNext, HelperNext, BrowserNext, InstallNext, UpgradeNext, LinksNext,
      ListenerNext, RunNext, WaitsNext
    <3>2. CASE UNCHANGED vars
      BY <3>2 DEF vars, aroundVars, endVars
    <3> QED BY <3>1, <3>2
  <2> QED BY <2>1, <2>2, <2>3 DEF HelperNext
<1> QED BY <1>1, <1>2, PTL DEF ServicesSpec

-----------------------------------------------------------------------------
(* One command of the run tool (CommandRun). *)

\* The signals were sent by the timers that have run out, and a command that is still
\* waited for after it was forced is gone.
RunInv ==
  /\ Run!TypeOK /\ Run!ResultTrue /\ Run!ForcedIsGone
  /\ runCall \in {"idle", "resolving", "refused", "failed"} =>
       /\ process = "none" /\ grandchild = "none" /\ sent = {}
       /\ deadline = "off" /\ cancellation = "off"
  /\ runCall \in {"running", "returned"} => process # "none"
  /\ sent = {} <=> deadline \notin {"asked", "forced"} /\ cancellation = "off"
  /\ cancellation # "off" => aborted

\* Nothing runs at first.
LEMMA RunInitial ==
  ASSUME Run!Init
  PROVE  RunInv
BY DEF Run!Init, RunInv, Run!TypeOK, Run!ResultTrue, Run!ForcedIsGone, Run!Quietly

\* A signal never brings a process back.
LEMMA RunSignalled ==
  ASSUME RunInv, NEW sig \in {"SIGTERM", "SIGKILL"}, Run!terminateProcessTree(sig)
  PROVE  /\ process' \in {process, "gone"} /\ grandchild' \in {grandchild, "gone"}
         /\ process = "none" => process' = "none"
         /\ process # "none" => process' # "none"
         /\ process = "alive" /\ sig = "SIGKILL" => process' = "gone"
         /\ sent' = sent \cup {sig}
BY DEF Run!terminateProcessTree, Run!Ends

\* Forcing, too, and it leaves no process that was waited for.
LEMMA RunForced ==
  ASSUME RunInv, Run!Force, process # "none"
  PROVE  /\ process' = "gone" /\ grandchild' \in {grandchild, "gone"}
         /\ sent' \in {sent, sent \cup {"SIGKILL"}}
<1>1. CASE process = "alive"
  <2>1. Run!terminateProcessTree("SIGKILL")
    BY <1>1 DEF Run!Force
  <2> QED BY <1>1, <2>1, RunSignalled
<1>2. CASE process # "alive"
  BY <1>2 DEF Run!Force, RunInv, Run!TypeOK
<1> QED BY <1>1, <1>2

\* A step of the run tool, of the command or of its child keeps it.
LEMMA RunStep ==
  ASSUME RunInv, Run!Next
  PROVE  RunInv'
<1> USE DEF Run!TypeOK, Run!ResultTrue, Run!ForcedIsGone, Run!Quietly
<1>1. CASE Run!Begin
  BY <1>1 DEF RunInv, Run!Begin
<1>2. CASE Run!Spawn
  BY <1>2 DEF RunInv, Run!Spawn
<1>3. CASE Run!Fork
  BY <1>3 DEF RunInv, Run!Fork
<1>4. CASE Run!End
  BY <1>4 DEF RunInv, Run!End
<1>5. CASE Run!Deadline
  <2>1. runCall = "running" /\ process # "none"
        /\ UNCHANGED <<windows, stubborn, runCall, aborted, cancellation, result>>
    BY <1>5 DEF RunInv, Run!Deadline
  <2>2. CASE deadline = "armed" /\ deadline' = "asked" /\ Run!terminateProcessTree("SIGTERM")
    BY <2>1, <2>2, RunSignalled DEF RunInv
  <2>3. CASE deadline = "asked" /\ deadline' = "forced" /\ Run!Force
    BY <2>1, <2>3, RunForced DEF RunInv
  <2> QED BY <1>5, <2>2, <2>3 DEF Run!Deadline
<1>6. CASE Run!Abort
  <2>1. aborted' /\ UNCHANGED <<windows, stubborn, runCall, deadline, result>>
    BY <1>6 DEF Run!Abort
  <2>2. CASE runCall = "running"
    <3>1. cancellation' = "asked" /\ Run!terminateProcessTree("SIGTERM")
      BY <1>6, <2>2 DEF Run!Abort
    <3>2. cancellation = "off"
      BY <1>6 DEF RunInv, Run!Abort
    <3> QED BY <2>1, <2>2, <3>1, <3>2, RunSignalled DEF RunInv
  <2>3. CASE runCall # "running"
    <3>1. UNCHANGED <<cancellation, process, grandchild, sent>>
      BY <1>6, <2>3 DEF Run!Abort
    <3> QED BY <1>6, <2>1, <2>3, <3>1 DEF RunInv, Run!Abort
  <2> QED BY <2>2, <2>3
<1>7. CASE Run!ForceCancelled
  <2>1. /\ runCall = "running" /\ process # "none"
        /\ cancellation = "asked" /\ cancellation' = "forced" /\ Run!Force
        /\ UNCHANGED <<windows, stubborn, runCall, aborted, deadline, result>>
    BY <1>7 DEF RunInv, Run!ForceCancelled
  <2> QED BY <2>1, RunForced DEF RunInv
<1>8. CASE Run!Return
  <2>1. /\ runCall = "running" /\ runCall' = "returned" /\ process = "gone"
        /\ UNCHANGED <<windows, stubborn, aborted, process, grandchild, deadline, cancellation, sent>>
    BY <1>8 DEF Run!Return
  <2>2. PICK late_ : late_ = (deadline \in {"asked", "forced"})
    OBVIOUS
  <2>3. PICK stopped : stopped = (cancellation # "off")
    OBVIOUS
  <2>4. result' = [timedOut |-> late_, cancelled |-> stopped]
    BY Zenon, <1>8, <2>2, <2>3 DEF Run!Return
  <2>5. late_ \in BOOLEAN /\ stopped \in BOOLEAN
    BY SMT, <2>2, <2>3
  <2>6. late_ <=> deadline \in {"asked", "forced"}
    BY Zenon, <2>2
  <2>7. stopped <=> cancellation # "off"
    BY Zenon, <2>3
  <2>8. /\ result' \in [timedOut : BOOLEAN, cancelled : BOOLEAN]
        /\ result'.cancelled <=> cancellation # "off"
    BY <2>4, <2>5, <2>6, <2>7
  <2>9. result' = [timedOut |-> FALSE, cancelled |-> FALSE] <=> ~late_ /\ ~stopped
    BY <2>4, <2>5, <2>6, <2>7
  <2> QED BY <2>1, <2>8, <2>9, <2>6, <2>7 DEF RunInv
<1> QED BY <1>1, <1>2, <1>3, <1>4, <1>5, <1>6, <1>7, <1>8 DEF Run!Next

\* The invariant implies the properties.
LEMMA RunContained ==
  ASSUME RunInv
  PROVE  Run!TypeOK /\ Run!ResultTrue /\ Run!ForcedIsGone
BY DEF RunInv

\* Of the part that it is here.
RunPart == part = "run" => RunInv

\* No other part touches it.
LEMMA RunPartInvariant == ServicesSpec => []RunPart
<1>1. ServicesInit => RunPart
  BY RunInitial DEF ServicesInit, Chosen, RunPart
<1>2. RunPart /\ [ServicesNext]_vars => RunPart'
  <2> SUFFICES ASSUME RunPart, [ServicesNext]_vars, part' = "run"
               PROVE  RunInv'
    BY DEF RunPart
  <2>1. CASE part = "run" /\ Run!Next
    BY <2>1, RunStep DEF RunPart
  <2>2. CASE part' = part /\ UNCHANGED runVars
    BY <2>2 DEF runVars, RunPart, RunInv, Run!TypeOK, Run!ResultTrue, Run!ForcedIsGone, Run!Quietly
  <2>3. part' = part /\ (part = "run" => RunNext \/ UNCHANGED runVars)
    <3>1. CASE ServicesNext
      BY Zenon, <3>1 DEF ServicesNext, SchedulingNext, MemoryNext, TokensNext, ConsentNext, McpNext,
      ActivityNext, AuditNext, GraphNext, JobsNext, WakeNext, LaunchNext, CliNext, HostNext,
      DomainNext, TalkNext, LocalNext, HelperNext, BrowserNext, InstallNext, UpgradeNext, LinksNext,
      ListenerNext, RunNext, WaitsNext
    <3>2. CASE UNCHANGED vars
      BY <3>2 DEF vars, aroundVars, endVars
    <3> QED BY <3>1, <3>2
  <2> QED BY <2>1, <2>2, <2>3 DEF RunNext
<1> QED BY <1>1, <1>2, PTL DEF ServicesSpec

-----------------------------------------------------------------------------
\* Every request of a harness can be answered and no answer ends the conversation, an
\* operation on the desktop gets the answer to its own request however late others
\* arrive, and a command is reported as what became of it.
THEOREM AnswersBelongHolds == ServicesSpec => []AnswersBelong
<1>1. TalkPart /\ HelperPart /\ RunPart => AnswersBelong
  BY TalkContained, HelperContained, RunContained DEF TalkPart, HelperPart, RunPart, AnswersBelong
<1> QED BY <1>1, TalkPartInvariant, HelperPartInvariant, RunPartInvariant, PTL

-----------------------------------------------------------------------------
(* The installation of the programs of hosting (VerifiedInstall). *)

\* The constants.
LEMMA InstallAssumed == Install!InstallAssumption
BY PartsAssumption

\* Whoever is at work beside another is known to it.
InstallBeside(i, j) == i \in Install!Busy /\ j \in Install!Busy /\ i # j => installers[j].source \in installers[i].others

\* How an installer stands: what it puts in place was verified, and what it is about to
\* start is what it checked, or what another one put there.
InstallChecked(i) ==
  LET it == installers[i] IN
  /\ it.at \in {"remove", "place", "note"} => it.payload = it.source
  /\ it.at = "launch" =>
       \/ program \in {it.source} \cup it.others
       \/ program = None /\ it.others # {}
  /\ it.ran \in {None, it.source} \cup it.others
  /\ it.at # "idle" => it.source \in Sources

InstallInv ==
  /\ Install!TypeOK /\ record.program = record.source
  /\ \A i \in Installers : InstallChecked(i)
  /\ \A i, j \in Installers : InstallBeside(i, j)

InstallPlaces == {"idle", "look", "fetch", "verify", "remove", "place", "note", "check",
           "launch", "runs", "failed", "dead"}

InstallerRecord ==
  [at : InstallPlaces, source : Sources \cup {None}, payload : Sources \cup {None, Bad},
   ran : Sources \cup {None, Bad}, others : SUBSET Sources]

\* Before the first installer.
LEMMA InstallInitial ==
  ASSUME Install!Init  PROVE InstallInv
BY InstallAssumed DEF Install!Init, InstallInv, Install!TypeOK, Install!NoRecord, Install!Idle,
   InstallChecked, InstallBeside, Install!Busy, Install!InstallAssumption

\* An installer goes on: what it, or the program, becomes is what the invariant says.
LEMMA InstallGoes ==
  ASSUME InstallInv, NEW i \in Installers, NEW it, i \in Install!Busy,
         installers' = [installers EXCEPT ![i] = it],
         it \in InstallerRecord,
         it.source = installers[i].source, it.others = installers[i].others,
         program' \in Sources \cup {None, Bad},
         program' \in {program, None, it.source},
         record' \in [source : Sources \cup {None}, program : Sources \cup {None}],
         record'.program = record'.source,
         it.at # "idle",
         it.at \in {"remove", "place", "note"} => it.payload = it.source,
         it.at = "launch" => program' = it.source,
         it.ran \in {None, it.source} \cup it.others
  PROVE  InstallInv'
<1>1. Install!TypeOK'
  BY DEF Install!TypeOK, InstallInv, InstallPlaces, InstallerRecord
<1>2. ASSUME NEW j \in Installers  PROVE InstallChecked(j)'
  <2>1. CASE j = i
    BY <2>1 DEF InstallChecked, InstallInv, Install!TypeOK, Install!Busy
  <2>2. CASE j # i
    <3>1. installers'[j] = installers[j] /\ InstallChecked(j) /\ InstallBeside(j, i)
      BY <2>2 DEF InstallInv, Install!TypeOK
    <3>2. j \in Install!Busy => it.source \in installers[j].others
      BY <2>2, <3>1 DEF InstallBeside
    <3>3. installers[j].at = "launch" => j \in Install!Busy
      BY DEF Install!Busy
    <3> QED BY <3>1, <3>2, <3>3 DEF InstallChecked
  <2> QED BY <2>1, <2>2
<1>3. ASSUME NEW j \in Installers, NEW k_ \in Installers  PROVE InstallBeside(j, k_)'
  <2>1. installers'[j].source = installers[j].source /\ installers'[j].others = installers[j].others
    BY DEF InstallInv, Install!TypeOK
  <2>2. installers'[k_].source = installers[k_].source
    BY DEF InstallInv, Install!TypeOK
  <2>3. j \in Install!Busy' => j \in Install!Busy
    BY DEF Install!Busy, InstallInv, Install!TypeOK
  <2>4. k_ \in Install!Busy' => k_ \in Install!Busy
    BY DEF Install!Busy, InstallInv, Install!TypeOK
  <2>5. InstallBeside(j, k_)
    BY DEF InstallInv
  <2> QED BY <2>1, <2>2, <2>3, <2>4, <2>5 DEF InstallBeside
<1> QED BY <1>1, <1>2, <1>3 DEF InstallInv

\* An installer begins.
LEMMA InstallBegins ==
  ASSUME InstallInv, NEW i \in Installers, Install!Begin(i)
  PROVE  InstallInv'
<1>1. PICK source \in Sources :
        installers' = [j \in Installers |->
         IF j = i THEN [Install!Idle EXCEPT !.at = "look", !.source = source,
                                    !.others = {installers[b].source : b \in Install!Busy}]
         ELSE IF j \in Install!Busy THEN [installers[j] EXCEPT !.others = @ \cup {source}]
         ELSE installers[j]]
  BY DEF Install!Begin
<1>2. installers[i].at = "idle" /\ program' = program /\ record' = record
  BY DEF Install!Begin
<1> DEFINE beside == {installers[b].source : b \in Install!Busy}
<1>3. beside \subseteq Sources
  BY DEF InstallInv, InstallChecked, Install!Busy
<1>4. installers'[i] = [at |-> "look", source |-> source, payload |-> None, ran |-> None,
                        others |-> beside]
  BY <1>1 DEF Install!Idle
<1>5. \A j \in Installers :
        j # i => installers'[j] = IF j \in Install!Busy THEN [installers[j] EXCEPT !.others = @ \cup {source}]
                                  ELSE installers[j]
  BY <1>1
<1>6. ASSUME NEW j \in Installers, j # i
      PROVE  /\ installers'[j].at = installers[j].at /\ installers'[j].source = installers[j].source
             /\ installers'[j].payload = installers[j].payload /\ installers'[j].ran = installers[j].ran
             /\ installers'[j].others =
                  IF j \in Install!Busy THEN installers[j].others \cup {source} ELSE installers[j].others
             /\ installers'[j] \in InstallerRecord
  <2>1. installers[j] \in InstallerRecord
    BY DEF InstallInv, Install!TypeOK, InstallerRecord, InstallPlaces
  <2>2. CASE j \in Install!Busy
    <3>1. installers'[j] = [installers[j] EXCEPT !.others = @ \cup {source}]
      BY <1>5, <1>6, <2>2
    <3> QED BY <2>1, <2>2, <3>1 DEF InstallerRecord
  <2>3. CASE j \notin Install!Busy
    BY <1>5, <1>6, <2>1, <2>3
  <2> QED BY <2>2, <2>3
<1>7. Install!TypeOK'
  <2>1. installers'[i] \in InstallerRecord
    <3> HIDE DEF beside
    <3> QED BY <1>3, <1>4 DEF InstallerRecord, InstallPlaces
  <2>2. installers' \in [Installers -> InstallerRecord]
    BY <1>1, <1>6, <2>1
  <2> QED BY <1>2, <2>2 DEF Install!TypeOK, InstallInv, InstallerRecord, InstallPlaces
<1>8. ASSUME NEW j \in Installers  PROVE InstallChecked(j)'
  <2>1. CASE j = i
    BY <1>4, <2>1 DEF InstallChecked
  <2>2. CASE j # i
    BY <1>2, <1>6, <2>2 DEF InstallChecked, InstallInv
  <2> QED BY <2>1, <2>2
<1>9. ASSUME NEW j \in Installers, NEW k_ \in Installers  PROVE InstallBeside(j, k_)'
  <2>1. SUFFICES ASSUME j \in Install!Busy', k_ \in Install!Busy', j # k_
                 PROVE  installers'[k_].source \in installers'[j].others
    BY DEF InstallBeside
  <2>2. \A l \in Installers : l # i => (l \in Install!Busy' <=> l \in Install!Busy)
    BY <1>6 DEF Install!Busy
  <2>3. CASE j = i
    <3>1. k_ # i /\ k_ \in Install!Busy /\ installers'[k_].source = installers[k_].source
      BY <1>6, <2>1, <2>2, <2>3
    <3> QED BY <1>4, <2>3, <3>1
  <2>4. CASE k_ = i
    <3>1. j # i /\ j \in Install!Busy /\ source \in installers'[j].others
      BY <1>6, <2>1, <2>2, <2>4
    <3> QED BY <1>4, <2>4, <3>1
  <2>5. CASE j # i /\ k_ # i
    <3>1. InstallBeside(j, k_)
      BY DEF InstallInv
    <3> QED BY <1>6, <2>1, <2>2, <2>5, <3>1 DEF InstallBeside
  <2> QED BY <2>3, <2>4, <2>5
<1> QED BY <1>2, <1>7, <1>8, <1>9 DEF InstallInv

\* An installer that is no longer at work starts anew.
LEMMA InstallRestarts ==
  ASSUME InstallInv, NEW i \in Installers, Install!Restart(i)
  PROVE  InstallInv'
<1>1. /\ installers' = [installers EXCEPT ![i] = Install!Idle]
      /\ program' = program /\ record' = record /\ i \notin Install!Busy
  BY DEF Install!Restart, Install!Busy
<1>2. Install!Idle = [at |-> "idle", source |-> None, payload |-> None, ran |-> None, others |-> {}]
  BY DEF Install!Idle
<1>3. Install!Busy' = Install!Busy
  BY <1>1, <1>2 DEF Install!Busy, InstallInv, Install!TypeOK
<1>4. Install!TypeOK'
  BY <1>1, <1>2 DEF Install!TypeOK, InstallInv
<1>5. ASSUME NEW j \in Installers  PROVE InstallChecked(j)'
  BY <1>1, <1>2 DEF InstallChecked, InstallInv, Install!TypeOK
<1>6. ASSUME NEW j \in Installers, NEW k_ \in Installers  PROVE InstallBeside(j, k_)'
  BY <1>1, <1>3 DEF InstallBeside, InstallInv, Install!TypeOK
<1> QED BY <1>1, <1>4, <1>5, <1>6 DEF InstallInv

\* A record of which some fields change.
LEMMA InstallerIs ==
  ASSUME NEW it \in InstallerRecord
  PROVE  /\ it.at \in InstallPlaces /\ it.source \in Sources \cup {None}
         /\ it.payload \in Sources \cup {None, Bad} /\ it.ran \in Sources \cup {None, Bad}
         /\ it.others \in SUBSET Sources
         /\ it = [at |-> it.at, source |-> it.source, payload |-> it.payload, ran |-> it.ran,
                  others |-> it.others]
BY DEF InstallerRecord

\* What an installer finds verified and working is the program of its source.
LEMMA VerifiedIs ==
  ASSUME InstallInv, NEW i \in Installers, i \in Install!Busy, Install!isVerified(installers[i].source)
  PROVE  program = installers[i].source
BY DEF InstallInv, InstallChecked, Install!Busy, Install!isVerified

\* A step of an installer keeps it.
LEMMA InstallStep ==
  ASSUME InstallInv, Install!Next
  PROVE  InstallInv'
<1>1. PICK i \in Installers :
        \/ Install!Begin(i) \/ Install!Look(i) \/ Install!Fetch(i) \/ Install!Verify(i) \/ Install!Remove(i) \/ Install!Place(i)
        \/ Install!Note(i) \/ Install!Check(i) \/ Install!Launch(i) \/ Install!Die(i) \/ Install!Restart(i)
  BY DEF Install!Next
<1> DEFINE it == installers[i]
<1>2. it \in InstallerRecord /\ installers \in [Installers -> InstallerRecord]
  BY DEF InstallInv, Install!TypeOK, InstallerRecord, InstallPlaces
<1>3. /\ program \in Sources \cup {None, Bad}
      /\ record \in [source : Sources \cup {None}, program : Sources \cup {None}]
      /\ record.program = record.source
      /\ it.at \in {"remove", "place", "note"} => it.payload = it.source
      /\ it.ran \in {None, it.source} \cup it.others
      /\ it.at # "idle" => it.source \in Sources
  BY DEF InstallInv, Install!TypeOK, InstallChecked
<1>4. Install!Busy = {j \in Installers : installers[j].at \notin {"idle", "runs", "failed", "dead"}}
  BY DEF Install!Busy
<1> HIDE DEF it
<1>5. ASSUME NEW at, at \in InstallPlaces \ {"idle"},
             installers' = [installers EXCEPT ![i].at = at], i \in Install!Busy,
             program' \in {program, None, it.source}, program' \in Sources \cup {None, Bad},
             record' \in [source : Sources \cup {None}, program : Sources \cup {None}],
             record'.program = record'.source,
             at \in {"remove", "place", "note"} => it.payload = it.source,
             at = "launch" => program' = it.source
      PROVE  InstallInv'
  <2>1. [it EXCEPT !.at = at] = [at |-> at, source |-> it.source, payload |-> it.payload,
                                  ran |-> it.ran, others |-> it.others]
    BY <1>2, InstallerIs
  <2>2. installers' = [installers EXCEPT ![i] = [it EXCEPT !.at = at]]
    BY <1>5, <1>2 DEF it
  <2>3. [it EXCEPT !.at = at] \in InstallerRecord
    BY <1>2, <1>5, <2>1, InstallerIs DEF InstallerRecord
  <2> DEFINE new == [it EXCEPT !.at = at]
  <2>4. /\ new.at = at /\ new.source = it.source /\ new.payload = it.payload
        /\ new.ran = it.ran /\ new.others = it.others
    BY <2>1
  <2> HIDE DEF new
  <2>5. new.source = installers[i].source /\ new.others = installers[i].others
    BY <2>4 DEF it
  <2>6. new \in InstallerRecord /\ installers' = [installers EXCEPT ![i] = new]
    BY <2>2, <2>3 DEF new
  <2>7. /\ new.at \in {"remove", "place", "note"} => new.payload = new.source
        /\ new.at = "launch" => program' = new.source
        /\ new.ran \in {None, new.source} \cup new.others /\ new.at # "idle"
        /\ program' \in {program, None, new.source}
    BY <1>3, <1>5, <2>4
  <2> QED BY <1>5, <2>5, <2>6, <2>7, InstallGoes
<1>6. CASE Install!Look(i)
  <2>1. Install!isVerified(it.source) /\ Install!canRun => program = it.source
    BY <1>4, <1>6, VerifiedIs DEF Install!Look, it
  <2> QED BY <1>3, <1>4, <1>5, <1>6, <2>1 DEF Install!Look, Install!Step, InstallPlaces, it
<1>7. CASE Install!Verify(i)
  BY <1>3, <1>4, <1>5, <1>7 DEF Install!Verify, Install!Step, InstallPlaces, it, Install!matches
<1>8. CASE Install!Remove(i)
  BY <1>3, <1>4, <1>5, <1>8 DEF Install!Remove, Install!Step, InstallPlaces, it
<1>9. CASE Install!Place(i)
  BY <1>3, <1>4, <1>5, <1>9 DEF Install!Place, Install!Step, InstallPlaces, it
<1>10. CASE Install!Note(i)
  <2>1. it.payload = it.source /\ it.source \in Sources /\ it.at = "note"
    BY <1>3, <1>10 DEF Install!Note, it
  <2>2. /\ record' \in [source : Sources \cup {None}, program : Sources \cup {None}]
        /\ record'.program = record'.source
    BY <1>10, <2>1 DEF Install!Note, Install!NoRecord, it
  <2> QED BY <1>3, <1>4, <1>5, <1>10, <2>1, <2>2 DEF Install!Note, Install!Step, InstallPlaces, it
<1>11. CASE Install!Check(i)
  <2>1. i \in Install!Busy
    BY <1>4, <1>11 DEF Install!Check
  <2>2. Install!isVerified(it.source) => program = it.source
    BY <2>1, VerifiedIs DEF it
  <2>3. Install!NoRecord \in [source : Sources \cup {None}, program : Sources \cup {None}]
        /\ Install!NoRecord.program = Install!NoRecord.source
    BY DEF Install!NoRecord
  <2>4. CASE Install!isVerified(it.source) /\ Install!canRun
    BY <1>3, <1>5, <1>11, <2>1, <2>2, <2>4 DEF Install!Check, Install!Step, InstallPlaces, it
  <2>5. CASE ~(Install!isVerified(it.source) /\ Install!canRun)
    BY <1>3, <1>5, <1>11, <2>1, <2>3, <2>5 DEF Install!Check, Install!Step, InstallPlaces, it
  <2> QED BY <2>4, <2>5
<1>12. CASE Install!Die(i)
  BY <1>3, <1>4, <1>5, <1>12 DEF Install!Die, Install!Step, InstallPlaces, it
<1>13. CASE Install!Fetch(i)
  <2>1. CASE Install!Step(i, "failed")
    BY <1>3, <1>4, <1>5, <1>13, <2>1 DEF Install!Fetch, Install!Step, InstallPlaces, it
  <2>2. CASE \E payload \in {installers[i].source, Bad} :
          installers' = [installers EXCEPT ![i].at = "verify", ![i].payload = payload]
    <3>1. PICK payload \in {it.source, Bad} :
            installers' = [installers EXCEPT ![i].at = "verify", ![i].payload = payload]
      BY <2>2 DEF it
    <3> DEFINE new == [at |-> "verify", source |-> it.source, payload |-> payload,
                       ran |-> it.ran, others |-> it.others]
    <3>2. installers' = [installers EXCEPT ![i] = new]
      <4>1. installers' = [[installers EXCEPT ![i].at = "verify"] EXCEPT ![i].payload = payload]
        BY <3>1
      <4>2. PICK e : e = [it EXCEPT !.at = "verify"]
        OBVIOUS
      <4>3. PICK f : f = [e EXCEPT !.payload = payload]
        OBVIOUS
      <4>4. f = new
        <5>1. e = [at |-> "verify", source |-> it.source, payload |-> it.payload,
                   ran |-> it.ran, others |-> it.others]
          BY <1>2, <4>2, InstallerIs
        <5> QED BY <4>3, <5>1
      <4>5. installers' = [installers EXCEPT ![i] = f]
        BY <1>2, <4>1, <4>2, <4>3 DEF it
      <4> QED BY <4>4, <4>5
    <3>3. new \in InstallerRecord
      BY <1>2, InstallerIs DEF InstallerRecord, InstallPlaces
    <3>4. /\ new.at = "verify" /\ new.source = installers[i].source
          /\ new.others = installers[i].others /\ new.ran = it.ran /\ new.source = it.source
          /\ new.others = it.others
      BY DEF it
    <3>5. i \in Install!Busy /\ program' = program /\ record' = record
      BY <1>4, <1>13 DEF Install!Fetch
    <3> HIDE DEF new
    <3> QED BY <1>3, <3>2, <3>3, <3>4, <3>5, InstallGoes
  <2> QED BY <1>13, <2>1, <2>2 DEF Install!Fetch
<1>14. CASE Install!Launch(i)
  <2>1. PICK at : at = IF program = None THEN "failed" ELSE "runs"
    OBVIOUS
  <2> DEFINE new == [at |-> at, source |-> it.source, payload |-> it.payload,
                     ran |-> program, others |-> it.others]
  <2>2. installers' = [installers EXCEPT ![i] = new]
    <3>1. installers' = [[installers EXCEPT ![i].at = at] EXCEPT ![i].ran = program]
      BY <1>14, <2>1 DEF Install!Launch
    <3>2. PICK e : e = [it EXCEPT !.at = at]
      OBVIOUS
    <3>3. PICK f : f = [e EXCEPT !.ran = program]
      OBVIOUS
    <3>4. f = new
      <4>1. e = [at |-> at, source |-> it.source, payload |-> it.payload,
                 ran |-> it.ran, others |-> it.others]
        BY <1>2, <3>2, InstallerIs
      <4> QED BY <3>3, <4>1
    <3>5. installers' = [installers EXCEPT ![i] = f]
      BY <1>2, <3>1, <3>2, <3>3 DEF it
    <3> QED BY <3>4, <3>5
  <2>3. new \in InstallerRecord
    BY <1>2, <1>3, <2>1, InstallerIs DEF InstallerRecord, InstallPlaces
  <2>4. /\ new.at = at /\ new.source = installers[i].source
        /\ new.others = installers[i].others /\ new.ran = program /\ new.source = it.source
        /\ new.others = it.others
    BY DEF it
  <2>5. i \in Install!Busy /\ program' = program /\ record' = record /\ it.at = "launch"
    BY <1>4, <1>14 DEF Install!Launch, it
  <2>6. program \in {None, it.source} \cup it.others
    BY <2>5 DEF it, InstallInv, InstallChecked
  <2>7. at \in {"failed", "runs"}
    BY <2>1
  <2> HIDE DEF new
  <2> QED BY <1>3, <2>2, <2>3, <2>4, <2>5, <2>6, <2>7, InstallGoes
<1> QED BY <1>1, <1>6, <1>7, <1>8, <1>9, <1>10, <1>11, <1>12, <1>13, <1>14, InstallBegins,
     InstallRestarts

\* The invariant implies the properties.
LEMMA InstallContained ==
  ASSUME InstallInv
  PROVE  Install!TypeOK /\ Install!RunsWhatWasVerified /\ Install!ReadyIsThere
BY InstallAssumed DEF InstallInv, InstallChecked, Install!RunsWhatWasVerified,
   Install!ReadyIsThere, Install!TypeOK, Install!InstallAssumption

\* Of the part that it is here.
InstallPart == part = "install" => InstallInv

\* No other part touches it.
LEMMA InstallPartInvariant == ServicesSpec => []InstallPart
<1>1. ServicesInit => InstallPart
  BY InstallInitial DEF ServicesInit, Chosen, InstallPart
<1>2. InstallPart /\ [ServicesNext]_vars => InstallPart'
  <2> SUFFICES ASSUME InstallPart, [ServicesNext]_vars, part' = "install"
               PROVE  InstallInv'
    BY DEF InstallPart
  <2>1. CASE part = "install" /\ Install!Next
    BY <2>1, InstallStep DEF InstallPart
  <2>2. CASE part' = part /\ UNCHANGED installVars
    BY <2>2 DEF installVars, InstallPart, InstallInv, Install!TypeOK, InstallChecked,
                InstallBeside, Install!Busy
  <2>3. part' = part /\ (part = "install" => InstallNext \/ UNCHANGED installVars)
    <3>1. CASE ServicesNext
      BY Zenon, <3>1 DEF ServicesNext, SchedulingNext, MemoryNext, TokensNext, ConsentNext, McpNext,
      ActivityNext, AuditNext, GraphNext, JobsNext, WakeNext, LaunchNext, CliNext, HostNext,
      DomainNext, TalkNext, LocalNext, HelperNext, BrowserNext, InstallNext, UpgradeNext, LinksNext,
      ListenerNext, RunNext, WaitsNext
    <3>2. CASE UNCHANGED vars
      BY <3>2 DEF vars, aroundVars, endVars
    <3> QED BY <3>1, <3>2
  <2> QED BY <2>1, <2>2, <2>3 DEF InstallNext
<1> QED BY <1>1, <1>2, PTL DEF ServicesSpec

-----------------------------------------------------------------------------
(* The setup of the browser extension (BrowserSetup). *)

\* The constants.
LEMMA BrowserAssumed == Browser!BrowserAssumption
BY PartsAssumption

SetupRecord ==
  [at : {"idle", "first", "last", "mark", "pause", "decide", "ask", "enable", "clear", "dead"},
   purpose : {"offer", "enable", "launch"}, version : 0 .. MaxBuilds, changed : BOOLEAN,
   reload : BOOLEAN]

\* How far a setup has come: what it has written, what it found, and what it knows.
SetupCome(r) ==
  /\ r.at \notin {"idle", "dead"} => r.version # 0
  /\ r.at = "first" =>
       r.changed \/ (\A f \in Browser!StagedFiles : staged[f] = r.version) \/ (\A f \in Browser!StagedFiles : staged[f] = 0)
  /\ r.at = "last" =>
       staged["first"] = r.version /\ (r.changed \/ staged["last"] \in {0, r.version})
  /\ r.at \in {"pause", "decide", "ask"} => (Browser!Outdated => marker /\ r.reload)
  /\ r.at \in {"enable", "clear"} => ~Browser!Outdated

\* It has changed files, and has not yet paused the wake.
SetupChanging(r) == r.at \in {"last", "mark", "pause"} /\ r.changed

\* The browser runs old files only when it is told to reload and is not woken.
BrowserCalm == Browser!Outdated /\ ~(\E s \in Setups : SetupChanging(setups[s])) => marker /\ ~wake

\* Unless something unusual has happened, one setup works at a time.
BrowserOrderly ==
  /\ \A s \in Setups, t \in Setups : s \in Browser!Active /\ t \in Browser!Active => s = t
  /\ \A s \in Setups : SetupCome(setups[s])
  /\ BrowserCalm

\* Files that were never staged completely were never loaded.
LoadedWhole == (\E f \in Browser!StagedFiles : staged[f] = 0) => loadedFiles = Browser!NotLoaded

BrowserInv ==
  /\ Browser!TypeOK /\ LoadedWhole /\ \A s \in Browser!Active : setups[s].version # 0
  /\ browserUnusual = {} => BrowserOrderly

\* Before the first setup.
LEMMA BrowserInitial ==
  ASSUME Browser!Init  PROVE BrowserInv
<1>1. \A s \in Setups : setups[s] = [at |-> "idle", purpose |-> "offer", version |-> 0,
                                     changed |-> FALSE, reload |-> FALSE]
  BY DEF Browser!Init, Browser!Idle
<1>2. Browser!TypeOK
  <2>1. Browser!NotLoaded \in [Browser!StagedFiles -> 0 .. MaxBuilds] /\ 1 \in 1 .. MaxBuilds
    BY BrowserAssumed DEF Browser!NotLoaded, Browser!BrowserAssumption
  <2>2. setups \in [Setups -> SetupRecord]
    <3>1. Browser!Idle \in SetupRecord
      BY BrowserAssumed DEF SetupRecord, Browser!BrowserAssumption, Browser!Idle
    <3> QED BY <3>1 DEF Browser!Init
  <2> QED BY <2>1, <2>2 DEF Browser!Init, Browser!TypeOK, SetupRecord
<1>3. Browser!Active = {}
  BY <1>1 DEF Browser!Active
<1>4. BrowserOrderly
  BY <1>1, <1>3 DEF BrowserOrderly, SetupCome, BrowserCalm, Browser!Outdated, Browser!Init
<1> QED BY <1>2, <1>3, <1>4 DEF BrowserInv, LoadedWhole, Browser!Init

\* The fields of a setup.
LEMMA SetupIs ==
  ASSUME NEW r \in SetupRecord
  PROVE  /\ r.at \in {"idle", "first", "last", "mark", "pause", "decide", "ask", "enable", "clear", "dead"}
         /\ r.purpose \in {"offer", "enable", "launch"} /\ r.version \in 0 .. MaxBuilds
         /\ r.changed \in BOOLEAN /\ r.reload \in BOOLEAN
         /\ r = [at |-> r.at, purpose |-> r.purpose, version |-> r.version,
                 changed |-> r.changed, reload |-> r.reload]
BY DEF SetupRecord

\* Outside a setup.
LEMMA BrowserOutside ==
  ASSUME BrowserInv, Browser!Rebuild \/ Browser!Load \/ Browser!Disable \/ Browser!SavePreferences
  PROVE  BrowserInv'
<1>1. /\ setups' = setups /\ staged' = staged /\ marker' = marker /\ wake' = wake
      /\ browserUnusual' = browserUnusual /\ (loadedFiles' = loadedFiles \/ (loadedFiles' = staged /\ \A f \in Browser!StagedFiles : staged[f] # 0)
                                              \/ loadedFiles' = Browser!NotLoaded)
  BY DEF Browser!Rebuild, Browser!Load, Browser!Disable, Browser!SavePreferences
<1>2. Browser!TypeOK'
  <2>1. Browser!NotLoaded \in [Browser!StagedFiles -> 0 .. MaxBuilds]
    BY BrowserAssumed DEF Browser!NotLoaded, Browser!BrowserAssumption
  <2>2. CASE Browser!Rebuild
    BY BrowserAssumed, <2>2 DEF BrowserInv, Browser!TypeOK, Browser!Rebuild,
       Browser!BrowserAssumption
  <2>3. CASE Browser!Load \/ Browser!Disable
    BY <2>1, <2>3 DEF BrowserInv, Browser!TypeOK, Browser!Load, Browser!Disable
  <2>4. CASE Browser!SavePreferences
    <3>1. PICK p : p = (loadedFiles # Browser!NotLoaded)
      OBVIOUS
    <3>2. p \in BOOLEAN
      BY SMT, <3>1
    <3> QED BY <2>4, <3>1, <3>2 DEF BrowserInv, Browser!TypeOK, Browser!SavePreferences
  <2> QED BY <2>2, <2>3, <2>4
<1>3. Browser!Outdated' => Browser!Outdated
  BY <1>1 DEF Browser!Outdated
<1>4. LoadedWhole'
  BY <1>1 DEF LoadedWhole, BrowserInv
<1>5. Browser!Active' = Browser!Active
  BY <1>1 DEF Browser!Active
<1>6. ASSUME BrowserOrderly  PROVE BrowserOrderly'
  <2>1. BrowserCalm'
    BY <1>1, <1>3, <1>6 DEF BrowserOrderly, BrowserCalm, SetupChanging
  <2>2. ASSUME NEW s \in Setups  PROVE SetupCome(setups[s])'
    BY <1>1, <1>3, <1>6 DEF BrowserOrderly, SetupCome
  <2> QED BY <1>1, <1>5, <1>6, <2>1, <2>2 DEF BrowserOrderly
<1> QED BY <1>1, <1>2, <1>4, <1>5, <1>6 DEF BrowserInv

\* A setup goes on: unless something unusual has happened, it was the only one.
LEMMA SetupGoes ==
  ASSUME BrowserInv, NEW s \in Setups, NEW r \in SetupRecord, s \in Browser!Active,
         setups' = [setups EXCEPT ![s] = r], r.version # 0, Browser!TypeOK', LoadedWhole',
         browserUnusual \subseteq browserUnusual',
         browserUnusual' = {} => /\ SetupCome(r)'
                                 /\ Browser!Outdated' /\ ~SetupChanging(r) => marker' /\ ~wake'
  PROVE  BrowserInv'
<1>1. setups \in [Setups -> SetupRecord]
  BY DEF BrowserInv, Browser!TypeOK, SetupRecord
<1>2. setups'[s] = r /\ \A t \in Setups : t # s => setups'[t] = setups[t]
  BY <1>1
<1>3. \A t \in Setups : t \in Browser!Active' => t \in Browser!Active
  BY <1>2 DEF Browser!Active
<1>4. ASSUME NEW t \in Browser!Active'  PROVE setups'[t].version # 0
  BY <1>2, <1>3 DEF BrowserInv, Browser!Active
<1>5. ASSUME browserUnusual' = {}  PROVE BrowserOrderly'
  <2>1. BrowserOrderly
    BY <1>5 DEF BrowserInv
  <2>2. ASSUME NEW t \in Setups, t # s  PROVE SetupCome(setups[t])' /\ ~SetupChanging(setups'[t])
    <3>1. t \notin Browser!Active
      BY <2>1, <2>2 DEF BrowserOrderly
    <3>2. setups[t].at \in {"idle", "dead"} /\ setups'[t] = setups[t]
      BY <1>2, <2>2, <3>1 DEF Browser!Active
    <3> QED BY <3>2 DEF SetupCome, SetupChanging
  <2>3. SetupCome(setups[s])'
    BY <1>2, <1>5 DEF SetupCome
  <2>4. BrowserCalm'
    BY <1>2, <1>5, <2>2 DEF BrowserCalm, SetupChanging
  <2>5. \A t \in Setups, u \in Setups : t \in Browser!Active' /\ u \in Browser!Active' => t = u
    BY <1>3, <2>1 DEF BrowserOrderly
  <2> QED BY <2>2, <2>3, <2>4, <2>5 DEF BrowserOrderly
<1> QED BY <1>4, <1>5 DEF BrowserInv

\* A step of a setup that moves only it.
LEMMA SetupMoved ==
  ASSUME BrowserInv, NEW s \in Setups, NEW at \in {"idle", "first", "last", "mark", "pause", "decide",
           "ask", "enable", "clear", "dead"}, Browser!Step(s, at), s \in Browser!Active
  PROVE  \E r \in SetupRecord :
           /\ setups' = [setups EXCEPT ![s] = r] /\ r.version # 0
           /\ r = [at |-> at, purpose |-> setups[s].purpose, version |-> setups[s].version,
                   changed |-> setups[s].changed, reload |-> setups[s].reload]
<1>1. setups \in [Setups -> SetupRecord] /\ setups[s].version # 0
  BY DEF BrowserInv, Browser!TypeOK, SetupRecord
<1>2. PICK r : r = [setups[s] EXCEPT !.at = at]
  OBVIOUS
<1>3. r = [at |-> at, purpose |-> setups[s].purpose, version |-> setups[s].version,
           changed |-> setups[s].changed, reload |-> setups[s].reload]
  BY <1>1, <1>2, SetupIs
<1>4. r \in SetupRecord /\ setups' = [setups EXCEPT ![s] = r]
  BY <1>1, <1>2, <1>3, SetupIs DEF SetupRecord, Browser!Step
<1> QED BY <1>1, <1>3, <1>4

\* What the invariant says of a setup that works when nothing unusual has happened.
LEMMA SetupHas ==
  ASSUME BrowserInv, browserUnusual = {}, NEW s \in Setups, s \in Browser!Active
  PROVE  /\ SetupCome(setups[s])
         /\ Browser!Outdated /\ ~SetupChanging(setups[s]) => marker /\ ~wake
<1>1. \A t \in Setups : t # s => setups[t].at \in {"idle", "dead"}
  BY DEF BrowserInv, BrowserOrderly, Browser!Active
<1>2. \A t \in Setups : t # s => ~SetupChanging(setups[t])
  BY <1>1 DEF SetupChanging
<1> QED BY <1>2 DEF BrowserInv, BrowserOrderly, BrowserCalm

\* A setup begins.
LEMMA SetupBegins ==
  ASSUME BrowserInv, NEW s \in Setups, Browser!Begin(s)
  PROVE  BrowserInv'
<1>1. PICK purpose \in {"offer", "enable", "launch"} :
        setups' = [setups EXCEPT ![s] = [at |-> "first", purpose |-> purpose, version |-> built,
                                        changed |-> Browser!approvedChange, reload |-> FALSE]]
  BY DEF Browser!Begin
<1>2. /\ staged' = staged /\ marker' = marker /\ wake' = wake /\ loadedFiles' = loadedFiles /\ built' = built
      /\ passive' = passive /\ owner' = owner /\ preferences' = preferences
      /\ setups[s].at = "idle" /\ browserUnusual' = browserUnusual \cup (IF Browser!Active # {} THEN {"crossed"} ELSE {})
  BY DEF Browser!Begin
<1>3. PICK l : l = Browser!approvedChange
  OBVIOUS
<1>4. l \in BOOLEAN
  BY SMT, <1>3 DEF Browser!approvedChange
<1>5. ~l => (\A f \in Browser!StagedFiles : staged[f] = built) \/ (\A f \in Browser!StagedFiles : staged[f] = 0)
  BY Zenon, <1>3 DEF Browser!approvedChange
<1>6. PICK r : r = [at |-> "first", purpose |-> purpose, version |-> built, changed |-> l,
                    reload |-> FALSE]
  OBVIOUS
<1>7. setups' = [setups EXCEPT ![s] = r]
  BY Zenon, <1>1, <1>3, <1>6
<1>8. built \in 1 .. MaxBuilds /\ setups \in [Setups -> SetupRecord]
  BY DEF BrowserInv, Browser!TypeOK, SetupRecord
<1>9. r \in SetupRecord /\ r.version # 0
  BY <1>4, <1>8, <1>6 DEF SetupRecord
<1>10. setups' \in [Setups -> SetupRecord]
  BY <1>7, <1>8, <1>9
<1>11. Browser!TypeOK'
  BY <1>2, <1>10 DEF BrowserInv, Browser!TypeOK, SetupRecord
<1>12. LoadedWhole' /\ (Browser!Outdated' <=> Browser!Outdated)
  BY <1>2 DEF BrowserInv, LoadedWhole, Browser!Outdated
<1>13. setups'[s] = r /\ \A t \in Setups : t # s => setups'[t] = setups[t]
  BY <1>7, <1>8
<1>14. \A t \in Setups : t # s => (t \in Browser!Active' <=> t \in Browser!Active)
  BY <1>13 DEF Browser!Active
<1>15. \A t \in Browser!Active' : setups'[t].version # 0
  BY <1>9, <1>13, <1>14 DEF BrowserInv, Browser!Active
<1>16. ASSUME browserUnusual' = {}  PROVE BrowserOrderly'
  <2>1. Browser!Active = {} /\ browserUnusual = {}
    BY <1>2, <1>16
  <2>2. BrowserOrderly
    BY <2>1 DEF BrowserInv
  <2>3. SetupCome(r)' /\ ~SetupChanging(r)
    BY <1>2, <1>5, <1>9, <1>6 DEF SetupCome, SetupChanging
  <2>4. ASSUME NEW t \in Setups  PROVE SetupCome(setups[t])' /\ ~SetupChanging(setups'[t])
    <3>1. CASE t = s
      <4>1. setups'[t] = r
        BY <1>13, <3>1
      <4> QED BY <2>3, <4>1 DEF SetupCome
    <3>2. CASE t # s
      <4>1. setups[t].at \in {"idle", "dead"} /\ setups'[t] = setups[t]
        BY <1>13, <2>1, <3>2 DEF Browser!Active
      <4> QED BY <4>1 DEF SetupCome, SetupChanging
    <3> QED BY <3>1, <3>2
  <2>5. \A t \in Setups : ~SetupChanging(setups[t])
    BY <2>1 DEF Browser!Active, SetupChanging
  <2>6. BrowserCalm'
    BY <1>2, <1>12, <2>2, <2>5 DEF BrowserOrderly, BrowserCalm
  <2>7. \A t \in Setups, u \in Setups : t \in Browser!Active' /\ u \in Browser!Active' => t = u
    BY <1>14, <2>1
  <2> QED BY <2>4, <2>6, <2>7 DEF BrowserOrderly
<1> QED BY <1>11, <1>12, <1>15, <1>16 DEF BrowserInv

\* The files are written, and what was not to change does not.
LEMMA SetupWrites ==
  ASSUME BrowserInv, NEW s \in Setups, Browser!WriteFirst(s) \/ Browser!WriteLast(s)
  PROVE  BrowserInv'
<1>1. PICK f \in Browser!StagedFiles, at \in {"last", "mark"} :
        /\ \/ f = "first" /\ at = "last" /\ setups[s].at = "first"
           \/ f = "last" /\ at = "mark" /\ setups[s].at = "last"
        /\ Browser!Step(s, at) /\ staged' = [staged EXCEPT ![f] = setups[s].version]
  BY DEF Browser!WriteFirst, Browser!WriteLast, Browser!StagedFiles
<1>2. UNCHANGED <<passive, built, marker, owner, wake, loadedFiles, preferences, browserUnusual>>
  BY DEF Browser!WriteFirst, Browser!WriteLast
<1>3. s \in Browser!Active
  BY <1>1 DEF Browser!Active
<1>4. PICK r \in SetupRecord :
        /\ setups' = [setups EXCEPT ![s] = r] /\ r.version # 0
        /\ r = [at |-> at, purpose |-> setups[s].purpose, version |-> setups[s].version,
                changed |-> setups[s].changed, reload |-> setups[s].reload]
  BY <1>1, <1>3, SetupMoved
<1>5. /\ setups \in [Setups -> SetupRecord] /\ staged \in [Browser!StagedFiles -> 0 .. MaxBuilds]
      /\ setups[s].version \in 0 .. MaxBuilds
  BY SetupIs DEF BrowserInv, Browser!TypeOK, SetupRecord
<1>6. Browser!TypeOK'
  <2>1. setups' \in [Setups -> SetupRecord] /\ staged' \in [Browser!StagedFiles -> 0 .. MaxBuilds]
    BY <1>1, <1>4, <1>5
  <2> QED BY <1>2, <2>1 DEF BrowserInv, Browser!TypeOK, SetupRecord
<1>7. \A g \in Browser!StagedFiles : staged'[g] = 0 => staged[g] = 0
  BY <1>1, <1>4, <1>5
<1>8. LoadedWhole'
  BY <1>2, <1>7 DEF BrowserInv, LoadedWhole
<1>9. ASSUME browserUnusual' = {}
      PROVE  SetupCome(r)' /\ (Browser!Outdated' /\ ~SetupChanging(r) => marker' /\ ~wake')
  <2>1. SetupCome(setups[s]) /\ (Browser!Outdated /\ ~SetupChanging(setups[s]) => marker /\ ~wake)
    BY <1>2, <1>3, <1>9, SetupHas
  <2>2. staged'[f] = r.version /\ \A g \in Browser!StagedFiles : g # f => staged'[g] = staged[g]
    BY <1>1, <1>4, <1>5
  <2>3. SetupCome(r)'
    <3>1. CASE f = "first"
      <4>1. staged'["first"] = r.version /\ staged'["last"] = staged["last"] /\ r.at = "last"
        BY <1>1, <1>4, <2>2, <3>1 DEF Browser!StagedFiles
      <4>2. r.changed \/ staged["last"] \in {0, r.version}
        BY <1>1, <1>4, <2>1, <3>1 DEF SetupCome, Browser!StagedFiles
      <4> QED BY <1>4, <4>1, <4>2 DEF SetupCome
    <3>2. CASE f = "last"
      BY <1>1, <1>4, <3>2 DEF SetupCome
    <3> QED BY <1>1, <3>1, <3>2
  <2>4. ASSUME ~r.changed, Browser!Outdated'  PROVE Browser!Outdated
    <3>1. staged[f] = r.version \/ loadedFiles = Browser!NotLoaded
      <4>1. staged[f] # r.version => \E g \in Browser!StagedFiles : staged[g] = 0
        <5>1. CASE f = "first"
          BY <1>1, <1>4, <2>1, <2>4, <5>1 DEF SetupCome, Browser!StagedFiles
        <5>2. CASE f = "last"
          BY <1>1, <1>4, <2>1, <2>4, <5>2 DEF SetupCome, Browser!StagedFiles
        <5> QED BY <1>1, <5>1, <5>2
      <4> QED BY <4>1 DEF BrowserInv, LoadedWhole
    <3>2. staged[f] = r.version => staged' = staged
      BY <1>1, <1>4, <1>5
    <3> QED BY <1>2, <2>4, <3>1, <3>2 DEF Browser!Outdated
  <2>5. Browser!Outdated' /\ ~SetupChanging(r) => ~r.changed
    BY <1>1, <1>4 DEF SetupChanging
  <2>6. ~r.changed => ~SetupChanging(setups[s])
    BY <1>4 DEF SetupChanging
  <2> QED BY <1>2, <2>1, <2>3, <2>4, <2>5, <2>6
<1> QED BY <1>2, <1>3, <1>4, <1>6, <1>8, <1>9, SetupGoes

\* What only the setup and facts about it change is typed.
LEMMA SetupQuiet ==
  ASSUME BrowserInv, NEW s \in Setups, NEW r \in SetupRecord, s \in Browser!Active,
         setups' = [setups EXCEPT ![s] = r], r.version # 0,
         UNCHANGED <<passive, built, staged, loadedFiles, preferences>>,
         marker' \in BOOLEAN, wake' \in BOOLEAN, owner' \in {owner, "this"},
         browserUnusual' \subseteq {"interrupted", "unchecked", "crossed"}, browserUnusual \subseteq browserUnusual',
         browserUnusual' = {} => /\ SetupCome(r)'
                                 /\ Browser!Outdated /\ ~SetupChanging(r) => marker' /\ ~wake'
  PROVE  BrowserInv'
<1>1. Browser!TypeOK'
  BY DEF BrowserInv, Browser!TypeOK, SetupRecord
<1>2. LoadedWhole' /\ (Browser!Outdated' <=> Browser!Outdated)
  BY DEF BrowserInv, LoadedWhole, Browser!Outdated
<1> QED BY <1>1, <1>2, SetupGoes

\* The marker is written.
LEMMA SetupMarks ==
  ASSUME BrowserInv, NEW s \in Setups, Browser!Mark(s)
  PROVE  BrowserInv'
<1>1. /\ setups[s].at = "mark" /\ marker' = (marker \/ setups[s].changed)
      /\ setups' = [[setups EXCEPT ![s].at = "pause"] EXCEPT ![s].reload = marker']
      /\ UNCHANGED <<passive, built, staged, owner, wake, loadedFiles, preferences, browserUnusual>>
  BY DEF Browser!Mark
<1>2. setups \in [Setups -> SetupRecord] /\ setups[s] \in SetupRecord /\ s \in Browser!Active
  BY <1>1 DEF BrowserInv, Browser!TypeOK, SetupRecord, Browser!Active
<1>3. setups[s].changed \in BOOLEAN /\ marker \in BOOLEAN /\ setups[s].version # 0
  BY <1>2, SetupIs DEF BrowserInv, Browser!TypeOK
<1>4. marker' \in BOOLEAN /\ (marker' <=> marker \/ setups[s].changed)
  <2>1. PICK m : m = (marker \/ setups[s].changed)
    OBVIOUS
  <2>2. m \in BOOLEAN
    BY SMT, <2>1
  <2>3. m <=> marker \/ setups[s].changed
    BY Zenon, <2>1
  <2> QED BY <1>1, <2>1, <2>2, <2>3
<1>5. PICK e : e = [setups[s] EXCEPT !.at = "pause"]
  OBVIOUS
<1>6. PICK r : r = [e EXCEPT !.reload = marker']
  OBVIOUS
<1>7. e = [at |-> "pause", purpose |-> setups[s].purpose, version |-> setups[s].version,
           changed |-> setups[s].changed, reload |-> setups[s].reload]
  BY <1>2, <1>5, SetupIs
<1>8. r = [at |-> "pause", purpose |-> setups[s].purpose, version |-> setups[s].version,
           changed |-> setups[s].changed, reload |-> marker']
  BY <1>6, <1>7
<1>9. setups' = [setups EXCEPT ![s] = r]
  BY <1>1, <1>2, <1>5, <1>6
<1>10. r \in SetupRecord /\ r.version # 0
  BY <1>2, <1>3, <1>4, <1>8, SetupIs DEF SetupRecord
<1>11. Browser!Outdated' <=> Browser!Outdated
  BY <1>1 DEF Browser!Outdated
<1>12. ASSUME browserUnusual' = {}
       PROVE  SetupCome(r)' /\ (Browser!Outdated /\ ~SetupChanging(r) => marker' /\ ~wake')
  <2>1. Browser!Outdated /\ ~SetupChanging(setups[s]) => marker /\ ~wake
    BY <1>1, <1>2, <1>12, SetupHas
  <2>2. SetupChanging(setups[s]) <=> setups[s].changed
    BY <1>1 DEF SetupChanging
  <2>3. SetupChanging(r) <=> setups[s].changed
    BY <1>8 DEF SetupChanging
  <2>4. SetupCome(r)'
    BY <1>4, <1>8, <1>10, <1>11, <2>1, <2>2 DEF SetupCome
  <2> QED BY <1>1, <1>4, <2>1, <2>2, <2>3, <2>4
<1> QED BY <1>1, <1>2, <1>4, <1>9, <1>10, <1>12, SetupQuiet DEF BrowserInv, Browser!TypeOK

\* The wake is paused.
LEMMA SetupPauses ==
  ASSUME BrowserInv, NEW s \in Setups, Browser!Pause(s)
  PROVE  BrowserInv'
<1>1. PICK at \in {"idle", "decide"} : Browser!Step(s, at)
  BY DEF Browser!Pause
<1>2. /\ setups[s].at = "pause" /\ wake' = (wake /\ ~setups[s].reload)
      /\ UNCHANGED <<passive, built, staged, marker, owner, loadedFiles, preferences, browserUnusual>>
  BY DEF Browser!Pause, Browser!paused
<1>3. s \in Browser!Active
  BY <1>2 DEF Browser!Active
<1>4. PICK r \in SetupRecord :
        /\ setups' = [setups EXCEPT ![s] = r] /\ r.version # 0
        /\ r = [at |-> at, purpose |-> setups[s].purpose, version |-> setups[s].version,
                changed |-> setups[s].changed, reload |-> setups[s].reload]
  BY <1>1, <1>3, SetupMoved
<1>5. wake' \in BOOLEAN /\ (wake' <=> wake /\ ~setups[s].reload)
  <2>1. PICK m : m = (wake /\ ~setups[s].reload)
    OBVIOUS
  <2>2. m \in BOOLEAN
    BY SMT, <2>1
  <2>3. m <=> wake /\ ~setups[s].reload
    BY Zenon, <2>1
  <2> QED BY <1>2, <2>1, <2>2, <2>3
<1>6. Browser!Outdated' <=> Browser!Outdated
  BY <1>2 DEF Browser!Outdated
<1>7. ASSUME browserUnusual' = {}
      PROVE  SetupCome(r)' /\ (Browser!Outdated /\ ~SetupChanging(r) => marker' /\ ~wake')
  <2>1. Browser!Outdated => marker /\ setups[s].reload
    BY <1>2, <1>3, <1>7, SetupHas DEF SetupCome
  <2>2. SetupCome(r)'
    BY <1>1, <1>2, <1>4, <1>6, <2>1 DEF SetupCome
  <2> QED BY <1>2, <1>5, <2>1, <2>2
<1> QED BY <1>2, <1>3, <1>4, <1>5, <1>7, SetupQuiet DEF BrowserInv, Browser!TypeOK

\* The extension is active, or the operator says so.
LEMMA SetupDecides ==
  ASSUME BrowserInv, NEW s \in Setups, Browser!Decide(s) \/ Browser!Ask(s)
  PROVE  BrowserInv'
<1>1. PICK at \in {"idle", "ask", "enable"} : Browser!Step(s, at)
  BY DEF Browser!Decide, Browser!Ask
<1>2. /\ setups[s].at \in {"decide", "ask"}
      /\ UNCHANGED <<passive, built, staged, marker, owner, wake, loadedFiles, preferences>>
      /\ browserUnusual' \in {browserUnusual, browserUnusual \cup {"unchecked"}}
  BY DEF Browser!Decide, Browser!Ask
<1>3. at = "enable" /\ browserUnusual' = {} => loadedFiles = staged \/ ~setups[s].reload
  <2>1. CASE setups[s].purpose = "enable" /\ Browser!Decide(s)
    BY <2>1 DEF Browser!Decide
  <2>2. CASE setups[s].purpose = "offer" /\ ~setups[s].reload /\ passive /\ Browser!detected /\ Browser!Decide(s)
    BY <2>2 DEF Browser!Decide
  <2>3. CASE Browser!Decide(s) /\ Browser!Step(s, "ask")
    <3>1. setups \in [Setups -> SetupRecord] /\ setups'[s].at = at /\ setups'[s].at = "ask"
      BY <1>1, <2>3 DEF BrowserInv, Browser!TypeOK, SetupRecord, Browser!Step
    <3> QED BY <3>1
  <2>4. CASE Browser!Ask(s)
    <3>1. CASE Browser!Step(s, "idle")
      <4>1. setups \in [Setups -> SetupRecord] /\ setups'[s].at = at /\ setups'[s].at = "idle"
        BY <1>1, <3>1 DEF BrowserInv, Browser!TypeOK, SetupRecord, Browser!Step
      <4> QED BY <4>1
    <3>2. CASE browserUnusual' = browserUnusual \cup (IF loadedFiles # staged THEN {"unchecked"} ELSE {})
      BY <3>2
    <3> QED BY <2>4, <3>1, <3>2 DEF Browser!Ask
  <2> QED BY <2>1, <2>2, <2>3, <2>4 DEF Browser!Decide
<1>4. s \in Browser!Active
  BY <1>2 DEF Browser!Active
<1>5. PICK r \in SetupRecord :
        /\ setups' = [setups EXCEPT ![s] = r] /\ r.version # 0
        /\ r = [at |-> at, purpose |-> setups[s].purpose, version |-> setups[s].version,
                changed |-> setups[s].changed, reload |-> setups[s].reload]
  BY <1>1, <1>4, SetupMoved
<1>6. Browser!Outdated' <=> Browser!Outdated
  BY <1>2 DEF Browser!Outdated
<1>7. ASSUME browserUnusual' = {}
      PROVE  SetupCome(r)' /\ (Browser!Outdated /\ ~SetupChanging(r) => marker' /\ ~wake')
  <2>1. browserUnusual = {}
    BY <1>2, <1>7
  <2>2. /\ Browser!Outdated => marker /\ setups[s].reload
        /\ Browser!Outdated /\ ~SetupChanging(setups[s]) => marker /\ ~wake
    BY <1>2, <1>4, <2>1, SetupHas DEF SetupCome
  <2>3. ~SetupChanging(setups[s]) /\ ~SetupChanging(r)
    BY <1>1, <1>2, <1>5 DEF SetupChanging
  <2>4. at = "enable" => ~Browser!Outdated
    BY <1>3, <1>7, <2>2 DEF Browser!Outdated
  <2>5. SetupCome(r)'
    BY <1>1, <1>2, <1>5, <1>6, <2>2, <2>4 DEF SetupCome
  <2> QED BY <1>2, <2>2, <2>3, <2>5
<1>8. /\ browserUnusual' \subseteq {"interrupted", "unchecked", "crossed"}
      /\ browserUnusual \subseteq browserUnusual'
  BY <1>2 DEF BrowserInv, Browser!TypeOK
<1> QED BY <1>2, <1>4, <1>5, <1>7, <1>8, SetupQuiet DEF BrowserInv, Browser!TypeOK

\* The wake is switched on and the request to reload ends; the files are the right ones.
LEMMA SetupEnables ==
  ASSUME BrowserInv, NEW s \in Setups, Browser!Enable(s) \/ Browser!Clear(s)
  PROVE  BrowserInv'
<1>1. PICK at \in {"clear", "idle"} : Browser!Step(s, at)
  BY DEF Browser!Enable, Browser!Clear
<1>2. /\ setups[s].at \in {"enable", "clear"}
      /\ UNCHANGED <<passive, built, staged, loadedFiles, preferences, browserUnusual>>
      /\ wake' \in {wake, TRUE} /\ marker' \in {marker, FALSE} /\ owner' \in {owner, "this"}
  BY DEF Browser!Enable, Browser!Clear
<1>3. s \in Browser!Active
  BY <1>2 DEF Browser!Active
<1>4. PICK r \in SetupRecord :
        /\ setups' = [setups EXCEPT ![s] = r] /\ r.version # 0
        /\ r = [at |-> at, purpose |-> setups[s].purpose, version |-> setups[s].version,
                changed |-> setups[s].changed, reload |-> setups[s].reload]
  BY <1>1, <1>3, SetupMoved
<1>5. Browser!Outdated' <=> Browser!Outdated
  BY <1>2 DEF Browser!Outdated
<1>6. ASSUME browserUnusual' = {}
      PROVE  SetupCome(r)' /\ (Browser!Outdated /\ ~SetupChanging(r) => marker' /\ ~wake')
  <2>1. ~Browser!Outdated
    BY <1>2, <1>3, <1>6, SetupHas DEF SetupCome
  <2> QED BY <1>1, <1>4, <1>5, <2>1 DEF SetupCome
<1> QED BY <1>2, <1>3, <1>4, <1>6, SetupQuiet DEF BrowserInv, Browser!TypeOK

\* A setup dies.
LEMMA SetupDies ==
  ASSUME BrowserInv, NEW s \in Setups, Browser!Die(s)
  PROVE  BrowserInv'
<1>1. /\ s \in Browser!Active /\ Browser!Step(s, "dead")
      /\ UNCHANGED <<passive, built, staged, marker, owner, wake, loadedFiles, preferences>>
      /\ browserUnusual' \in {browserUnusual, browserUnusual \cup {"interrupted"}}
      /\ browserUnusual' = {} => ~SetupChanging(setups[s])
  BY DEF Browser!Die, SetupChanging
<1>2. PICK r \in SetupRecord :
        /\ setups' = [setups EXCEPT ![s] = r] /\ r.version # 0
        /\ r = [at |-> "dead", purpose |-> setups[s].purpose, version |-> setups[s].version,
                changed |-> setups[s].changed, reload |-> setups[s].reload]
  BY <1>1, SetupMoved
<1>3. ASSUME browserUnusual' = {}
      PROVE  SetupCome(r)' /\ (Browser!Outdated /\ ~SetupChanging(r) => marker' /\ ~wake')
  <2>1. browserUnusual = {}
    BY <1>1, <1>3
  <2>2. Browser!Outdated => marker /\ ~wake
    BY <1>1, <1>3, <2>1, SetupHas
  <2> QED BY <1>1, <1>2, <2>2 DEF SetupCome
<1>4. /\ browserUnusual' \subseteq {"interrupted", "unchecked", "crossed"}
      /\ browserUnusual \subseteq browserUnusual'
  BY <1>1 DEF BrowserInv, Browser!TypeOK
<1> QED BY <1>1, <1>2, <1>3, <1>4, SetupQuiet DEF BrowserInv, Browser!TypeOK

\* A step of a setup, of the checkout, the operator or the browser keeps it.
LEMMA BrowserStep ==
  ASSUME BrowserInv, Browser!Next
  PROVE  BrowserInv'
BY BrowserOutside, SetupBegins, SetupWrites, SetupMarks, SetupPauses, SetupDecides, SetupEnables,
   SetupDies
   DEF Browser!Next

\* The invariant implies the properties.
LEMMA BrowserContained ==
  ASSUME BrowserInv
  PROVE  Browser!TypeOK /\ Browser!WakesCurrent /\ Browser!OutdatedIsMarked
<1>1. ASSUME Browser!Outdated, Browser!Active = {}, browserUnusual = {}  PROVE marker /\ ~wake
  <2>1. \A s \in Setups : ~SetupChanging(setups[s])
    BY <1>1 DEF Browser!Active, SetupChanging
  <2> QED BY <1>1, <2>1 DEF BrowserInv, BrowserOrderly, BrowserCalm
<1> QED BY <1>1 DEF BrowserInv, Browser!WakesCurrent, Browser!OutdatedIsMarked

\* Of the part that it is here.
BrowserPart == part = "browser" => BrowserInv

\* No other part touches it.
LEMMA BrowserPartInvariant == ServicesSpec => []BrowserPart
<1>1. ServicesInit => BrowserPart
  BY BrowserInitial DEF ServicesInit, Chosen, BrowserPart
<1>2. BrowserPart /\ [ServicesNext]_vars => BrowserPart'
  <2> SUFFICES ASSUME BrowserPart, [ServicesNext]_vars, part' = "browser"
               PROVE  BrowserInv'
    BY DEF BrowserPart
  <2>1. CASE part = "browser" /\ Browser!Next
    BY <2>1, BrowserStep DEF BrowserPart
  <2>2. CASE part' = part /\ UNCHANGED browserVars
    BY <2>2 DEF browserVars, BrowserPart, BrowserInv, Browser!TypeOK, LoadedWhole, BrowserOrderly,
                SetupCome, BrowserCalm, SetupChanging, Browser!Outdated, Browser!Active
  <2>3. part' = part /\ (part = "browser" => BrowserNext \/ UNCHANGED browserVars)
    <3>1. CASE ServicesNext
      BY Zenon, <3>1 DEF ServicesNext, SchedulingNext, MemoryNext, TokensNext, ConsentNext, McpNext,
      ActivityNext, AuditNext, GraphNext, JobsNext, WakeNext, LaunchNext, CliNext, HostNext,
      DomainNext, TalkNext, LocalNext, HelperNext, BrowserNext, InstallNext, UpgradeNext, LinksNext,
      ListenerNext, RunNext, WaitsNext
    <3>2. CASE UNCHANGED vars
      BY <3>2 DEF vars, aroundVars, endVars
    <3> QED BY <3>1, <3>2
  <2> QED BY <2>1, <2>2, <2>3 DEF BrowserNext
<1> QED BY <1>1, <1>2, PTL DEF ServicesSpec

-----------------------------------------------------------------------------
(* The commands on the PATH (CliLinks). *)

\* The commands and the directories.
LEMMA LinksAssumed ==
  /\ MaxLinkChanges \in Nat
  /\ Len(Commands) \in Nat \ {0} /\ DOMAIN Commands = 1 .. Len(Commands)
  /\ \A n \in 1 .. Len(Commands) : Commands[n] \in Links!Names
  /\ \A c \in Links!Names : \E n \in 1 .. Len(Commands) : c = Commands[n]
  /\ \A m, n \in 1 .. Len(Commands) : Commands[m] = Commands[n] => m = n
  /\ DOMAIN Links!Candidates \in SUBSET Nat
  /\ \A n \in DOMAIN Links!Candidates : Links!Candidates[n] \in Links!Directories
<1>1. /\ Search \in Seq(Links!Directories) /\ Preferred \in Seq(Links!Directories)
      /\ Commands \in Seq(Links!Names) /\ Commands # <<>> /\ MaxLinkChanges \in Nat
      /\ \A m, n \in DOMAIN Commands : Commands[m] = Commands[n] => m = n
  BY PartsAssumption DEF Links!CliLinksAssumption
<1>2. Links!Candidates \in Seq(Links!Directories)
  BY <1>1 DEF Links!Candidates
<1>3. /\ Len(Commands) \in Nat \ {0} /\ DOMAIN Commands = 1 .. Len(Commands)
      /\ \A n \in 1 .. Len(Commands) : Commands[n] \in Links!Names
  BY <1>1
<1>4. /\ DOMAIN Links!Candidates \in SUBSET Nat
      /\ \A n \in DOMAIN Links!Candidates : Links!Candidates[n] \in Links!Directories
  BY <1>2
<1>5. \A c \in Links!Names : \E n \in 1 .. Len(Commands) : c = Commands[n]
  BY <1>3 DEF Links!Names, Links!ToSet
<1> QED BY <1>1, <1>3, <1>4, <1>5

\* The least of some numbers.
LEMMA LinkFirstIs ==
  ASSUME NEW numbers \in SUBSET Nat, numbers # {}
  PROVE  Links!First(numbers) \in numbers
BY LeastIs DEF Links!First

LinkWorking == {"look", "unlink", "open", "fill"}
LinkTellings == {"none", "linked", "already linked", "conflict"}
LinkFiles == {Links!NoFile, Links!Foreign, Links!Torn} \cup Links!Launchers \cup Links!Symlinks

BuildRecord ==
  [at : {"idle", "look", "unlink", "open", "fill", "done", "skipped", "dead"},
   checkout : Checkouts \cup {"none"}, dir : Links!Directories \cup {"none"},
   next : 1 .. Len(Commands) + 1, told : [Links!Names -> LinkTellings], crossed : SUBSET Links!Names]

\* A build r works in a directory at a command, and has told of those before it.
LinkInPlace(r) ==
  /\ r.at \in LinkWorking \/ (\E c \in Links!Names : r.told[c] # "none") =>
       r.dir \in Links!Directories /\ r.checkout \in Checkouts
  /\ r.at \in LinkWorking => r.next \in 1 .. Len(Commands)
  /\ \A n \in 1 .. Len(Commands) : r.told[Commands[n]] # "none" => n < r.next

\* Unless others changed the command, the file is as the build left it.
LinkAsLeft(r, files_) ==
  /\ r.at \in {"unlink", "open"} /\ Commands[r.next] \notin r.crossed =>
       files_[r.dir][Commands[r.next]] # Links!Foreign
  /\ r.at = "fill" /\ Commands[r.next] \notin r.crossed =>
       files_[r.dir][Commands[r.next]] = Links!Torn
  /\ \A c \in Links!Names :
       r.told[c] \in {"linked", "already linked"} /\ c \notin r.crossed =>
         files_[r.dir][c] = Links!File("launcher", r.checkout)

LinksInv ==
  /\ Links!TypeOK
  /\ \A b \in Builds : LinkInPlace(builds[b]) /\ LinkAsLeft(builds[b], links)

\* The kinds of files are told apart.
LEMMA LinkFilesDiffer ==
  /\ \A o, p : Links!File("launcher", o) = Links!File("launcher", p) => o = p
  /\ \A o \in Checkouts : Links!File("launcher", o) \in Links!Launchers
  /\ Links!Foreign \notin Links!Launchers /\ Links!Torn \notin Links!Launchers
  /\ Links!NoFile \notin Links!Launchers /\ Links!Foreign \notin Links!Symlinks
  /\ Links!NoFile # Links!Foreign /\ Links!Torn # Links!Foreign /\ Links!NoFile # Links!Torn
  /\ \A f \in Links!Symlinks : f \notin Links!Launchers
<1>1. \A k_, l, o, p : Links!File(k_, o) = Links!File(l, p) => k_ = l /\ o = p
  BY DEF Links!File
<1>2. /\ Links!Foreign = Links!File("foreign", "none") /\ Links!Torn = Links!File("torn", "none")
      /\ Links!NoFile = Links!File("none", "none")
      /\ \A o \in Links!Launchers : \E p \in Checkouts : o = Links!File("launcher", p)
      /\ \A o \in Links!Symlinks : \E p \in Checkouts : o = Links!File("symlink", p)
      /\ \A p \in Checkouts : Links!File("launcher", p) \in Links!Launchers
  BY DEF Links!Foreign, Links!Torn, Links!NoFile, Links!Launchers, Links!Symlinks
<1> QED BY <1>1, <1>2

\* The fields of a build.
LEMMA BuildIs ==
  ASSUME NEW r \in BuildRecord
  PROVE  /\ r.at \in {"idle", "look", "unlink", "open", "fill", "done", "skipped", "dead"}
         /\ r.checkout \in Checkouts \cup {"none"} /\ r.dir \in Links!Directories \cup {"none"}
         /\ r.next \in 1 .. Len(Commands) + 1 /\ r.told \in [Links!Names -> LinkTellings]
         /\ r.crossed \in SUBSET Links!Names
         /\ r = [at |-> r.at, checkout |-> r.checkout, dir |-> r.dir, next |-> r.next,
                 told |-> r.told, crossed |-> r.crossed]
BY DEF BuildRecord

\* A build before it begins.
LEMMA LinkIdleIs ==
  /\ Links!Idle = [at |-> "idle", checkout |-> "none", dir |-> "none", next |-> 1,
             told |-> [c \in Links!Names |-> "none"], crossed |-> {}]
  /\ Links!Idle \in BuildRecord /\ LinkInPlace(Links!Idle) /\ (\A l : LinkAsLeft(Links!Idle, l))
<1>1. Links!Idle = [at |-> "idle", checkout |-> "none", dir |-> "none", next |-> 1,
             told |-> [c \in Links!Names |-> "none"], crossed |-> {}]
  BY DEF Links!Idle
<1>2. /\ Links!Idle.at = "idle" /\ \A c \in Links!Names : Links!Idle.told[c] = "none"
  BY <1>1
<1>3. Links!Idle \in BuildRecord
  BY <1>1, LinksAssumed DEF BuildRecord, LinkTellings
<1>4. LinkInPlace(Links!Idle) /\ (\A l : LinkAsLeft(Links!Idle, l))
  BY <1>2, LinksAssumed DEF LinkInPlace, LinkAsLeft, LinkWorking
<1> QED BY <1>1, <1>3, <1>4

\* What the types are.
LEMMA LinksTyped ==
  Links!TypeOK <=>
    /\ posix \in BOOLEAN /\ targets \in [Checkouts -> SUBSET Links!Names]
    /\ writable \subseteq Links!Directories /\ changes \in 0 .. MaxLinkChanges
    /\ links \in [Links!Directories -> [Links!Names -> LinkFiles]] /\ builds \in [Builds -> BuildRecord]
BY Zenon DEF Links!TypeOK, LinkFiles, BuildRecord, LinkTellings

\* Before the first build.
LEMMA LinksInitial ==
  ASSUME Links!Init  PROVE LinksInv
<1>1. PICK f \in {Links!NoFile, Links!Foreign} \cup (IF posix THEN Links!Symlinks ELSE {}) :
        links = [d \in Links!Directories |-> [c \in Links!Names |->
                  IF d = Search[1] /\ c = Commands[1] THEN f ELSE Links!NoFile]]
  BY DEF Links!Init
<1>2. f \in LinkFiles \ Links!Launchers /\ Links!NoFile \in LinkFiles
  BY <1>1, LinkFilesDiffer DEF LinkFiles
<1>3. links \in [Links!Directories -> [Links!Names -> LinkFiles]]
  BY <1>1, <1>2
<1>4. builds \in [Builds -> BuildRecord] /\ \A b \in Builds : builds[b] = Links!Idle
  BY LinkIdleIs DEF Links!Init
<1>5. targets \in [Checkouts -> SUBSET Links!Names]
  BY LinksAssumed DEF Links!Init
<1>6. Links!TypeOK
  <2>1. posix \in BOOLEAN /\ writable \subseteq Links!Directories /\ changes \in 0 .. MaxLinkChanges
    BY LinksAssumed DEF Links!Init
  <2> QED BY <1>3, <1>4, <1>5, <2>1, LinksTyped
<1> QED BY <1>4, <1>6, LinkIdleIs DEF LinksInv

\* A step changes the file of one command in one directory to f, at most, and b is the
\* build that makes it; the others that work in that directory know of it.
LinkMoves(b, r, d, c, f) ==
  /\ links' \in {links, [links EXCEPT ![d][c] = f]}
  /\ builds' = [a \in Builds |-> builds'[a]] /\ builds'[b] = r
  /\ \A a \in Builds \ {b} :
       \/ builds'[a] = builds[a] /\ (builds[a].dir # d \/ links' = links)
       \/ builds'[a] = [builds[a] EXCEPT !.crossed = @ \cup {c}]

\* Such a step keeps the invariant if the build that makes it is left as the invariant says.
LEMMA LinkGoes ==
  ASSUME LinksInv, NEW b \in Builds, NEW r \in BuildRecord,
         NEW d \in Links!Directories, NEW c \in Links!Names,
         NEW f \in LinkFiles, LinkMoves(b, r, d, c, f), LinkInPlace(r), LinkAsLeft(r, links'),
         UNCHANGED <<posix, targets, writable, changes>>
  PROVE  LinksInv'
<1>1. builds \in [Builds -> BuildRecord] /\ links \in [Links!Directories -> [Links!Names -> LinkFiles]]
  BY DEF LinksInv, Links!TypeOK, BuildRecord, LinkTellings, LinkFiles
<1>2. /\ links' \in [Links!Directories -> [Links!Names -> LinkFiles]]
      /\ \A e \in Links!Directories, g \in Links!Names :
           \/ links'[e][g] = links[e][g]
           \/ links'[e][g] = f /\ e = d /\ g = c /\ links' # links
  <2>1. CASE links' = links
    BY <1>1, <2>1
  <2>2. CASE links' # links
    BY <1>1, <2>2 DEF LinkMoves
  <2> QED BY <2>1, <2>2
<1>3. ASSUME NEW a \in Builds, a # b
      PROVE  /\ builds'[a] \in BuildRecord /\ LinkInPlace(builds'[a])
             /\ LinkAsLeft(builds'[a], links')
             /\ builds'[a].at = builds[a].at /\ builds'[a].dir = builds[a].dir
  <2>1. builds[a] \in BuildRecord /\ LinkInPlace(builds[a]) /\ LinkAsLeft(builds[a], links)
    BY <1>1 DEF LinksInv
  <2>2. /\ builds'[a] \in BuildRecord
        /\ builds'[a].at = builds[a].at /\ builds'[a].checkout = builds[a].checkout
        /\ builds'[a].dir = builds[a].dir /\ builds'[a].next = builds[a].next
        /\ builds'[a].told = builds[a].told /\ builds[a].crossed \subseteq builds'[a].crossed
        /\ builds[a].dir = d /\ links' # links => c \in builds'[a].crossed
    <3>1. CASE builds'[a] = builds[a] /\ (builds[a].dir # d \/ links' = links)
      BY <2>1, <3>1
    <3>2. CASE builds'[a] = [builds[a] EXCEPT !.crossed = @ \cup {c}]
      <4>1. builds'[a] = [at |-> builds[a].at, checkout |-> builds[a].checkout,
              dir |-> builds[a].dir, next |-> builds[a].next, told |-> builds[a].told,
              crossed |-> builds[a].crossed \cup {c}]
        BY <2>1, <3>2, BuildIs
      <4> QED BY <2>1, <4>1, BuildIs DEF BuildRecord
    <3> QED BY <1>3, <3>1, <3>2 DEF LinkMoves
  <2>3. LinkInPlace(builds'[a])
    BY <2>1, <2>2 DEF LinkInPlace
  <2>4. \A g \in Links!Names : builds[a].dir \in Links!Directories /\ g \notin builds'[a].crossed =>
          links'[builds[a].dir][g] = links[builds[a].dir][g]
    BY <1>2, <2>2
  <2>5. builds[a].at \in LinkWorking => Commands[builds[a].next] \in Links!Names
    BY <2>1, LinksAssumed DEF LinkInPlace
  <2>6. LinkAsLeft(builds'[a], links')
    BY <2>1, <2>2, <2>4, <2>5 DEF LinkAsLeft, LinkInPlace, LinkWorking
  <2> QED BY <2>2, <2>3, <2>6
<1>4. \A a \in Builds : builds'[a] \in BuildRecord
  BY <1>3 DEF LinkMoves
<1>5. Links!TypeOK'
  <2>1. Links!TypeOK
    BY DEF LinksInv
  <2>2. builds' \in [Builds -> BuildRecord]
    <3>1. builds' = [a \in Builds |-> builds'[a]]
      BY DEF LinkMoves
    <3> QED BY <1>4, <3>1
  <2>3. /\ posix' \in BOOLEAN /\ targets' \in [Checkouts -> SUBSET Links!Names]
        /\ writable' \subseteq Links!Directories /\ changes' \in 0 .. MaxLinkChanges
    BY <2>1, LinksTyped
  <2> QED BY Zenon, <1>2, <2>2, <2>3 DEF Links!TypeOK, LinkFiles, BuildRecord, LinkTellings
<1>6. ASSUME NEW a \in Builds  PROVE LinkInPlace(builds[a])' /\ LinkAsLeft(builds[a], links)'
  BY <1>3 DEF LinkMoves
<1> QED BY <1>5, <1>6 DEF LinksInv

\* The next command that has a program, or the end.
LEMMA LinkAdvancedIs ==
  ASSUME NEW r \in BuildRecord, r.checkout \in Checkouts, r.next \in 1 .. Len(Commands),
         NEW told_ \in LinkTellings, NEW c \in Links!Names, Links!TypeOK
  PROVE  \E at \in {"look", "done"}, n \in r.next + 1 .. Len(Commands) + 1 :
           /\ at = "look" => n <= Len(Commands)
           /\ Links!Advanced(r, c, told_) =
                [at |-> at, checkout |-> r.checkout, dir |-> r.dir, next |-> n,
                 told |-> [r.told EXCEPT ![c] = told_], crossed |-> r.crossed]
           /\ Links!Advanced(r, c, told_) \in BuildRecord
<1> DEFINE later == {n \in r.next + 1 .. Len(Commands) : Commands[n] \in targets[r.checkout]}
<1>1. PICK n : n = IF later = {} THEN Len(Commands) + 1 ELSE Links!First(later)
  OBVIOUS
<1>2. PICK at : at = IF later = {} THEN "done" ELSE "look"
  OBVIOUS
<1>3. Len(Commands) \in Nat /\ r.next \in Nat
  BY LinksAssumed
<1>4. later \in SUBSET Nat /\ \A m \in later : m \in r.next + 1 .. Len(Commands)
  BY <1>3
<1>5. /\ at \in {"look", "done"} /\ n \in r.next + 1 .. Len(Commands) + 1
      /\ at = "look" => n <= Len(Commands)
  <2>1. CASE later = {}
    BY <1>1, <1>2, <1>3, <2>1
  <2>2. CASE later # {}
    <3>1. Links!First(later) \in later
      BY <1>4, <2>2, LinkFirstIs
    <3> QED BY <1>1, <1>2, <1>3, <1>4, <2>2, <3>1
  <2> QED BY <2>1, <2>2
<1>6. Links!Advanced(r, c, told_) = [[[r EXCEPT !.told[c] = told_] EXCEPT !.next = n] EXCEPT !.at = at]
  BY <1>1, <1>2 DEF Links!Advanced
<1>7. PICK e : e = [r EXCEPT !.told[c] = told_]
  OBVIOUS
<1>8. PICK f : f = [e EXCEPT !.next = n]
  OBVIOUS
<1>9. PICK g : g = [f EXCEPT !.at = at]
  OBVIOUS
<1>10. e = [at |-> r.at, checkout |-> r.checkout, dir |-> r.dir, next |-> r.next,
            told |-> [r.told EXCEPT ![c] = told_], crossed |-> r.crossed]
  BY <1>7, BuildIs
<1>11. f = [at |-> r.at, checkout |-> r.checkout, dir |-> r.dir, next |-> n,
            told |-> [r.told EXCEPT ![c] = told_], crossed |-> r.crossed]
  BY <1>8, <1>10
<1>12. g = [at |-> at, checkout |-> r.checkout, dir |-> r.dir, next |-> n,
            told |-> [r.told EXCEPT ![c] = told_], crossed |-> r.crossed]
  BY <1>9, <1>11
<1>13. Links!Advanced(r, c, told_) = g
  BY <1>6, <1>7, <1>8, <1>9
<1>14. n \in 1 .. Len(Commands) + 1
  BY <1>3, <1>5
<1>15. [r.told EXCEPT ![c] = told_] \in [Links!Names -> LinkTellings]
  BY BuildIs
<1>16. g \in BuildRecord
  BY <1>5, <1>12, <1>14, <1>15, BuildIs DEF BuildRecord
<1> QED BY <1>5, <1>12, <1>13, <1>16

\* A number after another one.
LEMMA NumberLater ==
  ASSUME NEW len \in Nat, NEW k_ \in 1 .. len, NEW n \in k_ + 1 .. len + 1
  PROVE  k_ \in Nat /\ n \in Nat /\ n > k_ /\ n \in 1 .. len + 1 /\ (n <= len => n \in 1 .. len)
OBVIOUS

\* Numbers in their order.
LEMMA NumberFurther ==
  ASSUME NEW k_ \in Nat, NEW m \in Nat, NEW n \in Nat, m < k_, n > k_  PROVE m < n
OBVIOUS

\* A number of an interval.
LEMMA NumberIn ==
  ASSUME NEW len \in Nat, NEW m \in 1 .. len  PROVE m \in Nat
OBVIOUS

\* What a build r told of stands in the files, and what it tells of its command now.
LinkStands(r, l) ==
  \A c \in Links!Names :
    r.told[c] \in {"linked", "already linked"} /\ c \notin r.crossed =>
      l[r.dir][c] = Links!File("launcher", r.checkout)

LinkStandsNow(r, l, told_) ==
  told_ \in {"linked", "already linked"} /\ Commands[r.next] \notin r.crossed =>
    l[r.dir][Commands[r.next]] = Links!File("launcher", r.checkout)

\* A build that told of a command c, after it looked or wrote, goes on to the next one.
LEMMA LinkAdvancedFine ==
  ASSUME NEW r \in BuildRecord, LinkInPlace(r), r.at \in LinkWorking, NEW l,
         NEW told_ \in LinkTellings, Links!TypeOK, r.dir \in Links!Directories, r.checkout \in Checkouts,
         LinkStands(r, l), LinkStandsNow(r, l, told_)
  PROVE  LET new == Links!Advanced(r, Commands[r.next], told_) IN
         /\ new \in BuildRecord /\ LinkInPlace(new) /\ LinkAsLeft(new, l) /\ new.dir = r.dir
<1> DEFINE c == Commands[r.next]
<1>1. r.next \in 1 .. Len(Commands) /\ c \in Links!Names
  BY LinksAssumed DEF LinkInPlace
<1>2. PICK at \in {"look", "done"}, n \in r.next + 1 .. Len(Commands) + 1 :
           /\ at = "look" => n <= Len(Commands)
           /\ Links!Advanced(r, c, told_) =
                [at |-> at, checkout |-> r.checkout, dir |-> r.dir, next |-> n,
                 told |-> [r.told EXCEPT ![c] = told_], crossed |-> r.crossed]
           /\ Links!Advanced(r, c, told_) \in BuildRecord
  BY <1>1, LinkAdvancedIs
<1>3. PICK new : new = Links!Advanced(r, c, told_)
  OBVIOUS
<1>4. new = [at |-> at, checkout |-> r.checkout, dir |-> r.dir, next |-> n,
              told |-> [r.told EXCEPT ![c] = told_], crossed |-> r.crossed]
  BY <1>2, <1>3
<1>5. /\ Len(Commands) \in Nat /\ r.next \in Nat /\ n \in Nat /\ n > r.next
      /\ n \in 1 .. Len(Commands) + 1
  <2>1. Len(Commands) \in Nat
    BY LinksAssumed
  <2> QED BY <1>1, <1>2, <2>1, NumberLater
<1>8. /\ new.at = at /\ new.checkout = r.checkout /\ new.dir = r.dir /\ new.next = n
      /\ new.crossed = r.crossed /\ new.told = [r.told EXCEPT ![c] = told_]
  BY <1>4
<1>9. new \in BuildRecord
  BY <1>2, <1>3
<1>10. new.told[c] = told_ /\ \A g \in Links!Names : g # c => new.told[g] = r.told[g]
  <2>1. r.told \in [Links!Names -> LinkTellings]
    BY BuildIs
  <2> HIDE DEF c
  <2> QED BY <1>1, <1>8, <2>1
<1>6. LinkInPlace(new)
  <2>1. ASSUME NEW m \in 1 .. Len(Commands), new.told[Commands[m]] # "none"  PROVE m < new.next
    <3>1. CASE Commands[m] = c
      <4>1. m = r.next
        BY <1>1, <3>1, LinksAssumed
      <4> QED BY <1>5, <1>8, <4>1
    <3>2. CASE Commands[m] # c
      <4>1. r.told[Commands[m]] # "none"
        BY <1>10, <2>1, <3>2, LinksAssumed
      <4>2. m < r.next
        BY <4>1 DEF LinkInPlace
      <4>3. m \in Nat
        BY <1>5, <2>1, NumberIn
      <4> QED BY <1>5, <1>8, <4>2, <4>3, NumberFurther
    <3> QED BY <3>1, <3>2
  <2>2. new.at \in LinkWorking => new.next \in 1 .. Len(Commands)
    <3>1. new.at \in LinkWorking => at = "look"
      BY <1>2, <1>8 DEF LinkWorking
    <3>2. at = "look" => n \in 1 .. Len(Commands)
      BY <1>1, <1>2, <1>5, NumberLater
    <3> QED BY <1>8, <3>1, <3>2
  <2>3. new.dir \in Links!Directories /\ new.checkout \in Checkouts
    BY <1>8
  <2> QED BY <2>1, <2>2, <2>3 DEF LinkInPlace
<1>7. LinkAsLeft(new, l)
  <2>1. new.at \notin {"unlink", "open", "fill"}
    BY <1>2, <1>8
  <2>2. ASSUME NEW g \in Links!Names, new.told[g] \in {"linked", "already linked"}, g \notin new.crossed
        PROVE  l[new.dir][g] = Links!File("launcher", new.checkout)
    <3>1. CASE g = c
      BY <1>8, <1>10, <2>2, <3>1 DEF LinkStandsNow
    <3>2. CASE g # c
      BY <1>8, <1>10, <2>2, <3>2 DEF LinkStands
    <3> QED BY <3>1, <3>2
  <2> QED BY <2>1, <2>2 DEF LinkAsLeft
<1> QED BY <1>3, <1>8, <1>9, <1>6, <1>7

\* A build of which only the step changes.
LEMMA LinkAtIs ==
  ASSUME NEW r \in BuildRecord,
         NEW at \in {"idle", "look", "unlink", "open", "fill", "done", "skipped", "dead"}
  PROVE  /\ [r EXCEPT !.at = at] =
              [at |-> at, checkout |-> r.checkout, dir |-> r.dir, next |-> r.next,
               told |-> r.told, crossed |-> r.crossed]
         /\ [r EXCEPT !.at = at] \in BuildRecord
<1>1. [r EXCEPT !.at = at] =
        [at |-> at, checkout |-> r.checkout, dir |-> r.dir, next |-> r.next,
         told |-> r.told, crossed |-> r.crossed]
  BY BuildIs
<1> QED BY <1>1, BuildIs DEF BuildRecord

\* A build's own step that leaves the files alone.
LEMMA LinkStays ==
  ASSUME LinksInv, NEW b \in Builds, NEW r \in BuildRecord, LinkInPlace(r), LinkAsLeft(r, links),
         builds' = [builds EXCEPT ![b] = r],
         UNCHANGED <<posix, targets, writable, links, changes>>
  PROVE  LinksInv'
<1>1. builds \in [Builds -> BuildRecord]
  BY DEF LinksInv, Links!TypeOK, BuildRecord, LinkTellings
<1>2. builds' \in [Builds -> BuildRecord] /\ builds'[b] = r
      /\ \A a \in Builds : a # b => builds'[a] = builds[a]
  BY <1>1
<1>3. Links!TypeOK'
  <2>1. /\ posix' \in BOOLEAN /\ targets' \in [Checkouts -> SUBSET Links!Names]
        /\ writable' \subseteq Links!Directories /\ changes' \in 0 .. MaxLinkChanges
        /\ links' \in [Links!Directories -> [Links!Names -> LinkFiles]]
    BY LinksTyped DEF LinksInv
  <2> QED BY Zenon, <1>2, <2>1 DEF Links!TypeOK, LinkFiles, BuildRecord, LinkTellings
<1>4. ASSUME NEW a \in Builds  PROVE LinkInPlace(builds'[a]) /\ LinkAsLeft(builds'[a], links')
  BY <1>2 DEF LinksInv
<1> QED BY <1>3, <1>4 DEF LinksInv

\* What a build at work on a command knows.
LEMMA LinkAtWork ==
  ASSUME LinksInv, NEW b \in Builds, builds[b].at \in LinkWorking
  PROVE  /\ builds[b] \in BuildRecord /\ LinkInPlace(builds[b]) /\ LinkAsLeft(builds[b], links)
         /\ builds[b].dir \in Links!Directories /\ builds[b].checkout \in Checkouts
         /\ builds[b].next \in 1 .. Len(Commands) /\ Links!Name(b) \in Links!Names
         /\ builds[b].told[Links!Name(b)] = "none" /\ Links!Found(b) \in LinkFiles
<1>1. builds[b] \in BuildRecord /\ LinkInPlace(builds[b]) /\ LinkAsLeft(builds[b], links)
      /\ links \in [Links!Directories -> [Links!Names -> LinkFiles]]
  BY LinksTyped DEF LinksInv
<1>2. /\ builds[b].dir \in Links!Directories /\ builds[b].checkout \in Checkouts
      /\ builds[b].next \in 1 .. Len(Commands)
  BY <1>1 DEF LinkInPlace
<1>3. Links!Name(b) \in Links!Names
  BY <1>2, LinksAssumed DEF Links!Name
<1>4. builds[b].told[Links!Name(b)] = "none"
  <2>1. ~(builds[b].next < builds[b].next)
    BY <1>2
  <2> QED BY <1>1, <1>2, <2>1 DEF LinkInPlace, Links!Name
<1> QED BY <1>1, <1>2, <1>3, <1>4 DEF LinksInv, Links!Found

\* A build that only goes from one step of a command to another.
LEMMA LinkOnStep ==
  ASSUME NEW r \in BuildRecord, LinkInPlace(r), NEW l, LinkAsLeft(r, l), r.at \in LinkWorking,
         NEW at \in {"unlink", "open", "fill", "dead"},
         at \in {"unlink", "open"} /\ Commands[r.next] \notin r.crossed =>
           l[r.dir][Commands[r.next]] # Links!Foreign,
         at = "fill" /\ Commands[r.next] \notin r.crossed => l[r.dir][Commands[r.next]] = Links!Torn
  PROVE  LET new == [r EXCEPT !.at = at] IN
         new \in BuildRecord /\ LinkInPlace(new) /\ LinkAsLeft(new, l) /\ new.dir = r.dir
<1>1. PICK new : new = [r EXCEPT !.at = at]
  OBVIOUS
<1>2. /\ new = [at |-> at, checkout |-> r.checkout, dir |-> r.dir, next |-> r.next,
                told |-> r.told, crossed |-> r.crossed]
      /\ new \in BuildRecord
  BY <1>1, LinkAtIs
<1>3. /\ new.at = at /\ new.checkout = r.checkout /\ new.dir = r.dir /\ new.next = r.next
      /\ new.told = r.told /\ new.crossed = r.crossed
  BY <1>2
<1>4. LinkInPlace(new)
  BY <1>3 DEF LinkInPlace
<1>5. LinkAsLeft(new, l)
  BY <1>3 DEF LinkAsLeft
<1> QED BY <1>1, <1>2, <1>3, <1>4, <1>5

\* A build begins.
LEMMA BeginKeepsLinks ==
  ASSUME LinksInv, NEW b \in Builds, Links!Begin(b)  PROVE LinksInv'
<1>1. PICK o \in Checkouts :
        builds' = [builds EXCEPT ![b] =
          IF Links!Usable = {} THEN [Links!Idle EXCEPT !.at = "skipped", !.checkout = o]
          ELSE [Links!Idle EXCEPT !.at = "look", !.checkout = o,
                                  !.dir = Links!Candidates[Links!First(Links!Usable)]]]
  BY DEF Links!Begin
<1>2. UNCHANGED <<posix, targets, writable, links, changes>>
  BY DEF Links!Begin
<1>3. \A c \in Links!Names : [g \in Links!Names |-> "none"][c] = "none"
  OBVIOUS
<1>4. [g \in Links!Names |-> "none"] \in [Links!Names -> LinkTellings] /\ 1 \in 1 .. Len(Commands)
      /\ 1 \in 1 .. Len(Commands) + 1
  BY LinksAssumed DEF LinkTellings
<1>5. CASE Links!Usable = {}
  <2>1. PICK r : r = [Links!Idle EXCEPT !.at = "skipped", !.checkout = o]
    OBVIOUS
  <2>2. r = [at |-> "skipped", checkout |-> o, dir |-> "none", next |-> 1,
             told |-> [c \in Links!Names |-> "none"], crossed |-> {}]
    BY <2>1, LinkIdleIs
  <2>3. r \in BuildRecord
    BY <1>4, <2>2 DEF BuildRecord
  <2>4. /\ r.at = "skipped" /\ \A c \in Links!Names : r.told[c] = "none"
    BY <2>2
  <2>5. LinkInPlace(r) /\ LinkAsLeft(r, links)
    BY <2>4, LinksAssumed DEF LinkInPlace, LinkAsLeft, LinkWorking
  <2> QED BY <1>1, <1>2, <1>5, <2>1, <2>3, <2>4, <2>5, LinkStays DEF LinkWorking
<1>6. CASE Links!Usable # {}
  <2>1. Links!First(Links!Usable) \in Links!Usable /\ Links!Usable \subseteq DOMAIN Links!Candidates
    BY <1>6, LinkFirstIs, LinksAssumed DEF Links!Usable
  <2>2. PICK d \in Links!Directories : d = Links!Candidates[Links!First(Links!Usable)]
    BY <2>1, LinksAssumed
  <2>3. PICK r : r = [Links!Idle EXCEPT !.at = "look", !.checkout = o, !.dir = d]
    OBVIOUS
  <2>4. r = [at |-> "look", checkout |-> o, dir |-> d, next |-> 1,
             told |-> [c \in Links!Names |-> "none"], crossed |-> {}]
    <3>1. PICK e : e = [Links!Idle EXCEPT !.at = "look"]
      OBVIOUS
    <3>2. e = [at |-> "look", checkout |-> "none", dir |-> "none", next |-> 1,
               told |-> [c \in Links!Names |-> "none"], crossed |-> {}]
      BY <3>1, LinkIdleIs
    <3>3. PICK f : f = [e EXCEPT !.checkout = o]
      OBVIOUS
    <3>4. f = [at |-> "look", checkout |-> o, dir |-> "none", next |-> 1,
               told |-> [c \in Links!Names |-> "none"], crossed |-> {}]
      BY <3>2, <3>3
    <3>5. r = [f EXCEPT !.dir = d]
      BY <2>3, <3>1, <3>3
    <3> QED BY <3>4, <3>5
  <2>5. r \in BuildRecord
    BY <1>4, <2>4 DEF BuildRecord
  <2>6. /\ r.at = "look" /\ r.dir = d /\ r.checkout = o /\ r.next = 1
        /\ \A c \in Links!Names : r.told[c] = "none"
    BY <2>4
  <2>7. LinkInPlace(r) /\ LinkAsLeft(r, links)
    BY <1>4, <2>6, LinksAssumed DEF LinkInPlace, LinkAsLeft, LinkWorking
  <2>8. builds' = [builds EXCEPT ![b] = r]
    BY <1>1, <1>6, <2>2, <2>3
  <2> QED BY <1>2, <2>5, <2>6, <2>7, <2>8, LinkStays
<1> QED BY <1>5, <1>6

\* A build looks at what is there.
LEMMA LookKeepsLinks ==
  ASSUME LinksInv, NEW b \in Builds, Links!Look(b)  PROVE LinksInv'
<1>1. builds[b].at = "look" /\ "look" \in LinkWorking
  BY DEF Links!Look, LinkWorking
<1>2. PICK r \in BuildRecord : r = builds[b]
  BY <1>1, LinkAtWork
<1>3. PICK c \in Links!Names : c = Links!Name(b) /\ c = Commands[r.next]
  BY <1>1, <1>2, LinkAtWork DEF Links!Name
<1>4. PICK seen : seen = [r EXCEPT !.crossed = @ \ {c}]
  OBVIOUS
<1>5. PICK f \in LinkFiles : f = Links!Found(b) /\ f = links[r.dir][c]
  BY <1>1, <1>2, <1>3, LinkAtWork DEF Links!Found, Links!Name
<1>6. /\ r.at = "look" /\ r.dir \in Links!Directories /\ r.checkout \in Checkouts
      /\ r.next \in 1 .. Len(Commands) /\ r.told[c] = "none"
      /\ LinkInPlace(r) /\ LinkAsLeft(r, links)
  BY <1>1, <1>2, <1>3, LinkAtWork
<1>7. seen = [at |-> r.at, checkout |-> r.checkout, dir |-> r.dir, next |-> r.next,
              told |-> r.told, crossed |-> r.crossed \ {c}]
  <2>1. PICK rest : rest = r.crossed \ {c}
    OBVIOUS
  <2>2. seen = [r EXCEPT !.crossed = rest]
    BY <1>4, <2>1
  <2>3. seen = [at |-> r.at, checkout |-> r.checkout, dir |-> r.dir, next |-> r.next,
                told |-> r.told, crossed |-> rest]
    BY <2>2, BuildIs
  <2> QED BY <2>1, <2>3
<1>8. /\ seen.at = r.at /\ seen.checkout = r.checkout /\ seen.dir = r.dir /\ seen.next = r.next
      /\ seen.told = r.told /\ seen.crossed = r.crossed \ {c}
  BY <1>7
<1>9. seen \in BuildRecord
  <2>1. r.crossed \ {c} \in SUBSET Links!Names
    BY BuildIs
  <2> QED BY <1>7, <2>1, BuildIs DEF BuildRecord
<1>10. LinkInPlace(seen)
  BY <1>6, <1>8 DEF LinkInPlace
<1>11. \A g \in Links!Names : seen.told[g] \in {"linked", "already linked"} /\ g \notin seen.crossed =>
                          links[seen.dir][g] = Links!File("launcher", seen.checkout)
  BY <1>6, <1>8 DEF LinkAsLeft
<1>12. LinkAsLeft(seen, links)
  BY <1>6, <1>8, <1>11 DEF LinkAsLeft
<1>13. PICK new : /\ builds' = [builds EXCEPT ![b] = new]
                  /\ new = IF posix THEN Links!ensurePosixLauncher(seen, f, c)
                           ELSE Links!ensureWindowsShim(seen, f, c)
  BY <1>2, <1>3, <1>4, <1>5 DEF Links!Look
<1>14. \/ new = [seen EXCEPT !.at = "open"] /\ f # Links!Foreign
       \/ new = [seen EXCEPT !.at = "unlink"] /\ f # Links!Foreign
       \/ \E t \in LinkTellings : /\ new = Links!Advanced(seen, c, t)
                                  /\ t \in {"linked", "already linked"} =>
                                       f = Links!File("launcher", r.checkout)
  <2>1. Links!isMigratable(f, c, seen.checkout) => f # Links!Foreign
    <3>1. Links!File("symlink", r.checkout) \in Links!Symlinks
      BY <1>6 DEF Links!Symlinks
    <3> QED BY <1>8, <3>1, LinkFilesDiffer DEF Links!isMigratable
  <2>2. Links!isOwned(f) => f # Links!Foreign
    BY LinkFilesDiffer DEF Links!isOwned
  <2>3. Links!isOwned(Links!File("launcher", r.checkout))
    BY <1>6, LinkFilesDiffer DEF Links!isOwned
  <2>4. CASE posix
    <3>1. new = Links!ensurePosixLauncher(seen, f, c)
      BY <1>13, <2>4
    <3> QED BY <1>8, <2>1, <2>2, <3>1, LinkFilesDiffer DEF Links!ensurePosixLauncher, LinkTellings
  <2>5. CASE ~posix
    <3>1. new = Links!ensureWindowsShim(seen, f, c)
      BY <1>13, <2>5
    <3> QED BY <1>8, <2>2, <3>1, LinkFilesDiffer DEF Links!ensureWindowsShim, LinkTellings
  <2> QED BY <2>4, <2>5
<1>15. new \in BuildRecord /\ LinkInPlace(new) /\ LinkAsLeft(new, links) /\ new.dir = r.dir
  <2> f # Links!Foreign => links[seen.dir][Commands[seen.next]] # Links!Foreign
    BY <1>3, <1>5, <1>8
  <2> seen.at \in LinkWorking
    BY <1>1, <1>6, <1>8
  <2>1. CASE new = [seen EXCEPT !.at = "open"] /\ f # Links!Foreign
    BY <1>8, <1>9, <1>10, <1>12, <2>1, LinkOnStep
  <2>2. CASE new = [seen EXCEPT !.at = "unlink"] /\ f # Links!Foreign
    BY <1>8, <1>9, <1>10, <1>12, <2>2, LinkOnStep
  <2>3. ASSUME NEW t \in LinkTellings, new = Links!Advanced(seen, c, t),
               t \in {"linked", "already linked"} => f = Links!File("launcher", r.checkout)
        PROVE  new \in BuildRecord /\ LinkInPlace(new) /\ LinkAsLeft(new, links) /\ new.dir = r.dir
    <3>1. Links!TypeOK /\ seen.at \in LinkWorking /\ c = Commands[seen.next]
      BY <1>1, <1>3, <1>6, <1>8 DEF LinksInv
    <3>2. LinkStandsNow(seen, links, t)
      BY <1>5, <1>8, <2>3, <3>1 DEF LinkStandsNow
    <3>3. seen.dir \in Links!Directories /\ seen.checkout \in Checkouts
      BY <1>6, <1>8
    <3>4. LinkStands(seen, links)
      BY <1>11 DEF LinkStands
    <3> QED BY <1>8, <1>9, <1>10, <2>3, <3>1, <3>2, <3>3, <3>4, LinkAdvancedFine
  <2> QED BY <1>14, <2>1, <2>2, <2>3
<1>16. UNCHANGED <<posix, targets, writable, links, changes>>
  BY DEF Links!Look
<1> QED BY <1>6, <1>13, <1>15, <1>16, LinkStays

\* A build b wrote f, or nothing, in the place of its command; the others know of it.
LinkWrote(b, f) == links' \in {links, [links EXCEPT ![builds[b].dir][Links!Name(b)] = f]}
LinkSpread(b, new) ==
  builds' = [Links!Crossed(Builds \ {b}, builds[b].dir, Links!Name(b)) EXCEPT ![b] = new]

\* A build's step of its command that writes the file f, or finds nothing to write.
LEMMA LinkWrites ==
  ASSUME LinksInv, NEW b \in Builds, builds[b].at \in LinkWorking, NEW f \in LinkFiles, NEW new,
         LinkWrote(b, f), LinkSpread(b, new),
         UNCHANGED <<posix, targets, writable, changes>>,
         new \in BuildRecord, LinkInPlace(new), LinkAsLeft(new, links'), new.dir = builds[b].dir
  PROVE  LinksInv'
<1>1. PICK d \in Links!Directories, c \in Links!Names : d = builds[b].dir /\ c = Links!Name(b)
  BY LinkAtWork
<1>2. LinkMoves(b, new, d, c, f)
  <2>1. links' \in {links, [links EXCEPT ![d][c] = f]}
    BY <1>1 DEF LinkWrote
  <2>2. builds' = [Links!Crossed(Builds \ {b}, d, c) EXCEPT ![b] = new]
    BY <1>1 DEF LinkSpread
  <2>3. builds' = [a \in Builds |-> builds'[a]] /\ builds'[b] = new
    BY <2>2 DEF Links!Crossed
  <2>4. ASSUME NEW a \in Builds \ {b}
        PROVE  \/ builds'[a] = builds[a] /\ (builds[a].dir # d \/ links' = links)
               \/ builds'[a] = [builds[a] EXCEPT !.crossed = @ \cup {c}]
    <3>1. builds'[a] = Links!Crossed(Builds \ {b}, d, c)[a]
      BY <2>2, <2>4 DEF Links!Crossed
    <3>2. Links!Crossed(Builds \ {b}, d, c)[a] =
            IF builds[a].dir = d THEN [builds[a] EXCEPT !.crossed = @ \cup {c}] ELSE builds[a]
      BY <2>4 DEF Links!Crossed
    <3> QED BY <3>1, <3>2
  <2> QED BY <2>1, <2>3, <2>4 DEF LinkMoves
<1> QED BY <1>1, <1>2, LinkGoes

\* Where a build writes its file, it leaves those of which it told.
LEMMA LinkOthersStand ==
  ASSUME LinksInv, NEW b \in Builds, builds[b].at \in LinkWorking, NEW f, LinkWrote(b, f)
  PROVE  /\ \A c \in Links!Names : builds[b].told[c] \in {"linked", "already linked"} /\
                             c \notin builds[b].crossed =>
                               links'[builds[b].dir][c] = Links!File("launcher", builds[b].checkout)
         /\ links' # links => links'[builds[b].dir][Links!Name(b)] = f
         /\ links' = [links EXCEPT ![builds[b].dir][Links!Name(b)] = f] =>
              links'[builds[b].dir][Links!Name(b)] = f
<1>1. PICK d \in Links!Directories, g \in Links!Names : d = builds[b].dir /\ g = Links!Name(b)
  BY LinkAtWork
<1>2. builds[b].told[g] = "none" /\ LinkAsLeft(builds[b], links)
  BY <1>1, LinkAtWork
<1>3. links \in [Links!Directories -> [Links!Names -> LinkFiles]]
  BY LinksTyped DEF LinksInv
<1>4. \A c \in Links!Names : c # g => links'[d][c] = links[d][c]
  BY <1>1, <1>3 DEF LinkWrote
<1>5. links' = [links EXCEPT ![d][g] = f] => links'[d][g] = f
  BY <1>3
<1>6. links' # links => links'[d][g] = f
  BY <1>1, <1>5 DEF LinkWrote
<1> QED BY <1>1, <1>2, <1>4, <1>5, <1>6 DEF LinkAsLeft

\* A build ends before its time.
LEMMA DeadKeepsLinks ==
  ASSUME LinksInv, NEW b \in Builds, builds[b].at \in LinkWorking, Links!Step(b, "dead"),
         UNCHANGED <<posix, targets, writable, links, changes>>
  PROVE  LinksInv'
<1>1. PICK r \in BuildRecord : r = builds[b]
  BY LinkAtWork
<1>2. PICK new : new = [r EXCEPT !.at = "dead"]
  OBVIOUS
<1>3. LinkInPlace(r) /\ LinkAsLeft(r, links) /\ r.at \in LinkWorking
  BY <1>1, LinkAtWork
<1>4. new \in BuildRecord /\ LinkInPlace(new) /\ LinkAsLeft(new, links)
  BY <1>2, <1>3, LinkOnStep
<1>5. new.at \notin LinkWorking
  BY <1>2, LinkAtIs DEF LinkWorking
<1>6. builds' = [builds EXCEPT ![b] = new]
  BY <1>1, <1>2 DEF Links!Step
<1> QED BY <1>4, <1>5, <1>6, LinkStays

\* What a writing build is then.
LEMMA LinkOnWriting ==
  ASSUME LinksInv, NEW b \in Builds, builds[b].at \in LinkWorking, NEW f \in LinkFiles,
         LinkWrote(b, f), NEW at \in {"open", "fill"},
         at = "open" => links'[builds[b].dir][Links!Name(b)] # Links!Foreign,
         at = "fill" => links'[builds[b].dir][Links!Name(b)] = Links!Torn,
         builds' = [Links!Crossed(Builds \ {b}, builds[b].dir, Links!Name(b)) EXCEPT ![b].at = at],
         UNCHANGED <<posix, targets, writable, changes>>
  PROVE  LinksInv'
<1>1. PICK r \in BuildRecord : r = builds[b]
  BY LinkAtWork
<1>2. PICK new : new = [r EXCEPT !.at = at]
  OBVIOUS
<1>3. LinkInPlace(r) /\ r.at \in LinkWorking /\ Links!Name(b) = Commands[r.next]
  BY <1>1, LinkAtWork DEF Links!Name
<1>4. /\ new = [at |-> at, checkout |-> r.checkout, dir |-> r.dir, next |-> r.next,
                told |-> r.told, crossed |-> r.crossed]
      /\ new \in BuildRecord
  BY <1>2, LinkAtIs
<1>5. /\ new.at = at /\ new.checkout = r.checkout /\ new.dir = r.dir /\ new.next = r.next
      /\ new.told = r.told /\ new.crossed = r.crossed
  BY <1>4
<1>6. LinkInPlace(new)
  BY <1>3, <1>5 DEF LinkInPlace, LinkWorking
<1>7. LinkAsLeft(new, links')
  <2>1. \A c \in Links!Names : r.told[c] \in {"linked", "already linked"} /\ c \notin r.crossed =>
                               links'[r.dir][c] = Links!File("launcher", r.checkout)
    BY <1>1, LinkOthersStand
  <2> QED BY <1>1, <1>3, <1>5, <2>1 DEF LinkAsLeft
<1>8. LinkSpread(b, new)
  <2>1. Links!Crossed(Builds \ {b}, builds[b].dir, Links!Name(b))[b] = r
    BY <1>1 DEF Links!Crossed
  <2> QED BY <1>2, <2>1 DEF LinkSpread
<1> QED BY <1>1, <1>4, <1>5, <1>6, <1>7, <1>8, LinkWrites

\* A build removes the symbolic link of an earlier version.
LEMMA UnlinkKeepsLinks ==
  ASSUME LinksInv, NEW b \in Builds, Links!Unlink(b)  PROVE LinksInv'
<1>1. builds[b].at \in LinkWorking /\ UNCHANGED <<posix, targets, writable, changes>>
  BY DEF Links!Unlink, LinkWorking
<1>2. CASE Links!Found(b) = Links!NoFile /\ Links!Step(b, "dead") /\ links' = links
  BY <1>1, <1>2, DeadKeepsLinks
<1>3. CASE /\ links' = [links EXCEPT ![builds[b].dir][Links!Name(b)] = Links!NoFile]
           /\ builds' = [Links!Crossed(Builds \ {b}, builds[b].dir, Links!Name(b)) EXCEPT ![b].at = "open"]
  <2>1. LinkWrote(b, Links!NoFile) /\ Links!NoFile \in LinkFiles
    BY <1>3 DEF LinkWrote, LinkFiles
  <2>2. links'[builds[b].dir][Links!Name(b)] = Links!NoFile
    BY <1>1, <1>3, <2>1, LinkOthersStand
  <2> QED BY <1>1, <1>3, <2>1, <2>2, LinkFilesDiffer, LinkOnWriting
<1> QED BY <1>2, <1>3 DEF Links!Unlink

\* A build empties the file, or makes it.
LEMMA OpenKeepsLinks ==
  ASSUME LinksInv, NEW b \in Builds, Links!Open(b)  PROVE LinksInv'
<1>1. builds[b].at \in LinkWorking /\ UNCHANGED <<posix, targets, writable, changes>>
  BY DEF Links!Open, LinkWorking
<1>2. CASE Links!Step(b, "dead") /\ links' = links
  BY <1>1, <1>2, DeadKeepsLinks
<1>3. CASE /\ links' = [links EXCEPT ![builds[b].dir][Links!Name(b)] = Links!Torn]
           /\ builds' = [Links!Crossed(Builds \ {b}, builds[b].dir, Links!Name(b)) EXCEPT ![b].at = "fill"]
  <2>1. LinkWrote(b, Links!Torn) /\ Links!Torn \in LinkFiles
    BY <1>3 DEF LinkWrote, LinkFiles
  <2>2. links'[builds[b].dir][Links!Name(b)] = Links!Torn
    BY <1>1, <1>3, <2>1, LinkOthersStand
  <2> QED BY <1>1, <1>3, <2>1, <2>2, LinkOnWriting
<1> QED BY <1>2, <1>3 DEF Links!Open

\* A build writes its launcher.
LEMMA FillKeepsLinks ==
  ASSUME LinksInv, NEW b \in Builds, Links!Fill(b)  PROVE LinksInv'
<1>1. builds[b].at = "fill" /\ "fill" \in LinkWorking
  BY DEF Links!Fill, LinkWorking
<1>2. UNCHANGED <<posix, targets, writable, changes>>
  BY DEF Links!Fill
<1>3. PICK r \in BuildRecord : r = builds[b]
  BY <1>1, LinkAtWork
<1>4. PICK c \in Links!Names : c = Links!Name(b) /\ c = Commands[r.next]
  BY <1>1, <1>3, LinkAtWork DEF Links!Name
<1>5. /\ r.at = "fill" /\ r.dir \in Links!Directories /\ r.checkout \in Checkouts
      /\ LinkInPlace(r) /\ LinkAsLeft(r, links)
  BY <1>1, <1>3, LinkAtWork
<1>6. PICK f \in LinkFiles : f = Links!File("launcher", r.checkout)
  BY <1>5, LinkFilesDiffer DEF LinkFiles
<1>7. links' = IF Links!isOwned(Links!Found(b)) \/ Links!Found(b) = Links!Torn
               THEN [links EXCEPT ![r.dir][c] = f] ELSE links
  BY <1>3, <1>4, <1>6 DEF Links!Fill
<1>8. LinkWrote(b, f)
  BY <1>3, <1>4, <1>7 DEF LinkWrote
<1>9. PICK new : new = Links!Advanced(r, c, "linked")
  OBVIOUS
<1>10. LinkSpread(b, new)
  BY <1>3, <1>4, <1>9 DEF Links!Fill, LinkSpread
<1>11. c \notin r.crossed => links'[r.dir][c] = f
  <2>1. c \notin r.crossed => Links!Found(b) = Links!Torn
    BY <1>3, <1>4, <1>5 DEF LinkAsLeft, Links!Found
  <2> QED BY <1>1, <1>3, <1>4, <1>7, <1>8, <2>1, LinkOthersStand
<1>12. \A g \in Links!Names : r.told[g] \in {"linked", "already linked"} /\ g \notin r.crossed =>
                             links'[r.dir][g] = Links!File("launcher", r.checkout)
  BY <1>1, <1>3, <1>8, LinkOthersStand
<1>13. new \in BuildRecord /\ LinkInPlace(new) /\ LinkAsLeft(new, links') /\ new.dir = r.dir
  <2>1. Links!TypeOK /\ r.at \in LinkWorking /\ "linked" \in LinkTellings
    BY <1>1, <1>5 DEF LinksInv, LinkTellings
  <2>2. Commands[r.next] \notin r.crossed =>
          links'[r.dir][Commands[r.next]] = Links!File("launcher", r.checkout)
    BY <1>4, <1>6, <1>11
  <2>3. PICK now : now = links'
    OBVIOUS
  <2>4. PICK t \in LinkTellings : t = "linked"
    BY <2>1
  <2>5. LinkStands(r, now)
    BY <1>12, <2>3 DEF LinkStands
  <2>6. LinkStandsNow(r, now, t)
    BY <2>2, <2>3 DEF LinkStandsNow
  <2>7. PICK made : made = Links!Advanced(r, Commands[r.next], t)
    OBVIOUS
  <2>8. made \in BuildRecord /\ LinkInPlace(made) /\ LinkAsLeft(made, now) /\ made.dir = r.dir
    BY <1>5, <2>1, <2>5, <2>6, <2>7, LinkAdvancedFine
  <2> QED BY <1>4, <1>9, <2>3, <2>4, <2>7, <2>8
<1> QED BY <1>1, <1>2, <1>3, <1>8, <1>10, <1>13, LinkWrites

\* A build dies, or another one of its user begins.
LEMMA DieAndAgainKeepLinks ==
  ASSUME LinksInv, NEW b \in Builds, Links!Die(b) \/ Links!Again(b)  PROVE LinksInv'
<1>1. CASE Links!Die(b)
  BY <1>1, DeadKeepsLinks DEF Links!Die, LinkWorking
<1>2. CASE Links!Again(b)
  <2>1. /\ Links!Idle \in BuildRecord /\ LinkInPlace(Links!Idle) /\ LinkAsLeft(Links!Idle, links)
        /\ Links!Idle.at \notin LinkWorking
    <3>1. Links!Idle.at = "idle"
      BY DEF Links!Idle
    <3> QED BY <3>1, LinkIdleIs DEF LinkWorking
  <2> QED BY <1>2, <2>1, LinkStays DEF Links!Again
<1> QED BY <1>1, <1>2

\* The user changes a command or a directory.
LEMMA ChangeKeepsLinks ==
  ASSUME LinksInv, Links!Change  PROVE LinksInv'
<1>1. /\ changes < MaxLinkChanges /\ changes' = changes + 1 /\ UNCHANGED <<posix, targets>>
  BY DEF Links!Change
<1>2. /\ posix \in BOOLEAN /\ targets \in [Checkouts -> SUBSET Links!Names]
      /\ writable \subseteq Links!Directories /\ changes \in 0 .. MaxLinkChanges
      /\ links \in [Links!Directories -> [Links!Names -> LinkFiles]] /\ builds \in [Builds -> BuildRecord]
  BY LinksTyped DEF LinksInv
<1>3. changes' \in 0 .. MaxLinkChanges /\ changes' # 0
  BY <1>1, <1>2, LinksAssumed
<1>4. /\ writable' \subseteq Links!Directories /\ links' \in [Links!Directories -> [Links!Names -> LinkFiles]]
      /\ builds' \in [Builds -> BuildRecord]
      /\ \A a \in Builds : LinkInPlace(builds'[a]) /\ LinkAsLeft(builds'[a], links')
  <2>1. ASSUME NEW d \in Links!Directories, NEW c \in Links!Names,
               links' = [links EXCEPT ![d][c] = IF @ = Links!NoFile THEN Links!Foreign ELSE Links!NoFile],
               builds' = Links!Crossed(Builds, d, c), writable' = writable
        PROVE  /\ writable' \subseteq Links!Directories /\ links' \in [Links!Directories -> [Links!Names -> LinkFiles]]
               /\ builds' \in [Builds -> BuildRecord]
               /\ \A a \in Builds : LinkInPlace(builds'[a]) /\ LinkAsLeft(builds'[a], links')
    <3>1. PICK f \in LinkFiles : f = IF links[d][c] = Links!NoFile THEN Links!Foreign ELSE Links!NoFile
      BY DEF LinkFiles
    <3>2. links' = [links EXCEPT ![d][c] = f]
      BY <2>1, <3>1
    <3>3. /\ links' \in [Links!Directories -> [Links!Names -> LinkFiles]]
          /\ \A e \in Links!Directories, g \in Links!Names : e # d \/ g # c => links'[e][g] = links[e][g]
      BY <1>2, <3>2
    <3>4. ASSUME NEW a \in Builds
          PROVE  builds'[a] \in BuildRecord /\ LinkInPlace(builds'[a]) /\ LinkAsLeft(builds'[a], links')
      <4>1. builds[a] \in BuildRecord /\ LinkInPlace(builds[a]) /\ LinkAsLeft(builds[a], links)
        BY <1>2 DEF LinksInv
      <4>2. builds'[a] = IF builds[a].dir = d THEN [builds[a] EXCEPT !.crossed = @ \cup {c}]
                         ELSE builds[a]
        BY <2>1, <3>4 DEF Links!Crossed
      <4>3. builds[a].at \in LinkWorking => Commands[builds[a].next] \in Links!Names
        BY <4>1, LinksAssumed DEF LinkInPlace
      <4>4. CASE builds[a].dir # d
        <5>1. \A g \in Links!Names : builds[a].dir \in Links!Directories =>
                links'[builds[a].dir][g] = links[builds[a].dir][g]
          BY <3>3, <4>4
        <5> QED BY <4>1, <4>2, <4>3, <4>4, <5>1 DEF LinkAsLeft, LinkInPlace, LinkWorking
      <4>5. CASE builds[a].dir = d
        <5>1. builds'[a] = [at |-> builds[a].at, checkout |-> builds[a].checkout,
                dir |-> builds[a].dir, next |-> builds[a].next, told |-> builds[a].told,
                crossed |-> builds[a].crossed \cup {c}]
          BY <4>1, <4>2, <4>5, BuildIs
        <5>2. builds'[a] \in BuildRecord
          BY <4>1, <5>1, BuildIs DEF BuildRecord
        <5>3. /\ builds'[a].at = builds[a].at /\ builds'[a].checkout = builds[a].checkout
              /\ builds'[a].dir = builds[a].dir /\ builds'[a].next = builds[a].next
              /\ builds'[a].told = builds[a].told
              /\ builds'[a].crossed = builds[a].crossed \cup {c}
          BY <5>1
        <5>4. LinkInPlace(builds'[a])
          BY <4>1, <5>3 DEF LinkInPlace
        <5>5. \A g \in Links!Names : g \notin builds'[a].crossed =>
                links'[builds[a].dir][g] = links[builds[a].dir][g]
          BY <3>3, <4>5, <5>3
        <5>6. LinkAsLeft(builds'[a], links')
          <6>1. /\ builds[a].at \in {"unlink", "open"} /\ Commands[builds[a].next] \notin builds'[a].crossed =>
                     links'[builds[a].dir][Commands[builds[a].next]] # Links!Foreign
                /\ builds[a].at = "fill" /\ Commands[builds[a].next] \notin builds'[a].crossed =>
                     links'[builds[a].dir][Commands[builds[a].next]] = Links!Torn
            BY <4>1, <4>3, <5>3, <5>5 DEF LinkAsLeft, LinkWorking
          <6>2. \A g \in Links!Names :
                  builds[a].told[g] \in {"linked", "already linked"} /\ g \notin builds'[a].crossed =>
                    links'[builds[a].dir][g] = Links!File("launcher", builds[a].checkout)
            BY <4>1, <5>3, <5>5 DEF LinkAsLeft
          <6> QED BY <5>3, <6>1, <6>2 DEF LinkAsLeft
        <5> QED BY <5>2, <5>4, <5>6
      <4> QED BY <4>4, <4>5
    <3>5. builds' = [a \in Builds |-> builds'[a]]
      BY <2>1 DEF Links!Crossed
    <3>6. builds' \in [Builds -> BuildRecord]
      BY <3>4, <3>5
    <3> QED BY <1>2, <2>1, <3>3, <3>4, <3>6
  <2>2. ASSUME NEW d \in Links!Directories, UNCHANGED <<links, builds>>,
               writable' = IF d \in writable THEN writable \ {d} ELSE writable \cup {d}
        PROVE  /\ writable' \subseteq Links!Directories /\ links' \in [Links!Directories -> [Links!Names -> LinkFiles]]
               /\ builds' \in [Builds -> BuildRecord]
               /\ \A a \in Builds : LinkInPlace(builds'[a]) /\ LinkAsLeft(builds'[a], links')
    BY <1>2, <2>2 DEF LinksInv
  <2> QED BY <2>1, <2>2 DEF Links!Change
<1>5. Links!TypeOK'
  <2>1. posix' \in BOOLEAN /\ targets' \in [Checkouts -> SUBSET Links!Names]
    BY <1>1, <1>2
  <2> QED BY Zenon, <1>3, <1>4, <2>1 DEF Links!TypeOK, LinkFiles, BuildRecord, LinkTellings
<1> QED BY <1>3, <1>4, <1>5 DEF LinksInv

\* A step of a build or of the user keeps it.
LEMMA LinksStep ==
  ASSUME LinksInv, Links!Next  PROVE LinksInv'
<1>1. ASSUME NEW b \in Builds,
             \/ Links!Begin(b) \/ Links!Look(b) \/ Links!Unlink(b) \/ Links!Open(b)
             \/ Links!Fill(b) \/ Links!Die(b) \/ Links!Again(b)
      PROVE  LinksInv'
  BY <1>1, BeginKeepsLinks, LookKeepsLinks, UnlinkKeepsLinks, OpenKeepsLinks, FillKeepsLinks,
     DieAndAgainKeepLinks
<1> QED BY <1>1, ChangeKeepsLinks DEF Links!Next

\* The invariant implies the properties.
LEMMA LinksContained ==
  ASSUME LinksInv  PROVE Links!OthersCommandsKept /\ Links!LinkedStarts
<1>1. Links!OthersCommandsKept
  BY DEF LinksInv, LinkAsLeft, Links!OthersCommandsKept, Links!Name, Links!Found
<1>2. Links!LinkedStarts
  BY DEF LinksInv, LinkAsLeft, Links!LinkedStarts
<1> QED BY <1>1, <1>2

\* Of the part that it is here.
LinksPart == part = "links" => LinksInv

\* No other part touches it.
LEMMA LinksPartInvariant == ServicesSpec => []LinksPart
<1>1. ServicesInit => LinksPart
  BY LinksInitial DEF ServicesInit, Chosen, LinksPart
<1>2. LinksPart /\ [ServicesNext]_vars => LinksPart'
  <2> SUFFICES ASSUME LinksPart, [ServicesNext]_vars, part' = "links"
               PROVE  LinksInv'
    BY DEF LinksPart
  <2>1. CASE part = "links" /\ Links!Next
    BY <2>1, LinksStep DEF LinksPart
  <2>2. CASE part' = part /\ UNCHANGED linkVars
    <3>1. UNCHANGED <<posix, targets, writable, links, builds, changes>> /\ LinksInv
      BY <2>2 DEF linkVars, LinksPart
    <3>2. Links!TypeOK'
      BY <3>1 DEF LinksInv, Links!TypeOK
    <3>3. \A b \in Builds : LinkInPlace(builds'[b]) /\ LinkAsLeft(builds'[b], links')
      BY <3>1 DEF LinksInv
    <3> QED BY <3>2, <3>3 DEF LinksInv
  <2>3. part' = part /\ (part = "links" => LinksNext \/ UNCHANGED linkVars)
    <3>1. CASE ServicesNext
      BY Zenon, <3>1 DEF ServicesNext, SchedulingNext, MemoryNext, TokensNext, ConsentNext, McpNext,
      ActivityNext, AuditNext, GraphNext, JobsNext, WakeNext, LaunchNext, CliNext, HostNext,
      DomainNext, TalkNext, LocalNext, HelperNext, BrowserNext, InstallNext, UpgradeNext, LinksNext,
      ListenerNext, RunNext, WaitsNext
    <3>2. CASE UNCHANGED vars
      BY <3>2 DEF vars, aroundVars, endVars
    <3> QED BY <3>1, <3>2
  <2> QED BY <2>1, <2>2, <2>3 DEF LinksNext
<1> QED BY <1>1, <1>2, PTL DEF ServicesSpec

-----------------------------------------------------------------------------
\* A program runs only if it is what was verified or what another installer put there, a
\* browser that runs old files is told to reload and not woken, and a build takes no
\* other program's place and reports what stands.
THEOREM InstalledIsRightHolds == ServicesSpec => []InstalledIsRight
<1>1. InstallPart /\ BrowserPart /\ LinksPart => InstalledIsRight
  BY InstallContained, BrowserContained, LinksContained
     DEF InstallPart, BrowserPart, LinksPart, LinksInv, InstalledIsRight
<1> QED BY <1>1, InstallPartInvariant, BrowserPartInvariant, LinksPartInvariant, PTL

=============================================================================
