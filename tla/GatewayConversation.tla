------------------------- MODULE GatewayConversation -------------------------
(***************************************************************************)
(* The contract of one conversation over the LLM gateway: what a local     *)
(* harness may ask (src/src/llm-gateway-api.ts), what the ChatGPT worker   *)
(* may answer (src/src/llm-gateway-mcp.ts), the validators between them    *)
(* (src/src/llm-gateway-protocol.ts), and the next request, which carries  *)
(* the answer and the results of its tool calls back through the same      *)
(* validators.  How a request travels is GatewayStore's subject.           *)
(*                                                                         *)
(* A text is null, empty, short, or longer than a message may be (256 KiB) *)
(* though not longer than an answer may be (4 MiB).  Arguments are JSON    *)
(* objects.  The harness, which is not in this repository, sends back what *)
(* it was given, with null for a content the stream left out.              *)
(***************************************************************************)
EXTENDS Integers, Sequences, FiniteSets, SequencesExt

CONSTANTS
  Functions,     \* the names a harness advertises
  Unlisted,       \* a name it does not
  Ids,           \* identifiers that a worker makes up for its calls
  MaxCalls,      \* MAX_TOOL_CALLS
  MaxMessages,   \* MAX_MESSAGES
  MaxTurns       \* bound: completed answers

VARIABLES
  phase,     \* the harness is idle, or its request is queued or answered
  request,   \* GatewayRequestPayload without its messages
  history,   \* the messages of the conversation
  answer,    \* the accepted completion
  turn,      \* which request this is: its request_id
  given      \* the identifiers of local tool calls, in the order they were given

conversationVars == <<phase, request, history, answer, turn, given>>

ConversationAssumption ==
  /\ Unlisted \notin Functions
  /\ {"auto", "none", "required"} \cap Functions = {}
  /\ MaxCalls \in Nat \ {0} /\ {MaxMessages, MaxTurns} \subseteq Nat

Texts   == {"null", "empty", "short", "long"}
ToolChoices == {"auto", "none", "required"} \cup Functions

\* The calls of a worker that numbers them itself, and of gateway_call_local_tool.
OwnIds   == [request : {0}, key : Ids]
LocalIds == [request : 1 .. MaxTurns, key : 1 .. MaxCalls]
Calls    == [id : OwnIds \cup LocalIds, name : Functions \cup {Unlisted}]

NoPayload == [tools |-> <<>>, choice |-> "auto", parallel |-> TRUE]
NoAnswer  == [content |-> "null", calls |-> <<>>]

Message(role, content, calls, result) ==
  [role |-> role, content |-> content, calls |-> calls, result |-> result]

Names(calls) == {calls[k].name : k \in DOMAIN calls}
Distinct(seq) == Cardinality(Range(seq)) = Len(seq)

TypeOK ==
  /\ phase \in {"idle", "queued", "answered"}
  /\ request \in [tools : BoundedSeq(Functions, 2), choice : ToolChoices, parallel : BOOLEAN]
  /\ \A k \in DOMAIN history : history[k].role \in {"user", "assistant", "tool"}
  /\ answer \in [content : Texts, calls : BoundedSeq(Calls, MaxCalls)]
  /\ turn \in 0 .. MaxTurns
  /\ Range(given) \subseteq LocalIds

Init ==
  /\ phase = "idle" /\ request = NoPayload /\ history = <<>>
  /\ answer = NoAnswer /\ turn = 0 /\ given = <<>>

-----------------------------------------------------------------------------
(* The validators. *)

validateGatewayToolCalls(calls) ==
  Len(calls) <= MaxCalls /\ Distinct([k \in DOMAIN calls |-> calls[k].id])

validateGatewayMessage(m) ==
  /\ m.content # "long"
  /\ m.content = "null" => m.role = "assistant" /\ m.calls # <<>>
  /\ m.calls # <<>> => m.role = "assistant" /\ validateGatewayToolCalls(m.calls)
  /\ m.role = "tool" <=> m.result

validateGatewayTools(tools) == Distinct(tools)

\* Mutant: a choice is not compared with what is offered.
Mutant_validateToolChoice(tools, choice) == choice = "required" => tools # <<>>

validateToolChoice(tools, choice) ==
  /\ choice \in Functions => choice \in Range(tools)
  /\ choice = "required" => tools # <<>>

validateGatewayRequestPayload(messages, payload) ==
  /\ Len(messages) \in 1 .. MaxMessages
  /\ \A k \in DOMAIN messages : validateGatewayMessage(messages[k])
  /\ validateGatewayTools(payload.tools)
  /\ validateToolChoice(payload.tools, payload.choice)

\* Mutant: an answer may say nothing at all.
Mutant_validateAssistantObject(c) == validateGatewayToolCalls(c.calls)

validateAssistantObject(c) ==
  /\ c.content = "null" => c.calls # <<>>
  /\ validateGatewayToolCalls(c.calls)

enforceToolContract(c, payload) ==
  /\ Names(c.calls) \subseteq Range(payload.tools)
  /\ ~payload.parallel => Len(c.calls) <= 1
  /\ payload.choice = "none" => c.calls = <<>>
  /\ payload.choice = "required" => c.calls # <<>>
  /\ payload.choice \in Functions => Names(c.calls) = {payload.choice}

validateGatewayAssistantCompletion(c, payload) ==
  validateAssistantObject(c) /\ enforceToolContract(c, payload)

-----------------------------------------------------------------------------
(* The harness. *)

User == Message("user", "short", <<>>, FALSE)

\* POST /v1/chat/completions with one more message of the user's, or with the
\* results of the calls only; a request that is refused changes nothing.
parseCompletionRequest(messages, payload) ==
  /\ turn < MaxTurns
  /\ validateGatewayRequestPayload(messages, payload)
  /\ phase' = "queued" /\ request' = payload /\ history' = messages /\ turn' = turn + 1
  /\ UNCHANGED <<answer, given>>

Ask ==
  /\ phase = "idle"
  /\ \E tools \in BoundedSeq(Functions, 2), choice \in ToolChoices, parallel \in BOOLEAN :
     \E messages \in {history, Append(history, User)} :
       parseCompletionRequest(messages,
         [tools |-> tools, choice |-> choice, parallel |-> parallel])

\* chatCompletionObject: the message of the answer, sent back with a result for
\* each of its calls.
assistantMessage == Message("assistant", answer.content, answer.calls, FALSE)

Continue ==
  /\ phase = "answered"
  /\ phase' = "idle"
  /\ history' = Append(history, assistantMessage)
                \o [k \in DOMAIN answer.calls |-> Message("tool", "short", <<>>, TRUE)]
  /\ request' = NoPayload /\ answer' = NoAnswer
  /\ UNCHANGED <<turn, given>>

-----------------------------------------------------------------------------
(* The worker.  A completion that is refused leaves the request claimed. *)

Accept(c) ==
  /\ phase = "queued"
  /\ validateGatewayAssistantCompletion(c, request)
  /\ phase' = "answered" /\ answer' = c
  /\ UNCHANGED <<request, history, turn>>

Sequences(n) == BoundedSeq(Functions \cup {Unlisted}, n)

\* gateway_exchange: the worker numbers its calls.
exchange ==
  /\ UNCHANGED given
  /\ \E content \in Texts, names \in Sequences(MaxCalls) :
     \E ids \in [DOMAIN names -> OwnIds] :
       Accept([content |-> content,
               calls |-> [k \in DOMAIN names |-> [id |-> ids[k], name |-> names[k]]]])

\* Mutant: the request is not part of the identifier.
Mutant_gatewayLocalToolCallId(k) == [request |-> 1, key |-> k]

gatewayLocalToolCallId(k) == [request |-> turn, key |-> k]

\* gateway_call_local_tool: the gateway numbers them.
callLocalTool ==
  \E content \in Texts, names \in Sequences(MaxCalls) \ {<<>>} :
    LET calls == [k \in DOMAIN names |-> [id |-> gatewayLocalToolCallId(k), name |-> names[k]]]
    IN /\ Accept([content |-> content, calls |-> calls])
       /\ given' = given \o [k \in DOMAIN calls |-> calls[k].id]

\* The worker reports an error instead; the harness is told and may ask again.
Fail ==
  /\ phase = "queued"
  /\ phase' = "idle" /\ request' = NoPayload
  /\ UNCHANGED <<history, answer, turn, given>>

Next == Ask \/ Continue \/ exchange \/ callLocalTool \/ Fail

ConversationSpec == Init /\ [][Next]_conversationVars

-----------------------------------------------------------------------------
(* Properties. *)

\* Every request that is accepted has an answer that is accepted: no tool choice
\* leaves the worker without a completion, and gateway_call_local_tool can give
\* every choice of calls that the contract allows.
Answerable ==
  phase = "queued" =>
    \/ validateGatewayAssistantCompletion([content |-> "short", calls |-> <<>>], request)
    \/ \E f \in Functions :
         validateGatewayAssistantCompletion(
           [content |-> "null",
            calls |-> <<[id |-> gatewayLocalToolCallId(1), name |-> f]>>], request)

\* An answer never ends the conversation: what one validator lets the worker say
\* the other lets the harness send back.  Only an answer that is longer than a
\* message may be cannot be.
Continues ==
  phase = "idle" =>
    \A k \in DOMAIN history :
      validateGatewayMessage(history[k]) \/ history[k].content = "long"

\* The results of local tool calls cannot be confused, over all the turns.
CallsTold == Distinct(given)
=============================================================================
