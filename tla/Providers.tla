------------------------------ MODULE Providers ------------------------------
(***************************************************************************)
(* The provider adapters of src/service/providers: how a client's OpenAI   *)
(* request is put to each kind of upstream, and what becomes of its answer.*)
(* A message is its role, its text, and whether its content is that text   *)
(* ("string") or a list of parts that hold it ("parts"); a text is its     *)
(* place in the conversation.  Adapters keep no state.                     *)
(***************************************************************************)
EXTENDS Integers, Sequences

(* ProviderKind. *)
ProviderKinds == {"openai", "anthropic", "gemini", "local"}

(* What an adapter refuses to translate, and what it panics on. *)
Refused == [refused |-> TRUE]
Panics == [panicked |-> TRUE]

-----------------------------------------------------------------------------
(* Requests: a body is a record of the fields it has, of messages,         *)
(* max_tokens and stream, or some JSON that has no fields (an array, a     *)
(* number; null is as good as an object without any).                      *)

NotAnObject == [element |-> 0]
NoText == 0

Has(body, field) == field \in DOMAIN body
With(body, field, value) ==
  [f \in DOMAIN body \union {field} |-> IF f = field THEN value ELSE body[f]]

(* Variant (see Breaker): the client's own limit is overwritten. *)
AskAnthropicAnew(body) == With(body, "max_tokens", 4096)

(* Anthropic demands a limit, which only an object can be given; the       *)
(* messages stay as they are.                                              *)
AskAnthropic(body) ==
  IF Has(body, "max_tokens") THEN body
  ELSE IF body = NotAnObject THEN Panics
  ELSE With(body, "max_tokens", 4096)

(* Gemini knows two speakers, and is not told of streaming.  Whoever is no *)
(* assistant speaks as the user, and content in parts is left out.         *)
Contents(messages) ==
  [i \in DOMAIN messages |->
     [role |-> IF messages[i].role = "assistant" THEN "model" ELSE "user",
      text |-> IF messages[i].form = "string"
               THEN messages[i].text ELSE NoText]]
AskGemini(body) ==
  IF ~Has(body, "messages")
  THEN Refused
  ELSE IF Has(body, "max_tokens")
  THEN [contents        |-> Contents(body.messages),
        maxOutputTokens |-> body.max_tokens]
  ELSE [contents |-> Contents(body.messages)]

(* transform_request of the adapter that ProviderFactory creates.          *)
TransformRequest(kind, body) ==
  CASE kind = "anthropic" -> AskAnthropic(body)
    [] kind = "gemini"    -> AskGemini(body)
    [] OTHER              -> body

(* build_url: only OpenAI has a path for embeddings; Gemini always asks    *)
(* for a whole answer.                                                     *)
BuildUrl(kind, operation) ==
  CASE kind = "anthropic" -> "messages"
    [] kind = "gemini"    -> "generateContent"
    [] kind = "openai" /\ operation = "embeddings" -> "embeddings"
    [] OTHER              -> "chat/completions"

-----------------------------------------------------------------------------
(* Streamed answers: an upstream event is "start" (message_start), "text"  *)
(* (a delta, or the first part of a candidate, with text), "late" (text    *)
(* elsewhere: in a later part or candidate, or in a delta of another       *)
(* kind), "stop" (message_stop), "other" (any other JSON), "done"          *)
(* ([DONE]), "comment" (no data field) or "junk" (data that is not JSON).  *)
(* A frame is what the client is sent for it; Null is sent as nothing.     *)

Events == {"start", "text", "late", "stop", "other", "done", "comment", "junk"}
Null == "null"

(* Variant: the text of a delta is looked for where a message has it. *)
AnthropicFrameOfMessages(event) ==
  CASE event = "start" -> "role"
    [] event = "stop"  -> "finish"
    [] OTHER           -> Null

AnthropicFrame(event) ==
  CASE event = "start" -> "role"
    [] event = "text"  -> "content"
    [] event = "stop"  -> "finish"
    [] OTHER           -> Null

GeminiFrame(event) == IF event = "text" THEN "content" ELSE Null

OpenAIFrame(event) == IF event \in {"text", "late"} THEN "content" ELSE event

(* transform_response of one event's JSON. *)
TransformChunk(kind, event) ==
  CASE kind = "anthropic" -> AnthropicFrame(event)
    [] kind = "gemini"    -> GeminiFrame(event)
    [] OTHER              -> OpenAIFrame(event)

-----------------------------------------------------------------------------
(* Whole answers, as the kinds of their blocks (parts, for Gemini): OpenAI *)
(* and local models' are passed on; of the others' the text of the first   *)
(* block becomes the content.                                              *)
TransformAnswer(kind, blocks) ==
  CASE kind \in {"openai", "local"} -> blocks
    [] blocks # <<>> /\ Head(blocks) = "text" -> <<"text">>
    [] OTHER -> <<>>
=============================================================================
