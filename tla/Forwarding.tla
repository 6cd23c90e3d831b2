----------------------------- MODULE Forwarding ------------------------------
(***************************************************************************)
(* A request's whole way through the process: the layers of                *)
(* src/service/server.rs, the handlers, forward_streaming with its adapter *)
(* (Providers) and its cached client (upstream_pool.rs), and the streamed  *)
(* answer (SseStream), from the start of main.rs to its graceful shutdown. *)
(*                                                                         *)
(* One request is followed at a time, and those before it matter by the    *)
(* client they left in the cache.  What resolving, authenticating and      *)
(* limiting do when requests meet is the matter of Gateway: here they let  *)
(* a request through or answer it.  Each provider has one upstream.        *)
(***************************************************************************)
EXTENDS Providers, SseStream, FiniteSets

CONSTANTS
  MaxBodyBytes,  \* max_body_bytes of the configuration
  Exempt,        \* the upstreams whose address is not checked
  Bodies,        \* the JSON bodies of requests
  Answers,       \* the blocks of whole answers
  Streams,       \* the events of streamed answers
  MaxRequests    \* bound of the instance: the requests that come in

ASSUME ForwardingAssumption ==
  /\ MaxBodyBytes \in Nat
  /\ MaxRequests \in Nat
  /\ Exempt \subseteq ProviderKinds
  /\ Bodies # {} /\ Answers # {}
  /\ Streams \subseteq Seq(Events)

VARIABLES
  server,   \* what main.rs is doing
  asked,    \* history: how many requests came in
  stage,    \* where the request is
  request,  \* its target, X-Request-Id, declared and true length, and body
  provider, \* of the upstream it resolved to
  sent,     \* the body for the upstream
  cached,   \* UpstreamPool.cache: the upstreams that have a client
  events,   \* what the upstream answers
  reply,    \* the answer
  recorded, \* the status in the metrics, 0 before it is recorded
  stalled   \* the client neither sends, nor reads, nor closes

streamVars == vars
requestVars == <<request, provider, sent, events, reply, recorded>>
forwardVars == <<server, asked, stage, requestVars, cached, stalled,
  streamVars>>

Targets == {"chat", "embeddings", "models", "healthz", "readyz", "nowhere"}
NotJson == [junk |-> TRUE]
NoRequest == [target |-> "nowhere", id |-> "none", declared |-> {},
              length |-> 0, body |-> NotJson]
Unsent == [url |-> "none", body |-> NotJson]
NoReply == [status |-> 0, id |-> "none", body |-> <<>>]

(* The stream before an answer is streamed. *)
Streaming(kinds, cut) ==
  /\ script' = kinds
  /\ truncated' = cut
  /\ read' = 0
  /\ batch' = <<>>
  /\ out' = <<>>
  /\ status' = "open"
  /\ starved' = FALSE
  /\ broken' = FALSE

ForwardInit ==
  /\ Init /\ script = <<>>
  /\ server = "starting"
  /\ asked = 0
  /\ stage = "idle"
  /\ request = NoRequest
  /\ provider = "openai"
  /\ sent = Unsent
  /\ cached = {}
  /\ events = <<>>
  /\ reply = NoReply
  /\ recorded = 0
  /\ stalled = FALSE

-----------------------------------------------------------------------------
(* The process *)

(* main: a configuration that does not load, routes that do not compile or *)
(* a port that is taken end it before it serves.                           *)
Start(outcome) ==
  /\ server = "starting"
  /\ server' = IF outcome = "bound" THEN "accepting" ELSE "exited"
  /\ UNCHANGED <<asked, stage, requestVars, cached, stalled, streamVars>>

(* ctrl_c: no request is accepted any more. *)
Shutdown ==
  /\ server = "accepting"
  /\ server' = "draining"
  /\ UNCHANGED <<asked, stage, requestVars, cached, stalled, streamVars>>

(* axum::serve returns when the last connection is done; there is no       *)
(* deadline.                                                               *)
Exit ==
  /\ server = "draining"
  /\ stage = "idle"
  /\ server' = "exited"
  /\ UNCHANGED <<asked, stage, requestVars, cached, stalled, streamVars>>

-----------------------------------------------------------------------------
(* The layers.  A reply passes those around the place it was made; what a  *)
(* panic unwinds through sees nothing.                                     *)

(* Variant (see Breaker): recovery around request_id. *)
LayersRecoveryOutside == <<"body_size_limit", "request_id", "recovery">>

(* From the handlers out. *)
Layers == <<"body_size_limit", "recovery", "request_id">>

Around(place) ==
  IF place = "handler" THEN {Layers[i] : i \in DOMAIN Layers}
  ELSE {Layers[j] : j \in {k \in DOMAIN Layers :
          \E i \in 1 .. k - 1 : Layers[i] = place}}

(* request_id: a well-formed inbound id is kept (in upper case). *)
TraceId == IF request.id = "hex" THEN "inbound" ELSE "minted"
IdAt(place) == IF "request_id" \in Around(place) THEN TraceId ELSE "none"

(* Only recovery's body names the request; a ServiceError's leaves it      *)
(* empty.                                                                  *)
Answer(code, place) ==
  /\ stage' = "answered"
  /\ reply' = [status |-> code, id |-> IdAt(place),
               body |-> IF place = "recovery" THEN <<IdAt(place)>> ELSE <<>>]

Arrive(r) ==
  /\ server = "accepting"
  /\ stage = "idle"
  /\ asked < MaxRequests
  /\ asked' = asked + 1
  /\ stage' = "inbound"
  /\ request' = r
  /\ reply' = NoReply
  /\ recorded' = 0
  /\ UNCHANGED <<server, provider, sent, events, cached, stalled, streamVars>>

TooLarge(length) == length > MaxBodyBytes
DeclaredTooLarge == \E n \in request.declared : TooLarge(n)

quiet == <<server, asked, request, provider, sent, cached, events, recorded,
           stalled, streamVars>>

(* body_size_limit *)
RefuseDeclared ==
  /\ stage = "inbound"
  /\ DeclaredTooLarge
  /\ Answer(413, "body_size_limit")
  /\ UNCHANGED quiet

Inbound == stage = "inbound" /\ ~DeclaredTooLarge
Forwards == request.target \in {"chat", "embeddings"}

(* The targets that need no upstream.  readyz wants upstreams and routes.  *)
Probe(ready) ==
  /\ Inbound
  /\ ~Forwards
  /\ Answer(CASE request.target = "nowhere" -> 404
              [] request.target = "readyz" /\ ~ready -> 503
              [] OTHER -> 200, "handler")
  /\ UNCHANGED quiet

(* No route, no upstream, not authenticated, over the limit. *)
TurnAway(code) ==
  /\ Inbound
  /\ Forwards
  /\ Answer(code, "handler")
  /\ UNCHANGED quiet

(* A handler panics before it forwards, as a build with overflow checks    *)
(* does on the sum of the canary weights.                                  *)
Panic ==
  /\ Inbound
  /\ Forwards
  /\ Answer(500, "recovery")
  /\ UNCHANGED quiet

-----------------------------------------------------------------------------
(* forward_streaming.  Whatever it returns is recorded, an error as 500;   *)
(* if it panics, nothing is.                                               *)

Return(code) ==
  /\ Answer(code, "handler")
  /\ recorded' = IF code = 200 THEN 200 ELSE 500

Admit(kind) ==
  /\ Inbound
  /\ Forwards
  /\ provider' = kind
  /\ IF kind \in ProviderKinds
     THEN stage' = "body" /\ UNCHANGED <<reply, recorded>>
     ELSE Return(503)
  /\ UNCHANGED <<server, asked, request, sent, events, cached, stalled,
                 streamVars>>

failing == <<server, asked, request, provider, sent, cached, events, stalled,
             streamVars>>

(* to_bytes stops at the limit, or the body is not JSON. *)
RefuseBody ==
  /\ stage = "body"
  /\ ~stalled
  /\ \/ TooLarge(request.length)
     \/ request.body = NotJson
  /\ Return(500)
  /\ UNCHANGED failing

(* The body is put to the provider.  Transformer::default() has no rules   *)
(* and leaves it alone.                                                    *)
Translate ==
  LET asking == TransformRequest(provider, request.body) IN
  /\ \/ /\ asking = Panics
        /\ Answer(500, "recovery")
        /\ UNCHANGED <<sent, recorded>>
     \/ /\ asking = Refused
        /\ Return(500)
        /\ UNCHANGED sent
     \/ /\ asking \notin {Panics, Refused}
        /\ stage' = "connect"
        /\ sent' = [url |-> BuildUrl(provider, request.target), body |-> asking]
        /\ UNCHANGED <<reply, recorded>>
  /\ UNCHANGED <<server, asked, request, provider, cached, events, stalled,
                 streamVars>>

(* Variant: the body is taken whole, whatever its length. *)
ReadBodyWhole ==
  /\ stage = "body"
  /\ ~stalled
  /\ request.body # NotJson
  /\ Translate

ReadBody ==
  /\ stage = "body"
  /\ ~stalled
  /\ ~TooLarge(request.length)
  /\ request.body # NotJson
  /\ Translate

(* check_ssrf: what the upstream's name resolves to when it is asked.      *)
(* (reqwest resolves the name once more to connect, and follows redirects; *)
(* which address it then contacts is not modelled.)                        *)
MayConnect(found) == provider \in Exempt \/ found = "public"

(* client_for: the check comes first; then the cached client, or a new one *)
(* if it can be built.                                                     *)
Connect(found, builds) ==
  /\ stage = "connect"
  /\ IF ~MayConnect(found) THEN Return(400) /\ cached' = cached
     ELSE IF provider \notin cached /\ ~builds
          THEN Return(502) /\ cached' = cached
          ELSE /\ stage' = "sent"
               /\ cached' = cached \union {provider}
               /\ UNCHANGED <<reply, recorded>>
  /\ UNCHANGED <<server, asked, request, provider, sent, events, stalled,
                 streamVars>>

(* The upstream is not reached, is too slow, answers other than 2xx, or    *)
(* with a body that breaks off or is not JSON.                             *)
UpstreamRefuses ==
  /\ stage = "sent"
  /\ Return(500)
  /\ UNCHANGED failing

AsksForStream == Has(request.body, "stream") /\ request.body.stream

AnswerWhole(blocks) ==
  /\ stage = "sent"
  /\ ~AsksForStream
  /\ events' = blocks
  /\ stage' = "answered"
  /\ reply' = [status |-> 200, id |-> IdAt("handler"),
               body |-> TransformAnswer(provider, blocks)]
  /\ recorded' = 200
  /\ UNCHANGED <<server, asked, request, provider, sent, cached, stalled,
                 streamVars>>

(* What SseStream tells apart of an event of such a provider. *)
EventKind(kind, event) ==
  CASE event = "done" -> "done"
    [] event = "comment" -> "comment"
    [] event = "junk" -> "bad"
    [] TransformChunk(kind, event) = Null -> "null"
    [] OTHER -> "data"

(* The answer is 200 before its first event is read; of the request, only  *)
(* what the layers hold is kept.                                           *)
AnswerStream(es, cut) ==
  /\ stage = "sent"
  /\ AsksForStream
  /\ cut => es # <<>>
  /\ events' = es
  /\ Streaming([i \in DOMAIN es |-> EventKind(provider, es[i])], cut)
  /\ stage' = "streaming"
  /\ reply' = [status |-> 200, id |-> IdAt("handler"), body |-> <<>>]
  /\ recorded' = 200
  /\ request' = [NoRequest EXCEPT !.id = request.id]
  /\ sent' = Unsent
  /\ UNCHANGED <<server, asked, provider, cached, stalled>>

Flow ==
  /\ stage = "streaming"
  /\ ~stalled
  /\ Poll \/ Emit
  /\ UNCHANGED <<server, asked, stage, requestVars, cached, stalled>>

-----------------------------------------------------------------------------
(* The client *)

(* The request leaves nothing but the cached client. *)
Forget ==
  /\ stage' = "idle"
  /\ request' = NoRequest
  /\ provider' = "openai"
  /\ sent' = Unsent
  /\ events' = <<>>
  /\ stalled' = FALSE
  /\ Streaming(<<>>, FALSE)
  /\ UNCHANGED <<server, asked, cached>>

(* The reply, or the stream, has been written. *)
Finish ==
  /\ \/ stage = "answered"
     \/ stage = "streaming" /\ status # "open"
  /\ reply' = NoReply
  /\ recorded' = 0
  /\ Forget

(* The client closes, and the future or the body of its request is         *)
(* dropped.                                                                *)
HangUp ==
  /\ \/ stage \in {"inbound", "body", "connect", "sent"}
     \/ stage = "streaming" /\ status = "open"
  /\ reply' = NoReply
  /\ recorded' = 0
  /\ Forget

Stall ==
  /\ stage \in {"body", "streaming"}
  /\ ~stalled
  /\ stalled' = TRUE
  /\ UNCHANGED <<server, asked, stage, requestVars, cached, streamVars>>

-----------------------------------------------------------------------------
(* The body of a request with Content-Length has that length; one without  *)
(* is chunked and has any.                                                 *)
Requests ==
  {r \in [target : Targets, id : {"hex", "none"},
          declared : {{}} \union {{n} : n \in 1 .. MaxBodyBytes + 1},
          length : 1 .. MaxBodyBytes + 1, body : Bodies \union {NotJson}] :
     /\ r.declared \subseteq {r.length}
     /\ r.target \notin {"chat", "embeddings"} => r.body = NotJson}

Handle ==
  \/ RefuseDeclared
  \/ \E ready \in BOOLEAN : Probe(ready)
  \/ \E code \in {401, 404, 429, 503} : TurnAway(code)
  \/ Panic
  \/ \E kind \in ProviderKinds \union {"unheard-of"} : Admit(kind)
  \/ RefuseBody
  \/ ReadBody
  \/ \E found \in {"public", "blocked", "unresolved"}, builds \in BOOLEAN :
       Connect(found, builds)
  \/ UpstreamRefuses
  \/ \E blocks \in Answers : AnswerWhole(blocks)
  \/ \E es \in Streams, cut \in BOOLEAN : AnswerStream(es, cut)
  \/ Flow
  \/ Finish

ForwardNext ==
  \/ \E outcome \in {"bound", "invalid", "taken"} : Start(outcome)
  \/ Shutdown
  \/ Exit
  \/ \E r \in Requests : Arrive(r)
  \/ Handle
  \/ HangUp
  \/ Stall

(* Tasks run when they can, and an upstream that has not answered in its   *)
(* timeout has failed; nothing bounds a client's pauses.                   *)
ForwardSpec ==
  /\ ForwardInit
  /\ [][ForwardNext]_forwardVars
  /\ WF_forwardVars(Handle)
  /\ WF_forwardVars(Exit)

-----------------------------------------------------------------------------
(* Whoever makes a reply, a layer, a handler, or recovery in place of a    *)
(* handler that panicked, it carries the request's id, the client's own if *)
(* that is well-formed; and so does the body that reports a panic.         *)
AnswersAreTagged ==
  reply # NoReply =>
    /\ reply.id = TraceId
    /\ (stage = "answered" /\ reply.status = 500 /\ recorded = 0) =>
         reply.body = <<TraceId>>

(* Declared or chunked, a body over the limit never reaches an upstream,   *)
(* and a handler that wants the body does not report success without it.   *)
NoOversizedBody ==
  (Forwards /\ TooLarge(request.length)) =>
    /\ stage \notin {"connect", "sent"}
    /\ stage = "answered" => reply.status # 200

(* What an adapter sends is the client's conversation: every turn, in      *)
(* order, from the same speaker and with the same text, and the client's   *)
(* own limit of tokens, if it set one.  It is not, in two ways, for        *)
(* Gemini: whoever is not the assistant speaks as the user there, and      *)
(* content in parts arrives as no text at all.                             *)
Turns(kind, body) == IF kind = "gemini" THEN body.contents ELSE body.messages
Speaker(kind, turn) ==
  IF kind = "gemini" /\ turn.role = "model" THEN "assistant" ELSE turn.role
Limit(kind, body) ==
  IF kind = "gemini" THEN body.maxOutputTokens ELSE body.max_tokens
HeardAs(kind, said, heard) ==
  /\ DOMAIN heard = DOMAIN said
  /\ \A i \in DOMAIN said :
       /\ kind # "gemini" \/ said[i].form = "string" =>
            heard[i].text = said[i].text
       /\ kind # "gemini" \/ said[i].role \in {"user", "assistant"} =>
            Speaker(kind, heard[i]) = said[i].role
       /\ Speaker(kind, heard[i]) = "assistant" => said[i].role = "assistant"
RequestSurvives ==
  stage \in {"connect", "sent"} =>
    /\ Has(request.body, "messages") =>
         HeardAs(provider, Turns("openai", request.body),
                 Turns(provider, sent.body))
    /\ Has(request.body, "max_tokens") =>
         Limit(provider, sent.body) = request.body.max_tokens
    /\ provider = "anthropic" => Has(sent.body, "max_tokens")

(* "The system role is kept" by the forwarding to providers, says the list *)
(* of what was corrected, and so does the adapter of Anthropic of itself;  *)
(* but that of Gemini turns it into the user's.                            *)
SystemIsKept ==
  (stage = "sent" /\ Has(request.body, "messages")) =>
    \A i \in DOMAIN request.body.messages :
      request.body.messages[i].role = "system" =>
        Turns(provider, sent.body)[i].role = "system"

(* An answer arrives whichever provider gave it.  No text that was read,   *)
(* and that the adapter looks for, is passed over by what the client of a  *)
(* stream is sent; a clean end, of a stream that did not starve (see       *)
(* SseStream), means it has every terminated event there is anything to    *)
(* show for, every such text among them; and a whole answer that opens     *)
(* with a text is not answered empty.  (What the adapters of Anthropic and *)
(* Gemini do not look for, text in a later part, never arrives.)           *)
LookedFor(kind) ==
  IF kind \in {"openai", "local"} THEN {"text", "late"} ELSE {"text"}
Texts(n) == {i \in 1 .. n : events[i] \in LookedFor(provider)}
TextArrives ==
  /\ stage = "streaming" =>
       \A i \in ToSet(out), j \in Texts(Complete(read)) \ ToSet(out) : i < j
  /\ (stage = "streaming" /\ status = "ended" /\ ~starved) =>
       /\ ToSet(out) = Due(Complete(Total))
       /\ Texts(Complete(Total)) \subseteq ToSet(out)
  /\ (stage = "answered" /\ events # <<>>) =>
       (Head(events) = "text" => reply.body # <<>>)

(* Once told to stop, the process serves what it has accepted and stops,   *)
(* if the client does not stall: an upstream's silence is bounded by the   *)
(* client's timeout, a client's by nothing.                                *)
StopCompletes == server = "draining" ~> (server = "exited" \/ stalled)
=============================================================================
