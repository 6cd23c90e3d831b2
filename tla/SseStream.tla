------------------------------ MODULE SseStream ------------------------------
(***************************************************************************)
(* One streamed answer on its way through forward_streaming of             *)
(* src/service/handler.rs: the upstream's bytes arrive in chunks cut       *)
(* anywhere; a scan buffers them, splits off the complete SSE events and   *)
(* hands each batch of events to a flat_map, which the response body       *)
(* drains one event at a time, translating each.  The body asks for the    *)
(* next chunk only when the batch is used up.                              *)
(*                                                                         *)
(* An event is its place in the script of the upstream's answer; its bytes *)
(* are two halves, of which the second holds the terminator.  Its kind is  *)
(* all the code tells apart: "data", "done" ([DONE]), "null" (translated   *)
(* to nothing), "comment" (no data field) and "bad" (not JSON, or refused  *)
(* by the provider).                                                       *)
(***************************************************************************)
EXTENDS Integers, Sequences, SequencesExt

CONSTANT MaxEvents \* bound of the instance: the events of an answer

ASSUME MaxEventsAssumption == MaxEvents \in Nat

VARIABLES
  script,    \* the kinds of the upstream's events, chosen once
  truncated, \* whether the answer stops short of its last terminator
  read,      \* the halves the scan has read
  batch,     \* parsed events, and failures, the body has not drained
  out,       \* the events the client has been sent
  status,    \* of the response body
  starved,   \* history: a chunk left the batch empty
  broken     \* history: the upstream's body failed

vars == <<script, truncated, read, batch, out, status, starved, broken>>

Kinds == {"data", "done", "null", "comment", "bad"}

(* A transport error in the batch, among the places of events. *)
Failure == 0

Total == 2 * Len(script) - (IF truncated THEN 1 ELSE 0)
Complete(halves) == halves \div 2

HasData(i) == script[i] # "comment"
(* What the translation of the body makes of an entry of the batch. *)
Kind(i) == IF i = Failure THEN "bad" ELSE script[i]
IsShown(i) == Kind(i) \in {"data", "done"}
Due(n) == {i \in 1 .. n : IsShown(i)}

Init ==
  /\ script \in UNION {[1 .. n -> Kinds] : n \in 0 .. MaxEvents}
  /\ truncated \in BOOLEAN
  /\ truncated => script # <<>>
  /\ read = 0
  /\ batch = <<>>
  /\ out = <<>>
  /\ status = "open"
  /\ starved = FALSE
  /\ broken = FALSE

(* The body asks the scan for more. *)
Polled == status = "open" /\ batch = <<>>

(* The numbers of a finite set in order. *)
InOrder(S) ==
  [k \in 1 .. Cardinality(S) |->
     CHOOSE i \in S : Cardinality({j \in S : j <= i}) = k]

(* parse_sse_data over the events a chunk of n halves completes.           *)
Parsed(n) ==
  InOrder({i \in Complete(read) + 1 .. Complete(read + n) : HasData(i)})

(* Variant (see Breaker): only the first complete event of a chunk.        *)
PollChunkFirst(n) ==
  /\ Polled
  /\ read + n <= Total
  /\ read' = read + n
  /\ batch' = IF Parsed(n) = <<>> THEN <<>> ELSE <<Head(Parsed(n))>>
  /\ status' = IF batch' = <<>> THEN "ended" ELSE status
  /\ starved' = (batch' = <<>>)
  /\ UNCHANGED <<script, truncated, out, broken>>

(* A chunk: every event it completes is parsed.  If there is none, the     *)
(* scan's closure returns None, which ends the stream.                     *)
PollChunk(n) ==
  /\ Polled
  /\ read + n <= Total
  /\ read' = read + n
  /\ batch' = Parsed(n)
  /\ status' = IF batch' = <<>> THEN "ended" ELSE status
  /\ starved' = (batch' = <<>>)
  /\ UNCHANGED <<script, truncated, out, broken>>

(* The upstream's body ends; an event without terminator stays behind in   *)
(* the buffer.                                                             *)
UpstreamEnd ==
  /\ Polled
  /\ read = Total
  /\ status' = "ended"
  /\ UNCHANGED <<script, truncated, read, batch, out, starved, broken>>

(* Variant: the failure ends the stream as None would.                     *)
UpstreamFailQuietly ==
  /\ Polled
  /\ broken' = TRUE
  /\ status' = "ended"
  /\ UNCHANGED <<script, truncated, read, batch, out, starved>>

(* The upstream's body yields Err: reset, bad framing, or the client's     *)
(* request timeout, which covers the body.                                 *)
UpstreamFail ==
  /\ Polled
  /\ broken' = TRUE
  /\ batch' = <<Failure>>
  /\ UNCHANGED <<script, truncated, read, out, status, starved>>

Draining == status = "open" /\ batch # <<>>

EmitEvent ==
  /\ Draining
  /\ IsShown(Head(batch))
  /\ out' = Append(out, Head(batch))
  /\ batch' = Tail(batch)
  /\ UNCHANGED <<script, truncated, read, status, starved, broken>>

(* Variant: the event is looked at again and again.                        *)
EmitNothingForever ==
  /\ Draining
  /\ Kind(Head(batch)) = "null"
  /\ UNCHANGED vars

(* An event translated to Null becomes an empty frame, which no client     *)
(* sees.                                                                   *)
EmitNothing ==
  /\ Draining
  /\ Kind(Head(batch)) = "null"
  /\ batch' = Tail(batch)
  /\ UNCHANGED <<script, truncated, read, out, status, starved, broken>>

(* The first Err of the body aborts the response; the rest of the batch    *)
(* goes with it.                                                           *)
EmitError ==
  /\ Draining
  /\ Kind(Head(batch)) = "bad"
  /\ status' = "failed"
  /\ batch' = <<>>
  /\ UNCHANGED <<script, truncated, read, out, starved, broken>>

(* The client goes away and the body is dropped. *)
Disconnect ==
  /\ status = "open"
  /\ status' = "dropped"
  /\ batch' = <<>>
  /\ UNCHANGED <<script, truncated, read, out, starved, broken>>

Poll == (\E n \in 1 .. Total : PollChunk(n)) \/ UpstreamEnd \/ UpstreamFail
Emit == EmitEvent \/ EmitNothing \/ EmitError

Next == Poll \/ Emit \/ Disconnect

Spec == Init /\ [][Next]_vars

-----------------------------------------------------------------------------
Ascending(places) ==
  \A i, j \in DOMAIN places : i < j => places[i] < places[j]

(* However the chunks are cut, while the stream is open what was sent and  *)
(* what waits in the batch is all that was read, once and in order; and a  *)
(* stream that closed sent all of it up to some event.                     *)
NothingReadIsLost ==
  LET due == Due(Complete(read)) \ ToSet(out) IN
    /\ ToSet(out) \subseteq Due(Complete(read))
    /\ Ascending(out)
    /\ \A i \in ToSet(out), j \in due : i < j
    /\ status = "open" =>
         /\ due = {i \in ToSet(batch) : IsShown(i)}
         /\ Ascending(batch)

(* A failure is never dressed up as a clean end: not a failing upstream,   *)
(* nor an event the translation refused.                                   *)
FailureIsReported ==
  status = "ended" =>
    /\ ~broken
    /\ \A i \in 1 .. Complete(read) : script[i] # "bad"

(* The comment over the scan says it takes care of chunk boundaries: where *)
(* the chunks are cut would then not decide what a client receives.  The   *)
(* code ends the stream at the first chunk that completes no event.        *)
ChunkingIsInvisible ==
  status = "ended" => ToSet(out) = Due(Complete(Total))
=============================================================================
