--------------------------- MODULE ForwardingProofs ---------------------------
(***************************************************************************)
(* What holds of every request on its way, whatever bodies, answers and    *)
(* streams there are.  IInv: its answer carries its id, and an oversized   *)
(* body goes no further than the handler.  Carried: what is asked and      *)
(* answered says to the other side what was said, as far as the adapters   *)
(* look, and however a stream is cut.  The last part is about the rules on *)
(* bodies, apart.                                                          *)
(***************************************************************************)
EXTENDS Forwarding, Transformer, FiniteSetTheorems, TLAPS

(* Past the reading of the body none is too large, and a request for the   *)
(* handlers with such a body is not answered 200.                          *)
Measured ==
  /\ stage \in {"connect", "sent"} => ~TooLarge(request.length)
  /\ (stage = "answered" /\ Forwards /\ TooLarge(request.length)) =>
       reply.status # 200

IInv == Measured /\ AnswersAreTagged

LEMMA MeasuredSuffices == Measured => NoOversizedBody
  BY DEF Measured, NoOversizedBody

(* Every place an answer is made at lies within the request_id layer.      *)
LEMMA EveryPlaceIsTagged ==
  ASSUME NEW place \in {"handler", "recovery", "body_size_limit"}
  PROVE  IdAt(place) = TraceId
<1>1. DOMAIN Layers = 1 .. 3
  BY DEF Layers
<1>2. Layers[1] = "body_size_limit" /\ Layers[2] = "recovery" /\ Layers[3] = "request_id"
  BY DEF Layers
<1>3. "request_id" \in Around(place)
  <2>1. CASE place = "handler"
    BY <1>1, <1>2, <2>1 DEF Around
  <2>2. CASE place # "handler"
    <3>1. \E i \in 1 .. 2 : Layers[i] = place
      BY <1>2, <2>2
    <3>2. QED
      BY <1>1, <1>2, <2>2, <3>1 DEF Around
  <2>3. QED
    BY <2>1, <2>2
<1>4. QED
  BY <1>3 DEF IdAt

LEMMA InitInv == ForwardInit => IInv
  BY DEF ForwardInit, IInv, Measured, AnswersAreTagged

(* An answer other than 200 made at any place keeps the invariant, and     *)
(* says whose it is: if it is 500 it is recorded or it is recovery's.      *)
LEMMA AnswerKeeps ==
  ASSUME NEW place \in {"handler", "recovery", "body_size_limit"}, NEW code,
         Answer(code, place), UNCHANGED request,
         code = 200 => ~Forwards,
         code = 500 => place = "recovery" \/ recorded' # 0
  PROVE  IInv'
<1> USE DEF Answer
<1>1. IdAt(place) = TraceId /\ TraceId' = TraceId
  BY EveryPlaceIsTagged DEF TraceId
<1>2. stage' = "answered" /\ reply'.status = code /\ reply'.id = TraceId'
  BY <1>1
<1>3. place = "recovery" => reply'.body = <<TraceId'>>
  BY <1>1
<1>4. Forwards' = Forwards
  BY DEF Forwards
<1>5. Measured'
  BY <1>2, <1>4 DEF Measured
<1>6. AnswersAreTagged'
  BY <1>2, <1>3 DEF AnswersAreTagged
<1>7. QED
  BY <1>5, <1>6 DEF IInv

LEMMA ReturnKeeps ==
  ASSUME NEW code \in {400, 500, 502, 503}, Return(code), UNCHANGED request
  PROVE  IInv'
  BY AnswerKeeps DEF Return

(* The client is gone, or the reply written. *)
LEMMA ForgetKeeps ==
  ASSUME Forget, reply' = NoReply
  PROVE  IInv'
  BY DEF Forget, IInv, Measured, AnswersAreTagged

LEMMA UpToTheBody ==
  ASSUME IInv,
         \/ RefuseDeclared
         \/ \E ready \in BOOLEAN : Probe(ready)
         \/ \E code \in {401, 404, 429, 503} : TurnAway(code)
         \/ Panic
         \/ \E kind \in ProviderKinds \union {"unheard-of"} : Admit(kind)
  PROVE  IInv'
<1>1. CASE RefuseDeclared
  BY <1>1, AnswerKeeps DEF RefuseDeclared, quiet
<1>2. ASSUME NEW ready \in BOOLEAN, Probe(ready)
      PROVE  IInv'
  <2> DEFINE code == CASE request.target = "nowhere" -> 404
                       [] request.target = "readyz" /\ ~ready -> 503
                       [] OTHER -> 200
  <2>1. code # 500
    OBVIOUS
  <2>2. Answer(code, "handler") /\ ~Forwards /\ UNCHANGED request
    BY <1>2 DEF Probe, quiet
  <2> HIDE DEF code
  <2>3. QED
    BY <2>1, <2>2, AnswerKeeps
<1>3. ASSUME NEW code \in {401, 404, 429, 503}, TurnAway(code)
      PROVE  IInv'
  BY <1>3, AnswerKeeps DEF TurnAway, quiet
<1>4. CASE Panic
  BY <1>4, AnswerKeeps DEF Panic, quiet
<1>5. ASSUME NEW kind \in ProviderKinds \union {"unheard-of"}, Admit(kind)
      PROVE  IInv'
  <2>1. CASE kind \in ProviderKinds
    BY <1>5, <2>1 DEF Admit, IInv, Measured, AnswersAreTagged, TraceId
  <2>2. CASE kind \notin ProviderKinds
    BY <1>5, <2>2, ReturnKeeps DEF Admit
  <2>3. QED
    BY <2>1, <2>2
<1>6. QED
  BY <1>1, <1>2, <1>3, <1>4, <1>5

LEMMA UpToTheUpstream ==
  ASSUME IInv,
         \/ RefuseBody
         \/ ReadBody
         \/ \E found \in {"public", "blocked", "unresolved"}, builds \in BOOLEAN :
              Connect(found, builds)
         \/ UpstreamRefuses
  PROVE  IInv'
<1> USE DEF IInv
<1>1. CASE RefuseBody \/ UpstreamRefuses
  BY <1>1, ReturnKeeps DEF RefuseBody, UpstreamRefuses, failing
<1>2. CASE ReadBody
  <2>1. ~TooLarge(request.length) /\ UNCHANGED request
    BY <1>2 DEF ReadBody, Translate
  <2>2. CASE Answer(500, "recovery")
    BY <2>1, <2>2, AnswerKeeps
  <2>3. CASE Return(500)
    BY <2>1, <2>3, ReturnKeeps
  <2>4. CASE stage' = "connect" /\ UNCHANGED <<reply, recorded>>
    <3>1. ~TooLarge(request.length)'
      BY <2>1 DEF TooLarge
    <3>2. QED
      BY <2>1, <2>4, <3>1 DEF Measured, AnswersAreTagged, TraceId
  <2>5. QED
    BY <1>2, <2>2, <2>3, <2>4 DEF ReadBody, Translate
<1>3. ASSUME NEW found \in {"public", "blocked", "unresolved"}, NEW builds \in BOOLEAN,
             Connect(found, builds)
      PROVE  IInv'
  <2>1. stage = "connect" /\ UNCHANGED request
    BY <1>3 DEF Connect
  <2>2. CASE Return(400) \/ Return(502)
    BY <2>1, <2>2, ReturnKeeps
  <2>3. CASE stage' = "sent" /\ UNCHANGED <<reply, recorded>>
    <3>1. ~TooLarge(request.length)'
      BY <2>1 DEF Measured, TooLarge
    <3>2. QED
      BY <2>1, <2>3, <3>1 DEF Measured, AnswersAreTagged, TraceId
  <2>4. QED
    BY <1>3, <2>2, <2>3 DEF Connect
<1>4. QED
  BY <1>1, <1>2, <1>3

LEMMA UpToTheEnd ==
  ASSUME IInv,
         \/ \E blocks \in Answers : AnswerWhole(blocks)
         \/ \E es \in Streams, cut \in BOOLEAN : AnswerStream(es, cut)
         \/ Flow
         \/ Finish
  PROVE  IInv'
<1> USE DEF IInv
<1>1. ASSUME NEW blocks \in Answers, AnswerWhole(blocks)
      PROVE  IInv'
  <2>1. /\ stage = "sent" /\ stage' = "answered" /\ UNCHANGED request
        /\ reply'.id = IdAt("handler") /\ reply'.status = 200
    BY <1>1 DEF AnswerWhole
  <2>2. ~TooLarge(request.length)'
    BY <2>1 DEF Measured, TooLarge
  <2>3. reply'.id = TraceId'
    BY <2>1, EveryPlaceIsTagged DEF TraceId
  <2>4. QED
    BY <2>1, <2>2, <2>3 DEF Measured, AnswersAreTagged
<1>2. ASSUME NEW es \in Streams, NEW cut \in BOOLEAN, AnswerStream(es, cut)
      PROVE  IInv'
  <2>1. /\ stage' = "streaming"
        /\ reply'.id = IdAt("handler")
        /\ request' = [NoRequest EXCEPT !.id = request.id]
    BY <1>2 DEF AnswerStream
  <2>2. request'.id = request.id
    BY <2>1 DEF NoRequest
  <2>3. reply'.id = TraceId'
    BY <2>1, <2>2, EveryPlaceIsTagged DEF TraceId
  <2>4. QED
    BY <2>1, <2>3 DEF Measured, AnswersAreTagged
<1>3. CASE Flow
  BY <1>3 DEF Flow, requestVars, Measured, AnswersAreTagged, TraceId,
              Forwards, TooLarge
<1>4. CASE Finish
  BY <1>4, ForgetKeeps DEF Finish
<1>5. QED
  BY <1>1, <1>2, <1>3, <1>4

LEMMA NextInv == IInv /\ [ForwardNext]_forwardVars => IInv'
<1> SUFFICES ASSUME IInv, [ForwardNext]_forwardVars
             PROVE  IInv'
  OBVIOUS
<1> USE DEF IInv
<1>1. CASE UNCHANGED <<stage, requestVars>>
  BY <1>1 DEF requestVars, Measured, AnswersAreTagged, TraceId,
              Forwards, TooLarge
<1>2. CASE Stall \/ Shutdown \/ Exit \/ UNCHANGED forwardVars
           \/ \E outcome \in {"bound", "invalid", "taken"} : Start(outcome)
  BY <1>1, <1>2 DEF Stall, Shutdown, Exit, Start, forwardVars
<1>3. ASSUME NEW r \in Requests, Arrive(r)
      PROVE  IInv'
  BY <1>3 DEF Arrive, Measured, AnswersAreTagged
<1>4. CASE HangUp
  BY <1>4, ForgetKeeps DEF HangUp
<1>5. CASE Handle
  BY <1>5, UpToTheBody, UpToTheUpstream, UpToTheEnd DEF Handle
<1>6. QED
  BY <1>2, <1>3, <1>4, <1>5 DEF ForwardNext

LEMMA Invariance == ForwardSpec => []IInv
  BY InitInv, NextInv, PTL DEF ForwardSpec

(* No body over the limit, declared or chunked, gets past the handler.     *)
THEOREM OversizedBodiesStay == ForwardSpec => []NoOversizedBody
<1>1. IInv => NoOversizedBody
  BY MeasuredSuffices DEF IInv
<1>2. QED
  BY <1>1, Invariance, PTL

(* Every reply carries the id of its request, through every layer.         *)
THEOREM EveryAnswerIsTagged == ForwardSpec => []AnswersAreTagged
<1>1. IInv => AnswersAreTagged
  BY DEF IInv
<1>2. QED
  BY <1>1, Invariance, PTL

-----------------------------------------------------------------------------
(* Numbers in order *)

(* InOrder lists a finite set: the number of those up to i, which grows    *)
(* with i, is the place of i.                                              *)
LEMMA OrderedIsAll ==
  ASSUME NEW S \in SUBSET Nat, IsFiniteSet(S)
  PROVE  /\ InOrder(S) \in Seq(S)
         /\ Ascending(InOrder(S))
         /\ ToSet(InOrder(S)) = S
<1> DEFINE n       == Cardinality(S)
           below(i) == {j \in S : j <= i}
           rank    == [i \in S |-> Cardinality(below(i))]
<1>0. ASSUME NEW i \in S PROVE i \in Nat
  OBVIOUS
<1>1. n \in Nat
  BY FS_CardinalityType
<1>2. ASSUME NEW i \in S
      PROVE  /\ IsFiniteSet(below(i))
             /\ rank[i] \in 1 .. n
  <2>1. IsFiniteSet(below(i)) /\ Cardinality(below(i)) <= n
    BY FS_Subset
  <2>2. i \in below(i)
    OBVIOUS
  <2>3. Cardinality(below(i)) \in Nat /\ Cardinality(below(i)) # 0
    BY <2>1, <2>2, FS_CardinalityType, FS_EmptySet
  <2>4. QED
    BY <1>1, <2>1, <2>3
<1>3. ASSUME NEW i \in S, NEW j \in S, i < j
      PROVE  rank[i] < rank[j]
  <2>1. below(i) \subseteq below(j)
    <3>1. ASSUME NEW h \in S, h <= i
          PROVE  h <= j
      <4>1. h \in Nat /\ i \in Nat /\ j \in Nat
        BY <1>0
      <4>2. QED
        BY <1>3, <3>1, <4>1
    <3>2. QED
      BY <3>1
  <2>2. j \in below(j) /\ j \notin below(i)
    BY <1>0, <1>3
  <2>3. Cardinality(below(i)) <= Cardinality(below(j)) /\ Cardinality(below(i)) # Cardinality(below(j))
    BY <1>2, <2>1, <2>2, FS_Subset
  <2>4. QED
    BY <1>1, <1>2, <2>3
<1>4. rank \in Injection(S, 1 .. n)
  <2>1. rank \in [S -> 1 .. n]
    BY <1>2
  <2>2. ASSUME NEW i \in S, NEW j \in S, rank[i] = rank[j]
        PROVE  i = j
    BY <1>0, <1>2, <1>3, <2>2
  <2>3. QED
    BY <2>1, <2>2 DEF Injection, IsInjective
<1>5. rank \in Surjection(S, 1 .. n)
  BY <1>1, <1>4, FS_Injection, FS_Interval
<1>6. ASSUME NEW k \in 1 .. n
      PROVE  InOrder(S)[k] \in S /\ rank[InOrder(S)[k]] = k
  <2>1. \E i \in S : Cardinality(below(i)) = k
    BY <1>5 DEF Surjection
  <2>2. QED
    BY <2>1 DEF InOrder
<1>7. DOMAIN InOrder(S) = 1 .. n
  BY DEF InOrder
<1>8. InOrder(S) \in [1 .. n -> S]
  BY <1>6 DEF InOrder
<1> HIDE DEF rank, n
<1>9. Ascending(InOrder(S))
  <2>1. SUFFICES ASSUME NEW k \in 1 .. n, NEW l \in 1 .. n, k < l
                 PROVE  InOrder(S)[k] < InOrder(S)[l]
    BY <1>7 DEF Ascending
  <2> DEFINE i == InOrder(S)[k]
             j == InOrder(S)[l]
  <2>2. i \in S /\ j \in S /\ rank[i] = k /\ rank[j] = l
    BY <1>6
  <2>3. i \in Nat /\ j \in Nat /\ k \in Nat /\ l \in Nat
    <3>1. i \in Nat /\ j \in Nat
      BY <1>0, <2>2
    <3>2. k \in Nat /\ l \in Nat
      BY <1>1
    <3>3. QED
      BY <3>1, <3>2
  <2>4. i # j /\ ~(j < i)
    BY <1>3, <2>1, <2>2, <2>3
  <2>5. QED
    BY <2>3, <2>4
<1>10. ASSUME NEW i \in S PROVE i \in ToSet(InOrder(S))
  <2> DEFINE j == InOrder(S)[rank[i]]
  <2>1. rank[i] \in 1 .. n
    BY <1>2
  <2>2. j \in S /\ rank[j] = rank[i]
    BY <1>6, <2>1
  <2>3. i \in Nat /\ j \in Nat /\ rank[i] \in Nat
    <3>1. i \in Nat /\ j \in Nat
      BY <1>0, <2>2
    <3>2. rank[i] \in Nat
      BY <1>1, <2>1
    <3>3. QED
      BY <3>1, <3>2
  <2>4. ~(i < j) /\ ~(j < i)
    BY <1>3, <2>2, <2>3
  <2>5. j = i
    BY <2>3, <2>4
  <2>6. QED
    BY <1>7, <2>1, <2>5 DEF ToSet
<1>11. InOrder(S) \in Seq(S)
  BY <1>1, <1>8
<1>12. ToSet(InOrder(S)) \subseteq S
  BY <1>7, <1>8 DEF ToSet
<1>13. QED
  BY <1>9, <1>10, <1>11, <1>12

LEMMA TailOfAscending ==
  ASSUME NEW s \in Seq(Nat), s # <<>>, Ascending(s)
  PROVE  /\ Head(s) \in Nat /\ Tail(s) \in Seq(Nat)
         /\ Ascending(Tail(s))
         /\ ToSet(s) = {Head(s)} \union ToSet(Tail(s))
         /\ \A i \in ToSet(Tail(s)) : Head(s) < i
<1>1. Len(s) \in Nat \ {0} /\ DOMAIN s = 1 .. Len(s) /\ Head(s) = s[1] /\ Head(s) \in Nat
  OBVIOUS
<1>2. Tail(s) \in Seq(Nat) /\ DOMAIN Tail(s) = 1 .. Len(s) - 1
  OBVIOUS
<1>3. \A i \in 1 .. Len(s) - 1 : Tail(s)[i] = s[i + 1]
  OBVIOUS
<1>4. Ascending(Tail(s))
  <2>1. SUFFICES ASSUME NEW i \in 1 .. Len(s) - 1, NEW j \in 1 .. Len(s) - 1, i < j
                 PROVE  Tail(s)[i] < Tail(s)[j]
    BY <1>2 DEF Ascending
  <2>2. i + 1 \in 1 .. Len(s) /\ j + 1 \in 1 .. Len(s) /\ i + 1 < j + 1
    BY <1>1, <2>1
  <2>3. QED
    BY <1>1, <1>3, <2>2 DEF Ascending
<1>5. \A i \in ToSet(Tail(s)) : i \in ToSet(s) /\ Head(s) < i
  BY <1>1, <1>2, <1>3, SMTT(20) DEF Ascending, ToSet
<1>6. ASSUME NEW i \in ToSet(s)
      PROVE  i = Head(s) \/ i \in ToSet(Tail(s))
  <2>1. PICK k \in 1 .. Len(s) : i = s[k]
    BY <1>1 DEF ToSet
  <2>2. CASE k = 1
    BY <1>1, <2>1, <2>2
  <2>3. CASE k # 1
    <3>1. k - 1 \in 1 .. Len(s) - 1 /\ Tail(s)[k - 1] = i
      BY <1>1, <1>3, <2>1, <2>3
    <3>2. QED
      BY <1>2, <3>1 DEF ToSet
  <2>4. QED
    BY <2>2, <2>3
<1>7. Head(s) \in ToSet(s)
  BY <1>1 DEF ToSet
<1>8. QED
  BY <1>1, <1>2, <1>4, <1>5, <1>6, <1>7

LEMMA AppendToAscending ==
  ASSUME NEW s \in Seq(Nat), Ascending(s), NEW x \in Nat, \A i \in ToSet(s) : i < x
  PROVE  /\ Append(s, x) \in Seq(Nat)
         /\ Ascending(Append(s, x))
         /\ ToSet(Append(s, x)) = ToSet(s) \union {x}
<1> DEFINE t == Append(s, x)
<1>1. /\ Len(s) \in Nat /\ DOMAIN s = 1 .. Len(s)
      /\ t \in Seq(Nat) /\ DOMAIN t = 1 .. Len(s) + 1
      /\ t[Len(s) + 1] = x
      /\ \A i \in 1 .. Len(s) : t[i] = s[i]
  OBVIOUS
<1> HIDE DEF t
<1>2. \A i \in 1 .. Len(s) : s[i] < x
  BY <1>1 DEF ToSet
<1>3. Ascending(t)
  <2>1. SUFFICES ASSUME NEW i \in 1 .. Len(s) + 1, NEW j \in 1 .. Len(s) + 1, i < j
                 PROVE  t[i] < t[j]
    BY <1>1 DEF Ascending
  <2>2. i \in 1 .. Len(s) /\ t[i] = s[i]
    BY <1>1, <2>1
  <2>3. CASE j = Len(s) + 1
    <3>1. t[j] = x /\ s[i] < x
      BY <1>1, <1>2, <2>2, <2>3
    <3>2. QED
      BY <2>2, <3>1
  <2>4. CASE j # Len(s) + 1
    <3>1. j \in 1 .. Len(s) /\ t[j] = s[j]
      BY <1>1, <2>4
    <3>2. QED
      BY <1>1, <2>1, <2>2, <3>1 DEF Ascending
  <2>5. QED
    BY <2>3, <2>4
<1>4. \A i \in ToSet(t) : i \in ToSet(s) \union {x}
  BY <1>1 DEF ToSet
<1>5. \A i \in ToSet(s) \union {x} : i \in ToSet(t)
  <2>1. x \in ToSet(t)
    BY <1>1 DEF ToSet
  <2>2. ASSUME NEW i \in ToSet(s) PROVE i \in ToSet(t)
    BY <1>1 DEF ToSet
  <2>3. QED
    BY <2>1, <2>2
<1>6. QED
  BY <1>1, <1>3, <1>4, <1>5 DEF t

-----------------------------------------------------------------------------
(* The stream *)

StreamTypes ==
  /\ script \in Seq(Kinds)
  /\ truncated \in BOOLEAN
  /\ truncated => script # <<>>
  /\ read \in 0 .. Total
  /\ batch \in Seq(Nat)
  /\ out \in Seq(Nat)

(* While the stream is open whatever is wrong waits in the batch, and what *)
(* waits there was read; at a clean end without starvation all was.        *)
BatchHolds ==
  /\ status = "open" =>
       /\ \A i \in ToSet(batch) \ {Failure} : i <= Complete(read)
       /\ \A i \in 1 .. Complete(read) : script[i] = "bad" => i \in ToSet(batch)
       /\ broken => Failure \in ToSet(batch)
  /\ (status = "ended" /\ ~starved) =>
       read = Total /\ ToSet(out) = Due(Complete(Total))

StreamInv == StreamTypes /\ BatchHolds /\ NothingReadIsLost /\ FailureIsReported

LEMMA Empty ==
  /\ <<>> \in Seq(Nat) /\ ToSet(<<>>) = {} /\ Ascending(<<>>)
  /\ ToSet(<<Failure>>) = {Failure} /\ Ascending(<<Failure>>) /\ <<Failure>> \in Seq(Nat)
  BY DEF ToSet, Ascending, Failure

LEMMA WhatIsComplete ==
  ASSUME StreamTypes, NEW n \in 0 .. Total
  PROVE  /\ Total \in Nat
         /\ Complete(n) \in 0 .. Len(script)
         /\ \A m \in 0 .. n : Complete(m) <= Complete(n)
  BY DEF StreamTypes, Total, Complete

(* A stream before its first chunk. *)
Opened ==
  /\ script \in Seq(Kinds)
  /\ truncated \in BOOLEAN
  /\ truncated => script # <<>>
  /\ read = 0 /\ batch = <<>> /\ out = <<>>
  /\ status = "open" /\ ~broken

LEMMA FreshStream == Opened => StreamInv
<1> SUFFICES ASSUME Opened
             PROVE  StreamInv
  OBVIOUS
<1> USE DEF Opened
<1>1. Complete(read) = 0
  BY DEF Complete
<1>2. StreamTypes
  BY Empty DEF StreamTypes, Total
<1>3. BatchHolds
  BY <1>1, Empty DEF BatchHolds
<1>4. NothingReadIsLost
  BY <1>1, Empty DEF NothingReadIsLost, Due
<1>5. FailureIsReported
  BY DEF FailureIsReported
<1>6. QED
  BY <1>2, <1>3, <1>4, <1>5 DEF StreamInv

LEMMA NewStream ==
  ASSUME NEW kinds \in Seq(Kinds), NEW cut \in BOOLEAN, cut => kinds # <<>>,
         Streaming(kinds, cut)
  PROVE  StreamInv'
<1>1. Opened'
  BY DEF Streaming, Opened
<1>2. Opened' => StreamInv'
  BY FreshStream, PTL
<1>3. QED
  BY <1>1, <1>2

LEMMA ChunkKeeps ==
  ASSUME StreamInv, NEW n \in 1 .. Total, PollChunk(n)
  PROVE  StreamInv'
<1> DEFINE from  == Complete(read)
           to    == Complete(read + n)
           fresh == {i \in from + 1 .. to : HasData(i)}
<1>1. /\ status = "open" /\ batch = <<>> /\ read + n <= Total
      /\ read' = read + n /\ batch' = InOrder(fresh)
      /\ status' = (IF batch' = <<>> THEN "ended" ELSE "open")
      /\ starved' = (batch' = <<>>)
      /\ UNCHANGED <<script, truncated, out, broken>>
  BY DEF PollChunk, Polled, Parsed
<1>2. /\ read + n \in 0 .. Total /\ read \in 0 .. read + n
      /\ from \in Nat /\ to \in Nat /\ from <= to /\ to <= Len(script)
  BY <1>1, WhatIsComplete DEF StreamInv, StreamTypes
<1>3. Complete(read)' = to /\ Total' = Total
  BY <1>1 DEF Complete, Total
<1>4. fresh \in SUBSET Nat /\ IsFiniteSet(fresh)
  <2>1. IsFiniteSet(from + 1 .. to)
    BY <1>2, FS_Interval
  <2>2. fresh \in SUBSET (from + 1 .. to)
    OBVIOUS
  <2>3. QED
    BY <1>2, <2>1, <2>2, FS_Subset
<1>5. batch' \in Seq(Nat) /\ Ascending(batch') /\ ToSet(batch') = fresh
  <2>1. InOrder(fresh) \in Seq(fresh)
    BY <1>4, OrderedIsAll
  <2>2. InOrder(fresh) \in Seq(Nat)
    BY <1>4, <2>1
  <2>3. QED
    BY <1>1, <1>4, <2>2, OrderedIsAll
<1>6. /\ Due(from) = ToSet(out)
      /\ \A i \in 1 .. from : script[i] # "bad"
      /\ ~broken
  BY <1>1, Empty DEF StreamInv, NothingReadIsLost, BatchHolds
<1>7. ASSUME NEW i \in from + 1 .. to
      PROVE  i # Failure /\ (IsShown(i) => i \in fresh) /\ (script[i] = "bad" => i \in fresh)
  BY <1>2 DEF IsShown, Kind, HasData, Failure
<1>8. Due(to) = Due(from) \union {i \in fresh : IsShown(i)}
  BY <1>2, <1>7 DEF Due
<1>9. \A i \in ToSet(out), j \in fresh : i < j
  BY <1>2, <1>6 DEF Due
<1>10. Due(Complete(read))' = Due(to)
  BY <1>1, <1>3 DEF Due, IsShown, Kind
<1>11. StreamTypes'
  BY <1>1, <1>2, <1>3, <1>5 DEF StreamInv, StreamTypes
<1>12. batch' = <<>> => fresh = {}
  BY <1>5, Empty
<1>13. BatchHolds'
  <2>1. \A i \in fresh : i <= to
    BY <1>2
  <2>2. \A i \in 1 .. to : script[i] = "bad" => i \in fresh
    BY <1>2, <1>6, <1>7
  <2>3. QED
    BY <1>1, <1>3, <1>5, <1>6, <2>1, <2>2 DEF BatchHolds
<1>14. NothingReadIsLost'
  <2>1. Due(to) \ ToSet(out) = {i \in fresh : IsShown(i)}
    BY <1>2, <1>6, <1>8, <1>9
  <2>2. {i \in ToSet(batch) : IsShown(i)}' = {i \in fresh : IsShown(i)}
    BY <1>1, <1>5 DEF IsShown, Kind
  <2>3. Ascending(out)'
    BY <1>1 DEF StreamInv, NothingReadIsLost
  <2>4. QED
    BY <1>1, <1>5, <1>6, <1>8, <1>9, <1>10, <2>1, <2>2, <2>3 DEF NothingReadIsLost
<1>15. FailureIsReported'
  <2>1. \A i \in 1 .. to : script[i] = "bad" => i \in fresh
    BY <1>2, <1>6, <1>7
  <2>2. QED
    BY <1>1, <1>3, <1>6, <1>12, <2>1 DEF FailureIsReported
<1>16. QED
  BY <1>11, <1>13, <1>14, <1>15 DEF StreamInv

LEMMA EndKeeps == StreamInv /\ UpstreamEnd => StreamInv'
<1> SUFFICES ASSUME StreamInv, UpstreamEnd
             PROVE  StreamInv'
  OBVIOUS
<1>1. /\ status = "open" /\ batch = <<>> /\ read = Total /\ status' = "ended"
      /\ UNCHANGED <<script, truncated, read, batch, out, starved, broken>>
  BY DEF UpstreamEnd, Polled
<1>2. /\ Due(Complete(read)) = ToSet(out)
      /\ \A i \in 1 .. Complete(read) : script[i] # "bad"
      /\ ~broken
  BY <1>1, Empty DEF StreamInv, NothingReadIsLost, BatchHolds
<1>3. /\ Complete(read)' = Complete(read) /\ Total' = Total
      /\ Due(Complete(read))' = Due(Complete(read))
  BY <1>1 DEF Complete, Total, Due, IsShown, Kind
<1>4. StreamTypes'
  BY <1>1, <1>3 DEF StreamInv, StreamTypes
<1>5. BatchHolds'
  <2>1. read' = Total' /\ Due(Complete(Total))' = Due(Complete(read))'
    BY <1>1, <1>3 DEF Due, IsShown, Kind
  <2>2. QED
    BY <1>1, <1>2, <1>3, <2>1 DEF BatchHolds
<1>6. NothingReadIsLost'
  BY <1>1, <1>2, <1>3 DEF StreamInv, NothingReadIsLost
<1>7. FailureIsReported'
  BY <1>1, <1>2, <1>3 DEF FailureIsReported
<1>8. QED
  BY <1>4, <1>5, <1>6, <1>7 DEF StreamInv

LEMMA FailKeeps == StreamInv /\ UpstreamFail => StreamInv'
<1> SUFFICES ASSUME StreamInv, UpstreamFail
             PROVE  StreamInv'
  OBVIOUS
<1>1. /\ status = "open" /\ batch = <<>> /\ batch' = <<Failure>>
      /\ UNCHANGED <<script, truncated, read, out, status, starved>>
  BY DEF UpstreamFail, Polled
<1>2. /\ Due(Complete(read)) = ToSet(out)
      /\ \A i \in 1 .. Complete(read) : script[i] # "bad"
  BY <1>1, Empty DEF StreamInv, NothingReadIsLost, BatchHolds
<1>3. /\ Complete(read)' = Complete(read) /\ Total' = Total
      /\ Due(Complete(read))' = Due(Complete(read))
  BY <1>1 DEF Complete, Total, Due, IsShown, Kind
<1>4. ToSet(batch)' = {Failure} /\ Ascending(batch)' /\ batch' \in Seq(Nat)
  BY <1>1, Empty
<1>5. StreamTypes'
  BY <1>1, <1>3, <1>4 DEF StreamInv, StreamTypes
<1>6. BatchHolds'
  BY <1>1, <1>2, <1>3, <1>4 DEF BatchHolds
<1>7. NothingReadIsLost'
  <2>1. ~IsShown(Failure)'
    BY DEF IsShown, Kind
  <2>2. QED
    BY <1>1, <1>2, <1>3, <1>4, <2>1 DEF StreamInv, NothingReadIsLost
<1>8. FailureIsReported'
  BY <1>1 DEF FailureIsReported
<1>9. QED
  BY <1>5, <1>6, <1>7, <1>8 DEF StreamInv

(* What is in the head of the batch is the least of what is due. *)
LEMMA DrainKeeps ==
  ASSUME StreamInv, EmitEvent \/ EmitNothing
  PROVE  StreamInv'
<1> DEFINE head == Head(batch)
           due  == Due(Complete(read))
<1>1. /\ status = "open" /\ batch # <<>> /\ batch' = Tail(batch)
      /\ UNCHANGED <<script, truncated, read, status, starved, broken>>
  BY DEF EmitEvent, EmitNothing, Draining
<1>2. /\ batch \in Seq(Nat) /\ out \in Seq(Nat) /\ Ascending(batch) /\ Ascending(out)
      /\ ToSet(out) \subseteq due
      /\ due \ ToSet(out) = {i \in ToSet(batch) : IsShown(i)}
      /\ \A i \in ToSet(out), j \in due \ ToSet(out) : i < j
  BY <1>1 DEF StreamInv, StreamTypes, NothingReadIsLost
<1>3. /\ head \in Nat /\ batch' \in Seq(Nat) /\ Ascending(batch')
      /\ ToSet(batch) = {head} \union ToSet(batch')
      /\ \A i \in ToSet(batch') : head < i
  BY <1>1, <1>2, TailOfAscending
<1>4. Kind(head) # "bad" /\ head # Failure /\ script[head] # "bad"
  BY DEF EmitEvent, EmitNothing, IsShown, Kind
<1>5. /\ Complete(read)' = Complete(read) /\ Total' = Total
      /\ Due(Complete(read))' = due
      /\ \A i : i \in ToSet(batch') => (IsShown(i)' <=> IsShown(i))
  BY <1>1 DEF Complete, Total, Due, IsShown, Kind
<1>6. /\ out' \in Seq(Nat) /\ Ascending(out')
      /\ ToSet(out') = ToSet(out) \union (IF IsShown(head) THEN {head} ELSE {})
  <2>1. CASE EmitEvent
    <3>1. IsShown(head) /\ out' = Append(out, head)
      BY <2>1 DEF EmitEvent
    <3>2. \A i \in ToSet(out) : i < head
      BY <1>2, <1>3, <3>1
    <3>3. QED
      BY <1>2, <1>3, <3>1, <3>2, AppendToAscending
  <2>2. CASE EmitNothing
    <3>1. ~IsShown(head) /\ out' = out
      BY <2>2 DEF EmitNothing, IsShown
    <3>2. QED
      BY <1>2, <3>1
  <2>3. QED
    BY <2>1, <2>2
<1>7. due \ ToSet(out') = {i \in ToSet(batch') : IsShown(i)}
  BY <1>2, <1>3, <1>6
<1>8. StreamTypes'
  BY <1>1, <1>3, <1>5, <1>6 DEF StreamInv, StreamTypes
<1>9. BatchHolds'
  BY <1>1, <1>3, <1>4, <1>5 DEF StreamInv, BatchHolds
<1>10. NothingReadIsLost'
  <2>1. ToSet(out') \subseteq due
    BY <1>2, <1>3, <1>6
  <2>2. \A i \in ToSet(out'), j \in due \ ToSet(out') : i < j
    BY <1>2, <1>3, <1>6, <1>7
  <2>3. {i \in ToSet(batch) : IsShown(i)}' = {i \in ToSet(batch') : IsShown(i)}
    BY <1>5
  <2>4. QED
    BY <1>1, <1>3, <1>5, <1>6, <1>7, <2>1, <2>2, <2>3 DEF NothingReadIsLost
<1>11. FailureIsReported'
  BY <1>1 DEF FailureIsReported
<1>12. QED
  BY <1>8, <1>9, <1>10, <1>11 DEF StreamInv

LEMMA ErrorKeeps == StreamInv /\ EmitError => StreamInv'
<1> SUFFICES ASSUME StreamInv, EmitError
             PROVE  StreamInv'
  OBVIOUS
<1>1. /\ status' = "failed" /\ batch' = <<>>
      /\ UNCHANGED <<script, truncated, read, out, starved, broken>>
  BY DEF EmitError
<1>2. /\ Complete(read)' = Complete(read) /\ Total' = Total
      /\ Due(Complete(read))' = Due(Complete(read))
  BY <1>1 DEF Complete, Total, Due, IsShown, Kind
<1>3. StreamTypes'
  BY <1>1, <1>2, Empty DEF StreamInv, StreamTypes
<1>4. QED
  BY <1>1, <1>2, <1>3 DEF StreamInv, BatchHolds, NothingReadIsLost, FailureIsReported

LEMMA UnmovedStream == StreamInv /\ UNCHANGED streamVars => StreamInv'
  BY DEF streamVars, vars, StreamInv, StreamTypes, BatchHolds, NothingReadIsLost,
         FailureIsReported, Total, Complete, Due, IsShown, Kind

-----------------------------------------------------------------------------
(* What is asked and what is answered *)

(* The body for the upstream is the translation of the request's. *)
Asked ==
  stage \in {"connect", "sent"} =>
    /\ sent.body = TransformRequest(provider, request.body)
    /\ sent.body \notin {Panics, Refused}

(* The stream's events are the upstream's, as the provider's adapter takes *)
(* them; only an answer has any.                                           *)
Answered ==
  /\ stage = "streaming" =>
       /\ events \in Seq(Events)
       /\ script = [i \in DOMAIN events |-> EventKind(provider, events[i])]
  /\ stage \notin {"answered", "streaming"} => events = <<>>
  /\ (stage = "answered" /\ events # <<>>) =>
       (Head(events) = "text" => reply.body # <<>>)

Carried == Asked /\ Answered /\ StreamInv

(* Whoever is asked hears the conversation; the adapter of Gemini puts it  *)
(* in words of its own, the others leave it as it is.                      *)
LEMMA TranslationIsFaithful ==
  ASSUME NEW kind, NEW chat,
         TransformRequest(kind, chat) \notin {Panics, Refused}
  PROVE  LET asking == TransformRequest(kind, chat) IN
           /\ Has(chat, "messages") =>
                HeardAs(kind, Turns("openai", chat), Turns(kind, asking))
           /\ Has(chat, "max_tokens") => Limit(kind, asking) = chat.max_tokens
           /\ kind = "anthropic" => Has(asking, "max_tokens")
<1>1. CASE kind = "gemini"
  <2> DEFINE asking == AskGemini(chat)
             said == chat.messages
             heard == asking.contents
  <2>1. Has(chat, "messages")
    BY <1>1 DEF TransformRequest, AskGemini
  <2>2. heard = Contents(said)
    BY <2>1 DEF AskGemini
  <2>3. DOMAIN heard = DOMAIN said
    BY <2>2 DEF Contents
  <2>4. ASSUME NEW i \in DOMAIN said
        PROVE  /\ heard[i].role =
                    IF said[i].role = "assistant" THEN "model" ELSE "user"
               /\ said[i].form = "string" => heard[i].text = said[i].text
    BY <2>2 DEF Contents
  <2> HIDE DEF said, heard
  <2>5. HeardAs(kind, said, heard)
    BY <1>1, <2>3, <2>4 DEF HeardAs, Speaker
  <2>6. Has(chat, "max_tokens") => Limit(kind, asking) = chat.max_tokens
    BY <1>1, <2>1 DEF Limit, AskGemini
  <2>7. QED
    BY <1>1, <2>5, <2>6 DEF TransformRequest, Turns, said, heard
<1>2. CASE kind = "anthropic"
  <2> DEFINE asking == AskAnthropic(chat)
  <2>1. asking = IF Has(chat, "max_tokens") THEN chat
                 ELSE With(chat, "max_tokens", 4096)
    BY <1>2 DEF TransformRequest, AskAnthropic
  <2>2. /\ Has(chat, "messages") => asking.messages = chat.messages
        /\ Has(chat, "max_tokens") => asking.max_tokens = chat.max_tokens
        /\ Has(asking, "max_tokens")
    BY <2>1 DEF With, Has
  <2> HIDE DEF asking
  <2>3. QED
    BY <1>2, <2>2 DEF TransformRequest, HeardAs, Speaker, Turns, Limit, asking
<1>3. CASE kind \notin {"gemini", "anthropic"}
  BY <1>3 DEF TransformRequest, HeardAs, Speaker, Turns, Limit
<1>4. QED
  BY <1>1, <1>2, <1>3

LEMMA TurnsSurvive == Asked => RequestSurvives
  BY TranslationIsFaithful DEF Asked, RequestSurvives

(* Whoever the provider is, a text its adapter looks for is shown. *)
LEMMA TextIsData ==
  ASSUME NEW kind, NEW event \in LookedFor(kind)
  PROVE  EventKind(kind, event) = "data"
  BY DEF LookedFor, EventKind, TransformChunk, AnthropicFrame, GeminiFrame,
         OpenAIFrame, Null

LEMMA TextsAreDue ==
  ASSUME Answered, StreamInv, stage = "streaming", NEW n \in 0 .. Total
  PROVE  Texts(Complete(n)) \subseteq Due(Complete(n))
<1>1. SUFFICES ASSUME NEW i \in 1 .. Complete(n), events[i] \in LookedFor(provider)
               PROVE  IsShown(i)
  BY DEF Texts, Due
<1>2. Complete(n) \in 0 .. Len(script) /\ script \in Seq(Kinds)
  BY WhatIsComplete DEF StreamInv, StreamTypes
<1>3. i \in DOMAIN script /\ i # 0
  BY <1>2
<1>4. script[i] = EventKind(provider, events[i])
  BY <1>3 DEF Answered
<1>5. QED
  BY <1>1, <1>3, <1>4, TextIsData DEF IsShown, Kind, Failure

LEMMA TextsSurvive == Answered /\ StreamInv => TextArrives
<1> SUFFICES ASSUME Answered, StreamInv
             PROVE  TextArrives
  OBVIOUS
<1>1. read \in 0 .. Total
  BY DEF StreamInv, StreamTypes
<1>2. Total \in 0 .. Total
  BY <1>1, WhatIsComplete DEF StreamInv
<1>3. ASSUME stage = "streaming"
      PROVE  \A i \in ToSet(out), j \in Texts(Complete(read)) \ ToSet(out) : i < j
  BY <1>1, <1>3, TextsAreDue DEF StreamInv, NothingReadIsLost
<1>4. ASSUME stage = "streaming", status = "ended", ~starved
      PROVE  /\ ToSet(out) = Due(Complete(Total))
             /\ Texts(Complete(Total)) \subseteq ToSet(out)
  BY <1>2, <1>4, TextsAreDue DEF StreamInv, BatchHolds
<1>5. QED
  BY <1>3, <1>4 DEF TextArrives, Answered

LEMMA FlowKeeps == Carried /\ Flow => Carried'
<1> SUFFICES ASSUME Carried, Flow
             PROVE  Carried'
  OBVIOUS
<1>1. stage = "streaming" /\ UNCHANGED <<stage, request, provider, sent, events, reply>>
  BY DEF Flow, requestVars
<1>2. CASE Poll
  <2>1. StreamInv' /\ UNCHANGED script
    BY <1>2, ChunkKeeps, EndKeeps, FailKeeps
       DEF Carried, Poll, PollChunk, UpstreamEnd, UpstreamFail
  <2>2. QED
    BY <1>1, <2>1 DEF Carried, Asked, Answered
<1>3. CASE Emit
  <2>1. StreamInv' /\ UNCHANGED script
    BY <1>3, DrainKeeps, ErrorKeeps DEF Carried, Emit, EmitEvent, EmitNothing, EmitError
  <2>2. QED
    BY <1>1, <2>1 DEF Carried, Asked, Answered
<1>4. QED
  BY <1>2, <1>3 DEF Flow

LEMMA StreamKeeps ==
  ASSUME NEW es \in Streams, NEW cut \in BOOLEAN, AnswerStream(es, cut)
  PROVE  Carried'
<1> DEFINE kinds == [i \in DOMAIN es |-> EventKind(provider, es[i])]
<1>1. /\ cut => es # <<>>
      /\ events' = es /\ provider' = provider /\ stage' = "streaming"
  BY DEF AnswerStream
<1>2. Streaming(kinds, cut)
  BY DEF AnswerStream
<1>3. es \in Seq(Events)
  BY ForwardingAssumption
<1>4. \A e : EventKind(provider, e) \in Kinds
  BY DEF EventKind, Kinds
<1>5. kinds \in Seq(Kinds) /\ (cut => kinds # <<>>)
  BY <1>1, <1>3, <1>4
<1>6. StreamInv'
  BY <1>2, <1>5, NewStream
<1>7. script' = [i \in DOMAIN events |-> EventKind(provider, events[i])]'
  <2>1. script' = kinds
    BY <1>2 DEF Streaming
  <2>2. QED
    BY <1>1, <2>1
<1>8. Asked' /\ Answered'
  BY <1>1, <1>3, <1>7 DEF Asked, Answered
<1>9. QED
  BY <1>6, <1>8 DEF Carried

LEMMA WholeKeeps ==
  ASSUME Carried, NEW blocks \in Answers, AnswerWhole(blocks)
  PROVE  Carried'
<1>1. /\ events' = blocks /\ stage' = "answered" /\ UNCHANGED streamVars
      /\ reply'.body = TransformAnswer(provider, blocks)
  BY DEF AnswerWhole
<1>2. (blocks # <<>> /\ Head(blocks) = "text") => TransformAnswer(provider, blocks) # <<>>
  BY DEF TransformAnswer
<1>3. QED
  BY <1>1, <1>2, UnmovedStream DEF Carried, Asked, Answered

LEMMA ForgetCarries ==
  ASSUME Forget
  PROVE  Carried'
<1>1. <<>> \in Seq(Kinds)
  OBVIOUS
<1>2. StreamInv'
  BY <1>1, NewStream DEF Forget
<1>3. QED
  BY <1>2 DEF Forget, Carried, Asked, Answered

(* A step before the answer starts. *)
LEMMA BeforeTheAnswer ==
  ASSUME Carried, stage \notin {"answered", "streaming"}, stage' # "streaming",
         UNCHANGED <<events, streamVars>>,
         Asked'
  PROVE  Carried'
  BY UnmovedStream DEF Carried, Answered

LEMMA CarriedNext == Carried /\ [ForwardNext]_forwardVars => Carried'
<1> SUFFICES ASSUME Carried, [ForwardNext]_forwardVars
             PROVE  Carried'
  OBVIOUS
<1>1. CASE \/ RefuseDeclared \/ Panic \/ RefuseBody \/ UpstreamRefuses
           \/ \E ready \in BOOLEAN : Probe(ready)
           \/ \E code \in {401, 404, 429, 503} : TurnAway(code)
  <2>1. /\ stage \in {"inbound", "body", "sent"} /\ stage' = "answered"
        /\ UNCHANGED <<events, streamVars>>
    BY <1>1 DEF RefuseDeclared, Panic, RefuseBody, UpstreamRefuses, Probe, TurnAway,
                Inbound, Answer, Return, quiet, failing
  <2>2. QED
    BY <2>1, BeforeTheAnswer DEF Asked
<1>2. ASSUME NEW kind \in ProviderKinds \union {"unheard-of"}, Admit(kind)
      PROVE  Carried'
  <2>1. /\ stage = "inbound" /\ stage' \in {"body", "answered"}
        /\ UNCHANGED <<events, streamVars>>
    BY <1>2 DEF Admit, Inbound, Return, Answer
  <2>2. QED
    BY <2>1, BeforeTheAnswer DEF Asked
<1>3. CASE ReadBody
  <2>1. /\ stage = "body" /\ UNCHANGED <<events, streamVars, provider, request>>
        /\ \/ stage' = "answered"
           \/ /\ stage' = "connect"
              /\ sent'.body = TransformRequest(provider, request.body)
              /\ sent'.body \notin {Panics, Refused}
    BY <1>3 DEF ReadBody, Translate, Return, Answer
  <2>2. QED
    BY <2>1, BeforeTheAnswer DEF Asked
<1>4. ASSUME NEW found \in {"public", "blocked", "unresolved"}, NEW builds \in BOOLEAN,
             Connect(found, builds)
      PROVE  Carried'
  <2>1. /\ stage = "connect" /\ stage' \in {"answered", "sent"}
        /\ UNCHANGED <<events, streamVars, provider, request, sent>>
    BY <1>4 DEF Connect, Return, Answer
  <2>2. Asked'
    BY <2>1 DEF Carried, Asked
  <2>3. QED
    BY <2>1, <2>2, BeforeTheAnswer
<1>5. ASSUME NEW r \in Requests, Arrive(r)
      PROVE  Carried'
  <2>1. stage = "idle" /\ stage' = "inbound" /\ UNCHANGED <<events, streamVars>>
    BY <1>5 DEF Arrive
  <2>2. QED
    BY <2>1, BeforeTheAnswer DEF Asked
<1>6. CASE Finish \/ HangUp
  BY <1>6, ForgetCarries DEF Finish, HangUp
<1>7. CASE UNCHANGED <<stage, requestVars, streamVars>>
  BY <1>7, UnmovedStream DEF requestVars, streamVars, vars, Carried, Asked, Answered
<1>8. CASE Stall \/ Shutdown \/ Exit \/ UNCHANGED forwardVars
           \/ \E outcome \in {"bound", "invalid", "taken"} : Start(outcome)
  BY <1>7, <1>8 DEF Stall, Shutdown, Exit, Start, forwardVars
<1>9. CASE Handle
  BY <1>1, <1>2, <1>3, <1>4, <1>6, <1>9, FlowKeeps, StreamKeeps, WholeKeeps DEF Handle
<1>10. QED
  BY <1>5, <1>6, <1>8, <1>9 DEF ForwardNext

LEMMA CarriedInit == ForwardInit => Carried
<1> SUFFICES ASSUME ForwardInit
             PROVE  Carried
  OBVIOUS
<1>1. <<>> \in Seq(Kinds)
  OBVIOUS
<1>2. Opened
  BY <1>1 DEF ForwardInit, Init, Opened
<1>3. Asked /\ Answered
  BY DEF ForwardInit, Asked, Answered
<1>4. QED
  BY <1>2, <1>3, FreshStream DEF Carried

LEMMA CarriedAlways == ForwardSpec => []Carried
  BY CarriedInit, CarriedNext, PTL DEF ForwardSpec

(* Every provider hears all turns of the conversation, from the right      *)
(* speakers, and the client's limit; of Gemini this is true of the user's  *)
(* and the assistant's turns whose content is a string.                    *)
THEOREM EveryTurnIsHeard == ForwardSpec => []RequestSurvives
<1>1. Carried => RequestSurvives
  BY TurnsSurvive DEF Carried
<1>2. QED
  BY <1>1, CarriedAlways, PTL

(* However an answer is cut into chunks, a client is sent what was read of *)
(* it, once and in order.                                                  *)
THEOREM StreamsAreInOrder == ForwardSpec => []NothingReadIsLost
<1>1. Carried => NothingReadIsLost
  BY DEF Carried, StreamInv
<1>2. QED
  BY <1>1, CarriedAlways, PTL

(* No failure, of the upstream or of an event, ends a stream cleanly.      *)
THEOREM FailuresAreSeen == ForwardSpec => []FailureIsReported
<1>1. Carried => FailureIsReported
  BY DEF Carried, StreamInv
<1>2. QED
  BY <1>1, CarriedAlways, PTL

(* A text that was read, and that the provider's adapter looks for,        *)
(* reaches the client.                                                     *)
THEOREM EveryTextArrives == ForwardSpec => []TextArrives
<1>1. Carried => TextArrives
  BY TextsSurvive DEF Carried
<1>2. QED
  BY <1>1, CarriedAlways, PTL

-----------------------------------------------------------------------------
(* The body rules of a transformer *)

Paths == Seq(Names) \ {<<>>}

LEMMA PrefixOfFront ==
  ASSUME NEW f \in Paths, NEW g \in Paths, IsPrefix(f, Front(g))
  PROVE  IsPrefix(f, g)
<1>1. Len(g) \in Nat \ {0} /\ Len(f) \in Nat
  BY DEF Paths
<1>2. /\ Front(g) \in Seq(Names) /\ Len(Front(g)) = Len(g) - 1
      /\ \A i \in 1 .. Len(g) - 1 : Front(g)[i] = g[i]
  <2>1. g \in Seq(Names) /\ Len(g) - 1 \in Nat /\ Len(g) - 1 <= Len(g)
    BY <1>1 DEF Paths
  <2>2. \A i \in 1 .. Len(g) - 1 : g[i] \in Names
    BY <1>1, <2>1
  <2>3. Front(g) = [i \in 1 .. Len(g) - 1 |-> g[i]]
    BY <2>1 DEF Front
  <2>4. QED
    BY <2>1, <2>2, <2>3
<1>3. Len(f) <= Len(g) - 1 /\ SubSeq(f, 1, Len(f)) = SubSeq(Front(g), 1, Len(f))
  BY <1>2 DEF IsPrefix
<1>4. \A i \in 1 .. Len(f) : SubSeq(Front(g), 1, Len(f))[i] = Front(g)[i]
  BY <1>1, <1>2, <1>3
<1>5. SubSeq(Front(g), 1, Len(f)) = SubSeq(g, 1, Len(f))
  BY <1>1, <1>2, <1>3 DEF Paths
<1>6. QED
  BY <1>1, <1>3, <1>5 DEF IsPrefix

LEMMA PrefixOfItself ==
  ASSUME NEW f \in Paths
  PROVE  IsPrefix(f, f)
  BY DEF IsPrefix, Paths

(* A rule leaves alone what does not lie within its field. *)
LEMMA OneRuleIsLocal ==
  ASSUME NEW r \in BodyRules, NEW d, NEW p, ~IsPrefix(r.field, p)
  PROVE  /\ p \in DOMAIN ApplyBodyRule(d, r) <=> p \in DOMAIN d
         /\ p \in DOMAIN d => ApplyBodyRule(d, r)[p] = d[p]
<1>1. p # r.field
  BY PrefixOfItself, TransformAssumption DEF Paths
<1>2. QED
  BY <1>1 DEF ApplyBodyRule, Rewritten, Under

(* What a rule makes of its own field does not depend on what is outside.  *)
LEMMA ApartRulesCommute ==
  ASSUME NEW r \in BodyRules, NEW s \in BodyRules, NEW d,
         ~IsPrefix(r.field, s.field), ~IsPrefix(s.field, r.field)
  PROVE  ApplyBodyRule(ApplyBodyRule(d, r), s) = ApplyBodyRule(ApplyBodyRule(d, s), r)
<1> DEFINE f == r.field
           g == s.field
           rd == ApplyBodyRule(d, r)
           sd == ApplyBodyRule(d, s)
<1>1. f \in Paths /\ g \in Paths
  BY TransformAssumption DEF Paths
<1>2. ~IsPrefix(f, Front(g)) /\ ~IsPrefix(g, Front(f))
  BY <1>1, PrefixOfFront
<1>3. Reaches(rd, g) <=> Reaches(d, g)
  BY <1>2, OneRuleIsLocal DEF Reaches
<1>4. Reaches(sd, f) <=> Reaches(d, f)
  BY <1>2, OneRuleIsLocal DEF Reaches
<1>5. CASE ~Reaches(d, f)
  BY <1>4, <1>5 DEF ApplyBodyRule
<1>6. CASE ~Reaches(d, g)
  BY <1>3, <1>6 DEF ApplyBodyRule
<1>7. CASE Reaches(d, f) /\ Reaches(d, g)
  <2> DEFINE rs == ApplyBodyRule(rd, s)
             sr == ApplyBodyRule(sd, r)
  <2>1. rd = Rewritten(d, r) /\ sd = Rewritten(d, s) /\ rs = Rewritten(rd, s) /\ sr = Rewritten(sd, r)
    BY <1>3, <1>4, <1>7 DEF ApplyBodyRule
  <2>2. f # g /\ IsPrefix(f, f) /\ IsPrefix(g, g)
    BY <1>1, PrefixOfItself
  <2>3. DOMAIN rs = DOMAIN sr
    BY <2>1, <2>2 DEF Rewritten, Under
  <2>4. ASSUME NEW p \in DOMAIN rs
        PROVE  rs[p] = sr[p]
    BY <2>1, <2>2, <2>3 DEF Rewritten, Under
  <2>5. rs = [p \in DOMAIN rs |-> rs[p]] /\ sr = [p \in DOMAIN sr |-> sr[p]]
    BY <2>1 DEF Rewritten
  <2> HIDE DEF rs, sr
  <2>6. rs = sr
    BY <2>3, <2>4, <2>5
  <2>7. QED
    BY <2>6 DEF rs, sr
<1>8. QED
  BY <1>5, <1>6, <1>7

RulesInv == rules \in Seq(BodyRules)

(* A rule on a body changes what it names and nothing else, and two rules *)
(* that name fields apart from each other may trade places.                *)
THEOREM RulesStayLocal == TransformSpec => []RulesAreLocal
<1>1. TransformInit => RulesInv
  BY TransformAssumption DEF TransformInit, RulesInv
<1>2. RulesInv /\ [Apply]_transformVars => RulesInv'
  BY DEF RulesInv, Apply, transformVars
<1>3. RulesInv => RulesAreLocal
  <2> SUFFICES ASSUME RulesInv
               PROVE  RulesAreLocal
    OBVIOUS
  <2>1. ASSUME rules # <<>>,
               NEW p \in DOMAIN body \union DOMAIN ApplyBodyRule(body, Head(rules)),
               ~IsPrefix(Head(rules).field, p)
        PROVE  /\ p \in DOMAIN body \intersect DOMAIN ApplyBodyRule(body, Head(rules))
               /\ ApplyBodyRule(body, Head(rules))[p] = body[p]
    <3>1. Head(rules) \in BodyRules
      BY <2>1 DEF RulesInv
    <3>2. QED
      BY <2>1, <3>1, OneRuleIsLocal
  <2>2. ASSUME Len(rules) >= 2
        PROVE  \/ IsPrefix(rules[1].field, rules[2].field)
               \/ IsPrefix(rules[2].field, rules[1].field)
               \/ ApplyBodyRule(ApplyBodyRule(body, rules[1]), rules[2]) =
                    ApplyBodyRule(ApplyBodyRule(body, rules[2]), rules[1])
    <3>1. rules[1] \in BodyRules /\ rules[2] \in BodyRules
      BY <2>2 DEF RulesInv
    <3>2. QED
      BY <3>1, ApartRulesCommute
  <2>3. QED
    BY <2>1, <2>2 DEF RulesAreLocal
<1>4. QED
  BY <1>1, <1>2, <1>3, PTL DEF TransformSpec
=============================================================================
