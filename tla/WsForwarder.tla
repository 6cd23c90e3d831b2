----------------------------- MODULE WsForwarder ------------------------------
(***************************************************************************)
(* The WebSocket forwarding of src/core/proxy/ws.rs, with the API key      *)
(* authenticator of src/core/auth/apikey.rs before it: two loops, one per  *)
(* direction, each of which reads a message from one peer and then sends   *)
(* it to the other, in one task whose select! ends both as soon as either  *)
(* ends.                                                                   *)
(*                                                                         *)
(* What a peer will send is its script.  A message is "data" (text, binary *)
(* or ping), "pong" (or a raw frame: ignored), "close" (with a frame) or   *)
(* "lost" (a close without one, an error or the end of the stream).  A     *)
(* send waits while Capacity messages lie unread at the receiver.          *)
(***************************************************************************)
EXTENDS Integers, Sequences, SequencesExt

CONSTANTS
  Keys,        \* the API keys there may be
  Token,       \* the credential of the request
  Capacity,    \* messages in flight to a peer that does not read
  MaxMessages  \* bound of the instance: messages before the last of a script

ASSUME WsAssumption == Capacity \in Nat \ {0} /\ MaxMessages \in Nat

Dirs == {"up", "down"}  \* from the client to the upstream, and back
Back(d) == IF d = "up" THEN "down" ELSE "up"

VARIABLES
  keys,    \* of the authenticator
  phase,   \* "asked", "refused", "connecting", "running" or "exited"
  script,  \* what the sender of a direction sends, chosen once
  arrived, \* how much of it has arrived,
  read,    \* and how much the loop has read
  hand,    \* the place of the message it is sending, 0 if none
  sent,    \* the places of the messages it has sent
  taken,   \* how many of them the receiver has read
  stalled, \* whether the receiver has stopped reading
  over     \* the loops that have ended

peers == <<script, arrived, taken, stalled>>
wsVars == <<keys, phase, peers, read, hand, sent, over>>

Ends == {"close", "lost"}
Scripts ==
  LET Talk == UNION {[1 .. n -> {"data", "pong"}] : n \in 0 .. MaxMessages}
  IN  Talk \union {Append(s, e) : s \in Talk, e \in Ends}

(* The messages a loop forwards. *)
Forwards(kind) == kind \in {"data", "close"}

WsInit ==
  /\ keys \in SUBSET Keys
  /\ phase = "asked"
  /\ script \in [Dirs -> Scripts]
  /\ arrived = [d \in Dirs |-> 0] /\ read = arrived /\ hand = arrived /\ taken = arrived
  /\ sent = [d \in Dirs |-> << >>]
  /\ stalled = [d \in Dirs |-> FALSE]
  /\ over = {}

-----------------------------------------------------------------------------
(* ApiKeyAuthenticator: a lock makes each a step.  verify compares with    *)
(* every key and answers whether any was equal.                            *)
RegisterKey(k) == keys' = keys \union {k} /\ UNCHANGED <<phase, peers, read, hand, sent, over>>
UnregisterKey(k) == keys' = keys \ {k} /\ UNCHANGED <<phase, peers, read, hand, sent, over>>

Verify == \E k \in keys : k = Token

(* handle, and connect_async, which may fail. *)
Handle ==
  /\ phase = "asked"
  /\ phase' = IF Verify THEN "connecting" ELSE "refused"
  /\ UNCHANGED <<keys, peers, read, hand, sent, over>>

Connect ==
  /\ phase = "connecting"
  /\ phase' \in {"running", "exited"}
  /\ UNCHANGED <<keys, peers, read, hand, sent, over>>

-----------------------------------------------------------------------------
(* A close ends the loop, too, but after its frame was sent.  Variants: it *)
(* ends it at once; a send that fails drops its message only.              *)
EndsLoopAtOnce(kind) == kind \in Ends
EndsLoop(kind) == kind = "lost"

Reads(d) ==
  /\ phase = "running" /\ d \notin over /\ hand[d] = 0
  /\ read[d] < arrived[d]

(* One turn of a loop, up to the send. *)
Read(d) ==
  LET n == read[d] + 1
      kind == script[d][n]
  IN  /\ Reads(d)
      /\ read' = [read EXCEPT ![d] = n]
      /\ over' = IF EndsLoop(kind) THEN over \union {d} ELSE over
      /\ hand' = IF Forwards(kind) /\ ~EndsLoop(kind) THEN [hand EXCEPT ![d] = n] ELSE hand
      /\ UNCHANGED <<keys, phase, peers, sent>>

(* The send of what is in hand; the loop ends after a close.               *)
Send(d) ==
  /\ phase = "running" /\ d \notin over /\ hand[d] # 0
  /\ Len(sent[d]) - taken[d] < Capacity
  /\ sent' = [sent EXCEPT ![d] = Append(@, hand[d])]
  /\ hand' = [hand EXCEPT ![d] = 0]
  /\ over' = IF script[d][hand[d]] = "close" THEN over \union {d} ELSE over
  /\ UNCHANGED <<keys, phase, peers, read>>

(* The receiver has hung up: the send fails, which ends the loop.          *)
HungUp(d) ==
  /\ arrived[Back(d)] = Len(script[Back(d)])
  /\ script[Back(d)] # << >> /\ Last(script[Back(d)]) \in Ends

SendFailsAlone(d) ==
  /\ phase = "running" /\ d \notin over /\ hand[d] # 0
  /\ HungUp(d)
  /\ hand' = [hand EXCEPT ![d] = 0]
  /\ UNCHANGED <<keys, phase, peers, read, sent, over>>

SendFails(d) ==
  /\ phase = "running" /\ d \notin over /\ hand[d] # 0
  /\ HungUp(d)
  /\ over' = over \union {d}
  /\ UNCHANGED <<keys, phase, peers, read, hand, sent>>

(* The select!: either loop ends both.  Variant: both must have ended.     *)
MayExitJoined == over = Dirs
MayExit == over # {}

Exit ==
  /\ phase = "running" /\ MayExit
  /\ phase' = "exited"
  /\ UNCHANGED <<keys, peers, read, hand, sent, over>>

-----------------------------------------------------------------------------
(* The peers: a message arrives, one is read, reading stops for good.      *)
Arrive(d) ==
  /\ phase = "running" /\ arrived[d] < Len(script[d])
  /\ arrived' = [arrived EXCEPT ![d] = @ + 1]
  /\ UNCHANGED <<keys, phase, script, taken, stalled, read, hand, sent, over>>

Drain(d) ==
  /\ ~stalled[d] /\ taken[d] < Len(sent[d])
  /\ taken' = [taken EXCEPT ![d] = @ + 1]
  /\ UNCHANGED <<keys, phase, script, arrived, stalled, read, hand, sent, over>>

Stall(d) ==
  /\ phase = "running" /\ ~stalled[d]
  /\ stalled' = [stalled EXCEPT ![d] = TRUE]
  /\ UNCHANGED <<keys, phase, script, arrived, taken, read, hand, sent, over>>

Peer(d) == Arrive(d) \/ Drain(d) \/ Stall(d)
Forward(d) == Read(d) \/ Send(d) \/ SendFails(d)

WsNext ==
  \/ \E k \in Keys : RegisterKey(k) \/ UnregisterKey(k)
  \/ Handle \/ Connect \/ Exit
  \/ \E d \in Dirs : Forward(d) \/ Peer(d)

(* The task is polled while it can run, select! polls both loops, and a    *)
(* peer that has not stalled reads on.                                     *)
WsSpec ==
  /\ WsInit /\ [][WsNext]_wsVars
  /\ WF_wsVars(Handle) /\ WF_wsVars(Connect) /\ WF_wsVars(Exit)
  /\ \A d \in Dirs : WF_wsVars(Read(d)) /\ WF_wsVars(Send(d)) /\ WF_wsVars(Drain(d))

-----------------------------------------------------------------------------
(* The types of the variables. *)
WsTypeOK ==
  /\ keys \subseteq Keys
  /\ phase \in {"asked", "refused", "connecting", "running", "exited"}
  /\ script \in [Dirs -> Seq({"data", "pong"} \union Ends)]
  /\ \A f \in {arrived, read, hand, taken} : f \in [Dirs -> Nat]
  /\ sent \in [Dirs -> Seq(Nat)]
  /\ stalled \in [Dirs -> BOOLEAN]
  /\ over \subseteq Dirs

Ascending(places) ==
  \A i, j \in DOMAIN places : i < j => places[i] < places[j]

(* The messages among the first n that are forwarded, and those the loop   *)
(* has sent, or is sending.                                                *)
Worth(d, n) == {i \in 1 .. n : Forwards(script[d][i])}
Passed(d) == IF hand[d] = 0 THEN sent[d] ELSE Append(sent[d], hand[d])

(* What was read of a direction has been sent, all of it and in order,     *)
(* but for the one message whose send select! cut off or the receiver      *)
(* refused.                                                                *)
OnlyTheLastIsLost ==
  \A d \in Dirs :
    ToSet(Passed(d)) = Worth(d, read[d]) /\ Ascending(Passed(d))

(* The side that ends the forwarding is heard out: of the direction whose  *)
(* loop ended all was sent, a close frame included, unless its receiver    *)
(* had hung up and refused a message.                                      *)
EnderIsHeardOut ==
  \A d \in over :
    \/ HungUp(Back(d)) /\ hand[d] = 0 /\ ToSet(sent[d]) = Worth(d, Len(script[d]))
    \/ HungUp(d) /\ hand[d] # 0

(* No connection stays half open: once a peer has hung up the forwarding   *)
(* ends, unless its messages go to a receiver that has stopped reading.    *)
HangUpEnds ==
  \A d \in Dirs :
    (phase = "running" /\ HungUp(Back(d))) ~> (phase = "exited" \/ stalled[d])
=============================================================================
