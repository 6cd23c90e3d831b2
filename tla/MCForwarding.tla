---------------------------- MODULE MCForwarding -----------------------------
(***************************************************************************)
(* Forwarding with conversations of two turns, in strings and in parts,    *)
(* streamed or not, with and without a limit, a body for embeddings and    *)
(* one that is no object; with every answer of up to two events, and some  *)
(* longer: a whole Anthropic stream, a whole OpenAI stream, and one that a *)
(* bad event cuts short.                                                   *)
(*                                                                         *)
(* Forwarding only knows the transformer without rules; those that have    *)
(* some are run beside it, on documents of two levels with two fields.     *)
(***************************************************************************)
EXTENDS Forwarding, Transformer

Turn(role, form, text) == [role |-> role, form |-> form, text |-> text]
Chat(turns) == "messages" :> turns
Streamed == "stream" :> TRUE

MCBodies ==
  { Chat(<<Turn("system", "string", 1), Turn("user", "parts", 2)>>) @@ Streamed,
    Chat(<<Turn("user", "string", 1), Turn("assistant", "string", 2)>>)
      @@ "max_tokens" :> 8,
    "input" :> 1,
    NotAnObject }

MCAnswers == { <<>>, <<"text">>, <<"text", "tool">>, <<"tool", "text">> }

MCStreams ==
  UNION {[1 .. n -> Events] : n \in 0 .. 2} \union
  { <<"start", "other", "text", "stop">>,
    <<"text", "comment", "text", "done">>,
    <<"text", "junk", "text">> }

MCExempt == {"local"}

CONSTANTS a, b, scalar, other

Fields == {<<f>> : f \in {a, b}}
Nested == {<<f, g>> : f \in {a, b}, g \in {a, b}}
MCDocuments ==
  {d \in UNION {[{<<>>} \union top \union low -> {"object", scalar}] :
                   top \in SUBSET Fields, low \in SUBSET Nested} :
     /\ d[<<>>] = "object"
     /\ \A p \in DOMAIN d \ {<<>>} :
          Front(p) \in DOMAIN d /\ d[Front(p)] = "object"
     /\ \A p \in DOMAIN d : Len(p) = 2 => d[p] = scalar}
MCBodyRules ==
  [field : Fields \union Nested, rewrite_to : {Removed, other, "object"}]

(* Requests are only forwarded beside this body and no rules.              *)
Blank == <<>> :> "object"
Forwarded == body = Blank /\ rules = <<>>

MCInit ==
  /\ ForwardInit
  /\ (body = Blank /\ rules = <<>>) \/ TransformInit
MCNext ==
  \/ Forwarded /\ ForwardNext /\ UNCHANGED transformVars
  \/ Apply /\ UNCHANGED forwardVars
MCSpec ==
  /\ MCInit
  /\ [][MCNext]_<<forwardVars, transformVars>>
  /\ WF_forwardVars(Forwarded /\ Handle /\ UNCHANGED transformVars)
  /\ WF_forwardVars(Forwarded /\ Exit /\ UNCHANGED transformVars)
=============================================================================
