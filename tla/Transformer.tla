----------------------------- MODULE Transformer -----------------------------
(***************************************************************************)
(* The rules that rewrite or remove fields of a request's body             *)
(* (src/core/proxy/transformer.rs), applied one after the other.           *)
(*                                                                         *)
(* A JSON document is a function from the paths it has, the root's <<>>    *)
(* among them, to what is there: "object", or a scalar.  Only an object    *)
(* has paths below it.                                                     *)
(***************************************************************************)
EXTENDS Integers, Sequences, SequencesExt

CONSTANTS
  Names,     \* the names of fields
  Documents, \* the bodies before the rules
  BodyRules, \* the rules: the path of a field and what to put there
  Removed,   \* rewrite_to of a rule that removes
  MaxRules   \* bound of the instance: the rules of a transformer

(* split('.') returns at least one segment. *)
ASSUME TransformAssumption ==
  /\ \A r \in BodyRules : r.field \in Seq(Names) \ {<<>>}
  /\ MaxRules \in Nat

VARIABLES
  body, \* as rewritten so far
  rules \* body_rules yet to be applied

transformVars == <<body, rules>>

TransformInit ==
  /\ body \in Documents
  /\ rules \in UNION {[1 .. n -> BodyRules] : n \in 0 .. MaxRules}

Under(document, path) == {p \in DOMAIN document : IsPrefix(path, p)}

(* Every step of the path is there, and the last is an object.             *)
Reaches(document, path) ==
  Front(path) \in DOMAIN document /\ document[Front(path)] = "object"

(* The document with the field replaced, or without it.                    *)
Rewritten(document, rule) ==
  [p \in (DOMAIN document \ Under(document, rule.field)) \union
           (IF rule.rewrite_to = Removed THEN {} ELSE {rule.field}) |->
     IF p = rule.field THEN rule.rewrite_to ELSE document[p]]

(* Variant (see Breaker): a removal that leaves an object empty removes    *)
(* the object.                                                             *)
ApplyBodyRulePruning(document, rule) ==
  IF ~Reaches(document, rule.field) THEN document
  ELSE LET rewritten == Rewritten(document, rule)
           parent == Front(rule.field)
       IN IF rule.rewrite_to = Removed /\ parent # <<>>
             /\ Under(rewritten, parent) = {parent}
          THEN Rewritten(rewritten, [rule EXCEPT !.field = parent])
          ELSE rewritten

(* A path that leads nowhere leaves the body alone. *)
ApplyBodyRule(document, rule) ==
  IF Reaches(document, rule.field) THEN Rewritten(document, rule) ELSE document

Apply ==
  /\ rules # <<>>
  /\ body' = ApplyBodyRule(body, Head(rules))
  /\ rules' = Tail(rules)

TransformSpec == TransformInit /\ [][Apply]_transformVars

-----------------------------------------------------------------------------
(* A rule touches the field it names and what is below it, and nothing     *)
(* else of the body; so the order of two rules matters only if one's field *)
(* lies within the other's.                                                *)
RulesAreLocal ==
  /\ rules # <<>> =>
       LET after == ApplyBodyRule(body, Head(rules))
       IN \A p \in DOMAIN body \union DOMAIN after :
            IsPrefix(Head(rules).field, p) \/
              (/\ p \in DOMAIN body \intersect DOMAIN after
               /\ after[p] = body[p])
  /\ Len(rules) >= 2 =>
       \/ IsPrefix(rules[1].field, rules[2].field)
       \/ IsPrefix(rules[2].field, rules[1].field)
       \/ ApplyBodyRule(ApplyBodyRule(body, rules[1]), rules[2]) =
            ApplyBodyRule(ApplyBodyRule(body, rules[2]), rules[1])
=============================================================================
