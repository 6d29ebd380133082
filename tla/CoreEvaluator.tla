---------------------------- MODULE CoreEvaluator ----------------------------
(***************************************************************************)
(* eval.rs of rust/noe_core: the second implementation of the evaluator,   *)
(* for the same contexts and operators as Evaluator.  A value is a truth   *)
(* value, "action", "error", a literal (which is its key, with or without  *)
(* a value in the context), or "reject" for a chain that parser.rs does    *)
(* not accept.                                                             *)
(***************************************************************************)
EXTENDS ChainValues

CoreRefuse(c) == IF c.strict THEN "error" ELSE "U"

\* k3_not: only truth values are negated, all else is passed through.
CoreNegation(v) == IF v \in K3 THEN KNot(v) ELSE v

\* The left operand decides alone if it is absorbing or an error; kleene is the
\* result for two truth values.
CoreConnective(absorbing, l, r, kleene) ==
    IF "reject" \in {l, r} THEN "reject"
    ELSE IF l \in {absorbing, "error"} THEN l
    ELSE IF r \in {absorbing, "error"} THEN r
    ELSE IF {l, r} \subseteq K3 THEN kleene
    ELSE "U"

CoreAnd(l, r) == CoreConnective("F", l, r, KAnd(l, r))
CoreOr(l, r) == CoreConnective("T", l, r, KOr(l, r))

\* The operators without a rule of their own, kra among them.
CoreOther(l, r) ==
    IF "reject" \in {l, r} THEN "reject"
    ELSE IF "error" \in {l, r} THEN "error"
    ELSE "U"

CoreCertain(c, k) ==
    LET entry == FirstOf(c.know[k], c.bel[k]) IN
    IF \/ c.strict /\ ~c.threshold
       \/ ~c.certain[k]
       \/ entry = "none"
    THEN CoreRefuse(c)
    ELSE entry

\* The operand's value v: a literal is looked up in the shard of the operator;
\* other values become undefined under shi and vek, and sha lets them through.
CoreEpistemic(c, op, v) ==
    IF v \notin Keys
    THEN IF op = "sha" \/ v \in {"reject", "error"} THEN v ELSE "U"
    ELSE CASE op = "shi" -> IF c.know[v] = "none" THEN CoreRefuse(c) ELSE c.know[v]
           [] op = "vek" -> Says(c.bel[v])
           [] op = "sha" -> CoreCertain(c, v)

\* Any target will do, whatever it evaluates to.
CoreAction(v) == IF v = "reject" THEN v ELSE "action"

CoreGuarded(cond, clause) ==
    IF "reject" \in {cond, clause} THEN "reject"
    ELSE IF cond \notin K3 THEN "error"
    ELSE IF cond = "T" THEN clause
    ELSE "U"

=============================================================================
