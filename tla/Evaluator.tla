------------------------------ MODULE Evaluator ------------------------------
(***************************************************************************)
(* NoeEvaluator of noe/noe_parser.py: what each visitor makes of the       *)
(* values of its children in a context c.  Connectives, epistemic          *)
(* operators, quantifiers, grouping, actions and guards are here; the      *)
(* spatial, temporal, relational, normative and delivery operators, which  *)
(* only look values up, are not.                                           *)
(***************************************************************************)
EXTENDS ChainValues, FiniteSets

Refuse(c) == IF c.strict THEN Failure ELSE Undefined

\* visit_literal: a literal that is not in C.literals is undefined.
VisitLiteral(c, k) ==
    IF c.lit[k] = "none" THEN Undefined ELSE Literal(k, Truth(c.lit[k]))

Negation(v) ==
    IF Unwrap(v).t = "U" THEN Undefined ELSE Truth(KNot(Unwrap(v).t))

-----------------------------------------------------------------------------
(* Epistemic operators: k is the literal the operator stands before, or    *)
(* NoKey if its operand is anything else.                                  *)

\* Variant: strict mode takes what is not known for false.
KnownClosed(c, k) ==
    IF c.know[k] # "none" THEN Truth(c.know[k])
    ELSE IF c.strict THEN Truth("F") ELSE Undefined

Known(c, k) == IF c.know[k] = "none" THEN Refuse(c) ELSE Truth(c.know[k])

\* Knowledge implies belief; a key in neither is undefined even in strict mode.
Believed(c, k) ==
    LET entry == FirstOf(c.know[k], c.bel[k]) IN
    IF entry = "none" THEN Undefined ELSE Truth(entry)

\* Variant: what is not certain enough is false.
CertainClosed(c, k) ==
    LET entry == FirstOf(c.know[k], c.bel[k]) IN
    IF (c.strict /\ ~c.threshold) \/ entry = "none" THEN Refuse(c)
    ELSE Truth(IF c.certain[k] THEN entry ELSE "F")

Certain(c, k) ==
    LET entry == FirstOf(c.know[k], c.bel[k]) IN
    IF \/ c.strict /\ ~c.threshold
       \/ ~c.certain[k]
       \/ entry = "none"
    THEN Refuse(c)
    ELSE Truth(entry)

Epistemic(c, op, k) ==
    IF k = NoKey THEN Undefined
    ELSE CASE op = "shi" -> Known(c, k)
           [] op = "vek" -> Believed(c, k)
           [] op = "sha" -> Certain(c, k)

-----------------------------------------------------------------------------

\* Undefined members, and all others that are no truth values, are not counted.
Quantifier(op, v) ==
    LET u       == Unwrap(v)
        members == IF u.d = "list" THEN u.items ELSE <<u>>
        counted == {i \in DOMAIN members : members[i].t # "U"}
        n       == Cardinality(counted)
        true    == Cardinality({i \in counted : members[i].t = "T"})
        holds   == CASE op = "eni" -> true > 0
                     [] op = "sem" -> true = n
                     [] op = "mun" -> 10 * true >= 4 * n    \* theta = 0.4
                     [] op = "fiu" -> 10 * true <= n        \* phi = 0.1
    IN  IF n = 0 THEN Undefined ELSE Truth(IF holds THEN "T" ELSE "F")

-----------------------------------------------------------------------------
(* Lists.  visit_conjunction, visit_disjunction and visit_scoped splice a  *)
(* child that is a list into the sequence of their children.               *)

Spliced(v) == IF v.d = "list" THEN v.items ELSE <<v>>

\* Juxtaposition: the items s follow what has been evaluated so far.
Follow(v, s) ==
    IF s = <<>> THEN v
    ELSE List((IF v.d = "list" THEN v.items ELSE <<Unwrap(v)>>)
              \o [i \in DOMAIN s |-> Unwrap(s[i])])

Leading(v) == Follow(Head(Spliced(v)), Tail(Spliced(v)))

Juxtaposition(l, r) == Follow(Leading(l), Spliced(r))

\* sek X sek
Scope(v) == List(Spliced(v))

-----------------------------------------------------------------------------

\* Variant: an and ur are undefined with an undefined operand.
BinaryPropagates(op, l, r) ==
    LET x == Unwrap(l)
        y == Unwrap(r)
    IN  CASE l.d = "error" -> l
          [] l.d # "error" /\ r.d = "error" -> r
          [] OTHER -> IF "U" \in {x.t, y.t} THEN Undefined
                      ELSE CASE op = "an"  -> Truth(KAnd(x.t, y.t))
                             [] op = "ur"  -> Truth(KOr(x.t, y.t))
                             [] op = "kra" -> IF x.t = "T" THEN y ELSE Undefined

\* _apply_binary_op: errors first, then the operator.
Binary(op, l, r) ==
    LET x == Unwrap(l)
        y == Unwrap(r)
        Result(t) == IF t = "U" THEN Undefined ELSE Truth(t)
    IN  CASE l.d = "error" -> l
          [] l.d # "error" /\ r.d = "error" -> r
          [] OTHER -> CASE op = "an"  -> Result(KAnd(x.t, y.t))
                        [] op = "ur"  -> Result(KOr(x.t, y.t))
                        [] op = "kra" -> IF x.t = "T" THEN y ELSE Undefined

\* an and kra take the first member of a list on their right, and the rest of it
\* follows the result.
Conjunction(op, l, r) ==
    Follow(Binary(op, Leading(l), Head(Spliced(r))), Tail(Spliced(r)))

\* An even number of spliced children is no alternation of operands and ur.
Disjunction(l, r) ==
    IF (Len(Spliced(l)) + Len(Spliced(r))) % 2 = 1 THEN Undefined
    ELSE Binary("ur", Head(Spliced(l)), Head(Spliced(r)))

\* Whether Disjunction says what the code does: longer lists in ur, whose members
\* are taken for operators, are not modelled.
Disjoinable(l, r) == Len(Spliced(l)) + Len(Spliced(r)) <= 3

\* What the action is directed at: a literal by its key, anything else by kind.
TargetOf(v) == IF v.d = "literal" THEN v.key ELSE v.d

\* Variant: mek does not ask for C.spatial.
ActionEventUngrounded(c, v) ==
    IF v.d = "error" THEN v
    ELSE IF v.d = "undefined" THEN Refuse(c)
    ELSE IF c.strict /\ v.d = "truth" THEN Failure
    ELSE Action(TargetOf(v))

\* visit_action_event and _finalize_action: in strict mode the target must be
\* defined and no plain value, and mek needs C.spatial.
ActionEvent(c, v) ==
    IF v.d = "error" THEN v
    ELSE IF v.d = "undefined" THEN Refuse(c)
    ELSE IF c.strict /\ (v.d = "truth" \/ ~c.spatial) THEN Failure
    ELSE Action(TargetOf(v))

\* Variant: the guard only stops the clause if it is false.
GuardedUnlessFalse(c, cond, clause) ==
    LET scope == List(<<clause>>) IN
    IF \/ c.strict /\ cond.d \notin {"undefined", "truth", "error"}
       \/ c.strict /\ cond.t = "T" /\ ~scope.sound
    THEN Failure
    ELSE IF cond.t # "F" THEN scope ELSE Undefined

\* cond khi sek clause sek
Guarded(c, cond, clause) ==
    LET scope == List(<<clause>>) IN
    IF \/ c.strict /\ cond.d \notin {"undefined", "truth", "error"}
       \/ c.strict /\ cond.t = "T" /\ ~scope.sound
    THEN Failure
    ELSE IF cond.t = "T" THEN scope ELSE Undefined

=============================================================================
