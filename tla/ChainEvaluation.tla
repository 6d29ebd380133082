--------------------------- MODULE ChainEvaluation ---------------------------
(***************************************************************************)
(* run_noe_logic: validation and evaluation of a chain, by the Python      *)
(* reference and by the Rust core.                                         *)
(*                                                                         *)
(* The parse tree is visited from the leaves to the root.  The stack holds *)
(* the subtrees that are done; an action visits one more node.  Chains of  *)
(* up to MaxSize nodes are made in this way, and each is evaluated in all  *)
(* Contexts side by side, so that a property can compare what two contexts *)
(* or two implementations make of one chain.                               *)
(*                                                                         *)
(* A subtree carries                                                       *)
(*   at      what is known of it in each context                           *)
(*     val     what the visitor returned                                   *)
(*     core    what eval.rs returns                                        *)
(*   key     the literal it is, or NoKey                                   *)
(*   ops     its operators in the order of the text (extract_ops)          *)
(*   lits    the literals it names                                         *)
(*   size    its nodes                                                     *)
(*   unary   whether a unary operator is its root                          *)
(* and, for the properties only, in each context its Kleene meaning, the   *)
(* targets of actions all of whose guards are true by that meaning (may),  *)
(* and its form:                                                           *)
(*   fact     made of known facts, constants, nai, an and ur               *)
(*   clause   mek and a literal                                            *)
(*   guarded  a clause behind khi and a fact                               *)
(*   other    anything else                                                *)
(* Where the grammar needs them, parentheses stand around an operand; they *)
(* leave no trace in either evaluator.                                     *)
(***************************************************************************)
EXTENDS Evaluator, CoreEvaluator, SequencesExt

CONSTANTS
    Contexts,     \* the contexts a chain is evaluated in
    Constants,    \* the constants of the language that may occur
    UnaryOps,     \* the unary operators that may occur
    BinaryOps,    \* the binary ones, with "juxtaposition"
    MaxSize       \* bound on the nodes of a chain

Modal == {"shi", "vek", "sha"}
Quantifiers == {"eni", "sem", "mun", "fiu"}

ASSUME EvaluationAssumption ==
    /\ NoKey \notin Keys
    /\ Keys \cap (K3 \cup {"action", "error", "reject", "undefined"}) = {}
    /\ Contexts \subseteq Context /\ Contexts # {}
    /\ \A c \in Contexts, k \in Keys : c.certain[k] => c.rated[k]
    /\ Constants \subseteq {"true", "false", "undefined"}
    /\ UnaryOps \subseteq {"nai", "sek", "mek"} \cup Modal \cup Quantifiers
    /\ BinaryOps \subseteq {"an", "ur", "kra", "khi", "juxtaposition"}
    /\ MaxSize \in Nat

VARIABLES
    stack,     \* the subtrees visited, the last one on top
    chain,     \* the chain that was run, once it was
    outcome    \* its result in each context, from Python and from Rust

vars == <<stack, chain, outcome>>

Nothing == <<>>

Init ==
    /\ stack = <<>>
    /\ chain = Nothing
    /\ outcome = Nothing

Top == stack[Len(stack)]
Below == stack[Len(stack) - 1]

\* The nodes a chain has at least when s is on the stack: of two subtrees a
\* node is still to be made.
NodesOf(s) == Len(s) - 1 + FoldSeq(LAMBDA n, total : n.size + total, 0, s)

\* The last k subtrees become the children of n.
Reduce(k, n) ==
    /\ chain = Nothing
    /\ stack' = Append(SubSeq(stack, 1, Len(stack) - k), n)
    /\ NodesOf(stack') <= MaxSize
    /\ UNCHANGED <<chain, outcome>>

-----------------------------------------------------------------------------
(* Leaves *)

Leaf(k, at, form) ==
    [at |-> at, key |-> k, ops |-> <<>>, lits |-> {k} \ {NoKey}, size |-> 1,
     unary |-> FALSE, form |-> form]

\* What is known of a subtree in a context.
Found(v, core, meaning, may) == [val |-> v, core |-> core, meaning |-> meaning, may |-> may]

\* true, false and undefined.
VisitConstant(w) ==
    LET v == CASE w = "true"      -> Truth("T")
               [] w = "false"     -> Truth("F")
               [] w = "undefined" -> Undefined
    IN  Reduce(0, Leaf(NoKey, [c \in Contexts |-> Found(v, v.t, v.t, {})], "fact"))

VisitKey(k) ==
    Reduce(0, Leaf(k, [c \in Contexts |->
        Found(VisitLiteral(c, k), k, Says(c.lit[k]), {})], "other"))

-----------------------------------------------------------------------------
(* One child *)

Around(ops, at, unary, form) ==
    [at |-> at, key |-> NoKey, ops |-> ops, lits |-> Top.lits, size |-> Top.size + 1,
     unary |-> unary, form |-> form]

Unary(op, at, form) == Around(<<op>> \o Top.ops, at, TRUE, form)

\* visit_unary: the operators before one that failed are not applied.
Stacked(c, v) ==
    IF Top.unary /\ Top.at[c].val.d = "error" THEN Top.at[c].val ELSE v

\* What the facts of the context say of k under the operator.
ModalMeaning(c, op, k) ==
    IF k = NoKey THEN "U"
    ELSE CASE op = "shi" -> Says(c.know[k])
           [] op = "vek" -> Says(FirstOf(c.know[k], c.bel[k]))
           [] op = "sha" -> IF c.certain[k] THEN Says(FirstOf(c.know[k], c.bel[k])) ELSE "U"

VisitModal(op) ==
    /\ Len(stack) > 0
    /\ Reduce(1, Unary(op, [c \in Contexts |->
         Found(Stacked(c, Epistemic(c, op, Top.key)), CoreEpistemic(c, op, Top.at[c].core),
               ModalMeaning(c, op, Top.key), {})],
         IF op = "shi" /\ Top.key # NoKey THEN "fact" ELSE "other"))

VisitNegation ==
    /\ Len(stack) > 0
    /\ Reduce(1, Unary("nai", [c \in Contexts |->
         Found(Stacked(c, Negation(Top.at[c].val)), CoreNegation(Top.at[c].core),
               KNot(Top.at[c].meaning), {})],
         IF Top.form = "fact" THEN "fact" ELSE "other"))

\* The meaning of a quantifier is what it counts; eval.rs ignores it.
VisitQuantifier(op) ==
    /\ Len(stack) > 0
    /\ Reduce(1, Unary(op, [c \in Contexts |->
         LET v == Stacked(c, Quantifier(op, Top.at[c].val)) IN
         Found(v, Top.at[c].core, v.t, {})],
         "other"))

\* sek X sek; parser.rs only groups.
VisitScope ==
    /\ Len(stack) > 0
    /\ Reduce(1, Around(<<"sek">> \o Append(Top.ops, "sek"), [c \in Contexts |->
         Found(Scope(Top.at[c].val), Top.at[c].core, Top.at[c].meaning, Top.at[c].may)],
         FALSE, "other"))

\* An action that is the target of another is not modelled.
VisitAction ==
    /\ Len(stack) > 0
    /\ "mek" \notin ToSet(Top.ops)
    /\ Reduce(1, Around(<<"mek">> \o Top.ops, [c \in Contexts |->
         Found(ActionEvent(c, Top.at[c].val), CoreAction(Top.at[c].core), "U",
               {TargetOf(Top.at[c].val)})],
         FALSE, IF Top.key # NoKey THEN "clause" ELSE "other"))

-----------------------------------------------------------------------------
(* Two children *)

Binding(ops, at, form) ==
    [at |-> at, key |-> NoKey, ops |-> ops, lits |-> Below.lits \cup Top.lits,
     size |-> Below.size + Top.size + 1, unary |-> FALSE, form |-> form]

Infix(op) == Below.ops \o <<op>> \o Top.ops

BothFacts == IF {Below.form, Top.form} = {"fact"} THEN "fact" ELSE "other"

\* What may be done behind the left child as a guard.
Behind(l, r) == IF l.meaning = "T" THEN r.may ELSE {}

VisitAnd ==
    /\ Len(stack) > 1
    /\ Reduce(2, Binding(Infix("an"), [c \in Contexts |->
         LET l == Below.at[c]
             r == Top.at[c]
         IN  Found(Conjunction("an", l.val, r.val), CoreAnd(l.core, r.core),
                   KAnd(l.meaning, r.meaning), l.may \cup r.may)],
         BothFacts))

VisitOr ==
    /\ Len(stack) > 1
    /\ \A c \in Contexts : Disjoinable(Below.at[c].val, Top.at[c].val)
    /\ Reduce(2, Binding(Infix("ur"), [c \in Contexts |->
         LET l == Below.at[c]
             r == Top.at[c]
         IN  Found(Disjunction(l.val, r.val), CoreOr(l.core, r.core),
                   KOr(l.meaning, r.meaning), l.may \cup r.may)],
         BothFacts))

\* cond kra x: a guard that takes any operand.
VisitKra ==
    /\ Len(stack) > 1
    /\ Reduce(2, Binding(Infix("kra"), [c \in Contexts |->
         LET l == Below.at[c]
             r == Top.at[c]
         IN  Found(Conjunction("kra", l.val, r.val), CoreOther(l.core, r.core),
                   KGuard(l.meaning, r.meaning), Behind(l, r))],
         "other"))

\* Two expressions side by side; parser.rs has no such form.
VisitJuxtaposition ==
    /\ Len(stack) > 1
    /\ Reduce(2, Binding(Below.ops \o Top.ops, [c \in Contexts |->
         LET l == Below.at[c]
             r == Top.at[c]
         IN  Found(Juxtaposition(l.val, r.val), "reject", "U", l.may \cup r.may)],
         "other"))

\* cond khi sek clause sek
VisitConditional ==
    /\ Len(stack) > 1
    /\ Reduce(2, Binding(Below.ops \o <<"khi", "sek">> \o Append(Top.ops, "sek"),
         [c \in Contexts |->
            LET l == Below.at[c]
                r == Top.at[c]
            IN  Found(Guarded(c, l.val, r.val), CoreGuarded(l.core, r.core),
                      KGuard(l.meaning, r.meaning), Behind(l, r))],
         IF Below.form = "fact" /\ Top.form = "clause" THEN "guarded" ELSE "other"))

-----------------------------------------------------------------------------
(* The validators *)

LogicOps == {"an", "ur", "nai", "khi", "kra", "sek"} \cup Modal \cup Quantifiers

Positions(ops, S) == {i \in DOMAIN ops : ops[i] \in S}
First(S) == CHOOSE i \in S : \A j \in S : i <= j

PureAction(ops) == ops[1] = "mek" /\ Positions(ops, LogicOps) = {}

\* kra as the first operator: all actions in the first sek ... sek after it.
InKernel(ops) ==
    LET seks  == Positions(ops, {"sek"})
        first == First(seks)
        last  == First(seks \ {first})
    IN  \A i \in Positions(ops, {"mek"}) : first < i /\ i < last

\* Behind the first khi an action clause without logical operators.
ActionClause(ops) ==
    LET k == First(Positions(ops, {"khi"})) IN
    /\ \A i \in Positions(ops, {"mek"}) : i > k
    /\ k < Len(ops)
    /\ ops[k + 1] \in {"mek", "sek"}
    /\ \A i \in Positions(ops, LogicOps \ {"khi", "sek"}) : i <= k + 1

\* Action-class static rejection of validate_chain.
ActionsWellPlaced(ops) ==
    \/ Positions(ops, {"mek"}) = {}
    \/ PureAction(ops)
    \/ LET kernel == ops[1] = "kra" /\ Cardinality(Positions(ops, {"sek"})) >= 2 IN
       /\ ~PureAction(ops)
       /\ kernel => InKernel(ops)
       /\ ~kernel => Positions(ops, {"khi"}) # {} /\ ActionClause(ops)

Uses(n, S) == Positions(n.ops, S) # {}

\* validate_chain, for contexts of the right shape; it runs in strict mode only.
Validates(c, n) ==
    /\ ~c.stale
    /\ \A k \in n.lits : c.lit[k] # "none"
    /\ Uses(n, {"khi"}) => c.audit
    /\ ActionsWellPlaced(n.ops)

\* validate_strict: mek needs the audit shard, and in a chain with an epistemic
\* operator a literal may stand in any shard of C.modal instead of C.literals.
CoreValidates(c, n) ==
    /\ ~c.stale
    /\ \A k \in n.lits :
          \/ c.lit[k] # "none"
          \/ Uses(n, Modal) /\ (c.know[k] # "none" \/ c.bel[k] # "none" \/ c.rated[k])
    /\ Uses(n, {"mek"}) => c.audit

Verdict(c, n) == IF c.strict /\ ~Validates(c, n) THEN Failure ELSE n.at[c].val

CoreVerdict(c, n) ==
    IF \/ n.at[c].core = "reject"
       \/ c.strict /\ ~CoreValidates(c, n)
    THEN "error"
    ELSE n.at[c].core

\* The tree is complete: run_noe_logic returns.
Run ==
    /\ chain = Nothing
    /\ Len(stack) = 1
    /\ chain' = Top
    /\ outcome' = [c \in Contexts |-> [python |-> Verdict(c, Top), rust |-> CoreVerdict(c, Top)]]
    /\ stack' = <<>>

Next ==
    \/ \E w \in Constants : VisitConstant(w)
    \/ \E k \in Keys : VisitKey(k)
    \/ \E op \in UnaryOps \cap Modal : VisitModal(op)
    \/ \E op \in UnaryOps \cap Quantifiers : VisitQuantifier(op)
    \/ "nai" \in UnaryOps /\ VisitNegation
    \/ "sek" \in UnaryOps /\ VisitScope
    \/ "mek" \in UnaryOps /\ VisitAction
    \/ "an" \in BinaryOps /\ VisitAnd
    \/ "ur" \in BinaryOps /\ VisitOr
    \/ "kra" \in BinaryOps /\ VisitKra
    \/ "juxtaposition" \in BinaryOps /\ VisitJuxtaposition
    \/ "khi" \in BinaryOps /\ VisitConditional
    \/ Run

Spec == Init /\ [][Next]_vars

-----------------------------------------------------------------------------
(* Properties *)

\* Every subtree has a value in every context, and a chain ends with an outcome.
TypeOK ==
    /\ \A i \in DOMAIN stack :
          /\ stack[i].size \in Nat \ {0}
          /\ DOMAIN stack[i].at = Contexts
          /\ \A c \in Contexts :
                LET n == stack[i].at[c] IN
                /\ n.val.t \in K3
                /\ n.core \in K3 \cup Keys \cup {"action", "error", "reject"}
    /\ (chain = Nothing) = (outcome = Nothing)

Ended == chain # Nothing
Python(c) == outcome[c].python
Rust(c) == outcome[c].rust

\* An action comes out of a chain of khi guards only if every guard it stands
\* behind is true by the facts of the context: no operator, list or nesting of
\* scopes carries it past a guard that is false or undefined.
ActionsAreGuarded ==
    Ended /\ ~Uses(chain, {"kra"}) =>
        \A c \in Contexts : Python(c).acts \subseteq chain.at[c].may

\* What strict mode lets through has its context: all shards the action needs,
\* fresh, every literal of the chain in it, and never an undefined target.
StrictActionsAreGrounded ==
    Ended => \A c \in Contexts : c.strict /\ Python(c).acts # {} =>
        /\ c.spatial /\ ~c.stale
        /\ Uses(chain, {"khi"}) => c.audit
        /\ \A k \in chain.lits : c.lit[k] # "none"
        /\ "undefined" \notin Python(c).acts

\* Without quantifiers, which do not count what is undefined and pass over an error,
\* and without kra and khi in one chain: kra takes a list out of the scope khi put it
\* in, so that an and ur see more operands where the guard is true than where not.
Monotonic(n) ==
    /\ ~Uses(n, Quantifiers)
    /\ ~(Uses(n, {"kra"}) /\ Uses(n, {"khi"}))

\* Strict mode refuses more than partial mode and decides nothing otherwise: a
\* verdict is that of partial mode and so is every action.
StrictOnlyRefuses ==
    Ended /\ Monotonic(chain) => \A c \in Contexts :
        LET p == [c EXCEPT !.strict = FALSE] IN
        c.strict /\ p \in Contexts =>
            /\ Refines(Python(c).t, Python(p).t)
            /\ Python(c).acts \subseteq Python(p).acts

\* d says all that c says; what is newly known does not contradict a belief.
Extends(c, d) ==
    /\ [d EXCEPT !.lit = c.lit, !.know = c.know, !.bel = c.bel, !.rated = c.rated,
                 !.certain = c.certain] = c
    /\ \A k \in Keys :
          /\ c.lit[k] \in {"none", d.lit[k]}
          /\ c.know[k] \in {"none", d.know[k]}
          /\ c.bel[k] \in {"none", d.bel[k]}
          /\ (c.rated[k] => d.rated[k]) /\ (c.certain[k] => d.certain[k])
          /\ c.know[k] = "none" /\ c.bel[k] # "none" => d.know[k] \in {"none", c.bel[k]}

\* Learning more never turns a verdict round: without quantifiers a true chain does
\* not become false or the other way round, in either implementation; in partial
\* mode a verdict, once it is there, stays, and so do the actions.
LearningNeverFlips ==
    Ended /\ ~Uses(chain, Quantifiers) =>
        \A c, d \in Contexts : Extends(c, d) =>
            /\ {Python(c).t, Python(d).t} # {"T", "F"}
            /\ {Rust(c), Rust(d)} # {"T", "F"}
            /\ ~c.strict /\ Monotonic(chain) =>
                  /\ Refines(Python(c).t, Python(d).t)
                  /\ Python(c).acts \subseteq Python(d).acts

\* The context has all that either implementation asks of it before it lets a
\* guarded clause act.
Complete(c, n) ==
    /\ c.spatial /\ c.audit /\ ~c.stale
    /\ \A k \in n.lits : c.lit[k] # "none"

\* On facts both implementations give the Kleene meaning, except that in strict
\* mode each may refuse where the other does not.  Neither lets a guarded clause
\* act unless the guard is true; if it is, and the context is complete and strict
\* mode has no unknown fact to refuse, both do.
CoresAgree ==
    Ended => \A c \in Contexts :
        /\ chain.form = "fact" =>
             /\ Python(c).t \in {chain.at[c].meaning, "U"}
             /\ Rust(c) \in {chain.at[c].meaning, "error"}
             /\ ~c.strict => Python(c).t = Rust(c)
        /\ chain.form = "guarded" =>
             LET guard == chain.at[c].may # {} IN
             /\ Python(c).acts # {} \/ Rust(c) = "action" => guard
             /\ /\ guard
                /\ Complete(c, chain)
                /\ c.strict => \A k \in chain.lits : c.know[k] # "none"
                => Python(c).acts # {} /\ Rust(c) = "action"

=============================================================================
