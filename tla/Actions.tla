------------------------------ MODULE Actions ------------------------------
(* What identifies a proposed action and what it observed                    *)
(* (src/noe/provenance.py, the actions of src/noe/noe_parser.py).            *)
(*                                                                           *)
(* Chains of verbs over a literal are evaluated while the world reports:     *)
(* parcels are delivered, files are audited, shards of the context come and  *)
(* go. An action that was evaluated, by the evaluator or by the runtime, may *)
(* be kept as the value of a literal, and later chains may aim at it. Its    *)
(* action_hash names the proposal, its event_hash the proposal together with *)
(* what was observed when it was made.                                       *)
EXTENDS Integers, Sequences

CONSTANTS
    Things,         \* literals that stand for parcels and files
    Plans,          \* literals that may hold an action
    Subject,        \* the entity in front of noq
    Reports,        \* what delivery says of a parcel: status, verification, times
    Unknown,        \* the report {"status": "unknown", "verified": False}
    Findings,       \* what audit.files says of a file
    Nothing,        \* no report, no finding, no kind, no subject, no key
    Legacy,         \* what the old delivery.status and delivery.verified say
    MaxVerbs,       \* bound on the length of a chain
    MaxNested       \* bound on the length of a proposal that is kept

Literals == Things \union Plans

ASSUME UnknownIsReport == Unknown \in Reports
ASSUME NothingIsNothing == Nothing \notin Reports \union Findings \union Literals \union {Subject}
ASSUME LegacyReports == Legacy \in [Literals -> Reports \union {Nothing}]
ASSUME LengthsAreNatural == MaxVerbs \in Nat /\ MaxNested \in Nat

VARIABLES
    shards,     \* which of the context's shards there are
    items,      \* delivery.items
    files,      \* audit.files
    literal,    \* what each literal is: missing, of no interest here, or an action
    wording     \* history: the words that the action in a literal was made of

actionVars == <<shards, items, files, literal, wording>>

Shards == {"spatial", "audit", "delivery"}
Modes == {"strict", "partial"}
Verbs == {"mek", "men", "vus", "vel", "noq"}

-----------------------------------------------------------------------------
(* Actions and their digests. A digest is an injective function of what is   *)
(* hashed, so the hashed record stands for it.                               *)

NoHash == [digest |-> FALSE]

\* child_action_hash: missing, null, or a digest.
Unset == [pointer |-> "unset"]
Null == [pointer |-> "null"]

Symbol(key) == [type |-> "symbol", key |-> key]
IsAction(x) == x.type = "action"

Proposal(verb, kind, subject, target, outcome) ==
    [type |-> "action", verb |-> verb, kind |-> kind, subject |-> subject, target |-> target,
     outcome |-> outcome, child |-> Unset, hash |-> NoHash, event |-> NoHash, below |-> {}]

\* Variant, to see that EventIsObservation depends on it: outcomes are never hashed.
NormalizeBlind(a, child, with_outcome) ==
    [digest |-> TRUE, verb |-> a.verb, kind |-> a.kind, subject |-> a.subject, child |-> child,
     target |-> IF child = Unset THEN a.target ELSE Symbol(Nothing), outcome |-> Nothing]

\* Variant, to see that HashTellsProposalsApart depends on it: a target is never hashed.
NormalizeAlone(a, child, with_outcome) ==
    [digest |-> TRUE, verb |-> a.verb, kind |-> a.kind, subject |-> a.subject, child |-> child,
     target |-> Symbol(Nothing), outcome |-> IF with_outcome THEN a.outcome ELSE Nothing]

(* _normalize_action: own hashes and provenance are never hashed, outcomes   *)
(* only on request, and a target is left out once a child hash is set.       *)
NormalizeAction(a, child, with_outcome) ==
    [digest |-> TRUE, verb |-> a.verb, kind |-> a.kind, subject |-> a.subject, child |-> child,
     target |-> IF child = Unset THEN a.target ELSE Symbol(Nothing),
     outcome |-> IF with_outcome THEN a.outcome ELSE Nothing]

\* Variant, to see that HashIsProposal depends on it: nested actions are hashed again.
HashAgain(t) == NormalizeAction(t, t.child, FALSE)

\* A nested action keeps the hash it came with; one that was written by hand gets one.
HashOfTarget(t) == IF t.hash # NoHash THEN t.hash ELSE NormalizeAction(t, t.child, FALSE)

\* compute_action_hash sets child_action_hash first, for a nested target only.
ChildPointer(a) == IF IsAction(a.target) THEN HashOfTarget(a.target) ELSE a.child
ComputeActionHash(a, with_outcome) == NormalizeAction(a, ChildPointer(a), with_outcome)

-----------------------------------------------------------------------------
(* Results other than actions. The sentinel _U and the string "undefined"    *)
(* become the same at the end of an evaluation but not on the way: hashing   *)
(* an action that has the sentinel for a target raises.                      *)

Undefined == [type |-> "undefined"]
Sentinel == [type |-> "sentinel"]
Raised == [type |-> "raised"]
Error(code) == [type |-> "error", code |-> code]
Operand(key) == [type |-> "literal", key |-> key]

Refusal(code, mode) == IF mode = "strict" THEN Error(code) ELSE Sentinel

(* _finalize_action: the one place that hashes. below is what the graph of   *)
(* the evaluation reaches from the action; an action of the context is a leaf*)
(* of it.                                                                    *)
FinalizeAction(a, mode) ==
    LET hash  == ComputeActionHash(a, FALSE)
        below == IF IsAction(a.target)
                 THEN {HashOfTarget(a.target)} \union a.target.below ELSE {}
    IN  CASE a.target = Undefined -> Refusal("ERR_UNDEFINED_TARGET", mode)
          [] a.target = Sentinel  -> Raised
          [] a.target \notin {Undefined, Sentinel} ->
             IF hash \in below
             THEN Refusal("ERR_ACTION_CYCLE", mode)
             ELSE [a EXCEPT !.child = ChildPointer(a), !.hash = hash, !.below = below,
                            !.event = IF a.outcome = Nothing THEN hash
                                      ELSE ComputeActionHash(a, TRUE)]

-----------------------------------------------------------------------------
(* The verbs.                                                                *)

\* visit_literal, and the literal as a target: a symbol unless its value is an action.
Target(x) ==
    CASE x.type # "literal" -> x
      [] x.type = "literal" /\ literal[x.key].type = "missing" -> Undefined
      [] x.type = "literal" /\ literal[x.key].type = "plain"   -> Symbol(x.key)
      [] x.type = "literal" /\ IsAction(literal[x.key])        -> literal[x.key]

\* check_grounding, by CONTEXT_REQUIREMENTS.
Grounded(verb) ==
    /\ verb \in {"mek", "men"} => "spatial" \in shards
    /\ verb = "men" => "audit" \in shards
    /\ verb = "noq" => "delivery" \in shards

\* What audit.files says of a target; the shard is empty where it is missing.
Finding(target) ==
    IF target.type = "symbol" /\ "audit" \in shards THEN files[target.key] ELSE Nothing

\* mek and men: the kind of a nested action wins, an audit looks its file up.
ActionEvent(verb, x, mode) ==
    LET target == Target(x)
        kind   == IF IsAction(target) /\ target.kind # Nothing THEN target.kind
                  ELSE IF verb = "men" THEN "audit" ELSE Nothing
    IN  CASE target.type = "error" -> target
          [] target.type # "error" /\ mode = "strict" /\ ~Grounded(verb) ->
                Error("ERR_BAD_CONTEXT")
          [] target.type # "error" /\ (mode = "strict" => Grounded(verb)) ->
                FinalizeAction(Proposal(verb, kind, Nothing, target,
                    IF verb = "men" THEN Finding(target) ELSE Nothing), mode)

\* The old layout is read only as long as there is no item at all.
Report(key) ==
    CASE "delivery" \notin shards -> Nothing
      [] "delivery" \in shards /\ \E k \in Literals : items[k] # Nothing -> items[key]
      [] "delivery" \in shards /\ \A k \in Literals : items[k] = Nothing -> Legacy[key]

\* Variant, to see that StrictAgreesWithPartial depends on it: the default precedes the
\* old layout.
ReportAssumed(key, mode) ==
    IF items[key] = Nothing /\ mode = "partial" THEN Unknown ELSE Report(key)

\* A missing report stops strict mode only; partial mode makes one up.
ReportFor(key, mode) ==
    IF Report(key) = Nothing /\ mode = "partial" THEN Unknown ELSE Report(key)

\* vus and vel take a literal by its name, whatever it holds and even if it is missing.
Delivery(verb, x, mode) ==
    IF x.type # "literal" \/ ReportFor(x.key, mode) = Nothing
    THEN Undefined
    ELSE FinalizeAction(
            Proposal(verb, "delivery", Nothing, Symbol(x.key), ReportFor(x.key, mode)), mode)

\* noq asks for an action; in strict mode its type comes before the context.
Request(x, mode) ==
    LET action == Target(x)
    IN  CASE action.type \in {"error", "undefined"} -> action
          [] action.type \notin {"error", "undefined", "action"} ->
                IF mode = "strict" THEN Error("ERR_ACTION_MISUSE") ELSE Undefined
          [] IsAction(action) ->
                IF ~Grounded("noq") THEN Undefined
                ELSE FinalizeAction(Proposal("noq", "request", Subject, action, Nothing), mode)

\* An exception leaves the evaluator past all verbs further out.
ApplyVerb(verb, x, mode) ==
    CASE x = Raised -> Raised
      [] x # Raised /\ verb \in {"mek", "men"} -> ActionEvent(verb, x, mode)
      [] x # Raised /\ verb \in {"vus", "vel"} -> Delivery(verb, x, mode)
      [] x # Raised /\ verb = "noq"            -> Request(x, mode)

\* Verbs apply from the literal outwards: what the verbs from the i-th on make of it.
Meanings(verbs, key, mode) ==
    LET value[i \in 1 .. Len(verbs) + 1] ==
            IF i > Len(verbs) THEN Operand(key) ELSE ApplyVerb(verbs[i], value[i + 1], mode)
    IN  value

Meaning(verbs, key, mode) == Meanings(verbs, key, mode)[1]

-----------------------------------------------------------------------------
(* run_noe_logic: strict mode validates before it evaluates.                 *)

In(verb, verbs) == \E i \in DOMAIN verbs : verbs[i] = verb

\* ERROR_PRIORITY of the codes that can come up here.
Priority(code) ==
    CASE code = "ERR_CONTEXT_INCOMPLETE" -> 1
      [] code = "ERR_ACTION_MISUSE"      -> 3
      [] code = "ERR_LITERAL_MISSING"    -> 5

\* What validate_chain finds wrong: a chain with mek or men has to begin with one.
Violations(verbs, key) ==
    {code \in {"ERR_CONTEXT_INCOMPLETE", "ERR_ACTION_MISUSE", "ERR_LITERAL_MISSING"} :
        CASE code = "ERR_CONTEXT_INCOMPLETE" ->
                \/ In("men", verbs) /\ "audit" \notin shards
                \/ /\ \E verb \in {"vus", "vel", "noq"} : In(verb, verbs)
                   /\ "delivery" \notin shards
          [] code = "ERR_ACTION_MISUSE" ->
                /\ In("mek", verbs) \/ In("men", verbs)
                /\ verbs[1] \notin {"mek", "men"}
          [] code = "ERR_LITERAL_MISSING" -> literal[key].type = "missing"}

FirstViolation(codes) ==
    CHOOSE code \in codes : \A other \in codes : Priority(code) <= Priority(other)

RunNoeLogic(verbs, key, mode) ==
    LET result == Meaning(verbs, key, mode)
    IN  CASE mode = "strict" /\ Violations(verbs, key) # {} ->
                Error(FirstViolation(Violations(verbs, key)))
          [] mode = "strict" => Violations(verbs, key) = {} ->
                CASE result = Raised   -> Error("ERR_PARSE_FAILED")
                  [] result = Sentinel -> Undefined
                  [] result \notin {Raised, Sentinel} -> result

(* compute_action_lineage_hashes, which NoeRuntime applies to the action it  *)
(* returns: hashed again, and the pointer overwritten for want of a parent.  *)
Enrich(a) == [a EXCEPT !.hash = ComputeActionHash(a, FALSE), !.child = Null]

-----------------------------------------------------------------------------
(* The world and the caller.                                                 *)

Missing == [type |-> "missing"]
Plain == [type |-> "plain"]

ActionsInit ==
    /\ shards = Shards
    /\ items = [k \in Literals |-> Nothing]
    /\ files = [k \in Literals |-> Nothing]
    /\ literal = [k \in Literals |-> Plain]
    /\ wording = [k \in Plans |-> <<>>]

\* The words of a proposal with the actions of literals unfolded; a key ends them.
Unfolded(verbs, key) ==
    IF IsAction(literal[key]) /\ verbs[Len(verbs)] \notin {"vus", "vel"}
    THEN verbs \o wording[key] ELSE Append(verbs, key)

\* A literal that holds an action is a leaf of the next evaluation's graph.
Hold(plan, action, words) ==
    /\ literal' = [literal EXCEPT ![plan] = [action EXCEPT !.below = {}]]
    /\ wording' = [wording EXCEPT ![plan] = words]
    /\ UNCHANGED <<shards, items, files>>

\* An action is kept as the evaluator or as the runtime returns it.
Keep(plan) ==
    \E verb \in Verbs, key \in Literals, mode \in Modes :
        LET result == RunNoeLogic(<<verb>>, key, mode)
            words  == Unfolded(<<verb>>, key)
        IN  /\ IsAction(result)
            /\ Len(words) <= MaxNested
            /\ \E action \in {result, Enrich(result)} : Hold(plan, action, words)

\* A literal that holds an action somebody wrote, without any hash.
Draft(plan) ==
    \E key \in Things :
        Hold(plan, Proposal("mek", Nothing, Nothing, Symbol(key), Nothing), <<"mek", key>>)

ReportDelivery(key) ==
    /\ \E r \in Reports \union {Nothing} : items' = [items EXCEPT ![key] = r]
    /\ UNCHANGED <<shards, files, literal, wording>>

Audit(key) ==
    /\ \E f \in Findings \union {Nothing} : files' = [files EXCEPT ![key] = f]
    /\ UNCHANGED <<shards, items, literal, wording>>

\* A literal that stands for a thing comes and goes, and so do shards.
Appear(key) ==
    /\ \E l \in {Missing, Plain} : literal' = [literal EXCEPT ![key] = l]
    /\ UNCHANGED <<shards, items, files, wording>>

Provide ==
    /\ \E s \in SUBSET Shards : shards' = s
    /\ UNCHANGED <<items, files, literal, wording>>

ActionsNext ==
    \/ \E plan \in Plans : Keep(plan) \/ Draft(plan)
    \/ \E key \in Things : ReportDelivery(key) \/ Audit(key) \/ Appear(key)
    \/ Provide

ActionsSpec == ActionsInit /\ [][ActionsNext]_actionVars

-----------------------------------------------------------------------------
(* Properties. They speak of whatever could be evaluated in a state.         *)

Chains == UNION {[1 .. n -> Verbs] : n \in 1 .. MaxVerbs}

\* The hash a proposal should have, from its words alone; the last one is a key.
KindOf(verb, inner) ==
    CASE verb \in {"vus", "vel"} -> "delivery"
      [] verb = "noq"            -> "request"
      [] verb \in {"mek", "men"} ->
            IF inner.kind # Nothing THEN inner.kind ELSE IF verb = "men" THEN "audit" ELSE Nothing

Named(verb, inner) ==
    [kind |-> KindOf(verb, inner),
     hash |-> [digest  |-> TRUE, verb |-> verb, kind |-> KindOf(verb, inner),
               subject |-> IF verb = "noq" THEN Subject ELSE Nothing,
               child   |-> IF inner.hash = NoHash THEN Unset ELSE inner.hash,
               target  |-> Symbol(inner.key), outcome |-> Nothing],
     key  |-> Nothing]

Names(words) ==
    LET named[i \in 1 .. Len(words)] ==
            IF i = Len(words) THEN [kind |-> Nothing, hash |-> NoHash, key |-> words[i]]
            ELSE Named(words[i], named[i + 1])
    IN  named

NameOf(words) == Names(words)[1].hash

(* The action hash names the proposal, that is, verbs, subject and the key at*)
(* the end, and nothing else: neither mode, nor outcomes, nor when and by    *)
(* whom a nested action was made, nor what became of the world since. An     *)
(* auditor who hashes what the evaluator returned finds the same hash.       *)
HashIsProposal ==
    \A verbs \in Chains, key \in Literals, mode \in Modes :
        LET action == RunNoeLogic(verbs, key, mode)
        IN  IsAction(action) =>
                /\ action.hash = NameOf(Unfolded(verbs, key))
                /\ ComputeActionHash(action, FALSE) = action.hash

(* The action hash also tells proposals apart: where two actions that could  *)
(* be proposed have one hash, their words are the same.                      *)
HashTellsProposalsApart ==
    LET results  == {<<RunNoeLogic(verbs, key, mode), Unfolded(verbs, key)>> :
                         verbs \in Chains, key \in Literals, mode \in Modes}
        proposed == {r \in results : IsAction(r[1])}
    IN  \A one, other \in proposed : one[1].hash = other[1].hash => one[2] = other[2]

\* What the world says, at this moment, of the literal that a lone verb looks up.
Observed(verbs, key, mode) ==
    CASE Len(verbs) = 1 /\ verbs[1] \in {"vus", "vel"} -> ReportFor(key, mode)
      [] Len(verbs) = 1 /\ verbs[1] = "men" -> Finding(Target(Operand(key)))
      [] OTHER -> Nothing

(* The event hash adds to the proposal exactly what was observed, at the     *)
(* moment of the evaluation and for the outermost verb; where nothing was    *)
(* observed it is the action hash.                                           *)
EventIsObservation ==
    \A verbs \in Chains, key \in Literals, mode \in Modes :
        LET action == RunNoeLogic(verbs, key, mode)
        IN  IsAction(action) =>
                action.event = [NameOf(Unfolded(verbs, key)) EXCEPT
                                    !.outcome = Observed(verbs, key, mode)]

(* Whatever strict mode proposes, partial mode proposes as well, with the    *)
(* same hashes and the same observation; strict mode only refuses.           *)
StrictAgreesWithPartial ==
    \A verbs \in Chains, key \in Literals :
        LET action == RunNoeLogic(verbs, key, "strict")
        IN  IsAction(action) => RunNoeLogic(verbs, key, "partial") = action

=============================================================================
