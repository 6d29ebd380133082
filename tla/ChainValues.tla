----------------------------- MODULE ChainValues -----------------------------
(***************************************************************************)
(* The values the evaluator of noe/noe_parser.py computes with, and the    *)
(* contexts it reads.  A value carries what the code asks of it:           *)
(*   d      its domain                                                     *)
(*   t      what _to_trit makes of it                                      *)
(*   items  the members of a list, or the value a literal stands for       *)
(*   key    the key of a literal                                           *)
(*   acts   the targets of the actions in it                               *)
(*   sound  whether it is an action clause (is_valid_action_structure)     *)
(*   bad    whether there is an error in it                                *)
(* so that no operator has to descend into a list again.                   *)
(***************************************************************************)
EXTENDS Kleene, Naturals, Sequences

CONSTANTS
    Keys,      \* the literals a chain may name
    NoKey      \* the key of what is not a literal

Value(d, t, items, key, acts, sound, bad) ==
    [d |-> d, t |-> t, items |-> items, key |-> key, acts |-> acts,
     sound |-> sound, bad |-> bad]

\* "undefined", _U and the undefined domain: is_undef takes them for one.
Undefined == Value("undefined", "U", <<>>, NoKey, {}, FALSE, FALSE)

Truth(t) == Value("truth", t, <<>>, NoKey, {}, FALSE, FALSE)

Failure == Value("error", "U", <<>>, NoKey, {}, TRUE, TRUE)

\* A literal is not a truth value until an operator unwraps it.
Literal(k, v) == Value("literal", "U", <<v>>, k, {}, FALSE, FALSE)

Action(target) == Value("action", "U", <<>>, NoKey, {target}, TRUE, FALSE)

\* _to_trit unwraps a list of one.
List(s) ==
    Value("list", IF Len(s) = 1 THEN s[1].t ELSE "U", s, NoKey,
          UNION {s[i].acts : i \in DOMAIN s},
          \A i \in DOMAIN s : s[i].sound,
          \E i \in DOMAIN s : s[i].bad)

Unwrap(v) == IF v.d = "literal" THEN v.items[1] ELSE v

-----------------------------------------------------------------------------

Maybe == {"T", "F", "none"}   \* a key's entry in a map, or its absence

\* strict: the mode; lit, know, bel: C.literals, C.modal.knowledge and
\* C.modal.belief, whose entries are truth values; rated: it has an entry in
\* C.modal.certainty; certain: that is at or over the threshold; threshold: certainty_threshold is given; spatial, audit:
\* the shard is there; stale: compute_stale_flag.
Context ==
    [strict: BOOLEAN, lit: [Keys -> Maybe], know: [Keys -> Maybe],
     bel: [Keys -> Maybe], rated: [Keys -> BOOLEAN], certain: [Keys -> BOOLEAN],
     threshold: BOOLEAN,
     spatial: BOOLEAN, audit: BOOLEAN, stale: BOOLEAN]

\* The first map that has an entry decides.
FirstOf(a, b) == IF a # "none" THEN a ELSE b

\* Variant: a missing key is looked up as it is.
SaysRaw(entry) == entry

\* What a map says of a key, as a truth value.
Says(entry) == IF entry = "none" THEN "U" ELSE entry

=============================================================================
