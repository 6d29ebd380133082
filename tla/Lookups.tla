------------------------------ MODULE Lookups ------------------------------
(* What a chain may ask of a context: who is meant by dia and doq, where     *)
(* things are, when events happen, how things are related and what the       *)
(* values allow (src/noe/noe_parser.py, src/noe/noe_validator.py).           *)
(*                                                                           *)
(* An evaluation is a function of the context, and every operator here is    *)
(* one of c, the record                                                      *)
(*   now, stamp  temporal.now, and the local.timestamp of the last report    *)
(*   events      temporal.events: when each event is due                     *)
(*   entities    what is reported of each entity                             *)
(*   bindings    the demonstratives shard                                    *)
(*   setting     literals, spatial, axioms, rel, and whether there is a      *)
(*               temporal shard                                              *)
EXTENDS Kleene, Integers

CONSTANTS
    Names,       \* the strings of a context: keys, entity ids, events and rules
    At,          \* those of them that begin with an at sign
    Keys,        \* the literals of a chain, as canonical_literal_key writes them
    Entities,    \* ids under which entities may be reported
    Events,      \* names of temporal.events
    Places,      \* where things may be, <<x, y, z>>
    Figures,     \* numbers that occur in chains
    Nothing,     \* what is missing
    MaxSkewMs      \* temporal.max_skew_ms

ASSUME NamesAreNames == At \union Keys \union Entities \union Events \subseteq Names
ASSUME KeysAreBare == Keys \intersect At = {}
ASSUME EventsAreAt == Events \subseteq At
ASSUME SkewIsNatural == MaxSkewMs \in Nat

Modes == {"strict", "partial"}

-----------------------------------------------------------------------------
(* Values.                                                                   *)

Truth(t) == [type |-> "truth", is |-> t]
Name(n) == [type |-> "name", is |-> n]
Number(n) == [type |-> "number", is |-> n]
Deed(n) == [type |-> "action", is |-> n]      \* an action, by the name it aims at
Undefined == [type |-> "undefined"]
Raised == [type |-> "raised"]
Error(code) == [type |-> "error", code |-> code]

Decide(b) == Truth(IF b THEN "T" ELSE "F")

\* _to_trit: a number is true unless it is zero.
Trit(v) ==
    CASE v.type = "truth"  -> v.is
      [] v.type = "number" -> IF v.is # 0 THEN "T" ELSE "F"
      [] v.type \notin {"truth", "number"} -> "U"

-----------------------------------------------------------------------------
(* The context, as the evaluator reads it.                                   *)

\* DEFAULT_CONTEXT_PARTIAL["spatial"].
DefaultSpatial ==
    [near |-> 1, far |-> 10, orientation |-> [target |-> Nothing, tolerance |-> Nothing],
     v_min |-> 0, d_min |-> 0]

\* Variant, to see that StrictOnlyRefuses depends on it: the defaults are merged over what
\* is given.
SpatialOverlaid(mode, c) ==
    IF mode = "strict" \/ c.setting.spatial = Nothing
    THEN IF mode = "strict" THEN c.setting.spatial ELSE DefaultSpatial
    ELSE [c.setting.spatial EXCEPT !.near = DefaultSpatial.near, !.far = DefaultSpatial.far]

\* _get_context_field("spatial"): a default stands in for the whole shard only.
Spatial(mode, c) ==
    IF mode = "partial" /\ c.setting.spatial = Nothing THEN DefaultSpatial ELSE c.setting.spatial

\* A field of an entity; the entity itself may be unknown.
Field(n, f, c) ==
    IF n \notin Entities THEN Nothing
    ELSE IF c.entities[n] = Nothing THEN Nothing ELSE c.entities[n][f]

\* Variant, to see that DemonstrativeHolds depends on it: the binding of an entity that is
\* gone is passed over.
BindingFresh(word, c) ==
    LET entry == IF c.bindings[word] # Nothing THEN c.bindings[word]
                 ELSE c.bindings[IF word = "dia" THEN "proximal" ELSE "distal"]
    IN  IF entry \in Entities /\ c.entities[entry] # Nothing THEN entry ELSE Nothing

\* What a demonstrative is bound to, by its own name or else by its role.
Binding(word, c) ==
    IF c.bindings[word] # Nothing THEN c.bindings[word]
    ELSE c.bindings[IF word = "dia" THEN "proximal" ELSE "distal"]

\* The threshold of a demonstrative.
Reach(word, mode, c) == Spatial(mode, c)[IF word = "dia" THEN "near" ELSE "far"]

\* What is in reach of dia, or out of reach of doq.
Eligible(word, limit, c) ==
    {n \in Entities :
        /\ Field(n, "distance", c) # Nothing
        /\ IF word = "dia" THEN Field(n, "distance", c) <= limit ELSE Field(n, "distance", c) >= limit}

\* What the distances single out, if they single out one.
Unique(word, limit, c) ==
    IF limit # Nothing /\ \E n \in Entities : Eligible(word, limit, c) = {n}
    THEN Name(CHOOSE n \in Entities : Eligible(word, limit, c) = {n}) ELSE Undefined

\* visit_demonstrative: a binding to an entity that is gone is not replaced.
Demonstrative(word, mode, c) ==
    IF c.bindings = Nothing THEN Undefined
    ELSE IF Binding(word, c) # Nothing
    THEN IF Binding(word, c) \in Entities /\ c.entities[Binding(word, c)] # Nothing
         THEN Name(Binding(word, c)) ELSE Undefined
    ELSE IF Spatial(mode, c) = Nothing THEN Undefined
    ELSE Unique(word, Reach(word, mode, c), c)

\* Operands are demonstratives and literals; a comparison has a number on its right, since
\* its sign has to be followed by a letter or a digit.
Demonstratives == {"dia", "doq"}
Operands == [form : {"demonstrative"}, word : Demonstratives] \union [form : {"literal"}, key : Keys]
Figure(n) == [form |-> "number", is |-> n]

\* visit_literal: what a missing literal means is undefined.
Operand(x, mode, c) ==
    CASE x.form = "demonstrative" -> Demonstrative(x.word, mode, c)
      [] x.form = "number" -> Number(x.is)
      [] x.form = "literal" ->
            IF c.setting.literals[x.key] = Nothing THEN Undefined ELSE c.setting.literals[x.key]

-----------------------------------------------------------------------------
(* Where things are. A literal stands for the entity of its own key, which   *)
(* has no at sign; a demonstrative stands for one whose id has one.          *)

SpatialOps == {"nel", "tel", "xel", "en", "tra", "fra"}

EntityKey(x, mode, c) ==
    CASE x.form = "literal" -> x.key
      [] x.form = "demonstrative" ->
            LET dem == Demonstrative(x.word, mode, c)
            IN  IF dem # Undefined /\ dem.is \in At THEN dem.is ELSE Nothing

\* A position in the form the operator reads: a list, or a map of x, y and z.
Position(n, form, c) ==
    IF Field(n, "form", c) = form THEN Field(n, "position", c) ELSE Nothing

\* check_grounding reads the context without defaults.
Grounded(op, left, right, mode, c) ==
    LET given == c.setting.spatial
        args  == {EntityKey(x, mode, c) : x \in {y \in {left, right} : y.form = "demonstrative"}}
    IN  /\ op = "nel" => given # Nothing /\ given.near # Nothing
        /\ op = "tel" => given # Nothing /\ given.far # Nothing
        /\ op = "xel" => /\ given # Nothing /\ given.orientation # Nothing
                         /\ Nothing \notin {given.orientation.target, given.orientation.tolerance}
        /\ op \in SpatialOps => \A n \in args \ {Nothing} : Field(n, "position", c) # Nothing

\* Variant, to see that TowardsApproaches depends on it: measured from the right.
Backward(p, q) == <<p[1] - q[1], p[2] - q[2]>>

\* From the left to the right.
Between(p, q) == <<q[1] - p[1], q[2] - p[2]>>

Dot(v, w) == v[1] * w[1] + v[2] * w[2]
Abs(n) == IF n < 0 THEN -n ELSE n

\* atan2 in degrees, for the eight bearings that Places allow.
Bearing(v) ==
    CASE v[1] >= 0 /\ v[2] = 0 -> 0
      [] v[1] > 0 /\ v[2] > 0  -> 45
      [] v[1] = 0 /\ v[2] > 0  -> 90
      [] v[1] < 0 /\ v[2] > 0  -> 135
      [] v[1] < 0 /\ v[2] = 0  -> 180
      [] v[1] < 0 /\ v[2] < 0  -> -135
      [] v[1] = 0 /\ v[2] < 0  -> -90
      [] v[1] > 0 /\ v[2] < 0  -> -45

ASSUME EightBearings ==
    \A p, q \in Places : LET v == Between(p, q)
                         IN  v[1] = 0 \/ v[2] = 0 \/ Abs(v[1]) = Abs(v[2])

\* xel: the angle of the way, turned to at most half a circle.
Aligned(way, orientation) ==
    LET diff == Abs(Bearing(way) - orientation.target) % 360
    IN  (IF diff > 180 THEN 360 - diff ELSE diff) <= orientation.tolerance

\* A length, given by its square, against a number, which may be negative.
AtMost(square, n) == n >= 0 /\ square <= n * n
AtLeast(square, n) == n <= 0 \/ square >= n * n

\* tra and fra: the velocity is within 45 degrees of the way, or of the way back. What
\* stands still, or on the spot, divides by zero unless the cone rules it out.
Directed(op, way, velocity, spatial) ==
    LET cosine == Dot(velocity, way)
        Apart2 == Dot(way, way)
        Speed2 == Dot(velocity, velocity)
        Known  == /\ velocity # Nothing
                  /\ AtLeast(Apart2, spatial.d_min)
                  /\ AtLeast(Speed2, spatial.v_min)
    IN  IF ~Known THEN Undefined
        ELSE IF 0 \in {Apart2, Speed2} THEN Raised
        ELSE Decide(/\ IF op = "tra" THEN cosine > 0 ELSE cosine < 0
                    /\ 2 * cosine * cosine >= Apart2 * Speed2)

\* A distance against a limit that may not be a number.
Within(way, limit) ==
    IF limit = Nothing THEN Undefined ELSE Decide(AtMost(Dot(way, way), limit))
Beyond(way, limit) ==
    IF limit = Nothing THEN Undefined ELSE Decide(AtLeast(Dot(way, way), limit))

Located(op, left, right, mode, c) ==
    LET l == EntityKey(left, mode, c)
        r == EntityKey(right, mode, c)
        spatial == Spatial(mode, c)
        p == Position(l, "list", c)
        q == Position(r, "list", c)
        way == Between(p, q)
    IN  IF Nothing \in {l, r, p, q} \/ spatial = Nothing THEN Undefined
        ELSE CASE op = "nel" -> Within(way, spatial.near)
               [] op = "tel" -> Beyond(way, spatial.far)
               [] op = "en"  -> Within(way, Field(r, "radius", c))
               [] op = "xel" -> Decide(Aligned(way, spatial.orientation))
               [] op \in {"tra", "fra"} -> Directed(op, way, Field(l, "velocity", c), spatial)

-----------------------------------------------------------------------------
(* When events happen, what values allow, how things compare and relate.     *)

TemporalOps == {"nau", "ret", "tri", "qer"}

\* The event that a value names, or that an action aims at; defaults have no events.
Due(v, c) ==
    IF c.setting.temporal /\ v.type \in {"name", "action"} THEN
        IF v.is \in Events THEN c.events[v.is] ELSE Nothing
    ELSE Nothing

\* nau, ret, tri and qer: without an event, nau and qer pass a truth on.
Timed(op, v, c) ==
    IF Due(v, c) # Nothing
    THEN Decide(CASE op = "nau" -> Due(v, c) = c.now
                  [] op = "ret" -> Due(v, c) < c.now
                  [] op = "tri" -> Due(v, c) > c.now
                  [] op = "qer" -> TRUE)
    ELSE IF op \in {"nau", "qer"} /\ Trit(v) # "U" THEN Truth(Trit(v)) ELSE Undefined

\* tor: a truth stands; anything else has to be in the value system by name.
Allowed(v, c) ==
    IF Trit(v) # "U" THEN Truth(Trit(v))
    ELSE IF v.type # "name" \/ c.setting.axioms = Nothing THEN Undefined
    ELSE IF v.is \in c.setting.axioms.accepted \union c.setting.axioms.rejected
    THEN Decide(v.is \in c.setting.axioms.accepted)
    ELSE Undefined

Comparisons == {"<", ">", "<=", ">=", "="}

\* A truth counts as one or zero.
Comparable(v) == v.type \in {"number", "truth"}
AsNumber(v) == IF v.type = "number" THEN v.is ELSE IF v.is = "T" THEN 1 ELSE 0

Compared(op, v, w) ==
    IF ~Comparable(v) \/ ~Comparable(w) THEN Undefined
    ELSE LET a == AsNumber(v)  b == AsNumber(w)
         IN  Decide(CASE op = "<" -> a < b  [] op = ">"  -> a > b  [] op = "<=" -> a <= b
                      [] op = ">=" -> a >= b [] op = "=" -> a = b)

RelationOps == {"kos", "til", "rel"}

Row(op, v, w, c) == {r \in c.setting.rel : r.op = op /\ r.left = v /\ r.right = w}

\* Variant, to see that LearningNeverReverses depends on it: what the table does not say is
\* false.
RelatedClosed(op, v, w, c) == Decide(\E r \in Row(op, v, w, c) : r.holds)

\* kos, til and rel look the values of literals up, not their keys.
Related(op, v, w, c) ==
    IF Row(op, v, w, c) = {} THEN Undefined ELSE Decide(\E r \in Row(op, v, w, c) : r.holds)

AxisOps == {"lef", "rai", "sup", "bel", "fai", "ban"}
Axis(op) == CASE op \in {"lef", "rai"} -> 1 [] op \in {"fai", "ban"} -> 2 [] op \in {"sup", "bel"} -> 3

\* lef to ban compare along an axis, by the names that the operands hold.
Beside(op, v, w, c) ==
    IF v.type # "name" \/ w.type # "name" THEN Undefined
    ELSE LET p == Position(v.is, "map", c)  q == Position(w.is, "map", c)
         IN  IF Nothing \in {p, q} THEN Undefined
             ELSE Decide(IF op \in {"lef", "bel", "ban"} THEN p[Axis(op)] < q[Axis(op)]
                                                          ELSE p[Axis(op)] > q[Axis(op)])

-----------------------------------------------------------------------------
(* Chains of one operator, and what they mean.                               *)

UnaryOps == TemporalOps \union {"tor"}

\* A unary chain has its operand twice.
Chains ==
    [op : SpatialOps \union RelationOps \union AxisOps, left : Operands, right : Operands]
        \union {[op |-> c, left |-> x, right |-> Figure(n)] :
                    c \in Comparisons, x \in Operands, n \in Figures}
        \union {[op |-> u, left |-> x, right |-> x] : u \in UnaryOps, x \in Operands}

\* _ensure_context_for_op: the defaults have a clock and an empty value system.
Ensured(op, mode, c) ==
    \/ mode = "partial"
    \/ op \in TemporalOps /\ c.setting.temporal
    \/ op = "tor" /\ c.setting.axioms # Nothing

\* _apply_unary_op.
Unary(op, x, mode, c) ==
    IF ~Ensured(op, mode, c) THEN Undefined
    ELSE IF op = "tor" THEN Allowed(Operand(x, mode, c), c) ELSE Timed(op, Operand(x, mode, c), c)

\* _apply_binary_op, for what is neither a connective nor a request.
Binary(op, left, right, mode, c) ==
    LET v == Operand(left, mode, c)
        w == Operand(right, mode, c)
    IN  IF Undefined \in {v, w} \/ ~Grounded(op, left, right, mode, c) THEN Undefined
        ELSE CASE op \in SpatialOps  -> Located(op, left, right, mode, c)
               [] op \in Comparisons -> Compared(op, v, w)
               [] op \in RelationOps -> Related(op, v, w, c)
               [] op \in AxisOps     -> Beside(op, v, w, c)

Meaning(chain, mode, c) ==
    IF chain.op \in UnaryOps THEN Unary(chain.op, chain.left, mode, c)
                             ELSE Binary(chain.op, chain.left, chain.right, mode, c)

\* compute_stale_flag.
Stale(c) == c.setting.temporal /\ c.now - c.stamp > MaxSkewMs

Points(chain) == \E x \in {chain.left, chain.right} : x.form = "demonstrative"

\* Both near and far, and an orientation, for dia as for doq.
Pointable(c) ==
    /\ c.setting.spatial # Nothing
    /\ Nothing \notin {c.setting.spatial.near, c.setting.spatial.far, c.setting.spatial.orientation}

\* What validate_chain finds wrong in strict mode.
Violations(chain, c) ==
    {code \in {"ERR_CONTEXT_INCOMPLETE", "ERR_CONTEXT_STALE", "ERR_DEMONSTRATIVE_UNGROUNDED",
               "ERR_SPATIAL_UNGROUNDABLE", "ERR_LITERAL_MISSING"} :
        \/ code = "ERR_CONTEXT_INCOMPLETE" /\ (~c.setting.temporal \/ c.setting.axioms = Nothing)
        \/ code = "ERR_CONTEXT_STALE" /\ Stale(c)
        \/ code = "ERR_DEMONSTRATIVE_UNGROUNDED" /\ Points(chain) /\ ~Pointable(c)
        \/ /\ code = "ERR_SPATIAL_UNGROUNDABLE"
           /\ Points(chain) \/ chain.op \in SpatialOps
           /\ c.setting.spatial = Nothing
        \/ /\ code = "ERR_LITERAL_MISSING"
           /\ \E x \in {chain.left, chain.right} :
                 x.form = "literal" /\ c.setting.literals[x.key] = Nothing}

\* ERROR_PRIORITY, then the code itself.
Priority(code) ==
    CASE code = "ERR_CONTEXT_INCOMPLETE"       -> 1
      [] code = "ERR_CONTEXT_STALE"            -> 2
      [] code = "ERR_DEMONSTRATIVE_UNGROUNDED" -> 3
      [] code = "ERR_SPATIAL_UNGROUNDABLE"     -> 4
      [] code = "ERR_LITERAL_MISSING"          -> 5

FirstViolation(codes) ==
    CHOOSE code \in codes : \A other \in codes : Priority(code) <= Priority(other)

RunNoeLogic(chain, mode, c) ==
    LET codes  == Violations(chain, c)
        result == Meaning(chain, mode, c)
    IN  IF mode = "strict" /\ codes # {} THEN Error(FirstViolation(codes))
        ELSE IF result = Raised THEN Error("ERR_PARSE_FAILED") ELSE result

=============================================================================
