------------------------- MODULE SafeContext_proofs -------------------------
(***************************************************************************)
(* Proofs about what goes into a context and what is read from it: about   *)
(* SafeContext and the projection it uses, for any predicates, sources,    *)
(* readings, groups and limits, any layers to start from and any readings  *)
(* that come in; and about LookupWorld, the context that chains ask, for   *)
(* any entities, events, reports, bindings and slow layers.                *)
(***************************************************************************)
EXTENDS SafeContext, LookupWorld, TLAPS

-----------------------------------------------------------------------------
(* Lemmas about the projection (pi_safe) *)

\* Two values promoted for one predicate are one value.
LEMMA ProjectionIsFunction ==
    ASSUME NEW rich, NEW now, NEW auth,
           NEW l \in Projection(rich, now, auth), NEW m \in Projection(rich, now, auth),
           l.pred = m.pred
    PROVE  l.value = m.value
<1> DEFINE edge == LeadingEdge(Candidates(rich, now, auth, l.pred))
<1>1. /\ Consistent(edge)
      /\ \E g \in Groups(edge) : l.value \in Says(edge, g)
      /\ \E g \in Groups(edge) : m.value \in Says(edge, g)
    BY DEF Projection
<1> HIDE DEF edge
<1> QED BY <1>1 DEF Consistent

\* A promoted value is that of a candidate at the leading edge, and no comparable
\* value there is another.
LEMMA PromotedIsSaid ==
    ASSUME NEW rich, NEW now, NEW auth, NEW l \in Projection(rich, now, auth)
    PROVE  LET edge == LeadingEdge(Candidates(rich, now, auth, l.pred))
           IN  /\ \E e \in edge : e.value = l.value
               /\ \A f \in edge : f.value \in {l.value, Incomparable}
<1> DEFINE edge == LeadingEdge(Candidates(rich, now, auth, l.pred))
<1>1. Consistent(edge) /\ \E g \in Groups(edge) : l.value \in Says(edge, g)
    BY DEF Projection
<1> HIDE DEF edge
<1>2. PICK g \in Groups(edge) : l.value \in Says(edge, g)
    BY <1>1
<1>3. \E e \in edge : e.value = l.value
    BY <1>2 DEF Says
<1>4. ASSUME NEW f \in edge, f.value # Incomparable PROVE f.value = l.value
    <2>1. Group[f.source] \in Groups(edge) /\ f.value \in Says(edge, Group[f.source])
        BY <1>4 DEF Groups, Says
    <2> QED BY <1>1, <1>2, <2>1 DEF Consistent
<1> QED BY <1>3, <1>4 DEF edge

-----------------------------------------------------------------------------
(* Types *)

LEMMA TopIsTyped ==
    ASSUME TypeOK, NEW p \in Preds, NEW field \in {"literals", "knowledge"}
    PROVE  Top(layers, field, p) \in Readings \cup {Absent}
<1>1. CASE field = "literals"
    BY <1>1 DEF TypeOK, LayersOK, LayerOK, Facts, Top
<1>2. CASE field = "knowledge"
    BY <1>2 DEF TypeOK, LayersOK, LayerOK, Facts, Top
<1> QED BY <1>1, <1>2

LEMMA NowIsTyped == TypeOK => MergedNow(layers) \in Nat
BY DEF TypeOK, LayersOK, LayerOK, MergedNow

\* All evidence that is extracted consists of readings.
LEMMA AnnotatedIsTyped ==
    ASSUME TypeOK
    PROVE  \A e \in Annotated(layers) :
             /\ e \in Entry /\ e.pred \in Preds /\ e.t \in Int
<1>1. ASSUME NEW p \in Preds, Top(layers, "evidence", p) # Absent
      PROVE  Top(layers, "evidence", p) \subseteq Entry
    BY <1>1 DEF TypeOK, LayersOK, LayerOK, Top
<1>2. Annotated(layers) \subseteq Entry
    BY <1>1 DEF Annotated, Extract
<1> QED BY <1>2 DEF Entry

LEMMA OverlayIsTyped ==
    ASSUME TypeOK, NEW field \in {"literals", "knowledge"}
    PROVE  Overlay(layers, field) \in Facts
<1>1. \A l \in Safe(layers) : l.value \in Readings
    BY DEF Safe, Projection, BareLiteral
<1>2. \A p \in Preds : Bare(layers, field, p) \in Readings \cup {Absent}
    BY TopIsTyped DEF Bare
<1> QED BY <1>1, <1>2 DEF Overlay, Facts

LEMMA InitTypeOK == Init => TypeOK
BY SafeContextAssumption DEF Init, TypeOK, NotBuilt

LEMMA BuildKeepsTypes == ASSUME TypeOK, Build PROVE TypeOK'
<1>1. UNCHANGED <<layers, mode>> /\ built' = BuildSafeContext(layers, mode)
    BY DEF Build
<1>2. CASE mode = "strict" /\ Suppressed(layers) # {}
    BY <1>1, <1>2 DEF BuildSafeContext, TypeOK
<1>3. CASE ~(mode = "strict" /\ Suppressed(layers) # {})
    <2>1. built' = [status |-> "ok", safe |-> CSafe(layers),
                    hash |-> [sha256 |-> CSafe(layers)]]
        BY <1>1, <1>3 DEF BuildSafeContext
    <2>2. CSafe(layers).literals \in Facts /\ CSafe(layers).knowledge \in Facts
        BY OverlayIsTyped DEF CSafe
    <2> HIDE DEF CSafe
    <2> QED BY <1>1, <2>1, <2>2 DEF TypeOK
<1> QED BY <1>2, <1>3

LEMMA ReportKeepsTypes == ASSUME TypeOK, NEW e \in Reports, Report(e) PROVE TypeOK'
<1> DEFINE old == layers.local.evidence[e.pred]
           list == {e} \cup (IF old = Absent THEN {} ELSE old)
<1>1. e \in Entry /\ e.pred \in Preds
    BY SafeContextAssumption DEF Entry
<1>2. list \subseteq Entry
    BY <1>1 DEF TypeOK, LayersOK, LayerOK
<1>3. layers' = [layers EXCEPT !.local.evidence[e.pred] = list]
    BY DEF Report
<1> HIDE DEF list
<1>4. LayersOK(layers')
    BY <1>1, <1>2, <1>3 DEF TypeOK, LayersOK, LayerOK
<1> QED BY <1>4 DEF Report, TypeOK

LEMMA TimeKeepsTypes == ASSUME TypeOK, TimePasses PROVE TypeOK'
<1>1. MergedNow(layers) + 1 \in Nat
    BY NowIsTyped
<1>2. LayersOK(layers')
    BY <1>1 DEF TimePasses, TypeOK, LayersOK, LayerOK
<1> QED BY <1>2 DEF TimePasses, TypeOK

LEMMA NextKeepsTypes == TypeOK /\ [Next]_vars => TypeOK'
<1> SUFFICES ASSUME TypeOK, [Next]_vars PROVE TypeOK'
    OBVIOUS
<1>1. CASE Next
    BY <1>1, BuildKeepsTypes, ReportKeepsTypes, TimeKeepsTypes DEF Next
<1>2. CASE UNCHANGED vars
    BY <1>2 DEF vars, TypeOK
<1> QED BY <1>1, <1>2

\* The variables keep their types, whatever is reported (build_safe_context).
THEOREM TypeCorrect == Spec => []TypeOK
BY InitTypeOK, NextKeepsTypes, PTL DEF Spec

-----------------------------------------------------------------------------
(* Admission *)

\* What a build without suppressed evidence says of a predicate with evidence.
LEMMA SaidOfEvidence ==
    ASSUME Suppressed(layers) = {}, NEW p \in {e.pred : e \in Annotated(layers)},
           p \in Preds
    PROVE  \E l \in Safe(layers) :
             /\ l.pred = p
             /\ CSafe(layers).literals[p] = l.value
             /\ CSafe(layers).knowledge[p] = l.value
<1>1. PICK l \in Safe(layers) : l.pred = p
    BY DEF Suppressed
<1> DEFINE c == CHOOSE x \in Safe(layers) : x.pred = p
<1>2. c \in Safe(layers) /\ c.pred = p
    BY <1>1
<1>3. Overlay(layers, "literals")[p] = c.value /\ Overlay(layers, "knowledge")[p] = c.value
    BY <1>1 DEF Overlay
<1>4. CSafe(layers).literals[p] = c.value /\ CSafe(layers).knowledge[p] = c.value
    BY <1>3 DEF CSafe
<1> HIDE DEF c
<1> QED BY <1>2, <1>4

\* A strict build that succeeds says of a predicate with evidence exactly what the
\* newest standing readings say, and they do not contradict one another.
THEOREM StrictAlwaysAdmits == Spec => StrictAdmission
<1>1. TypeOK /\ [Next]_vars =>
        [built' # built /\ built'.status = "ok" /\ mode = "strict" =>
            \A p \in {e.pred : e \in Annotated(layers)} :
                \E e \in Standing(p) :
                    /\ built'.safe.literals[p] = e.value
                    /\ built'.safe.knowledge[p] = e.value
                    /\ \A f \in Standing(p) : f.t - e.t <= TauWindow
                    /\ \A f \in Standing(p) :
                         (\A g \in Standing(p) : g.t - f.t <= TauWindow)
                            => f.value \in {e.value, Incomparable}]_vars
    <2> SUFFICES ASSUME TypeOK, [Next]_vars, built' # built, built'.status = "ok",
                        mode = "strict",
                        NEW p \in {e.pred : e \in Annotated(layers)}
                 PROVE  \E e \in Standing(p) :
                          /\ built'.safe.literals[p] = e.value
                          /\ built'.safe.knowledge[p] = e.value
                          /\ \A f \in Standing(p) : f.t - e.t <= TauWindow
                          /\ \A f \in Standing(p) :
                               (\A g \in Standing(p) : g.t - f.t <= TauWindow)
                                  => f.value \in {e.value, Incomparable}
        OBVIOUS
    <2>1. Build
        BY DEF Next, Report, TimePasses, vars
    <2>2. built' = BuildSafeContext(layers, mode)
        BY <2>1 DEF Build
    <2>3. Suppressed(layers) = {}
        BY <2>2 DEF BuildSafeContext
    <2>4. built'.safe = CSafe(layers)
        BY <2>2, <2>3 DEF BuildSafeContext
    <2>5. p \in Preds
        BY AnnotatedIsTyped
    <2>6. PICK l \in Safe(layers) :
            /\ l.pred = p
            /\ CSafe(layers).literals[p] = l.value
            /\ CSafe(layers).knowledge[p] = l.value
        BY <2>3, <2>5, SaidOfEvidence
    <2> DEFINE edge == LeadingEdge(Standing(p))
    <2>7. /\ \E e \in edge : e.value = l.value
          /\ \A f \in edge : f.value \in {l.value, Incomparable}
        BY <2>6, PromotedIsSaid DEF Safe, Standing
    <2>8. \A e \in Standing(p) :
            e \in edge <=> \A f \in Standing(p) : f.t - e.t <= TauWindow
        BY DEF LeadingEdge
    <2>9. edge \subseteq Standing(p)
        BY DEF LeadingEdge
    <2> HIDE DEF edge
    <2>10. PICK e \in edge : e.value = l.value
        BY <2>7
    <2> QED BY <2>4, <2>6, <2>7, <2>8, <2>9, <2>10
<1> QED BY <1>1, TypeCorrect, PTL DEF Spec, StrictAdmission

-----------------------------------------------------------------------------
(* Ageing *)

\* What leaves by age is older than what stays, so that the leading edge after some
\* time is part of the one before.
LEMMA EdgeOnlyShrinks ==
    ASSUME NEW rich, \A e \in rich : e.t \in Int, NEW auth, NEW p,
           NEW now \in Int, NEW later \in Int, now <= later,
           \A e \in rich : e.t <= now
    PROVE  LeadingEdge(Candidates(rich, later, auth, p))
             \subseteq LeadingEdge(Candidates(rich, now, auth, p))
<1> USE ProjectionAssumption
<1> DEFINE before == Candidates(rich, now, auth, p)
           after == Candidates(rich, later, auth, p)
<1>1. after \subseteq before
    BY DEF Candidates, IsCandidate
<1>2. ASSUME NEW e \in after, NEW f \in before, f \notin after PROVE f.t - e.t <= TauWindow
    <2>1. e.t \in Int /\ f.t \in Int /\ later - e.t <= TauStale
        BY <1>2 DEF Candidates, IsCandidate
    <2>2. later - f.t > TauStale
        BY <1>2 DEF Candidates, IsCandidate
    <2> QED BY <2>1, <2>2
<1> HIDE DEF before, after
<1>3. LeadingEdge(after) \subseteq LeadingEdge(before)
    BY <1>1, <1>2 DEF LeadingEdge
<1> QED BY <1>3 DEF before, after

\* The time of the merge moves by one, and the evidence stays.
LEMMA TimeMovesOnly ==
    ASSUME TypeOK, TimePasses
    PROVE  /\ MergedNow(layers') = MergedNow(layers) + 1
           /\ Annotated(layers') = Annotated(layers)
<1>1. MergedNow(layers) + 1 \in Nat
    BY NowIsTyped
<1>2. /\ layers'.local.now = MergedNow(layers) + 1
      /\ layers'.local.evidence = layers.local.evidence
      /\ layers'.domain = layers.domain /\ layers'.root = layers.root
    BY DEF TimePasses, TypeOK, LayersOK, LayerOK
<1>3. MergedNow(layers') = MergedNow(layers) + 1
    BY <1>1, <1>2, SafeContextAssumption DEF MergedNow
<1>4. \A p \in Preds : Top(layers', "evidence", p) = Top(layers, "evidence", p)
    BY <1>2 DEF Top
<1>5. Annotated(layers') = Annotated(layers)
    BY <1>4 DEF Annotated
<1> QED BY <1>3, <1>5

\* While no reading comes in and none is from the future, the passing of time never
\* changes the value a predicate is trusted with.
THEOREM AgeingIsAlwaysSafe == Spec => AgeingIsSafe
<1>1. TypeOK /\ [Next]_vars =>
        [layers'.local.evidence = layers.local.evidence
         /\ (\A e \in Annotated(layers) : e.t <= MergedNow(layers)) =>
            \A l \in Safe(layers), m \in Safe(layers)' :
                l.pred = m.pred => l.value = m.value]_vars
    <2> SUFFICES ASSUME TypeOK, [Next]_vars,
                        layers'.local.evidence = layers.local.evidence,
                        \A e \in Annotated(layers) : e.t <= MergedNow(layers),
                        NEW l \in Safe(layers), NEW m \in Safe(layers'),
                        l.pred = m.pred
                 PROVE  l.value = m.value
        OBVIOUS
    <2>1. CASE TimePasses
        <3> DEFINE rich == Annotated(layers)
                   now == MergedNow(layers)
                   before == LeadingEdge(Candidates(rich, now, AnySource, l.pred))
                   after == LeadingEdge(Candidates(rich, now + 1, AnySource, l.pred))
        <3>1. m \in Projection(rich, now + 1, AnySource)
            BY <2>1, TimeMovesOnly DEF Safe
        <3>2. PICK e \in after : e.value = m.value
            BY <3>1, PromotedIsSaid
        <3>3. now \in Int /\ \A x \in rich : x.t \in Int
            BY NowIsTyped, AnnotatedIsTyped
        <3>4. after \subseteq before
            BY <3>3, EdgeOnlyShrinks
        <3>5. e.value \in {l.value, Incomparable}
            BY <3>2, <3>4, PromotedIsSaid DEF Safe
        <3>6. m.value # Incomparable
            BY ProjectionAssumption DEF Safe, Projection, BareLiteral
        <3> QED BY <3>2, <3>5, <3>6
    <2>2. CASE layers' = layers
        BY <2>2, ProjectionIsFunction DEF Safe
    <2>3. ASSUME NEW e \in Reports, Report(e) PROVE l.value = m.value
        <3>1. /\ layers'.root = layers.root /\ layers'.domain = layers.domain
              /\ layers'.local.now = layers.local.now
            BY <2>3 DEF Report, TypeOK, LayersOK, LayerOK
        <3>2. MergedNow(layers') = MergedNow(layers)
            BY <3>1 DEF MergedNow
        <3>3. \A p \in Preds : Top(layers', "evidence", p) = Top(layers, "evidence", p)
            BY <3>1 DEF Top
        <3>4. Safe(layers') = Safe(layers)
            BY <3>2, <3>3 DEF Safe, Annotated
        <3> QED BY <3>4, ProjectionIsFunction DEF Safe
    <2> QED BY <2>1, <2>2, <2>3 DEF Next, Build, vars
<1> QED BY <1>1, TypeCorrect, PTL DEF Spec, AgeingIsSafe

-----------------------------------------------------------------------------
(* LookupWorld: what the modes make of a chain *)

\* What a strict context that has no violations gives a chain to ask.
LEMMA NoViolations ==
    ASSUME NEW chain, NEW c, Violations(chain, c) = {}
    PROVE  /\ c.setting.temporal /\ c.setting.axioms # Nothing
           /\ Points(chain) \/ chain.op \in SpatialOps => c.setting.spatial # Nothing
           /\ Points(chain) => Pointable(c)
           /\ \A x \in {chain.left, chain.right} :
                 x.form = "literal" => c.setting.literals[x.key] # Nothing
<1>1. /\ "ERR_CONTEXT_INCOMPLETE" \notin Violations(chain, c)
      /\ "ERR_DEMONSTRATIVE_UNGROUNDED" \notin Violations(chain, c)
      /\ "ERR_SPATIAL_UNGROUNDABLE" \notin Violations(chain, c)
      /\ "ERR_LITERAL_MISSING" \notin Violations(chain, c)
  OBVIOUS
<1>2. /\ "ERR_CONTEXT_INCOMPLETE" \in Violations(chain, c)
            <=> ~c.setting.temporal \/ c.setting.axioms = Nothing
      /\ "ERR_DEMONSTRATIVE_UNGROUNDED" \in Violations(chain, c)
            <=> Points(chain) /\ ~Pointable(c)
      /\ "ERR_SPATIAL_UNGROUNDABLE" \in Violations(chain, c)
            <=> /\ Points(chain) \/ chain.op \in SpatialOps
                /\ c.setting.spatial = Nothing
      /\ "ERR_LITERAL_MISSING" \in Violations(chain, c)
            <=> \E x \in {chain.left, chain.right} :
                   x.form = "literal" /\ c.setting.literals[x.key] = Nothing
  BY DEF Violations
<1> QED BY <1>1, <1>2

BinaryOps == SpatialOps \cup Comparisons \cup RelationOps \cup AxisOps

\* What a chain is made of.
LEMMA ChainForms ==
    ASSUME NEW chain \in Chains
    PROVE  /\ chain.left.form \in {"demonstrative", "literal"}
           /\ chain.right.form \in {"demonstrative", "literal", "number"}
           /\ chain.op \in SpatialOps => chain.right.form \in {"demonstrative", "literal"}
           /\ chain.op \in UnaryOps \cup BinaryOps
BY DEF Chains, BinaryOps, Operands, Figure, SpatialOps, Comparisons,
       UnaryOps, TemporalOps

\* The operands by their form.
LEMMA OperandForms ==
    ASSUME NEW x, NEW how, NEW c
    PROVE  /\ x.form = "demonstrative" =>
                Operand(x, how, c) = Demonstrative(x.word, how, c)
           /\ x.form = "literal" =>
                /\ Operand(x, how, c) =
                      IF c.setting.literals[x.key] = Nothing THEN Undefined
                      ELSE c.setting.literals[x.key]
                /\ EntityKey(x, how, c) = x.key
           /\ x.form = "number" => Operand(x, how, c) = Number(x.is)
           /\ x.form = "demonstrative" =>
                EntityKey(x, how, c) =
                    LET dem == Demonstrative(x.word, how, c)
                    IN  IF dem # Undefined /\ dem.is \in At THEN dem.is ELSE Nothing
BY DEF Operand, EntityKey

\* Where the context has a spatial shard, or is not asked for one, the modes do not
\* differ in what an operand is.
LEMMA OperandInModes ==
    ASSUME NEW x, NEW c, x.form = "demonstrative" => c.setting.spatial # Nothing,
           x.form \in {"demonstrative", "literal", "number"}
    PROVE  /\ Operand(x, "strict", c) = Operand(x, "partial", c)
           /\ x.form # "number" =>
                EntityKey(x, "strict", c) = EntityKey(x, "partial", c)
<1>1. CASE x.form = "demonstrative"
  <2>1. Spatial("strict", c) = Spatial("partial", c)
    BY <1>1 DEF Spatial
  <2>2. Demonstrative(x.word, "strict", c) = Demonstrative(x.word, "partial", c)
    BY <2>1 DEF Demonstrative, Reach
  <2> QED BY <2>2, <1>1, OperandForms
<1>2. CASE x.form \in {"literal", "number"}
  BY <1>2, OperandForms
<1> QED BY <1>1, <1>2

\* What a spatial operator asks, if it can: l and r are the ids of its operands.
CanAsk(l, r, how, c) ==
    /\ Nothing \notin {l, r, Position(l, "list", c), Position(r, "list", c)}
    /\ Spatial(how, c) # Nothing

Way(l, r, c) == Between(Position(l, "list", c), Position(r, "list", c))

LocatedOf(op, l, r, how, c) ==
    IF op = "nel" THEN Within(Way(l, r, c), Spatial(how, c).near)
    ELSE IF op = "tel" THEN Beyond(Way(l, r, c), Spatial(how, c).far)
    ELSE IF op = "en" THEN Within(Way(l, r, c), Field(r, "radius", c))
    ELSE IF op = "xel"
    THEN Decide(Aligned(Way(l, r, c), Spatial(how, c).orientation))
    ELSE Directed(op, Way(l, r, c), Field(l, "velocity", c), Spatial(how, c))

LEMMA LocatedGives ==
    ASSUME NEW op \in SpatialOps, NEW x, NEW y, NEW how, NEW c,
           NEW l, l = EntityKey(x, how, c), NEW r, r = EntityKey(y, how, c)
    PROVE  Located(op, x, y, how, c) =
               IF CanAsk(l, r, how, c) THEN LocatedOf(op, l, r, how, c) ELSE Undefined
<1>1. op \in {"nel", "tel", "en", "xel", "tra", "fra"}
  BY DEF SpatialOps
<1>2. CASE op = "nel"
  BY <1>2 DEF Located, CanAsk, LocatedOf, Way
<1>3. CASE op = "tel"
  BY <1>3 DEF Located, CanAsk, LocatedOf, Way
<1>4. CASE op = "en"
  BY <1>4 DEF Located, CanAsk, LocatedOf, Way
<1>5. CASE op = "xel"
  BY <1>5 DEF Located, CanAsk, LocatedOf, Way
<1>6. CASE op \in {"tra", "fra"}
  BY <1>6 DEF Located, CanAsk, LocatedOf, Way
<1> QED BY <1>1, <1>2, <1>3, <1>4, <1>5, <1>6

\* What a binary operator asks, if its operands are there and grounded.
BinaryOf(op, x, y, how, c) ==
    IF op \in SpatialOps THEN Located(op, x, y, how, c)
    ELSE IF op \in Comparisons
    THEN Compared(op, Operand(x, how, c), Operand(y, how, c))
    ELSE IF op \in RelationOps
    THEN Related(op, Operand(x, how, c), Operand(y, how, c), c)
    ELSE Beside(op, Operand(x, how, c), Operand(y, how, c), c)

Sayable(op, x, y, how, c) ==
    /\ Undefined \notin {Operand(x, how, c), Operand(y, how, c)}
    /\ Grounded(op, x, y, how, c)

LEMMA BinaryGives ==
    ASSUME NEW op \in BinaryOps, NEW x, NEW y, NEW how, NEW c
    PROVE  Binary(op, x, y, how, c) =
               IF Sayable(op, x, y, how, c) THEN BinaryOf(op, x, y, how, c) ELSE Undefined
<1>1. /\ SpatialOps \cap (Comparisons \cup RelationOps \cup AxisOps) = {}
      /\ Comparisons \cap (RelationOps \cup AxisOps) = {}
      /\ RelationOps \cap AxisOps = {}
  BY DEF SpatialOps, Comparisons, RelationOps, AxisOps
<1>2. CASE op \in SpatialOps
  BY <1>1, <1>2 DEF Binary, Sayable, BinaryOf
<1>3. CASE op \in Comparisons
  BY <1>1, <1>3 DEF Binary, Sayable, BinaryOf
<1>4. CASE op \in RelationOps
  BY <1>1, <1>4 DEF Binary, Sayable, BinaryOf
<1>5. CASE op \in AxisOps
  BY <1>1, <1>5 DEF Binary, Sayable, BinaryOf
<1> QED BY <1>2, <1>3, <1>4, <1>5 DEF BinaryOps

LEMMA SameMeaning ==
    ASSUME NEW chain \in Chains, NEW c, Violations(chain, c) = {}
    PROVE  Meaning(chain, "strict", c) = Meaning(chain, "partial", c)
<1>1. /\ c.setting.temporal /\ c.setting.axioms # Nothing
      /\ Points(chain) \/ chain.op \in SpatialOps => c.setting.spatial # Nothing
  BY NoViolations
<1>2. PICK op, x, y : op = chain.op /\ x = chain.left /\ y = chain.right
  OBVIOUS
<1>3. /\ Operand(x, "strict", c) = Operand(x, "partial", c)
      /\ Operand(y, "strict", c) = Operand(y, "partial", c)
      /\ EntityKey(x, "strict", c) = EntityKey(x, "partial", c)
      /\ y.form # "number" => EntityKey(y, "strict", c) = EntityKey(y, "partial", c)
  <2>1. \A z \in {x, y} : z.form = "demonstrative" => c.setting.spatial # Nothing
    BY <1>1, <1>2 DEF Points
  <2>2. x.form \in {"demonstrative", "literal"} /\ y.form \in {"demonstrative", "literal", "number"}
    BY <1>2, ChainForms
  <2> QED BY <2>1, <2>2, OperandInModes
<1>4. CASE op \in UnaryOps
  <2>1. op \in TemporalOps \/ op = "tor"
    BY <1>4 DEF UnaryOps
  <2>2. Ensured(op, "strict", c) /\ Ensured(op, "partial", c)
    BY <1>1, <2>1 DEF Ensured
  <2>3. Unary(op, x, "strict", c) = Unary(op, x, "partial", c)
    BY <1>3, <2>2 DEF Unary
  <2> QED BY <1>2, <1>4, <2>3 DEF Meaning
<1>5. CASE op \notin UnaryOps
  <2>1. Grounded(op, x, y, "strict", c) = Grounded(op, x, y, "partial", c)
    <3>1. \A z \in {w \in {x, y} : w.form = "demonstrative"} :
             EntityKey(z, "strict", c) = EntityKey(z, "partial", c)
      BY <1>3
    <3>2. {EntityKey(z, "strict", c) : z \in {w \in {x, y} : w.form = "demonstrative"}}
          = {EntityKey(z, "partial", c) : z \in {w \in {x, y} : w.form = "demonstrative"}}
      BY <3>1
    <3> QED BY <3>2, Zenon DEF Grounded
  <2>2. op \in SpatialOps =>
          Located(op, x, y, "strict", c) = Located(op, x, y, "partial", c)
    <3> SUFFICES ASSUME op \in SpatialOps
                 PROVE  Located(op, x, y, "strict", c) = Located(op, x, y, "partial", c)
      OBVIOUS
    <3>1. Spatial("strict", c) = Spatial("partial", c)
      BY <1>1, <1>2 DEF Spatial
    <3>2. y.form # "number"
      BY <1>2, ChainForms
    <3>3. PICK l, r : l = EntityKey(x, "strict", c) /\ r = EntityKey(y, "strict", c)
      OBVIOUS
    <3>4. CanAsk(l, r, "strict", c) <=> CanAsk(l, r, "partial", c)
      BY <3>1 DEF CanAsk
    <3>5. LocatedOf(op, l, r, "strict", c) = LocatedOf(op, l, r, "partial", c)
      BY <3>1 DEF LocatedOf
    <3> QED BY <1>3, <3>2, <3>3, <3>4, <3>5, LocatedGives
  <2>3. Sayable(op, x, y, "strict", c) <=> Sayable(op, x, y, "partial", c)
    BY <1>3, <2>1 DEF Sayable
  <2>4. BinaryOf(op, x, y, "strict", c) = BinaryOf(op, x, y, "partial", c)
    BY <1>3, <2>2 DEF BinaryOf
  <2>5. op \in BinaryOps
    BY <1>2, <1>5, ChainForms
  <2>6. Binary(op, x, y, "strict", c) = Binary(op, x, y, "partial", c)
    BY <2>3, <2>4, <2>5, BinaryGives
  <2> QED BY <1>2, <1>5, <2>6 DEF Meaning
<1> QED BY <1>4, <1>5

\* Strict mode answers as partial mode does, or refuses.
LEMMA ModesAgree ==
    ASSUME NEW chain \in Chains, NEW c, RunNoeLogic(chain, "strict", c).type = "truth"
    PROVE  RunNoeLogic(chain, "partial", c) = RunNoeLogic(chain, "strict", c)
<1>1. Violations(chain, c) = {}
  BY DEF RunNoeLogic, Error
<1>2. Meaning(chain, "strict", c) = Meaning(chain, "partial", c)
  BY <1>1, SameMeaning
<1> QED BY <1>1, <1>2 DEF RunNoeLogic

\* What a chain of one operator answers in strict mode it answers in partial mode as
\* well, with or without the defaults that partial mode reads.
THEOREM StrictLookupsOnlyRefuse == WorldSpec => []StrictOnlyRefuses
<1>1. StrictOnlyRefuses
  BY ModesAgree DEF StrictOnlyRefuses
<1> QED BY <1>1, PTL

-----------------------------------------------------------------------------
(* The context between evaluations *)

ContextOK(c) ==
    /\ c = [now |-> c.now, stamp |-> c.stamp, events |-> c.events, entities |-> c.entities,
            bindings |-> c.bindings, setting |-> c.setting]
    /\ c.now \in Nat
    /\ DOMAIN c.entities = Entities /\ c.entities = [n \in Entities |-> c.entities[n]]
    /\ \A n \in Entities : c.entities[n] # Nothing => c.entities[n] \in EntityReports
    /\ c.events \in [Events -> Given(Times)]
    /\ c.setting \in Settings

\* A report of n is all that the second context has more than the first.
Reported(c, d, n) ==
    /\ \A m \in Entities \ {n} : d.entities[m] = c.entities[m]
    /\ d.entities[n] # Nothing => d.entities[n] \in EntityReports
    /\ d.setting = c.setting /\ d.now = c.now

\* A report does not change the rest of the context.
LEMMA ReportGives ==
    ASSUME ContextOK(context), NEW n \in Entities, NEW report,
           report # Nothing => report \in EntityReports, ReportEntity(n, report)
    PROVE  /\ ContextOK(context') /\ Reported(context, context', n)
           /\ context'.entities[n] = report
<1>1. PICK e : e = [context.entities EXCEPT ![n] = report]
  OBVIOUS
<1>2. context' = [now |-> context.now, stamp |-> context.now, events |-> context.events,
                  entities |-> e, bindings |-> context.bindings, setting |-> context.setting]
  BY <1>1 DEF ContextOK, ReportEntity
<1>3. /\ DOMAIN e = Entities /\ e[n] = report
      /\ \A m \in Entities \ {n} : e[m] = context.entities[m]
      /\ e = [m \in Entities |-> e[m]]
  BY <1>1 DEF ContextOK
<1>4. Reported(context, context', n)
  BY <1>2, <1>3 DEF Reported
<1>5. ContextOK(context')
  BY <1>2, <1>3 DEF ContextOK
<1> QED BY <1>2, <1>3, <1>4, <1>5

\* What an entity that moves is reported as.
LEMMA MovedIsReport ==
    ASSUME ContextOK(context), NEW n \in Entities, Move(n)
    PROVE  /\ context.entities[n] # Nothing /\ context.entities[n] \in EntityReports
           /\ Moved(context.entities[n]) \in EntityReports
<1>1. /\ Field(n, "position", context) # Nothing
      /\ Moved(context.entities[n]).position \in Places
  BY DEF Move
<1>2. context.entities[n] # Nothing /\ context.entities[n] \in EntityReports
  BY <1>1 DEF Field, ContextOK
<1>3. PICK r : r = context.entities[n]
  OBVIOUS
<1>4. /\ r = [form |-> r.form, position |-> r.position, velocity |-> r.velocity,
                distance |-> r.distance, radius |-> r.radius]
      /\ r.form \in {"list", "map"} /\ r.velocity \in Given(Int \X Int)
      /\ r.distance \in Given(Int) /\ r.radius \in Given(Int)
  BY <1>2, <1>3 DEF EntityReports
<1>5. Moved(r) \in EntityReports
  <2>1. PICK q : Moved(r) = [r EXCEPT !.position = q]
    BY DEF Moved
  <2>2. q \in Places
    BY <1>1, <1>3, <1>4, <2>1
  <2>3. Moved(r) = [form |-> r.form, position |-> q, velocity |-> r.velocity,
                          distance |-> r.distance, radius |-> r.radius]
    BY <1>4, <2>1
  <2> QED BY <1>4, <2>2, <2>3 DEF EntityReports, Given
<1> QED BY <1>2, <1>3, <1>5

\* A write says of every entity what may be said of it.
LEMMA WriteGives == ASSUME ContextOK(context), Write PROVE ContextOK(context')
<1>1. PICK reports \in Scenes, events \in [Events -> Given(Times)], bindings \in Given(Bindings),
           setting \in Settings, stamp \in {context.stamp, context.now} :
         context' = [now |-> context.now, stamp |-> stamp, events |-> events,
                     entities |-> reports, bindings |-> bindings, setting |-> setting]
  BY DEF Write
<1>2. /\ DOMAIN reports = Entities /\ reports = [n \in Entities |-> reports[n]]
      /\ \A n \in Entities : reports[n] # Nothing => reports[n] \in EntityReports
  BY <1>1, WorldAssumption DEF Scenes, Given
<1> QED BY <1>1, <1>2 DEF ContextOK

\* Every step leaves a context behind.
LEMMA StepGives ==
    ASSUME ContextOK(context), [WorldNext]_context
    PROVE  ContextOK(context')
<1>1. CASE Write
  BY <1>1, WriteGives
<1>2. CASE \E n \in Entities : Move(n)
  <2>1. PICK n \in Entities : Move(n)
    BY <1>2
  <2>2. ReportEntity(n, Moved(context.entities[n]))
    BY <2>1 DEF Move
  <2> QED BY <2>1, <2>2, MovedIsReport, ReportGives
<1>3. CASE Tick
  <2>1. context' = [context EXCEPT !.now = context.now + 1]
    BY <1>3 DEF Tick
  <2> QED BY <2>1 DEF ContextOK
<1>4. CASE UNCHANGED context
  BY <1>4 DEF ContextOK
<1> QED BY <1>1, <1>2, <1>3, <1>4 DEF WorldNext

THEOREM ContextInvariant == WorldSpec => []ContextOK(context)
<1>1. WorldInit => ContextOK(context)
  BY DEF WorldInit, Given, ContextOK
<1>2. ContextOK(context) /\ [WorldNext]_context => ContextOK(context)'
  BY StepGives DEF ContextOK
<1> QED BY <1>1, <1>2, PTL DEF WorldSpec

-----------------------------------------------------------------------------
(* Demonstratives *)

\* A shard, or the default that stands in for it.
LEMMA SpatialTyped ==
    ASSUME NEW how, NEW c, ContextOK(c), Spatial(how, c) # Nothing
    PROVE  Spatial(how, c) \in Shards
<1>1. DefaultSpatial \in Shards
  BY DEF Shards, DefaultSpatial, Given
<1>2. c.setting.spatial # Nothing => c.setting.spatial \in Shards
  BY WorldAssumption DEF Given, ContextOK
<1> QED BY <1>1, <1>2 DEF Spatial

\* What the distances single out is the only candidate.
LEMMA UniqueGives ==
    ASSUME NEW word, NEW limit, NEW c, Unique(word, limit, c) # Undefined
    PROVE  /\ limit # Nothing
           /\ \E a \in Entities : /\ Eligible(word, limit, c) = {a}
                                  /\ Unique(word, limit, c) = Name(a)
<1>1. /\ limit # Nothing /\ \E n \in Entities : Eligible(word, limit, c) = {n}
      /\ Unique(word, limit, c) =
            Name(CHOOSE n \in Entities : Eligible(word, limit, c) = {n})
  BY DEF Unique
<1> QED BY <1>1

\* What n's distance to a limit may be.
LEMMA DistanceTyped ==
    ASSUME NEW c, ContextOK(c), NEW n \in Entities
    PROVE  Field(n, "distance", c) = Nothing \/ Field(n, "distance", c) \in Int
BY DEF Field, ContextOK, EntityReports, Given

\* If a is the only candidate and then b, one of them is at another distance, and both
\* are if the limit is the same: a limit that lets a go does not take b in.
LEMMA CandidatesCut ==
    ASSUME NEW word, NEW c, NEW d, ContextOK(c), ContextOK(d), NEW l \in Int, NEW k \in Int,
           NEW a \in Entities, NEW b \in Entities, a # b,
           Eligible(word, l, c) = {a}, Eligible(word, k, d) = {b}
    PROVE  /\ \/ Field(a, "distance", d) # Field(a, "distance", c)
              \/ Field(b, "distance", d) # Field(b, "distance", c)
           /\ k = l => /\ Field(a, "distance", d) # Field(a, "distance", c)
                       /\ Field(b, "distance", d) # Field(b, "distance", c)
<1>1. PICK ac, ad, bc, bd : /\ ac = Field(a, "distance", c) /\ ad = Field(a, "distance", d)
                            /\ bc = Field(b, "distance", c) /\ bd = Field(b, "distance", d)
  OBVIOUS
<1>2. /\ ac \in Int /\ bd \in Int
      /\ ad = Nothing \/ ad \in Int
      /\ bc = Nothing \/ bc \in Int
  BY <1>1, DistanceTyped DEF Eligible
<1>3. Nothing \notin Int
  BY WorldAssumption
<1>4. a \in Eligible(word, l, c) /\ a \notin Eligible(word, k, d)
  OBVIOUS
<1>5. b \notin Eligible(word, l, c) /\ b \in Eligible(word, k, d)
  OBVIOUS
<1>6. CASE word = "dia"
  <2>1. ac <= l /\ bd <= k /\ (ad # Nothing => ~(ad <= k)) /\ (bc # Nothing => ~(bc <= l))
    BY <1>1, <1>4, <1>5, <1>6 DEF Eligible
  <2> QED BY <1>1, <1>2, <1>3, <2>1
<1>7. CASE word # "dia"
  <2>1. ac >= l /\ bd >= k /\ (ad # Nothing => ~(ad >= k)) /\ (bc # Nothing => ~(bc >= l))
    BY <1>1, <1>4, <1>5, <1>7 DEF Eligible
  <2> QED BY <1>1, <1>2, <1>3, <2>1
<1> QED BY <1>6, <1>7

\* A demonstrative is what it is bound to, or else the only candidate.
LEMMA DemonstrativeGives ==
    ASSUME NEW word, NEW how, NEW c, ContextOK(c),
           Demonstrative(word, how, c) # Undefined
    PROVE  IF Binding(word, c) # Nothing
           THEN /\ Demonstrative(word, how, c) = Name(Binding(word, c))
                /\ Binding(word, c) \in Entities
                /\ c.entities[Binding(word, c)] # Nothing
           ELSE /\ Spatial(how, c) # Nothing /\ Reach(word, how, c) \in Int
                /\ \E a \in Entities :
                      /\ Eligible(word, Reach(word, how, c), c) = {a}
                      /\ Demonstrative(word, how, c) = Name(a)
<1>1. CASE Binding(word, c) # Nothing
  BY <1>1 DEF Demonstrative
<1>2. CASE Binding(word, c) = Nothing
  <2>1. /\ Spatial(how, c) # Nothing
        /\ Demonstrative(word, how, c) = Unique(word, Reach(word, how, c), c)
    BY <1>2 DEF Demonstrative, Reach
  <2>2. Reach(word, how, c) \in Given(Int)
    BY <2>1, SpatialTyped DEF Shards, Reach
  <2> QED BY <1>2, <2>1, <2>2, UniqueGives DEF Given
<1> QED BY <1>1, <1>2

\* What it takes for a demonstrative to be n in c and m in d, if it is bound to the same.
LEMMA DemonstrativeStep ==
    ASSUME NEW word, NEW how, NEW c, NEW d, ContextOK(c), ContextOK(d),
           d.bindings = c.bindings,
           Demonstrative(word, how, c) # Undefined, Demonstrative(word, how, d) # Undefined,
           Demonstrative(word, how, d) # Demonstrative(word, how, c),
           NEW n, n = Demonstrative(word, how, c).is,
           NEW m, m = Demonstrative(word, how, d).is
    PROVE  /\ Binding(word, c) = Nothing
           /\ \/ Field(n, "distance", d) # Field(n, "distance", c)
              \/ Field(m, "distance", d) # Field(m, "distance", c)
           /\ Reach(word, how, d) = Reach(word, how, c) =>
                  /\ Field(n, "distance", d) # Field(n, "distance", c)
                  /\ Field(m, "distance", d) # Field(m, "distance", c)
<1>1. Binding(word, d) = Binding(word, c)
  BY DEF Binding
<1>2. Binding(word, c) = Nothing
  BY <1>1, DemonstrativeGives
<1>3. /\ Reach(word, how, c) \in Int
      /\ \E a \in Entities : /\ Eligible(word, Reach(word, how, c), c) = {a}
                             /\ Demonstrative(word, how, c) = Name(a)
  BY <1>2, DemonstrativeGives
<1>4. /\ Reach(word, how, d) \in Int
      /\ \E b \in Entities : /\ Eligible(word, Reach(word, how, d), d) = {b}
                             /\ Demonstrative(word, how, d) = Name(b)
  BY <1>1, <1>2, DemonstrativeGives
<1>5. PICK a \in Entities : /\ Eligible(word, Reach(word, how, c), c) = {a}
                            /\ Demonstrative(word, how, c) = Name(a)
  BY <1>3
<1>6. PICK b \in Entities : /\ Eligible(word, Reach(word, how, d), d) = {b}
                            /\ Demonstrative(word, how, d) = Name(b)
  BY <1>4
<1>7. a = n /\ b = m /\ a # b
  BY <1>5, <1>6 DEF Name
<1> QED BY <1>2, <1>3, <1>4, <1>5, <1>6, <1>7, CandidatesCut

\* Whatever one write changes, a bound demonstrative keeps to its entity, and another one
\* passes to a new entity only as DemonstrativePasses says.
THEOREM DemonstrativesAlwaysHold == WorldSpec => DemonstrativeHolds
<1>1. ContextOK(context) /\ [WorldNext]_context => DemonstrativesStay
  <2> SUFFICES ASSUME ContextOK(context), [WorldNext]_context,
                      context'.bindings = context.bindings,
                      NEW word \in Demonstratives, NEW how \in Modes,
                      Demonstrative(word, how, context) # Undefined,
                      Demonstrative(word, how, context') # Undefined,
                      Demonstrative(word, how, context') # Demonstrative(word, how, context)
               PROVE  DemonstrativePasses(word, how, Demonstrative(word, how, context).is,
                                                    Demonstrative(word, how, context').is)
    BY DEF DemonstrativesStay
  <2>1. ContextOK(context')
    BY StepGives
  <2> QED BY <2>1, DemonstrativeStep DEF DemonstrativePasses, DistanceChanged, ReachChanged
<1> QED BY <1>1, ContextInvariant, PTL DEF WorldSpec, DemonstrativeHolds

-----------------------------------------------------------------------------
(* Towards and away *)

LEMMA SquareMonotone ==
    ASSUME NEW a \in Int, NEW b \in Int, 0 <= a, a <= b
    PROVE  a * a <= b * b
<1>1. a * a <= a * b
  OBVIOUS
<1>2. a * b <= b * b
  OBVIOUS
<1>3. a * a \in Int /\ a * b \in Int /\ b * b \in Int
  OBVIOUS
<1> QED BY <1>1, <1>2, <1>3

\* A step v of at most the length of the way w, within 45 degrees of it, has more than
\* half its own length along the way: d is the product of the two.
LEMMA StepGains ==
    ASSUME NEW W \in Int, NEW V \in Int, NEW d \in Int, V <= W, d > 0, 2 * (d * d) >= W * V, V >= 0
    PROVE  2 * d > V
<1> SUFFICES ASSUME 2 * d <= V PROVE FALSE
  OBVIOUS
<1>1. /\ d * d \in Int /\ W * V \in Int /\ V * V \in Int /\ d * d > 0
  OBVIOUS
<1>2. (2 * d) * (2 * d) <= V * V
  <2>1. 2 * d \in Int /\ 0 <= 2 * d
    OBVIOUS
  <2> QED BY <2>1, SquareMonotone
<1>3. V * V <= W * V
  OBVIOUS
<1>4. (2 * d) * (2 * d) = 4 * (d * d)
  OBVIOUS
<1> QED BY <1>1, <1>2, <1>3, <1>4

\* The law of cosines.
LEMMA CosineLaw ==
    ASSUME NEW w1 \in Int, NEW w2 \in Int, NEW v1 \in Int, NEW v2 \in Int
    PROVE  /\ (w1 - v1) * (w1 - v1) + (w2 - v2) * (w2 - v2)
                = (w1 * w1 + w2 * w2) - 2 * (v1 * w1 + v2 * w2) + (v1 * v1 + v2 * v2)
           /\ v1 * v1 + v2 * v2 >= 0
<1>1. (w1 - v1) * (w1 - v1) = w1 * w1 - 2 * (v1 * w1) + v1 * v1
  OBVIOUS
<1>2. (w2 - v2) * (w2 - v2) = w2 * w2 - 2 * (v2 * w2) + v2 * v2
  OBVIOUS
<1>3. v1 * v1 >= 0 /\ v2 * v2 >= 0
  OBVIOUS
<1>4. /\ w1 * w1 \in Int /\ w2 * w2 \in Int /\ v1 * w1 \in Int /\ v2 * w2 \in Int
      /\ v1 * v1 \in Int /\ v2 * v2 \in Int
  OBVIOUS
<1>5. PICK a, b, e, f, g, h : /\ a = w1 * w1 /\ b = w2 * w2 /\ e = v1 * w1 /\ f = v2 * w2
                              /\ g = v1 * v1 /\ h = v2 * v2
  OBVIOUS
<1>6. (a - 2 * e + g) + (b - 2 * f + h) = (a + b) - 2 * (e + f) + (g + h)
  BY <1>4, <1>5
<1>7. g + h >= 0
  BY <1>3, <1>4, <1>5
<1> QED BY <1>1, <1>2, <1>5, <1>6, <1>7

\* If tra or fra holds, the way and the velocity are as it asks.
LEMMA DirectedGives ==
    ASSUME NEW op \in {"tra", "fra"}, NEW way, NEW velocity, NEW spatial,
           Directed(op, way, velocity, spatial) = Truth("T")
    PROVE  /\ velocity # Nothing
           /\ op = "tra" => Dot(velocity, way) > 0
           /\ op = "fra" => Dot(velocity, way) < 0
           /\ 2 * Dot(velocity, way) * Dot(velocity, way)
                >= Dot(way, way) * Dot(velocity, velocity)
BY DEF Directed, Truth, Undefined, Raised, Decide

\* What a chain of tra or fra answers comes from Directed.
LEMMA HoldsGives ==
    ASSUME NEW op \in {"tra", "fra"}, NEW x, NEW y, NEW how, Holds(op, x, y, how),
           NEW l, l = EntityKey(x, how, context),
           NEW r, r = EntityKey(y, how, context)
    PROVE  /\ CanAsk(l, r, how, context)
           /\ Directed(op, Way(l, r, context), Field(l, "velocity", context),
                             Spatial(how, context)) = Truth("T")
<1> DEFINE chain == [op |-> op, left |-> x, right |-> y]
<1>1. /\ Truth("T") # Undefined
      /\ \A code : Truth("T") # Error(code)
  BY DEF Truth, Undefined, Error
<1>2. Meaning(chain, how, context) = Truth("T")
  BY <1>1 DEF Holds, RunNoeLogic
<1>3. op \in SpatialOps /\ op \in BinaryOps /\ op \notin UnaryOps
  BY DEF SpatialOps, BinaryOps, UnaryOps, TemporalOps
<1>4. Binary(op, x, y, how, context) = Truth("T")
  BY <1>2, <1>3 DEF Meaning
<1>5. Located(op, x, y, how, context) = Truth("T")
  BY <1>1, <1>3, <1>4, BinaryGives DEF BinaryOf
<1>6. CanAsk(l, r, how, context) /\ LocatedOf(op, l, r, how, context) = Truth("T")
  BY <1>1, <1>3, <1>5, LocatedGives
<1> QED BY <1>6 DEF LocatedOf

LEMMA MoveApproaches ==
    ASSUME ContextOK(context), NEW n \in Entities, Move(n),
           NEW x, NEW y, NEW how, NEW op \in {"tra", "fra"}, Holds(op, x, y, how),
           EntityKey(x, how, context) = n,
           NEW m, m = EntityKey(y, how, context), m # n
    PROVE  /\ op = "tra" /\ Pace(n) <= Apart(n, m, context) =>
                Apart(n, m, context') < Apart(n, m, context)
           /\ op = "fra" => Apart(n, m, context') > Apart(n, m, context)
<1> DEFINE v == Field(n, "velocity", context)
           p == Field(n, "position", context)
           q == Field(m, "position", context)
<1>1. /\ CanAsk(n, m, how, context)
      /\ Directed(op, Way(n, m, context), v, Spatial(how, context)) = Truth("T")
  BY HoldsGives
<1>2. p # Nothing /\ q # Nothing /\ Way(n, m, context) = Between(p, q) /\ m \in Entities
  BY <1>1 DEF CanAsk, Position, Field, Way
<1>3. v # Nothing
  BY <1>1, DirectedGives
<1>4. /\ p \in Int \X Int \X Int /\ q \in Int \X Int \X Int /\ v \in Int \X Int
  <2>1. /\ context.entities[n] # Nothing /\ context.entities[m] # Nothing
        /\ p = context.entities[n].position /\ q = context.entities[m].position
        /\ v = context.entities[n].velocity
    BY <1>2, <1>3 DEF Field
  <2>2. context.entities[n] \in EntityReports /\ context.entities[m] \in EntityReports
    BY <1>2, <2>1 DEF ContextOK
  <2> QED BY <1>2, <1>3, <2>1, <2>2, WorldAssumption DEF EntityReports, Given
<1>5. PICK p1 \in Int, p2 \in Int, q1 \in Int, q2 \in Int, v1 \in Int, v2 \in Int :
         /\ p1 = p[1] /\ p2 = p[2] /\ q1 = q[1] /\ q2 = q[2] /\ v1 = v[1] /\ v2 = v[2]
  BY <1>4
<1>6. /\ Field(n, "position", context')[1] = p1 + v1
      /\ Field(n, "position", context')[2] = p2 + v2
      /\ Field(m, "position", context') = q
  <2>1. context.entities[n] # Nothing /\ Moved(context.entities[n]) \in EntityReports
    BY MovedIsReport
  <2>2. /\ Reported(context, context', n)
        /\ context'.entities[n] = Moved(context.entities[n])
    <3>1. ReportEntity(n, Moved(context.entities[n]))
      BY DEF Move
    <3> QED BY <2>1, <3>1, ReportGives
  <2>3. Field(m, "position", context') = q
    BY <1>2, <2>2 DEF Reported, Field
  <2>4. context'.entities[n] # Nothing
    BY <2>1, <2>2, WorldAssumption
  <2>5. Field(n, "position", context') = Moved(context.entities[n]).position
    BY <2>2, <2>4 DEF Field
  <2>6. Moved(context.entities[n]).position = <<p[1] + v[1], p[2] + v[2], p[3]>>
    BY <2>1, MovedIsReport DEF Moved, Field, EntityReports
  <2> QED BY <1>5, <2>3, <2>5, <2>6
<1>7. PICK w1 \in Int, w2 \in Int : w1 = q1 - p1 /\ w2 = q2 - p2
  BY <1>5
<1>8. PICK W, V, d : /\ W = w1 * w1 + w2 * w2 /\ V = v1 * v1 + v2 * v2
                     /\ d = v1 * w1 + v2 * w2
  OBVIOUS
<1>9. W \in Int /\ V \in Int /\ d \in Int
  BY <1>5, <1>7, <1>8
<1>10. /\ Apart(n, m, context) = W /\ Pace(n) = V
       /\ Apart(n, m, context') = (w1 - v1) * (w1 - v1) + (w2 - v2) * (w2 - v2)
       /\ Dot(Way(n, m, context), Way(n, m, context)) = W
       /\ Dot(v, v) = V /\ Dot(v, Way(n, m, context)) = d
  <2>1. Between(p, q) = <<w1, w2>>
    BY <1>5, <1>7 DEF Between
  <2>2. Between(Field(n, "position", context'), Field(m, "position", context'))
          = <<w1 - v1, w2 - v2>>
    <3>1. q1 - (p1 + v1) = w1 - v1 /\ q2 - (p2 + v2) = w2 - v2
      BY <1>5, <1>7
    <3> QED BY <1>5, <1>6, <3>1 DEF Between
  <2> QED BY <1>2, <1>5, <1>8, <2>1, <2>2 DEF Apart, Pace, Dot
<1>11. Apart(n, m, context') = W - 2 * d + V /\ V >= 0
  BY <1>5, <1>7, <1>8, <1>10, CosineLaw
<1>12. /\ op = "tra" => d > 0
       /\ op = "fra" => d < 0
       /\ 2 * (d * d) >= W * V
  <2>1. 2 * d * d = 2 * (d * d)
    BY <1>9
  <2> QED BY <1>1, <1>10, <2>1, DirectedGives
<1>13. CASE op = "tra" /\ Pace(n) <= Apart(n, m, context)
  <2>1. 2 * d > V
    BY <1>9, <1>10, <1>11, <1>12, <1>13, StepGains
  <2> QED BY <1>9, <1>10, <1>11, <1>13, <2>1
<1>14. CASE op = "fra"
  BY <1>9, <1>10, <1>11, <1>12, <1>14
<1> QED BY <1>13, <1>14

\* Wherever things are and however they move, tra means closer with a step that is no
\* longer than the way, and fra means farther.
THEOREM TowardsAlwaysApproaches == WorldSpec => TowardsApproaches
<1>1. ContextOK(context) => [\A n \in Entities : Move(n) => MoveAsSaid(n)]_context
  BY MoveApproaches DEF MoveAsSaid
<1> QED BY <1>1, ContextInvariant, PTL DEF WorldSpec, TowardsApproaches

-----------------------------------------------------------------------------
(* Learning: the context d says more than c *)

\* What is reported of an entity stays.
LEMMA FieldsStay ==
    ASSUME NEW c, NEW d, ContextOK(c), Extends(d, c), NEW n,
           NEW f \in {"form", "position", "velocity", "distance", "radius"},
           Field(n, f, c) # Nothing
    PROVE  Field(n, f, d) = Field(n, f, c)
<1>1. /\ n \in Entities /\ c.entities[n] # Nothing
      /\ Field(n, f, c) = c.entities[n][f]
  BY DEF Field
<1>2. c.entities[n] \in EntityReports
  BY <1>1 DEF ContextOK
<1>3. f \in DOMAIN c.entities[n]
  BY <1>2 DEF EntityReports
<1>4. d.entities[n] # Nothing /\ c.entities[n][f] \in {Nothing, d.entities[n][f]}
  BY <1>1, <1>3 DEF Extends, Adds
<1> QED BY <1>1, <1>4 DEF Field

LEMMA PositionsStay ==
    ASSUME NEW c, NEW d, ContextOK(c), Extends(d, c), NEW n, NEW form,
           Nothing \notin {Position(n, form, c), Position(n, form, d)}
    PROVE  Position(n, form, d) = Position(n, form, c)
<1>1. /\ Position(n, form, c) = Field(n, "position", c)
      /\ Position(n, form, d) = Field(n, "position", d)
  BY DEF Position
<1> QED BY <1>1, FieldsStay

\* What literals stand for and when events are due stays.
LEMMA TablesStay ==
    ASSUME NEW c, NEW d, ContextOK(c), Extends(d, c)
    PROVE  /\ \A k \in Keys : c.setting.literals[k] # Nothing =>
                 d.setting.literals[k] = c.setting.literals[k]
           /\ \A e \in Events : c.events[e] # Nothing => d.events[e] = c.events[e]
<1>1. /\ c.setting.literals \in [Keys -> Given(Values)]
      /\ c.events \in [Events -> Given(Times)]
  BY WorldAssumption DEF ContextOK
<1>2. c.setting.literals # Nothing /\ c.events # Nothing
  BY <1>1, WorldAssumption
<1>3. /\ \A k \in DOMAIN c.setting.literals :
            c.setting.literals[k] \in {Nothing, d.setting.literals[k]}
      /\ \A e \in DOMAIN c.events : c.events[e] \in {Nothing, d.events[e]}
  BY <1>2 DEF Extends, Adds
<1> QED BY <1>1, <1>3

\* What the spatial shard says stays.
LEMMA SpatialStays ==
    ASSUME NEW c, NEW d, ContextOK(c), Extends(d, c),
           c.setting.spatial # Nothing
    PROVE  /\ d.setting.spatial # Nothing
           /\ \A f \in {"near", "far"} : c.setting.spatial[f] # Nothing =>
                 d.setting.spatial[f] = c.setting.spatial[f]
           /\ d.setting.spatial.d_min = c.setting.spatial.d_min
           /\ d.setting.spatial.v_min = c.setting.spatial.v_min
           /\ LET x == c.setting.spatial.orientation
                  y == d.setting.spatial.orientation
              IN  x # Nothing /\ Nothing \notin {x.target, x.tolerance} =>
                     y.target = x.target /\ y.tolerance = x.tolerance
<1>1. PICK s, t : s = c.setting.spatial /\ t = d.setting.spatial
  OBVIOUS
<1>2. s \in Shards
  BY <1>1, WorldAssumption DEF Given, ContextOK
<1>3. /\ t # Nothing
      /\ Adds([s EXCEPT !.orientation = Nothing], t)
      /\ Adds(s.orientation, t.orientation)
  BY <1>1 DEF Extends, AddsSpatial
<1>4. PICK r : r = [s EXCEPT !.orientation = Nothing]
  OBVIOUS
<1>5. /\ DOMAIN r = {"near", "far", "orientation", "v_min", "d_min"}
      /\ r.near = s.near /\ r.far = s.far /\ r.v_min = s.v_min /\ r.d_min = s.d_min
      /\ s.v_min \in Int /\ s.d_min \in Int /\ Nothing \notin Int
  BY <1>2, <1>4, WorldAssumption DEF Shards
<1>6. r # Nothing => \A f \in DOMAIN r : r[f] \in {Nothing, t[f]}
  BY <1>3, <1>4 DEF Adds
<1>7. r # Nothing
  <2>1. s = [near |-> s.near, far |-> s.far, orientation |-> s.orientation,
             v_min |-> s.v_min, d_min |-> s.d_min]
    BY <1>2 DEF Shards
  <2>2. r = [near |-> s.near, far |-> s.far, orientation |-> Nothing,
             v_min |-> s.v_min, d_min |-> s.d_min]
    BY <1>4, <2>1
  <2>3. r \in Shards
    BY <1>2, <2>2 DEF Shards, Given
  <2> QED BY <2>3, WorldAssumption
<1>8. s.orientation # Nothing =>
        /\ s.orientation.target \in {Nothing, t.orientation.target}
        /\ s.orientation.tolerance \in {Nothing, t.orientation.tolerance}
  <2> SUFFICES ASSUME s.orientation # Nothing
               PROVE  /\ s.orientation.target \in {Nothing, t.orientation.target}
                      /\ s.orientation.tolerance \in {Nothing, t.orientation.tolerance}
    OBVIOUS
  <2>1. s.orientation \in [target : Given(Int), tolerance : Given(Int)]
    BY <1>2 DEF Shards, Given
  <2>2. "target" \in DOMAIN s.orientation /\ "tolerance" \in DOMAIN s.orientation
    BY <2>1
  <2> QED BY <1>3, <2>2 DEF Adds
<1> QED BY <1>1, <1>3, <1>5, <1>6, <1>7, <1>8

\* A demonstrative that meant something means the same, or nothing.
LEMMA DemonstrativeStays ==
    ASSUME NEW c, NEW d, ContextOK(c), ContextOK(d), Extends(d, c),
           NEW word \in Demonstratives,
           Undefined \notin {Demonstrative(word, "strict", c),
                                   Demonstrative(word, "strict", d)}
    PROVE  Demonstrative(word, "strict", d) = Demonstrative(word, "strict", c)
<1>1. Binding(word, d) = Binding(word, c)
  BY DEF Binding, Extends
<1>2. CASE Binding(word, c) # Nothing
  BY <1>1, <1>2, DemonstrativeGives
<1>3. CASE Binding(word, c) = Nothing
  <2>1. PICK l : l = Reach(word, "strict", c)
    OBVIOUS
  <2>2. /\ Spatial("strict", c) # Nothing /\ l \in Int
        /\ \E a \in Entities : /\ Eligible(word, l, c) = {a}
                               /\ Demonstrative(word, "strict", c) = Name(a)
    BY <1>3, <2>1, DemonstrativeGives
  <2>3. Reach(word, "strict", d) = l
    <3>1. Spatial("strict", c) = c.setting.spatial
      BY DEF Spatial
    <3>2. Spatial("strict", d) = d.setting.spatial
      BY DEF Spatial
    <3>3. PICK f \in {"near", "far"} : f = IF word = "dia" THEN "near" ELSE "far"
      OBVIOUS
    <3>4. c.setting.spatial[f] = l /\ l # Nothing
      BY <2>1, <2>2, <3>1, <3>3, WorldAssumption DEF Reach
    <3>5. d.setting.spatial[f] = l
      BY <2>2, <3>1, <3>4, SpatialStays
    <3> QED BY <3>2, <3>3, <3>5 DEF Reach
  <2>4. \E b \in Entities : /\ Eligible(word, l, d) = {b}
                            /\ Demonstrative(word, "strict", d) = Name(b)
    BY <1>1, <1>3, <2>3, DemonstrativeGives
  <2>5. Eligible(word, l, c) \subseteq Eligible(word, l, d)
    <3>1. \A n \in Entities : Field(n, "distance", c) # Nothing =>
             Field(n, "distance", d) = Field(n, "distance", c)
      BY FieldsStay
    <3> QED BY <3>1 DEF Eligible
  <2> QED BY <2>2, <2>4, <2>5
<1> QED BY <1>2, <1>3

\* What an operand of a chain stood for it stands for, or for nothing.
LEMMA OperandStays ==
    ASSUME NEW c, NEW d, ContextOK(c), ContextOK(d), Extends(d, c),
           NEW x,
           \/ x \in Operands
           \/ x.form = "number",
           Undefined \notin {Operand(x, "strict", c), Operand(x, "strict", d)}
    PROVE  /\ Operand(x, "strict", d) = Operand(x, "strict", c)
           /\ x.form # "number" =>
                EntityKey(x, "strict", d) = EntityKey(x, "strict", c)
<1>1. CASE x.form = "number"
  BY <1>1, OperandForms
<1>2. CASE x \in Operands /\ x.form = "demonstrative"
  <2>1. x.word \in Demonstratives
    BY <1>2 DEF Operands
  <2>2. Demonstrative(x.word, "strict", d) = Demonstrative(x.word, "strict", c)
    BY <1>2, <2>1, OperandForms, DemonstrativeStays
  <2> QED BY <1>2, <2>2, OperandForms
<1>3. CASE x \in Operands /\ x.form = "literal"
  <2>1. x.key \in Keys
    BY <1>3 DEF Operands
  <2>2. c.setting.literals[x.key] # Nothing
    BY <1>3, OperandForms
  <2>3. d.setting.literals[x.key] = c.setting.literals[x.key]
    BY <2>1, <2>2, TablesStay
  <2> QED BY <1>3, <2>2, <2>3, OperandForms
<1> QED BY <1>1, <1>2, <1>3 DEF Operands

\* What the value system allowed it allows; what was due is due.
LEMMA AllowedStays ==
    ASSUME NEW c, NEW d, Extends(d, c), NEW v,
           Allowed(v, c) # Undefined
    PROVE  Allowed(v, d) = Allowed(v, c)
<1>1. CASE Trit(v) # "U"
  BY <1>1 DEF Allowed
<1>2. CASE Trit(v) = "U"
  <2>1. PICK x, y : x = c.setting.axioms /\ y = d.setting.axioms
    OBVIOUS
  <2>2. /\ v.type = "name" /\ x # Nothing /\ v.is \in x.accepted \union x.rejected
        /\ Allowed(v, c) = Decide(v.is \in x.accepted)
    BY <1>2, <2>1 DEF Allowed
  <2>3. /\ y # Nothing /\ x.accepted \subseteq y.accepted /\ x.rejected \subseteq y.rejected
        /\ y.accepted \intersect y.rejected = {}
    BY <2>1, <2>2 DEF Extends, AddsValues
  <2>4. /\ v.is \in y.accepted \union y.rejected
        /\ v.is \in y.accepted <=> v.is \in x.accepted
    BY <2>2, <2>3
  <2>5. Allowed(v, d) = Decide(v.is \in y.accepted)
    BY <1>2, <2>1, <2>2, <2>3, <2>4 DEF Allowed
  <2> QED BY <2>2, <2>4, <2>5 DEF Decide
<1> QED BY <1>1, <1>2

TimedOf(op, v, due, now) ==
    IF due # Nothing
    THEN Decide(CASE op = "nau" -> due = now
                        [] op = "ret" -> due < now
                        [] op = "tri" -> due > now
                        [] op = "qer" -> TRUE)
    ELSE IF op \in {"nau", "qer"} /\ Trit(v) # "U" THEN Truth(Trit(v))
    ELSE Undefined

LEMMA TimedStays ==
    ASSUME NEW c, NEW d, ContextOK(c), Extends(d, c), NEW op, NEW v,
           Timed(op, v, c) # Undefined
    PROVE  Timed(op, v, d) = Timed(op, v, c)
<1>1. d.now = c.now
  BY DEF Extends
<1>2. Due(v, d) = Due(v, c)
  <2>1. CASE Due(v, c) # Nothing
    <3>1. /\ c.setting.temporal /\ v.type \in {"name", "action"} /\ v.is \in Events
          /\ Due(v, c) = c.events[v.is]
      BY <2>1 DEF Due
    <3>2. d.events[v.is] = c.events[v.is] /\ d.setting.temporal
      BY <2>1, <3>1, TablesStay DEF Extends
    <3> QED BY <3>1, <3>2 DEF Due
  <2>2. CASE Due(v, c) = Nothing
    <3>1. Trit(v) # "U"
      BY <2>2 DEF Timed
    <3>2. v.type \notin {"name", "action"}
      BY <3>1 DEF Trit
    <3> QED BY <3>2 DEF Due
  <2> QED BY <2>1, <2>2
<1>3. /\ Timed(op, v, c) = TimedOf(op, v, Due(v, c), c.now)
      /\ Timed(op, v, d) = TimedOf(op, v, Due(v, d), d.now)
  BY Zenon DEF Timed, TimedOf
<1> QED BY <1>1, <1>2, <1>3

\* What the table of relations says stays, since it is a map.
LEMMA RelatedStays ==
    ASSUME NEW c, NEW d, ContextOK(d), Extends(d, c), NEW op, NEW v, NEW w,
           Related(op, v, w, c) # Undefined
    PROVE  Related(op, v, w, d) = Related(op, v, w, c)
<1>1. Row(op, v, w, c) # {}
  BY DEF Related
<1>2. Row(op, v, w, c) \subseteq Row(op, v, w, d)
  BY DEF Row, Extends
<1>3. IsTable(d.setting.rel)
  BY WorldAssumption DEF ContextOK
<1>4. \A r, q \in Row(op, v, w, d) : r = q
  BY <1>3 DEF Row, IsTable
<1>5. Row(op, v, w, d) = Row(op, v, w, c)
  BY <1>1, <1>2, <1>4
<1> QED BY <1>5, Zenon DEF Related

AlignedOf(way, target, tolerance) ==
    LET diff == Abs(Bearing(way) - target) % 360
    IN  (IF diff > 180 THEN 360 - diff ELSE diff) <= tolerance

\* Where things were, what was near them and where they went stays.
LEMMA LocatedStays ==
    ASSUME NEW c, NEW d, ContextOK(c), Extends(d, c),
           NEW op \in SpatialOps, NEW x, NEW y,
           Grounded(op, x, y, "strict", c),
           EntityKey(x, "strict", d) = EntityKey(x, "strict", c),
           EntityKey(y, "strict", d) = EntityKey(y, "strict", c),
           Undefined \notin {Located(op, x, y, "strict", c),
                                   Located(op, x, y, "strict", d)}
    PROVE  Located(op, x, y, "strict", d) = Located(op, x, y, "strict", c)
<1>1. PICK l, r : l = EntityKey(x, "strict", c) /\ r = EntityKey(y, "strict", c)
  OBVIOUS
<1>2. /\ CanAsk(l, r, "strict", c) /\ CanAsk(l, r, "strict", d)
      /\ Located(op, x, y, "strict", c) = LocatedOf(op, l, r, "strict", c)
      /\ Located(op, x, y, "strict", d) = LocatedOf(op, l, r, "strict", d)
  BY <1>1, LocatedGives
<1>3. PICK s, t : s = c.setting.spatial /\ t = d.setting.spatial
  OBVIOUS
<1>4. Spatial("strict", c) = s /\ Spatial("strict", d) = t /\ s # Nothing
  BY <1>2, <1>3 DEF Spatial, CanAsk
<1>5. Way(l, r, d) = Way(l, r, c)
  <2>1. Nothing \notin {Position(l, "list", c), Position(l, "list", d),
                        Position(r, "list", c), Position(r, "list", d)}
    BY <1>2 DEF CanAsk
  <2> QED BY <2>1, PositionsStay DEF Way
<1>6. /\ s.near # Nothing => t.near = s.near
      /\ s.far # Nothing => t.far = s.far
      /\ t.d_min = s.d_min /\ t.v_min = s.v_min
  BY <1>3, <1>4, SpatialStays
<1>7. CASE op = "nel"
  <2>1. Within(Way(l, r, c), s.near) # Undefined
    BY <1>2, <1>4, <1>7 DEF LocatedOf
  <2>2. t.near = s.near
    BY <1>6, <2>1 DEF Within
  <2> QED BY <1>2, <1>4, <1>5, <1>7, <2>2 DEF LocatedOf
<1>8. CASE op = "tel"
  <2>1. Beyond(Way(l, r, c), s.far) # Undefined
    BY <1>2, <1>4, <1>8 DEF LocatedOf
  <2>2. t.far = s.far
    BY <1>6, <2>1 DEF Beyond
  <2> QED BY <1>2, <1>4, <1>5, <1>8, <2>2 DEF LocatedOf
<1>9. CASE op = "en"
  <2>1. Within(Way(l, r, c), Field(r, "radius", c)) # Undefined
    BY <1>2, <1>9 DEF LocatedOf
  <2>2. Field(r, "radius", d) = Field(r, "radius", c)
    BY <2>1, FieldsStay DEF Within
  <2> QED BY <1>2, <1>5, <1>9, <2>2 DEF LocatedOf
<1>10. CASE op = "xel"
  <2>1. /\ s.orientation # Nothing
        /\ Nothing \notin {s.orientation.target, s.orientation.tolerance}
    BY <1>3, <1>10 DEF Grounded
  <2>2. /\ t.orientation.target = s.orientation.target
        /\ t.orientation.tolerance = s.orientation.tolerance
    BY <1>3, <1>4, <2>1, SpatialStays
  <2>3. Aligned(Way(l, r, c), t.orientation) <=> Aligned(Way(l, r, c), s.orientation)
    <3>1. /\ Aligned(Way(l, r, c), t.orientation) =
                AlignedOf(Way(l, r, c), t.orientation.target, t.orientation.tolerance)
          /\ Aligned(Way(l, r, c), s.orientation) =
                AlignedOf(Way(l, r, c), s.orientation.target, s.orientation.tolerance)
      BY Zenon DEF Aligned, AlignedOf
    <3> QED BY <2>2, <3>1
  <2>4. LocatedOf(op, l, r, "strict", c)
            = Decide(Aligned(Way(l, r, c), s.orientation))
    BY <1>4, <1>10 DEF LocatedOf
  <2>5. LocatedOf(op, l, r, "strict", d)
            = Decide(Aligned(Way(l, r, c), t.orientation))
    BY <1>4, <1>5, <1>10 DEF LocatedOf
  <2> QED BY <1>2, <2>3, <2>4, <2>5 DEF Decide
<1>11. CASE op \in {"tra", "fra"}
  <2>1. /\ LocatedOf(op, l, r, "strict", c)
              = Directed(op, Way(l, r, c), Field(l, "velocity", c), s)
        /\ LocatedOf(op, l, r, "strict", d)
              = Directed(op, Way(l, r, c), Field(l, "velocity", d), t)
    BY <1>4, <1>5, <1>11 DEF LocatedOf
  <2>2. Field(l, "velocity", c) # Nothing
    BY <1>2, <2>1 DEF Directed
  <2>3. Field(l, "velocity", d) = Field(l, "velocity", c)
    BY <2>2, FieldsStay
  <2>4. \A v, w : Directed(op, w, v, t) = Directed(op, w, v, s)
    BY <1>6, Zenon DEF Directed
  <2> QED BY <1>2, <2>1, <2>3, <2>4
<1> QED BY <1>7, <1>8, <1>9, <1>10, <1>11 DEF SpatialOps

Answers == {Undefined, Raised, Truth("T"), Truth("F")}

\* What strict mode makes of a chain is a truth value that is one, or none.
LEMMA DecideForms == \A b : Decide(b) \in Answers
BY DEF Decide, Answers

LEMMA DirectedForms == \A op, way, v, s : Directed(op, way, v, s) \in Answers
<1> SUFFICES ASSUME NEW op, NEW way, NEW v, NEW s, Directed(op, way, v, s) # Undefined,
                    Directed(op, way, v, s) # Raised
             PROVE  Directed(op, way, v, s) \in Answers
  BY DEF Answers
<1>1. \E b : Directed(op, way, v, s) = Decide(b)
  BY Zenon DEF Directed
<1> QED BY <1>1, DecideForms

LEMMA LocatedForms ==
    ASSUME NEW op \in SpatialOps, NEW x, NEW y, NEW c
    PROVE  Located(op, x, y, "strict", c) \in Answers
<1>1. PICK l, r : l = EntityKey(x, "strict", c) /\ r = EntityKey(y, "strict", c)
  OBVIOUS
<1>2. \A way, limit : Within(way, limit) \in Answers /\ Beyond(way, limit) \in Answers
  BY DecideForms, Zenon DEF Within, Beyond, Answers
<1>3. LocatedOf(op, l, r, "strict", c) \in Answers
  BY <1>2, DecideForms, DirectedForms, Zenon DEF LocatedOf
<1> QED BY <1>1, <1>3, LocatedGives DEF Answers

LEMMA MeaningForms ==
    ASSUME NEW c, ContextOK(c), NEW chain \in Chains
    PROVE  Meaning(chain, "strict", c) \in Answers
<1>1. PICK op, x, y : op = chain.op /\ x = chain.left /\ y = chain.right
  OBVIOUS
<1>2. Undefined \in Answers
  BY DEF Answers
<1>3. CASE op \in UnaryOps
  <2>1. x \in Operands
    BY <1>1, <1>3 DEF Chains
  <2>2. PICK v : v = Operand(x, "strict", c)
    OBVIOUS
  <2>3. Trit(v) \in {"T", "F", "U"}
    <3>1. CASE x.form = "demonstrative"
      <4>1. v = Undefined \/ \E n : v = Name(n)
        BY <2>2, <3>1, OperandForms, DemonstrativeGives
      <4>2. v.type \in {"undefined", "name"}
        BY <4>1 DEF Undefined, Name
      <4> QED BY <4>2 DEF Trit
    <3>2. CASE x.form = "literal"
      <4>1. c.setting.literals \in [Keys -> Given(Values)] /\ x.key \in Keys
        BY <2>1, <3>2, WorldAssumption DEF ContextOK, Operands
      <4>2. v = Undefined \/ v \in Values
        BY <2>2, <3>2, <4>1, OperandForms DEF Given
      <4>3. \/ v.type \in {"undefined", "name", "action", "number"}
            \/ v.type = "truth" /\ v.is \in {"T", "F", "U"}
        BY <4>2 DEF Values, Undefined, Truth, K3
      <4> QED BY <4>3 DEF Trit
    <3> QED BY <2>1, <3>1, <3>2 DEF Operands
  <2>4. Allowed(v, c) \in Answers
    BY <2>3, DecideForms DEF Allowed, Answers
  <2>5. Timed(op, v, c) \in Answers
    <3>1. Due(v, c) # Nothing => \E b : Timed(op, v, c) = Decide(b)
      BY Zenon DEF Timed
    <3>2. Due(v, c) = Nothing =>
            \/ Timed(op, v, c) = Undefined
            \/ Trit(v) # "U" /\ Timed(op, v, c) = Truth(Trit(v))
      BY DEF Timed
    <3> QED BY <2>3, <3>1, <3>2, DecideForms DEF Answers
  <2>6. Meaning(chain, "strict", c) = Unary(op, x, "strict", c)
    BY <1>1, <1>3 DEF Meaning
  <2> QED BY <1>2, <2>2, <2>4, <2>5, <2>6 DEF Unary
<1>4. CASE op \notin UnaryOps
  <2>1. op \in BinaryOps
    BY <1>1, <1>4, ChainForms
  <2>2. Meaning(chain, "strict", c) = Binary(op, x, y, "strict", c)
    BY <1>1, <1>4 DEF Meaning
  <2>3. \A v, w : Compared(op, v, w) \in Answers
    <3>1. \A v, w : Compared(op, v, w) = Undefined
                    \/ \E b : Compared(op, v, w) = Decide(b)
      BY Zenon DEF Compared
    <3> QED BY <1>2, <3>1, DecideForms
  <2>4. \A v, w : Related(op, v, w, c) \in Answers
    BY <1>2, DecideForms, Zenon DEF Related
  <2>5. \A v, w : Beside(op, v, w, c) \in Answers
    <3>1. \A v, w : Beside(op, v, w, c) = Undefined
                    \/ \E b : Beside(op, v, w, c) = Decide(b)
      BY Zenon DEF Beside
    <3> QED BY <1>2, <3>1, DecideForms
  <2>6. BinaryOf(op, x, y, "strict", c) \in Answers
    BY <2>3, <2>4, <2>5, LocatedForms DEF BinaryOf
  <2> QED BY <1>2, <2>1, <2>2, <2>6, BinaryGives
<1> QED BY <1>3, <1>4

\* What strict mode made of a chain it makes of it, or nothing.
LEMMA BinaryStays ==
    ASSUME NEW c, NEW d, ContextOK(c), ContextOK(d), Extends(d, c),
           NEW chain \in Chains, chain.op \in BinaryOps,
           Undefined \notin {Meaning(chain, "strict", c),
                                   Meaning(chain, "strict", d)}
    PROVE  Meaning(chain, "strict", d) = Meaning(chain, "strict", c)
<1>1. PICK op, x, y : op = chain.op /\ x = chain.left /\ y = chain.right
  OBVIOUS
<1>2. op \in BinaryOps
  BY <1>1
<1>3. /\ Meaning(chain, "strict", c) = Binary(op, x, y, "strict", c)
      /\ Meaning(chain, "strict", d) = Binary(op, x, y, "strict", d)
  BY <1>1, <1>2 DEF Meaning, BinaryOps, UnaryOps, TemporalOps, SpatialOps,
     Comparisons, RelationOps, AxisOps
<1>4. /\ Sayable(op, x, y, "strict", c) /\ Sayable(op, x, y, "strict", d)
      /\ Binary(op, x, y, "strict", c) = BinaryOf(op, x, y, "strict", c)
      /\ Binary(op, x, y, "strict", d) = BinaryOf(op, x, y, "strict", d)
  BY <1>2, <1>3, BinaryGives
<1>5. /\ Undefined \notin {Operand(x, "strict", c), Operand(x, "strict", d)}
      /\ Undefined \notin {Operand(y, "strict", c), Operand(y, "strict", d)}
      /\ Grounded(op, x, y, "strict", c)
  BY <1>4 DEF Sayable
<1>6. /\ x \in Operands
      /\ y \in Operands \/ (y.form = "number" /\ op \notin SpatialOps)
  BY <1>1 DEF Chains, Figure, SpatialOps, Comparisons
<1>7. /\ Operand(x, "strict", d) = Operand(x, "strict", c)
      /\ Operand(y, "strict", d) = Operand(y, "strict", c)
      /\ x.form # "number" =>
            EntityKey(x, "strict", d) = EntityKey(x, "strict", c)
      /\ y.form # "number" =>
            EntityKey(y, "strict", d) = EntityKey(y, "strict", c)
  BY <1>5, <1>6, OperandStays
<1>8. CASE op \in SpatialOps
  <2>1. x.form # "number" /\ y.form # "number"
    BY <1>6, <1>8 DEF Operands
  <2>2. /\ BinaryOf(op, x, y, "strict", c) = Located(op, x, y, "strict", c)
        /\ BinaryOf(op, x, y, "strict", d) = Located(op, x, y, "strict", d)
    BY <1>8 DEF BinaryOf
  <2> QED BY <1>3, <1>4, <1>5, <1>7, <1>8, <2>1, <2>2, LocatedStays
<1>9. CASE op \notin SpatialOps /\ op \in Comparisons
  BY <1>3, <1>4, <1>7, <1>9 DEF BinaryOf
<1>10. CASE op \notin SpatialOps \cup Comparisons /\ op \in RelationOps
  <2>1. PICK v, w : v = Operand(x, "strict", c) /\ w = Operand(y, "strict", c)
    OBVIOUS
  <2>2. /\ BinaryOf(op, x, y, "strict", c) = Related(op, v, w, c)
        /\ BinaryOf(op, x, y, "strict", d) = Related(op, v, w, d)
    BY <1>7, <1>10, <2>1 DEF BinaryOf
  <2> QED BY <1>3, <1>4, <2>2, RelatedStays
<1>11. CASE op \notin SpatialOps \cup Comparisons \cup RelationOps
  <2>1. PICK v, w : v = Operand(x, "strict", c) /\ w = Operand(y, "strict", c)
    OBVIOUS
  <2>2. /\ BinaryOf(op, x, y, "strict", c) = Beside(op, v, w, c)
        /\ BinaryOf(op, x, y, "strict", d) = Beside(op, v, w, d)
    BY <1>7, <1>11, <2>1 DEF BinaryOf
  <2>3. Undefined \notin {Beside(op, v, w, c), Beside(op, v, w, d)}
    BY <1>3, <1>4, <2>2
  <2>4. /\ Nothing \notin {Position(v.is, "map", c), Position(v.is, "map", d)}
        /\ Nothing \notin {Position(w.is, "map", c), Position(w.is, "map", d)}
    BY <2>3 DEF Beside
  <2>5. /\ Position(v.is, "map", d) = Position(v.is, "map", c)
        /\ Position(w.is, "map", d) = Position(w.is, "map", c)
    BY <2>4, PositionsStay
  <2>6. Beside(op, v, w, d) = Beside(op, v, w, c)
    BY <2>5, Zenon DEF Beside
  <2> QED BY <1>3, <1>4, <2>2, <2>6
<1> QED BY <1>2, <1>8, <1>9, <1>10, <1>11

LEMMA UnaryStays ==
    ASSUME NEW c, NEW d, ContextOK(c), ContextOK(d), Extends(d, c),
           NEW chain \in Chains, chain.op \in UnaryOps,
           Undefined \notin {Meaning(chain, "strict", c),
                                   Meaning(chain, "strict", d)}
    PROVE  Meaning(chain, "strict", d) = Meaning(chain, "strict", c)
<1>1. PICK op, x : op = chain.op /\ x = chain.left
  OBVIOUS
<1>2. /\ Meaning(chain, "strict", c) = Unary(op, x, "strict", c)
      /\ Meaning(chain, "strict", d) = Unary(op, x, "strict", d)
  BY <1>1 DEF Meaning
<1>3. PICK v, w : v = Operand(x, "strict", c) /\ w = Operand(x, "strict", d)
  OBVIOUS
<1>4. Ensured(op, "strict", c) /\ Ensured(op, "strict", d)
  BY <1>2 DEF Unary
<1>5. \A u, e : Allowed(Undefined, e) = Undefined
                /\ Timed(u, Undefined, e) = Undefined
  <2>1. Trit(Undefined) = "U" /\ Undefined.type = "undefined"
    BY DEF Trit, Undefined
  <2>2. \A e : Due(Undefined, e) = Nothing
    BY <2>1 DEF Due
  <2> QED BY <2>1, <2>2 DEF Allowed, Timed
<1>6. Undefined \notin {v, w}
  BY <1>2, <1>3, <1>4, <1>5 DEF Unary
<1>7. x \in Operands
  BY <1>1 DEF Chains
<1>8. w = v
  BY <1>3, <1>6, <1>7, OperandStays
<1>9. CASE op = "tor"
  <2>1. /\ Unary(op, x, "strict", c) = Allowed(v, c)
        /\ Unary(op, x, "strict", d) = Allowed(v, d)
    BY <1>3, <1>4, <1>8, <1>9 DEF Unary
  <2> QED BY <1>2, <2>1, AllowedStays
<1>10. CASE op # "tor"
  <2>1. /\ Unary(op, x, "strict", c) = Timed(op, v, c)
        /\ Unary(op, x, "strict", d) = Timed(op, v, d)
    BY <1>3, <1>4, <1>8, <1>10 DEF Unary
  <2> QED BY <1>2, <2>1, TimedStays
<1> QED BY <1>9, <1>10

\* Learning does not turn an answer of strict mode into its opposite.
LEMMA AnswersStay ==
    ASSUME NEW c, NEW d, ContextOK(c), ContextOK(d), Extends(d, c),
           NEW chain \in Chains, RunNoeLogic(chain, "strict", c).type = "truth"
    PROVE  RunNoeLogic(chain, "strict", d)
             # Truth(KNot(RunNoeLogic(chain, "strict", c).is))
<1>1. PICK before, after : /\ before = Meaning(chain, "strict", c)
                           /\ after = Meaning(chain, "strict", d)
  OBVIOUS
<1>2. /\ RunNoeLogic(chain, "strict", c) = before /\ before.type = "truth"
  BY <1>1 DEF RunNoeLogic, Error
<1>3. before \in {Truth("T"), Truth("F")}
  BY <1>1, <1>2, MeaningForms DEF Answers, Undefined, Raised
<1> SUFFICES ASSUME RunNoeLogic(chain, "strict", d) = Truth(KNot(before.is))
             PROVE  FALSE
  BY <1>2
<1>4. KNot(before.is) # before.is
  BY <1>3 DEF Truth, KNot
<1>5. after = Truth(KNot(before.is))
  BY <1>1 DEF RunNoeLogic, Error, Truth
<1>6. after = before
  <2>1. Undefined \notin {before, after}
    BY <1>3, <1>5 DEF Undefined, Truth
  <2>2. chain.op \in UnaryOps \cup BinaryOps
    BY ChainForms
  <2> QED BY <1>1, <2>1, <2>2, UnaryStays, BinaryStays
<1> QED BY <1>4, <1>5, <1>6 DEF Truth

\* A strict answer does not turn round when the context learns something: of any chain
\* of one operator, whatever is reported, due, allowed or related.
THEOREM LearningNeverReversesAnswers == WorldSpec => LearningNeverReverses
<1>1. ContextOK(context) /\ [WorldNext]_context =>
        [Extends(context', context) => \A chain \in Chains :
            LET before == RunNoeLogic(chain, "strict", context)
            IN  before.type = "truth" =>
                    RunNoeLogic(chain, "strict", context')
                        # Truth(KNot(before.is))]_context
  <2> SUFFICES ASSUME ContextOK(context), [WorldNext]_context,
                      Extends(context', context), NEW chain \in Chains,
                      RunNoeLogic(chain, "strict", context).type = "truth"
               PROVE  RunNoeLogic(chain, "strict", context')
                         # Truth(KNot(RunNoeLogic(chain, "strict", context).is))
    OBVIOUS
  <2>1. ContextOK(context')
    BY StepGives
  <2> QED BY <2>1, AnswersStay
<1> QED BY <1>1, ContextInvariant, PTL DEF WorldSpec, LearningNeverReverses

=============================================================================
