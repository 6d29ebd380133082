----------------------------- MODULE SafeContext ----------------------------
(***************************************************************************)
(* build_safe_context of noe/noe_validator.py: the three layers are merged, *)
(* the evidence in the merge is projected, and the projection is laid over *)
(* the literals and the knowledge the merge carries.  In strict mode any   *)
(* predicate whose evidence is suppressed stops the chain.                 *)
(*                                                                         *)
(* The layers live in a process that reports readings and moves the time   *)
(* they carry (temporal.now); a build may happen at any moment between.    *)
(***************************************************************************)
EXTENDS PiSafe

CONSTANTS
    Absent,        \* a path a layer does not have
    Scalars,       \* the readings that are no objects or lists
    Starts,        \* the contexts to start from
    Reports,       \* the readings that may come in
    MaxNow         \* bound on temporal.now

VARIABLES
    layers,   \* root, domain and local
    mode,     \* "strict" or "partial"
    built     \* what the last build gave

vars == <<layers, mode, built>>

Facts == [Preds -> Readings \cup {Absent}]

\* A layer, as far as it matters here: literals, knowledge, lists of readings, and
\* temporal.now.
LayerOK(layer) ==
    /\ DOMAIN layer = {"literals", "knowledge", "evidence", "now"}
    /\ layer.literals \in Facts /\ layer.knowledge \in Facts
    /\ DOMAIN layer.evidence = Preds
    /\ \A p \in Preds : layer.evidence[p] # Absent => layer.evidence[p] \subseteq Entry
    /\ layer.now \in Nat \cup {Absent}

LayersOK(ls) ==
    /\ DOMAIN ls = {"root", "domain", "local"}
    /\ LayerOK(ls.root) /\ LayerOK(ls.domain) /\ LayerOK(ls.local)

ASSUME SafeContextAssumption ==
    /\ \A ls \in Starts : LayersOK(ls)
    /\ Reports \subseteq Entry
    /\ Absent \notin Nat /\ Absent \notin Readings

NotBuilt == [status |-> "none"]

\* Everyone may speak: build_safe_context passes no authority map.
AnySource == [p \in Preds |-> Sources]

\* The deep merge, path by path: the topmost layer that has the path wins; a list
\* of evidence is one value, so a higher layer's list replaces a lower one's.
Top(ls, field, p) ==
    IF ls.local[field][p] # Absent THEN ls.local[field][p]
    ELSE IF ls.domain[field][p] # Absent THEN ls.domain[field][p]
    ELSE ls.root[field][p]

MergedNow(ls) ==
    IF ls.local.now # Absent THEN ls.local.now
    ELSE IF ls.domain.now # Absent THEN ls.domain.now
    ELSE IF ls.root.now # Absent THEN ls.root.now ELSE 0

\* extract_evidence_from_context, called with the merged, flat context.
Annotated(ls) ==
    Extract(UNION {Top(ls, "evidence", p) :
                   p \in {q \in Preds : Top(ls, "evidence", q) # Absent}})

Safe(ls) == Projection(Annotated(ls), MergedNow(ls), AnySource)

\* What the merge has, if it is a scalar.
Bare(ls, field, p) ==
    IF Top(ls, field, p) \in Scalars THEN Top(ls, field, p) ELSE Absent

\* Variant, to see that TypeOK depends on it: the literal is laid over, not its
\* value.
OverlayUnwrapped(ls, field) ==
    [p \in Preds |->
        IF \E l \in Safe(ls) : l.pred = p
        THEN CHOOSE l \in Safe(ls) : l.pred = p
        ELSE Bare(ls, field, p)]

\* The projected value where there is one, else what the merge has.
Overlay(ls, field) ==
    [p \in Preds |->
        IF \E l \in Safe(ls) : l.pred = p
        THEN (CHOOSE l \in Safe(ls) : l.pred = p).value
        ELSE Bare(ls, field, p)]

\* Variant, to see that StrictAdmission depends on it: a predicate counts as
\* suppressed only if no reading of it at all is a candidate.
SuppressedUnlessCandidate(ls) ==
    {p \in {e.pred : e \in Annotated(ls)} :
        Candidates(Annotated(ls), MergedNow(ls), AnySource, p) = {}}

\* Predicates with evidence that gave no literal: stale, or doubtful, or in conflict.
Suppressed(ls) == {e.pred : e \in Annotated(ls)} \ {l.pred : l \in Safe(ls)}

CSafe(ls) == [literals |-> Overlay(ls, "literals"),
              knowledge |-> Overlay(ls, "knowledge"),
              now |-> MergedNow(ls)]

BuildSafeContext(ls, m) ==
    IF m = "strict" /\ Suppressed(ls) # {}
    THEN [status |-> "ERR_STALE_CONTEXT"]
    ELSE [status |-> "ok", safe |-> CSafe(ls), hash |-> [sha256 |-> CSafe(ls)]]

-----------------------------------------------------------------------------

Init ==
    /\ layers \in Starts
    /\ mode \in {"strict", "partial"}
    /\ built = NotBuilt

Build ==
    /\ built' = BuildSafeContext(layers, mode)
    /\ UNCHANGED <<layers, mode>>

\* A reading is reported: update_local with a longer list for its predicate.
Report(e) ==
    LET old == layers.local.evidence[e.pred]
    IN  /\ layers' = [layers EXCEPT !.local.evidence[e.pred] =
                        {e} \cup (IF old = Absent THEN {} ELSE old)]
        /\ UNCHANGED <<mode, built>>

\* The time the context carries moves on.
TimePasses ==
    /\ MergedNow(layers) < MaxNow
    /\ layers' = [layers EXCEPT !.local.now = MergedNow(layers) + 1]
    /\ UNCHANGED <<mode, built>>

Next ==
    \/ Build
    \/ TimePasses
    \/ \E e \in Reports : Report(e)

Spec == Init /\ [][Next]_vars

-----------------------------------------------------------------------------
(* Properties *)

\* The variables have the types of their code counterparts.
TypeOK ==
    /\ LayersOK(layers)
    /\ mode \in {"strict", "partial"}
    /\ built.status \in {"none", "ok", "ERR_STALE_CONTEXT"}
    /\ built.status = "ok" => /\ built.safe.literals \in Facts
                              /\ built.safe.knowledge \in Facts

\* The readings that count for p now: valid, fresh, confident.
Standing(p) == Candidates(Annotated(layers), MergedNow(layers), AnySource, p)

\* A context built in strict mode says of a predicate with evidence exactly what
\* the newest standing reading says, and no standing reading within the window of
\* it says otherwise; a doubtful predicate stops the whole build.
StrictAdmission ==
    [][built' # built /\ built'.status = "ok" /\ mode = "strict" =>
        \A p \in {e.pred : e \in Annotated(layers)} :
            \E e \in Standing(p) :
                /\ built'.safe.literals[p] = e.value
                /\ built'.safe.knowledge[p] = e.value
                /\ \A f \in Standing(p) : f.t - e.t <= TauWindow
                /\ \A f \in Standing(p) :
                     (\A g \in Standing(p) : g.t - f.t <= TauWindow)
                        => f.value \in {e.value, Incomparable}]_vars

\* While no reading comes in and none is from the future, the passing of time
\* takes literals away, and brings back what a conflict held down, but it never
\* changes the value a predicate is trusted with.
AgeingIsSafe ==
    [][layers'.local.evidence = layers.local.evidence
        /\ (\A e \in Annotated(layers) : e.t <= MergedNow(layers)) =>
        \A l \in Safe(layers), m \in Safe(layers)' :
            l.pred = m.pred => l.value = m.value]_vars

=============================================================================
