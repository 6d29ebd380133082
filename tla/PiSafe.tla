------------------------------- MODULE PiSafe -------------------------------
(***************************************************************************)
(* The safety projection of noe/context_projection.py: annotated readings   *)
(* in, trusted bare literals out.                                          *)
(*                                                                         *)
(* A list of readings is a set: order and repetition only decide which of  *)
(* several equal values is kept.  A value that is not comparable (NaN, not *)
(* JSON) is Incomparable; values of different types are different values.  *)
(***************************************************************************)
EXTENDS Integers, FiniteSets

CONSTANTS
    Preds,          \* predicates, "@door_open"
    Sources,
    Readings,       \* comparable values
    Incomparable,   \* stands for a value that cannot be compared
    TauStale,       \* tau_stale_ms
    TauWindow,      \* tau_window_ms
    MaxSkew,        \* MAX_CLOCK_SKEW_MS
    Group           \* independence_groups, each source its own by default

Confidences == {"enough", "low", "missing"}

\* AnnotatedLiteral, before extraction: confidence is reduced to its comparison
\* with theta_thresh, or to its being absent or not a finite number.
Entry == [pred : Preds, source : Sources, value : Readings \cup {Incomparable},
          t : Int, confidence : Confidences]

BareLiteral == [pred : Preds, value : Readings]

ASSUME ProjectionAssumption ==
    /\ Incomparable \notin Readings
    /\ TauStale \in Nat /\ TauWindow \in Nat /\ MaxSkew \in Nat
    /\ DOMAIN Group = Sources

\* Entries without a time stamp or a finite confidence are dropped.
Extract(entries) == {e \in entries : e.confidence # "missing"}

\* Fresh, not from the future, confident, and from a source allowed to speak.
IsCandidate(e, now, auth) ==
    /\ now - e.t >= -MaxSkew
    /\ now - e.t <= TauStale
    /\ e.confidence = "enough"
    /\ e.source \in auth[e.pred]

Candidates(rich, now, auth, p) ==
    {e \in rich : e.pred = p /\ IsCandidate(e, now, auth)}

\* The readings that are simultaneous with the newest one.
LeadingEdge(items) == {e \in items : \A f \in items : f.t - e.t <= TauWindow}

\* What one independence group says.
Says(edge, g) == {e.value : e \in {x \in edge : Group[x.source] = g}} \ {Incomparable}

Groups(edge) == {Group[e.source] : e \in edge}

\* Variant, to see that AgeingIsSafe depends on it: groups are not compared.
ConsistentInGroups(edge) ==
    \A g \in Groups(edge) : \A v, w \in Says(edge, g) : v = w

\* No conflict within a group, none between groups that say anything.
Consistent(edge) ==
    /\ \A g \in Groups(edge) : \A v, w \in Says(edge, g) : v = w
    /\ \A g, h \in Groups(edge) : \A v \in Says(edge, g), w \in Says(edge, h) : v = w

\* pi_safe: a predicate is promoted with the value its leading edge agrees on.
Projection(rich, now, auth) ==
    {l \in BareLiteral :
        LET edge == LeadingEdge(Candidates(rich, now, auth, l.pred))
        IN  Consistent(edge) /\ \E g \in Groups(edge) : l.value \in Says(edge, g)}

=============================================================================
