---------------------------- MODULE MCSafeContext ---------------------------
(* Model-checking values for SafeContext: one predicate with evidence from two *)
(* sources, one (q) that only the raw layers speak of.                         *)
EXTENDS SafeContext

CONSTANTS p, q, s1, s2, yes, no, object

\* Staleness 2, window 1, skew 1: a reading can be fresh and in the window of the
\* newest, fresh and out of it, stale, slightly or far in the future.
MCGroup == [s \in {s1, s2} |-> s]

Reading(s, v, t, c) ==
    [pred |-> p, source |-> s, value |-> v, t |-> t, confidence |-> c]

NoFacts == [x \in {p, q} |-> Absent]
NoEvidence == [x \in {p, q} |-> Absent]
Bottom == [literals |-> NoFacts, knowledge |-> NoFacts, evidence |-> NoEvidence,
           now |-> Absent]

\* Root holds a default for p, or an object, which is dropped, and may hold a
\* reading of its own; domain holds q.
MCRoots ==
    {[Bottom EXCEPT !.literals[p] = v, !.evidence[p] = e] :
        v \in {object, yes}, e \in {Absent, {Reading(s1, yes, 0, "enough")}}}

MCStarts ==
    {[root |-> r, domain |-> [Bottom EXCEPT !.literals[q] = yes],
      local |-> [Bottom EXCEPT !.now = n, !.evidence[p] = e]] :
        r \in MCRoots, n \in {Absent, 1}, e \in {Absent, {Reading(s2, no, 1, "low")}}}

MCReports ==
    {Reading(s1, yes, 1, "enough"), Reading(s2, no, 2, "enough"),
     Reading(s2, yes, 0, "enough"), Reading(s1, no, 4, "enough"),
     Reading(s2, Incomparable, 2, "enough"), Reading(s1, no, 2, "missing")}

=============================================================================
