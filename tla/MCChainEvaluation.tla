-------------------------- MODULE MCChainEvaluation --------------------------
EXTENDS ChainEvaluation

\* A strict and a partial context that know nothing of k but that it is a literal.
Blank(strict, lit) ==
    [strict |-> strict, lit |-> [k \in Keys |-> lit], know |-> [k \in Keys |-> "none"],
     bel |-> [k \in Keys |-> "none"], rated |-> [k \in Keys |-> FALSE],
     certain |-> [k \in Keys |-> FALSE], threshold |-> TRUE, spatial |-> TRUE, audit |-> TRUE,
     stale |-> FALSE]

Knows(c, t) == [c EXCEPT !.know = [k \in Keys |-> t]]
Believes(c, t) == [c EXCEPT !.bel = [k \in Keys |-> t]]
Rated(c) == [c EXCEPT !.rated = [k \in Keys |-> TRUE]]
Sure(c) == [Rated(c) EXCEPT !.certain = [k \in Keys |-> TRUE]]

MCContexts ==
    LET S == Blank(TRUE, "T")
        P == Blank(FALSE, "T")
    IN  {S, Believes(S, "T"), Sure(Believes(S, "T")), Knows(S, "F"), Knows(S, "T"),
         P, Believes(P, "T"), Sure(Believes(P, "T")), Knows(P, "F"), Knows(P, "T"),
         Blank(FALSE, "none"), Knows(Blank(FALSE, "none"), "T"), Knows(Blank(TRUE, "none"), "T"),
         Rated(Blank(TRUE, "none")),
         [Knows(S, "T") EXCEPT !.spatial = FALSE],
         [Knows(S, "T") EXCEPT !.audit = FALSE],
         [Knows(S, "T") EXCEPT !.stale = TRUE],
         [Sure(Knows(S, "T")) EXCEPT !.threshold = FALSE]}

=============================================================================
