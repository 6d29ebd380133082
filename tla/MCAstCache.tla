----------------------------- MODULE MCAstCache -----------------------------
(* Model-checking names for AstCache: three chains that are cached in a cache *)
(* of two, one that is too long and one that does not parse.                  *)
EXTENDS AstCache

CONSTANTS w1, w2, d1, c1, c2, c3, long, junk

=============================================================================
