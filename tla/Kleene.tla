------------------------------- MODULE Kleene -------------------------------
(***************************************************************************)
(* The three truth values of the Noe language and their Strong Kleene      *)
(* connectives, as formal/noe_k3_proofs.py states them: the meaning the    *)
(* two evaluators are compared with.                                       *)
(***************************************************************************)

K3 == {"T", "F", "U"}

KNot(x) == CASE x = "T" -> "F" [] x = "F" -> "T" [] OTHER -> "U"

\* F dominates.
KAnd(x, y) == IF "F" \in {x, y} THEN "F" ELSE IF "U" \in {x, y} THEN "U" ELSE "T"

\* T dominates.
KOr(x, y) == IF "T" \in {x, y} THEN "T" ELSE IF "U" \in {x, y} THEN "U" ELSE "F"

\* khi and kra: what is guarded passes if the guard is true.
KGuard(g, x) == IF g = "T" THEN x ELSE "U"

\* y says what x says, and perhaps more.
Refines(x, y) == x = "U" \/ x = y

=============================================================================
