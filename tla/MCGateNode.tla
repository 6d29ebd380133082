----------------------------- MODULE MCGateNode -----------------------------
(* Model-checking values for GateNode: the default chain, whose meaning is an *)
(* action when the zone is clear and undefined when it is not.                *)
EXTENDS GateNode

MCVerdicts == [clear \in BOOLEAN |-> IF clear THEN {"action"} ELSE {"undefined"}]

=============================================================================
