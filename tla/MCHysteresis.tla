---------------------------- MODULE MCHysteresis ----------------------------
(* Model-checking values for Hysteresis: confidences below, in and above the   *)
(* band; policies that differ in when they emit and in what silence means.     *)
EXTENDS Hysteresis

CONSTANTS door

Policy(change, keep, ttl, mode) ==
    [enter_true |-> 3, exit_true |-> 1, emit_on_change_only |-> change,
     keep_certainty |-> keep, ttl |-> ttl, mode |-> mode]

MCPolicies ==
    {Policy(TRUE, TRUE, 1, "undefined"), Policy(FALSE, TRUE, 0, "undefined"),
     Policy(TRUE, FALSE, 1, "undefined"), Policy(TRUE, TRUE, 0, "hold"), Policy(TRUE, TRUE, NoTtl, "true"),
     Policy(TRUE, FALSE, 1, "true"), Policy(FALSE, FALSE, 0, "false")}

=============================================================================
