------------------------------ MODULE MCAgents ------------------------------
EXTENDS Agents

CONSTANTS alice, bob, r1, r2, v1, k1, k2, k3, shi, vek, modal, spatial

MCAgent(id, reg, ops, subs, skew, stale) ==
    [agent_id |-> id, registry_hash |-> reg, semantics_version |-> v1,
     supported_operators |-> ops, context_subsystems |-> subs,
     temporal_config |-> [max_skew |-> skew, tau_stale |-> stale, tau_window |-> 0]]

\* alice comes with either of two configurations, bob with one that fits only some.
MCDeclared ==
    {MCAgent(alice, r1, {shi, vek}, {modal}, 0, 2),
     MCAgent(bob, r1, {shi}, {modal, spatial}, 1, 1),
     MCAgent(alice, r2, {shi}, {modal}, 0, 2)}

\* alice has changed her key once.
MCKeysOf == (alice :> {k1, k2}) @@ (bob :> {k3})

Symmetry == Permutations(Threads)

=============================================================================
