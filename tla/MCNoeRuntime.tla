---------------------------- MODULE MCNoeRuntime ----------------------------
(* Model-checking values for NoeRuntime.  Path a carries the fact a chain is   *)
(* about, path b what the shape tests ask for.                                 *)
EXTENDS NoeRuntime, FiniteSets

CONSTANTS a, b,          \* the paths
          go, ask, junk, deep,  \* chains: an action, a question, no chain, too deep
          e1             \* the evaluating thread

MCShardSize == [l \in Layer |-> Cardinality({k \in Keys : l[k] # NoValue})]

Empty == [k \in Keys |-> NoValue]
Only(k, v) == [Empty EXCEPT ![k] = v]
Both(v) == [k \in Keys |-> v]

MCRoots == {Empty}
MCDomains == {Only(a, 2)}
MCLocals == {Only(a, 1), Both(1)}
MCInputs == {Only(b, 1)}

MCConfigs ==
    {[strict |-> TRUE, debug |-> TRUE, handlerRaises |-> TRUE, pack |-> Only(a, 2)],
     [strict |-> FALSE, debug |-> FALSE, handlerRaises |-> TRUE, pack |-> NoPack]}

MCWellShaped(layers) == layers.root[b] # NoValue

MCProject(layers) ==
    [MergeLayers(layers.root, layers.domain, layers.local) EXCEPT ![b] = NoValue]

\* An action needs its fact; the fact is asked for of the local layer in strict mode.
MCAccepts(strict, chain, layers) ==
    chain = go => /\ MCProject(layers)[a] # NoValue
                  /\ strict => layers.local[a] # NoValue

MCMeaning(tree, safe) ==
    CASE tree = go -> IF safe[a] = 1 THEN "action" ELSE "undefined"
      [] tree = ask -> IF safe[a] # NoValue THEN "truth" ELSE "error"
      [] OTHER -> "error"

=============================================================================
