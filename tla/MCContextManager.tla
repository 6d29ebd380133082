-------------------------- MODULE MCContextManager --------------------------
(* Model-checking values for ContextManager: two paths, so that a merge can  *)
(* add a path, overwrite one or make the layer too large (limit: one path).  *)
EXTENDS ContextManager, FiniteSets

CONSTANTS a, b   \* the paths

\* One byte per path that is present.
MCShardSize ==
    [l \in Layer |-> Cardinality({k \in Keys : l[k] # NoValue})]

Only(k, v) == [Blank EXCEPT ![k] = v]

\* The one input overwrites path b where it is present, and pushes a layer that
\* holds path a over the limit; local may start over it.
MCInputs == {Only(b, 2)}
MCRoots == {Only(a, 1)}
MCDomains == {Only(a, 1), Only(b, 1)}
MCLocals == {Only(b, 1), [k \in Keys |-> 1]}

=============================================================================
