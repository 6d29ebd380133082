--------------------------- MODULE ContextLayers ---------------------------
(***************************************************************************)
(* The data a context is made of (noe/context_manager.py).                 *)
(*                                                                         *)
(* A layer is a JSON object.  It is abstracted to a total function from    *)
(* the leaf paths of interest to a value or NoValue (the path is absent):  *)
(* paths keep their kind, a leaf never becomes an object or the reverse.   *)
(* SHA-256 over canonical JSON is an injective tag of the value it was     *)
(* computed from, so a digest can be compared and can go out of date but   *)
(* never collides.                                                         *)
(***************************************************************************)
EXTENDS Integers

CONSTANTS
    Keys,       \* the leaf paths of a layer
    Values,     \* the values a leaf can hold
    NoValue,    \* stands for an absent path
    ShardSize,  \* bytes of canonical JSON, as a function of the layer
    MaxShard    \* max_shard_size; 0 means unlimited

Layer == [Keys -> Values \cup {NoValue}]

ASSUME LayerAssumption ==
    /\ NoValue \notin Values
    /\ ShardSize \in [Layer -> Nat]
    /\ MaxShard \in Nat

\* _deep_merge: the overlay wins wherever it has a value.
Merge(base, overlay) ==
    [k \in Keys |-> IF overlay[k] # NoValue THEN overlay[k] ELSE base[k]]

\* root < domain < local, merged from three separate copies.
MergeLayers(r, d, l) == Merge(Merge(r, d), l)

\* The size test of _hash_json_digest and of the local mutators.
Fits(layer) == MaxShard = 0 \/ ShardSize[layer] <= MaxShard

Digest(layer) == [sha256 |-> layer]

\* The composite hash is taken over the three byte digests, in this order.
Composite(rootDigest, domainDigest, localDigest) ==
    <<rootDigest, domainDigest, localDigest>>

=============================================================================
