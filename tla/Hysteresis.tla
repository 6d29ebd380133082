----------------------------- MODULE Hysteresis -----------------------------
(***************************************************************************)
(* The input filter of noe/hysteresis_adapter.py: confidences in, latched  *)
(* truth values out, as a delta that the caller lays over the local layer  *)
(* of the context with ContextManager.update_local.                        *)
(*                                                                         *)
(* The filter is a function of its state; what can go wrong is that the    *)
(* context, which only hears of changes, no longer says what the state     *)
(* says, because the policy changed or a delta was refused.  Tick numbers, *)
(* the debugging copy of the state in the delta, and the fields of the     *)
(* state that no step reads (last_conf, last_tick, invalid_count) are left *)
(* out.                                                                    *)
(***************************************************************************)
EXTENDS Integers, FiniteSets

CONSTANTS
    Keys,        \* canonical keys, "@door_open"
    Conf,        \* finite confidences
    Missing,     \* the key is not in raw_inputs
    Invalid,     \* NaN, an infinity, or no number
    Policies,    \* the policies a key may be given
    NoPolicy, NoTtl, Untracked,
    None,        \* Python's None: undefined
    Absent,      \* no such field
    MaxTicks     \* bound on the calls of the filter

Modes == {"hold", "true", "false", "undefined"}

\* PolicyEntry; __post_init__ rejects the other combinations.
PolicyEntry ==
    {p \in [enter_true : Conf, exit_true : Conf, emit_on_change_only : BOOLEAN,
            keep_certainty : BOOLEAN, ttl : 0..MaxTicks \cup {NoTtl}, mode : Modes] :
        p.enter_true > p.exit_true}

ASSUME HysteresisAssumption ==
    /\ Conf \subseteq Int
    /\ Policies \subseteq PolicyEntry
    /\ MaxTicks \in Nat
    /\ Missing \notin Conf /\ Invalid \notin Conf
    /\ NoPolicy \notin Policies
    /\ None \notin Conf /\ None \notin BOOLEAN
    /\ Absent \notin Conf /\ Absent \notin BOOLEAN /\ Absent # None

VARIABLES
    policy,    \* the policy of the next call
    state,     \* adapter_state
    outputs,   \* what the context has under adapters.hysteresis.outputs
    ticks,     \* calls so far
    outside,   \* history: the last confidence outside the band since the value
               \* was last undefined, "high", "low" or "none"; or "silence", if the
               \* policy's value for missing input has taken its place
    told       \* history: of the last value emitted for the key, whether the context
               \* took it and whether the policy kept the confidence

vars == <<policy, state, outputs, ticks, outside, told>>

StateEntry == [stable : BOOLEAN \cup {None}, missing_count : 0..MaxTicks]

Fresh == [stable |-> FALSE, missing_count |-> 0]

ASSUME UntrackedAssumption == Untracked \notin StateEntry

Silent == [stable |-> Absent, raw |-> Absent]

-----------------------------------------------------------------------------
(* update_one *)

Overdue(pol, missing) == pol.ttl # NoTtl /\ missing > pol.ttl

\* Variant, to see that TypeOK depends on it: the value is removed, not None.
ExpiredRemoved(old, pol) ==
    IF pol.mode = "hold" THEN old
    ELSE IF pol.mode = "undefined" THEN Absent
    ELSE pol.mode = "true"

\* What a missing input makes of the value once its time to live is over.
Expired(old, pol) ==
    IF pol.mode = "hold" THEN old
    ELSE IF pol.mode = "undefined" THEN None
    ELSE pol.mode = "true"

\* Variant, to see that LatchFollowsReadings depends on it: one threshold.
LatchSingle(old, conf, pol) == conf >= pol.enter_true

\* The latch: on at enter_true, off at exit_true; undefined counts as off, and
\* enter_true is over exit_true.
Latch(old, conf, pol) ==
    conf >= pol.enter_true \/ (old = TRUE /\ conf > pol.exit_true)

UpdateOne(st, conf, pol) ==
    LET missing == st.missing_count + 1
    IN  IF conf = Missing
        THEN [stable |-> IF Overdue(pol, missing) THEN Expired(st.stable, pol) ELSE st.stable,
              missing_count |-> missing]
        ELSE [stable |-> IF conf = Invalid THEN st.stable ELSE Latch(st.stable, conf, pol),
              missing_count |-> 0]

-----------------------------------------------------------------------------
(* apply_hysteresis_adapter *)

\* Keys that are only in the policy are not looked at.
Processed(raw) == {k \in Keys : raw[k] # Missing \/ state[k] # Untracked}

\* A key without policy loses its state, and the delta does not mention it.
NextState(raw) ==
    [k \in Keys |->
        IF k \notin Processed(raw) \/ policy[k] = NoPolicy THEN Untracked
        ELSE UpdateOne(IF state[k] = Untracked THEN Fresh ELSE state[k], raw[k], policy[k])]

Changed(k, next) == state[k] = Untracked \/ state[k].stable # next[k].stable

\* The value emitted for a key: undefined is emitted once, when it comes about.
EmitStable(k, next) ==
    IF policy[k].emit_on_change_only /\ ~Changed(k, next) THEN Absent
    ELSE IF next[k].stable # None THEN next[k].stable
    ELSE IF policy[k].mode = "undefined" /\ Changed(k, next) THEN None
    ELSE Absent

EmitRaw(k, next, conf) ==
    IF ~policy[k].keep_certainty THEN Absent
    ELSE IF conf \in Conf THEN conf
    ELSE IF policy[k].mode = "undefined" /\ Changed(k, next) THEN None
    ELSE Absent

\* Variant, to see that ContextFollowsState depends on it: undefined is not a value.
DeltaDefined(raw, next) ==
    [k \in Keys |->
        IF next[k] = Untracked THEN Silent
        ELSE [stable |-> IF EmitStable(k, next) = None THEN Absent ELSE EmitStable(k, next),
              raw |-> EmitRaw(k, next, raw[k])]]

Delta(raw, next) ==
    [k \in Keys |->
        IF next[k] = Untracked THEN Silent
        ELSE [stable |-> EmitStable(k, next), raw |-> EmitRaw(k, next, raw[k])]]

\* A field that the delta does not have stays.
Over(new, old) == IF new = Absent THEN old ELSE new

\* _deep_merge of the delta into the local layer.
MergeDelta(delta) ==
    [k \in Keys |-> [stable |-> Over(delta[k].stable, outputs[k].stable),
                     raw |-> Over(delta[k].raw, outputs[k].raw)]]

-----------------------------------------------------------------------------

Init ==
    /\ policy \in [Keys -> Policies]
    /\ state = [k \in Keys |-> Untracked]
    /\ outputs = [k \in Keys |-> Silent]
    /\ ticks = 0
    /\ outside = [k \in Keys |-> "none"]
    /\ told = [k \in Keys |-> [taken |-> TRUE, confidence |-> TRUE]]

\* Where a confidence lies, seen from the policy.
Side(k, conf, next) ==
    IF next[k] = Untracked \/ next[k].stable = None THEN "none"
    ELSE IF /\ Overdue(policy[k], next[k].missing_count)
            /\ policy[k].mode \in {"true", "false"} THEN "silence"
    ELSE IF conf \notin Conf THEN outside[k]
    ELSE IF conf >= policy[k].enter_true THEN "high"
    ELSE IF conf <= policy[k].exit_true THEN "low"
    ELSE outside[k]

\* One tick of the caller's loop: the filter, then update_local with the delta,
\* which accepts it unless the local layer would get too large.
Apply(raw, accepted) ==
    /\ ticks < MaxTicks
    /\ ticks' = ticks + 1
    /\ LET next == NextState(raw)
           delta == Delta(raw, next)
       IN  /\ state' = next
           /\ outputs' = IF accepted THEN MergeDelta(delta) ELSE outputs
           /\ outside' = [k \in Keys |-> Side(k, raw[k], next)]
           /\ told' = [k \in Keys |->
                          IF delta[k].stable = Absent THEN told[k]
                          ELSE [taken |-> accepted, confidence |-> policy[k].keep_certainty]]
    /\ UNCHANGED policy

\* The caller passes another policy for a key.
SetPolicy(k, pol) ==
    /\ policy' = [policy EXCEPT ![k] = pol]
    /\ UNCHANGED <<state, outputs, ticks, outside, told>>

Next ==
    \/ \E raw \in [Keys -> Conf \cup {Missing, Invalid}], accepted \in BOOLEAN :
         Apply(raw, accepted)
    \/ \E k \in Keys, pol \in Policies \cup {NoPolicy} : SetPolicy(k, pol)

Spec == Init /\ [][Next]_vars

-----------------------------------------------------------------------------
(* Properties *)

\* The variables have the types of their code counterparts.
TypeOK ==
    /\ policy \in [Keys -> Policies \cup {NoPolicy}]
    /\ state \in [Keys -> StateEntry \cup {Untracked}]
    /\ outputs \in [Keys -> [stable : BOOLEAN \cup {None, Absent},
                             raw : Conf \cup {None, Absent}]]
    /\ ticks \in 0..MaxTicks

\* Although it is told of changes only, the context says of a key what the filter
\* holds, undefined included, also after the policy changed; a key that became
\* undefined under a policy that keeps confidences has none left.  A refused delta
\* is made up for by the next change.
ContextFollowsState ==
    \A k \in Keys : state[k] # Untracked /\ told[k].taken =>
        /\ outputs[k].stable = state[k].stable
        /\ state[k].stable = None /\ told[k].confidence => outputs[k].raw = None

\* A value is on only if the last confidence outside the band was at or over
\* enter_true, and off only if it was not: in the band, on missing and on invalid
\* input the value stays, unless a time to live ran out and the policy set it.
LatchFollowsReadings ==
    \A k \in Keys : state[k] # Untracked =>
        /\ state[k].stable = TRUE => outside[k] \in {"high", "silence"}
        /\ state[k].stable = FALSE => outside[k] # "high"

=============================================================================
