-------------------------- MODULE Hysteresis_proofs --------------------------
(***************************************************************************)
(* Proofs about Hysteresis, for any keys, any confidences, any policies    *)
(* that PolicyEntry accepts and any number of ticks.                       *)
(***************************************************************************)
EXTENDS Hysteresis, TLAPS

USE HysteresisAssumption, UntrackedAssumption

Inputs == [Keys -> Conf \cup {Missing, Invalid}]

-----------------------------------------------------------------------------
(* The inductive invariant *)

HistoryOK ==
    /\ outside \in [Keys -> {"none", "high", "low", "silence"}]
    /\ told \in [Keys -> [taken : BOOLEAN, confidence : BOOLEAN]]

\* A key misses at most as many inputs as there were ticks.
CountsBounded ==
    \A k \in Keys : state[k] # Untracked => state[k].missing_count <= ticks

\* A key that has no value, or none that is defined, has no last reading either.
NothingOutside ==
    \A k \in Keys :
        state[k] = Untracked \/ state[k].stable = None => outside[k] = "none"

IInv ==
    /\ TypeOK
    /\ HistoryOK
    /\ CountsBounded
    /\ NothingOutside
    /\ ContextFollowsState
    /\ LatchFollowsReadings

\* The entry that update_one starts from.
Prev(k) == IF state[k] = Untracked THEN Fresh ELSE state[k]

-----------------------------------------------------------------------------
(* Lemmas about update_one *)

\* What a policy is made of (PolicyEntry.__post_init__).
LEMMA PolicyFields ==
    ASSUME NEW pol \in Policies
    PROVE  /\ pol.enter_true \in Int /\ pol.exit_true \in Int
           /\ pol.exit_true < pol.enter_true
           /\ pol.keep_certainty \in BOOLEAN /\ pol.emit_on_change_only \in BOOLEAN
           /\ pol.ttl \in 0..MaxTicks \cup {NoTtl}
           /\ pol.mode \in Modes
<1>1. pol \in PolicyEntry
    OBVIOUS
<1> QED BY <1>1 DEF PolicyEntry

\* A finite confidence is latched: on at enter_true, off at exit_true, else as before.
LEMMA LatchCases ==
    ASSUME NEW old \in BOOLEAN \cup {None}, NEW conf \in Conf, NEW pol \in Policies
    PROVE  /\ Latch(old, conf, pol) \in BOOLEAN
           /\ conf >= pol.enter_true => Latch(old, conf, pol) = TRUE
           /\ conf <= pol.exit_true => Latch(old, conf, pol) = FALSE
           /\ conf < pol.enter_true /\ conf > pol.exit_true =>
                (Latch(old, conf, pol) = TRUE <=> old = TRUE)
<1>1. /\ conf \in Int /\ pol.enter_true \in Int /\ pol.exit_true \in Int
      /\ pol.exit_true < pol.enter_true
    BY PolicyFields
<1> DEFINE on == Latch(old, conf, pol)
<1>2. on \in BOOLEAN
    BY DEF Latch
<1>3. on <=> (conf >= pol.enter_true \/ (old = TRUE /\ conf > pol.exit_true))
    BY DEF Latch
<1> HIDE DEF on
<1>4. conf >= pol.enter_true => on
    BY <1>1, <1>3
<1>5. conf <= pol.exit_true => ~on
    BY <1>1, <1>3
<1>6. conf < pol.enter_true /\ conf > pol.exit_true => (on <=> old = TRUE)
    BY <1>1, <1>3
<1> QED BY <1>2, <1>4, <1>5, <1>6 DEF on

\* The value after an input that is missing or invalid: as before, unless a time to
\* live is over and the policy names another.
LEMMA SilentCases ==
    ASSUME NEW st, st.stable \in BOOLEAN \cup {None}, st.missing_count \in Nat,
           NEW conf \in {Missing, Invalid}, NEW pol \in Policies,
           NEW u, u = UpdateOne(st, conf, pol)
    PROVE  /\ u.stable \in BOOLEAN \cup {None}
           /\ u.stable # st.stable =>
                /\ conf = Missing
                /\ Overdue(pol, u.missing_count)
                /\ u.stable = None => pol.mode = "undefined"
                /\ u.stable # None => pol.mode \in {"true", "false"}
<1>1. CASE conf = Missing
    <2>1. /\ u.stable = IF Overdue(pol, st.missing_count + 1)
                        THEN Expired(st.stable, pol) ELSE st.stable
          /\ u.missing_count = st.missing_count + 1
        BY <1>1 DEF UpdateOne
    <2>2. pol.mode \in Modes
        BY PolicyFields
    <2> QED BY <1>1, <2>1, <2>2 DEF Expired, Modes
<1>2. CASE conf # Missing
    BY <1>2 DEF UpdateOne
<1> QED BY <1>1, <1>2

\* The value after a finite confidence.
LEMMA ReadingCases ==
    ASSUME NEW st, NEW conf \in Conf, NEW pol
    PROVE  UpdateOne(st, conf, pol) =
             [stable |-> Latch(st.stable, conf, pol), missing_count |-> 0]
BY DEF UpdateOne

\* How many inputs were missing in a row.
LEMMA CountCases ==
    ASSUME NEW st, st.missing_count \in Nat,
           NEW conf \in Conf \cup {Missing, Invalid}, NEW pol \in Policies
    PROVE  /\ UpdateOne(st, conf, pol).missing_count \in Nat
           /\ UpdateOne(st, conf, pol).missing_count <= st.missing_count + 1
           /\ conf # Missing => /\ UpdateOne(st, conf, pol).missing_count = 0
                               /\ ~Overdue(pol, UpdateOne(st, conf, pol).missing_count)
<1> DEFINE u == UpdateOne(st, conf, pol)
<1>1. CASE conf = Missing
    BY <1>1 DEF UpdateOne
<1>2. CASE conf # Missing
    <2>1. u.missing_count = 0
        BY <1>2 DEF UpdateOne
    <2>2. ~Overdue(pol, 0)
        BY PolicyFields DEF Overdue
    <2> QED BY <2>1, <2>2
<1> QED BY <1>1, <1>2

\* An entry has the two fields and no other.
LEMMA UpdateOneIsTyped ==
    ASSUME NEW n \in Nat, NEW st \in [stable : BOOLEAN \cup {None}, missing_count : 0..n],
           NEW conf \in Conf \cup {Missing, Invalid}, NEW pol \in Policies
    PROVE  UpdateOne(st, conf, pol)
               \in [stable : BOOLEAN \cup {None}, missing_count : 0..(n + 1)]
<1> DEFINE u == UpdateOne(st, conf, pol)
<1>1. u.missing_count \in 0..(n + 1)
    <2>1. st.missing_count \in Nat /\ st.missing_count <= n
        OBVIOUS
    <2>2. u.missing_count \in Nat /\ u.missing_count <= st.missing_count + 1
        BY <2>1, CountCases
    <2> HIDE DEF u
    <2> QED BY <2>1, <2>2
<1>2. u.stable \in BOOLEAN \cup {None}
    <2>1. CASE conf \in Conf
        <3>1. u.stable = Latch(st.stable, conf, pol)
            BY <2>1 DEF UpdateOne
        <3> QED BY <2>1, <3>1, LatchCases
    <2>2. CASE conf \notin Conf
        <3>1. conf \in {Missing, Invalid} /\ st.missing_count \in Nat
            BY <2>2
        <3> QED BY <3>1, SilentCases
    <2> QED BY <2>1, <2>2
<1>3. u = [stable |-> u.stable, missing_count |-> u.missing_count]
    BY DEF UpdateOne
<1> HIDE DEF u
<1>4. u \in [stable : BOOLEAN \cup {None}, missing_count : 0..(n + 1)]
    BY <1>1, <1>2, <1>3
<1> QED BY <1>4 DEF u

-----------------------------------------------------------------------------
(* One tick, seen from one key *)

\* What a tick does, with the state after it in place of the LET.
LEMMA ApplyFacts ==
    ASSUME NEW raw, NEW accepted, Apply(raw, accepted)
    PROVE  /\ ticks < MaxTicks /\ ticks' = ticks + 1
           /\ state' = NextState(raw)
           /\ outputs' = IF accepted THEN MergeDelta(Delta(raw, state')) ELSE outputs
           /\ outside' = [k \in Keys |-> Side(k, raw[k], state')]
           /\ told' = [k \in Keys |->
                         IF Delta(raw, state')[k].stable = Absent THEN told[k]
                         ELSE [taken |-> accepted,
                               confidence |-> policy[k].keep_certainty]]
           /\ policy' = policy
BY DEF Apply

\* An entry before the tick is a new one or the one of the state.
LEMMA PrevIsTyped ==
    ASSUME IInv, NEW k \in Keys
    PROVE  /\ Prev(k) \in [stable : BOOLEAN \cup {None}, missing_count : 0..ticks]
           /\ Prev(k).stable \in BOOLEAN \cup {None} /\ Prev(k).missing_count \in Nat
           /\ Prev(k).stable = TRUE => outside[k] \in {"high", "silence"}
           /\ Prev(k).stable # TRUE => outside[k] # "high"
<1>1. ticks \in Nat /\ state[k] \in StateEntry \cup {Untracked}
    BY DEF IInv, TypeOK
<1>2. CASE state[k] = Untracked
    <2>1. Prev(k) = Fresh /\ outside[k] = "none"
        BY <1>2 DEF Prev, IInv, NothingOutside
    <2> QED BY <1>1, <2>1 DEF Fresh
<1>3. CASE state[k] # Untracked
    <2>1. Prev(k) = state[k] /\ state[k] \in StateEntry /\ state[k].missing_count <= ticks
        BY <1>1, <1>3 DEF Prev, IInv, CountsBounded
    <2>2. /\ state[k].stable = TRUE => outside[k] \in {"high", "silence"}
          /\ state[k].stable = FALSE => outside[k] # "high"
          /\ state[k].stable = None => outside[k] = "none"
        BY <1>3 DEF IInv, LatchFollowsReadings, NothingOutside
    <2>3. state[k].stable \in BOOLEAN \cup {None} /\ state[k].missing_count \in 0..MaxTicks
        BY <2>1 DEF StateEntry
    <2>4. state[k].missing_count \in 0..ticks
        BY <1>1, <2>1, <2>3
    <2>5. state[k] \in [stable : BOOLEAN \cup {None}, missing_count : 0..ticks]
        BY <2>1, <2>3, <2>4 DEF StateEntry
    <2>6. state[k].stable # TRUE => outside[k] # "high"
        BY <2>2, <2>3
    <2>7. Prev(k).missing_count \in Nat
        BY <1>1, <2>1, <2>4
    <2>8. Prev(k).stable # TRUE => outside[k] # "high"
        BY <2>1, <2>6
    <2>9. Prev(k).stable = TRUE => outside[k] \in {"high", "silence"}
        BY <2>1, <2>2
    <2>10. Prev(k).stable \in BOOLEAN \cup {None}
        BY <2>1, <2>3
    <2>11. Prev(k) \in [stable : BOOLEAN \cup {None}, missing_count : 0..ticks]
        BY <2>1, <2>5
    <2> HIDE DEF Prev
    <2> QED BY <2>7, <2>8, <2>9, <2>10, <2>11
<1> QED BY <1>2, <1>3

\* After a tick a key has no state, or that which update_one made.
LEMMA KeyIsUpdated ==
    ASSUME IInv, NEW raw \in Inputs, NEW accepted, Apply(raw, accepted), NEW k \in Keys,
           state'[k] # Untracked
    PROVE  /\ policy[k] \in Policies
           /\ raw[k] \in Conf \cup {Missing, Invalid}
           /\ state'[k] = UpdateOne(Prev(k), raw[k], policy[k])
           /\ state'[k] \in [stable : BOOLEAN \cup {None}, missing_count : 0..(ticks + 1)]
<1>1. state'[k] = IF k \notin Processed(raw) \/ policy[k] = NoPolicy THEN Untracked
                  ELSE UpdateOne(Prev(k), raw[k], policy[k])
    BY ApplyFacts DEF NextState, Prev
<1>2. policy[k] \in Policies /\ state'[k] = UpdateOne(Prev(k), raw[k], policy[k])
    BY <1>1 DEF IInv, TypeOK
<1>3. raw[k] \in Conf \cup {Missing, Invalid}
    BY DEF Inputs
<1>4. ticks \in Nat
    BY DEF IInv, TypeOK
<1>5. Prev(k) \in [stable : BOOLEAN \cup {None}, missing_count : 0..ticks]
    BY PrevIsTyped
<1>6. UpdateOne(Prev(k), raw[k], policy[k])
        \in [stable : BOOLEAN \cup {None}, missing_count : 0..(ticks + 1)]
    BY <1>2, <1>3, <1>4, <1>5, UpdateOneIsTyped
<1> QED BY <1>2, <1>3, <1>6

\* The history of a key after a tick, and the value it goes with.
LEMMA KeyFollowsReadings ==
    ASSUME IInv, NEW raw \in Inputs, NEW accepted, Apply(raw, accepted), NEW k \in Keys
    PROVE  /\ outside'[k] \in {"none", "high", "low", "silence"}
           /\ state'[k] = Untracked \/ state'[k].stable = None => outside'[k] = "none"
           /\ state'[k] # Untracked =>
                /\ state'[k].stable = TRUE => outside'[k] \in {"high", "silence"}
                /\ state'[k].stable = FALSE => outside'[k] # "high"
<1>1. outside'[k] = Side(k, raw[k], state')
    BY ApplyFacts
<1>2. outside[k] \in {"none", "high", "low", "silence"}
    BY DEF IInv, HistoryOK
<1>3. CASE state'[k] = Untracked
    BY <1>1, <1>3 DEF Side
<1>4. CASE state'[k] # Untracked
    <2>1. /\ policy[k] \in Policies
          /\ raw[k] \in Conf \cup {Missing, Invalid}
          /\ state'[k] = UpdateOne(Prev(k), raw[k], policy[k])
          /\ state'[k].stable \in BOOLEAN \cup {None}
        BY <1>4, KeyIsUpdated
    <2>2. /\ Prev(k).stable \in BOOLEAN \cup {None} /\ Prev(k).missing_count \in Nat
          /\ Prev(k).stable = TRUE => outside[k] \in {"high", "silence"}
          /\ Prev(k).stable # TRUE => outside[k] # "high"
        BY PrevIsTyped
    <2>3. CASE state'[k].stable = None
        BY <1>1, <1>4, <2>3 DEF Side
    <2>4. CASE state'[k].stable # None /\ raw[k] \notin Conf
        <3>1. outside'[k] =
                IF /\ Overdue(policy[k], state'[k].missing_count)
                   /\ policy[k].mode \in {"true", "false"} THEN "silence" ELSE outside[k]
            BY <1>1, <1>4, <2>4 DEF Side
        <3>2. state'[k].stable # Prev(k).stable =>
                /\ Overdue(policy[k], state'[k].missing_count)
                /\ policy[k].mode \in {"true", "false"}
            BY <2>1, <2>2, <2>4, SilentCases
        <3>3. outside'[k] \in {"none", "high", "low", "silence"}
            BY <1>2, <3>1
        <3>4. CASE state'[k].stable = Prev(k).stable
            <4>1. outside'[k] \in {"silence", outside[k]}
                BY <3>1
            <4>2. state'[k].stable = TRUE => outside'[k] \in {"high", "silence"}
                BY <2>2, <3>4, <4>1
            <4>3. state'[k].stable = FALSE => outside'[k] # "high"
                <5>1. state'[k].stable = FALSE => Prev(k).stable # TRUE
                    BY <3>4
                <5> QED BY <2>2, <4>1, <5>1
            <4> QED BY <1>4, <2>4, <3>3, <4>2, <4>3
        <3>5. CASE state'[k].stable # Prev(k).stable
            <4>1. outside'[k] = "silence"
                BY <3>1, <3>2, <3>5
            <4> QED BY <1>4, <2>4, <4>1
        <3> QED BY <3>4, <3>5
    <2>5. CASE state'[k].stable # None /\ raw[k] \in Conf
        <3>1. raw[k] # Missing
            BY <2>5
        <3>2. ~Overdue(policy[k], state'[k].missing_count)
            <4>1. ~Overdue(policy[k],
                           UpdateOne(Prev(k), raw[k], policy[k]).missing_count)
                BY <2>1, <2>2, <3>1, CountCases
            <4> QED BY <2>1, <4>1
        <3>3. outside'[k] =
                IF raw[k] >= policy[k].enter_true THEN "high"
                ELSE IF raw[k] <= policy[k].exit_true THEN "low" ELSE outside[k]
            BY <1>1, <1>4, <2>5, <3>2 DEF Side
        <3>4. state'[k].stable = Latch(Prev(k).stable, raw[k], policy[k])
            <4>1. state'[k] = [stable |-> Latch(Prev(k).stable, raw[k], policy[k]),
                               missing_count |-> 0]
                BY <2>1, <2>5, ReadingCases
            <4> QED BY <4>1
        <3>5. /\ raw[k] \in Int /\ policy[k].enter_true \in Int
              /\ policy[k].exit_true \in Int
              /\ policy[k].exit_true < policy[k].enter_true
            BY <2>1, <2>5, PolicyFields
        <3>6. /\ raw[k] >= policy[k].enter_true => state'[k].stable = TRUE
              /\ raw[k] <= policy[k].exit_true => state'[k].stable = FALSE
              /\ raw[k] < policy[k].enter_true /\ raw[k] > policy[k].exit_true =>
                   (state'[k].stable = TRUE <=> Prev(k).stable = TRUE)
            BY <2>1, <2>2, <2>5, <3>4, LatchCases
        <3>7. CASE raw[k] >= policy[k].enter_true
            BY <1>4, <2>5, <3>3, <3>6, <3>7
        <3>8. CASE raw[k] <= policy[k].exit_true
            <4>1. outside'[k] = "low" /\ state'[k].stable = FALSE
                BY <3>3, <3>5, <3>6, <3>8
            <4> QED BY <1>4, <2>5, <4>1
        <3>9. CASE raw[k] < policy[k].enter_true /\ raw[k] > policy[k].exit_true
            <4>1. outside'[k] = outside[k]
                BY <3>3, <3>5, <3>9
            <4>2. state'[k].stable = TRUE <=> Prev(k).stable = TRUE
                BY <3>6, <3>9
            <4>3. state'[k].stable = TRUE => outside'[k] \in {"high", "silence"}
                BY <2>2, <4>1, <4>2
            <4>4. state'[k].stable = FALSE => outside'[k] # "high"
                <5>1. state'[k].stable = FALSE => state'[k].stable # TRUE
                    OBVIOUS
                <5> QED BY <2>2, <4>1, <4>2, <5>1
            <4>5. outside'[k] \in {"none", "high", "low", "silence"}
                BY <1>2, <4>1
            <4>6. state'[k] # Untracked /\ state'[k].stable # None
                BY <1>4, <2>5
            <4> QED BY <4>3, <4>4, <4>5, <4>6
        <3>10. \/ raw[k] >= policy[k].enter_true \/ raw[k] <= policy[k].exit_true
               \/ raw[k] < policy[k].enter_true /\ raw[k] > policy[k].exit_true
            BY <3>5
        <3> QED BY <3>7, <3>8, <3>9, <3>10
    <2> QED BY <1>4, <2>1, <2>3, <2>4, <2>5
<1> QED BY <1>3, <1>4

\* What the context holds of a key after a tick: told of a value it has it, and it
\* was told of every change.
LEMMA KeyFollowsState ==
    ASSUME IInv, NEW raw \in Inputs, NEW accepted \in BOOLEAN, Apply(raw, accepted),
           NEW k \in Keys
    PROVE  /\ outputs'[k] \in [stable : BOOLEAN \cup {None, Absent},
                               raw : Conf \cup {None, Absent}]
           /\ told'[k] \in [taken : BOOLEAN, confidence : BOOLEAN]
           /\ state'[k] # Untracked /\ told'[k].taken =>
                /\ outputs'[k].stable = state'[k].stable
                /\ state'[k].stable = None /\ told'[k].confidence =>
                     outputs'[k].raw = None
<1> DEFINE v == state'[k].stable
           pol == policy[k]
           delta == Delta(raw, state')
           stable == delta[k].stable
           conf == delta[k].raw
<1>1. /\ outputs'[k] = IF accepted THEN [stable |-> Over(stable, outputs[k].stable),
                                         raw |-> Over(conf, outputs[k].raw)]
                       ELSE outputs[k]
      /\ told'[k] = IF stable = Absent THEN told[k]
                    ELSE [taken |-> accepted, confidence |-> pol.keep_certainty]
    BY ApplyFacts DEF MergeDelta
<1>2. /\ outputs[k] \in [stable : BOOLEAN \cup {None, Absent},
                         raw : Conf \cup {None, Absent}]
      /\ told[k] \in [taken : BOOLEAN, confidence : BOOLEAN]
    BY DEF IInv, TypeOK, HistoryOK
<1>3. state[k] # Untracked /\ told[k].taken =>
        /\ outputs[k].stable = state[k].stable
        /\ state[k].stable = None /\ told[k].confidence => outputs[k].raw = None
    BY DEF IInv, ContextFollowsState
<1>4. CASE state'[k] = Untracked
    <2>1. stable = Absent /\ conf = Absent
        BY <1>4 DEF Delta, Silent
    <2> HIDE DEF v, pol, delta, stable, conf
    <2>2. told'[k] = told[k] /\ outputs'[k] \in {outputs[k], [stable |-> outputs[k].stable,
                                                          raw |-> outputs[k].raw]}
        BY <1>1, <2>1 DEF Over
    <2> QED BY <1>2, <1>4, <2>2
<1>5. CASE state'[k] # Untracked
    <2>1. /\ pol \in Policies
          /\ raw[k] \in Conf \cup {Missing, Invalid}
          /\ state'[k] = UpdateOne(Prev(k), raw[k], pol)
          /\ v \in BOOLEAN \cup {None}
        BY <1>5, KeyIsUpdated
    <2>2. stable = EmitStable(k, state') /\ conf = EmitRaw(k, state', raw[k])
        BY <1>5 DEF Delta
    <2>3. pol.keep_certainty \in BOOLEAN /\ pol.mode \in Modes
        BY <2>1, PolicyFields
    <2>4. pol.keep_certainty \in BOOLEAN
        BY <2>1, PolicyFields
    <2>5. CASE v # None /\ stable = Absent
        <3>1. conf \in Conf \cup {None, Absent}
            BY <2>2 DEF EmitRaw
        <3>2. ~Changed(k, state')
            BY <2>1, <2>2, <2>5 DEF EmitStable
        <3>3. state[k] # Untracked /\ state[k].stable = v
            BY <3>2 DEF Changed
        <3> HIDE DEF v, pol, delta, stable, conf
        <3>4. told'[k] = told[k] /\ outputs'[k].stable = outputs[k].stable
            BY <1>1, <2>5 DEF Over
        <3>5. outputs'[k] \in [stable : BOOLEAN \cup {None, Absent},
                              raw : Conf \cup {None, Absent}]
            BY <1>1, <1>2, <2>5, <3>1 DEF Over
        <3>6. told'[k].taken => outputs'[k].stable = v
            BY <1>3, <3>3, <3>4
        <3> QED BY <1>2, <2>5, <3>4, <3>5, <3>6 DEF v
    <2>6. CASE v # None /\ stable # Absent
        <3>1. conf \in Conf \cup {None, Absent} /\ stable = v
            BY <2>2, <2>6 DEF EmitRaw, EmitStable
        <3> HIDE DEF v, pol, delta, stable, conf
        <3>2. told'[k] = [taken |-> accepted, confidence |-> pol.keep_certainty]
            BY <1>1, <2>6
        <3>3. outputs'[k] \in [stable : BOOLEAN \cup {None, Absent},
                              raw : Conf \cup {None, Absent}]
            BY <1>1, <1>2, <2>1, <3>1 DEF Over
        <3>4. accepted => outputs'[k].stable = v
            BY <1>1, <2>6, <3>1 DEF Over
        <3>5. told'[k].taken => accepted
            BY <3>2
        <3>6. told'[k] \in [taken : BOOLEAN, confidence : BOOLEAN]
            BY <2>4, <3>2
        <3> QED BY <2>6, <3>3, <3>4, <3>5, <3>6 DEF v
    <2>7. CASE v = None /\ Changed(k, state')
        <3>1. raw[k] \notin Conf /\ pol.mode = "undefined"
            <4>1. Prev(k).stable # None
                BY <2>7 DEF Changed, Prev, Fresh
            <4>2. Prev(k).stable \in BOOLEAN \cup {None} /\ Prev(k).missing_count \in Nat
                BY PrevIsTyped
            <4>3. raw[k] \notin Conf
                <5>1. SUFFICES ASSUME raw[k] \in Conf PROVE FALSE
                    OBVIOUS
                <5>2. Latch(Prev(k).stable, raw[k], pol) \in BOOLEAN
                    BY <2>1, <4>2, <5>1, LatchCases
                <5>3. state'[k] = [stable |-> Latch(Prev(k).stable, raw[k], pol),
                                   missing_count |-> 0]
                    BY <2>1, <5>1, ReadingCases
                <5>4. v = Latch(Prev(k).stable, raw[k], pol)
                    BY <5>3
                <5> QED BY <2>7, <5>2, <5>4
            <4>4. raw[k] \in {Missing, Invalid}
                BY <2>1, <4>3
            <4> QED BY <2>1, <2>7, <4>1, <4>2, <4>3, <4>4, SilentCases
        <3>2. stable = None /\ (pol.keep_certainty => conf = None)
            BY <2>2, <2>7, <3>1 DEF EmitStable, EmitRaw
        <3>3. conf \in Conf \cup {None, Absent}
            BY <2>2 DEF EmitRaw
        <3> HIDE DEF v, pol, delta, stable, conf
        <3>4. told'[k] = [taken |-> accepted, confidence |-> pol.keep_certainty]
            BY <1>1, <3>2
        <3>5. outputs'[k] \in [stable : BOOLEAN \cup {None, Absent},
                              raw : Conf \cup {None, Absent}]
            BY <1>1, <1>2, <3>2, <3>3 DEF Over
        <3>6. accepted =>
                /\ outputs'[k].stable = None
                /\ pol.keep_certainty => outputs'[k].raw = None
            BY <1>1, <3>2 DEF Over
        <3>7. told'[k] \in [taken : BOOLEAN, confidence : BOOLEAN]
            BY <2>4, <3>4
        <3>8. /\ told'[k].taken => accepted
              /\ told'[k].confidence => pol.keep_certainty
            BY <3>4
        <3> QED BY <2>7, <3>5, <3>6, <3>7, <3>8 DEF v
    <2>8. CASE v = None /\ ~Changed(k, state')
        <3>1. state[k] # Untracked /\ state[k].stable = v
            BY <2>8 DEF Changed
        <3>2. raw[k] \notin Conf
            <4>1. SUFFICES ASSUME raw[k] \in Conf PROVE FALSE
                OBVIOUS
            <4>2. Prev(k).stable \in BOOLEAN \cup {None}
                BY PrevIsTyped
            <4>3. Latch(Prev(k).stable, raw[k], pol) \in BOOLEAN
                BY <2>1, <4>1, <4>2, LatchCases
            <4>4. state'[k] = [stable |-> Latch(Prev(k).stable, raw[k], pol),
                               missing_count |-> 0]
                BY <2>1, <4>1, ReadingCases
            <4>5. v = Latch(Prev(k).stable, raw[k], pol)
                BY <4>4
            <4> QED BY <2>8, <4>3, <4>5
        <3>3. stable = Absent /\ conf = Absent
            BY <2>2, <2>8, <3>2 DEF EmitStable, EmitRaw
        <3> HIDE DEF v, pol, delta, stable, conf
        <3>4. told'[k] = told[k]
            BY <1>1, <3>3
        <3>5. /\ outputs'[k].stable = outputs[k].stable
              /\ outputs'[k].raw = outputs[k].raw
            BY <1>1, <3>3 DEF Over
        <3>6. outputs'[k] \in [stable : BOOLEAN \cup {None, Absent},
                              raw : Conf \cup {None, Absent}]
            BY <1>1, <1>2, <3>3 DEF Over
        <3>7. told'[k].taken =>
                /\ outputs'[k].stable = v
                /\ told'[k].confidence => outputs'[k].raw = None
            BY <1>3, <2>8, <3>1, <3>4, <3>5
        <3> QED BY <1>2, <2>8, <3>4, <3>6, <3>7 DEF v
    <2> QED BY <2>5, <2>6, <2>7, <2>8
<1> QED BY <1>4, <1>5

-----------------------------------------------------------------------------
(* Every step keeps the invariant *)

LEMMA InitIInv == Init => IInv
<1> SUFFICES ASSUME Init PROVE IInv
    OBVIOUS
<1>1. /\ policy \in [Keys -> Policies \cup {NoPolicy}] /\ ticks \in 0..MaxTicks
      /\ state = [k \in Keys |-> Untracked]
    BY DEF Init
<1>2. \A k \in Keys : state[k] = Untracked
    BY <1>1
<1>3. state \in [Keys -> StateEntry \cup {Untracked}]
    BY <1>1
<1>4. outputs \in [Keys -> [stable : BOOLEAN \cup {None, Absent},
                            raw : Conf \cup {None, Absent}]]
    BY DEF Init, Silent
<1>5. HistoryOK
    BY DEF Init, HistoryOK
<1>6. NothingOutside
    BY DEF Init, NothingOutside
<1> QED BY <1>1, <1>2, <1>3, <1>4, <1>5, <1>6
        DEF IInv, TypeOK, CountsBounded, ContextFollowsState, LatchFollowsReadings

\* One tick of the caller's loop.
LEMMA ApplyKeepsIInv ==
    ASSUME IInv, NEW raw \in Inputs, NEW accepted \in BOOLEAN, Apply(raw, accepted)
    PROVE  IInv'
<1>1. ticks \in Nat /\ ticks' \in 0..MaxTicks /\ ticks' = ticks + 1
    BY ApplyFacts DEF IInv, TypeOK
<1>2. /\ DOMAIN state' = Keys /\ DOMAIN outside' = Keys /\ DOMAIN told' = Keys
      /\ state' = [k \in Keys |-> state'[k]]
      /\ outside' = [k \in Keys |-> outside'[k]]
      /\ told' = [k \in Keys |-> told'[k]]
    BY ApplyFacts DEF NextState
<1>3. outputs' = [k \in Keys |-> outputs'[k]]
    <2>1. CASE ~accepted
        BY <2>1, ApplyFacts DEF IInv, TypeOK
    <2>2. CASE accepted
        BY <2>2, ApplyFacts DEF MergeDelta
    <2> QED BY <2>1, <2>2
<1>4. \A k \in Keys :
        /\ state'[k] \in StateEntry \cup {Untracked}
        /\ state'[k] # Untracked => state'[k].missing_count <= ticks'
    <2> TAKE k \in Keys
    <2>1. CASE state'[k] = Untracked
        BY <2>1
    <2>2. CASE state'[k] # Untracked
        <3>1. state'[k] \in [stable : BOOLEAN \cup {None}, missing_count : 0..(ticks + 1)]
            BY <2>2, KeyIsUpdated
        <3>2. 0..(ticks + 1) \subseteq 0..MaxTicks
            BY <1>1
        <3>3. state'[k].missing_count \in 0..(ticks + 1)
            BY <3>1
        <3>4. state'[k] \in StateEntry
            BY <3>1, <3>2 DEF StateEntry
        <3> QED BY <1>1, <3>3, <3>4
    <2> QED BY <2>1, <2>2
<1>5. state' \in [Keys -> StateEntry \cup {Untracked}] /\ CountsBounded'
    BY <1>2, <1>4 DEF CountsBounded
<1>6. /\ outside' \in [Keys -> {"none", "high", "low", "silence"}]
      /\ NothingOutside'
      /\ LatchFollowsReadings'
    BY <1>2, KeyFollowsReadings DEF NothingOutside, LatchFollowsReadings
<1>7. /\ outputs' \in [Keys -> [stable : BOOLEAN \cup {None, Absent},
                                raw : Conf \cup {None, Absent}]]
      /\ told' \in [Keys -> [taken : BOOLEAN, confidence : BOOLEAN]]
      /\ ContextFollowsState'
    BY <1>2, <1>3, KeyFollowsState DEF ContextFollowsState
<1>8. policy' = policy
    BY ApplyFacts
<1> QED BY <1>1, <1>5, <1>6, <1>7, <1>8 DEF IInv, TypeOK, HistoryOK

\* The caller passes another policy.
LEMMA SetPolicyKeepsIInv ==
    ASSUME IInv, NEW k \in Keys, NEW pol \in Policies \cup {NoPolicy}, SetPolicy(k, pol)
    PROVE  IInv'
<1>1. policy' \in [Keys -> Policies \cup {NoPolicy}]
    BY DEF IInv, TypeOK, SetPolicy
<1>2. UNCHANGED <<state, outputs, ticks, outside, told>>
    BY DEF SetPolicy
<1> QED BY <1>1, <1>2 DEF IInv, TypeOK, HistoryOK, CountsBounded, NothingOutside,
                          ContextFollowsState, LatchFollowsReadings

LEMMA NextKeepsIInv == IInv /\ [Next]_vars => IInv'
<1> SUFFICES ASSUME IInv, [Next]_vars PROVE IInv'
    OBVIOUS
<1>1. CASE Next
    BY <1>1, ApplyKeepsIInv, SetPolicyKeepsIInv DEF Next, Inputs
<1>2. CASE UNCHANGED vars
    BY <1>2 DEF vars, IInv, TypeOK, HistoryOK, CountsBounded, NothingOutside,
                ContextFollowsState, LatchFollowsReadings
<1> QED BY <1>1, <1>2

-----------------------------------------------------------------------------
(* The theorems *)

\* The inductive invariant holds in every reachable state: what links the value of a
\* key to its last reading outside the band, and what the context was told to both.
THEOREM Inductive == Spec => []IInv
BY InitIInv, NextKeepsIInv, PTL DEF Spec

\* The variables keep their types, undefined values included (update_one).
THEOREM TypeCorrect == Spec => []TypeOK
<1>1. IInv => TypeOK
    BY DEF IInv
<1> QED BY <1>1, Inductive, PTL

\* The context, told of changes only, says what the filter holds, whatever policies
\* follow one another (apply_hysteresis_adapter's delta).
THEOREM ContextAlwaysFollows == Spec => []ContextFollowsState
<1>1. IInv => ContextFollowsState
    BY DEF IInv
<1> QED BY <1>1, Inductive, PTL

\* The latch turns on readings outside the band only, whatever the thresholds and
\* however they change between the ticks (update_one).
THEOREM LatchAlwaysFollows == Spec => []LatchFollowsReadings
<1>1. IInv => LatchFollowsReadings
    BY DEF IInv
<1> QED BY <1>1, Inductive, PTL

=============================================================================
