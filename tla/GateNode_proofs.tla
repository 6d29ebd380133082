--------------------------- MODULE GateNode_proofs ---------------------------
(***************************************************************************)
(* Proofs about GateNode, for any core that permits nothing while the zone *)
(* is not clear, any limits on the sensor's age, any queue depth, any run  *)
(* of the clock and any number of proposals and crashes.                   *)
(***************************************************************************)
EXTENDS GateNode, SequenceTheorems, TLAPS

USE GateAssumption

-----------------------------------------------------------------------------
(* The inductive invariant *)

\* What is kept of the sensor is the last reading handled since the node was
\* configured, or nothing.
SensorInv ==
    sensor.received_at # 0 =>
        /\ reading # NoReading
        /\ reading.clear = sensor.zone_clear
        /\ reading.at = sensor.received_at

\* The log is open from the configuration to the cleanup.
LogInv == state \in {"inactive", "active"} => logOpen

\* TypeOK, with the types of what it leaves out.
IInv ==
    /\ TypeOK
    /\ LogInv
    /\ clock \in 0..MaxClock
    /\ proposed \in 0..MaxProposals
    /\ published \in Seq(Records)
    /\ reading \in Readings \cup {NoReading}
    /\ SensorInv

-----------------------------------------------------------------------------
(* Lemmas about the operators of the model *)

\* A subscription that is gone has an empty queue (the transitions, a crash).
LEMMA EmptyQueue ==
    ASSUME NEW S, NEW q, q = <<>>
    PROVE  q \in Seq(S) /\ Len(q) <= Depth
OBVIOUS

\* A message that reaches a subscription keeps its queue within the depth (Deliver).
LEMMA DeliverKeepsDepth ==
    ASSUME NEW S, NEW q \in Seq(S), NEW m \in S, Len(q) <= Depth, active \in BOOLEAN
    PROVE  Deliver(q, m) \in Seq(S) /\ Len(Deliver(q, m)) <= Depth
<1>1. CASE ~active
    BY <1>1 DEF Deliver
<1>2. CASE active /\ Len(q) >= Depth
    <2>1. q # <<>>
        BY <1>2
    <2>2. Tail(q) \in Seq(S) /\ Len(Tail(q)) = Len(q) - 1
        BY <2>1, HeadTailProperties
    <2>3. Deliver(q, m) = Append(Tail(q), m)
        BY <1>2 DEF Deliver
    <2>4. Append(Tail(q), m) \in Seq(S) /\ Len(Append(Tail(q), m)) = Len(Tail(q)) + 1
        BY <2>2, AppendProperties
    <2>5. Len(q) \in Nat
        OBVIOUS
    <2> QED BY <2>2, <2>3, <2>4, <2>5
<1>3. CASE active /\ ~(Len(q) >= Depth)
    <2>1. Deliver(q, m) = Append(q, m)
        BY <1>3 DEF Deliver
    <2>2. Append(q, m) \in Seq(S) /\ Len(Append(q, m)) = Len(q) + 1
        BY AppendProperties
    <2>3. Len(q) \in Nat
        OBVIOUS
    <2> QED BY <1>3, <2>1, <2>2, <2>3
<1> QED BY <1>1, <1>2, <1>3

\* Taking the message at the head of a queue (the callbacks).
LEMMA TakingKeepsDepth ==
    ASSUME NEW S, NEW q \in Seq(S), q # <<>>, Len(q) <= Depth
    PROVE  Head(q) \in S /\ Tail(q) \in Seq(S) /\ Len(Tail(q)) <= Depth
<1>1. Head(q) \in S /\ Tail(q) \in Seq(S) /\ Len(Tail(q)) = Len(q) - 1
    BY HeadTailProperties
<1>2. Len(q) \in Nat
    OBVIOUS
<1> QED BY <1>1, <1>2

\* The last of the decisions published is the one that was added.
LEMMA LastOfAppend ==
    ASSUME NEW S, NEW s \in Seq(S), NEW e \in S
    PROVE  Last(Append(s, e)) = e
<1>1. Len(Append(s, e)) = Len(s) + 1 /\ Append(s, e)[Len(s) + 1] = e
    BY AppendProperties
<1> QED BY <1>1 DEF Last

\* A decision that answers a proposal is a record (on_proposed_action).
LEMMA RecordIsTyped ==
    ASSUME IInv, actionQ # <<>>, NEW dom
    PROVE  Record(DecisionOf(dom)) \in Records
<1>1. Head(actionQ) \in 1..MaxProposals
    BY TakingKeepsDepth DEF IInv, TypeOK
<1>2. DecisionOf(dom) \in {"PERMITTED", "BLOCKED", "ERROR"}
    BY DEF DecisionOf
<1>3. sensor.zone_clear \in BOOLEAN /\ clock \in 0..MaxClock
    BY DEF IInv, TypeOK
<1> QED BY <1>1, <1>2, <1>3 DEF Record, Records

\* What is not stale is a reading that was handled since the configuration and that
\* is young enough by the clock of now (the guard of on_proposed_action).
LEMMA FreshIsReading ==
    ASSUME IInv, ~Stale
    PROVE  /\ reading # NoReading
           /\ reading.clear = sensor.zone_clear
           /\ clock - reading.at <= maxAge
<1>1. sensor.received_at # 0 /\ ~(clock - sensor.received_at > maxAge)
    BY DEF Stale
<1>2. /\ reading # NoReading /\ reading.clear = sensor.zone_clear
      /\ reading.at = sensor.received_at
    BY <1>1 DEF IInv, SensorInv
<1>3. sensor.received_at \in 0..MaxClock /\ clock \in 0..MaxClock /\ maxAge \in Int
    BY DEF IInv, TypeOK
<1> QED BY <1>1, <1>2, <1>3

\* A permit takes a core that found the zone clear (evaluate_and_publish).
LEMMA PermitTakesClear ==
    ASSUME IInv, NEW dom \in IF Stale THEN {"error"} ELSE Core,
           DecisionOf(dom) = "PERMITTED"
    PROVE  ~Stale /\ sensor.zone_clear
<1>1. dom \in Permitting
    BY DEF DecisionOf
<1>2. dom # "error"
    BY <1>1 DEF Permitting
<1>3. ~Stale /\ dom \in Verdicts[sensor.zone_clear]
    BY <1>2 DEF Core
<1>4. sensor.zone_clear \in BOOLEAN
    BY DEF IInv, TypeOK
<1>5. sensor.zone_clear # FALSE
    BY <1>1, <1>3
<1> QED BY <1>3, <1>4, <1>5

-----------------------------------------------------------------------------
(* Every step keeps the invariant *)

LEMMA InitIInv == Init => IInv
<1> SUFFICES ASSUME Init PROVE IInv
    OBVIOUS
<1>1. clock \in 0..MaxClock /\ proposed \in 0..MaxProposals
    BY DEF Init
<1>2. /\ zoneQ \in Seq(BOOLEAN) /\ Len(zoneQ) <= Depth
      /\ actionQ \in Seq(1..MaxProposals) /\ Len(actionQ) <= Depth
      /\ log \in Seq(Records) /\ published \in Seq(Records)
    BY DEF Init
<1>3. sensor \in [zone_clear : BOOLEAN, received_at : 0..MaxClock] /\ SensorInv
    BY DEF Init, NeverReceived, SensorInv
<1> QED BY <1>1, <1>2, <1>3 DEF Init, IInv, TypeOK, LogInv

\* The transitions of the life cycle.
LEMMA LifecycleKeepsIInv == ASSUME IInv, Lifecycle PROVE IInv'
<1> USE DEF IInv, TypeOK, LogInv, history, queues, Busy
<1>1. ASSUME NEW age \in MaxAges, Configure(age) PROVE IInv'
    <2>1. /\ sensor' \in [zone_clear : BOOLEAN, received_at : 0..MaxClock]
          /\ sensor'.received_at = 0
        BY <1>1 DEF Configure, NeverReceived
    <2>2. SensorInv'
        BY <2>1 DEF SensorInv
    <2> QED BY <1>1, <2>1, <2>2 DEF Configure
<1>2. CASE Activate
    BY <1>2 DEF Activate, SensorInv
<1>3. CASE Deactivate
    <2>1. /\ zoneQ' \in Seq(BOOLEAN) /\ Len(zoneQ') <= Depth
          /\ actionQ' \in Seq(1..MaxProposals) /\ Len(actionQ') <= Depth
        BY <1>3, EmptyQueue DEF Deactivate
    <2> QED BY <1>3, <2>1 DEF Deactivate, SensorInv
<1>4. CASE Cleanup
    BY <1>4 DEF Cleanup, SensorInv
<1>5. CASE Shutdown
    <2>1. /\ zoneQ' \in Seq(BOOLEAN) /\ Len(zoneQ') <= Depth
          /\ actionQ' \in Seq(1..MaxProposals) /\ Len(actionQ') <= Depth
        BY <1>5, EmptyQueue DEF Shutdown
    <2> QED BY <1>5, <2>1 DEF Shutdown, SensorInv
<1> QED BY <1>1, <1>2, <1>3, <1>4, <1>5 DEF Lifecycle

\* A reading is handled (on_zone_clear).
LEMMA ReadingKeepsIInv == ASSUME IInv, OnZoneClear PROVE IInv'
<1>1. Head(zoneQ) \in BOOLEAN /\ zoneQ' \in Seq(BOOLEAN) /\ Len(zoneQ') <= Depth
    BY TakingKeepsDepth DEF IInv, TypeOK, OnZoneClear
<1>2. /\ sensor' \in [zone_clear : BOOLEAN, received_at : 0..MaxClock]
      /\ reading' \in Readings \cup {NoReading}
      /\ SensorInv'
    <2>1. CASE active
        <3>1. /\ sensor' = [zone_clear |-> Head(zoneQ), received_at |-> clock]
              /\ reading' = [clear |-> Head(zoneQ), at |-> clock]
            BY <2>1 DEF OnZoneClear
        <3>2. reading' \in Readings
            BY <1>1, <3>1 DEF IInv, Readings
        <3>3. reading' # NoReading
            BY <3>2, NoneAssumption
        <3>4. /\ sensor' \in [zone_clear : BOOLEAN, received_at : 0..MaxClock]
              /\ reading'.clear = sensor'.zone_clear
              /\ reading'.at = sensor'.received_at
            BY <1>1, <3>1 DEF IInv
        <3> QED BY <3>2, <3>3, <3>4 DEF SensorInv
    <2>2. CASE ~active
        BY <2>2 DEF OnZoneClear, IInv, TypeOK, LogInv, SensorInv
    <2> QED BY <2>1, <2>2
<1> QED BY <1>1, <1>2 DEF OnZoneClear, IInv, TypeOK, LogInv

\* A proposal is answered (on_proposed_action).
LEMMA ProposalKeepsIInv == ASSUME IInv, OnProposedAction PROVE IInv'
<1>1. PICK dom \in IF Stale THEN {"error"} ELSE Core :
        /\ writing' = Record(DecisionOf(dom))
        /\ published' = Append(published, writing')
    BY DEF OnProposedAction
<1>2. actionQ' \in Seq(1..MaxProposals) /\ Len(actionQ') <= Depth
    BY TakingKeepsDepth DEF IInv, TypeOK, OnProposedAction
<1>3. writing' \in Records
    BY <1>1, RecordIsTyped DEF OnProposedAction
<1>4. published' \in Seq(Records)
    BY <1>1, <1>3, AppendProperties DEF IInv
<1>5. UNCHANGED <<state, active, maxAge, sensor, logOpen, zoneQ, clock, log,
                  proposed, reading>>
    BY DEF OnProposedAction, node
<1> QED BY <1>2, <1>3, <1>4, <1>5 DEF IInv, TypeOK, LogInv, SensorInv

\* A record is appended to the log (append_cert_record).
LEMMA AppendKeepsIInv == ASSUME IInv, AppendRecord PROVE IInv'
<1>1. writing \in Records
    BY DEF IInv, TypeOK, AppendRecord, Busy
<1>2. log' \in Seq(Records)
    BY <1>1, AppendProperties DEF IInv, TypeOK, AppendRecord
<1> QED BY <1>2 DEF AppendRecord, IInv, TypeOK, LogInv, SensorInv, node, queues, history

\* Messages, the clock and crashes.
LEMMA WorldKeepsIInv == ASSUME IInv, World PROVE IInv'
<1> USE DEF IInv, TypeOK, LogInv, node, queues, history
<1>1. CASE SensorSends
    <2>1. zoneQ' \in Seq(BOOLEAN) /\ Len(zoneQ') <= Depth
        BY <1>1, DeliverKeepsDepth DEF SensorSends
    <2> QED BY <1>1, <2>1 DEF SensorSends, SensorInv
<1>2. CASE Propose
    <2>1. proposed' \in 1..MaxProposals
        BY <1>2 DEF Propose
    <2>2. actionQ' \in Seq(1..MaxProposals) /\ Len(actionQ') <= Depth
        BY <1>2, <2>1, DeliverKeepsDepth DEF Propose
    <2> QED BY <1>2, <2>1, <2>2 DEF Propose, SensorInv
<1>3. CASE Tick
    <2>1. clock' \in 0..MaxClock
        BY <1>3 DEF Tick
    <2> QED BY <1>3, <2>1 DEF Tick, SensorInv
<1>4. CASE ClockSetBack
    <2>1. clock' \in 0..MaxClock
        BY <1>4 DEF ClockSetBack
    <2> QED BY <1>4, <2>1 DEF ClockSetBack, SensorInv
<1>5. CASE Crash
    <2>1. /\ sensor' \in [zone_clear : BOOLEAN, received_at : 0..MaxClock]
          /\ sensor'.received_at = 0
        BY <1>5 DEF Crash, NeverReceived
    <2>2. SensorInv'
        BY <2>1 DEF SensorInv
    <2>3. /\ zoneQ' \in Seq(BOOLEAN) /\ Len(zoneQ') <= Depth
          /\ actionQ' \in Seq(1..MaxProposals) /\ Len(actionQ') <= Depth
        BY <1>5, EmptyQueue DEF Crash
    <2> QED BY <1>5, <2>1, <2>2, <2>3 DEF Crash
<1> QED BY <1>1, <1>2, <1>3, <1>4, <1>5 DEF World

LEMMA NextKeepsIInv == IInv /\ [Next]_vars => IInv'
<1> SUFFICES ASSUME IInv, [Next]_vars PROVE IInv'
    OBVIOUS
<1>1. CASE Next
    BY <1>1, LifecycleKeepsIInv, ReadingKeepsIInv, ProposalKeepsIInv,
       AppendKeepsIInv, WorldKeepsIInv DEF Next
<1>2. CASE UNCHANGED vars
    BY <1>2 DEF vars, node, queues, history, IInv, TypeOK, LogInv, SensorInv
<1> QED BY <1>1, <1>2

-----------------------------------------------------------------------------
(* The theorems *)

\* The inductive invariant holds in every reachable state: above all, what the
\* node keeps of the sensor is the last reading it handled since it was configured,
\* however the transitions, the callbacks, the crashes and the clock are mixed.
THEOREM Inductive == Spec => []IInv
BY InitIInv, NextKeepsIInv, PTL DEF Spec

\* The variables of the node keep their types, the queues their depth, and the log
\* is open while the node is active (noe_gate_node.cpp, the transitions).
THEOREM TypeCorrect == Spec => []TypeOK
<1>1. IInv => TypeOK
    BY DEF IInv
<1> QED BY <1>1, Inductive, PTL

\* A step that publishes publishes an answer to a proposal; no other step does.
LEMMA OnlyProposalsPublish ==
    ASSUME [Next]_vars, published' # published
    PROVE  OnProposedAction
BY DEF Next, Lifecycle, World, Configure, Activate, Deactivate, Cleanup, Shutdown,
       OnZoneClear, AppendRecord, SensorSends, Propose, Tick, ClockSetBack, Crash,
       vars, history

\* The node permits an action only on a reading that says clear, that it handled
\* after it was last configured and with no other since, and that is at most
\* max_sensor_age_ms old by its clock (on_proposed_action's guard on the sensor).
THEOREM PermitsAreGrounded == Spec => PermitIsGrounded
<1>1. IInv /\ [Next]_vars =>
        [published' # published /\ Last(published').decision = "PERMITTED" =>
            /\ reading # NoReading
            /\ reading.clear
            /\ clock - reading.at <= maxAge]_vars
    <2> SUFFICES ASSUME IInv, [Next]_vars, published' # published,
                        Last(published').decision = "PERMITTED"
                 PROVE  /\ reading # NoReading
                        /\ reading.clear
                        /\ clock - reading.at <= maxAge
        OBVIOUS
    <2>1. OnProposedAction
        BY OnlyProposalsPublish
    <2>2. PICK dom \in IF Stale THEN {"error"} ELSE Core :
            /\ writing' = Record(DecisionOf(dom))
            /\ published' = Append(published, writing')
        BY <2>1 DEF OnProposedAction
    <2>3. writing' \in Records
        BY <2>1, <2>2, RecordIsTyped DEF OnProposedAction
    <2>4. Last(published') = writing'
        BY <2>2, <2>3, LastOfAppend DEF IInv
    <2>5. DecisionOf(dom) = "PERMITTED"
        BY <2>2, <2>4 DEF Record
    <2>6. ~Stale /\ sensor.zone_clear
        BY <2>5, PermitTakesClear
    <2> QED BY <2>6, FreshIsReading
<1> QED BY <1>1, Inductive, PTL DEF Spec, PermitIsGrounded

-----------------------------------------------------------------------------
(* Decisions and their records *)

\* RecordsComplete with what a callback that has published still owes: the record
\* of the last decision, which the log, open while the node is active, has not.
OwesInv ==
    /\ crashes \in Nat
    /\ RecordsComplete
    /\ Busy => /\ active
               /\ published # <<>> /\ writing = published[Len(published)]
               /\ \E at \in [DOMAIN log -> DOMAIN published] :
                     Places(at) /\ \A i \in DOMAIN log : at[i] < Len(published)

\* A step that leaves the log, the decisions and what is owed alone.
LEMMA OwesKept ==
    ASSUME OwesInv, UNCHANGED <<writing, log, published, crashes>>,
           Busy => active'
    PROVE  OwesInv'
BY DEF OwesInv, RecordsComplete, Busy, Places

\* on_proposed_action publishes a decision that no record is of yet.
LEMMA PublishingOwes ==
    ASSUME IInv, OwesInv, OnProposedAction
    PROVE  OwesInv'
<1>1. PICK dom \in IF Stale THEN {"error"} ELSE Core :
        /\ writing' = Record(DecisionOf(dom))
        /\ published' = Append(published, writing')
    BY DEF OnProposedAction
<1>2. ~Busy /\ active' /\ UNCHANGED <<log, crashes>>
    BY DEF OnProposedAction, node, IInv, TypeOK
<1>3. writing' \in Records
    BY <1>1, RecordIsTyped DEF OnProposedAction
<1>4. published \in Seq(Records) /\ log \in Seq(Records)
    BY DEF IInv, TypeOK
<1>5. /\ published' \in Seq(Records) /\ Len(published') = Len(published) + 1
      /\ published'[Len(published')] = writing'
      /\ \A i \in 1..Len(published) : published'[i] = published[i]
    BY <1>1, <1>3, <1>4, AppendProperties
<1>6. PICK at \in [DOMAIN log -> DOMAIN published] : Places(at)
    BY DEF OwesInv, RecordsComplete
<1>7. /\ at \in [DOMAIN log' -> DOMAIN published'] /\ Places(at)'
      /\ \A i \in DOMAIN log' : at[i] < Len(published')
    <2>1. DOMAIN published = 1..Len(published) /\ DOMAIN published' = 1..Len(published')
        BY <1>4, <1>5
    <2>2. Len(published) \in Nat
        BY <1>4
    <2> QED BY <1>2, <1>5, <1>6, <2>1, <2>2 DEF Places
<1>8. Busy'
    BY <1>3, NoneAssumption DEF Busy
<1>9. Len(published') - Len(log') <= crashes' + 1
    BY <1>2, <1>4, <1>5 DEF OwesInv, RecordsComplete
<1>10. published' # <<>>
    BY <1>4, <1>5
<1> QED BY <1>2, <1>5, <1>7, <1>8, <1>9, <1>10 DEF OwesInv, RecordsComplete

\* append_cert_record pays it: the record goes behind all others.
LEMMA AppendingPays ==
    ASSUME IInv, OwesInv, AppendRecord
    PROVE  OwesInv'
<1>1. /\ published # <<>> /\ writing = published[Len(published)] /\ active
      /\ published \in Seq(Records) /\ log \in Seq(Records)
    BY DEF IInv, TypeOK, OwesInv, AppendRecord
<1>2. PICK at \in [DOMAIN log -> DOMAIN published] :
            Places(at) /\ \A i \in DOMAIN log : at[i] < Len(published)
    BY DEF OwesInv, AppendRecord
<1>3. /\ log' = Append(log, writing) /\ ~Busy'
      /\ UNCHANGED <<published, crashes>>
    BY <1>1 DEF AppendRecord, IInv, TypeOK, Busy, history
<1>4. writing \in Records
    BY DEF IInv, TypeOK, AppendRecord, Busy
<1>5. /\ log' \in Seq(Records) /\ Len(log') = Len(log) + 1
      /\ log'[Len(log')] = writing
      /\ \A i \in 1..Len(log) : log'[i] = log[i]
    BY <1>1, <1>3, <1>4, AppendProperties
<1>0. PICK at2 : at2 = [i \in DOMAIN log' |-> IF i \in DOMAIN log THEN at[i]
                                             ELSE Len(published)]
    OBVIOUS
<1>6. /\ DOMAIN log = 1..Len(log) /\ DOMAIN log' = 1..(Len(log) + 1)
      /\ Len(log) \in Nat
      /\ DOMAIN published = 1..Len(published) /\ Len(published) \in Nat \ {0}
    BY <1>1, <1>5
<1>7. at2 \in [DOMAIN log' -> DOMAIN published']
    BY <1>0, <1>2, <1>3, <1>6
<1>8. Places(at2)'
    <2>1. \A i \in DOMAIN log' : log'[i] = published'[at2[i]]
        BY <1>0, <1>1, <1>2, <1>3, <1>5, <1>6 DEF Places
    <2>2. \A i, j \in DOMAIN log' : i < j => at2[i] < at2[j]
        BY <1>0, <1>2, <1>6 DEF Places
    <2> QED BY <2>1, <2>2 DEF Places
<1>9. Len(published') - Len(log') <= crashes'
    BY <1>1, <1>3, <1>5, <1>6 DEF OwesInv, RecordsComplete, AppendRecord
<1>10. RecordsComplete'
    <2>1. \E a \in [DOMAIN log' -> DOMAIN published'] : Places(a)'
        BY <1>7, <1>8
    <2>2. Len(published') - Len(log') <= crashes' + (IF Busy' THEN 1 ELSE 0)
        <3>1. Len(published') \in Nat /\ Len(log') \in Nat /\ crashes' \in Nat
            BY <1>1, <1>3, <1>5 DEF OwesInv
        <3> QED BY <1>3, <1>9, <3>1
    <2> QED BY <2>1, <2>2 DEF RecordsComplete
<1> QED BY <1>3, <1>10 DEF OwesInv, AppendRecord, history

\* A crash takes with it what was owed.
LEMMA CrashForgives ==
    ASSUME IInv, OwesInv, Crash
    PROVE  OwesInv'
<1>1. /\ UNCHANGED <<log, published>> /\ ~Busy' /\ crashes' = crashes + 1
      /\ published \in Seq(Records) /\ log \in Seq(Records)
    BY DEF Crash, Busy, IInv, TypeOK
<1>2. \E at \in [DOMAIN log' -> DOMAIN published'] : Places(at)'
    BY <1>1 DEF OwesInv, RecordsComplete, Places
<1>3. Len(published') - Len(log') <= crashes'
    BY <1>1 DEF OwesInv, RecordsComplete
<1> QED BY <1>1, <1>2, <1>3 DEF OwesInv, RecordsComplete

\* Every step keeps it.
LEMMA NextKeepsOwesInv == IInv /\ OwesInv /\ [Next]_vars => OwesInv'
<1> SUFFICES ASSUME IInv, OwesInv, [Next]_vars PROVE OwesInv'
    OBVIOUS
<1> USE DEF node, queues, history
<1>1. CASE Lifecycle
    <2>1. ~Busy /\ UNCHANGED <<writing, log, published, crashes>>
        BY <1>1 DEF Lifecycle, Configure, Activate, Deactivate, Cleanup, Shutdown
    <2> QED BY <2>1, OwesKept
<1>2. CASE OnZoneClear
    BY <1>2, OwesKept DEF OnZoneClear, OwesInv
<1>3. CASE World /\ ~Crash
    <2>1. UNCHANGED <<active, writing, log, published, crashes>>
        BY <1>3 DEF World, SensorSends, Propose, Tick, ClockSetBack
    <2> QED BY <2>1, OwesKept DEF OwesInv
<1>4. CASE UNCHANGED vars
    BY <1>4, OwesKept DEF vars, OwesInv
<1> QED BY <1>1, <1>2, <1>3, <1>4, PublishingOwes, AppendingPays, CrashForgives
           DEF Next, World

\* The records are those of the decisions published, in their order, over all
\* configurations, crashes and restarts; one is missing at most for each crash and
\* for the callback under way (on_proposed_action, append_cert_record).
THEOREM RecordsAlwaysComplete == Spec => []RecordsComplete
<1>1. Init => OwesInv
    <2> SUFFICES ASSUME Init PROVE OwesInv
        OBVIOUS
    <2>1. log = <<>> /\ published = <<>> /\ crashes = 0 /\ ~Busy
        BY DEF Init, Busy
    <2>2. <<>> \in [DOMAIN log -> DOMAIN published] /\ Places(<<>>)
        BY <2>1 DEF Places
    <2>3. Len(published) - Len(log) <= crashes + (IF Busy THEN 1 ELSE 0)
        BY <2>1
    <2>4. RecordsComplete
        BY <2>2, <2>3 DEF RecordsComplete
    <2> QED BY <2>1, <2>4 DEF OwesInv
<1>2. OwesInv => RecordsComplete
    BY DEF OwesInv
<1> QED BY <1>1, <1>2, Inductive, NextKeepsOwesInv, PTL DEF Spec

=============================================================================
