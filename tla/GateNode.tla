------------------------------ MODULE GateNode ------------------------------
(***************************************************************************)
(* NoeGateNode, the ROS2 lifecycle node of noe_gate_node.cpp: it keeps the *)
(* last reading of one sensor, answers proposed actions with a decision on *)
(* it, and appends a record of every decision to a log.                    *)
(*                                                                         *)
(* All callbacks of the node, its lifecycle transitions included, are in   *)
(* its one mutually exclusive callback group (and main.cpp spins a single  *)
(* thread), so a callback is one step unless the process can die inside    *)
(* it: between the publishing of a decision and its record.  The two       *)
(* subscriptions are separate queues: what the world sent in one order is  *)
(* handled in another.                                                     *)
(***************************************************************************)
EXTENDS Integers, Sequences, SequencesExt, FiniteSets

CONSTANTS
    MaxAges,        \* what the parameter max_sensor_age_ms is set to
    Depth,          \* history depth of a subscription
    Domains,        \* domains of a result of the core
    Verdicts,       \* the core: domains the chain may have, by zone_clear
    MaxProposals, MaxClock, MaxCrashes,  \* bounds
    NoMessage, NoReading

Permitting == {"list", "action"}

\* The chain asks for the zone to be clear: without it, it permits nothing.
ASSUME GateAssumption ==
    /\ MaxAges \subseteq Int
    /\ Depth \in Nat \ {0}
    /\ Verdicts \in [BOOLEAN -> SUBSET Domains]
    /\ Verdicts[FALSE] \cap Permitting = {}
    /\ MaxProposals \in Nat /\ MaxClock \in Nat \ {0} /\ MaxCrashes \in Nat

VARIABLES
    state,       \* lifecycle state
    active,      \* active_
    maxAge,      \* max_sensor_age_ms_
    sensor,      \* sensor_
    logOpen,     \* cert_log_.is_open()
    zoneQ, actionQ,  \* what waits at the two subscriptions
    clock,       \* the ROS clock, in ms
    writing,     \* the record that is to be appended next
    log,         \* the file
    proposed,    \* how many actions have been proposed: their names
    published,   \* history: the decisions published
    reading,     \* history: the last reading handled since the configuration
    crashes      \* history: how often the process died

node == <<state, active, maxAge, sensor, logOpen>>
queues == <<zoneQ, actionQ>>
history == <<published, reading, crashes>>
vars == <<node, queues, clock, writing, log, proposed, history>>

\* The second half of on_proposed_action has not run yet.
Busy == writing # NoMessage

NeverReceived == [zone_clear |-> FALSE, received_at |-> 0]

Init ==
    /\ state = "unconfigured" /\ active = FALSE
    /\ maxAge \in MaxAges
    /\ sensor = NeverReceived
    /\ logOpen = FALSE
    /\ zoneQ = <<>> /\ actionQ = <<>>
    /\ clock \in {0, 1}     \* a simulated clock starts at 0
    /\ writing = NoMessage
    /\ log = <<>>
    /\ proposed = 0
    /\ published = <<>> /\ reading = NoReading /\ crashes = 0

-----------------------------------------------------------------------------
(* Lifecycle transitions *)

\* Variant, to see that PermitIsGrounded depends on it: the old reading is kept.
ConfigureKeepsSensor(age) ==
    /\ state = "unconfigured" /\ ~Busy
    /\ state' = "inactive"
    /\ maxAge' = age
    /\ logOpen' = TRUE
    /\ reading' = NoReading
    /\ UNCHANGED <<active, sensor, queues, clock, writing, log, proposed, published,
                   crashes>>

\* on_configure; when the mode is invalid or the log cannot be opened it changes
\* nothing that a later configuration does not set again.
Configure(age) ==
    /\ state = "unconfigured" /\ ~Busy
    /\ state' = "inactive"
    /\ maxAge' = age
    /\ logOpen' = TRUE
    /\ sensor' = NeverReceived
    /\ reading' = NoReading
    /\ UNCHANGED <<active, queues, clock, writing, log, proposed, published, crashes>>

\* The subscriptions are new, the reading is not.
Activate ==
    /\ state = "inactive" /\ ~Busy
    /\ state' = "active"
    /\ active' = TRUE
    /\ UNCHANGED <<maxAge, sensor, logOpen, queues, clock, writing, log, proposed, history>>

\* The subscriptions go, with what waits there.
Deactivate ==
    /\ state = "active" /\ ~Busy
    /\ state' = "inactive"
    /\ active' = FALSE
    /\ zoneQ' = <<>> /\ actionQ' = <<>>
    /\ UNCHANGED <<maxAge, sensor, logOpen, clock, writing, log, proposed, history>>

\* Variant, to see that TypeOK depends on it: the node goes back to work.
CleanupStaysInactive ==
    /\ state = "inactive" /\ ~Busy
    /\ logOpen' = FALSE
    /\ UNCHANGED <<state, active, maxAge, sensor, queues, clock, writing, log, proposed,
                   history>>

Cleanup ==
    /\ state = "inactive" /\ ~Busy
    /\ state' = "unconfigured"
    /\ logOpen' = FALSE
    /\ UNCHANGED <<active, maxAge, sensor, queues, clock, writing, log, proposed, history>>

Shutdown ==
    /\ state # "finalized" /\ ~Busy
    /\ state' = "finalized"
    /\ active' = FALSE
    /\ zoneQ' = <<>> /\ actionQ' = <<>>
    /\ logOpen' = FALSE
    /\ UNCHANGED <<maxAge, sensor, clock, writing, log, proposed, history>>

-----------------------------------------------------------------------------
(* Subscription callbacks *)

OnZoneClear ==
    /\ zoneQ # <<>> /\ ~Busy
    /\ zoneQ' = Tail(zoneQ)
    /\ IF active
       THEN /\ sensor' = [zone_clear |-> Head(zoneQ), received_at |-> clock]
            /\ reading' = [clear |-> Head(zoneQ), at |-> clock]
       ELSE UNCHANGED <<sensor, reading>>
    /\ UNCHANGED <<state, active, maxAge, logOpen, actionQ, clock, writing, log,
                   proposed, published, crashes>>

\* A clock that was set back makes the age negative.
Stale ==
    \/ sensor.received_at = 0
    \/ clock - sensor.received_at > maxAge

\* noe::evaluate through the FFI; a core without memory gives an error.
Core == Verdicts[sensor.zone_clear] \cup {"error"}

\* parse_noe_result; anything it does not know is an error.
DecisionOf(dom) ==
    IF dom \in Permitting THEN "PERMITTED"
    ELSE IF dom = "undefined" THEN "BLOCKED" ELSE "ERROR"

Record(decision) ==
    [proposal |-> Head(actionQ), decision |-> decision,
     zone_clear |-> sensor.zone_clear, ts |-> clock]

\* Variant, to see that ProposalsAnswered depends on it: a proposal waits for a
\* fresh reading.
OnProposedActionWaits ==
    /\ actionQ # <<>> /\ ~Busy /\ active /\ ~Stale
    /\ actionQ' = Tail(actionQ)
    /\ \E dom \in Core : /\ writing' = Record(DecisionOf(dom))
                         /\ published' = Append(published, writing')
    /\ UNCHANGED <<node, zoneQ, clock, log, proposed, reading, crashes>>

\* on_proposed_action and evaluate_and_publish, up to the publishing.
OnProposedAction ==
    /\ actionQ # <<>> /\ ~Busy /\ active
    /\ actionQ' = Tail(actionQ)
    /\ \E dom \in IF Stale THEN {"error"} ELSE Core :
         /\ writing' = Record(DecisionOf(dom))
         /\ published' = Append(published, writing')
    /\ UNCHANGED <<node, zoneQ, clock, log, proposed, reading, crashes>>

\* Variant, to see that RecordsComplete depends on it: errors are not recorded.
AppendDecided ==
    /\ Busy
    /\ log' = IF logOpen /\ writing.decision # "ERROR" THEN Append(log, writing) ELSE log
    /\ writing' = NoMessage
    /\ UNCHANGED <<node, queues, clock, proposed, history>>

\* append_cert_record; a closed log is passed over in silence.
AppendRecord ==
    /\ Busy
    /\ log' = IF logOpen THEN Append(log, writing) ELSE log
    /\ writing' = NoMessage
    /\ UNCHANGED <<node, queues, clock, proposed, history>>

-----------------------------------------------------------------------------
(* The world *)

\* A full queue loses its oldest message; without subscription all are lost.
Deliver(q, m) ==
    IF ~active THEN q ELSE Append(IF Len(q) >= Depth THEN Tail(q) ELSE q, m)

SensorSends ==
    /\ \E clear \in BOOLEAN : zoneQ' = Deliver(zoneQ, clear)
    /\ UNCHANGED <<node, actionQ, clock, writing, log, proposed, history>>

Propose ==
    /\ proposed < MaxProposals
    /\ proposed' = proposed + 1
    /\ actionQ' = Deliver(actionQ, proposed')
    /\ UNCHANGED <<node, zoneQ, clock, writing, log, history>>

Tick ==
    /\ clock < MaxClock
    /\ clock' = clock + 1
    /\ UNCHANGED <<node, queues, writing, log, proposed, history>>

\* A simulated clock starts over, or the wall clock is set back.
ClockSetBack ==
    /\ clock > 0
    /\ clock' = clock - 1
    /\ UNCHANGED <<node, queues, writing, log, proposed, history>>

\* The process is killed and started again; only the file is left.
Crash ==
    /\ crashes < MaxCrashes
    /\ crashes' = crashes + 1
    /\ state' = "unconfigured" /\ active' = FALSE /\ logOpen' = FALSE
    /\ sensor' = NeverReceived
    /\ zoneQ' = <<>> /\ actionQ' = <<>>
    /\ writing' = NoMessage
    /\ UNCHANGED <<maxAge, clock, log, proposed, published, reading>>

Lifecycle ==
    \/ \E age \in MaxAges : Configure(age)
    \/ Activate \/ Deactivate \/ Cleanup \/ Shutdown

World == SensorSends \/ Propose \/ Tick \/ ClockSetBack \/ Crash

Next == Lifecycle \/ OnZoneClear \/ OnProposedAction \/ AppendRecord \/ World

Spec == Init /\ [][Next]_vars

\* spin() runs each callback that is ready in turn; nothing else is promised.
FairSpec ==
    /\ Spec
    /\ WF_vars(OnZoneClear) /\ WF_vars(OnProposedAction) /\ WF_vars(AppendRecord)

-----------------------------------------------------------------------------
(* Properties *)

Records == [proposal : 1..MaxProposals, decision : {"PERMITTED", "BLOCKED", "ERROR"},
            zone_clear : BOOLEAN, ts : 0..MaxClock]

Readings == [clear : BOOLEAN, at : 0..MaxClock]

ASSUME NoneAssumption == NoMessage \notin Records /\ NoReading \notin Readings

\* The variables have the types of their code counterparts; what a callback relies
\* on when it runs is there: while active, the log is open.
TypeOK ==
    /\ state \in {"unconfigured", "inactive", "active", "finalized"}
    /\ active \in BOOLEAN /\ logOpen \in BOOLEAN
    /\ active => state = "active" /\ logOpen
    /\ maxAge \in MaxAges
    /\ sensor \in [zone_clear : BOOLEAN, received_at : 0..MaxClock]
    /\ zoneQ \in Seq(BOOLEAN) /\ Len(zoneQ) <= Depth
    /\ actionQ \in Seq(1..MaxProposals) /\ Len(actionQ) <= Depth
    /\ writing \in Records \cup {NoMessage}
    /\ log \in Seq(Records)

\* The node permits an action only on a reading that says clear, that it handled
\* itself after it was last configured and with no other since, and that is, by its
\* clock, at most max_sensor_age_ms old then.
PermitIsGrounded ==
    [][published' # published /\ Last(published').decision = "PERMITTED" =>
        /\ reading # NoReading
        /\ reading.clear
        /\ clock - reading.at <= maxAge]_vars

\* at tells of each record in the log which of the decisions published it is of:
\* the same decision, and in the order they were published in.
Places(at) ==
    /\ \A i \in DOMAIN log : log[i] = published[at[i]]
    /\ \A i, j \in DOMAIN log : i < j => at[i] < at[j]

\* The records are those of the decisions published, in the order they were
\* published in, over all configurations and restarts; one is missing only where
\* the process died between the two.
RecordsComplete ==
    /\ \E at \in [DOMAIN log -> DOMAIN published] : Places(at)
    /\ Len(published) - Len(log) <= crashes + (IF Busy THEN 1 ELSE 0)

\* A node that stays active decides on every proposal that its queue has kept and
\* records it, whatever the sensor sends.
ProposalsAnswered ==
    <>[]active => <>[](actionQ = <<>> /\ ~Busy)

=============================================================================
