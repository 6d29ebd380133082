---------------------------- MODULE LookupWorld ----------------------------
(* The context that chains ask changes between evaluations: reports of       *)
(* entities come and go, things move, the clock runs, demonstratives are     *)
(* bound and released, and the slow layers are replaced, many of these in    *)
(* one write of the context manager. The world is the adapters, clocks and   *)
(* operators around src/noe/noe_parser.py.                                   *)
EXTENDS Lookups

CONSTANTS
    Sightings,   \* the reports there may be of each entity
    Bindings,    \* what the demonstratives shard may say
    Settings,    \* the slow layers the context may have
    Times,       \* when events may be due
    MaxTime      \* bound on the clock

ASSUME TimesAreNatural == Times \subseteq Nat /\ MaxTime \in Nat

Given(S) == S \union {Nothing}

\* What may be reported of an entity, and what a spatial shard may say.
EntityReports ==
    [form : {"list", "map"}, position : Given(Places), velocity : Given(Int \X Int),
     distance : Given(Int), radius : Given(Int)]

Shards ==
    [near : Given(Int), far : Given(Int),
     orientation : Given([target : Given(Int), tolerance : Given(Int)]), v_min : Int, d_min : Int]

\* What a literal may stand for.
Values ==
    {Truth(t) : t \in K3}
        \union [type : {"name", "action"}, is : Names] \union [type : {"number"}, is : Int]

\* A table of relations is a map: it has one entry for an operator and its operands.
IsTable(rel) ==
    \A r, q \in rel : <<r.op, r.left, r.right>> = <<q.op, q.left, q.right>> => r = q

ASSUME WorldAssumption ==
    /\ Places \subseteq Int \X Int \X Int
    /\ Nothing \notin Int \union Places \union (Int \X Int) \union EntityReports \union Shards
    /\ Nothing \notin [Events -> Given(Times)] \union [Keys -> Given(Values)]
    /\ \A n \in Entities : Sightings[n] \subseteq EntityReports
    /\ \A s \in Settings : /\ s.spatial \in Given(Shards)
                           /\ s.literals \in [Keys -> Given(Values)]
                           /\ IsTable(s.rel)

\* What a write may report of all entities.
Scenes ==
    {reports \in [Entities -> UNION {Given(Sightings[n]) : n \in Entities}] :
        \A n \in Entities : reports[n] \in Given(Sightings[n])}

VARIABLE context

-----------------------------------------------------------------------------
WorldInit ==
    \E s \in Settings :
        context = [now      |-> 0,
                   stamp    |-> 0,
                   events   |-> [e \in Events |-> Nothing],
                   entities |-> [n \in Entities |-> Nothing],
                   bindings |-> Nothing,
                   setting  |-> s]

\* A report of a single entity, which carries the time.
ReportEntity(n, report) ==
    context' = [context EXCEPT !.entities[n] = report, !.stamp = context.now]

Moved(report) ==
    [report EXCEPT !.position = <<@[1] + report.velocity[1], @[2] + report.velocity[2], @[3]>>]

\* An entity moves by its velocity, and is reported where it is then.
Move(n) ==
    /\ Nothing \notin {Field(n, "position", context), Field(n, "velocity", context)}
    /\ Moved(context.entities[n]).position \in Places
    /\ ReportEntity(n, Moved(context.entities[n]))

\* A write replaces whole shards, and so anything in them, in one step. Its layer is the
\* local one, and the write brings the time of its reports, or one of the slow ones.
Write ==
    \E reports \in Scenes, events \in [Events -> Given(Times)], bindings \in Given(Bindings),
       setting \in Settings, stamp \in {context.stamp, context.now} :
        context' = [now |-> context.now, stamp |-> stamp, events |-> events,
                    entities |-> reports, bindings |-> bindings, setting |-> setting]

Tick ==
    /\ context.now < MaxTime
    /\ context' = [context EXCEPT !.now = @ + 1]

WorldNext == Write \/ Tick \/ \E n \in Entities : Move(n)

WorldSpec == WorldInit /\ [][WorldNext]_context

-----------------------------------------------------------------------------
(* Properties.                                                               *)

\* y says all that x says: a missing value may be there, a value stays.
Adds(x, y) == x = Nothing \/ (y # Nothing /\ \A f \in DOMAIN x : x[f] \in {Nothing, y[f]})

AddsSpatial(x, y) ==
    \/ x = Nothing
    \/ /\ y # Nothing
       /\ Adds([x EXCEPT !.orientation = Nothing], y)
       /\ Adds(x.orientation, y.orientation)

AddsValues(x, y) ==
    \/ x = Nothing
    \/ /\ y # Nothing
       /\ x.accepted \subseteq y.accepted /\ x.rejected \subseteq y.rejected
       /\ y.accepted \intersect y.rejected = {}

\* The context d says more than c, at the same time and of the same bindings.
Extends(d, c) ==
    /\ d.now = c.now /\ d.bindings = c.bindings
    /\ Adds(c.events, d.events)
    /\ \A n \in Entities : Adds(c.entities[n], d.entities[n])
    /\ c.setting.temporal => d.setting.temporal
    /\ Adds(c.setting.literals, d.setting.literals)
    /\ AddsSpatial(c.setting.spatial, d.setting.spatial)
    /\ AddsValues(c.setting.axioms, d.setting.axioms)
    /\ c.setting.rel \subseteq d.setting.rel

(* What a chain has answered in strict mode does not turn into its opposite  *)
(* when the context learns something it did not know: ignorance is answered  *)
(* with undefined or an error, never with a guess.                           *)
LearningNeverReverses ==
    [][Extends(context', context) => \A chain \in Chains :
        LET before == RunNoeLogic(chain, "strict", context)
        IN  before.type = "truth" =>
                RunNoeLogic(chain, "strict", context') # Truth(KNot(before.is))]_context

\* How far away n is, and how far a demonstrative reaches, has changed.
DistanceChanged(n) == Field(n, "distance", context') # Field(n, "distance", context)
ReachChanged(word, mode) == Reach(word, mode, context') # Reach(word, mode, context)

\* What it takes for a demonstrative to pass from n to m in one step.
DemonstrativePasses(word, mode, n, m) ==
    /\ Binding(word, context) = Nothing
    /\ DistanceChanged(n) \/ DistanceChanged(m)
    /\ ReachChanged(word, mode) \/ (DistanceChanged(n) /\ DistanceChanged(m))

\* What a demonstrative that keeps its binding means after a step.
DemonstrativesStay ==
    context'.bindings = context.bindings => \A word \in Demonstratives, mode \in Modes :
        LET before == Demonstrative(word, mode, context)
            after  == Demonstrative(word, mode, context')
        IN  \/ before = Undefined \/ after = Undefined \/ after = before
            \/ DemonstrativePasses(word, mode, before.is, after.is)

(* A demonstrative that is bound does not pass to another entity before its  *)
(* binding is changed, whatever becomes of the entity. One that is not bound *)
(* passes from one entity to another only in a write that gives both of them *)
(* new distances, or one of them if the write also changes the reach: a      *)
(* write that says something of neither, or of one alone, leaves a reader    *)
(* with the same entity or with an undefined demonstrative.                  *)
DemonstrativeHolds == [][DemonstrativesStay]_context

\* The square of how far two entities are apart.
Apart(n, m, c) ==
    LET way == Between(Field(n, "position", c), Field(m, "position", c)) IN Dot(way, way)

\* The square of a step of n.
Pace(n) == LET step == Field(n, "velocity", context) IN Dot(step, step)

Holds(op, x, y, mode) ==
    RunNoeLogic([op |-> op, left |-> x, right |-> y], mode, context) = Truth("T")

\* What tra and fra said of n and m comes true when n moves.
MoveAsSaid(n) ==
    \A x, y \in Operands, mode \in Modes :
        LET m == EntityKey(y, mode, context)
        IN  EntityKey(x, mode, context) = n /\ m # n =>
              /\ Holds("tra", x, y, mode) /\ Pace(n) <= Apart(n, m, context) =>
                    Apart(n, m, context') < Apart(n, m, context)
              /\ Holds("fra", x, y, mode) => Apart(n, m, context') > Apart(n, m, context)

(* A thing of which tra holds comes closer when it moves as it was said to,  *)
(* unless its step is longer than the way and takes it past its goal; a      *)
(* thing of which fra holds gets farther away.                               *)
TowardsApproaches == [][\A n \in Entities : Move(n) => MoveAsSaid(n)]_context

(* Strict mode only refuses: what it answers partial mode answers as well,   *)
(* defaults or not.                                                          *)
StrictOnlyRefuses ==
    \A chain \in Chains :
        LET strict == RunNoeLogic(chain, "strict", context)
        IN  strict.type = "truth" => RunNoeLogic(chain, "partial", context) = strict

=============================================================================
