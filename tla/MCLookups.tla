----------------------------- MODULE MCLookups -----------------------------
EXTENDS LookupWorld, TLC

CONSTANTS robot, box, mark, due

O == <<0, 0, 0>>
East == <<1, 0>>

MCPlaces == {O, <<1, 0, 0>>, <<2, 0, 0>>, <<1, 1, 0>>}

MCReport(form, position, velocity, distance, radius) ==
    [form |-> form, position |-> position, velocity |-> velocity, distance |-> distance,
     radius |-> radius]

\* The robot may stand, drive or be of unknown speed; the box is near or far.
MCSightings ==
    (robot :> {MCReport("list", O, v, Nothing, Nothing) : v \in {Nothing, East}}
                \union {MCReport("list", <<2, 0, 0>>, East, 1, Nothing),
                        MCReport("list", <<1, 0, 0>>, <<0, 0>>, Nothing, Nothing)})
    @@ (box :> {MCReport("list", <<1, 0, 0>>, East, 1, 1),
                MCReport("list", <<2, 0, 0>>, Nothing, 2, Nothing),
                MCReport("map", <<1, 0, 0>>, Nothing, 1, Nothing)})

MCBound(dia, proximal, distal) ==
    [dia |-> dia, proximal |-> proximal, doq |-> Nothing, distal |-> distal]

MCBindings ==
    {MCBound(Nothing, Nothing, Nothing), MCBound(robot, box, box)}

MCSpatial(near, far, orientation, least) ==
    [near |-> near, far |-> far, orientation |-> orientation, v_min |-> least, d_min |-> least]

MCFacing == [target |-> 0, tolerance |-> 45]

MCSetting(value, spatial, axioms, rel) ==
    [literals |-> (robot :> Truth("T")) @@ (mark :> value), spatial |-> spatial,
     temporal |-> TRUE, axioms |-> axioms, rel |-> rel]

MCValues(accepted, rejected) == [accepted |-> accepted, rejected |-> rejected]
MCRow == [op |-> "kos", left |-> Truth("T"), right |-> Name(due), holds |-> TRUE]
MCNoRow == [op |-> "kos", left |-> Truth("T"), right |-> Name(box), holds |-> FALSE]

MCBase == MCSetting(Name(due), MCSpatial(1, 1, MCFacing, 0), MCValues({}, {}), {})

\* From knowing little to knowing more, and what else a value can be.
MCSettings ==
    {MCBase,
     [MCBase EXCEPT !.axioms = MCValues({due}, {box}), !.rel = {MCRow, MCNoRow}],
     [MCBase EXCEPT !.spatial = Nothing],
     [MCBase EXCEPT !.spatial = MCSpatial(Nothing, 2, [target |-> 180, tolerance |-> Nothing], 1),
                    !.literals = (robot :> Number(0)) @@ (mark :> Deed(due))],
     [MCBase EXCEPT !.spatial = MCSpatial(2, 2, MCFacing, 1), !.literals[mark] = Name(box),
                    !.rel = {MCRow, MCNoRow}],
     [MCBase EXCEPT !.temporal = FALSE, !.literals[mark] = Nothing]}

=============================================================================
