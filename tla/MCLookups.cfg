CONSTANTS
    robot = robot
    box = box
    mark = mark
    due = due
    Nothing = Nothing
    Names = {robot, box, mark, due}
    At = {box, due}
    Keys = {robot, mark}
    Entities = {robot, box}
    Events = {due}
    Places <- MCPlaces
    Sightings <- MCSightings
    Bindings <- MCBindings
    Settings <- MCSettings
    Times = {1}
    Figures = {1}
    MaxSkewMs = 0
    MaxTime = 1
SPECIFICATION WorldSpec
INVARIANTS
    StrictOnlyRefuses
PROPERTIES
    LearningNeverReverses
    DemonstrativeHolds
    TowardsApproaches
