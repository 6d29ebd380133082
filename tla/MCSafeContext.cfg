CONSTANTS
    p = p
    q = q
    s1 = s1
    s2 = s2
    yes = yes
    no = no
    object = object
    Preds = {p, q}
    Sources = {s1, s2}
    Readings = {yes, no, object}
    Scalars = {yes, no}
    Incomparable = Incomparable
    Absent = Absent
    TauStale = 2
    TauWindow = 1
    MaxSkew = 1
    Group <- MCGroup
    Starts <- MCStarts
    Reports <- MCReports
    MaxNow = 5
SPECIFICATION Spec
INVARIANTS
    TypeOK
PROPERTIES
    StrictAdmission
    AgeingIsSafe
