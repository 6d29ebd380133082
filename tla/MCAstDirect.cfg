CONSTANTS
    w1 = w1
    w2 = w2
    d1 = d1
    c1 = c1
    c2 = c2
    c3 = c3
    long = long
    junk = junk
    Workers = {w1}
    Direct = {d1}
    Nobody = Nobody
    Chains = {c1, c2, c3, long, junk}
    Long = {long}
    Unparsable = {junk}
    MaxSize = 2
    NoTree = NoTree
SPECIFICATION FairSpec
INVARIANTS
    ParserAccessSerialized
