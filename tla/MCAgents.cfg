CONSTANTS
    alice = alice
    bob = bob
    r1 = r1
    r2 = r2
    v1 = v1
    shi = shi
    vek = vek
    modal = modal
    spatial = spatial
    t1 = t1
    t2 = t2
    k1 = k1
    k2 = k2
    Agents = {alice, bob}
    Registries = {r1, r2}
    Versions = {v1}
    Operators = {shi, vek}
    Subsystems = {modal, spatial}
    Shared = Shared
    Absent = Absent
    Threads = {t1, t2}
    Declared <- MCDeclared
    k3 = k3
    Keys = {k1, k2, k3}
    KeysOf <- MCKeysOf
    Registered = {alice}
    NoKey = NoKey
    Words = {shi, vek}
    MaxAge = 1
    MaxTime = 2
SYMMETRY Symmetry
SPECIFICATION Spec
INVARIANTS
    EndsAgree
    PassesHonourBoth
    SessionsShareTheKey
