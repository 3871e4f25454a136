CONSTANTS
    Caller = {w1, w2}
    Cache = {c1, c2}
    Kinds = {"memory", "redis", "memcached"}
    TtlMs = 1
    SecondMs = 2
    MaxVersion = 1
    MaxTime = 3
    Nowhere = nowhere
SYMMETRY Symmetry
SPECIFICATION Spec
INVARIANTS DeleteIsFinal StalenessBounded
