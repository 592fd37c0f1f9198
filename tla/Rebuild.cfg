SPECIFICATION Spec
CONSTANTS
    Aggs = {1, 2}
    MaxVersion = 2
    Consumers = {c1, c2}
    Rebuilders = {r1}
    MaxModel = 3
    PageSize = 1
    MaxFaults = 1
    Setups <- Safe
SYMMETRY Symmetric
INVARIANTS ConvergedUnlessStale
PROPERTIES LiveNeverDropped
CHECK_DEADLOCK FALSE
