SPECIFICATION Spec
CONSTANTS
    Aggs = {1, 2}
    MaxVersion = 2
    Consumers = {c1, c2}
    Rebuilders = {r1}
    MaxModel = 3
    PageSize = 1
    MaxFaults = 0
    Setups <- Quiet
INVARIANT LiveTargetConverged
CHECK_DEADLOCK FALSE
