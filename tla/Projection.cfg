SPECIFICATION FairSpec
CONSTANTS
    a1 = a1
    NoConsumer = NoConsumer
    Consumers = {c1, c2}
    Aggs = {a1}
    Hist <- Life
    Poison <- BadPayload
    Sinks = {"graph", "search"}
    Count = 2
    Faults <- TwoFaults
    MaxStream = 3
INVARIANTS ReadYourWrites NoneLost
PROPERTIES NoRegress AppliedUnlessFailed
CHECK_DEADLOCK FALSE
