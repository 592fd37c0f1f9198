SPECIFICATION FairBackgroundSpec
CONSTANTS
    Focuses = {"relay", "reconcile", "documents"}
    NoWorker = NoWorker
    Workers = {w1, w2}
    Aggs = {a1}
    MaxVersion = 3
    Batch = 2
    MaxFaults = 2
    Faults = {"session", "tx", "publish", "reply", "crash", "skew"}
    RecAggs = {1}
    MaxRecVersion = 3
    RecSetups <- RepairingsInShort
    Writers = {w1, w2}
    NoSeq = NoSeq
    Leader = leader
    Callers = {caller}
    MaxSeq = 2
    SnapshotEvery = 2
    Page = 1
    MaxDocFaults = 1
    Deployments <- UsualInShort
PROPERTIES CopiesCatchUp
CHECK_DEADLOCK FALSE
