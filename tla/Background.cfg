SPECIFICATION BackgroundSpec
CONSTANTS
    Focuses = {"relay", "reconcile", "documents"}
    NoWorker = NoWorker
    Workers = {w1, w2}
    Aggs = {a1}
    MaxVersion = 3
    Batch = 2
    MaxFaults = 2
    Faults = {"session", "tx", "publish", "reply", "crash", "skew"}
    RecAggs = {1, 2}
    MaxRecVersion = 3
    RecSetups <- Repairings
    Writers = {w1, w2}
    NoSeq = NoSeq
    Leader = leader
    Callers = {caller}
    MaxSeq = 3
    SnapshotEvery = 2
    Page = 1
    MaxDocFaults = 1
    Deployments <- Usual
INVARIANTS PublishedIsInStream RelayKept RepairsKept DocumentsKept
PROPERTIES NothingPublishedAfterErasure
CHECK_DEADLOCK FALSE
