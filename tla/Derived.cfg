SPECIFICATION Spec
CONSTANTS
    Consumers = {"a", "b"}
    AnalyticsSetups <- Analyses
    Replicas = {"r", "s"}
    RollupSetups <- Rollings
    DistillSetups <- Digests
    SourceRows = {"a", "b"}
    DebounceSetups <- Debouncings
    MeasureSetups <- Measurings
INVARIANTS FactsKept RollupsCount DigestsFollow StitchedIsLive
CHECK_DEADLOCK FALSE
