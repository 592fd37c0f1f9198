SPECIFICATION Spec
CONSTANTS
    Consumers = {"a", "b"}
    AnalyticsSetups <- Analyses
    Replicas = {"r", "s"}
    RollupSetups <- Rollings
    DistillSetups <- Returning
    SourceRows = {"a"}
    DebounceSetups <- Debouncings
    MeasureSetups <- Measurings
INVARIANTS
    PromotedAboveFloor
CHECK_DEADLOCK FALSE
