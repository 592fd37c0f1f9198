SPECIFICATION Spec
CONSTANTS
    Focuses = {"hub", "window", "engine", "cluster", "filters", "remote", "edge"}
    MaxSessions = 3
    HubAggs = {"a", "b"}
    HubBuffer = 1
    LiveKeys = {0, 1, 3}
    MaxHandles = 3
    EngineBuffer = 1
    MaxAttempts = 2
    Shards = {1, 2}
    ClusterSubs = {1}
    MaxReanchors = 1
    HubSetups <- Hubs
    LiveSetups <- Queries
    EngineSetups <- Engines
    ClusterSetups <- Clusters
    Views = {1, 2}
    FilterSetups <- Filterings
    RemoteSetups <- Remotes
    EdgeSetups <- Edges
INVARIANTS SubscribersServed WindowExact ViewsShared ClusterSettles FiltersAgree EdgesServe
CHECK_DEADLOCK FALSE
