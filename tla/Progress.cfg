SPECIFICATION Spec
CONSTANTS
    Focuses = {"hub", "engine", "cluster", "pool", "sweep", "remote", "edge"}
    MaxSessions = 3
    HubAggs = {"a", "b"}
    HubBuffer = 1
    HubSetups <- Hubs
    MaxHandles = 3
    EngineBuffer = 1
    MaxAttempts = 2
    EngineSetups <- Engines
    Shards = {1, 2}
    ClusterSubs = {1}
    MaxReanchors = 0
    ClusterSetups <- Clusters
    PoolShards = {"a", "b"}
    Clients = {1, 2}
    PoolSetups <- Pools
    SweepTenants = {1, 2}
    Workers = 1
    BackoffCap = 3
    SweepSetups <- Sweepings
    RemoteSetups <- Remotes
    EdgeSetups <- Edges
PROPERTIES SubscriptionsProgress TenantsProgress
CHECK_DEADLOCK FALSE
