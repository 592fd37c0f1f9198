SPECIFICATION Spec
CONSTANTS
    Focuses = {"tenants", "directory", "pool", "sweep", "dynamic"}
    Clusters = {"c", "d"}
    Callers = {1, 2}
    Operators = {1}
    TenantSetups <- Onboardings
    Lookups = {1, 2}
    Replicas = 1
    TTL = 2
    MaxWait = 1
    MaxLag = 1
    MaxNow = 4
    MaxChanges = 2
    MaxOutages = 1
    PoolShards = {"a", "b", "c"}
    Clients = {1, 2, 3}
    PoolSetups <- Pools
    SweepTenants = {1, 2}
    Workers = 1
    BackoffCap = 3
    SweepSetups <- Sweepings
    Procs = {1, 2}
    Columns = {"a", "b"}
    DynSetups <- Evolvings
INVARIANTS TenantsPlaced AnswersAreFresh PoolAccounted WokenIsSwept TypesAgree
PROPERTIES OthersRespected
CHECK_DEADLOCK FALSE
