SPECIFICATION MCSpec
CONSTANTS
    p1 = p1
    p2 = p2
    k1 = k1
    k2 = k2
    k3 = k3
    None = None
    ScheduleCount = 1
    Editors = {e1, e2}
    Passes = {r1, r2}
    Scopes = {here}
    SchedulerScope = here
    Portfolios <- PairPortfolios
    Packs <- MCPacks
    Configurations <- MCConfigurations
    DaysPerMonth = 1
    LastDay = 2
    OperatorDays = {}
    BackfillLimit = 2
    MaxRevision = 2
    JobKeys = {k1, k2, k3}
    Submitted = {k1}
    RerenderKeys = {k2, k3}
    Contents = {x, y}
    Threads = {r1, r2}
    Retained = {k1}
    MaxAttempts = 2
    MaxLeases = 3
    Services <- SomeServices
SYMMETRY ActorSymmetry
CONSTRAINT AtMostTwoUnderWay
INVARIANTS
    AuditExplainsDefinition
    OneBatchPerStoredCycle
    EveryPackWasOwed
    BackfillIsExact
    OneLiveReplacement
    RetainedRequestsSurvive
