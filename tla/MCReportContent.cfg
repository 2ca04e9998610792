SPECIFICATION ContentSpec
CONSTANTS
    Initiators = {i1, i2}
    None = None
    Requests <- MCRequests
    Ledgers <- MCLedgers
    IncomeRows = {1}
    ActivityRows = {4}
    RealizedRows = {2}
    Limit = 2
    MaxRows = 4
    MaxPages = 2
    MaxRetries = 1
    MaxRevisions = 2
    RiskPeriods = {"YTD", "1Y"}
    Releases <- MCReleases
    ReportOrders <- MCOrders
    Snapshots <- MCSnapshots
    Legacy <- MCLegacy
    PRESENTED_CONTRIBUTOR_LIMIT = 2
    PRESENTED_HOLDING_LIMIT = 2
    MaxJobs = 2
    MaxGrant = 2
    Orders <- TheOrders
    Contents <- TheContents
    Histories <- TheHistories
    MaxAttempts = 2
    HistoricalPolicyEnabled = TRUE
CONSTRAINT Bounded
INVARIANTS
    ReadyWindowIsOneRevision
    ClientReadyRestsOnAnswers
    AcceptedContractIsKept
    ReadyPageIsPublishable
    RankingShowsBothSides
    EverySendIsTheAcceptedPrincipal
    DatasetIsOneGeneration
    CorrectionCarriesItsHistory
CHECK_DEADLOCK FALSE
