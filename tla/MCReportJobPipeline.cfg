SPECIFICATION PipelineSpec
CONSTANTS
    Jobs = {j1, d1, p1}
    Workers = {w1, w2}
    Tokens = {t1, t2, t3}
    NoToken = NoToken
    NoLease = NoLease
    NoJob = NoJob
    MaxAttempts = 2
    BaseDelay = 1
    MaxDelay = 1
    LeaseTicks = 1
    CallerCategories <- AllCategories
    Callers = {c1, c2}
    Direct = {d1, p1}
    Embedded <- EmbeddedJobs
    ProofPackJob = p1
    OutcomeReviewJob = o1
    WaveJob = v1
    DataOnly = {}
    ReplayFamilies = {j1, d1}
    Contents = {"facts", "restated"}
    CaptureAnswers = {"facts", "restated", "failed_retryable", "inconsistent"}
    CustodyAnswers = {"archived_verified", "archive_pending", "unstated"}
    RenderMayForget = {}
SYMMETRY Symmetry
CONSTRAINTS OneJob EmbeddedUntilSubmitted
INVARIANTS
    AttemptBudget
    ExhaustedWorkIsTerminal
    CompletedWorkIsFinished
    RenderedFromIntactSnapshot
    ArchivedIsCommitted
    ReplayableArchiveFailureHasRequest
PROPERTIES
    LostLeaseStaysLost
    WorkSettledOnce
    LedgerSpec
