SPECIFICATION FairPipelineSpec
CONSTANTS
    Jobs = {j1, j2, o1, v1}
    Workers = {w1}
    Tokens = {t1}
    NoToken = NoToken
    NoLease = NoLease
    NoJob = NoJob
    MaxAttempts = 2
    BaseDelay = 1
    MaxDelay = 1
    LeaseTicks = 1
    CallerCategories <- AllCategories
    Callers = {c1}
    Direct = {o1, v1}
    DataOnly = {j2}
    Embedded <- EmbeddedJobs
    ProofPackJob = p1
    OutcomeReviewJob = o1
    WaveJob = v1
    ReplayFamilies = {j1}
    Contents = {"facts"}
    CaptureAnswers = {"facts", "failed_retryable", "failed_final", "inconsistent"}
    CustodyAnswers = {"archived_verified", "archive_pending", "archive_failed",
                      "archive_refused", "unstated"}
    RenderMayForget = {j1, j2}
CONSTRAINT OneJob
PROPERTIES
    EveryQueuedJobFinishes
    EveryWorkItemSettles
