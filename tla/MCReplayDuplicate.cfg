SPECIFICATION ReplaySpec
CONSTANTS
    Jobs = {j1, d1}
    Workers = {w1}
    Tokens = {t1}
    NoToken = NoToken
    NoLease = NoLease
    NoJob = NoJob
    MaxAttempts = 1
    BaseDelay = 1
    MaxDelay = 1
    LeaseTicks = 1
    CallerCategories <- AllCategories
    Callers = {c1}
    Direct = {d1}
    DataOnly = {}
    Embedded <- NoEmbedded
    ReplayFamilies = {j1, d1}
    Contents = {"facts"}
    CaptureAnswers = {"facts", "failed_retryable", "failed_final", "inconsistent"}
    CustodyAnswers = {"archived_verified", "archive_pending", "archive_failed",
                      "archive_refused", "unstated"}
    RenderMayForget = {}
INVARIANTS
    OneDocumentPerLineage
