SPECIFICATION ReplaySpec
CONSTANTS
    Jobs = {j1, d1, d2}
    Workers = {w1}
    Tokens = {t1}
    NoToken = NoToken
    NoLease = NoLease
    NoJob = NoJob
    MaxAttempts = 1
    BaseDelay = 1
    MaxDelay = 1
    LeaseTicks = 1
    CallerCategories <- AllCategories
    Callers = {c1, c2}
    Direct = {d1, d2}
    DataOnly = {}
    Embedded <- NoEmbedded
    ReplayFamilies = {j1}
    Contents = {"facts"}
    CaptureAnswers = {"facts", "failed_retryable"}
    CustodyAnswers = {"archived_verified", "archive_pending", "archive_refused"}
    RenderMayForget = {}
SYMMETRY Symmetry
CONSTRAINT RaceIsPlain
INVARIANTS
    ResolvedReplayIsUnique
    OneReplacementUnderWay
