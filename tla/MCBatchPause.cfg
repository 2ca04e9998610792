SPECIFICATION FairBatchSpec
CONSTANTS
    Items = {i1}
    Workers = {w1}
    Operators = {o1}
    ReplayKeys = {k1}
    ItemKey = ItemKey
    Tokens = {t1, t2, t3}
    NoToken = NoToken
    NoKey = NoKey
    NoItem = NoItem
    MaxAttempts = 2
    MaxActiveItems = 1
    LeaseTicks = 1
PROPERTIES
    PausedBatchJobsContinue
