\* Two evaluators (a rolling restart), one pass of which may stop half way.
SPECIFICATION FairSpec
CONSTANTS
    c1 = c1
    t1 = t1
    t2 = t2
    fast = fast
    slow = slow
    poison = poison
    err = err
    old = old
    Instances = {i1, i2}
    Conversations = {c1}
    Traces = {t1, t2}
    Spans = {}
    SpanOf <- MCSpanOf
    Logs = {err, old}
    LogOf <- MCLogOf
    Links <- MCLinks
    LinkTimes = {1}
    Global = Global
    None = None
    NotNumeric = NotNumeric
    Horizon = 1
    Window = 0
    Day = 0
    P95Threshold = 28
    TokenBudget = 2
    Retention = 0
    MaxFails = 1
CHECK_DEADLOCK FALSE
INVARIANTS
    OneOpenPerTarget
PROPERTIES
    AlertsConverge
