\* One evaluator on every kind of telemetry the rules read, a late link and a moving clock.
SPECIFICATION FairSpec
CONSTANTS
    c1 = c1
    t1 = t1
    t2 = t2
    fast = fast
    slow = slow
    poison = poison
    err = err
    old = old
    Instances = {i1}
    Conversations = {c1}
    Traces = {t1, t2}
    Spans = {fast, slow, poison}
    SpanOf <- MCSpanOf
    Logs = {}
    LogOf <- MCLogOf
    Links <- MCLinks
    LinkTimes = {0}
    Global = Global
    None = None
    NotNumeric = NotNumeric
    Horizon = 2
    Window = 1
    Day = 1
    P95Threshold = 28
    TokenBudget = 2
    Retention = 1
    MaxFails = 0
CHECK_DEADLOCK FALSE
INVARIANTS
    TypeOK
    AlertsHadEvidence
PROPERTIES
    IncidentsEndByResolution
    AlertsConverge
