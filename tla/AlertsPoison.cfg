\* One span with a token attribute that is no number, and a failure that stands.
SPECIFICATION FairSpec
CONSTANTS
    c1 = c1
    t1 = t1
    t2 = t2
    fast = fast
    slow = slow
    poison = poison
    err = err
    old = old
    Instances = {i1}
    Conversations = {c1}
    Traces = {t1, t2}
    Spans = {slow, poison}
    SpanOf <- MCSpanOf
    Logs = {}
    LogOf <- MCLogOf
    Links = {}
    LinkTimes = {1}
    Global = Global
    None = None
    NotNumeric = NotNumeric
    Horizon = 2
    Window = 1
    Day = 2
    P95Threshold = 28
    TokenBudget = 2
    Retention = 2
    MaxFails = 0
CHECK_DEADLOCK FALSE
PROPERTY
    StandingConditionsAreAlerted
