\* What leaves the process although every call asked for redaction.
SPECIFICATION Spec
CONSTANTS
    ta = ta
    tb = tb
    x1 = x1
    x2 = x2
    u1 = u1
    u2 = u2
    app = app
    adkSpan = adkSpan
    errorLog = errorLog
    Thread = {ta, tb}
    Endpoints = {"a", "b", "c"}
    Work = {x1, x2}
    Plans <- MCPlans
    Names <- MCConversations
    People = {u1}
    Unset = Unset
    Adk = Adk
    Conversations <- MCConversations
    Traces = {x1, x2}
    Users = {u1, u2}
    Horizon = 2
    NoConv = Unset
    NoTrace = Unset
    NoUser = Unset
    NoTime = NoTime
    NoRow = NoRow
    Numerals = {"7"}
    Absent = Absent
    Zeros = Zeros
    Words <- MCWords
    AttrKeys <- MCAttrKeys
    Nesting = 2
    Service = app
    LoggedAt = 1
    Sensitive <- MCSensitive
    Mask = Mask
    Masking = TRUE
    Unasked = Unasked
    Foreign <- MCForeign
CHECK_DEADLOCK FALSE
INVARIANT
    RecordsLeaveScrubbed
