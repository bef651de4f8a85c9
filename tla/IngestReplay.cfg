\* A post whose reply is lost is repeated.
SPECIFICATION Spec
CONSTANTS
    c1 = c1
    t1 = t1
    t2 = t2
    u1 = u1
    u2 = u2
    s1 = s1
    pSpans = pSpans
    pLogs = pLogs
    pEmpty = pEmpty
    pBad = pBad
    pBig = pBig
    pOdd = pOdd
    secret = secret
    Tokens = {secret}
    NoToken = NoToken
    IngestToken = secret
    MaxBody = 2
    MaxInflated = 3
    RequestOf <- MCRequestOf
    BadAt <- MCBadAt
    Conversations = {c1}
    Traces = {t1, t2}
    Users = {u1, u2}
    SpanIds = {s1}
    Payload = {pLogs, pEmpty, pOdd}
    Kind <- MCKind
    RowsOf <- MCRowsOf
    LinksOf <- MCLinksOf
    NoConv = NoConv
    NoTrace = NoTrace
    NoUser = NoUser
    NoTime = NoTime
    NoRow = NoRow
    Horizon = 1
    PoolSize = 2
    MaxTries <- MCMaxTries
    MaxFaults = 1
CHECK_DEADLOCK FALSE
INVARIANT
    NoDuplicateLogs
