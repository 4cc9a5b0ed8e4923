SPECIFICATION FairSpec
CONSTANTS
    s1 = s1
    s2 = s2
    w1 = w1
    w2 = w2
    SseConns = {s1, s2}
    WsConns = {w1, w2}
    NoConn = NoConn
    MaxSse = 1
    MaxWs = 1
    StreamLen = 1
    ReadCount = 2
    FetchCount = 2
    MaxItems = 2
    NumEvents = 1
    Openings <- MCOpenings
PROPERTY
    IdleTimesOut
CHECK_DEADLOCK FALSE
