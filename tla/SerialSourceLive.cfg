CONSTANTS
    w1 = w1
    k1 = k1
    r1 = r1
    r2 = r2
    s1 = s1
    s2 = s2
    s3 = s3
    Writers <- LiveWriters
    Wakers <- MCWakers
    RawClients <- LiveRawClients
    Sessions <- LiveSessions
    Statuses <- LiveStatuses
    Unusable = "unusable"
SPECIFICATION LiveSpec
PROPERTIES
    HandoverEnds
    ShutdownStopsLoop
