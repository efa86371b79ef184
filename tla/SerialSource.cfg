CONSTANTS
    w1 = w1
    k1 = k1
    r1 = r1
    r2 = r2
    s1 = s1
    s2 = s2
    s3 = s3
    Writers <- MCWriters
    Wakers <- MCWakers
    RawClients <- MCRawClients
    Sessions <- MCSessions
    Statuses <- MCStatuses
    Unusable = "unusable"
SYMMETRY Symmetry
SPECIFICATION Spec
INVARIANTS
    TypeOK
    PortIsExclusive
    AuthorizedWriteSafe
    NoPollDuringLease
    PortInForceIsOpen
    LeaseParksNobody
