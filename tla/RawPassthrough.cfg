CONSTANTS
    c1 = c1
    c2 = c2
    Clients <- LiveClients
SPECIFICATION LiveSpec
INVARIANTS
    TypeOK
    NeverArmedDuringLease
    NothingLeaks
PROPERTIES
    ShutdownEndsSessions
