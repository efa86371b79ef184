CONSTANTS
    c1 = c1
    c2 = c2
    Clients <- MCClients
SPECIFICATION Spec
INVARIANT
    TapOfThisLease
