CONSTANTS
    fan = fan
    raw = raw
    overtemp = overtemp
    l1 = l1
    l2 = l2
    l3 = l3
    l4 = l4
    w1 = w1
    w2 = w2
    Owners <- MCOwners
    SafetyOwners <- MCSafetyOwners
    LeaseIds <- MCLeaseIds
    Wakers <- MCWakers
SYMMETRY Symmetry
SPECIFICATION Spec
INVARIANTS
    TypeOK
    ActuatorExclusive
PROPERTIES
    StaleReleaseHarmless
    OnlySafetyPreempts
    RefinesActuatorAccess
