----------------------- MODULE MCActuationCoordinator -----------------------
\* Two ordinary controllers, one safety controller, four lease objects and two
\* wake requests.  Two ordinary controllers stand for fan, menu-debug and
\* raw-passthrough, which the coordinator does not tell apart.
EXTENDS ActuationCoordinator, TLC

CONSTANTS fan, raw, overtemp, l1, l2, l3, l4, w1, w2

MCOwners == {fan, raw, overtemp}
MCSafetyOwners == {overtemp}
MCLeaseIds == {l1, l2, l3, l4}
MCWakers == {w1, w2}

Symmetry ==
    Permutations(MCLeaseIds) \cup Permutations(MCWakers) \cup Permutations({fan, raw})
=============================================================================
