--------------------- MODULE ActuationCoordinatorProofs ---------------------
(***************************************************************************)
(* Theorems about the actuation coordinator, for any number of             *)
(* controllers, lease objects and wake requests.  The inductive invariant  *)
(* joins the three state invariants: which write may be running depends on *)
(* the current lease, and whose lease it is depends on every release       *)
(* having cleared only its own.                                            *)
(***************************************************************************)
EXTENDS ActuationCoordinator, TLAPS

IInv == TypeOK /\ ActuatorExclusive /\ CurrentLeaseLive

\* The initial state has no lease, no wake and no write.
LEMMA InitIInv == Init => IInv
  BY CoordinatorAssumption
  DEF Init, IInv, TypeOK, ActuatorExclusive, CurrentLeaseLive, Issued, CurrentOwner

\* Every critical section of the coordinator, and every transport call between
\* them, keeps the invariant.
LEMMA NextIInv == IInv /\ [Next]_vars => IInv'
<1> SUFFICES ASSUME IInv, [Next]_vars PROVE IInv'
  OBVIOUS
<1> USE CoordinatorAssumption
    DEF IInv, TypeOK, ActuatorExclusive, CurrentLeaseLive, Issued, CurrentOwner, MuFree
<1>1. ASSUME NEW o \in Owners, Acquire(o) PROVE IInv'
  <2>1. PICK l \in LeaseIds \ Issued :
           lease' = l /\ leaseOwner' = [leaseOwner EXCEPT ![l] = o]
    BY <1>1 DEF Acquire
  <2>2. /\ pressing = "none" /\ Grants(o)
        /\ UNCHANGED <<released, wakeDone, pulsing, pressing>>
    BY <1>1 DEF Acquire
  <2>3. TypeOK'
    BY <2>1, <2>2
  <2>4. wakeDone = "none" /\ pulsing = {}
    BY <2>2 DEF Grants
  <2>5. ActuatorExclusive'
    BY <2>1, <2>2, <2>4
  <2>6. CurrentLeaseLive'
    BY <2>1, <2>2
  <2> QED BY <2>3, <2>5, <2>6
<1>2. ASSUME NEW l \in LeaseIds, Release(l) PROVE IInv'
  <2>1. TypeOK'
    BY <1>2 DEF Release
  <2>2. ActuatorExclusive'
    BY <1>2 DEF Release
  <2>3. CurrentLeaseLive'
    BY <1>2 DEF Release
  <2> QED BY <2>1, <2>2, <2>3
<1>3. ASSUME NEW o \in Owners, OwnedSendButton(o) PROVE IInv'
  BY <1>3 DEF OwnedSendButton
<1>4. ASSUME ManualSendButton PROVE IInv'
  BY <1>4 DEF ManualSendButton
<1>5. ASSUME SendButtonReturns PROVE IInv'
  BY <1>5 DEF SendButtonReturns
<1>6. ASSUME NEW w \in Wakers, ReserveWake(w) PROVE IInv'
  BY <1>6 DEF ReserveWake
<1>7. ASSUME NEW w \in Wakers, FinishWake(w) PROVE IInv'
  BY <1>7 DEF FinishWake
<1>8. CASE UNCHANGED vars
  BY <1>8 DEF vars
<1> QED
  BY <1>1, <1>2, <1>3, <1>4, <1>5, <1>6, <1>7, <1>8 DEF Next

\* The strengthened invariant holds in every reachable state.
THEOREM CoordinatorInvariant == Spec => []IInv
  BY InitIInv, NextIInv, PTL DEF Spec

\* Every variable keeps its type, and only issued leases are ever released.
THEOREM TypeCorrect == Spec => []TypeOK
<1>1. IInv => TypeOK
  BY DEF IInv
<1> QED BY <1>1, CoordinatorInvariant, PTL

\* Nobody is inside the transport whom the coordinator has not admitted: manual
\* presses, controllers' presses and wake pulses exclude one another.
THEOREM Exclusion == Spec => []ActuatorExclusive
<1>1. IInv => ActuatorExclusive
  BY DEF IInv
<1> QED BY <1>1, CoordinatorInvariant, PTL

\* The installed lease has been issued and not released.
THEOREM LiveLease == Spec => []CurrentLeaseLive
<1>1. IInv => CurrentLeaseLive
  BY DEF IInv
<1> QED BY <1>1, CoordinatorInvariant, PTL

\* A late Release by a preempted controller never clears its successor's lease.
THEOREM LateReleaseHarmless == Spec => StaleReleaseHarmless
<1>1. IInv /\ [Next]_vars =>
        [lease # "none" /\ lease' = "none" => lease \in released' \ released]_vars
  BY CoordinatorAssumption
  DEF IInv, TypeOK, CurrentLeaseLive, Next, vars, Acquire, Release, OwnedSendButton,
      ManualSendButton, SendButtonReturns, ReserveWake, FinishWake, Issued
<1> QED
  BY <1>1, CoordinatorInvariant, PTL DEF Spec, StaleReleaseHarmless

\* The panel passes from one lease to another only by a safety controller
\* preempting an ordinary one, between writes.
THEOREM PreemptionIsSafety == Spec => OnlySafetyPreempts
<1> DEFINE Handover == lease # "none" /\ lease' # "none" /\ lease' # lease
           Allowed == /\ leaseOwner[lease] \notin SafetyOwners
                      /\ leaseOwner'[lease'] \in SafetyOwners
                      /\ pressing = "none" /\ pressing' = "none"
<1>1. ASSUME IInv, NEW o \in Owners, Acquire(o), Handover PROVE Allowed
  BY <1>1, CoordinatorAssumption
  DEF IInv, TypeOK, Acquire, Grants, MuFree, Issued, CurrentOwner
<1>2. IInv /\ [Next]_vars => [Handover => Allowed]_vars
  BY <1>1, CoordinatorAssumption
  DEF Next, vars, Release, OwnedSendButton, ManualSendButton, SendButtonReturns,
      ReserveWake, FinishWake
<1> QED
  BY <1>2, CoordinatorInvariant, PTL DEF Spec, OnlySafetyPreempts

\* The coordinator implements ActuatorAccess: with lease objects and channels
\* hidden, each of its steps is one of the abstract steps or none.
THEOREM Refinement == Spec => RefinesActuatorAccess
<1> USE CoordinatorAssumption DEF CurrentOwner
<1>1. Init => Access!Init
  BY DEF Init, Access!Init, ReservedFor, Touching
<1>2. IInv /\ IInv' /\ [Next]_vars => [Access!Next]_(Access!avars)
  <2> SUFFICES ASSUME IInv, IInv', [Next]_vars
               PROVE  Access!Next \/ UNCHANGED <<ReservedFor, Touching>>
    BY DEF Access!avars
  <2> USE DEF IInv, TypeOK, ActuatorExclusive, CurrentLeaseLive, Issued, MuFree,
              ReservedFor, Touching
  <2>1. ASSUME NEW o \in Owners, Acquire(o) PROVE Access!Take(o)
    BY <2>1 DEF Acquire, Grants, Access!Take
  <2>2. ASSUME NEW l \in LeaseIds, Release(l)
        PROVE  Access!GiveBack \/ UNCHANGED <<ReservedFor, Touching>>
    BY <2>2 DEF Release, Access!GiveBack
  <2>3. ASSUME NEW o \in Owners, OwnedSendButton(o) PROVE Access!Press(o)
    BY <2>3 DEF OwnedSendButton, Access!Press
  <2>4. ASSUME ManualSendButton PROVE Access!PressByHand
    BY <2>4 DEF ManualSendButton, Access!PressByHand
  <2>5. ASSUME SendButtonReturns PROVE Access!LetGo
    BY <2>5 DEF SendButtonReturns, Access!LetGo
  <2>6. ASSUME NEW w \in Wakers, ReserveWake(w) PROVE Access!StartWake
    BY <2>6 DEF ReserveWake, Access!StartWake
  <2>7. ASSUME NEW w \in Wakers, FinishWake(w) PROVE Access!LetGo
    <3>1. /\ w \in pulsing /\ pressing = "none"
          /\ pulsing' = pulsing \ {w}
          /\ wakeDone' = IF wakeDone = w THEN "none" ELSE wakeDone
          /\ lease' = lease /\ pressing' = pressing
      BY <2>7 DEF FinishWake
    <3>2. wakeDone = w /\ lease = "none"
      BY <3>1
    <3>3. \A v \in pulsing : v = w
      BY <3>2
    <3>4. pulsing' = {}
      BY <3>1, <3>3
    <3>5. wakeDone' = "none" /\ lease' = "none" /\ pressing' = "none"
      BY <3>1, <3>2
    <3> QED
      BY <3>1, <3>2, <3>4, <3>5 DEF Access!LetGo
  <2>8. CASE UNCHANGED vars
    BY <2>8 DEF vars
  <2> QED
    BY <2>1, <2>2, <2>3, <2>4, <2>5, <2>6, <2>7, <2>8 DEF Next, Access!Next
<1> QED
  BY <1>1, <1>2, CoordinatorInvariant, PTL DEF Spec, RefinesActuatorAccess, Access!Spec
=============================================================================
