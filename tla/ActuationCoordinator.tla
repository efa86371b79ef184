------------------------ MODULE ActuationCoordinator ------------------------
(***************************************************************************)
(* transport.ActuationCoordinator: the gate every automatic controller and *)
(* every API request passes before a byte reaches the amplifier.           *)
(*                                                                         *)
(* Go holds c.mu across the transport call of SendButton, so "pressing"    *)
(* is at once the caller inside the transport and the holder of c.mu; the  *)
(* short critical sections (Acquire, Release, the two halves of SendWake)  *)
(* are single steps that need c.mu free.  SendWake alone performs its I/O  *)
(* without c.mu: between its two critical sections the waker is in         *)
(* "pulsing" and only c.wakeDone keeps the others out.                     *)
(*                                                                         *)
(* A refused call (busy error, nil lease) changes nothing and is a         *)
(* stuttering step.                                                        *)
(***************************************************************************)
EXTENDS FiniteSets

CONSTANTS
    Owners,         \* ownedButtonTransport values, one per controller
    SafetyOwners,   \* those created with safety = true
    LeaseIds,       \* lease objects; bounds how many Acquires succeed
    Wakers          \* concurrent wake requests

ASSUME CoordinatorAssumption ==
    /\ SafetyOwners \subseteq Owners
    /\ Owners \cap {"free", "wake", "none", "manual"} = {}
    /\ "none" \notin LeaseIds
    /\ "none" \notin Wakers

VARIABLES
    lease,      \* c.lease: the current lease object, or "none"
    leaseOwner, \* actuationLease.owner of every lease object ("none": not yet issued)
    released,   \* lease objects whose Release has run
    wakeDone,   \* c.wakeDone: the waker that created the channel, or "none"
    pulsing,    \* wakers inside transport.SendWake
    pressing    \* the caller inside transport.SendButton: "none", "manual" or an owner

vars == <<lease, leaseOwner, released, wakeDone, pulsing, pressing>>

Issued == {l \in LeaseIds : leaseOwner[l] # "none"}

CurrentOwner == leaseOwner[lease]

TypeOK ==
    /\ lease \in LeaseIds \cup {"none"}
    /\ leaseOwner \in [LeaseIds -> Owners \cup {"none"}]
    /\ released \subseteq Issued
    /\ wakeDone \in Wakers \cup {"none"}
    /\ pulsing \subseteq Wakers
    /\ pressing \in Owners \cup {"none", "manual"}

Init ==
    /\ lease = "none"
    /\ leaseOwner = [l \in LeaseIds |-> "none"]
    /\ released = {}
    /\ wakeDone = "none"
    /\ pulsing = {}
    /\ pressing = "none"

MuFree == pressing = "none"

\* Fault: Acquire forgets that a wake is in progress.
GrantsDuringWake(o) ==
    IF o \in SafetyOwners
    THEN lease # "none" => CurrentOwner \notin SafetyOwners
    ELSE lease = "none"

\* Fault: any controller may take the panel from any other.
GrantsToAnyone(o) == wakeDone = "none"

\* Whether Acquire returns a lease to owner o in the present state.
Grants(o) ==
    IF o \in SafetyOwners
    THEN /\ wakeDone = "none"
         /\ lease # "none" => CurrentOwner \notin SafetyOwners
    ELSE wakeDone = "none" /\ lease = "none"

\* A fresh lease object becomes the current one; a preempted lease object is
\* not told and stays with the controller that acquired it.
Acquire(o) ==
    /\ MuFree
    /\ Grants(o)
    /\ \E l \in LeaseIds \ Issued :
          /\ lease' = l
          /\ leaseOwner' = [leaseOwner EXCEPT ![l] = o]
    /\ UNCHANGED <<released, wakeDone, pulsing, pressing>>

\* Fault: Release clears c.lease without comparing it with the lease object.
ReleaseClearsAny(l) ==
    /\ MuFree
    /\ l \in Issued \ released
    /\ released' = released \cup {l}
    /\ lease' = "none"
    /\ UNCHANGED <<leaseOwner, wakeDone, pulsing, pressing>>

\* Fault: Release runs for a lease that Acquire never handed out (it drops the
\* nil check).
ReleaseUnissued(l) ==
    /\ MuFree
    /\ l \in LeaseIds \ released
    /\ released' = released \cup {l}
    /\ lease' = IF lease = l THEN "none" ELSE lease
    /\ UNCHANGED <<leaseOwner, wakeDone, pulsing, pressing>>

\* Any lease object may be released at any later time, preempted or not.
Release(l) ==
    /\ MuFree
    /\ l \in Issued \ released
    /\ released' = released \cup {l}
    /\ lease' = IF lease = l THEN "none" ELSE lease
    /\ UNCHANGED <<leaseOwner, wakeDone, pulsing, pressing>>

\* Fault: the API path looks at the lease only, not at a wake in progress.
ManualSendButtonDuringWake ==
    /\ MuFree
    /\ lease = "none"
    /\ pressing' = "manual"
    /\ UNCHANGED <<lease, leaseOwner, released, wakeDone, pulsing>>

\* The API path: c.mu is taken, both reservations are checked, and c.mu is
\* kept while the transport writes.
ManualSendButton ==
    /\ MuFree
    /\ lease = "none" /\ wakeDone = "none"
    /\ pressing' = "manual"
    /\ UNCHANGED <<lease, leaseOwner, released, wakeDone, pulsing>>

\* Owned SendButton and SendButtonForSerialSession: the check is on the owner
\* of the current lease, not on the lease object the caller remembers.
OwnedSendButton(o) ==
    /\ MuFree
    /\ lease # "none" /\ CurrentOwner = o
    /\ pressing' = o
    /\ UNCHANGED <<lease, leaseOwner, released, wakeDone, pulsing>>

\* The transport returns, with or without an error, and c.mu is unlocked.
SendButtonReturns ==
    /\ pressing # "none"
    /\ pressing' = "none"
    /\ UNCHANGED <<lease, leaseOwner, released, wakeDone, pulsing>>

\* First half of gatedWakeTransport.SendWake.
ReserveWake(w) ==
    /\ MuFree
    /\ w \notin pulsing
    /\ lease = "none" /\ wakeDone = "none"
    /\ wakeDone' = w
    /\ pulsing' = pulsing \cup {w}
    /\ UNCHANGED <<lease, leaseOwner, released, pressing>>

\* The deferred half: only the request whose channel is installed clears it.
FinishWake(w) ==
    /\ MuFree
    /\ w \in pulsing
    /\ pulsing' = pulsing \ {w}
    /\ wakeDone' = IF wakeDone = w THEN "none" ELSE wakeDone
    /\ UNCHANGED <<lease, leaseOwner, released, pressing>>

Next ==
    \/ \E o \in Owners : Acquire(o) \/ OwnedSendButton(o)
    \/ \E l \in LeaseIds : Release(l)
    \/ ManualSendButton
    \/ SendButtonReturns
    \/ \E w \in Wakers : ReserveWake(w) \/ FinishWake(w)

Spec == Init /\ [][Next]_vars

-----------------------------------------------------------------------------
\* Whoever is inside the transport is who the coordinator's state says may be:
\* a manual press only with no lease and no wake, an owner only under a current
\* lease of its own, a wake only as the single reserved one with no lease at
\* all.  SendWake's I/O runs outside c.mu, so nothing but wakeDone stands
\* between its DTR/RTS pulse and a key press.
ActuatorExclusive ==
    /\ pressing = "manual" => lease = "none" /\ pulsing = {}
    /\ pressing \in Owners => lease # "none" /\ CurrentOwner = pressing /\ pulsing = {}
    /\ \A w \in pulsing : wakeDone = w /\ lease = "none"
    /\ wakeDone # "none" => wakeDone \in pulsing

\* The installed lease is a live one: it was issued and has not been released,
\* so no controller still holds the panel after giving it back.
CurrentLeaseLive ==
    lease # "none" => lease \in Issued \ released

\* A release takes the panel from its own holder only.  A controller that was
\* preempted and cleans up late (its lease object is no longer current) must
\* not clear the lease of the safety controller that displaced it.
StaleReleaseHarmless ==
    [][lease # "none" /\ lease' = "none" => lease \in released' \ released]_vars

\* A lease changes hands without being released only from an ordinary
\* controller to a safety controller, and never in the middle of a write.
OnlySafetyPreempts ==
    [][lease # "none" /\ lease' # "none" /\ lease' # lease
        => /\ leaseOwner[lease] \notin SafetyOwners
           /\ leaseOwner'[lease'] \in SafetyOwners
           /\ pressing = "none" /\ pressing' = "none"]_vars

-----------------------------------------------------------------------------
\* Lease objects and channels are hidden behind who has the panel.
ReservedFor ==
    IF wakeDone # "none" THEN "wake"
    ELSE IF lease # "none" THEN CurrentOwner
    ELSE "free"

Touching == IF pulsing # {} THEN "wake" ELSE pressing

Access == INSTANCE ActuatorAccess
              WITH reserved <- ReservedFor, touching <- Touching

\* The coordinator implements the one-party-at-a-time promise.
RefinesActuatorAccess == Access!Spec
=============================================================================
