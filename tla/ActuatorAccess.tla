--------------------------- MODULE ActuatorAccess ---------------------------
(***************************************************************************)
(* What the server promises about the amplifier's front panel: one party   *)
(* at a time.  A panel key or a wake pulse is delivered only by the party  *)
(* the panel is reserved for, or by an API client while it is reserved for *)
(* nobody.  A reservation ends when its holder gives it back, or when a    *)
(* safety controller takes it from a controller that is not one - and      *)
(* never while a key is being delivered.                                   *)
(***************************************************************************)
CONSTANTS
    Owners,         \* the controllers that may reserve the panel
    SafetyOwners    \* those among them that may preempt the others

VARIABLES
    reserved,   \* whom the panel is reserved for
    touching    \* who is delivering a key or a pulse right now

avars == <<reserved, touching>>

TypeOK ==
    /\ reserved \in Owners \cup {"free", "wake"}
    /\ touching \in Owners \cup {"none", "manual", "wake"}

Init == reserved = "free" /\ touching = "none"

Take(o) ==
    /\ touching = "none"
    /\ \/ reserved = "free"
       \/ o \in SafetyOwners /\ reserved \in Owners \ SafetyOwners
    /\ reserved' = o
    /\ UNCHANGED touching

GiveBack ==
    /\ touching = "none"
    /\ reserved \in Owners
    /\ reserved' = "free"
    /\ UNCHANGED touching

Press(o) ==
    /\ touching = "none"
    /\ reserved = o
    /\ touching' = o
    /\ UNCHANGED reserved

PressByHand ==
    /\ touching = "none"
    /\ reserved = "free"
    /\ touching' = "manual"
    /\ UNCHANGED reserved

StartWake ==
    /\ touching = "none"
    /\ reserved = "free"
    /\ reserved' = "wake"
    /\ touching' = "wake"

LetGo ==
    /\ touching # "none"
    /\ touching' = "none"
    /\ reserved' = IF touching = "wake" THEN "free" ELSE reserved

Next ==
    \/ \E o \in Owners : Take(o) \/ Press(o)
    \/ GiveBack \/ PressByHand \/ StartWake \/ LetGo

Spec == Init /\ [][Next]_avars
=============================================================================
