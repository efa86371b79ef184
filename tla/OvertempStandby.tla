--------------------------- MODULE OvertempStandby ---------------------------
(***************************************************************************)
(* monitoring.Controller, the overtemperature standby: on a hot status poll *)
(* it takes the panel and presses the OPERATE toggle once.  It runs on the  *)
(* serial read loop beside API presses, fan transactions, wakes, a human    *)
(* at the front panel and settings updates.  The actuation coordinator      *)
(* appears as the promise ActuationCoordinator implements.                  *)
(*                                                                         *)
(* The amplifier is modelled by what its status reply says: operating       *)
(* state, TX, and a temperature below reset ("cool"), below trip ("warm")   *)
(* or at least at trip ("hot").  A reply waits in "frame" while the read    *)
(* loop decodes and publishes it; the amplifier may have moved on by the    *)
(* time it is observed.                                                    *)
(***************************************************************************)
EXTENDS Naturals

CONSTANT FrontPanelUsed     \* whether a human may press the amplifier's own keys

ASSUME FrontPanelAssumption == FrontPanelUsed \in BOOLEAN

VARIABLES
    reserved, touching,     \* the panel, see ActuatorAccess
    operate, tx, heat,      \* the amplifier
    frame,                  \* the decoded status reply, or NoFrame
    armed,                  \* settings: monitoring enabled and standby armed
    armedSeen,              \* the settings value the running Observe was called with
    observing,              \* where Observe is: "idle", "decide", "send", "sending", "release"
    latched, action, hold,  \* Controller.latched, action.State, lease # nil
    sends,                  \* presses since the latch was last open
    heldThrough             \* the standby has stayed armed since it tripped

amp == <<operate, tx, heat>>
controller == <<armedSeen, observing, latched, action, hold, sends>>
vars == <<reserved, touching, amp, frame, armed, controller, heldThrough>>

Panel == INSTANCE ActuatorAccess
             WITH Owners <- {"overtemp", "fan"}, SafetyOwners <- {"overtemp"}

Heat == {"cool", "warm", "hot"}
NoFrame == [operate |-> FALSE, tx |-> FALSE, heat |-> "none"]
Frames == [operate : BOOLEAN, tx : BOOLEAN, heat : Heat]

TypeOK ==
    /\ Panel!TypeOK
    /\ operate \in BOOLEAN /\ tx \in BOOLEAN /\ heat \in Heat
    /\ frame \in Frames \cup {NoFrame}
    /\ armed \in BOOLEAN /\ armedSeen \in BOOLEAN
    /\ observing \in {"idle", "decide", "send", "sending", "release"}
    /\ latched \in BOOLEAN /\ hold \in BOOLEAN /\ heldThrough \in BOOLEAN
    /\ action \in {"idle", "pending", "sent", "unconfirmed", "failed"}
    /\ sends \in 0..2
    /\ observing \in {"send", "sending", "release"} <=> action = "pending"

Init ==
    /\ Panel!Init
    /\ operate \in BOOLEAN /\ tx = FALSE /\ heat = "cool"
    /\ frame = NoFrame
    /\ armed \in BOOLEAN /\ armedSeen = FALSE
    /\ observing = "idle"
    /\ latched = FALSE /\ action = "idle" /\ hold = FALSE
    /\ sends = 0 /\ heldThrough = FALSE

-----------------------------------------------------------------------------
(* The amplifier and the people around it.                                 *)

AmpHeats ==
    /\ heat' = IF heat = "cool" THEN "warm" ELSE "hot"
    /\ heat' # heat
    /\ UNCHANGED <<reserved, touching, operate, tx, frame, armed, controller, heldThrough>>

AmpCools ==
    /\ heat' = IF heat = "hot" THEN "warm" ELSE "cool"
    /\ heat' # heat
    /\ UNCHANGED <<reserved, touching, operate, tx, frame, armed, controller, heldThrough>>

AmpKeys ==
    /\ operate
    /\ tx' = ~tx
    /\ UNCHANGED <<reserved, touching, operate, heat, frame, armed, controller, heldThrough>>

\* The OPERATE key is a toggle, and the amplifier leaves TX with OPERATE.
ToggleOperate ==
    /\ operate' = ~operate
    /\ tx' = FALSE
    /\ UNCHANGED heat

FrontPanelPress ==
    /\ FrontPanelUsed
    /\ ToggleOperate
    /\ UNCHANGED <<reserved, touching, frame, armed, controller, heldThrough>>

\* POST /api/v1/settings arms or disarms the standby.
SettingsChange ==
    /\ armed' = ~armed
    /\ UNCHANGED <<reserved, touching, amp, frame, controller, heldThrough>>

-----------------------------------------------------------------------------
(* The other users of the panel.                                           *)

FanAcquires ==
    /\ Panel!Take("fan")
    /\ UNCHANGED <<amp, frame, armed, controller, heldThrough>>

FanReleases ==
    /\ reserved = "fan"
    /\ Panel!GiveBack
    /\ UNCHANGED <<amp, frame, armed, controller, heldThrough>>

OthersPress ==
    /\ Panel!Press("fan") \/ Panel!PressByHand \/ Panel!StartWake
    /\ UNCHANGED <<amp, frame, armed, controller, heldThrough>>

\* A press of theirs ends; the key may have been OPERATE.
OthersLetGo ==
    /\ touching \in {"fan", "manual", "wake"}
    /\ Panel!LetGo
    /\ \/ UNCHANGED amp
       \/ touching # "wake" /\ ToggleOperate
    /\ UNCHANGED <<frame, armed, controller, heldThrough>>

-----------------------------------------------------------------------------
(* The read loop and Observe.                                              *)

\* A status reply is read; the server polls whatever the settings.
StatusArrives ==
    /\ frame = NoFrame
    /\ frame' = [operate |-> operate, tx |-> tx, heat |-> heat]
    /\ UNCHANGED <<reserved, touching, amp, armed, controller, heldThrough>>

\* safetySettings() is evaluated before Observe takes its mutex.
ObserveCalled ==
    /\ frame # NoFrame /\ observing = "idle"
    /\ observing' = "decide" /\ armedSeen' = armed
    /\ UNCHANGED <<reserved, touching, amp, frame, armed, latched, action, hold, sends,
                   heldThrough>>

\* The latch opens once the hottest sensor is below the reset threshold.
Reopens == latched /\ frame.heat = "cool"

\* Fault: an attempt whose write failed is repeated on the next hot poll.
TripsAgainAfterFailure ==
    /\ armedSeen
    /\ ~latched \/ Reopens \/ action = "failed"
    /\ frame.operate /\ ~frame.tx /\ frame.heat = "hot"

\* Fault: a press that failed bars the next excursion's press as well.
TripsUnlessFailed ==
    /\ armedSeen
    /\ (~latched \/ Reopens) /\ action # "failed"
    /\ frame.operate /\ ~frame.tx /\ frame.heat = "hot"

\* The evidence Observe asks for before it acts.
Trips ==
    /\ armedSeen
    /\ ~latched \/ Reopens
    /\ frame.operate /\ ~frame.tx /\ frame.heat = "hot"

\* What every later poll makes of an earlier press: no acknowledgement exists.
Downgraded == IF latched /\ action = "sent" THEN "unconfirmed" ELSE action

\* Fault: disarming forgets the lease.
ObserveStandsDownKeepingLease ==
    /\ observing = "decide" /\ ~Trips
    /\ hold' = (hold /\ armedSeen /\ ~Reopens)
    /\ UNCHANGED <<reserved, touching>>
    /\ latched' = (latched /\ ~Reopens)
    /\ sends' = IF latched' THEN sends ELSE 0
    /\ heldThrough' = (heldThrough /\ armedSeen /\ latched')
    /\ action' = Downgraded
    /\ observing' = "idle" /\ frame' = NoFrame
    /\ UNCHANGED <<amp, armed, armedSeen>>

\* Fault: the hold is released as soon as the temperature drops below trip.
ObserveStandsDownWhenWarm ==
    /\ observing = "decide" /\ ~Trips
    /\ IF hold /\ (~armedSeen \/ frame.heat # "hot")
       THEN Panel!GiveBack /\ hold' = FALSE
       ELSE UNCHANGED <<reserved, touching, hold>>
    /\ latched' = (latched /\ ~Reopens)
    /\ sends' = IF latched' THEN sends ELSE 0
    /\ heldThrough' = (heldThrough /\ armedSeen /\ latched')
    /\ action' = Downgraded
    /\ observing' = "idle" /\ frame' = NoFrame
    /\ UNCHANGED <<amp, armed, armedSeen>>

\* Nothing to do: disarming and cooling down give the panel back.
ObserveStandsDown ==
    /\ observing = "decide" /\ ~Trips
    /\ IF hold /\ (~armedSeen \/ Reopens)
       THEN Panel!GiveBack /\ hold' = FALSE
       ELSE UNCHANGED <<reserved, touching, hold>>
    /\ latched' = (latched /\ ~Reopens)
    /\ sends' = IF latched' THEN sends ELSE 0
    /\ heldThrough' = (heldThrough /\ armedSeen /\ latched')
    /\ action' = Downgraded
    /\ observing' = "idle" /\ frame' = NoFrame
    /\ UNCHANGED <<amp, armed, armedSeen>>

\* Fault: the latch closes before the panel is asked for.
ObserveLatchesThenDefers ==
    /\ observing = "decide" /\ Trips
    /\ reserved = "wake"
    /\ latched' = TRUE
    /\ action' = Downgraded
    /\ observing' = "idle" /\ frame' = NoFrame
    /\ UNCHANGED <<reserved, touching, amp, armed, armedSeen, hold, sends, heldThrough>>

\* A wake has the panel: nothing is latched and the next poll tries again.
ObserveDefers ==
    /\ observing = "decide" /\ Trips
    /\ reserved = "wake"
    /\ action' = Downgraded
    /\ observing' = "idle" /\ frame' = NoFrame
    /\ UNCHANGED <<reserved, touching, amp, armed, armedSeen, latched, hold, sends,
                   heldThrough>>

\* The panel is taken, then the latch closes, and only then is the key sent.
ObserveTrips ==
    /\ observing = "decide" /\ Trips
    /\ Panel!Take("overtemp")
    /\ hold' = TRUE /\ latched' = TRUE /\ action' = "pending" /\ heldThrough' = TRUE
    /\ observing' = "send"
    /\ UNCHANGED <<amp, frame, armed, armedSeen, sends>>

SendStarts ==
    /\ observing = "send"
    /\ Panel!Press("overtemp")
    /\ sends' = sends + 1
    /\ observing' = "sending"
    /\ UNCHANGED <<amp, frame, armed, armedSeen, latched, action, hold, heldThrough>>

\* Fault: a write that fails leaves the action pending.
SendForgetsOutcome ==
    /\ observing = "sending"
    /\ Panel!LetGo
    /\ ToggleOperate \/ UNCHANGED amp
    /\ \/ action' = "sent" /\ observing' = "idle" /\ frame' = NoFrame
       \/ UNCHANGED action /\ observing' = "idle" /\ frame' = NoFrame
    /\ UNCHANGED <<armed, armedSeen, latched, hold, sends, heldThrough>>

\* sendOnce returns.  An error does not say that the key was not delivered.
SendReturns ==
    /\ observing = "sending"
    /\ Panel!LetGo
    /\ ToggleOperate \/ UNCHANGED amp
    /\ \/ action' = "sent" /\ observing' = "idle" /\ frame' = NoFrame
       \/ observing' = "release" /\ UNCHANGED <<action, frame>>
    /\ UNCHANGED <<armed, armedSeen, latched, hold, sends, heldThrough>>

\* A failed attempt gives the panel back and stays latched.
FailedSendReleases ==
    /\ observing = "release"
    /\ Panel!GiveBack
    /\ hold' = FALSE /\ action' = "failed"
    /\ observing' = "idle" /\ frame' = NoFrame
    /\ UNCHANGED <<amp, armed, armedSeen, latched, sends, heldThrough>>

\* ObserveContactLoss, from the contact ticker's goroutine.
ContactLost ==
    /\ latched /\ action = "sent"
    /\ action' = "unconfirmed"
    /\ UNCHANGED <<reserved, touching, amp, frame, armed, armedSeen, observing, latched,
                   hold, sends, heldThrough>>

Observe ==
    \/ ObserveCalled \/ ObserveStandsDown \/ ObserveDefers \/ ObserveTrips
    \/ SendStarts \/ SendReturns \/ FailedSendReleases

Next ==
    \/ AmpHeats \/ AmpCools \/ AmpKeys \/ FrontPanelPress \/ SettingsChange
    \/ FanAcquires \/ FanReleases \/ OthersPress \/ OthersLetGo
    \/ StatusArrives \/ Observe \/ ContactLost

\* The read loop keeps reading and observing, transport calls return within
\* their timeouts, and a goroutine waiting for the coordinator's mutex gets it
\* (Go mutexes do not starve a waiter).
Fairness ==
    /\ WF_vars(StatusArrives)
    /\ SF_vars(Observe)
    /\ WF_vars(OthersLetGo)

Spec == Init /\ [][Next]_vars
LiveSpec == Spec /\ Fairness

-----------------------------------------------------------------------------
\* The controller's lease field and the coordinator agree: no path (disarming,
\* cooling, failing, tripping again) leaks the panel or forgets to keep it.
HoldMatchesPanel == hold <=> reserved = "overtemp"

\* From a press that was written to the end of the excursion the panel stays
\* with the standby, unless it is disarmed: no API press, fan transaction or
\* wake can put the hot amplifier back into OPERATE.
ExcursionHoldsPanel ==
    latched /\ heldThrough /\ action \in {"sent", "unconfirmed"} => reserved = "overtemp"

\* One press for one excursion, whatever became of it: a write whose outcome is
\* unknown is not repeated, since a second toggle would undo the first.
\* Nor does the latch close without a press: a trip that a wake deferred is still
\* there for the next poll.
OnePressPerExcursion ==
    /\ sends <= 1
    /\ observing = "idle" /\ latched => sends = 1

\* An armed standby acts on an amplifier that stays hot in OPERATE and RX, as
\* long as wakes do not keep the panel from it.
HotIsAnswered ==
    []<>~(armed /\ operate /\ ~tx /\ heat = "hot" /\ ~latched /\ reserved # "wake")

\* What docs/ARCHITECTURE.md:381 says: "Automatic standby is narrow and
\* one-way" - its press never takes the amplifier from STANDBY to OPERATE.
StandbyIsOneWay ==
    [][touching = "overtemp" /\ touching' = "none" => ~(~operate /\ operate')]_vars
=============================================================================
