------------------------ MODULE OvertempStandbyProofs ------------------------
(***************************************************************************)
(* Safety of the overtemperature standby, whatever the amplifier, the      *)
(* settings and the other users of the panel do.                           *)
(***************************************************************************)
EXTENDS OvertempStandby, TLAPS

\* The panel's user and its holder: a wake is both, the standby's press needs
\* the standby's reservation, and is the one Observe is waiting for.
PanelUse ==
    /\ touching = "wake" <=> reserved = "wake"
    /\ touching = "overtemp" <=> observing = "sending"

\* From the trip to the outcome of the press the latch is closed and the panel
\* is held; outside it a closed latch means one press and an open one none.
Attempt ==
    /\ observing \in {"send", "sending", "release"} => latched /\ hold
    /\ sends = IF latched /\ observing # "send" THEN 1 ELSE 0
    /\ hold => latched

\* The hold outlasts the attempt unless it failed or the standby was disarmed.
Holding == latched /\ heldThrough /\ action \in {"sent", "unconfirmed"} => hold

IInv == TypeOK /\ HoldMatchesPanel /\ PanelUse /\ Attempt /\ Holding

\* The panel keeps its types through whatever the coordinator admits.
LEMMA PanelTyped ==
    ASSUME Panel!TypeOK,
           \/ \E o \in {"overtemp", "fan"} : Panel!Take(o) \/ Panel!Press(o)
           \/ Panel!GiveBack \/ Panel!PressByHand \/ Panel!StartWake \/ Panel!LetGo
           \/ UNCHANGED <<reserved, touching>>
    PROVE  Panel!TypeOK'
  BY DEF Panel!TypeOK, Panel!Take, Panel!Press, Panel!GiveBack, Panel!PressByHand,
         Panel!StartWake, Panel!LetGo

\* The initial state is cool, unlatched and holds nothing.
LEMMA InitIInv == Init => IInv
<1> SUFFICES ASSUME Init PROVE IInv
  OBVIOUS
<1>1. TypeOK
  <2>1. Panel!TypeOK
    BY DEF Init, Panel!Init, Panel!TypeOK
  <2>2. frame \in Frames \cup {NoFrame} /\ heat \in Heat
    BY DEF Init, Heat
  <2>3. /\ {tx, armedSeen, latched, hold, heldThrough} \subseteq BOOLEAN
        /\ operate \in BOOLEAN /\ armed \in BOOLEAN
    BY DEF Init
  <2>4. /\ observing = "idle" /\ action = "idle"
        /\ sends \in 0..2
    BY DEF Init
  <2> QED BY <2>1, <2>2, <2>3, <2>4 DEF TypeOK
<1>2. HoldMatchesPanel /\ PanelUse
  BY DEF Init, HoldMatchesPanel, PanelUse, Panel!Init
<1>3. Attempt /\ Holding
  BY DEF Init, Attempt, Holding
<1> QED BY <1>1, <1>2, <1>3 DEF IInv

\* The amplifier, a human at its keys and the settings route touch nothing the
\* controller relies on.
LEMMA WorldIInv ==
    ASSUME IInv,
           \/ AmpHeats \/ AmpCools \/ AmpKeys \/ FrontPanelPress \/ SettingsChange
           \/ StatusArrives \/ ObserveCalled \/ ContactLost \/ UNCHANGED vars
    PROVE  IInv'
<1>1. UNCHANGED <<reserved, touching, latched, hold, sends, heldThrough>>
  BY DEF AmpHeats, AmpCools, AmpKeys, FrontPanelPress, SettingsChange, StatusArrives,
         ObserveCalled, ContactLost, vars, controller
<1>2. Panel!TypeOK'
  BY <1>1, PanelTyped DEF IInv, TypeOK
<1>3. operate' \in BOOLEAN /\ tx' \in BOOLEAN /\ heat' \in Heat
  BY DEF IInv, TypeOK, AmpHeats, AmpCools, AmpKeys, FrontPanelPress, ToggleOperate,
         SettingsChange, StatusArrives, ObserveCalled, ContactLost, vars, amp, Heat
<1>4. armed' \in BOOLEAN /\ armedSeen' \in BOOLEAN
  BY DEF IInv, TypeOK, AmpHeats, AmpCools, AmpKeys, FrontPanelPress, SettingsChange,
         StatusArrives, ObserveCalled, ContactLost, vars, controller
<1>5. frame' \in Frames \cup {NoFrame}
  BY DEF IInv, TypeOK, AmpHeats, AmpCools, AmpKeys, FrontPanelPress, SettingsChange,
         StatusArrives, ObserveCalled, ContactLost, vars, Frames
<1>6. /\ observing' \in {"idle", "decide", "send", "sending", "release"}
      /\ action' \in {"idle", "pending", "sent", "unconfirmed", "failed"}
      /\ observing' \in {"send", "sending", "release"} <=> action' = "pending"
  BY DEF IInv, TypeOK, AmpHeats, AmpCools, AmpKeys, FrontPanelPress, SettingsChange,
         StatusArrives, ObserveCalled, ContactLost, vars, controller
<1>7. TypeOK'
  BY <1>1, <1>2, <1>3, <1>4, <1>5, <1>6 DEF IInv, TypeOK
<1>8. HoldMatchesPanel' /\ PanelUse' /\ Attempt' /\ Holding'
  BY <1>1
  DEF IInv, HoldMatchesPanel, PanelUse, Attempt, Holding, AmpHeats, AmpCools, AmpKeys,
      FrontPanelPress, SettingsChange, StatusArrives, ObserveCalled, ContactLost, vars,
      controller
<1> QED BY <1>7, <1>8 DEF IInv

\* The other users of the panel cannot take it from the standby.
LEMMA OthersIInv ==
    ASSUME IInv, FanAcquires \/ FanReleases \/ OthersPress \/ OthersLetGo
    PROVE  IInv'
<1>1. UNCHANGED <<frame, armed, controller, heldThrough>>
  BY DEF FanAcquires, FanReleases, OthersPress, OthersLetGo
<1>2. Panel!TypeOK'
  BY PanelTyped DEF IInv, TypeOK, FanAcquires, FanReleases, OthersPress, OthersLetGo
<1>3. operate' \in BOOLEAN /\ tx' \in BOOLEAN /\ heat' \in Heat
  BY DEF IInv, TypeOK, FanAcquires, FanReleases, OthersPress, OthersLetGo, ToggleOperate, amp
<1>4. TypeOK'
  BY <1>1, <1>2, <1>3 DEF IInv, TypeOK, controller
<1>5. HoldMatchesPanel' /\ PanelUse'
  <2>1. UNCHANGED <<hold, observing>>
    BY <1>1 DEF controller
  <2>2. CASE FanAcquires
    BY <2>1, <2>2 DEF IInv, HoldMatchesPanel, PanelUse, FanAcquires, Panel!Take
  <2>3. CASE FanReleases
    BY <2>1, <2>3 DEF IInv, HoldMatchesPanel, PanelUse, FanReleases, Panel!GiveBack
  <2>4. CASE OthersPress
    BY <2>1, <2>4
    DEF IInv, HoldMatchesPanel, PanelUse, OthersPress, Panel!Press, Panel!PressByHand,
        Panel!StartWake
  <2>5. CASE OthersLetGo
    BY <2>1, <2>5 DEF IInv, HoldMatchesPanel, PanelUse, OthersLetGo, Panel!LetGo
  <2> QED BY <2>2, <2>3, <2>4, <2>5
<1>6. Attempt' /\ Holding'
  BY <1>1 DEF IInv, Attempt, Holding, controller
<1> QED BY <1>4, <1>5, <1>6 DEF IInv

\* Observe keeps the invariant, decision by decision.
LEMMA ObserveIInv ==
    ASSUME IInv,
           \/ ObserveStandsDown \/ ObserveDefers \/ ObserveTrips
           \/ SendStarts \/ SendReturns \/ FailedSendReleases
    PROVE  IInv'
<1> USE DEF IInv
<1>1. CASE ObserveStandsDown
  <2>1. Panel!TypeOK'
    BY <1>1, PanelTyped DEF TypeOK, ObserveStandsDown
  <2>2. latched' \in BOOLEAN /\ hold' \in BOOLEAN /\ heldThrough' \in BOOLEAN
    BY <1>1 DEF TypeOK, ObserveStandsDown
  <2>3. /\ action' \in {"idle", "pending", "sent", "unconfirmed", "failed"}
        /\ observing' \in {"idle", "decide", "send", "sending", "release"}
        /\ observing' \in {"send", "sending", "release"} <=> action' = "pending"
    BY <1>1 DEF TypeOK, ObserveStandsDown, Downgraded
  <2>4. sends' \in 0..2 /\ frame' \in Frames \cup {NoFrame}
    BY <1>1 DEF TypeOK, ObserveStandsDown
  <2>5. /\ operate' \in BOOLEAN /\ tx' \in BOOLEAN /\ heat' \in Heat
        /\ armed' \in BOOLEAN /\ armedSeen' \in BOOLEAN
    BY <1>1 DEF TypeOK, ObserveStandsDown, amp
  <2>6. TypeOK'
    BY <2>1, <2>2, <2>3, <2>4, <2>5 DEF TypeOK
  <2>7. HoldMatchesPanel' /\ PanelUse'
    BY <1>1 DEF TypeOK, HoldMatchesPanel, PanelUse, ObserveStandsDown, Panel!GiveBack
  <2>8. Attempt' /\ Holding'
    BY <1>1 DEF TypeOK, Attempt, Holding, ObserveStandsDown, Downgraded
  <2> QED BY <2>6, <2>7, <2>8
<1>2. CASE ObserveDefers
  <2>1. Panel!TypeOK'
    BY <1>2, PanelTyped DEF TypeOK, ObserveDefers
  <2>2. TypeOK'
    BY <1>2, <2>1 DEF TypeOK, Attempt, ObserveDefers, Downgraded, NoFrame, amp
  <2>3. HoldMatchesPanel' /\ PanelUse' /\ Attempt' /\ Holding'
    BY <1>2
    DEF TypeOK, HoldMatchesPanel, PanelUse, Attempt, Holding, ObserveDefers, Downgraded
  <2> QED BY <2>2, <2>3
<1>3. CASE ObserveTrips
  <2>1. Panel!TypeOK'
    BY <1>3, PanelTyped DEF TypeOK, ObserveTrips
  <2>2. TypeOK'
    BY <1>3, <2>1 DEF TypeOK, ObserveTrips, amp
  <2>3. ~latched
    BY <1>3 DEF ObserveTrips, Trips, Reopens
  <2>4. HoldMatchesPanel' /\ PanelUse'
    BY <1>3 DEF TypeOK, HoldMatchesPanel, PanelUse, ObserveTrips, Panel!Take
  <2>5. Attempt' /\ Holding'
    BY <1>3, <2>3 DEF Attempt, Holding, ObserveTrips
  <2> QED BY <2>2, <2>4, <2>5
<1>4. CASE SendStarts
  <2>1. Panel!TypeOK'
    BY <1>4, PanelTyped DEF TypeOK, SendStarts
  <2>2. sends = 0
    BY <1>4 DEF SendStarts, Attempt
  <2>3. TypeOK'
    BY <1>4, <2>1, <2>2 DEF TypeOK, SendStarts, amp
  <2>4. HoldMatchesPanel' /\ PanelUse' /\ Attempt' /\ Holding'
    BY <1>4, <2>2
    DEF TypeOK, HoldMatchesPanel, PanelUse, Attempt, Holding, SendStarts, Panel!Press
  <2> QED BY <2>3, <2>4
<1>5. CASE SendReturns
  <2>1. Panel!TypeOK'
    BY <1>5, PanelTyped DEF TypeOK, SendReturns
  <2>2. TypeOK'
    BY <1>5, <2>1 DEF TypeOK, SendReturns, ToggleOperate, NoFrame, amp
  <2>3. HoldMatchesPanel' /\ PanelUse' /\ Attempt' /\ Holding'
    BY <1>5
    DEF TypeOK, HoldMatchesPanel, PanelUse, Attempt, Holding, SendReturns, Panel!LetGo
  <2> QED BY <2>2, <2>3
<1>6. CASE FailedSendReleases
  <2>1. Panel!TypeOK'
    BY <1>6, PanelTyped DEF TypeOK, FailedSendReleases
  <2>2. TypeOK'
    BY <1>6, <2>1 DEF TypeOK, FailedSendReleases, NoFrame, amp
  <2>3. HoldMatchesPanel' /\ PanelUse' /\ Attempt' /\ Holding'
    BY <1>6
    DEF TypeOK, HoldMatchesPanel, PanelUse, Attempt, Holding, FailedSendReleases,
        Panel!GiveBack
  <2> QED BY <2>2, <2>3
<1> QED BY <1>1, <1>2, <1>3, <1>4, <1>5, <1>6

\* The invariant of the standby, from which the theorems below follow.
THEOREM StandbyInvariant == Spec => []IInv
<1>1. IInv /\ [Next]_vars => IInv'
  BY WorldIInv, OthersIInv, ObserveIInv DEF Next, Observe
<1> QED BY InitIInv, <1>1, PTL DEF Spec

\* Every variable of the controller stays within its type.
THEOREM TypeCorrect == Spec => []TypeOK
  BY StandbyInvariant, PTL DEF IInv

\* The lease field and the coordinator agree on who holds the panel.
THEOREM HoldIsThePanel == Spec => []HoldMatchesPanel
  BY StandbyInvariant, PTL DEF IInv

\* The panel stays with an armed standby to the end of the excursion.
THEOREM ExcursionHeld == Spec => []ExcursionHoldsPanel
<1>1. IInv => ExcursionHoldsPanel
  BY DEF IInv, Holding, HoldMatchesPanel, ExcursionHoldsPanel
<1> QED BY <1>1, StandbyInvariant, PTL

\* The toggle is pressed at most once per excursion, and the latch closes with it.
THEOREM SinglePress == Spec => []OnePressPerExcursion
<1>1. IInv => OnePressPerExcursion
  BY DEF IInv, Attempt, OnePressPerExcursion
<1> QED BY <1>1, StandbyInvariant, PTL
=============================================================================
