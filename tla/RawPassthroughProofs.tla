------------------------ MODULE RawPassthroughProofs ------------------------
(***************************************************************************)
(* Theorems about the passthrough boundary, for any number of TCP clients. *)
(* The invariant says which of the four things a client can own - setupMu, *)
(* the lease, the handle and the port - it owns at each point of serve, and *)
(* what an open settings transaction knows about the handle.               *)
(***************************************************************************)
EXTENDS RawPassthrough, TLAPS

\* Who is inside setupMu, and who has an installed session.
SettingUp(c) == client[c] \in {"checking", "beginning", "opening"}
Installed(c) == client[c] \in {"live", "closed", "released"}

Ownership ==
    \A c \in Clients :
        /\ SettingUp(c) <=> setupMu = c
        /\ Installed(c) <=> handle = c
        /\ client[c] = "live" <=> source = c
        /\ rawLease = c => client[c] \in {"beginning", "opening", "live", "closed"}

\* Nothing is armed from the checks of serve until its handle is cleared.
Disarmed ==
    /\ handle # "none" => Armed(settings) = {}
    /\ \A c \in Clients : client[c] \in {"beginning", "opening"} =>
            handle = "none" /\ Armed(settings) = {}

\* A transaction that runs while a handle is installed has seen it.
SeesHandle == update.open /\ handle # "none" => update.leased

IInv == TypeOK /\ Ownership /\ Disarmed /\ SeesHandle

\* A party using the panel leaves it with a legal holder and a legal user.
LEMMA PanelTyped ==
    ASSUME Panel!TypeOK,
           \/ \E o \in {"raw", "overtemp", "menu-debug"} : Panel!Take(o) \/ Panel!Press(o)
           \/ Panel!GiveBack \/ Panel!PressByHand \/ Panel!StartWake \/ Panel!LetGo
           \/ UNCHANGED <<reserved, touching>>
    PROVE  Panel!TypeOK'
  BY DEF Panel!TypeOK, Panel!Take, Panel!Press, Panel!GiveBack, Panel!PressByHand,
         Panel!StartWake, Panel!LetGo

\* The initial state has no session, no lease and no transaction.
LEMMA InitIInv == Init => IInv
<1> SUFFICES ASSUME Init PROVE IInv
  OBVIOUS
<1>1. NoUpdate \in [open : BOOLEAN, leased : BOOLEAN, request : Requests]
  BY DEF NoUpdate, Requests
<1>2. TypeOK
  BY <1>1 DEF Init, TypeOK, NoUpdate, Panel!Init, Panel!TypeOK
<1>3. Ownership /\ Disarmed /\ SeesHandle
  BY PassthroughAssumption
  DEF Init, Ownership, Disarmed, SeesHandle, SettingUp, Installed, NoUpdate
<1> QED BY <1>2, <1>3 DEF IInv

\* Setting a session up keeps the invariant.
LEMMA SetupIInv == ASSUME IInv, NEW c \in Clients, Accept(c) \/ Setup(c) PROVE IInv'
<1> USE PassthroughAssumption DEF IInv
<1>1. CASE Accept(c)
  BY <1>1, PanelTyped DEF Accept, panel, safety, stopping, TypeOK, Ownership, Disarmed,
     SeesHandle, SettingUp, Installed
<1>2. CASE ServeEnters(c)
  <2>1. TypeOK'
    BY <1>2, PanelTyped DEF ServeEnters, panel, safety, stopping, TypeOK
  <2>2. Ownership'
    BY <1>2 DEF ServeEnters, panel, TypeOK, Ownership, SettingUp, Installed
  <2>3. Disarmed' /\ SeesHandle'
    BY <1>2 DEF ServeEnters, TypeOK, Disarmed, SeesHandle
  <2> QED BY <2>1, <2>2, <2>3
<1>3. CASE ServeRefuses(c)
  <2>1. TypeOK'
    BY <1>3, PanelTyped DEF ServeRefuses, panel, safety, stopping, TypeOK, Ownership, SettingUp
  <2>2. Ownership'
    BY <1>3 DEF ServeRefuses, panel, TypeOK, Ownership, SettingUp, Installed
  <2>3. Disarmed' /\ SeesHandle'
    BY <1>3 DEF ServeRefuses, TypeOK, Disarmed, SeesHandle
  <2> QED BY <2>1, <2>2, <2>3
<1>4. CASE ServeStarts(c)
  <2>1. TypeOK'
    BY <1>4, PanelTyped DEF ServeStarts, safety, stopping, TypeOK
  <2>2. Ownership'
    BY <1>4 DEF ServeStarts, TypeOK, Ownership, SettingUp, Installed
  <2>3. Disarmed' /\ SeesHandle'
    BY <1>4 DEF ServeStarts, TypeOK, Disarmed, SeesHandle
  <2> QED BY <2>1, <2>2, <2>3
<1>5. CASE ServeClaims(c)
  <2>1. TypeOK'
    BY <1>5, PanelTyped DEF ServeClaims, panel, safety, stopping, TypeOK
  <2>2. Ownership'
    BY <1>5 DEF ServeClaims, panel, TypeOK, Ownership, SettingUp, Installed
  <2>3. Disarmed' /\ SeesHandle'
    BY <1>5 DEF ServeClaims, TypeOK, Disarmed, SeesHandle
  <2> QED BY <2>1, <2>2, <2>3
<1>6. CASE ServeBeginFails(c)
  <2>1. TypeOK'
    BY <1>6, PanelTyped
    DEF ServeBeginFails, ReleaseLease, panel, safety, stopping, TypeOK, Ownership, SettingUp
  <2>2. Ownership'
    BY <1>6 DEF ServeBeginFails, ReleaseLease, panel, TypeOK, Ownership, SettingUp, Installed
  <2>3. Disarmed' /\ SeesHandle'
    BY <1>6 DEF ServeBeginFails, TypeOK, Disarmed, SeesHandle
  <2> QED BY <2>1, <2>2, <2>3
<1>7. CASE ServeInstalls(c)
  <2>1. TypeOK'
    BY <1>7, PanelTyped DEF ServeInstalls, panel, safety, stopping, TypeOK, Ownership, SettingUp
  <2>2. Ownership'
    BY <1>7 DEF ServeInstalls, panel, TypeOK, Ownership, SettingUp, Installed, Disarmed
  <2>3. Disarmed' /\ SeesHandle'
    BY <1>7 DEF ServeInstalls, TypeOK, Ownership, SettingUp, Disarmed, SeesHandle
  <2> QED BY <2>1, <2>2, <2>3
<1> QED BY <1>1, <1>2, <1>3, <1>4, <1>5, <1>6, <1>7 DEF Setup

\* Tearing a session down keeps the invariant.
LEMMA FinishIInv == ASSUME IInv, NEW c \in Clients, PeerEnds(c) \/ Finish(c) PROVE IInv'
<1> USE PassthroughAssumption DEF IInv
<1>1. CASE FinishCloses(c)
  <2>1. TypeOK'
    BY <1>1, PanelTyped DEF FinishCloses, panel, safety, stopping, TypeOK
  <2>2. Ownership'
    BY <1>1 DEF FinishCloses, panel, TypeOK, Ownership, SettingUp, Installed
  <2>3. Disarmed' /\ SeesHandle'
    BY <1>1 DEF FinishCloses, TypeOK, Disarmed, SeesHandle
  <2> QED BY <2>1, <2>2, <2>3
<1>2. CASE FinishReleases(c)
  <2>1. TypeOK'
    BY <1>2, PanelTyped DEF FinishReleases, ReleaseLease, panel, safety, stopping, TypeOK
  <2>2. Ownership'
    BY <1>2 DEF FinishReleases, ReleaseLease, panel, TypeOK, Ownership, SettingUp, Installed
  <2>3. Disarmed' /\ SeesHandle'
    BY <1>2 DEF FinishReleases, TypeOK, Disarmed, SeesHandle
  <2> QED BY <2>1, <2>2, <2>3
<1>3. CASE FinishClears(c)
  <2>1. TypeOK'
    BY <1>3, PanelTyped DEF FinishClears, panel, safety, stopping, TypeOK
  <2>2. Ownership'
    BY <1>3 DEF FinishClears, panel, TypeOK, Ownership, SettingUp, Installed
  <2>3. Disarmed' /\ SeesHandle'
    BY <1>3 DEF FinishClears, TypeOK, Disarmed, SeesHandle
  <2> QED BY <2>1, <2>2, <2>3
<1> QED BY <1>1, <1>2, <1>3 DEF PeerEnds, Finish, ShutdownEnds

\* The tap changes nothing but the retained status and its own place.
LEMMA PumpIInv == ASSUME IInv, NEW c \in Clients, Pump(c) PROVE IInv'
<1> USE DEF IInv, Pump, PumpReads, PumpForwards, PumpObserves
<1>1. TypeOK'
  BY PanelTyped DEF panel, safety, stopping, TypeOK
<1>2. Ownership'
  BY DEF panel, Ownership, SettingUp, Installed
<1>3. Disarmed' /\ SeesHandle'
  BY DEF Disarmed, SeesHandle
<1> QED BY <1>1, <1>2, <1>3

\* A settings transaction keeps the invariant: it runs while no client is being
\* set up, and arms nothing if it has seen a handle.
LEMMA SettingsIInv == ASSUME IInv, Settings PROVE IInv'
<1> USE PassthroughAssumption DEF IInv
<1>1. ASSUME NEW q \in Requests, SettingsBegin(q) PROVE IInv'
  <2>1. TypeOK'
    BY <1>1, PanelTyped DEF SettingsBegin, panel, safety, stopping, TypeOK
  <2>2. Ownership'
    BY <1>1 DEF SettingsBegin, panel, TypeOK, Ownership, SettingUp, Installed
  <2>3. Disarmed' /\ SeesHandle'
    BY <1>1 DEF SettingsBegin, Disarmed, SeesHandle
  <2> QED BY <2>1, <2>2, <2>3
<1>2. NoUpdate \in [open : BOOLEAN, leased : BOOLEAN, request : Requests] /\ ~NoUpdate.open
  BY DEF NoUpdate, Requests
<1>3. CASE SettingsRefused
  <2>1. TypeOK'
    BY <1>2, <1>3, PanelTyped DEF SettingsRefused, panel, safety, stopping, TypeOK
  <2>2. Ownership'
    BY <1>3 DEF SettingsRefused, panel, TypeOK, Ownership, SettingUp, Installed
  <2>3. Disarmed' /\ SeesHandle'
    BY <1>2, <1>3 DEF SettingsRefused, Disarmed, SeesHandle
  <2> QED BY <2>1, <2>2, <2>3
<1>4. CASE SettingsCommit
  <2>1. update.request.on \subseteq Flags /\ setupMu = "settings"
    BY <1>4 DEF SettingsCommit, TypeOK, Requests
  <2>2. TypeOK'
    <3>1. settings' \subseteq Flags
      BY <1>4, <2>1 DEF SettingsCommit, TypeOK, Merged
    <3>2. update' \in [open : BOOLEAN, leased : BOOLEAN, request : Requests] /\ ~update'.open
      BY <1>2, <1>4 DEF SettingsCommit
    <3> QED BY <1>4, <3>1, <3>2, PanelTyped DEF SettingsCommit, panel, safety, stopping, TypeOK
  <2>3. Ownership'
    BY <1>4 DEF SettingsCommit, panel, TypeOK, Ownership, SettingUp, Installed
  <2>4. \A c \in Clients : ~SettingUp(c)
    BY <2>1 DEF Ownership
  <2>5. handle # "none" => NewlyArmed(update.request) = {} /\ Armed(settings) = {}
    BY <1>4 DEF SettingsCommit, SeesHandle, Disarmed
  <2>6. handle # "none" => Armed(settings') = {}
    <3>1. settings' = Merged(update.request)
      BY <1>4 DEF SettingsCommit
    <3> QED BY <2>5, <3>1 DEF NewlyArmed
  <2>7. Disarmed' /\ SeesHandle'
    BY <1>2, <1>4, <2>4, <2>6 DEF SettingsCommit, Disarmed, SeesHandle, SettingUp
  <2> QED BY <2>2, <2>3, <2>7
<1> QED BY <1>1, <1>3, <1>4 DEF Settings

\* The read loop, the other users of the panel and the shutdown touch neither the
\* sessions nor the settings; the safety controller may end the lease's hold.
LEMMA OthersIInv ==
    ASSUME IInv,
           \/ LoopPublishes \/ Observe \/ MenuActs \/ OthersAct \/ Cancel \/ ListenerCloses
           \/ UNCHANGED vars
    PROVE  IInv'
<1>1. UNCHANGED <<sessions, settings, update>> /\ rawLease' \in {rawLease, "none"}
  BY DEF LoopPublishes, Observe, ObserveCalled, ObserveStandsDown, ObserveTrips, ObserveSent,
     MenuActs, OthersAct, Cancel, ListenerCloses, vars, panel
<1>2. Panel!TypeOK'
  BY PanelTyped
  DEF IInv, TypeOK, LoopPublishes, Observe, ObserveCalled, ObserveStandsDown, ObserveTrips,
      ObserveSent, MenuActs, OthersAct, Cancel, ListenerCloses, vars, panel
<1>3. observing' \in {"idle", "decide", "send"} /\ standbySeen' \in BOOLEAN
  <2>1. CASE ObserveCalled
    <3>1. observing' \in {"idle", "decide", "send"}
      BY <2>1 DEF ObserveCalled
    <3>2. standbySeen' = ("standby" \in Armed(settings))
      BY <2>1 DEF ObserveCalled
    <3>3. ("standby" \in Armed(settings)) \in BOOLEAN
      OBVIOUS
    <3>4. standbySeen' \in BOOLEAN
      BY <3>2, <3>3, Zenon
    <3> QED BY <3>1, <3>4
  <2>2. CASE ObserveStandsDown \/ ObserveTrips \/ ObserveSent
    BY <2>2 DEF IInv, TypeOK, ObserveStandsDown, ObserveTrips, ObserveSent
  <2>3. CASE UNCHANGED safety
    BY <2>3 DEF IInv, TypeOK, safety
  <2> QED BY <2>1, <2>2, <2>3
          DEF LoopPublishes, Observe, MenuActs, OthersAct, Cancel, ListenerCloses, vars, safety
<1>4. /\ retained' \in Clients \cup {"loop", "none"}
      /\ shutdown' \in {"no", "cancelled", "closed"}
      /\ hungUp' \in Clients \cup {"none"}
  BY DEF IInv, TypeOK, LoopPublishes, Observe, ObserveCalled, ObserveStandsDown, ObserveTrips,
     ObserveSent, MenuActs, OthersAct, Cancel, ListenerCloses, vars, safety, stopping
<1>5. TypeOK'
  BY <1>1, <1>2, <1>3, <1>4 DEF IInv, TypeOK, sessions
<1>6. Ownership' /\ Disarmed' /\ SeesHandle'
  BY <1>1, PassthroughAssumption
  DEF IInv, Ownership, Disarmed, SeesHandle, SettingUp, Installed, sessions
<1> QED BY <1>5, <1>6 DEF IInv

\* Ownership, the disarmed settings and the transaction's knowledge hold in every
\* reachable state, whatever clients, settings updates and safety trips interleave.
THEOREM PassthroughInvariant == Spec => []IInv
<1>1. IInv /\ [Next]_vars => IInv'
  BY SetupIInv, FinishIInv, PumpIInv, SettingsIInv, OthersIInv DEF Next
<1> QED BY <1>1, InitIInv, PTL DEF Spec

\* Every variable keeps its type, and setupMu is held by a settings transaction
\* exactly while one is open.
THEOREM TypeCorrect == Spec => []TypeOK
<1>1. IInv => TypeOK
  BY DEF IInv
<1> QED BY <1>1, PassthroughInvariant, PTL

\* No automatic control is armed while a client owns the serial port.
THEOREM LeaseStaysDisarmed == Spec => []NeverArmedDuringLease
<1>1. IInv => NeverArmedDuringLease
  BY PassthroughAssumption DEF IInv, TypeOK, Ownership, Disarmed, Installed, NeverArmedDuringLease
<1> QED BY <1>1, PassthroughInvariant, PTL

\* Every way out of serve gives back the boundary, the lease, the handle and the port.
THEOREM ServeGivesBack == Spec => []NothingLeaks
<1>1. IInv => NothingLeaks
  BY DEF IInv, Ownership, SettingUp, Installed, NothingLeaks
<1> QED BY <1>1, PassthroughInvariant, PTL
=============================================================================
