--------------------------- MODULE RawPassthrough ---------------------------
(***************************************************************************)
(* rawpassthrough.Controller: TCP clients that lease the serial port,      *)
(* beside the settings route that arms automatic controls, the safety      *)
(* controller on the read loop and other controllers on the panel.         *)
(*                                                                         *)
(* setupMu is the boundary both sides meet at: a session is set up inside  *)
(* it and a settings transaction runs inside it.  BeginRawPassthrough and  *)
(* the lease's Close are single steps here (SerialSource has their steps); *)
(* the coordinator appears as the promise ActuationCoordinator implements. *)
(***************************************************************************)
CONSTANTS
    Clients     \* TCP connections, each reused once its goroutines are done

ASSUME PassthroughAssumption ==
    Clients \cap {"free", "none", "loop", "settings"} = {}

VARIABLES
    reserved, touching,     \* the panel, see ActuatorAccess
    rawLease,               \* the client whose lease object is the current one, or "none"
    client,                 \* client -> where its serve goroutine is
    pump,                   \* client -> where its amplifier-to-client goroutine is
    setupMu,                \* a client, "settings" or "free"
    handle,                 \* Controller.handle: the client it belongs to, or "none"
    source,                 \* who has the serial port: the read "loop" or a client
    settings,               \* the flags set in the stored settings
    update,                 \* the settings transaction: the request, what it saw
    observing,              \* safety Observe: "idle", "decide" or "send"
    standbySeen,            \* whether its settings argument armed the standby
    retained,               \* who published the retained status: the read "loop", the
                            \* client it was tapped from, or "none" if it was invalidated
    shutdown,               \* "no", "cancelled", or "closed" with the listener
    hungUp                  \* the client closeActiveConn disconnected, or "none"

panel == <<reserved, touching, rawLease>>
sessions == <<client, pump, setupMu, handle, source>>
safety == <<observing, standbySeen>>
stopping == <<shutdown, hungUp>>
vars == <<panel, sessions, settings, update, safety, retained, stopping>>

Panel == INSTANCE ActuatorAccess
             WITH Owners <- {"raw", "overtemp", "menu-debug"},
                  SafetyOwners <- {"overtemp"}

\* The settings that decide what is armed; a request sets some, clears some and
\* leaves the rest as stored.
Flags == {"fan", "monitoring", "standby"}
Requests == {q \in [on : SUBSET Flags, off : SUBSET Flags] : q.on \cap q.off = {}}
NoUpdate == [open |-> FALSE, leased |-> FALSE, request |-> [on |-> {}, off |-> {}]]

\* armedAutomaticControls: the standby is armed only while monitoring is on.
Armed(flags) ==
    (flags \cap {"fan"})
        \cup {f \in {"standby"} : {"monitoring", "standby"} \subseteq flags}

TypeOK ==
    /\ Panel!TypeOK
    /\ rawLease \in Clients \cup {"none"}
    /\ client \in [Clients -> {"idle", "accepted", "checking", "beginning", "opening",
                             "live", "closed", "released"}]
    /\ pump \in [Clients -> {"stopped", "reading", "chunk", "forwarded"}]
    /\ setupMu \in Clients \cup {"free", "settings"}
    /\ handle \in Clients \cup {"none"}
    /\ source \in Clients \cup {"loop"}
    /\ settings \subseteq Flags
    /\ update \in [open : BOOLEAN, leased : BOOLEAN, request : Requests]
    /\ observing \in {"idle", "decide", "send"}
    /\ standbySeen \in BOOLEAN
    /\ retained \in Clients \cup {"loop", "none"}
    /\ shutdown \in {"no", "cancelled", "closed"}
    /\ hungUp \in Clients \cup {"none"}
    /\ update.open <=> setupMu = "settings"

Init ==
    /\ Panel!Init /\ rawLease = "none"
    /\ client = [c \in Clients |-> "idle"]
    /\ pump = [c \in Clients |-> "stopped"]
    /\ setupMu = "free" /\ handle = "none" /\ source = "loop"
    /\ settings \in SUBSET Flags
    /\ update = NoUpdate
    /\ observing = "idle" /\ standbySeen = FALSE
    /\ retained = "none"
    /\ shutdown = "no" /\ hungUp = "none"

-----------------------------------------------------------------------------
(* serve: setting a session up.                                            *)

Accept(c) ==
    /\ shutdown # "closed"
    /\ client[c] = "idle" /\ pump[c] = "stopped"
    /\ client' = [client EXCEPT ![c] = "accepted"]
    /\ UNCHANGED <<panel, pump, setupMu, handle, source, settings, update, safety, retained,
                   stopping>>

ServeEnters(c) ==
    /\ client[c] = "accepted" /\ setupMu = "free"
    /\ setupMu' = c
    /\ client' = [client EXCEPT ![c] = "checking"]
    /\ UNCHANGED <<panel, pump, handle, source, settings, update, safety, retained, stopping>>

\* Another session, an armed control or a busy panel - asked for only then, and
\* answered once nobody is inside a transport call - turns the client away.
ServeRefuses(c) ==
    /\ client[c] = "checking"
    /\ \/ handle # "none"
       \/ Armed(settings) # {}
       \/ reserved # "free" /\ touching \in {"none", "wake"}
    /\ setupMu' = "free"
    /\ client' = [client EXCEPT ![c] = "idle"]
    /\ UNCHANGED <<panel, pump, handle, source, settings, update, safety, retained, stopping>>

\* setupMu is kept from the checks until the session is installed.
ServeStarts(c) ==
    /\ client[c] = "checking"
    /\ handle = "none" /\ Armed(settings) = {}
    /\ Panel!Take("raw")
    /\ rawLease' = c
    /\ client' = [client EXCEPT ![c] = "beginning"]
    /\ UNCHANGED <<pump, setupMu, handle, source, settings, update, safety, retained, stopping>>

\* Fault: the lease is left behind.
ForgetLease(c) == UNCHANGED panel

\* Release of a lease object: only the current one clears the reservation.
ReleaseLease(c) ==
    /\ touching = "none" \/ (touching = "wake" /\ rawLease # c)
    /\ IF rawLease = c
       THEN Panel!GiveBack /\ rawLease' = "none"
       ELSE UNCHANGED panel

\* BeginRawPassthrough claims the port, marks it and checks its context once.
ServeClaims(c) ==
    /\ client[c] = "beginning" /\ shutdown = "no"
    /\ client' = [client EXCEPT ![c] = "opening"]
    /\ UNCHANGED <<panel, pump, setupMu, handle, source, settings, update, safety, retained,
                   stopping>>

\* BeginRawPassthrough fails: the port stays with the read loop.
ServeBeginFails(c) ==
    /\ client[c] \in {"beginning", "opening"}
    /\ ReleaseLease(c)
    /\ setupMu' = "free"
    /\ client' = [client EXCEPT ![c] = "idle"]
    /\ UNCHANGED <<pump, handle, source, settings, update, safety, retained, stopping>>

\* BeginRawPassthrough succeeds - it has waited for the read loop, and so for
\* an Observe running on it - and the session is installed.
ServeInstalls(c) ==
    /\ client[c] = "opening"
    /\ source = "loop" /\ observing = "idle"
    /\ source' = c /\ handle' = c
    /\ retained' = "none"
    /\ setupMu' = "free"
    /\ client' = [client EXCEPT ![c] = "live"]
    /\ pump' = [pump EXCEPT ![c] = "reading"]
    /\ UNCHANGED <<panel, settings, update, safety, stopping>>

-----------------------------------------------------------------------------
(* finish: tearing a session down, once.                                   *)

\* The connection and the port are closed; the read loop may open it again.
FinishCloses(c) ==
    /\ client[c] = "live"
    /\ source' = "loop"
    /\ client' = [client EXCEPT ![c] = "closed"]
    /\ UNCHANGED <<panel, pump, setupMu, handle, settings, update, safety, retained, stopping>>

\* The peer hangs up, or a copy fails: either copy goroutine finishes.
PeerEnds(c) == FinishCloses(c)

\* Fault: only the connection the listener's watcher found is torn down.
ListenerEnds(c) == hungUp = c /\ FinishCloses(c)

\* The session's own watcher sees the context end; closeActiveConn has hung up
\* on at most one session, and this one may have been installed after it.
ShutdownEnds(c) == (shutdown # "no" \/ hungUp = c) /\ FinishCloses(c)

FinishReleases(c) ==
    /\ client[c] = "closed"
    /\ ReleaseLease(c)
    /\ client' = [client EXCEPT ![c] = "released"]
    /\ UNCHANGED <<pump, setupMu, handle, source, settings, update, safety, retained, stopping>>

FinishClears(c) ==
    /\ client[c] = "released"
    /\ handle' = IF handle = c THEN "none" ELSE handle
    /\ client' = [client EXCEPT ![c] = "idle"]
    /\ UNCHANGED <<panel, pump, setupMu, source, settings, update, safety, retained, stopping>>

-----------------------------------------------------------------------------
(* The amplifier-to-client goroutine.                                      *)

\* A read on a closed port fails and ends the goroutine.
PumpReads(c) ==
    /\ pump[c] = "reading"
    /\ pump' = [pump EXCEPT ![c] = IF client[c] = "live" THEN "chunk" ELSE "stopped"]
    /\ UNCHANGED <<panel, client, setupMu, handle, source, settings, update, safety, retained,
                   stopping>>

\* The chunk is written to the client first; a closed connection ends it.
PumpForwards(c) ==
    /\ pump[c] = "chunk"
    /\ pump' = [pump EXCEPT ![c] = IF client[c] = "live" THEN "forwarded" ELSE "stopped"]
    /\ UNCHANGED <<panel, client, setupMu, handle, source, settings, update, safety, retained,
                   stopping>>

\* ObserveFromAmp: a chunk may or may not complete a status frame.
PumpObserves(c) ==
    /\ pump[c] = "forwarded"
    /\ pump' = [pump EXCEPT ![c] = "reading"]
    /\ \/ retained' = c
       \/ UNCHANGED retained
    /\ UNCHANGED <<panel, client, setupMu, handle, source, settings, update, safety, stopping>>

\* The read loop polls and publishes.
LoopPublishes ==
    /\ source = "loop"
    /\ retained' = "loop"
    /\ UNCHANGED <<panel, sessions, settings, update, safety, stopping>>

-----------------------------------------------------------------------------
(* POST /api/v1/settings.                                                  *)

\* The body is decoded before; settingsMu admits one update at a time, setupMu
\* is the passthrough boundary, and "leased" is read inside it.
SettingsBegin(q) ==
    /\ ~update.open /\ setupMu = "free"
    /\ setupMu' = "settings"
    /\ update' = [open |-> TRUE, leased |-> handle # "none", request |-> q]
    /\ UNCHANGED <<panel, client, pump, handle, source, settings, safety, retained, stopping>>

\* mergeSettingsRequest
Merged(q) == (settings \cup q.on) \ q.off

\* Fault: only what the request itself names is asked about.
NewlyArmedByRequest(q) == (q.on \cap {"fan", "standby"}) \ settings

\* controlsNewlyArmedBy: what the update would arm that is not armed already.
NewlyArmed(q) == Armed(Merged(q)) \ Armed(settings)

\* Fault: the early return keeps the boundary.
SettingsRefusedHolding ==
    /\ update.open
    /\ update' = NoUpdate
    /\ UNCHANGED <<panel, sessions, settings, safety, retained, stopping>>

\* The update is refused, or cannot be stored.
SettingsRefused ==
    /\ update.open
    /\ setupMu' = "free" /\ update' = NoUpdate
    /\ UNCHANGED <<panel, client, pump, handle, source, settings, safety, retained, stopping>>

SettingsCommit ==
    /\ update.open
    /\ ~(update.leased /\ NewlyArmed(update.request) # {})
    /\ settings' = Merged(update.request)
    /\ setupMu' = "free" /\ update' = NoUpdate
    /\ UNCHANGED <<panel, client, pump, handle, source, safety, retained, stopping>>

-----------------------------------------------------------------------------
(* The safety controller on the read loop, and other users of the panel.   *)

\* The settings are read, then Observe is called with them.
ObserveCalled ==
    /\ source = "loop" /\ observing = "idle"
    /\ observing' = "decide" /\ standbySeen' = ("standby" \in Armed(settings))
    /\ UNCHANGED <<panel, sessions, settings, update, retained, stopping>>

\* The excursion is over, or the standby is disarmed: give the panel back.
ObserveStandsDown ==
    /\ observing = "decide"
    /\ \/ UNCHANGED <<reserved, touching>>
       \/ reserved = "overtemp" /\ Panel!GiveBack
    /\ observing' = "idle" /\ standbySeen' = FALSE
    /\ UNCHANGED <<rawLease, sessions, settings, update, retained, stopping>>

\* A hot poll with an armed standby preempts whoever has the panel.
ObserveTrips ==
    /\ observing = "decide" /\ standbySeen
    /\ Panel!Take("overtemp") /\ reserved # "overtemp"
    /\ rawLease' = "none"
    /\ observing' = "send" /\ standbySeen' = FALSE
    /\ UNCHANGED <<sessions, settings, update, retained, stopping>>

\* The press is written and the panel held, or it fails - as it does once a
\* client has marked the port - and the panel goes back.
ObserveSent ==
    /\ observing = "send"
    /\ \/ UNCHANGED <<reserved, touching>>
       \/ Panel!GiveBack
    /\ observing' = "idle"
    /\ UNCHANGED <<standbySeen, rawLease, sessions, settings, update, retained, stopping>>

\* Menu debug, which stands for every controller without safety priority.
MenuActs ==
    /\ \/ Panel!Take("menu-debug") \/ Panel!Press("menu-debug")
       \/ reserved = "menu-debug" /\ Panel!GiveBack
    /\ UNCHANGED <<rawLease, sessions, settings, update, safety, retained, stopping>>

OthersAct ==
    /\ Panel!PressByHand \/ Panel!StartWake \/ Panel!LetGo
    /\ UNCHANGED <<rawLease, sessions, settings, update, safety, retained, stopping>>

Cancel ==
    /\ shutdown = "no" /\ shutdown' = "cancelled"
    /\ UNCHANGED <<panel, sessions, settings, update, safety, retained, hungUp>>

\* Start's watcher closes the listener and then the active connection, once.
ListenerCloses ==
    /\ shutdown = "cancelled" /\ shutdown' = "closed"
    /\ hungUp' = handle
    /\ UNCHANGED <<panel, sessions, settings, update, safety, retained>>

Setup(c) ==
    \/ ServeEnters(c) \/ ServeRefuses(c) \/ ServeStarts(c) \/ ServeClaims(c)
    \/ ServeBeginFails(c) \/ ServeInstalls(c)

Finish(c) == ShutdownEnds(c) \/ FinishReleases(c) \/ FinishClears(c)

Pump(c) == PumpReads(c) \/ PumpForwards(c) \/ PumpObserves(c)

Settings == (\E q \in Requests : SettingsBegin(q)) \/ SettingsRefused \/ SettingsCommit

Observe == ObserveCalled \/ ObserveStandsDown \/ ObserveTrips \/ ObserveSent

Next ==
    \/ \E c \in Clients : Accept(c) \/ Setup(c) \/ PeerEnds(c) \/ Finish(c) \/ Pump(c)
    \/ LoopPublishes \/ Settings \/ Observe \/ MenuActs \/ OthersAct
    \/ Cancel \/ ListenerCloses

Spec == Init /\ [][Next]_vars

-----------------------------------------------------------------------------
(* Every goroutine is scheduled, every transport call and transaction ends, *)
(* and Go's mutexes are starvation-free: a goroutine that waits for setupMu *)
(* or the coordinator's mutex gets it if it is freed again and again.       *)

Fairness ==
    /\ \A c \in Clients :
        SF_vars(Setup(c)) /\ SF_vars(FinishReleases(c)) /\ WF_vars(Finish(c))
    /\ WF_vars(Panel!LetGo /\ OthersAct)
    /\ WF_vars(SettingsRefused \/ SettingsCommit)
    /\ WF_vars(ListenerCloses)

LiveSpec == Spec /\ Fairness

-----------------------------------------------------------------------------
(* Properties.                                                             *)

\* No automatic control is armed while a client owns the serial port, whatever
\* settings updates race its setup and teardown (the boundary setupMu is for).
NeverArmedDuringLease == source # "loop" => Armed(settings) = {}

\* Every way out of serve gives back what it took: a client that is not being
\* served owns no boundary, no lease, no handle and no port.
NothingLeaks ==
    \A c \in Clients :
        client[c] \in {"idle", "accepted"} => c \notin {setupMu, rawLease, handle, source}

\* On shutdown every session ends and the port goes back to the read loop, also
\* a session that was still being set up when the listener's watcher looked.
ShutdownEndsSessions ==
    shutdown = "closed" ~> \A c \in Clients : client[c] = "idle"

\* docs/ARCHITECTURE.md: a session also holds the actuation lease, so button and
\* wake callers get the busy error before they reach the serial layer.
SessionHoldsPanel == \A c \in Clients : client[c] = "live" => reserved = "raw"

\* status_state.go: after the pre-lease status is invalidated, the next frame to
\* make the status authoritative is one tapped during that lease.
TapOfThisLease ==
    \A c \in Clients : client[c] = "live" => retained \in {c, "none"}
=============================================================================
