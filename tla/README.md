# A verification project for expert-amp-server

TLA+ models of the parts of `expert-amp-server` that decide who may talk to the
amplifier and when, the TLC runs that check them, and TLAPS proofs about them.
Paths are relative to `src/internal/` unless they start with `src/`.

## 1. The system

The server owns one serial port of an SPE Expert amplifier. It polls status
frames and display frames, publishes them to HTTP and WebSocket clients, and
sends front-panel keys. The protocol has no acknowledgement, most keys are
toggles, and the amplifier tolerates one master. What is hard in this program is
therefore who may write, on what evidence, and who has the port.

| component | state | operations | what makes it correct |
|---|---|---|---|
| **Actuation coordinator** `transport/actuation.go` | current lease object, wake channel, one mutex | `Acquire`, `Release`, `SendButton` (API, owned), `SendWake` | one party at a time; safety preempts, nobody else does; a late `Release` is harmless |
| **Serial source** `runtime/serial_source.go`, `runtime/raw_passthrough.go` | port, generation, done channel, recorded status identity, `writeMu`, `lifecycleMu`, claim, flag | read loop, poll and button writes, wake, raw lease | one open handle; a write goes to the session it was authorized for, on the newest status; nobody waits behind a lease; the read loop returns |
| **Raw passthrough** `rawpassthrough/listener.go` | `setupMu`, handle, connection, one goroutine set per client | accept, `serve`, `finish`, the pump, shutdown, the settings boundary | nothing leaks, no automatic control is armed during a lease, shutdown ends sessions |
| **Overtemperature standby** `monitoring/controller.go` | latch, action state, lease | `Observe`, `sendOnce`, `ObserveContactLoss` | one press per excursion; the panel is held through it; a lasting hot condition is acted on |
| **Settings** `config/config.go`, `server/server.go` | stored settings, file | `Update`, the settings route | a transaction is decided on what will be stored |
| **Canonical status** `runtime/status_state.go`, `server/status_ws.go` | retained status, generation, invalidation mark, subscribers | `UpdateProtocolNative`, tap, invalidate, `Resolve`, `Subscribe`; a socket that resolves and sends | no status outlives its authority; no wake-up is lost; an open socket catches up |
| **Runtime store, poller** `runtime/runtime.go`, `server/display_ws.go` | snapshot, sequence, subscribers | `Poll`, `Apply`, `Subscribe` | the newest snapshot reaches every subscriber |
| **Fan policy** `fanpolicy/` | navigation state, verified mode, override, lease, persistence | `Observe*`, `Tick`, `Recover`, overrides | keys are sent only on the screen they were meant for; what is recorded is what is stored; a transaction ends |
| **Menu debug** `menudebug/`, `server/menu_debug.go` | session, revision, plan, evidence, lease; one runner goroutine | arm, begin, authorize, observe, confirm, abort, the guarded test | a key is sent on the screen it was authorized on; a test leaves the amplifier as it was; it ends |
| **Decoders** `protocol/`, `serial/reader.go` | stream buffer | decode | resynchronisation after garbage |
| **Wake** `transport/buttons.go` | DTR/RTS levels | `RunWakeSequence` | lines end in a known state |
| Rendering, capture, fixture source, wiring, web page | | | not decision logic |

How they meet:

* The **read loop** is one goroutine. After each status frame it calls, in turn,
  the safety controller, the fan controller and menu debug; each may press a key
  through the coordinator, which calls back into the serial source. An HTTP
  handler does the same from its own goroutine.
* The **coordinator** calls the transport with its mutex held, except for the
  wake, whose pulse runs outside it.
* A **wake** and a **raw client** take the port away from the read loop: they
  retire its session and wait for the read loop to close its done channel, while
  they hold `lifecycleMu`, which keeps it from opening the port again.
* A **settings update** and the setup of a **raw session** meet at `setupMu`.

The behaviours that are hard to test are listed, at their lines, under
`hazards` in `PROJECT.json`.

## 2. Modules

| module | models | extends or instantiates |
|---|---|---|
| `ActuatorAccess` | the promise: the panel is reserved for one party, and a safety controller may take it between keys | |
| `ActuationCoordinator` | the coordinator: lease objects, the wake channel, the mutex | refines `ActuatorAccess` |
| `ActuationCoordinatorProofs` | proofs about it | TLAPS |
| `SerialSource` | the port, its read loop, a writer, a wake and raw clients, step by step | |
| `SerialSourceProofs` | proofs about it | TLAPS |
| `OvertempStandby` | the safety controller, the amplifier and other panel users | uses `ActuatorAccess` for the coordinator |
| `OvertempStandbyProofs` | proofs about it | TLAPS |
| `RawPassthrough` | the listener, its sessions, settings, the safety controller | uses `ActuatorAccess` for the coordinator |
| `RawPassthroughProofs` | proofs about it | TLAPS |
| `FanPolicy` | the fan controller, its persistence, the amplifier and its menu | |
| `FanPolicyProofs` | proofs about it: types, disk, pauses | TLAPS |
| `FanMenuProofs` | proofs about its keys and the amplifier's screen | TLAPS |
| `MenuDebug` | the menu debug session, its runner and handlers, the amplifier and its menu | |
| `MenuDebugProofs` | proofs about it | TLAPS |
| `CanonicalStatus` | retained status, snapshot store, poller, subscribers, one websocket of each kind | |
| `CanonicalStatusProofs` | proofs about it | TLAPS |
| `MC...` | constants and symmetry for TLC | |

The coordinator is modelled twice, in detail and as a promise. The detailed
module is *shown* to implement the promise (checked as `RefinesActuatorAccess`,
proved as `Refinement`), so the modules above it compose with the promise alone.

### ActuationCoordinator

`lease` is `c.lease`; lease objects are values of `LeaseIds`, each with its owner
and whether `Release` ran. `pressing` is both "inside the transport" and "holds
`c.mu`", because `SendButton` keeps the mutex across the write. `pulsing` is the
wake's I/O, outside the mutex. A refused call changes nothing and stutters.

### SerialSource

One action is what a goroutine does between two points where another may get in:
taking `writeMu` or `lifecycleMu`, waiting for the done channel, or serial I/O.
The short sections under `portMu` belong to the step around them. Correspondence
of names: `loop` is the program counter of `readLoop`/`readFromPort`/
`applyStatusFrameFromSession`; `writer`, `waker` and `raw` those of `SendButton…`,
`SendWake` and `BeginRawPassthrough` with its `closeFn`; `evidence` is the
recorded model, operating state and TX; `accepted` is a history variable, the
newest status frame of the session; `retained` is the provenance of the retained status,
and `inHand` the raw clients whose pump has forwarded a status frame and not yet called
`ObserveFromAmp`, which may happen when the lease is over or the next one has begun.

Abstractions: a session number is reused once nothing refers to it (the code only
compares them for equality); a status frame is one of the operating states a key
may be authorized for, or `Unusable`; failing to close a handle ends the
retirement with the failure (the code's early return); a write that times out
leaves a goroutine in the driver that can do nothing but return; a display frame
is a key that the fan controller may send (`LoopReadsDisplay`), and the rest of it is
left to the modules that read it.

### OvertempStandby

The amplifier is its operating state, TX and temperature in three bands (below
reset, below trip, at or above trip). `frame` is a decoded status reply; the
amplifier may have moved on before it is observed. `armedSeen` is the value of
`safetySettings()`, which the call evaluates before `Observe` takes its mutex. A
press that fails may or may not have been delivered. `OthersPress` stands for API
clients, the fan policy and wakes; a press of theirs may be of the same key.
`FrontPanelUsed` says whether a human may also press keys on the amplifier.

### RawPassthrough

`client` is the place of `serve`'s goroutine (with `finish`), `pump` that of the
amplifier-to-client goroutine, which outlives the teardown it does not take part
in. `BeginRawPassthrough` is a step that checks its context and one that
succeeds or fails - `SerialSource` has the inside - and succeeds only once no
`Observe` runs, since it waits for the read loop. `settings` holds the three flags
armed controls depend on, a request sets and clears some of them, and the
controls it would newly arm are computed from the merge, as in `server.go`. Menu
debug stands for every controller without safety priority. A client identity is
used again once its goroutines are done, so two clients give unboundedly many
sessions.

### FanPolicy

Every method of `fanpolicy.Controller` runs under `c.mu`, its button writes
included, so a method is one step: `ObserveStatus`, `ObserveDisplay`, `Tick`, the API's
requests, `SaveSettings` (which also stands for `UpdateSettings`), `Recover`, a new
serial session, and a restart from what is on disk. `nav` is `c.nav`, `ctl` the other
fields, `disk` the `PersistentState` last saved. `SetupWaypoint` and the operators after
it are the branches of `advanceLocked`, one per place of a transaction.

The amplifier is part of the module: `line` has the keys written and not yet acted on,
`amp` its screen with the edited and the stored mode. `io` is what the transport, the
coordinator and the disk answer during a step; a key may be written, written and lost,
written but reported as failed, or not written.

Abstractions: frames come from one read loop, so generations are reduced to whether one
came since an event; a deadline is set exactly while a transaction is active and not
paused, or paused with RX seen; First and Second Series share one menu, the Third has its
own; every other fatal block behaves as TX unknown does; the fields of the report are
dropped at the end of a transaction. A key acts well within `navigationTimeout` and before
an operator's next request; the front panel is not used during a transaction, except
DISPLAY after a failure; a new session may come with a used or another amplifier.

### MenuDebug

`sess` is `c.session`, `rt` what the controller observed, `run` the runner goroutine of
`server/menu_debug.go` with the session and key it has in hand. A method of the controller
is a step under `c.mu`; the runner is several: `RunnerTop` reads the session and
authorizes a key, `RunnerChecks` checks again under `dispatchMu` (`pc = "write"` is the
mutex held), `RunnerWrites` writes, `RunnerWaits` waits for the receipt, and giving up
reads the revision and fails the session in two steps, as the code does. `starting`
is a handler between a transaction's begin and `startGuardedTest`.

Abstractions: of the revision there is whether the one the runner holds is still the
session's (`run.cur`); the action budget, longer than any plan, is not modelled; a
fingerprint is the screen, its value and, at home, a reading that may change; the report
is its model, capability, session and kind. A receipt timeout is free once the amplifier
acted and showed it, and an event otherwise. Nobody else moves the menu while a
session may send keys; people press DISPLAY when it is over or waits for home. The second
kind of Second Series menu behaves as the first and is not separate.

Simplified, and not covered by what is checked: the runner's `Runtime()` and the authorization
that follows it are one step, though a frame may be stored between them; `Confirm` and
`BeginRestore` are one step of `Verification`; a frame with a wrong checksum hides the mode but
shows the true screen, while the code would keep a corrupted one; a Third Series amplifier of
unreviewed firmware, which only has its topology recorded, is represented by the model
`other`.

### CanonicalStatus

`proto` is the retained frame with its authority, `snap` the store's snapshot, `pub` a
delivery in progress under its publisher's mutex, `chan` the subscribers' channels. `Push`
is `pushStatus` and `pushSnapshot` step by step, because the reader takes entries without
the mutex. `sock` and `disp` are the goroutines of the two websockets; the status
socket reads the snapshot and the retained frame in two steps, as `selectedStatus` does.

A frame is the operating state it shows. Time is what `Resolve` asks of it: which of a
display frame, its storing and a protocol frame came first (`behind`, `newer`), and
whether one is within `RecentContactWindow`. `silent` (history) marks an answer that only
the clock or a repeated frame changed, of which nobody is told.

## 3. Runs

| run | shows | size |
|---|---|---|
| `ActuationCoordinator` | exclusion, live leases, harmless late releases, preemption, refinement | 2 ordinary owners, 1 safety owner, 4 lease objects, 2 wakes |
| `SerialSource` | who has the port, that it works, authorized writes, no polls during a lease, who waits for whom | 1 writer, 1 wake, 2 raw clients, 3 session numbers, 2 operating states |
| `SerialSourceLive` | every handover ends, shutdown | 1 wake, 1 raw client, 2 sessions |
| `SerialSourceWake` | *violation*: a wake and the read loop wait for each other | as `SerialSource` |
| `OvertempStandby` | latch, hold, single press, response | exhaustive |
| `OvertempOneWay` | *violation*: the toggle can put the amplifier into OPERATE | no human at the front panel |
| `RawPassthrough` | disarmed during leases, no leaks, shutdown | 1 client that connects again and again, all 8 settings, all 27 requests |
| `RawPassthroughLease` | *violation*: a session without the panel | 2 clients |
| `RawPassthroughTap` | *violation*: a tap of the previous lease | 2 clients |
| `FanPolicy` | keys and screens, disk and memory, the recorded policy, fresh RX, the end of a transaction | First and Third Series, 2 setup keys, 1 disturbance |
| `MenuDebug` | keys and screens, what the operator is told, restoration, abort, the end of a transaction | 4 amplifiers of 3 families, 2 or 3 setup keys, both capabilities, 1 disturbance |
| `CanonicalStatus` | closed channels, lost wake-ups, the newest snapshot, order, catching up | 2 operating states, the code's buffer of 2, 3 events |

Why these bounds are enough. The coordinator compares lease objects with the
installed one only, so a current, a preempted and a fresh object with one to spare
reach every case; two ordinary owners and two wakes are needed for a refusal. In
`SerialSource` a second raw client is needed for what one client's clean-up and late tap do to
its successor, and three session numbers for a writer that outlives two sessions;
several writers differ from one only by waiting for `writeMu`. `RawPassthrough` runs
with one client, whose pump outlives its session into the next one, because
`setupMu` serialises setup; its safety is proved for any number.
`SerialSourceLive` drops what only adds waiting.

In `FanPolicy`, `MenuDebug` and `CanonicalStatus` what is not the ordinary course -
a lost or late frame or key, a press by hand, a new session, a failed write or save,
a restart, an expiry - counts as an event, and `MaxEvents` bounds their number. One
event at every point of a transaction is what a test would have to inject; the
ordinary course costs none, so nothing is cut short. In `CanonicalStatus` every
frame counts, and three of them fill a channel of two beside its reader.

A property of a passing run has a mutant in `PROJECT.json`: a definition of the
model replaced by the *Fault* beside it, under which TLC finds the property
violated. Faults are named in the modules and used in no specification.

## 4. Properties and what the runs found

The properties are stated, each with a comment, at the end of their modules.
Four runs exhibit disagreements between the code and what it or its documentation
says of itself; `findings` in `PROJECT.json` quotes both sides.

* `WakeNeverBlocksReadLoop`: `SendWake` holds `writeMu` while it waits for the
  read loop's session to unwind; the read loop needs `writeMu` for the status
  frame it has in hand. Each waits until the retire timeout and the wake fails.
  Raw leases drop `writeMu` first and are free of this (`RawNeverInWaitCycle`).
* `StandbyIsOneWay`: the toggle is sent on evidence that may have been overtaken by
  a press of the same key.
* `SessionHoldsPanel`: the safety controller may preempt the lease of a session
  that is being set up, on the strength of settings that no longer hold.
* `TapOfThisLease`: nothing joins the pump before the next lease begins. The late tap is
  in `SerialSource` and `CanonicalStatus` too, and no property of theirs denies it:
  `NoPollDuringLease` says that no *poll* has authority during a lease, not that nothing
  has before the lease's own first tap, which would be false.

Three more were met while modelling. Their invariants are in the modules and fail when
they are checked under the constants of the module's run (`MaxEvents` 2 for the first):

* `MenuDebug!ReportsAreOfThisSession`: `ObserveSerialSession` discards the reports and fails
  the session (`menudebug/controller.go:128-141`), but the next call after the session's
  deadline expires it once more and retains its evidence again (1195-1204), against
  the comment at 106-109 and `src/docs/PROTOCOL.md:104`.
* `CanonicalStatus!DisplayFollowsSnapshot`: `server/display_ws.go:58-63` sends the current
  snapshot and then subscribes; one stored in between is not sent until the next change.
  The status socket subscribes first and says why (`server/status_ws.go:53-68`).
* `CanonicalStatus!OverrideIsNewer`: `Apply` stamps a snapshot when it is stored
  (`runtime/runtime.go:121`), so a display frame that was received before a protocol frame
  passes for newer and overrides its operating state (`runtime/status_state.go:301-311`).

That the timeout of an old write does not make the server *forget* the port of a later
session is one comparison (`serial_source.go:597`) and no property of its own;
`PortInForceIsOpen` says what several steps could break, that the port it keeps is not closed.

What the properties of `FanPolicy` and `MenuDebug` except or the models leave out, because
the code does not prevent it:

* The First Series waypoint SAVE (`fanpolicy/controller.go:916-921`) and the passive
  observation (1375-1405) look at the SAVE selection only, not at the mode shown: if
  someone uses the panel during a transaction, another mode is recorded as verified.
* `Recover` accepts a home frame that was read before a key whose write was not
  confirmed acts.
* The menu debug runner gives up by reading the revision and failing the session with it
  (`server/menu_debug.go:442-454`, 489-); a frame in between makes the revision stale, and
  the session stays with its lease until it expires. `TransactionEnds` excepts
  `run.abandoned`.
* `RestoredWhenReported` exempts a report on an amplifier that was replaced by one of
  another model. The exemption looks at the models only: with two replacements, there and
  back, no status frame naming the model in between and one home frame of the last
  amplifier, a restoration is reported that never reached it. `MaxEvents` allows one.
* A changed home screen passes for the answer to the SET that leaves it, and a
  second SET is sent. `KeyFindsItsScreen` excepts the keys decided at home and what
  follows in a submenu they opened by mistake; an amplifier that was replaced is not
  excepted.
* A repeated, unchanged status frame can change what `Resolve` answers (a display override
  lapses, an expired tap speaks again) and wakes nobody; the socket's recheck, once a
  second, notices.

## 5. Fairness

* A goroutine that waits for a Go mutex gets it if it is freed again and again
  (mutexes hand over to a waiter after a millisecond): strong fairness of the
  steps that take one.
* Serial I/O is bounded by its timeouts and goroutines are scheduled: weak
  fairness of the steps that end it.
* The read loop tests its context before every read: `cancelled /\ LoopLeavesPort`
  cannot be passed over for ever.
* Nothing makes a raw client hang up, and no fairness says it does, except that
  the listener closes it when the server stops. Nothing makes anyone send, arm
  or wake. `HotIsAnswered` excepts a panel that wakes have.
* The amplifier acts on the keys that reach it and stores what it was told to;
  status and display frames keep coming, because the read loop polls; tickers tick
  and timers fire: weak fairness of these steps in `FanPolicy` and `MenuDebug`, and
  of the menu debug runner's. No key, frame or session is promised to get through,
  and no operator to answer.
* The poller ticks, a publisher that has begun finishes, and the sockets' goroutines
  run: weak fairness in `CanonicalStatus`. Frames, clients and leases are free.

## 6. Proofs

`ActuationCoordinatorProofs` (assumption: `CoordinatorAssumption`, the names of
owners differ from the markers). The inductive invariant is the conjunction of
`TypeOK`, `ActuatorExclusive` and `CurrentLeaseLive`. The last two conjuncts of
`ActuatorExclusive` (a wake pulses exactly while its channel is installed, and
never beside a lease) are what makes it inductive: a press is admitted by looking
at the lease and at the channel, not at the pulse.
From it follow type correctness, exclusion, the two action properties
and, with the mapping `ReservedFor`/`Touching`, that every step is a step of
`ActuatorAccess` or a stutter. All five properties of the run, and that the installed
lease is a live one (`LiveLease`), are proved for every set of owners, leases and wakes.

`RawPassthroughProofs` (assumption: `PassthroughAssumption`). `NeverArmedDuringLease`
is not inductive: what keeps a settings update from arming a control under a
session being set up is that both hold `setupMu`, and what keeps it from arming
under an installed one is that it saw the handle. The invariant is

* `TypeOK`;
* `Ownership`: who owns `setupMu`, the lease object, the handle and the port, by
  the place of `serve` each client is at;
* `Disarmed`: nothing is armed from the checks of `serve` until its handle is
  cleared;
* `SeesHandle`: a settings transaction that runs while a handle is installed has
  seen it.

It is shown to hold initially and under each action, one step per action, and to
imply `NeverArmedDuringLease` and `NothingLeaks`, for any number of clients.

`OvertempStandbyProofs` (no assumption beyond `FrontPanelUsed` being a Boolean, which
the proofs do not use). The properties say what holds between polls; the invariant
adds what holds inside `Observe`: `PanelUse` (a wake is both user and holder of the
panel, the standby's press is the one `Observe` waits for), `Attempt` (from the trip
to the outcome the latch is closed and the panel held; otherwise a closed latch means
one press and an open one none) and `Holding` (the hold outlasts the attempt unless
it failed or the standby was disarmed). All four safety properties of the run are
proved from it.

`CanonicalStatusProofs` (assumption: `CanonicalStatusAssumption`, a buffer of at least one
and a bound on the events). Neither `NoSendOnClosedChannel` nor `NewestSnapshotRemains` is
inductive: the first needs that nobody unsubscribes during a delivery, the second that a
drained channel still has room when the publisher sends again, although its reader takes
entries without the mutex. The invariant is

* `Types`: the type of every variable, with sequence numbers unbounded;
* `Publishing`: whom a publisher still has to tell is subscribed, the channel it drained
  has room, and what the store delivers is its newest snapshot;
* `Display`: the display client's queue lies between what it sent and the newest snapshot,
  in order, and ends with the newest one that was delivered.

It gives four properties of the run: the types, both delivery invariants, and
`SnapshotsInOrder`, for any buffer and any number of events. `NoWakeUpIsLost` needs a
second invariant, `Answering`: from its first answer on the status socket is subscribed to
both publishers, and between its two reads the snapshot it took is the current one or
is announced in its channel (`WakeUpsArrive`).

`SerialSourceProofs` (assumption: `SerialAssumption`, the names of goroutines differ from
each other and from the markers, and so do those of sessions and statuses). The properties
speak of the port and of writes; what makes them inductive is who may be where:

* `Mutexes`: the owner of `writeMu`, `lifecycleMu` and the claim, by the program counter of
  every goroutine;
* `Handles`: whose handle is open, that a port in force is one of a session whose done
  channel and handle are open, and that a wake and a client open theirs after the done
  channel was closed;
* `Evidence`: what is recorded for a session and what a writer was authorized on.

All six safety properties of the run `SerialSource` are proved for any number of writers,
wakes, clients and sessions.

`FanPolicyProofs` (assumptions: `FanAssumption`, the setup screens differ from each other
and from every other screen; `StartAssumption`, what a start finds on disk is something the
controller saves). A method is a function of a *world*: the
navigation, the other fields, the file and the line. Each operator of the model has a lemma
that says what it makes of a sound world, so a method is proved by composing the lemmas
in the order of its calls. `Sound` is the types (`Typed`), that an active transaction knows
its target (`TargetKnown`), that a fan page shows a mode (`PagesShow`), and that the file is `Saved(ctl)` unless a save is known
to have failed. `KeysWaitForFreshRX` needs `Waiting`: while no RX was seen since TX the
transaction is paused and has seen no RX itself. Three properties of the run are proved.

`FanMenuProofs` (same assumptions) relates the controller's picture of the menu to the
amplifier, for a setup menu of any length. Its invariant `Met` says

* `LineMeets`: a key on its way meets the amplifier on the screen it was decided on, and
  there is one at a time, but for the DISPLAY of a recovery behind a RIGHT that has not
  acted;
* `Unseen`: while the key of a step is on its way, the amplifier does not show what the step
  waits for. So the frame that a waypoint accepts was read after the key acted: this is
  what makes the waypoints of `advanceLocked` sufficient, and what is lost if a
  waypoint compares less;
* `Reached`: what a step knows of the amplifier even if its key was lost (after SET on SAVE,
  the target is shown and unsaved, or stored);
* no transaction begins while a key of a failed one is on its way.

`KeyFindsItsScreen` follows. `RecordedPolicyIsStored` needs `Watched` beside it: outside a
transaction, the phase of passive observation says which mode the amplifier shows or
stores, and the amplifier is at most one key past the screen of the last frame. In a
transaction, `Reached` at home gives the stored mode. The methods are grouped by what they
leave alone: `Calm` (no key, no step), `Keeps` (nothing recorded), `Follows` (both).

`MenuDebugProofs` (assumption: `MenuDebugAssumption`, the setup screens of a model differ
from each other and from every other screen, the reviewed profiles have the entries
their plans return to, and no setup menu opens on one of them: the profiles of
`server/menu_debug.go:1057-1071` begin with ANTENNA or CONFIG). The first invariant is `Sane` - the types, `InPlan` (a transaction is about
a capability and its step is one of its plan) and `KeyReady` (a key that passed its last
check is a button for a session that is not aborted; one before that check is stale once
the session is) - and the types of the rest. It gives `TypeOK`, whose clause on the plan's
step is the one that matters, and `NoKeyAfterAbort`: abort takes `dispatchMu`, so no
write is under way, and it bumps the revision, so no authorized key passes its check.

The second, `MInv`, adds `Meeting`: what the session believes, beside where the amplifier is.

* `LineFits`: the keys on the line fit the amplifier, and so does the key in hand if it is
  ever written. One key that meets the screen it was authorized on would be the simple
  form; it is not inductive. A reading that changes at home passes for the answer to the SET
  that leaves it, so several SETs may be on the line, at home or past it, with at most one
  RIGHT behind them; they end on the first setup screen. That no capability is behind that
  screen is why no second SET ever enters a submenu of a capability, and why the assumption
  has its last clause.
* `Quiet`: a session that may act is as old as the port, and one that waits for a person
  has no key on the line or in hand.
* `Told`: a session that does not say the panel may be in the menu has it at home, with no
  key on its way, and one that may act holds the lease. `OperatorIsTold` follows.
* `Walking`: in the discovery the session awaits the answer to the key that is out, and
  where no answer is awaited the last frame shows the amplifier (`Current`) or misses one of
  several SETs from home (`Blurred`). A replaced amplifier is out of sight until its first
  frame: the last check of a key asks for a fresh one, so `Sure` is all that is claimed.
* `Planned`: a plan has one key at a time, which meets the amplifier, and it awaits its
  answer; the key that ends the plan is not sent at home, so that no frame but the one after it
  passes for its answer.

`KeyFindsItsScreen` follows from the first. TLC checked `MInv` with one event beyond those
of the run's bound before it was proved, and refuted the simpler forms. The methods of the
controller are functions of what they work on, so the lemmas say of each method what it
keeps (`...IInv`, `...Meet`). What makes no key valid again - a failure, an expiry, a lost
port, the home screen that ends a session - is one relation, `Stops`, with one lemma.

The third, `RInv`, adds `Restoring` for `RestoredWhenReported`: how the original value gets
back into the amplifier.

* `Reviewed`: the plan is one for the capability that is tested;
* `InSight`: while no answer is awaited, the last frame shows the amplifier, however old
  that frame is;
* `Saves`: the last step of a restoration (`Ends`) starts on SAVE with the original value,
  its key is SET, and while its answer is awaited the amplifier either still shows that SAVE
  or has stored the value with no key left. `RestoringSaves` reads this off the plans;
* `Returned`: where a restoration waits for its confirmation, the value is stored.

Every method reports no restoration (`Mild`), except the confirmation in `Verification`
(`ConfirmRestores`), where `Returned` and `Quiet` give what the report says.

`RestoredWhenReported` is not a theorem of the specification: with two replacements of the
amplifier, one more than the run allows, it does not hold (section 4). What is proved,
`RestoredUnlessReplaced`, has one hypothesis beside it, `[][Replace => Untested]_vars`: the
amplifier may be replaced, as often as one likes, but not while a capability is being
tested, from `discovering` to `awaiting-restore`. New ports, whichever amplifier is behind
them, lost keys and frames, timeouts, aborts and restarts need no hypothesis. The run covers
one replacement anywhere.

Only model-checked: every liveness property, `RestoredWhenReported` across a replacement
during a test, and the violations. Liveness under fairness is beyond the proof system.

## 7. Not modelled, and the plan

Out of scope: rendering, capture, the fixture source, HTTP and WebSocket framing, the
upload of menu reports, the web page, the process wiring.

Not modelled, and why:

* the byte-level decoders and the stream decoder's resynchronisation: a frame is one
  value in every module, accepted or not;
* the poll scheduler's deadlines: arithmetic of one goroutine over the clock;
* the DTR and RTS levels of the wake: a sequence of calls on one handle;
* the normalization of settings and the steps of the file's replacement;
* the fan and menu controllers' mutexes beside `writeMu` and `lifecycleMu`: their modules
  take a method as one step.

Left, in this order:

1. The lock order of controllers, coordinator and port as a small module of its own.
2. The stream decoder as a function checked against a reference.
