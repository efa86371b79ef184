------------------------------ MODULE FanPolicy ------------------------------
(***************************************************************************)
(* fanpolicy.Controller: it watches status and display frames and presses  *)
(* front-panel keys to change, save and verify the amplifier's fan mode.   *)
(*                                                                         *)
(* Every method runs under c.mu, button writes included, so a method is a  *)
(* step.  The amplifier acts on a written key later (line); a frame shows  *)
(* what it displays when the frame is read.  Frames and status frames come *)
(* from one read loop, so an accepted frame is newer than everything the   *)
(* controller remembers: of the generations, what is left is whether one   *)
(* came since a given event.  A deadline is set exactly while a transaction *)
(* is active and not paused, or paused with RX seen.                       *)
(*                                                                         *)
(* Timing assumptions: a key that reaches the amplifier acts well within   *)
(* navigationTimeout (4 s) and before the next request of an operator; so  *)
(* does polling show what the amplifier displays, or it is a disturbance.  *)
(***************************************************************************)
EXTENDS Naturals, Sequences

CONSTANTS
    SetupKeys,      \* the setup screens from the first to the fan entry, in cursor order
    Starts,         \* how the program may start: what is on disk, and its settings
    MaxEvents       \* bound on requests, transmissions, new sessions, restarts and
                    \* everything that goes wrong, together

VARIABLES
    amp,        \* the amplifier: its screen, edited and stored fan mode, OPERATE, TX
    line,       \* keys written and not yet acted on
    nav,        \* c.nav
    ctl,        \* the other fields of the controller
    disk,       \* PersistentState as last saved
    rx,         \* history: what has shown RX since TX was seen in a transaction
    events

vars == <<amp, line, nav, ctl, disk, rx, events>>

Policies == {"normal", "high"}
Models == {"first", "third"}    \* First and Second Series menus, Third Series menus
Setup == {SetupKeys[i] : i \in DOMAIN SetupKeys}

\* The fan pages with their cursor position, and what RIGHT does on each.
NextPage == [scale |-> "fan", fan |-> "save", save |-> "scale",
             thirdQuiet |-> "thirdNormal", thirdNormal |-> "thirdSave",
             thirdSave |-> "thirdQuiet"]
Pages == DOMAIN NextPage
ThirdPages == {"thirdQuiet", "thirdNormal", "thirdSave"}
FanPage == [first |-> "scale", third |-> "thirdQuiet"]
ThirdSelection == [normal |-> "thirdQuiet", high |-> "thirdNormal"]
OtherScreens == {"home", "elsewhere", "storing", "thirdStoring"} \cup Pages
Screens == OtherScreens \cup Setup

\* The setup screens are different from each other and from every other screen.
ASSUME FanAssumption ==
    /\ SetupKeys \in Seq(STRING) /\ Len(SetupKeys) > 1
    /\ \A i, j \in DOMAIN SetupKeys : SetupKeys[i] = SetupKeys[j] => i = j
    /\ Setup \cap (OtherScreens \cup {"none"}) = {}
    /\ MaxEvents \in Nat

NoScreen == [at |-> "none", policy |-> "none"]
NoFrame == [at |-> "none", policy |-> "none", tx |-> "unknown", oper |-> "unknown"]
NoStatus == [recent |-> FALSE, tx |-> "unknown", oper |-> "unknown", model |-> "none"]
NoPassive == [phase |-> "none", policy |-> "unknown", third |-> FALSE]
NoNav == [mode |-> "idle", model |-> "none", step |-> "none", index |-> 1,
          target |-> "unknown", observed |-> "unknown", prev |-> NoScreen,
          expected |-> "none", paused |-> FALSE, rxSeen |-> FALSE, restore |-> FALSE,
          verifyOnly |-> FALSE, exitTried |-> FALSE,
          newFrame |-> FALSE]
NoSave == [override |-> "unknown", timer |-> "none", policy |-> "unknown", model |-> "none"]

\* What the transport, the coordinator and the disk answer during a step: a key
\* is written, written and lost, written but reported as failed, or not written.
Good == [send |-> "sent", save |-> TRUE, granted |-> TRUE, hold |-> FALSE]
Answers == {Good} \cup {[Good EXCEPT !.send = r] : r \in {"lost", "unconfirmed", "refused"}}
               \cup {[Good EXCEPT !.save = FALSE], [Good EXCEPT !.granted = FALSE],
                     [Good EXCEPT !.hold = TRUE]}
SaveAnswers == {Good, [Good EXCEPT !.save = FALSE]}
Fails(io) == io # Good
Event(happens) == events' = events + (IF happens THEN 1 ELSE 0) /\ events' <= MaxEvents

\* What a method works on; Becomes installs what it leaves.
World == [nav |-> nav, ctl |-> ctl, disk |-> disk, line |-> line]
Becomes(left) == \E s \in {left} :
                    nav' = s.nav /\ ctl' = s.ctl /\ disk' = s.disk /\ line' = s.line

Active(s) == s.nav.mode = "active"
Screen(s) == [at |-> s.ctl.lcd.at, policy |-> s.ctl.lcd.policy]
AtHome(s, oper) == s.ctl.lcd.at = "home" /\ s.ctl.lcd.oper = oper

-----------------------------------------------------------------------------
(* Evaluate and the blocks.                                                *)

ControlActive(c) == c.enabled \/ c.override # "unknown" \/ c.verify # "none"

\* The policy Evaluate asks for; band says where the temperature is, and "between"
\* keeps the previous answer.
Desired(c, band) ==
    IF c.override # "unknown" THEN c.override
    ELSE IF c.verify = "none" /\ band # "between" THEN band
    ELSE c.desired

\* actionBlocks without "rx"; operating states that are neither, profiles that are not
\* supported and overtemperature act like an unknown TX.
ActionBlocked(st) ==
    \/ ~st.recent \/ st.tx = "unknown"
    \/ st.model \notin Models
    \/ st.model = "third" /\ st.oper # "standby"

\* fatalNavigationBlocks(navigationBlocksLocked): every block but RX ones.
Fatal(s) ==
    LET st == s.ctl.st IN
    \/ ActionBlocked(st)
    \/ /\ Active(s)
       /\ \/ st.model # s.nav.model \/ ~s.ctl.statusHere
          \/ /\ s.nav.step \notin {"none", "standby:status", "restore:status",
                                   "restore:display"}
             /\ st.oper # "standby"

PauseBlock(s) == s.ctl.st.tx = "tx" \/ s.ctl.lcd.tx # "rx"

\* applyCooldownLocked: Normal waits after a verified High and after a start.
Cooling(s) ==
    /\ s.ctl.desired = "normal" /\ s.ctl.override # "normal"
    /\ s.ctl.heldHigh \/ (s.ctl.heldStart /\ ~s.ctl.live)

-----------------------------------------------------------------------------
(* Bookkeeping shared by the methods.                                      *)

\* persistentStateLocked
Saved(c) == [override |-> c.override,
             timer |-> IF c.override = "unknown" THEN "none" ELSE c.timer,
             policy |-> c.policy, model |-> c.model]

Persist(s, io) ==
    IF io.save THEN [s EXCEPT !.disk = Saved(s.ctl), !.ctl.saveFailed = FALSE]
               ELSE [s EXCEPT !.ctl.saveFailed = TRUE]

\* failLocked, and what completes a transaction: what is left of it is reported
\* but not used again.
Ended(n, mode) == [NoNav EXCEPT !.mode = mode, !.model = n.model]
Fail(s) == [s EXCEPT !.nav = Ended(@, "failed")]

\* Fault: a transmission does not pause the transaction.
PauseFault(s) == s

\* pauseLocked
Pause(s) == IF Active(s) THEN [s EXCEPT !.nav.paused = TRUE, !.nav.rxSeen = FALSE] ELSE s

ForgetComplete(s) == IF s.nav.mode = "complete" THEN [s EXCEPT !.nav = NoNav] ELSE s

\* clearVerifiedPolicyLocked
ClearVerified(s) == [s EXCEPT !.ctl.policy = "unknown", !.ctl.live = FALSE,
                              !.ctl.model = "none", !.ctl.heldHigh = FALSE]

\* recordVerifiedPolicyLocked; a timed manual override starts to run now.
RecordVerified(s, policy, manual, io) ==
    Persist([s EXCEPT
        !.ctl.policy = policy, !.ctl.live = TRUE,
        !.ctl.model = IF s.nav.model # "none" THEN s.nav.model ELSE s.ctl.st.model,
        !.ctl.timer = IF manual /\ @ = "set" THEN "running" ELSE @,
        !.ctl.heldHigh = policy = "high"], io)

\* Fault: an expired override is not saved.
ExpireFault(s, expired, io) ==
    IF expired /\ s.ctl.override # "unknown" /\ s.ctl.timer = "running"
    THEN ForgetComplete([s EXCEPT !.ctl.override = "unknown", !.ctl.timer = "none",
                                  !.ctl.desired = "unknown"])
    ELSE s

\* expireOverrideLocked
Expire(s, expired, io) ==
    IF expired /\ s.ctl.override # "unknown" /\ s.ctl.timer = "running"
    THEN Persist(ForgetComplete([s EXCEPT !.ctl.override = "unknown", !.ctl.timer = "none",
                                          !.ctl.desired = "unknown"]), io)
    ELSE s

\* Writing a key: io says how it ends.
Write(s, name, io) ==
    LET written == IF io.send \in {"sent", "unconfirmed"}
                   THEN [s EXCEPT !.line = Append(@, [name |-> name, at |-> s.ctl.lcd.at,
                                        policy |-> s.ctl.lcd.policy, oper |-> s.ctl.lcd.oper])]
                   ELSE s
    IN  IF io.send \in {"sent", "lost"} THEN written ELSE Fail(written)

\* sendLocked
Send(s, name, step, io) ==
    IF Fatal(s) THEN Fail(s)
    ELSE IF PauseBlock(s) THEN Pause(s)
    ELSE Write([s EXCEPT !.nav.step = step, !.nav.prev = Screen(s),
                         !.ctl.mayBeInMenu = @ \/ (name = "set" /\ s.ctl.lcd.at = "home")],
               name, io)

\* sendControlLocked: OPERATE is a toggle; status and LCD must agree on the state.
SendControl(s, expected, io) ==
    IF Fatal(s) THEN Fail(s)
    ELSE IF PauseBlock(s) THEN Pause(s)
    ELSE IF s.ctl.st.oper # expected \/ s.ctl.lcd.oper # expected THEN Fail(s)
    ELSE Write(s, "operate", io)

\* startVerifiedSetupExitLocked: one DISPLAY key, only from a setup screen of a
\* profile it was verified for and only when verifying after a start.
MayExit(s) ==
    /\ Active(s) /\ ~s.nav.exitTried /\ s.nav.verifyOnly /\ s.ctl.verify = "startup"
    /\ s.nav.model = "first" /\ s.nav.step = "setup" /\ s.ctl.lcd.at \in Setup

GiveUp(s, io) ==
    IF ~MayExit(s) THEN Fail(s)
    ELSE IF PauseBlock(s) /\ ~Fatal(s) THEN Fail(s)
    ELSE Send([s EXCEPT !.nav.exitTried = TRUE], "display",
              "recover:home", io)

\* unexpectedLocked
Unexpected(s, io) == IF s.ctl.lcd.at \in Setup THEN GiveUp(s, io) ELSE Fail(s)

Complete(s) ==
    [s EXCEPT !.nav = Ended(@, "complete"),
              !.ctl.verify = IF s.nav.verifyOnly THEN "none" ELSE @]

-----------------------------------------------------------------------------
(* A frame during a transaction: advanceLocked and the waypoints before it. *)
(* Each is a relation between the world and what the method leaves.         *)

At(s, screens) == s.ctl.lcd.at \in screens

Waypoint(s, step, ok, t, io) ==
    s.nav.step = step /\ Becomes(IF ok THEN t ELSE Unexpected(s, io))

\* Fault: the screen is not compared with the expected key.
SetupWaypointScreenFault(s, io) ==
    /\ s.nav.step \in {"setup:identify", "setup"}
    /\ \/ /\ s.nav.index < Len(SetupKeys)
          /\ Becomes(Send([s EXCEPT !.nav.index = @ + 1], "right", "setup", io))
       \/ /\ s.nav.index = Len(SetupKeys)
          /\ Becomes(Send(s, "set", FanPage[s.nav.model], io))

\* Fault: the last key is passed instead of entered.
SetupWaypointIndexFault(s, io) ==
    /\ s.nav.step \in {"setup:identify", "setup"}
    /\ IF s.ctl.lcd.at # SetupKeys[s.nav.index] THEN Becomes(Unexpected(s, io))
       ELSE Becomes(Send([s EXCEPT !.nav.index = @ + 1], "right", "setup", io))

\* setup:identify and advanceProfileSetupLocked
SetupWaypoint(s, io) ==
    /\ s.nav.step \in {"setup:identify", "setup"}
    /\ IF s.ctl.lcd.at # SetupKeys[s.nav.index] THEN Becomes(Unexpected(s, io))
       ELSE \/ /\ s.nav.index < Len(SetupKeys)
               /\ Becomes(Send([s EXCEPT !.nav.index = @ + 1], "right", "setup", io))
            \/ /\ s.nav.index = Len(SetupKeys)
               /\ Becomes(Send(s, "set", FanPage[s.nav.model], io))

\* The value shown becomes the target of a verification.
Read(s) == [s EXCEPT !.nav.observed = s.ctl.lcd.policy,
                     !.nav.target = IF s.nav.verifyOnly THEN s.ctl.lcd.policy ELSE @]

\* The TEMP/FANS page of the First and Second Series.
FanPageWaypoint(s, io) ==
    \/ Waypoint(s, "scale", At(s, {"scale"}), Send(s, "right", "fan", io), io)
    \/ Waypoint(s, "fan", At(s, {"fan"}),
                IF s.ctl.lcd.policy = Read(s).nav.target
                THEN Send(Read(s), "right", "save", io)
                ELSE Send(Read(s), "set", "toggled", io), io)
    \/ Waypoint(s, "toggled", At(s, {"fan"}) /\ s.ctl.lcd.policy = s.nav.target,
                Send(s, "right", "save", io), io)
    \/ Waypoint(s, "save", At(s, {"save"}), Send(s, "set", "storing", io), io)

\* The radio page of the Third Series, whose cursor wraps round.
ThirdRight(s, step, io) ==
    Send([s EXCEPT !.nav.expected = NextPage[s.ctl.lcd.at]], "right", step, io)

ThirdTarget(s, io) ==
    IF s.ctl.lcd.policy = s.nav.target THEN ThirdRight(s, "thirdSave", io)
    ELSE IF s.ctl.lcd.at = ThirdSelection[s.nav.target]
         THEN Send(s, "set", "thirdToggled", io)
         ELSE ThirdRight(s, "thirdTarget", io)

ThirdPageWaypoint(s, io) ==
    \/ /\ s.nav.step = "thirdQuiet"     \* third-fan:entry, wherever the cursor is
       /\ Becomes(IF At(s, ThirdPages) THEN ThirdTarget(Read(s), io)
                                       ELSE Unexpected(s, io))
    \/ /\ s.nav.step = "thirdTarget"
       /\ Becomes(IF At(s, {s.nav.expected}) /\ s.ctl.lcd.policy = s.nav.observed
                  THEN ThirdTarget(s, io) ELSE Unexpected(s, io))
    \/ /\ s.nav.step = "thirdToggled"
       /\ Becomes(IF At(s, {ThirdSelection[s.nav.target]}) /\ s.ctl.lcd.policy = s.nav.target
                  THEN ThirdRight(s, "thirdSave", io) ELSE Unexpected(s, io))
    \/ /\ s.nav.step = "thirdSave"
       /\ Becomes(IF ~(At(s, {s.nav.expected}) /\ s.ctl.lcd.policy = s.nav.target)
                  THEN Unexpected(s, io)
                  ELSE IF At(s, {"thirdSave"}) THEN Send(s, "set", "storing", io)
                                               ELSE ThirdRight(s, "thirdSave", io))

\* Home again after SET on SAVE: the target is what is stored.  OPERATE is restored
\* if this transaction left it and the safety controller does not hold.
SavedAtHome(s, io) ==
    LET recorded == RecordVerified([s EXCEPT !.ctl.mayBeInMenu = FALSE], s.nav.target,
                        ~s.nav.verifyOnly /\ s.ctl.override # "unknown", io)
    IN  IF ~s.nav.restore THEN Complete(recorded)
        ELSE IF io.hold THEN Fail(recorded)
        ELSE SendControl([recorded EXCEPT !.nav.step = "restore:status"], "standby", io)

\* STORING DATA! may be too short to be seen.
StoringWaypoint(s, io) ==
    \/ /\ s.nav.step \in {"storing", "home"} /\ AtHome(s, "standby")
       /\ Becomes(SavedAtHome(s, io))
    \/ /\ s.nav.step = "storing" /\ ~AtHome(s, "standby")
       /\ Becomes(IF At(s, {IF s.nav.model = "third" THEN "thirdStoring" ELSE "storing"})
                  THEN [s EXCEPT !.nav.step = "home", !.nav.prev = Screen(s)]
                  ELSE Unexpected(s, io))
    \/ /\ s.nav.step = "home" /\ ~AtHome(s, "standby")
       /\ Becomes(Unexpected(s, io))

\* The home waypoints outside advanceLocked.
HomeWaypoint(s, io) ==
    \/ Waypoint(s, "standby:display", AtHome(s, "standby"),
                Send(s, "set", "setup:identify", io), io)
    \/ Waypoint(s, "restore:display", AtHome(s, "operate"), Complete(s), io)
    \/ /\ s.nav.step = "recover:home"
       /\ Becomes(IF AtHome(s, "standby")
                  THEN [Fail(s) EXCEPT !.nav.newFrame = TRUE, !.ctl.mayBeInMenu = FALSE]
                  ELSE Fail(s))

AwaitsStatus(s) == s.nav.step \in {"standby:status", "restore:status"}
AwaitsHome(s) == s.nav.step \in {"standby:display", "restore:display", "recover:home"}

\* Nothing new to act on: the same screen again, or no policy is wanted now.
NothingNew(s) ==
    \/ Cooling(s)
    \/ s.ctl.desired = "unknown" /\ s.ctl.verify = "none"
    \/ Screen(s) = s.nav.prev

FrameInNavigation(s, io) ==
    IF AwaitsStatus(s) \/ (s.nav.paused /\ ~s.nav.rxSeen) THEN Becomes(s)
    ELSE \E resumed \in {[s EXCEPT !.nav.paused = FALSE]} :
         \/ HomeWaypoint(resumed, io)
         \/ /\ ~AwaitsHome(s)
            /\ IF s.nav.paused \/ ~NothingNew(s)
               THEN \/ SetupWaypoint(resumed, io) \/ FanPageWaypoint(resumed, io)
                    \/ ThirdPageWaypoint(resumed, io) \/ StoringWaypoint(resumed, io)
               ELSE Becomes(s)

-----------------------------------------------------------------------------
(* A frame outside a transaction.                                          *)

Wanted(s) ==
    /\ ~Cooling(s)
    /\ s.ctl.desired # "unknown" \/ s.ctl.verify # "none"
    /\ ~(s.ctl.verify = "none" /\ s.ctl.policy = s.ctl.desired /\ s.ctl.live)
    /\ s.nav.mode # "failed"

Begun(s) == [NoNav EXCEPT !.mode = "active", !.model = s.ctl.st.model,
                          !.verifyOnly = s.ctl.verify # "none", !.target = s.ctl.desired]

\* A home frame starts a transaction, on status and display of the same session
\* and with the actuation lease.
Start(s, io) ==
    LET oper == s.ctl.st.oper
        t == [s EXCEPT !.nav = Begun(s)]
    IN  IF ~(Wanted(s) /\ At(s, {"home"}) /\ s.ctl.statusHere /\ io.granted) THEN s
        ELSE IF ~AtHome(s, oper) THEN Fail(t)
        ELSE IF oper = "operate"
        THEN SendControl([t EXCEPT !.nav.restore = TRUE, !.nav.step = "standby:status"],
                         "operate", io)
        ELSE Send(t, "set", "setup:identify", io)

\* thirdSeriesPassiveStatusBindingAllowedLocked
Binding(s) ==
    LET st == s.ctl.st IN
    st.model = "third" /\ s.ctl.statusHere /\ st.recent /\ st.oper = "standby" /\ st.tx = "rx"

\* observePassiveSaveLocked: somebody changes the mode at the front panel.
Passive(s, io) ==
    LET at == s.ctl.lcd.at
        shown == s.ctl.lcd.policy
        was == s.ctl.passive
        Now(phase, policy, third) ==
            [s EXCEPT !.ctl.passive = [phase |-> phase, policy |-> policy, third |-> third]]
        none == [s EXCEPT !.ctl.passive = NoPassive]
        recorded == RecordVerified(none, was.policy, FALSE, io)
    IN  IF s.ctl.st.model # "third"
        THEN IF at = "fan" THEN Now("fan", shown, FALSE)
             ELSE IF was.third THEN none
             ELSE CASE at = "save" /\ was.phase = "fan" -> Now("save", was.policy, FALSE)
                    [] at = "storing" /\ was.phase = "save" ->
                           Now("storing", was.policy, FALSE)
                    [] at = "home" -> IF was.phase = "storing" THEN recorded ELSE none
                    [] OTHER -> s
        ELSE IF ~(Binding(s) /\ s.ctl.lcd.tx = "rx" /\ s.ctl.lcd.oper = "standby") THEN none
        ELSE CASE (~was.third \/ was.phase = "fan") /\ at \in ThirdPages \ {"thirdSave"} ->
                      Now("fan", shown, TRUE)
               [] was.third /\ was.phase \in {"fan", "save"} /\ at = "thirdSave"
                      /\ shown = was.policy -> Now("save", shown, TRUE)
               [] was.third /\ was.phase \in {"save", "storing"} /\ at = "thirdStoring" ->
                      Now("storing", was.policy, TRUE)
               [] was.third /\ was.phase = "storing" /\ at = "home" -> recorded
               [] OTHER -> none

-----------------------------------------------------------------------------
(* The methods the read loop and its ticker call.                          *)

Displayed == [at |-> amp.at, policy |-> IF amp.at \in Pages THEN amp.shown ELSE "unknown"]

Frame(valid) ==
    [at |-> Displayed.at, policy |-> Displayed.policy,
     tx |-> IF valid THEN amp.tx ELSE "unknown",
     oper |-> IF valid THEN amp.oper ELSE "unknown"]

\* A frame newer than the last one; one without a checksum-valid flag word says
\* nothing about RX and OPERATE.  normalRestoreCooldown has passed when it is looked
\* at (cooled) or later.
ObserveDisplay(valid, cooled, io) ==
    LET seen == [World EXCEPT !.ctl.lcd = Frame(valid),
                              !.ctl.heldHigh = @ /\ ~cooled, !.ctl.heldStart = @ /\ ~cooled,
                              !.nav.newFrame = nav.mode = "failed"]
    IN  /\ ctl.session /\ cooled => Cooling(World)
        /\ Event(~valid \/ Fails(io))
        /\ \E s \in {IF Active(seen) THEN seen ELSE Passive(seen, io)} :
              IF ~ControlActive(s.ctl) \/ Fatal(s)
              THEN Becomes(IF Active(s) THEN Fail(s) ELSE s)
              ELSE IF PauseBlock(s) THEN Becomes(Pause(s))
              ELSE IF Active(s) THEN FrameInNavigation(s, io) ELSE Becomes(Start(s, io))
        /\ rx' = IF nav.mode # "active" THEN "both"
                 ELSE IF Frame(valid).tx # "rx" THEN "none"
                 ELSE IF rx = "none" THEN "none" ELSE "both"
        /\ UNCHANGED amp

\* The same generation again.
ObserveOldDisplay ==
    /\ ctl.session /\ nav.mode # "active"
    /\ ctl' = [ctl EXCEPT !.passive = NoPassive]
    /\ UNCHANGED <<amp, line, nav, disk, rx, events>>

\* The switch of observe: what the settings and the temperature ask for.
Decide(s, band) ==
    LET wanted == Desired(s.ctl, band) IN
    IF ~ControlActive(s.ctl)
    THEN [s EXCEPT !.ctl.desired = "unknown",
                   !.nav = IF s.nav.mode = "failed" THEN @ ELSE NoNav]
    ELSE IF ~s.ctl.st.recent
    THEN LET t == [s EXCEPT !.ctl.desired = "unknown"] IN IF Active(t) THEN Fail(t) ELSE t
    ELSE LET t == [s EXCEPT !.ctl.desired = wanted] IN
         IF s.ctl.desired \notin {"unknown", wanted} THEN ForgetComplete(t) ELSE t

\* Status RX after a pause, or the operating state that was asked for.
StatusInNavigation(s) ==
    IF ~Active(s) THEN s
    ELSE IF Fatal(s) THEN Fail(s)
    ELSE IF s.ctl.st.tx = "tx" THEN Pause(s)
    ELSE IF AwaitsStatus(s)
    THEN LET want == IF s.nav.step = "standby:status" THEN "standby" ELSE "operate"
             next == IF s.nav.step = "standby:status" THEN "standby:display"
                                                      ELSE "restore:display"
         IN  [s EXCEPT !.nav.paused = FALSE,
                       !.nav.step = IF s.ctl.st.oper = want THEN next ELSE @]
    ELSE [s EXCEPT !.nav.rxSeen = s.nav.paused]

DropThird(s) ==
    IF s.ctl.passive.third /\ ~Binding(s) THEN [s EXCEPT !.ctl.passive = NoPassive] ELSE s

\* observe, for a status frame of the current session.
ObserveStatus(tx, band, expired, io) ==
    LET st == [recent |-> TRUE, tx |-> tx, oper |-> amp.oper, model |-> amp.model]
        heard == [Expire(World, expired, io) EXCEPT !.ctl.st = st, !.ctl.statusHere = TRUE]
        named == IF heard.ctl.model \in {"none", amp.model} THEN heard
                 ELSE Persist(ClearVerified(heard), io)
    IN  /\ ctl.session
        /\ Event(tx = "unknown" \/ Fails(io))
        /\ \E s \in {DropThird(named)} : \E decided \in {Decide(s, band)} :
              Becomes(StatusInNavigation(decided))
        /\ rx' = IF nav.mode # "active" THEN "both"
                 ELSE IF tx # "rx" THEN "none"
                 ELSE IF rx = "none" THEN "status" ELSE rx
        /\ UNCHANGED amp

\* observe with the cached status.
UpdateSettings(enabled, band, expired, io) ==
    LET s == Decide(DropThird([Expire(World, expired, io) EXCEPT !.ctl.enabled = enabled]),
                    band)
    IN  Becomes(IF ~Active(s) THEN s
                ELSE IF Fatal(s) THEN Fail(s)
                ELSE IF s.ctl.st.tx = "tx" THEN Pause(s) ELSE s)

\* Fault: a transaction goes on over the new session.
ObserveSerialSessionFault(io) ==
    LET fresh == [World EXCEPT !.ctl.session = TRUE, !.ctl.statusHere = TRUE,
                               !.ctl.passive = NoPassive]
    IN  Becomes(IF ctl.live THEN Persist(ClearVerified(fresh), io) ELSE fresh)

\* A new port was opened: what was seen before belongs to another session.
ObserveSerialSession(io) ==
    LET fresh == [World EXCEPT !.ctl.session = TRUE, !.ctl.statusHere = FALSE,
                               !.ctl.lcd = NoFrame, !.ctl.passive = NoPassive]
        stopped == IF Active(fresh) THEN Fail(fresh) ELSE fresh
    IN  Becomes(IF ctl.live THEN Persist(ClearVerified(stopped), io) ELSE stopped)

\* The contact ticker; late says that the deadline has passed.
CaughtUp == ctl.lcd = Frame(TRUE) /\ ctl.st.oper = amp.oper /\ ctl.st.tx = amp.tx

\* Fault: only a pause has a deadline.
TickFault(late, expired, io) ==
    LET s == Expire(World, expired, io) IN
    /\ late => line = <<>>
    /\ Event((late /\ ~CaughtUp) \/ Fails(io))
    /\ Becomes(IF ~Active(s) THEN s
               ELSE IF Fatal(s) THEN Fail(s)
               ELSE IF late /\ s.nav.paused /\ s.nav.rxSeen THEN GiveUp(s, io)
               ELSE s)
    /\ UNCHANGED <<amp, rx>>

Tick(late, expired, io) ==
    LET s == Expire(World, expired, io) IN
    /\ late => line = <<>>
    /\ Event((late /\ ~CaughtUp) \/ Fails(io))
    /\ Becomes(IF ~Active(s) THEN s
               ELSE IF Fatal(s) THEN Fail(s)
               ELSE IF late /\ (s.nav.paused => s.nav.rxSeen) THEN GiveUp(s, io)
               ELSE s)
    /\ UNCHANGED <<amp, rx>>

-----------------------------------------------------------------------------
(* The requests of operators, and starting.                                *)

Requested == Event(TRUE) /\ line = <<>>

SetManualOverride(policy, timer, io) ==
    /\ Requested
    /\ nav.mode \notin {"active", "failed"}
    /\ policy = "unknown" => timer = "none"
    /\ Becomes(Persist(ForgetComplete([World EXCEPT
           !.ctl.override = policy, !.ctl.timer = timer, !.ctl.desired = "unknown",
           !.ctl.verify = IF policy = "unknown" THEN @ ELSE "none"]), io))
    /\ UNCHANGED <<amp, rx>>

RequestVerification ==
    /\ Requested
    /\ nav.mode \notin {"active", "failed"}
    /\ Becomes(ForgetComplete([World EXCEPT !.ctl.verify = "api",
                                            !.ctl.desired = "unknown"]))
    /\ UNCHANGED <<amp, rx>>

\* Settings are saved; with the settings it has, also after every request and when
\* the ticker finds that contact was lost.
SaveSettings(enabled, band, expired, io) ==
    /\ enabled # ctl.enabled => line = <<>>
    /\ Event(enabled # ctl.enabled \/ Fails(io))
    /\ UpdateSettings(enabled, band, expired, io)
    /\ UNCHANGED <<amp, rx>>

\* Both status and LCD show STANDBY and RX at home.
SafeHome == /\ ctl.st.recent /\ ctl.st.tx = "rx" /\ ctl.st.oper = "standby"
            /\ ctl.lcd = [at |-> "home", policy |-> "unknown", tx |-> "rx", oper |-> "standby"]

\* The change is taken back when it cannot be saved.
OrTakenBack(t) == Becomes(IF t.ctl.saveFailed THEN [World EXCEPT !.ctl.saveFailed = TRUE]
                                              ELSE t)

Recover(io) ==
    /\ nav.mode = "failed" /\ ~ctl.enabled /\ SafeHome /\ nav.newFrame /\ line = <<>>
    /\ Event(Fails(io))
    /\ OrTakenBack(Persist([World EXCEPT
           !.nav = NoNav, !.ctl.override = "unknown", !.ctl.timer = "none",
           !.ctl.verify = "none", !.ctl.desired = "unknown", !.ctl.mayBeInMenu = FALSE], io))
    /\ UNCHANGED <<amp, rx>>

\* Called when a menu-debug session is armed.
ClearCompletedNormalOverride(io) ==
    /\ ~ctl.enabled /\ ctl.override = "normal" /\ SafeHome
    /\ nav.mode \in {"idle", "complete"} /\ ~ctl.mayBeInMenu /\ ctl.verify = "none"
    /\ ctl.policy = "normal" /\ ctl.live
    /\ Event(Fails(io))
    /\ OrTakenBack(Persist(ForgetComplete([World EXCEPT
           !.ctl.override = "unknown", !.ctl.timer = "none", !.ctl.desired = "unknown"]), io))
    /\ UNCHANGED <<amp, rx>>

\* NewController and ConfigurePersistence.
Started(saved, enabled, verify, expired) ==
    LET gone == expired /\ saved.timer = "running" IN
    [st |-> NoStatus, lcd |-> NoFrame, session |-> FALSE, statusHere |-> FALSE,
     enabled |-> enabled, desired |-> "unknown",
     override |-> IF gone THEN "unknown" ELSE saved.override,
     timer |-> IF gone THEN "none" ELSE saved.timer,
     verify |-> verify, policy |-> saved.policy, live |-> FALSE, model |-> saved.model,
     heldHigh |-> FALSE, heldStart |-> TRUE, mayBeInMenu |-> FALSE,
     passive |-> NoPassive, saveFailed |-> FALSE]

Restart(verify, expired) ==
    /\ Event(TRUE) /\ line = <<>>
    /\ Becomes(Persist([World EXCEPT
           !.nav = NoNav, !.ctl = Started(disk, ctl.enabled, verify, expired)], Good))
    /\ UNCHANGED <<amp, rx>>

-----------------------------------------------------------------------------
(* The amplifier, its operator and time.                                   *)

Shows(at) == amp' = [amp EXCEPT !.at = at]

Flip(policy) == IF policy = "normal" THEN "high" ELSE "normal"

\* What a key does on the screen the amplifier is on.
Acts(key) ==
    \/ key = "operate" /\ amp' = [amp EXCEPT !.oper = IF @ = "standby" THEN "operate"
                                                                      ELSE "standby"]
    \/ key = "display" /\ amp' = [amp EXCEPT !.at = "home", !.shown = amp.stored]
    \/ /\ key = "right"
       /\ IF amp.at \in Pages THEN Shows(NextPage[amp.at])
          ELSE IF amp.at \in Setup
          THEN \E i \in DOMAIN SetupKeys :
                  /\ amp.at = SetupKeys[i]
                  /\ Shows(SetupKeys[IF i = Len(SetupKeys) THEN 1 ELSE i + 1])
          ELSE UNCHANGED amp
    \/ /\ key = "set"
       /\ CASE amp.at = "home" /\ amp.oper = "standby" -> Shows(SetupKeys[1])
            [] amp.at = SetupKeys[Len(SetupKeys)] ->
                   amp' = [amp EXCEPT !.at = FanPage[amp.model], !.shown = amp.stored]
            [] amp.at \in Setup \ {SetupKeys[Len(SetupKeys)]} -> Shows("elsewhere")
            [] amp.at = "fan" -> amp' = [amp EXCEPT !.shown = Flip(@)]
            [] amp.at = "thirdQuiet" -> amp' = [amp EXCEPT !.shown = "normal"]
            [] amp.at = "thirdNormal" -> amp' = [amp EXCEPT !.shown = "high"]
            [] amp.at = "save" -> amp' = [amp EXCEPT !.at = "storing", !.stored = amp.shown]
            [] amp.at = "thirdSave" ->
                   amp' = [amp EXCEPT !.at = "thirdStoring", !.stored = amp.shown]
            [] OTHER -> UNCHANGED amp

AmpActs ==
    /\ line # <<>>
    /\ Acts(Head(line).name)
    /\ line' = Tail(line)
    /\ UNCHANGED <<nav, ctl, disk, rx, events>>

AmpHasStored ==
    /\ amp.at \in {"storing", "thirdStoring"} /\ Shows("home")
    /\ UNCHANGED <<line, nav, ctl, disk, rx, events>>

\* Somebody keys the amplifier.
Transmit ==
    /\ amp' = [amp EXCEPT !.tx = IF @ = "rx" THEN "tx" ELSE "rx"]
    /\ Event(amp.tx = "rx")
    /\ UNCHANGED <<line, nav, ctl, disk, rx>>

\* A hand at the front panel, slow enough for the display polls and not during a
\* transaction; after a failed one it goes home.  Leaving home counts as a request.
PressPanel(key) ==
    /\ nav.mode # "active" /\ line = <<>> /\ Screen(World) = Displayed
    /\ nav.mode # "failed" \/ key = "display"
    /\ Acts(key)
    /\ IF amp.at = "home" THEN Requested ELSE UNCHANGED events
    /\ UNCHANGED <<line, nav, ctl, disk, rx>>

\* The port is opened, maybe again, and maybe on an amplifier that was used, or
\* another one, meanwhile.  What was written and not acted on is lost.
BeginSession(io) ==
    /\ Event(ctl.session \/ Fails(io))
    /\ ObserveSerialSession(io) /\ line = <<>>
    /\ UNCHANGED rx
    /\ \/ UNCHANGED amp
       \/ ctl.session /\ \E m \in Models, p \in Policies :
             amp' = [amp EXCEPT !.model = m, !.at = "home", !.shown = p, !.stored = p]

\* statusContactWindow passes without a status frame.
StatusAges ==
    /\ ctl.st.recent /\ Event(TRUE)
    /\ ctl' = [ctl EXCEPT !.st.recent = FALSE]
    /\ UNCHANGED <<amp, line, nav, disk, rx>>

-----------------------------------------------------------------------------
Oper == {"standby", "operate"}
Tx == {"rx", "tx", "unknown"}
Steps == {"none", "standby:status", "standby:display", "setup:identify", "setup", "scale",
          "fan", "toggled", "save", "thirdQuiet", "thirdTarget", "thirdToggled",
          "thirdSave", "storing", "home", "restore:status", "restore:display",
          "recover:home"}
Chosen == Policies \cup {"unknown"}
Shown == [at : Screens \cup {"none"}, policy : Chosen \cup {"none"}]
Saves == [override : Chosen, timer : {"none", "set", "running"}, policy : Chosen,
          model : Models \cup {"none"}]

\* What may be on disk, and which settings the program may start with.
ASSUME StartAssumption ==
    \A start \in Starts :
        /\ start.disk \in Saves /\ start.enabled \in BOOLEAN
        /\ start.verify \in {"none", "startup"}

Init ==
    /\ amp \in [model : Models, at : {"home"}, shown : Policies, stored : Policies,
                oper : {"standby", "operate"}, tx : {"rx"}]
    /\ amp.shown = amp.stored
    /\ line = <<>> /\ nav = NoNav
    /\ \E start \in Starts :
          /\ ctl = Started(start.disk, start.enabled, start.verify, FALSE)
          /\ disk = Saved(ctl)
    /\ rx = "both" /\ events = 0

Bands == {"normal", "between", "high"}
MayExpire == {FALSE} \cup {ctl.timer = "running"}

Next ==
    \/ AmpActs \/ AmpHasStored \/ Transmit \/ StatusAges
    \/ \E key \in {"set", "right", "display", "operate"} : PressPanel(key)
    \/ ObserveOldDisplay \/ RequestVerification
    \/ \E verify \in {"none", "startup"}, expired \in BOOLEAN : Restart(verify, expired)
    \/ \E valid, cooled \in BOOLEAN, io \in Answers : ObserveDisplay(valid, cooled, io)
    \/ \E late \in BOOLEAN, expired \in MayExpire, io \in Answers : Tick(late, expired, io)
    \/ \E io \in SaveAnswers :
          \/ \E tx \in {amp.tx, "unknown"}, expired \in MayExpire, band \in Bands :
                ObserveStatus(tx, band, expired, io)
          \/ \E policy \in Policies \cup {"unknown"}, timer \in {"none", "set"} :
                SetManualOverride(policy, timer, io)
          \/ \E enabled \in BOOLEAN, expired \in MayExpire, band \in Bands :
                SaveSettings(enabled, band, expired, io)
          \/ Recover(io) \/ ClearCompletedNormalOverride(io) \/ BeginSession(io)

Spec == Init /\ [][Next]_vars

\* The amplifier acts on keys and answers polls, and the ticker runs, also past a
\* deadline; nothing is promised of operators, transmissions and disturbances.
LiveSpec ==
    /\ Spec
    /\ WF_vars(AmpActs) /\ WF_vars(AmpHasStored)
    /\ WF_vars(\E band \in Bands : ObserveStatus(amp.tx, band, FALSE, Good))
    /\ WF_vars(\E cooled \in BOOLEAN : ObserveDisplay(TRUE, cooled, Good))
    /\ WF_vars(Tick(TRUE, FALSE, Good))

-----------------------------------------------------------------------------
\* The types; the index stays within the setup keys of the profile.
TypeOK ==
    /\ amp \in [model : Models, at : Screens, shown : Policies, stored : Policies,
               oper : Oper, tx : {"rx", "tx"}]
    /\ \A i \in DOMAIN line : line[i].name \in {"set", "right", "display", "operate"}
    /\ nav.mode \in {"idle", "active", "failed", "complete"} /\ nav.step \in Steps
    /\ nav.model \in Models \cup {"none"} /\ nav.index \in DOMAIN SetupKeys
    /\ {nav.target, nav.observed} \subseteq Chosen /\ nav.prev \in Shown
    /\ nav.expected \in Pages \cup {"none"}
    /\ {nav.paused, nav.rxSeen, nav.restore, nav.verifyOnly, nav.exitTried, nav.newFrame}
           \subseteq BOOLEAN
    /\ Saved(ctl) \in Saves /\ disk \in Saves
    /\ ctl.desired \in Chosen /\ ctl.verify \in {"none", "startup", "api"}
    /\ rx \in {"none", "status", "both"} /\ events \in 0..MaxEvents

\* A key meets the amplifier on the screen, with the fan mode and in the operating
\* state it was decided on, whatever frames were repeated or lost and whichever key
\* was late or lost.  (The one DISPLAY of a recovery needs any setup screen.)  It is
\* what each waypoint of advanceLocked, and the pauses, are for: SET on another
\* screen would change another setting of the amplifier.
KeyFindsItsScreen ==
    line # <<>> =>
        LET key == Head(line)
        IN  CASE key.name = "operate" -> amp.at = "home" /\ amp.oper = key.oper
              [] key.name = "display" -> amp.at \in Setup
              [] OTHER -> /\ amp.at = key.at
                          /\ amp.at \in Pages => amp.shown = key.policy
                          /\ key.name = "set" => amp.at \notin Setup \
                                                    {SetupKeys[Len(SetupKeys)]}

\* Unless saving failed and is reported, what is on disk is what the controller would
\* save: an expired override, a cleared or a recorded policy never comes back with a
\* restart.
DiskMatchesMemory == ~ctl.saveFailed => disk = Saved(ctl)

\* recordVerifiedPolicyLocked is called with the mode the amplifier has stored,
\* whether a transaction saved it or a hand at the front panel did, and across new
\* sessions.
RecordedPolicyIsStored ==
    [][ctl'.live /\ (ctl'.policy # ctl.policy \/ ~ctl.live)
           => ctl'.policy = amp'.stored]_vars

\* After TX was seen, no key of the transaction is written before both a status
\* frame and then a display frame have shown RX again.  DISPLAY is exempt: when the
\* deadline passes in a pause, it is sent after the status alone.
KeysWaitForFreshRX ==
    [][Len(line') > Len(line) /\ nav.mode = "active"
           /\ line'[Len(line')].name # "display"
               => rx' = "both"]_vars

\* Once transmissions end, every transaction ends, and with it its lease of the
\* panel: a lost key, a frame that never comes and a pause all run into a deadline.
NavigationEnds == <>[](amp.tx = "rx") => []<>(nav.mode # "active")
=============================================================================
