--------------------------- MODULE FanPolicyProofs ---------------------------
(***************************************************************************)
(* Theorems about the fan controller, for any setup menu, any start and    *)
(* any number of events.  A method of the controller is a function of what *)
(* it works on (World); the lemmas say of each part of a method what it    *)
(* preserves.                                                              *)
(***************************************************************************)
EXTENDS FanPolicy, TLAPS

Buttons == {"set", "right", "display", "operate"}
Lcds == [at : Screens \cup {"none"}, policy : Chosen \cup {"none"}, tx : Tx,
         oper : Oper \cup {"unknown"}]
Statuses == [recent : BOOLEAN, tx : Tx, oper : Oper \cup {"unknown"},
             model : Models \cup {"none"}]
Passives == [phase : {"none", "fan", "save", "storing"}, policy : Chosen, third : BOOLEAN]
Navs == [mode : {"idle", "active", "failed", "complete"}, model : Models \cup {"none"},
         step : Steps, index : DOMAIN SetupKeys, target : Chosen, observed : Chosen,
         prev : Shown, expected : Pages \cup {"none"}, paused : BOOLEAN, rxSeen : BOOLEAN,
         restore : BOOLEAN, verifyOnly : BOOLEAN, exitTried : BOOLEAN, newFrame : BOOLEAN]
Ctls == [st : Statuses, lcd : Lcds, session : BOOLEAN, statusHere : BOOLEAN,
         enabled : BOOLEAN, desired : Chosen, override : Chosen,
         timer : {"none", "set", "running"}, verify : {"none", "startup", "api"},
         policy : Chosen, live : BOOLEAN, model : Models \cup {"none"}, heldHigh : BOOLEAN,
         heldStart : BOOLEAN, mayBeInMenu : BOOLEAN, passive : Passives,
         saveFailed : BOOLEAN]
Keys == [name : Buttons, at : Screens \cup {"none"}, policy : Chosen \cup {"none"},
         oper : Oper \cup {"unknown"}]
Worlds == [nav : Navs, ctl : Ctls, disk : Saves, line : Seq(Keys)]
IOs == [send : {"sent", "lost", "unconfirmed", "refused"}, save : BOOLEAN,
        granted : BOOLEAN, hold : BOOLEAN]
Amps == [model : Models, at : Screens, shown : Policies, stored : Policies, oper : Oper,
         tx : {"rx", "tx"}]

\* A fan page shows a policy.
PagesShow(lcd) == lcd.at \in Pages => lcd.policy \in Policies

\* The target of a transaction is known from the start or, in a verification, once it
\* was read.
AfterRead == {"toggled", "save", "thirdTarget", "thirdToggled", "thirdSave", "storing",
              "home"}
TargetKnown(n) ==
    n.mode = "active" =>
        /\ n.model \in Models
        /\ n.target \in Policies \/ n.verifyOnly
        /\ n.step \in AfterRead => n.target \in Policies

\* A world whose types are right, and one whose disk, unless saving failed, has what the
\* controller would save.
Typed(s) == s \in Worlds /\ PagesShow(s.ctl.lcd) /\ TargetKnown(s.nav)
Sound(s) == Typed(s) /\ (~s.ctl.saveFailed => s.disk = Saved(s.ctl))

IInv == Sound(World) /\ amp \in Amps /\ rx \in {"none", "status", "both"}
            /\ events \in 0..MaxEvents

-----------------------------------------------------------------------------
(* What the parts of a method preserve.                                    *)

\* An undisturbed step.
LEMMA GoodTyped == Good \in IOs
BY DEF Good, IOs

\* Another step of the transaction.
LEMMA NavSound ==
    ASSUME NEW s, Sound(s), NEW n \in Navs, TargetKnown(n)
    PROVE  LET t == [s EXCEPT !.nav = n] IN Sound(t) /\ t.nav = n /\ t.ctl = s.ctl
BY DEF Sound, Typed, Worlds

\* A change of what is not saved.
LEMMA CtlSound ==
    ASSUME NEW s, Sound(s), NEW c \in Ctls, PagesShow(c.lcd), Saved(c) = Saved(s.ctl),
           c.saveFailed = s.ctl.saveFailed
    PROVE  LET t == [s EXCEPT !.ctl = c] IN Sound(t) /\ t.nav = s.nav /\ t.ctl = c
BY DEF Sound, Typed, Worlds

\* What would be saved has its type.
LEMMA SavedTyped == ASSUME NEW c \in Ctls PROVE Saved(c) \in Saves
BY DEF Ctls, Saved, Saves

\* After persistLocked the disk has what the controller would save, or it is reported.
LEMMA PersistSound ==
    ASSUME NEW s, Typed(s), NEW io \in IOs
    PROVE  LET t == Persist(s, io)
           IN  Sound(t) /\ t.nav = s.nav /\ t.ctl = [s.ctl EXCEPT !.saveFailed = ~io.save]
<1> DEFINE t == Persist(s, io)
           c == [s.ctl EXCEPT !.saveFailed = ~io.save]
<1>1. c \in Ctls /\ c.lcd = s.ctl.lcd /\ Saved(c) = Saved(s.ctl) /\ Saved(s.ctl) \in Saves
  BY SavedTyped DEF Typed, Worlds, Ctls, IOs, Saved
<1>2. t = IF io.save THEN [s EXCEPT !.disk = Saved(s.ctl), !.ctl = c] ELSE [s EXCEPT !.ctl = c]
  BY DEF Persist, Typed, Worlds, IOs
<1>3. c.saveFailed = ~io.save
  BY DEF Typed, Worlds, Ctls
<1>4. t \in Worlds /\ t.ctl = c /\ t.nav = s.nav /\ (io.save => t.disk = Saved(s.ctl))
  BY <1>1, <1>2 DEF Typed, Worlds, IOs
<1> HIDE DEF t, c
<1> QED BY <1>1, <1>3, <1>4 DEF Sound, Typed, t, c

\* The empty transaction and what is left of one that ended.
LEMMA EndedTyped ==
    ASSUME NEW n \in Navs, NEW mode \in {"failed", "complete"}
    PROVE  /\ Ended(n, mode) \in Navs /\ Ended(n, mode).mode = mode
           /\ TargetKnown(Ended(n, mode)) /\ NoNav \in Navs /\ TargetKnown(NoNav)
<1>1. NoNav \in Navs
  BY FanAssumption DEF NoNav, Navs, NoScreen, Shown, Steps, Chosen
<1>2. NoNav.mode = "idle"
  BY DEF NoNav
<1>3. Ended(n, mode) \in Navs /\ Ended(n, mode).mode = mode
  BY <1>1 DEF Ended, Navs
<1> QED BY <1>1, <1>2, <1>3 DEF TargetKnown

\* failLocked
LEMMA FailSound ==
    ASSUME NEW s, Sound(s)
    PROVE  Sound(Fail(s)) /\ Fail(s).nav.mode = "failed" /\ Fail(s).ctl = s.ctl
<1>1. s.nav \in Navs /\ Fail(s) = [s EXCEPT !.nav = Ended(s.nav, "failed")]
  BY DEF Sound, Typed, Worlds, Fail
<1> QED BY <1>1, EndedTyped, NavSound

\* pauseLocked
LEMMA PauseSound == ASSUME NEW s, Sound(s) PROVE Sound(Pause(s)) /\ Pause(s).ctl = s.ctl
<1> DEFINE n == [s.nav EXCEPT !.paused = TRUE, !.rxSeen = FALSE]
<1>1. s \in Worlds /\ s.nav \in Navs /\ TargetKnown(s.nav)
  BY DEF Sound, Typed, Worlds
<1>2. n \in Navs /\ TargetKnown(n)
  BY <1>1 DEF Navs, TargetKnown
<1>3. Pause(s) = IF Active(s) THEN [s EXCEPT !.nav = n] ELSE s
  BY <1>1 DEF Pause, Worlds
<1> HIDE DEF n
<1> QED BY <1>2, <1>3, NavSound

\* A completed transaction is forgotten.
LEMMA ForgetSound ==
    ASSUME NEW s, Typed(s)
    PROVE  /\ Typed(ForgetComplete(s)) /\ ForgetComplete(s).ctl = s.ctl
           /\ Sound(s) => Sound(ForgetComplete(s))
<1>1. ForgetComplete(s) = IF s.nav.mode = "complete" THEN [s EXCEPT !.nav = NoNav] ELSE s
  BY DEF ForgetComplete
<1>2. NoNav \in Navs /\ TargetKnown(NoNav)
  BY EndedTyped DEF Typed, Worlds
<1> QED BY <1>1, <1>2 DEF Typed, Worlds, Sound

\* clearVerifiedPolicyLocked, before it is saved
LEMMA ClearTyped == ASSUME NEW s, Typed(s) PROVE Typed(ClearVerified(s))
<1> DEFINE c == [s.ctl EXCEPT !.policy = "unknown", !.live = FALSE, !.model = "none",
                              !.heldHigh = FALSE]
<1>1. c \in Ctls /\ c.lcd = s.ctl.lcd
  BY ZenonT(60) DEF Typed, Worlds, Ctls, Chosen
<1>2. ClearVerified(s) = [s EXCEPT !.ctl = c]
  BY DEF ClearVerified, Typed, Worlds
<1> HIDE DEF c
<1> QED BY <1>1, <1>2 DEF Typed, Worlds

\* recordVerifiedPolicyLocked
LEMMA RecordSound ==
    ASSUME NEW s, Typed(s), NEW policy \in Chosen, NEW manual \in BOOLEAN, NEW io \in IOs
    PROVE  LET t == RecordVerified(s, policy, manual, io)
           IN  Sound(t) /\ t.nav = s.nav /\ t.ctl.lcd = s.ctl.lcd
<1> DEFINE model == IF s.nav.model # "none" THEN s.nav.model ELSE s.ctl.st.model
           timer == IF manual /\ s.ctl.timer = "set" THEN "running" ELSE s.ctl.timer
           high == policy = "high"
           c == [s.ctl EXCEPT !.policy = policy, !.live = TRUE, !.model = model,
                              !.timer = timer, !.heldHigh = high]
           u == [s EXCEPT !.ctl = c]
<1>1. model \in Models \cup {"none"} /\ timer \in {"none", "set", "running"} /\ high \in BOOLEAN
  BY DEF Typed, Worlds, Navs, Ctls, Statuses
<1>2. c \in Ctls /\ c.lcd = s.ctl.lcd
  <2> HIDE DEF model, timer, high
  <2> QED BY <1>1 DEF Typed, Worlds, Ctls
<1>3. RecordVerified(s, policy, manual, io) = Persist(u, io)
  BY DEF RecordVerified, Typed, Worlds
<1>4. Typed(u) /\ u.nav = s.nav /\ u.ctl = c
  <2> HIDE DEF c
  <2> QED BY <1>2 DEF Typed, Worlds
<1>5. Sound(Persist(u, io)) /\ Persist(u, io).nav = u.nav
      /\ Persist(u, io).ctl = [u.ctl EXCEPT !.saveFailed = ~io.save]
  BY <1>4, PersistSound
<1>6. Persist(u, io).ctl.lcd = c.lcd
  <2> HIDE DEF c, u
  <2> QED BY <1>2, <1>4, <1>5 DEF Ctls
<1> HIDE DEF c, u
<1> QED BY <1>2, <1>3, <1>4, <1>5, <1>6

\* expireOverrideLocked
LEMMA ExpireSound ==
    ASSUME NEW s, Sound(s), NEW expired \in BOOLEAN, NEW io \in IOs
    PROVE  Sound(Expire(s, expired, io))
<1> DEFINE c == [s.ctl EXCEPT !.override = "unknown", !.timer = "none",
                              !.desired = "unknown"]
           u == [s EXCEPT !.ctl = c]
<1>1. c \in Ctls /\ c.lcd = s.ctl.lcd
  BY DEF Sound, Typed, Worlds, Ctls, Chosen
<1>2. Typed(u)
  <2> HIDE DEF c
  <2> QED BY <1>1 DEF Sound, Typed, Worlds
<1>3. Expire(s, expired, io) \in {s, Persist(ForgetComplete(u), io)}
  BY DEF Expire, Sound, Typed, Worlds
<1> HIDE DEF u
<1> QED BY <1>2, <1>3, ForgetSound, PersistSound

\* A key that is written; when that fails, so does the transaction.
LEMMA WriteSound ==
    ASSUME NEW s, Sound(s), NEW name \in Buttons, NEW io \in IOs
    PROVE  Sound(Write(s, name, io))
<1> DEFINE key == [name |-> name, at |-> s.ctl.lcd.at, policy |-> s.ctl.lcd.policy,
                   oper |-> s.ctl.lcd.oper]
           u == [s EXCEPT !.line = Append(s.line, key)]
<1>1. key \in Keys /\ s.line \in Seq(Keys)
  BY DEF Sound, Typed, Worlds, Ctls, Lcds, Keys
<1>2. Append(s.line, key) \in Seq(Keys)
  BY <1>1
<1>3. Sound(u)
  <2> HIDE DEF key
  <2> QED BY <1>2 DEF Sound, Typed, Worlds
<1>4. Write(s, name, io) \in {s, u, Fail(s), Fail(u)}
  BY DEF Write
<1> HIDE DEF u
<1> QED BY <1>3, <1>4, FailSound

\* sendLocked
LEMMA SendSound ==
    ASSUME NEW s, Sound(s), NEW name \in Buttons, NEW step \in Steps, NEW io \in IOs,
           step \in AfterRead => s.nav.target \in Policies
    PROVE  Sound(Send(s, name, step, io))
<1> DEFINE n == [s.nav EXCEPT !.step = step, !.prev = Screen(s)]
           c == [s.ctl EXCEPT !.mayBeInMenu = @ \/ (name = "set" /\ s.ctl.lcd.at = "home")]
           u == [s EXCEPT !.nav = n]
           v == [u EXCEPT !.ctl = c]
<1>1. Screen(s) \in Shown
  BY DEF Screen, Shown, Sound, Typed, Worlds, Ctls, Lcds
<1>2. n \in Navs /\ TargetKnown(n)
  BY <1>1 DEF Sound, Typed, Worlds, Navs, TargetKnown
<1>3. /\ c \in Ctls /\ PagesShow(c.lcd) /\ Saved(c) = Saved(s.ctl)
      /\ c.saveFailed = s.ctl.saveFailed
  BY DEF Sound, Typed, Worlds, Ctls, Saved
<1>4. Sound(u) /\ u.ctl = s.ctl
  <2> HIDE DEF n
  <2> QED BY <1>2, NavSound
<1>5. Sound(v)
  <2> HIDE DEF c, u
  <2> QED BY <1>3, <1>4, CtlSound
<1>6. Send(s, name, step, io) \in {Fail(s), Pause(s), Write(v, name, io)}
  <2>1. v = [s EXCEPT !.nav.step = step, !.nav.prev = Screen(s),
                      !.ctl.mayBeInMenu = @ \/ (name = "set" /\ s.ctl.lcd.at = "home")]
    BY DEF Sound, Typed, Worlds
  <2> HIDE DEF v
  <2> QED BY <2>1 DEF Send
<1> HIDE DEF v
<1> QED BY <1>5, <1>6, FailSound, PauseSound, WriteSound

\* sendControlLocked
LEMMA SendControlSound ==
    ASSUME NEW s, Sound(s), NEW expected, NEW io \in IOs
    PROVE  Sound(SendControl(s, expected, io))
BY FailSound, PauseSound, WriteSound DEF SendControl, Buttons

\* startVerifiedSetupExitLocked and unexpectedLocked
LEMMA GiveUpSound ==
    ASSUME NEW s, Sound(s), NEW io \in IOs
    PROVE  Sound(GiveUp(s, io)) /\ Sound(Unexpected(s, io))
<1> DEFINE n == [s.nav EXCEPT !.exitTried = TRUE]
           u == [s EXCEPT !.nav = n]
<1>1. n \in Navs /\ TargetKnown(n)
  BY DEF Sound, Typed, Worlds, Navs, TargetKnown
<1>2. Sound(u)
  <2> HIDE DEF n
  <2> QED BY <1>1, NavSound
<1>3. Sound(Send(u, "display", "recover:home", io))
  <2> HIDE DEF u
  <2> QED BY <1>2, SendSound DEF Buttons, Steps, AfterRead
<1>4. GiveUp(s, io) \in {Fail(s), Send(u, "display", "recover:home", io)}
  BY DEF GiveUp, Sound, Typed, Worlds
<1>5. Sound(GiveUp(s, io))
  BY <1>3, <1>4, FailSound
<1> QED BY <1>5, FailSound DEF Unexpected

\* A transaction that ends well.
LEMMA CompleteSound == ASSUME NEW s, Sound(s) PROVE Sound(Complete(s))
<1> DEFINE c == [s.ctl EXCEPT !.verify = IF s.nav.verifyOnly THEN "none" ELSE @]
           u == [s EXCEPT !.ctl = c]
<1>1. /\ c \in Ctls /\ PagesShow(c.lcd) /\ Saved(c) = Saved(s.ctl)
      /\ c.saveFailed = s.ctl.saveFailed
  BY DEF Sound, Typed, Worlds, Ctls, Saved
<1>2. Sound(u) /\ u.nav = s.nav
  <2> HIDE DEF c
  <2> QED BY <1>1, CtlSound
<1>3. Complete(s) = [u EXCEPT !.nav = Ended(s.nav, "complete")]
  BY DEF Complete, Sound, Typed, Worlds
<1>4. s.nav \in Navs
  BY DEF Sound, Typed, Worlds
<1> HIDE DEF u
<1> QED BY <1>2, <1>3, <1>4, EndedTyped, NavSound

-----------------------------------------------------------------------------
(* A frame during a transaction.                                           *)

\* What a method leaves is the next state.
LEMMA BecomesSound == ASSUME NEW t, Sound(t), Becomes(t) PROVE Sound(World)'
<1>1. t \in Worlds
  BY DEF Sound, Typed
<1>2. World' = t
  BY <1>1 DEF Becomes, World, Worlds
<1> QED BY <1>2

\* A transaction in progress that was shown a frame.
InTransaction(s) == Sound(s) /\ Active(s) /\ s.ctl.lcd.at \in Screens

\* A waypoint where the expected screen is acted on.
LEMMA WaypointSound ==
    ASSUME NEW s, Sound(s), NEW ok, NEW t, ok => Sound(t), NEW io \in IOs,
           Becomes(IF ok THEN t ELSE Unexpected(s, io))
    PROVE  Sound(World)'
<1>1. Sound(IF ok THEN t ELSE Unexpected(s, io))
  BY GiveUpSound
<1> QED BY <1>1, BecomesSound

\* advanceProfileSetupLocked: the index stays within the setup keys.
LEMMA SetupSound ==
    ASSUME NEW s, InTransaction(s), NEW io \in IOs, SetupWaypoint(s, io)
    PROVE  Sound(World)'
<1> USE FanAssumption DEF InTransaction
<1>1. CASE s.ctl.lcd.at # SetupKeys[s.nav.index]
  BY <1>1, GiveUpSound, BecomesSound DEF SetupWaypoint
<1>2. CASE s.nav.index < Len(SetupKeys) /\ Becomes(Send([s EXCEPT !.nav.index = @ + 1], "right", "setup", io))
  <2> DEFINE n == [s.nav EXCEPT !.index = s.nav.index + 1]
             u == [s EXCEPT !.nav = n]
  <2>1. s.nav.index + 1 \in DOMAIN SetupKeys
    BY <1>2 DEF Sound, Typed, Worlds, Navs
  <2>2. n \in Navs /\ TargetKnown(n)
    BY <2>1 DEF Sound, Typed, Worlds, Navs, TargetKnown
  <2>3. Sound(u)
    <3> HIDE DEF n
    <3> QED BY <2>2, NavSound
  <2>4. u = [s EXCEPT !.nav.index = @ + 1]
    BY DEF Sound, Typed, Worlds
  <2> HIDE DEF u
  <2>5. Sound(Send(u, "right", "setup", io))
    BY <2>3, SendSound DEF Buttons, Steps, AfterRead
  <2> QED BY <1>2, <2>4, <2>5, BecomesSound
<1>3. CASE Becomes(Send(s, "set", FanPage[s.nav.model], io))
  <2>1. s.nav.model \in Models
    BY DEF Sound, Typed, TargetKnown, Active
  <2>2. FanPage[s.nav.model] \in {"scale", "thirdQuiet"}
    BY <2>1 DEF FanPage, Models
  <2>3. Sound(Send(s, "set", FanPage[s.nav.model], io))
    BY <2>2, SendSound DEF Buttons, Steps, AfterRead
  <2> QED BY <1>3, <2>3, BecomesSound
<1> QED BY <1>1, <1>2, <1>3 DEF SetupWaypoint

\* The value on a fan page becomes the target of a verification.
LEMMA ReadSound ==
    ASSUME NEW s, InTransaction(s), s.ctl.lcd.at \in Pages
    PROVE  /\ InTransaction(Read(s)) /\ Read(s).ctl = s.ctl /\ Read(s).nav.target \in Policies
<1> DEFINE target == IF s.nav.verifyOnly THEN s.ctl.lcd.policy ELSE s.nav.target
           n == [s.nav EXCEPT !.observed = s.ctl.lcd.policy, !.target = target]
           u == [s EXCEPT !.nav = n]
<1>1. s.ctl.lcd.policy \in Policies /\ target \in Policies
  BY DEF InTransaction, Active, Sound, Typed, PagesShow, TargetKnown
<1>2. n \in Navs /\ TargetKnown(n) /\ n.mode = s.nav.mode /\ n.target = target
  <2> HIDE DEF target
  <2> QED BY <1>1 DEF InTransaction, Sound, Typed, Worlds, Navs, TargetKnown, Chosen
<1>3. Sound(u) /\ u.nav = n /\ u.ctl = s.ctl
  <2> HIDE DEF n
  <2> QED BY <1>2, NavSound DEF InTransaction
<1>4. Read(s) = u
  BY DEF Read, InTransaction, Sound, Typed, Worlds
<1> HIDE DEF n, u, target
<1> QED BY <1>1, <1>2, <1>3, <1>4 DEF InTransaction, Active

\* The TEMP/FANS page.
LEMMA FanPageSound ==
    ASSUME NEW s, InTransaction(s), NEW io \in IOs, FanPageWaypoint(s, io)
    PROVE  Sound(World)'
<1> USE DEF InTransaction, At
<1>1. CASE Waypoint(s, "scale", At(s, {"scale"}), Send(s, "right", "fan", io), io)
  <2>1. Sound(Send(s, "right", "fan", io))
    BY SendSound DEF Buttons, Steps, AfterRead
  <2> QED BY <1>1, <2>1, WaypointSound DEF Waypoint
<1>2. CASE Waypoint(s, "fan", At(s, {"fan"}),
                IF s.ctl.lcd.policy = Read(s).nav.target
                THEN Send(Read(s), "right", "save", io)
                ELSE Send(Read(s), "set", "toggled", io), io)
  <2> DEFINE t == IF s.ctl.lcd.policy = Read(s).nav.target
                  THEN Send(Read(s), "right", "save", io)
                  ELSE Send(Read(s), "set", "toggled", io)
  <2>1. At(s, {"fan"}) => Sound(Read(s)) /\ Read(s).nav.target \in Policies
    BY ReadSound DEF Pages, NextPage
  <2>2. At(s, {"fan"}) => Sound(t)
    BY <2>1, SendSound DEF Buttons, Steps
  <2> HIDE DEF t
  <2> QED BY <1>2, <2>2, WaypointSound DEF Waypoint, t
<1>3. CASE Waypoint(s, "toggled", At(s, {"fan"}) /\ s.ctl.lcd.policy = s.nav.target,
                    Send(s, "right", "save", io), io)
  <2>1. s.nav.step = "toggled"
    BY <1>3 DEF Waypoint
  <2>2. s.nav.target \in Policies
    BY <2>1 DEF Sound, Typed, TargetKnown, Active, AfterRead
  <2>3. "right" \in Buttons /\ "save" \in Steps
    BY DEF Buttons, Steps
  <2>4. Sound(Send(s, "right", "save", io))
    BY <2>2, <2>3, SendSound
  <2> QED BY <1>3, <2>4, WaypointSound DEF Waypoint
<1>4. CASE Waypoint(s, "save", At(s, {"save"}), Send(s, "set", "storing", io), io)
  <2>1. s.nav.step = "save"
    BY <1>4 DEF Waypoint
  <2>2. s.nav.target \in Policies
    BY <2>1 DEF Sound, Typed, TargetKnown, Active, AfterRead
  <2>3. "set" \in Buttons /\ "storing" \in Steps
    BY DEF Buttons, Steps
  <2>4. Sound(Send(s, "set", "storing", io))
    BY <2>2, <2>3, SendSound
  <2> QED BY <1>4, <2>4, WaypointSound DEF Waypoint
<1> QED BY <1>1, <1>2, <1>3, <1>4 DEF FanPageWaypoint

\* RIGHT on the radio page of the Third Series, and what it is pressed for.
LEMMA ThirdTargetSound ==
    ASSUME NEW s, InTransaction(s), s.ctl.lcd.at \in Pages, s.nav.target \in Policies, NEW io \in IOs
    PROVE  /\ \A step \in {"thirdSave", "thirdTarget"} : Sound(ThirdRight(s, step, io))
           /\ Sound(ThirdTarget(s, io))
<1> USE DEF InTransaction
<1> DEFINE n == [s.nav EXCEPT !.expected = NextPage[s.ctl.lcd.at]]
           u == [s EXCEPT !.nav = n]
<1>1. NextPage[s.ctl.lcd.at] \in Pages
  BY DEF Pages, NextPage
<1>2. n \in Navs /\ TargetKnown(n) /\ n.target = s.nav.target
  BY <1>1 DEF Sound, Typed, Worlds, Navs, TargetKnown
<1>3. Sound(u) /\ u.nav = n
  <2> HIDE DEF n
  <2> QED BY <1>2, NavSound
<1>4. u = [s EXCEPT !.nav.expected = NextPage[s.ctl.lcd.at]]
  BY DEF Sound, Typed, Worlds
<1>5. ASSUME NEW step \in {"thirdSave", "thirdTarget"} PROVE Sound(ThirdRight(s, step, io))
  <2> HIDE DEF u, n
  <2>1. Sound(Send(u, "right", step, io))
    BY <1>2, <1>3, SendSound DEF Buttons, Steps
  <2> QED BY <1>4, <2>1 DEF ThirdRight
<1>6. Sound(Send(s, "set", "thirdToggled", io))
  BY SendSound DEF Buttons, Steps
<1>7. Sound(ThirdTarget(s, io))
  BY <1>5, <1>6 DEF ThirdTarget
<1> QED BY <1>5, <1>7

\* The radio page of the Third Series.
LEMMA ThirdPageSound ==
    ASSUME NEW s, InTransaction(s), NEW io \in IOs, ThirdPageWaypoint(s, io)
    PROVE  Sound(World)'
<1> USE FanAssumption DEF InTransaction, At
<1>0. Sound(Unexpected(s, io))
  BY GiveUpSound
<1>1. s.nav.step \in AfterRead => s.nav.target \in Policies
  BY DEF Active, Sound, Typed, TargetKnown
<1>2. CASE /\ s.nav.step = "thirdQuiet"
           /\ Becomes(IF At(s, ThirdPages) THEN ThirdTarget(Read(s), io)
                                           ELSE Unexpected(s, io))
  <2>1. At(s, ThirdPages) => Sound(ThirdTarget(Read(s), io))
    BY ReadSound, ThirdTargetSound DEF ThirdPages, Pages, NextPage
  <2> QED BY <1>0, <1>2, <2>1, BecomesSound
<1>3. CASE /\ s.nav.step = "thirdTarget"
           /\ Becomes(IF At(s, {s.nav.expected}) /\ s.ctl.lcd.policy = s.nav.observed
                      THEN ThirdTarget(s, io) ELSE Unexpected(s, io))
  <2>1. At(s, {s.nav.expected}) => s.ctl.lcd.at \in Pages
    BY DEF Sound, Typed, Worlds, Navs, Screens, OtherScreens, Pages, NextPage
  <2>2. At(s, {s.nav.expected}) => Sound(ThirdTarget(s, io))
    BY <1>1, <1>3, <2>1, ThirdTargetSound DEF AfterRead
  <2> QED BY <1>0, <1>3, <2>2, BecomesSound
<1>4. CASE /\ s.nav.step = "thirdToggled"
           /\ Becomes(IF At(s, {ThirdSelection[s.nav.target]}) /\ s.ctl.lcd.policy = s.nav.target
                      THEN ThirdRight(s, "thirdSave", io) ELSE Unexpected(s, io))
  <2>1. At(s, {ThirdSelection[s.nav.target]}) => s.ctl.lcd.at \in Pages
    BY <1>1, <1>4 DEF AfterRead, Policies, ThirdSelection, Pages, NextPage
  <2>2. At(s, {ThirdSelection[s.nav.target]}) => Sound(ThirdRight(s, "thirdSave", io))
    BY <1>1, <1>4, <2>1, ThirdTargetSound DEF AfterRead
  <2> QED BY <1>0, <1>4, <2>2, BecomesSound
<1>5. CASE /\ s.nav.step = "thirdSave"
           /\ Becomes(IF ~(At(s, {s.nav.expected}) /\ s.ctl.lcd.policy = s.nav.target)
                      THEN Unexpected(s, io)
                      ELSE IF At(s, {"thirdSave"}) THEN Send(s, "set", "storing", io)
                                                   ELSE ThirdRight(s, "thirdSave", io))
  <2>1. At(s, {s.nav.expected}) => s.ctl.lcd.at \in Pages
    BY DEF Sound, Typed, Worlds, Navs, Screens, OtherScreens, Pages, NextPage
  <2>2. At(s, {s.nav.expected}) => Sound(ThirdRight(s, "thirdSave", io))
    BY <1>1, <1>5, <2>1, ThirdTargetSound DEF AfterRead
  <2>3. Sound(Send(s, "set", "storing", io))
    BY <1>1, <1>5, SendSound DEF Buttons, Steps, AfterRead
  <2> QED BY <1>0, <1>5, <2>2, <2>3, BecomesSound
<1> QED BY <1>2, <1>3, <1>4, <1>5 DEF ThirdPageWaypoint

\* What was stored is recorded, and the transaction ends or restores OPERATE.
LEMMA StoringSound ==
    ASSUME NEW s, InTransaction(s), NEW io \in IOs, StoringWaypoint(s, io)
    PROVE  Sound(World)'
<1> USE DEF InTransaction
<1>0. Sound(Unexpected(s, io))
  BY GiveUpSound
<1>1. Sound(SavedAtHome(s, io))
  <2> DEFINE c == [s.ctl EXCEPT !.mayBeInMenu = FALSE]
             u == [s EXCEPT !.ctl = c]
             manual == ~s.nav.verifyOnly /\ s.ctl.override # "unknown"
             r == RecordVerified(u, s.nav.target, manual, io)
             n == [r.nav EXCEPT !.step = "restore:status"]
             v == [r EXCEPT !.nav = n]
  <2>1. c \in Ctls /\ PagesShow(c.lcd) /\ Saved(c) = Saved(s.ctl) /\ c.saveFailed = s.ctl.saveFailed
    BY DEF Sound, Typed, Worlds, Ctls, Saved
  <2>2. Sound(u) /\ u.nav = s.nav
    <3> HIDE DEF c
    <3> QED BY <2>1, CtlSound
  <2>3. manual \in BOOLEAN /\ s.nav.target \in Chosen
    BY DEF Sound, Typed, Worlds, Navs
  <2>4. Sound(r) /\ r.nav = s.nav
    <3> HIDE DEF u, manual
    <3> QED BY <2>2, <2>3, RecordSound DEF Sound
  <2>5. Sound(v)
    <3>1. n \in Navs /\ TargetKnown(n)
      <4> HIDE DEF r
      <4> QED BY <2>4 DEF Sound, Typed, Worlds, Navs, TargetKnown, Steps, AfterRead
    <3> HIDE DEF n, r
    <3> QED BY <2>4, <3>1, NavSound
  <2>6. SavedAtHome(s, io) \in {Complete(r), Fail(r), SendControl(v, "standby", io)}
    <3>1. u = [s EXCEPT !.ctl.mayBeInMenu = FALSE]
      BY DEF Sound, Typed, Worlds
    <3>2. v = [r EXCEPT !.nav.step = "restore:status"]
      <4> HIDE DEF r
      <4> QED BY <2>4 DEF Sound, Typed, Worlds
    <3> HIDE DEF u, v
    <3> QED BY <3>1, <3>2 DEF SavedAtHome
  <2> HIDE DEF r, v
  <2> QED BY <2>4, <2>5, <2>6, CompleteSound, FailSound, SendControlSound
<1>2. CASE s.nav.step = "storing"
  <2> DEFINE n == [s.nav EXCEPT !.step = "home", !.prev = Screen(s)]
             u == [s EXCEPT !.nav = n]
  <2>1. Screen(s) \in Shown
    BY DEF Screen, Shown, Sound, Typed, Worlds, Ctls, Lcds
  <2>2. n \in Navs /\ TargetKnown(n)
    BY <1>2, <2>1 DEF Sound, Typed, Worlds, Navs, TargetKnown, Steps, AfterRead
  <2>3. Sound(u)
    <3> HIDE DEF n
    <3> QED BY <2>2, NavSound
  <2>4. u = [s EXCEPT !.nav.step = "home", !.nav.prev = Screen(s)]
    BY DEF Sound, Typed, Worlds
  <2> HIDE DEF u
  <2> QED BY <1>0, <1>1, <1>2, <2>3, <2>4, BecomesSound DEF StoringWaypoint
<1>3. CASE s.nav.step = "home"
  BY <1>0, <1>1, <1>3, BecomesSound DEF StoringWaypoint
<1> QED BY <1>2, <1>3 DEF StoringWaypoint

\* The home waypoints.
LEMMA HomeSound ==
    ASSUME NEW s, InTransaction(s), NEW io \in IOs, HomeWaypoint(s, io)
    PROVE  Sound(World)'
<1> USE DEF InTransaction
<1>1. CASE Waypoint(s, "standby:display", AtHome(s, "standby"),
                    Send(s, "set", "setup:identify", io), io)
  <2>1. Sound(Send(s, "set", "setup:identify", io))
    BY SendSound DEF Buttons, Steps, AfterRead
  <2> QED BY <1>1, <2>1, WaypointSound DEF Waypoint
<1>2. CASE Waypoint(s, "restore:display", AtHome(s, "operate"), Complete(s), io)
  BY <1>2, CompleteSound, WaypointSound DEF Waypoint
<1>3. CASE Becomes(IF AtHome(s, "standby")
                   THEN [Fail(s) EXCEPT !.nav.newFrame = TRUE, !.ctl.mayBeInMenu = FALSE]
                   ELSE Fail(s))
  <2> DEFINE f == Fail(s)
             n == [f.nav EXCEPT !.newFrame = TRUE]
             c == [f.ctl EXCEPT !.mayBeInMenu = FALSE]
             u == [f EXCEPT !.nav = n]
             v == [u EXCEPT !.ctl = c]
  <2>1. Sound(f)
    BY FailSound
  <2> HIDE DEF f
  <2>2. n \in Navs /\ TargetKnown(n)
    BY <2>1 DEF Sound, Typed, Worlds, Navs, TargetKnown
  <2>3. /\ c \in Ctls /\ PagesShow(c.lcd) /\ Saved(c) = Saved(f.ctl)
        /\ c.saveFailed = f.ctl.saveFailed
    BY <2>1, ZenonT(60) DEF Sound, Typed, Worlds, Ctls, Saved
  <2>4. Sound(u) /\ u.ctl = f.ctl
    <3> HIDE DEF n
    <3> QED BY <2>1, <2>2, NavSound
  <2>5. Sound(v)
    <3> HIDE DEF c, u
    <3> QED BY <2>3, <2>4, CtlSound
  <2>6. v = [f EXCEPT !.nav.newFrame = TRUE, !.ctl.mayBeInMenu = FALSE]
    BY <2>1 DEF Sound, Typed, Worlds
  <2> HIDE DEF v
  <2> QED BY <1>3, <2>1, <2>5, <2>6, BecomesSound DEF f
<1> QED BY <1>1, <1>2, <1>3 DEF HomeWaypoint

\* A frame during a transaction.
LEMMA FrameSound ==
    ASSUME NEW s, InTransaction(s), NEW io \in IOs, FrameInNavigation(s, io)
    PROVE  Sound(World)'
<1> DEFINE n == [s.nav EXCEPT !.paused = FALSE]
           u == [s EXCEPT !.nav = n]
<1>1. n \in Navs /\ TargetKnown(n) /\ n.mode = s.nav.mode
  BY DEF InTransaction, Sound, Typed, Worlds, Navs, TargetKnown
<1>2. InTransaction(u)
  <2> HIDE DEF n
  <2> QED BY <1>1, NavSound DEF InTransaction, Active
<1>3. u = [s EXCEPT !.nav.paused = FALSE]
  BY DEF InTransaction, Sound, Typed, Worlds
<1> HIDE DEF u
<1>4. CASE Becomes(s)
  BY <1>4, BecomesSound DEF InTransaction
<1>5. CASE HomeWaypoint(u, io)
  BY <1>2, <1>5, HomeSound
<1>6. CASE \/ SetupWaypoint(u, io) \/ FanPageWaypoint(u, io)
           \/ ThirdPageWaypoint(u, io) \/ StoringWaypoint(u, io)
  BY <1>2, <1>6, SetupSound, FanPageSound, ThirdPageSound, StoringSound
<1>7. \/ Becomes(s)
      \/ \E resumed \in {u} :
            \/ HomeWaypoint(resumed, io)
            \/ SetupWaypoint(resumed, io) \/ FanPageWaypoint(resumed, io)
            \/ ThirdPageWaypoint(resumed, io) \/ StoringWaypoint(resumed, io)
  BY <1>3 DEF FrameInNavigation
<1> QED BY <1>4, <1>5, <1>6, <1>7

-----------------------------------------------------------------------------
(* The methods.                                                            *)

\* A transaction starts with a known target, unless it verifies.
LEMMA StartSound ==
    ASSUME NEW s, Sound(s), ~Fatal(s), NEW io \in IOs
    PROVE  Sound(Start(s, io))
<1> USE DEF Sound, Typed, Worlds
<1> DEFINE t == [s EXCEPT !.nav = Begun(s)]
           n == [t.nav EXCEPT !.restore = TRUE, !.step = "standby:status"]
           u == [t EXCEPT !.nav = n]
<1>1. CASE ~Wanted(s)
  BY <1>1 DEF Start
<1>2. CASE Wanted(s)
  <2>1. s.ctl.st.model \in Models
    BY DEF Fatal, ActionBlocked
  <2>2. Begun(s) \in Navs /\ Begun(s).model = s.ctl.st.model /\ Begun(s).step = "none"
        /\ Begun(s).target = s.ctl.desired /\ Begun(s).verifyOnly = (s.ctl.verify # "none")
    <3> DEFINE verifies == s.ctl.verify # "none"
    <3>1. NoNav \in Navs /\ NoNav.step = "none"
      BY EndedTyped DEF NoNav
    <3>2. s.ctl.desired \in Chosen /\ verifies \in BOOLEAN
      BY DEF Ctls
    <3>3. Begun(s) = [NoNav EXCEPT !.mode = "active", !.model = s.ctl.st.model,
                                   !.verifyOnly = verifies, !.target = s.ctl.desired]
      BY DEF Begun
    <3> HIDE DEF verifies
    <3>4. Begun(s) \in Navs /\ Begun(s).verifyOnly = verifies
      BY <2>1, <3>1, <3>2, <3>3, ZenonT(60) DEF Navs
    <3>5. Begun(s).model = s.ctl.st.model /\ Begun(s).step = "none"
          /\ Begun(s).target = s.ctl.desired
      BY <3>1, <3>3 DEF Navs
    <3> QED BY <3>4, <3>5 DEF verifies
  <2>3. TargetKnown(Begun(s))
    BY <1>2, <2>1, <2>2 DEF TargetKnown, Wanted, AfterRead, Chosen, Ctls
  <2>4. Sound(t) /\ t.nav = Begun(s)
    BY <2>2, <2>3, NavSound
  <2>5. n \in Navs /\ TargetKnown(n)
    <3> HIDE DEF t
    <3>1. t.nav \in Navs /\ TargetKnown(t.nav)
      BY <2>2, <2>3, <2>4
    <3>2. n \in Navs
      BY <3>1, ZenonT(60) DEF Navs, Steps
    <3>3. /\ n.mode = t.nav.mode /\ n.target = t.nav.target /\ n.model = t.nav.model
          /\ n.verifyOnly = t.nav.verifyOnly /\ n.step = "standby:status"
      BY <3>1 DEF Navs
    <3> QED BY <3>1, <3>2, <3>3 DEF TargetKnown, AfterRead
  <2>6. Sound(u)
    <3> HIDE DEF n, t
    <3> QED BY <2>4, <2>5, NavSound
  <2>7. u = [t EXCEPT !.nav.restore = TRUE, !.nav.step = "standby:status"]
    <3> HIDE DEF t
    <3> QED BY <2>4
  <2>8. Sound(Send(t, "set", "setup:identify", io)) /\ Sound(Fail(t))
        /\ Sound(SendControl(u, "operate", io))
    <3> HIDE DEF t, u
    <3>1. Sound(Send(t, "set", "setup:identify", io))
      BY <2>4, SendSound DEF Buttons, Steps, AfterRead
    <3> HIDE DEF Sound, Typed, Worlds
    <3> QED BY <2>4, <2>6, <3>1, FailSound, SendControlSound
  <2>9. Start(s, io) \in {s, Fail(t), SendControl(u, "operate", io),
                          Send(t, "set", "setup:identify", io)}
    <3> HIDE DEF u
    <3> QED BY <2>7 DEF Start
  <2> HIDE DEF t, u
  <2> QED BY <2>8, <2>9
<1> QED BY <1>1, <1>2

\* What passive observation remembers, and what it records.
LEMMA PassiveSound ==
    ASSUME NEW s, Sound(s), NEW io \in IOs
    PROVE  Sound(Passive(s, io)) /\ Passive(s, io).nav = s.nav
           /\ Passive(s, io).ctl.lcd = s.ctl.lcd
<1> USE DEF Sound, Typed, Worlds
<1> DEFINE Now(p) == [s EXCEPT !.ctl.passive = p]
           recorded(policy) == RecordVerified(Now(NoPassive), policy, FALSE, io)
<1>1. ASSUME NEW p \in Passives
      PROVE  Sound(Now(p)) /\ Now(p).nav = s.nav /\ Now(p).ctl.lcd = s.ctl.lcd
  <2> DEFINE c == [s.ctl EXCEPT !.passive = p]
  <2>1. /\ c \in Ctls /\ c.lcd = s.ctl.lcd /\ Saved(c) = Saved(s.ctl)
        /\ c.saveFailed = s.ctl.saveFailed
    BY DEF Ctls, Saved
  <2>2. Now(p) = [s EXCEPT !.ctl = c]
    OBVIOUS
  <2> HIDE DEF c, Now
  <2> QED BY <2>1, <2>2, CtlSound
<1>2. NoPassive \in Passives /\ s.ctl.passive \in Passives
  BY DEF NoPassive, Passives, Chosen, Ctls
<1>3. ASSUME NEW policy \in Chosen
      PROVE  /\ Sound(recorded(policy)) /\ recorded(policy).nav = s.nav
             /\ recorded(policy).ctl.lcd = s.ctl.lcd
  <2>1. Typed(Now(NoPassive)) /\ Now(NoPassive).nav = s.nav
        /\ Now(NoPassive).ctl.lcd = s.ctl.lcd
    BY <1>1, <1>2
  <2> HIDE DEF Now
  <2> QED BY <2>1, RecordSound
<1> DEFINE phases == {"none", "fan", "save", "storing"}
           policies == Chosen
<1>4. \A phase \in phases, policy \in Chosen, third \in BOOLEAN :
         [phase |-> phase, policy |-> policy, third |-> third] \in Passives
  BY DEF Passives
<1>5. s.ctl.lcd.at \in Pages => s.ctl.lcd.policy \in Chosen
  BY DEF PagesShow, Chosen
<1>6. s.ctl.passive.policy \in Chosen
  BY <1>2 DEF Passives
<1>7. \/ Passive(s, io) = s
      \/ \E p \in Passives : Passive(s, io) = Now(p)
      \/ \E policy \in Chosen : Passive(s, io) = recorded(policy)
  <2> DEFINE lcd == s.ctl.lcd
             was == s.ctl.passive
             Becoming(phase, policy, third) ==
                Passive(s, io) = Now([phase |-> phase, policy |-> policy, third |-> third])
             kept == /\ Passive(s, io) = s \/ Passive(s, io) = Now(NoPassive)
             saved == Passive(s, io) = recorded(was.policy)
  <2>1. CASE s.ctl.st.model # "third"
    <3>1. CASE lcd.at = "fan"
      <4>1. Becoming("fan", lcd.policy, FALSE)
        BY <2>1, <3>1 DEF Passive
      <4> QED BY <1>4, <1>5, <3>1, <4>1 DEF Pages, NextPage
    <3>2. CASE lcd.at # "fan" /\ was.third
      <4>1. kept
        BY <2>1, <3>2 DEF Passive
      <4> QED BY <1>2, <4>1
    <3>3. CASE lcd.at \in {"save", "storing", "home"} /\ ~was.third
      <4>1. \/ \E phase \in {"save", "storing"} : Becoming(phase, was.policy, FALSE)
            \/ kept \/ saved
        BY <2>1, <3>3 DEF Passive
      <4> QED BY <1>2, <1>4, <1>6, <4>1
    <3>4. CASE lcd.at \notin {"fan", "save", "storing", "home"} /\ ~was.third
      BY <2>1, <3>4 DEF Passive
    <3> QED BY <3>1, <3>2, <3>3, <3>4
  <2>2. CASE s.ctl.st.model = "third"
    <3>1. CASE ~(Binding(s) /\ lcd.tx = "rx" /\ lcd.oper = "standby")
      <4>1. kept
        BY <2>2, <3>1 DEF Passive
      <4> QED BY <1>2, <4>1
    <3>2. CASE Binding(s) /\ lcd.tx = "rx" /\ lcd.oper = "standby"
      <4>1. CASE lcd.at \in ThirdPages
        <5>1. \/ \E phase \in {"fan", "save"} : Becoming(phase, lcd.policy, TRUE)
              \/ kept
          BY <2>2, <3>2, <4>1 DEF Passive, ThirdPages
        <5> QED BY <1>2, <1>4, <1>5, <4>1, <5>1 DEF ThirdPages, Pages, NextPage
      <4>2. CASE lcd.at \notin ThirdPages
        <5>1. Becoming("storing", was.policy, TRUE) \/ kept \/ saved
          BY <2>2, <3>2, <4>2 DEF Passive, ThirdPages
        <5> QED BY <1>2, <1>4, <1>6, <5>1
      <4> QED BY <4>1, <4>2
    <3> QED BY <3>1, <3>2
  <2> QED BY <2>1, <2>2
<1> HIDE DEF Now, recorded
<1> QED BY <1>1, <1>3, <1>7

\* What the frame shows has its type, and the amplifier is on a screen.
LEMMA FrameTyped ==
    ASSUME amp \in Amps, NEW valid \in BOOLEAN
    PROVE  Frame(valid) \in Lcds /\ PagesShow(Frame(valid)) /\ Frame(valid).at \in Screens
<1> DEFINE policy == IF amp.at \in Pages THEN amp.shown ELSE "unknown"
           tx == IF valid THEN amp.tx ELSE "unknown"
           oper == IF valid THEN amp.oper ELSE "unknown"
<1>1. Frame(valid) = [at |-> amp.at, policy |-> policy, tx |-> tx, oper |-> oper]
  BY DEF Frame, Displayed
<1>2. amp.at \in Screens /\ policy \in Chosen /\ tx \in Tx /\ oper \in Oper \cup {"unknown"}
      /\ (amp.at \in Pages => policy \in Policies)
  BY DEF Amps, Chosen, Tx
<1> HIDE DEF policy, tx, oper
<1> QED BY <1>1, <1>2 DEF Lcds, PagesShow

\* A frame, in a transaction and outside.
LEMMA ObserveDisplayIInv ==
    ASSUME IInv, NEW valid \in BOOLEAN, NEW cooled \in BOOLEAN, NEW io \in IOs,
           ObserveDisplay(valid, cooled, io)
    PROVE  IInv'
<1> USE DEF IInv
<1> DEFINE high == ctl.heldHigh /\ ~cooled
           start == ctl.heldStart /\ ~cooled
           new == nav.mode = "failed"
           c == [ctl EXCEPT !.lcd = Frame(valid), !.heldHigh = high, !.heldStart = start]
           n == [nav EXCEPT !.newFrame = new]
           seen == [World EXCEPT !.ctl = c, !.nav = n]
           s == IF Active(seen) THEN seen ELSE Passive(seen, io)
<1>1. nav \in Navs /\ ctl \in Ctls /\ TargetKnown(nav) /\ World.ctl = ctl /\ World.nav = nav
  BY DEF World, Sound, Typed, Worlds
<1>2. high \in BOOLEAN /\ start \in BOOLEAN /\ new \in BOOLEAN
  BY <1>1 DEF Ctls
<1>3. /\ c \in Ctls /\ Saved(c) = Saved(ctl) /\ c.saveFailed = ctl.saveFailed
      /\ c.lcd = Frame(valid) /\ PagesShow(c.lcd)
  <2>1. Frame(valid) \in Lcds /\ PagesShow(Frame(valid))
    BY FrameTyped
  <2> HIDE DEF high, start
  <2>2. c \in Ctls /\ c.lcd = Frame(valid)
    BY <1>1, <1>2, <2>1, ZenonT(60) DEF Ctls
  <2>3. Saved(c) = Saved(ctl) /\ c.saveFailed = ctl.saveFailed
    BY <1>1 DEF Ctls, Saved
  <2> HIDE DEF c
  <2> QED BY <2>1, <2>2, <2>3
<1>4. n \in Navs /\ TargetKnown(n)
  <2> HIDE DEF new
  <2> QED BY <1>1, <1>2 DEF Navs, TargetKnown
<1>5. Sound(seen) /\ seen.ctl = c /\ seen.nav = n
  <2>1. Sound(World) /\ Saved(c) = Saved(World.ctl) /\ c.saveFailed = World.ctl.saveFailed
    BY <1>1, <1>3
  <2> DEFINE t == [World EXCEPT !.ctl = c]
  <2>2. Sound(t) /\ t.ctl = c /\ t.nav = World.nav
    <3> HIDE DEF c, IInv
    <3> QED BY <1>3, <2>1, CtlSound
  <2>3. seen = [t EXCEPT !.nav = n]
    BY DEF World
  <2> HIDE DEF c, n, t, seen, IInv
  <2> QED BY <1>4, <2>2, <2>3, NavSound
<1>6. Sound(s) /\ s.ctl.lcd.at \in Screens
  <2> HIDE DEF seen, c
  <2> QED BY <1>3, <1>5, PassiveSound, FrameTyped
<1>7. seen = [World EXCEPT !.ctl.lcd = Frame(valid),
                           !.ctl.heldHigh = @ /\ ~cooled, !.ctl.heldStart = @ /\ ~cooled,
                           !.nav.newFrame = nav.mode = "failed"]
  BY <1>1, ZenonT(60) DEF World
<1>8. IF ~ControlActive(s.ctl) \/ Fatal(s)
      THEN Becomes(IF Active(s) THEN Fail(s) ELSE s)
      ELSE IF PauseBlock(s) THEN Becomes(Pause(s))
      ELSE IF Active(s) THEN FrameInNavigation(s, io) ELSE Becomes(Start(s, io))
  <2> HIDE DEF seen
  <2> QED BY <1>7 DEF ObserveDisplay
<1>9. Sound(World)'
  <2> HIDE DEF s
  <2>1. CASE Becomes(IF Active(s) THEN Fail(s) ELSE s) \/ Becomes(Pause(s))
    BY <1>6, <2>1, FailSound, PauseSound, BecomesSound
  <2>2. CASE Active(s) /\ FrameInNavigation(s, io)
    BY <1>6, <2>2, FrameSound DEF InTransaction
  <2>3. CASE ~Fatal(s) /\ Becomes(Start(s, io))
    BY <1>6, <2>3, StartSound, BecomesSound
  <2> QED BY <1>8, <2>1, <2>2, <2>3
<1> QED BY <1>9 DEF ObserveDisplay, Event

\* observe decides which policy is wanted.
LEMMA DecideSound ==
    ASSUME NEW s, Sound(s), NEW band \in Bands
    PROVE  Sound(Decide(s, band))
<1> DEFINE With(policy) == [s EXCEPT !.ctl.desired = policy]
<1>1. ASSUME NEW policy \in Chosen PROVE Sound(With(policy))
  <2> DEFINE c == [s.ctl EXCEPT !.desired = policy]
  <2>1. /\ c \in Ctls /\ PagesShow(c.lcd) /\ Saved(c) = Saved(s.ctl)
        /\ c.saveFailed = s.ctl.saveFailed
    BY DEF Sound, Typed, Worlds, Ctls, Saved
  <2>2. With(policy) = [s EXCEPT !.ctl = c]
    BY DEF Sound, Typed, Worlds
  <2> HIDE DEF c, With
  <2> QED BY <2>1, <2>2, CtlSound
<1>2. Desired(s.ctl, band) \in Chosen
  BY DEF Desired, Bands, Chosen, Policies, Sound, Typed, Worlds, Ctls
<1>3. "unknown" \in Chosen /\ NoNav \in Navs /\ TargetKnown(NoNav)
  BY EndedTyped DEF Chosen, Sound, Typed, Worlds
<1>4. Sound([With("unknown") EXCEPT !.nav = NoNav])
  <2> HIDE DEF With
  <2> QED BY <1>1, <1>3, NavSound
<1>5. Decide(s, band) \in {With("unknown"), [With("unknown") EXCEPT !.nav = NoNav],
                           Fail(With("unknown")), With(Desired(s.ctl, band)),
                           ForgetComplete(With(Desired(s.ctl, band)))}
  <2>1. CASE ~ControlActive(s.ctl)
    <3>1. Decide(s, band) = [s EXCEPT !.ctl.desired = "unknown",
                                !.nav = IF s.nav.mode = "failed" THEN s.nav ELSE NoNav]
      BY <2>1 DEF Decide
    <3>2. [s EXCEPT !.ctl.desired = "unknown", !.nav = s.nav] = With("unknown")
      BY DEF Sound, Typed, Worlds
    <3>3. [s EXCEPT !.ctl.desired = "unknown", !.nav = NoNav]
               = [With("unknown") EXCEPT !.nav = NoNav]
      BY DEF Sound, Typed, Worlds
    <3> QED BY <3>1, <3>2, <3>3
  <2>2. CASE ControlActive(s.ctl)
    BY <2>2 DEF Decide
  <2> QED BY <2>1, <2>2
<1> HIDE DEF With
<1> QED BY <1>1, <1>2, <1>3, <1>4, <1>5, FailSound, ForgetSound, ZenonT(60) DEF Sound

\* observeOperatingTransitionLocked, and RX after a pause.
LEMMA StatusSound ==
    ASSUME NEW s, Sound(s)
    PROVE  Sound(StatusInNavigation(s))
<1> DEFINE next == IF s.nav.step = "standby:status" THEN "standby:display"
                                                    ELSE "restore:display"
           want == IF s.nav.step = "standby:status" THEN "standby" ELSE "operate"
           step == IF s.ctl.st.oper = want THEN next ELSE s.nav.step
           n1 == [s.nav EXCEPT !.paused = FALSE, !.step = step]
           n2 == [s.nav EXCEPT !.rxSeen = s.nav.paused]
<1>1. s \in Worlds /\ s.nav \in Navs /\ TargetKnown(s.nav)
  BY DEF Sound, Typed, Worlds
<1>2. AwaitsStatus(s) => n1 \in Navs /\ TargetKnown(n1)
  <2>1. AwaitsStatus(s) => step \in Steps \ AfterRead
    BY DEF AwaitsStatus, Steps, AfterRead
  <2> HIDE DEF step
  <2> QED BY <1>1, <2>1 DEF Navs, TargetKnown
<1>3. n2 \in Navs /\ TargetKnown(n2)
  BY <1>1 DEF Navs, TargetKnown
<1>4. AwaitsStatus(s) => Sound([s EXCEPT !.nav = n1])
  <2> HIDE DEF n1
  <2> QED BY <1>2, NavSound
<1>5. Sound([s EXCEPT !.nav = n2])
  <2> HIDE DEF n2
  <2> QED BY <1>3, NavSound
<1>6. /\ [s EXCEPT !.nav.paused = FALSE, !.nav.step = step] = [s EXCEPT !.nav = n1]
      /\ [s EXCEPT !.nav.rxSeen = s.nav.paused] = [s EXCEPT !.nav = n2]
  <2> HIDE DEF step
  <2> QED BY <1>1 DEF Worlds
<1>7. StatusInNavigation(s) \in {s, Fail(s), Pause(s)}
          \/ (AwaitsStatus(s) /\ StatusInNavigation(s) = [s EXCEPT !.nav = n1])
          \/ StatusInNavigation(s) = [s EXCEPT !.nav = n2]
  <2> HIDE DEF n1, n2
  <2> QED BY <1>6 DEF StatusInNavigation
<1> HIDE DEF n1, n2
<1> QED BY <1>4, <1>5, <1>7, FailSound, PauseSound

\* What was observed of a Third Series menu is dropped with its status.
LEMMA DropSound == ASSUME NEW s, Sound(s) PROVE Sound(DropThird(s))
<1> DEFINE c == [s.ctl EXCEPT !.passive = NoPassive]
<1>1. /\ c \in Ctls /\ PagesShow(c.lcd) /\ Saved(c) = Saved(s.ctl)
      /\ c.saveFailed = s.ctl.saveFailed
  <2>1. NoPassive \in Passives
    BY DEF NoPassive, Passives, Chosen
  <2> QED BY <2>1 DEF Sound, Typed, Worlds, Ctls, Saved
<1>2. DropThird(s) \in {s, [s EXCEPT !.ctl = c]}
  BY DEF DropThird, Sound, Typed, Worlds
<1> HIDE DEF c
<1> QED BY <1>1, <1>2, CtlSound

-----------------------------------------------------------------------------
\* A status frame, and the settings: observe.
LEMMA ObserveIInv ==
    ASSUME IInv, NEW band \in Bands, NEW expired \in MayExpire, NEW io \in IOs,
           \/ \E tx \in {amp.tx, "unknown"} : ObserveStatus(tx, band, expired, io)
           \/ \E enabled \in BOOLEAN : SaveSettings(enabled, band, expired, io)
    PROVE  IInv'
<1> USE DEF IInv
<1>0. expired \in BOOLEAN
  BY DEF MayExpire
<1>1. ASSUME NEW tx \in {amp.tx, "unknown"}, ObserveStatus(tx, band, expired, io)
      PROVE  IInv'
  <2> DEFINE st == [recent |-> TRUE, tx |-> tx, oper |-> amp.oper, model |-> amp.model]
             e == Expire(World, expired, io)
             c == [e.ctl EXCEPT !.st = st, !.statusHere = TRUE]
             heard == [e EXCEPT !.ctl = c]
             named == IF heard.ctl.model \in {"none", amp.model} THEN heard
                      ELSE Persist(ClearVerified(heard), io)
             s == DropThird(named)
  <2>1. Sound(e)
    BY <1>0, ExpireSound
  <2>2. st \in Statuses
    BY DEF Statuses, Amps, Tx
  <2>3. /\ c \in Ctls /\ PagesShow(c.lcd) /\ Saved(c) = Saved(e.ctl)
        /\ c.saveFailed = e.ctl.saveFailed
    <3> HIDE DEF e, st
    <3> QED BY <2>1, <2>2 DEF Sound, Typed, Worlds, Ctls, Saved
  <2>4. Sound(heard)
    <3> HIDE DEF e, c
    <3> QED BY <2>1, <2>3, CtlSound
  <2>5. Sound(named)
    <3> HIDE DEF heard
    <3>1. Typed(heard)
      BY <2>4 DEF Sound
    <3> QED BY <2>4, <3>1, ClearTyped, PersistSound
  <2>6. Sound(StatusInNavigation(Decide(s, band)))
    <3> HIDE DEF named
    <3> QED BY <2>5, DropSound, DecideSound, StatusSound
  <2>7. heard = [Expire(World, expired, io) EXCEPT !.ctl.st = st, !.ctl.statusHere = TRUE]
    <3> HIDE DEF st
    <3> QED BY <2>1 DEF Sound, Typed, Worlds
  <2>8. Becomes(StatusInNavigation(Decide(s, band)))
    <3> HIDE DEF heard
    <3> QED BY <1>1, <2>7 DEF ObserveStatus
  <2>9. Sound(World)'
    <3> HIDE DEF s
    <3> QED BY <2>6, <2>8, BecomesSound
  <2> QED BY <1>1, <2>9 DEF ObserveStatus, Event
<1>2. ASSUME NEW enabled \in BOOLEAN, SaveSettings(enabled, band, expired, io)
      PROVE  IInv'
  <2> DEFINE e == Expire(World, expired, io)
             c == [e.ctl EXCEPT !.enabled = enabled]
             u == [e EXCEPT !.ctl = c]
             s == Decide(DropThird(u), band)
  <2>1. Sound(e)
    BY <1>0, ExpireSound
  <2>2. /\ c \in Ctls /\ PagesShow(c.lcd) /\ Saved(c) = Saved(e.ctl)
        /\ c.saveFailed = e.ctl.saveFailed
    <3> HIDE DEF e
    <3> QED BY <2>1 DEF Sound, Typed, Worlds, Ctls, Saved
  <2>3. Sound(u)
    <3> HIDE DEF e, c
    <3> QED BY <2>1, <2>2, CtlSound
  <2>4. Sound(s)
    <3> HIDE DEF u
    <3> QED BY <2>3, DropSound, DecideSound
  <2>5. u = [Expire(World, expired, io) EXCEPT !.ctl.enabled = enabled]
    BY <2>1 DEF Sound, Typed, Worlds
  <2>6. \/ Becomes(s) \/ Becomes(Fail(s)) \/ Becomes(Pause(s))
    <3> HIDE DEF u
    <3> QED BY <1>2, <2>5 DEF SaveSettings, UpdateSettings
  <2>7. Sound(World)'
    <3> HIDE DEF s
    <3> QED BY <2>4, <2>6, BecomesSound, FailSound, PauseSound
  <2> QED BY <1>2, <2>7 DEF SaveSettings, Event
<1> QED BY <1>1, <1>2

\* The count stays within its bound.
LEMMA EventBounded ==
    ASSUME events \in 0..MaxEvents, NEW happens, Event(happens)
    PROVE  events' \in 0..MaxEvents
BY FanAssumption DEF Event

\* A new session.
LEMMA SessionIInv ==
    ASSUME IInv, NEW io \in IOs, BeginSession(io)
    PROVE  IInv'
<1> USE DEF IInv
<1> DEFINE c == [ctl EXCEPT !.session = TRUE, !.statusHere = FALSE, !.lcd = NoFrame,
                            !.passive = NoPassive]
           fresh == [World EXCEPT !.ctl = c]
           stopped == IF Active(fresh) THEN Fail(fresh) ELSE fresh
<1>1. World.ctl = ctl /\ ctl \in Ctls /\ World.nav = nav
  BY DEF World, Sound, Typed, Worlds
<1>2. NoFrame \in Lcds /\ PagesShow(NoFrame) /\ NoPassive \in Passives
  BY DEF NoFrame, Lcds, Chosen, Tx, NoPassive, Passives, PagesShow, Pages, NextPage
<1>3. /\ c \in Ctls /\ PagesShow(c.lcd) /\ Saved(c) = Saved(World.ctl)
      /\ c.saveFailed = World.ctl.saveFailed
  BY <1>1, <1>2 DEF Ctls, Saved
<1>4. Sound(fresh)
  <2> HIDE DEF c
  <2> QED BY <1>3, CtlSound
<1>5. Sound(stopped) /\ Sound(Persist(ClearVerified(stopped), io))
  <2> HIDE DEF fresh
  <2>1. Sound(stopped)
    BY <1>4, FailSound
  <2>2. Typed(stopped)
    BY <2>1 DEF Sound
  <2> HIDE DEF stopped
  <2> QED BY <2>1, <2>2, ClearTyped, PersistSound
<1>6. fresh = [World EXCEPT !.ctl.session = TRUE, !.ctl.statusHere = FALSE,
                            !.ctl.lcd = NoFrame, !.ctl.passive = NoPassive]
  BY DEF World
<1>7. Becomes(stopped) \/ Becomes(Persist(ClearVerified(stopped), io))
  <2> HIDE DEF fresh
  <2> QED BY <1>6 DEF BeginSession, ObserveSerialSession
<1>8. Sound(World)'
  <2> HIDE DEF stopped
  <2> QED BY <1>5, <1>7, BecomesSound
<1>9. amp' \in Amps
  <2>1. ASSUME NEW m \in Models, NEW p \in Policies,
               amp' = [amp EXCEPT !.model = m, !.at = "home", !.shown = p, !.stored = p]
        PROVE  amp' \in Amps
    BY <2>1 DEF Amps, Screens, OtherScreens
  <2> QED BY <2>1 DEF BeginSession
<1>10. events' \in 0..MaxEvents
  BY EventBounded DEF BeginSession
<1> QED BY <1>8, <1>9, <1>10 DEF BeginSession

\* The contact ticker.
LEMMA TickIInv ==
    ASSUME IInv, NEW late \in BOOLEAN, NEW expired \in MayExpire, NEW io \in IOs,
           Tick(late, expired, io)
    PROVE  IInv'
<1> DEFINE s == Expire(World, expired, io)
<1>1. Sound(s)
  BY ExpireSound DEF IInv, MayExpire
<1>2. Becomes(s) \/ Becomes(Fail(s)) \/ Becomes(GiveUp(s, io))
  BY DEF Tick
<1>3. Sound(World)'
  <2> HIDE DEF s
  <2> QED BY <1>1, <1>2, BecomesSound, FailSound, GiveUpSound
<1> QED BY <1>3 DEF IInv, Tick, Event

\* The requests of operators.
LEMMA RequestsIInv ==
    ASSUME IInv, NEW io \in IOs,
           \/ \E policy \in Chosen, timer \in {"none", "set"} :
                 SetManualOverride(policy, timer, io)
           \/ RequestVerification \/ Recover(io) \/ ClearCompletedNormalOverride(io)
    PROVE  IInv'
<1> USE DEF IInv
<1>0. /\ World.ctl = ctl /\ World.nav = nav /\ ctl \in Ctls /\ nav \in Navs
      /\ PagesShow(ctl.lcd) /\ TargetKnown(nav) /\ World \in Worlds
  BY DEF World, Sound, Typed, Worlds
<1>c. ASSUME NEW c \in Ctls, c.lcd = ctl.lcd
      PROVE  Typed([World EXCEPT !.ctl = c])
  BY <1>0, <1>c DEF Typed, Worlds
<1>1. ASSUME NEW policy \in Chosen, NEW timer \in {"none", "set"},
             SetManualOverride(policy, timer, io)
      PROVE  IInv'
  <2> DEFINE verify == IF policy = "unknown" THEN ctl.verify ELSE "none"
             c == [ctl EXCEPT !.override = policy, !.timer = timer, !.desired = "unknown",
                              !.verify = verify]
             u == [World EXCEPT !.ctl = c]
  <2>1. c \in Ctls /\ c.lcd = ctl.lcd
    <3>1. verify \in {"none", "startup", "api"} /\ timer \in {"none", "set", "running"}
          /\ "unknown" \in Chosen
      BY <1>0 DEF Ctls, Chosen
    <3> HIDE DEF verify
    <3> QED BY <1>0, <3>1 DEF Ctls
  <2>2. Typed(u)
    <3> HIDE DEF c
    <3> QED BY <1>c, <2>1
  <2>3. u = [World EXCEPT !.ctl.override = policy, !.ctl.timer = timer,
                 !.ctl.desired = "unknown",
                 !.ctl.verify = IF policy = "unknown" THEN @ ELSE "none"]
    BY <1>0
  <2> HIDE DEF u
  <2>4. Becomes(Persist(ForgetComplete(u), io))
    BY <1>1, <2>3 DEF SetManualOverride
  <2>5. Sound(Persist(ForgetComplete(u), io))
    BY <2>2, ForgetSound, PersistSound
  <2>6. Sound(World)'
    BY <2>4, <2>5, BecomesSound
  <2>7. Event(TRUE) /\ UNCHANGED <<amp, rx>>
    BY <1>1 DEF SetManualOverride, Requested
  <2> QED BY <2>6, <2>7, EventBounded
<1>2. CASE RequestVerification
  <2> DEFINE c == [ctl EXCEPT !.verify = "api", !.desired = "unknown"]
             u == [World EXCEPT !.ctl = c]
  <2>1. /\ c \in Ctls /\ PagesShow(c.lcd) /\ Saved(c) = Saved(World.ctl)
        /\ c.saveFailed = World.ctl.saveFailed
    BY <1>0, ZenonT(60) DEF Ctls, Saved, Chosen
  <2>2. Sound(u)
    <3> HIDE DEF c
    <3> QED BY <2>1, CtlSound
  <2>3. u = [World EXCEPT !.ctl.verify = "api", !.ctl.desired = "unknown"]
    BY <1>0
  <2> HIDE DEF u
  <2>4. Sound(ForgetComplete(u))
    BY <2>2, ForgetSound DEF Sound
  <2>5. Sound(World)'
    BY <1>2, <2>3, <2>4, BecomesSound DEF RequestVerification
  <2> QED BY <1>2, <2>5 DEF RequestVerification, Requested, Event
<1>3. ASSUME NEW t, Sound(t), OrTakenBack(t)
      PROVE  Sound(World)'
  <2> DEFINE c == [ctl EXCEPT !.saveFailed = TRUE]
             u == [World EXCEPT !.ctl = c]
  <2>1. c \in Ctls /\ c.lcd = ctl.lcd /\ c.saveFailed = TRUE
    BY <1>0 DEF Ctls
  <2>2. Typed(u) /\ u.ctl = c
    <3> HIDE DEF c
    <3> QED BY <1>0, <1>c, <2>1
  <2>3. Sound(u)
    <3> HIDE DEF u, c
    <3> QED BY <2>1, <2>2 DEF Sound
  <2>4. u = [World EXCEPT !.ctl.saveFailed = TRUE]
    BY <1>0
  <2> HIDE DEF u
  <2>5. Becomes(t) \/ Becomes(u)
    BY <1>3, <2>4 DEF OrTakenBack
  <2> QED BY <1>3, <2>3, <2>5, BecomesSound
<1>4. CASE Recover(io)
  <2> DEFINE c == [ctl EXCEPT !.override = "unknown", !.timer = "none", !.verify = "none",
                              !.desired = "unknown", !.mayBeInMenu = FALSE]
             u == [World EXCEPT !.ctl = c]
             v == [u EXCEPT !.nav = NoNav]
  <2>1. c \in Ctls /\ c.lcd = ctl.lcd
    BY <1>0, ZenonT(60) DEF Ctls, Chosen
  <2>2. Typed(u)
    <3> HIDE DEF c
    <3> QED BY <1>c, <2>1
  <2>3. Typed(v)
    <3>1. NoNav \in Navs /\ TargetKnown(NoNav)
      BY <1>0, EndedTyped
    <3> HIDE DEF u
    <3> QED BY <2>2, <3>1 DEF Typed, Worlds
  <2>4. v = [World EXCEPT !.nav = NoNav, !.ctl.override = "unknown", !.ctl.timer = "none",
                 !.ctl.verify = "none", !.ctl.desired = "unknown", !.ctl.mayBeInMenu = FALSE]
    BY <1>0 DEF Worlds
  <2> HIDE DEF v
  <2>5. Sound(World)'
    BY <1>3, <1>4, <2>3, <2>4, PersistSound DEF Recover
  <2> QED BY <1>4, <2>5 DEF Recover, Event
<1>5. CASE ClearCompletedNormalOverride(io)
  <2> DEFINE c == [ctl EXCEPT !.override = "unknown", !.timer = "none", !.desired = "unknown"]
             u == [World EXCEPT !.ctl = c]
  <2>1. c \in Ctls /\ c.lcd = ctl.lcd
    BY <1>0, ZenonT(60) DEF Ctls, Chosen
  <2>2. Typed(u)
    <3> HIDE DEF c
    <3> QED BY <1>c, <2>1
  <2>3. u = [World EXCEPT !.ctl.override = "unknown", !.ctl.timer = "none",
                          !.ctl.desired = "unknown"]
    BY <1>0
  <2> HIDE DEF u
  <2>4. Sound(World)'
    BY <1>3, <1>5, <2>2, <2>3, ForgetSound, PersistSound DEF ClearCompletedNormalOverride
  <2> QED BY <1>5, <2>4 DEF ClearCompletedNormalOverride, Event
<1> QED BY <1>1, <1>2, <1>4, <1>5

\* The controller as it starts.
LEMMA StartedTyped ==
    ASSUME NEW saved \in Saves, NEW enabled \in BOOLEAN, NEW verify \in {"none", "startup"},
           NEW expired \in BOOLEAN
    PROVE  LET c == Started(saved, enabled, verify, expired)
           IN  c \in Ctls /\ PagesShow(c.lcd)
<1> DEFINE gone == expired /\ saved.timer = "running"
           override == IF gone THEN "unknown" ELSE saved.override
           timer == IF gone THEN "none" ELSE saved.timer
           c == Started(saved, enabled, verify, expired)
<1>1. override \in Chosen /\ timer \in {"none", "set", "running"}
  BY DEF Saves, Chosen
<1>2. /\ NoStatus \in Statuses /\ NoFrame \in Lcds /\ NoPassive \in Passives
      /\ "unknown" \in Chosen /\ PagesShow(NoFrame)
  BY DEF NoStatus, Statuses, NoFrame, Lcds, NoPassive, Passives, Chosen, Tx, PagesShow,
         Pages, NextPage
<1>3. c = [st |-> NoStatus, lcd |-> NoFrame, session |-> FALSE, statusHere |-> FALSE,
           enabled |-> enabled, desired |-> "unknown", override |-> override,
           timer |-> timer, verify |-> verify, policy |-> saved.policy, live |-> FALSE,
           model |-> saved.model, heldHigh |-> FALSE, heldStart |-> TRUE,
           mayBeInMenu |-> FALSE, passive |-> NoPassive, saveFailed |-> FALSE]
  BY DEF Started
<1>4. c \in Ctls
  <2> HIDE DEF override, timer, c
  <2> QED BY <1>1, <1>2, <1>3 DEF Ctls, Saves
<1> QED BY <1>2, <1>3, <1>4

\* The program starts again from what is on disk.
LEMMA RestartIInv ==
    ASSUME IInv, NEW verify \in {"none", "startup"}, NEW expired \in BOOLEAN,
           Restart(verify, expired)
    PROVE  IInv'
<1> DEFINE c == Started(disk, ctl.enabled, verify, expired)
           u == [World EXCEPT !.ctl = c]
           v == [u EXCEPT !.nav = NoNav]
<1>1. World \in Worlds /\ disk \in Saves /\ ctl \in Ctls /\ nav \in Navs /\ Good \in IOs
  BY DEF IInv, World, Sound, Typed, Worlds, Good, IOs
<1>2. c \in Ctls /\ PagesShow(c.lcd)
  BY <1>1, StartedTyped DEF Ctls
<1>3. NoNav \in Navs /\ TargetKnown(NoNav)
  BY <1>1, EndedTyped
<1>4. Typed(v)
  <2> HIDE DEF c
  <2> QED BY <1>1, <1>2, <1>3 DEF Typed, Worlds
<1>5. v = [World EXCEPT !.nav = NoNav, !.ctl = Started(disk, ctl.enabled, verify, expired)]
  BY DEF World
<1> HIDE DEF v
<1>6. Sound(World)'
  BY <1>1, <1>4, <1>5, PersistSound, BecomesSound DEF Restart
<1>7. Event(TRUE) /\ UNCHANGED <<amp, rx>>
  BY DEF Restart
<1> QED BY <1>6, <1>7, EventBounded DEF IInv

\* A repeated frame, and a status that is no longer recent.
LEMMA QuietIInv ==
    ASSUME IInv, ObserveOldDisplay \/ StatusAges
    PROVE  IInv'
<1>1. World \in Worlds /\ World.ctl = ctl /\ ctl \in Ctls /\ Sound(World)
  BY DEF IInv, World, Sound, Typed, Worlds
<1>2. ASSUME NEW c \in Ctls, c.lcd = ctl.lcd, Saved(c) = Saved(ctl),
             c.saveFailed = ctl.saveFailed, ctl' = c, UNCHANGED <<line, nav, disk>>
      PROVE  Sound(World)'
  <2>1. World' = [World EXCEPT !.ctl = c]
    BY <1>2 DEF World
  <2>2. PagesShow(c.lcd)
    BY <1>1, <1>2 DEF Sound, Typed
  <2> QED BY <1>1, <1>2, <2>1, <2>2, CtlSound
<1>3. NoPassive \in Passives
  BY DEF NoPassive, Passives, Chosen
<1>4. CASE ObserveOldDisplay
  <2> DEFINE c == [ctl EXCEPT !.passive = NoPassive]
  <2>1. /\ c \in Ctls /\ c.lcd = ctl.lcd /\ Saved(c) = Saved(ctl)
        /\ c.saveFailed = ctl.saveFailed
    BY <1>1, <1>3 DEF Ctls, Saved
  <2>2. ctl' = c /\ UNCHANGED <<amp, line, nav, disk, rx, events>>
    BY <1>4 DEF ObserveOldDisplay
  <2> HIDE DEF c
  <2> QED BY <1>2, <2>1, <2>2 DEF IInv
<1>5. CASE StatusAges
  <2> DEFINE st == [ctl.st EXCEPT !.recent = FALSE]
             c == [ctl EXCEPT !.st = st]
  <2>1. st \in Statuses
    BY <1>1 DEF Ctls, Statuses
  <2>2. /\ c \in Ctls /\ c.lcd = ctl.lcd /\ Saved(c) = Saved(ctl)
        /\ c.saveFailed = ctl.saveFailed
    <3> HIDE DEF st
    <3> QED BY <1>1, <2>1 DEF Ctls, Saved
  <2>3. ctl' = c /\ UNCHANGED <<amp, line, nav, disk, rx>> /\ Event(TRUE)
    BY <1>1, <1>5 DEF StatusAges, Ctls
  <2> HIDE DEF c
  <2> QED BY <1>2, <2>2, <2>3, EventBounded DEF IInv
<1> QED BY <1>4, <1>5

\* A key that acts leaves the amplifier on a screen of the menu, with a fan mode.
LEMMA ActsTyped ==
    ASSUME amp \in Amps, NEW key, Acts(key)
    PROVE  amp' \in Amps
<1>1. ASSUME NEW at \in Screens, Shows(at) PROVE amp' \in Amps
  BY <1>1 DEF Shows, Amps
<1>2. \A i \in DOMAIN SetupKeys : SetupKeys[i] \in Screens
  BY DEF Screens, Setup
<1>3. DOMAIN SetupKeys = 1..Len(SetupKeys) /\ Len(SetupKeys) \in Nat /\ Len(SetupKeys) > 1
  BY FanAssumption
<1>4. CASE key = "operate" \/ key = "display"
  BY <1>4 DEF Acts, Amps, Oper, Screens, OtherScreens
<1>5. CASE key = "right"
  <2>1. CASE amp.at \in Pages
    <3>1. NextPage[amp.at] \in Screens
      BY <2>1 DEF Pages, NextPage, Screens, OtherScreens
    <3> QED BY <1>1, <1>5, <2>1, <3>1 DEF Acts
  <2>2. CASE amp.at \notin Pages /\ amp.at \in Setup
    <3>1. PICK i \in DOMAIN SetupKeys :
             Shows(SetupKeys[IF i = Len(SetupKeys) THEN 1 ELSE i + 1])
      BY <1>5, <2>2 DEF Acts
    <3>2. (IF i = Len(SetupKeys) THEN 1 ELSE i + 1) \in DOMAIN SetupKeys
      BY <1>3
    <3> QED BY <1>1, <1>2, <3>1, <3>2
  <2>3. CASE amp.at \notin Pages /\ amp.at \notin Setup
    BY <1>5, <2>3 DEF Acts
  <2> QED BY <2>1, <2>2, <2>3
<1>6. CASE key = "set"
  <2>1. /\ SetupKeys[1] \in Screens /\ "elsewhere" \in Screens /\ FanPage[amp.model] \in Screens
        /\ "storing" \in Screens /\ "thirdStoring" \in Screens
    BY <1>2, <1>3 DEF Screens, OtherScreens, Pages, NextPage, FanPage, Amps, Models
  <2>2. amp.shown \in Policies /\ amp.stored \in Policies /\ Flip(amp.shown) \in Policies
        /\ "normal" \in Policies /\ "high" \in Policies
    BY DEF Amps, Policies, Flip
  <2>3. \/ Shows(SetupKeys[1]) \/ Shows("elsewhere") \/ UNCHANGED amp
        \/ amp' = [amp EXCEPT !.at = FanPage[amp.model], !.shown = amp.stored]
        \/ amp' = [amp EXCEPT !.shown = Flip(@)]
        \/ amp' = [amp EXCEPT !.shown = "normal"]
        \/ amp' = [amp EXCEPT !.shown = "high"]
        \/ amp' = [amp EXCEPT !.at = "storing", !.stored = amp.shown]
        \/ amp' = [amp EXCEPT !.at = "thirdStoring", !.stored = amp.shown]
    BY <1>6 DEF Acts
  <2>4. CASE Shows(SetupKeys[1]) \/ Shows("elsewhere") \/ UNCHANGED amp
    BY <1>1, <2>1, <2>4
  <2>5. CASE amp' = [amp EXCEPT !.at = FanPage[amp.model], !.shown = amp.stored]
    BY <2>1, <2>2, <2>5 DEF Amps
  <2>6. CASE \/ amp' = [amp EXCEPT !.shown = Flip(@)]
             \/ amp' = [amp EXCEPT !.shown = "normal"]
             \/ amp' = [amp EXCEPT !.shown = "high"]
    BY <2>2, <2>6 DEF Amps
  <2>7. CASE \/ amp' = [amp EXCEPT !.at = "storing", !.stored = amp.shown]
             \/ amp' = [amp EXCEPT !.at = "thirdStoring", !.stored = amp.shown]
    BY <2>1, <2>2, <2>7 DEF Amps
  <2> QED BY <2>3, <2>4, <2>5, <2>6, <2>7
<1> QED BY <1>4, <1>5, <1>6 DEF Acts

\* The amplifier acts on a key, shows that it has stored, transmits, or is operated by
\* hand.
LEMMA AmplifierIInv ==
    ASSUME IInv,
           \/ AmpActs \/ AmpHasStored \/ Transmit
           \/ \E key \in Buttons : PressPanel(key)
    PROVE  IInv'
<1>1. World \in Worlds /\ line \in Seq(Keys) /\ Sound(World) /\ amp \in Amps
  BY DEF IInv, World, Sound, Typed, Worlds
<1>2. CASE AmpActs
  <2>1. Tail(line) \in Seq(Keys)
    BY <1>1, <1>2 DEF AmpActs
  <2>2. World' = [World EXCEPT !.line = Tail(line)]
    <3> DEFINE left == Tail(line)
    <3>1. line' = left /\ UNCHANGED <<nav, ctl, disk>>
      BY <1>2 DEF AmpActs
    <3> HIDE DEF left
    <3>2. World' = [World EXCEPT !.line = left]
      BY <3>1 DEF World
    <3> QED BY <3>2 DEF left
  <2>3. Sound(World)'
    <3>1. Sound([World EXCEPT !.line = Tail(line)])
      BY <1>1, <2>1 DEF Sound, Typed, Worlds
    <3> QED BY <2>2, <3>1
  <2>4. amp' \in Amps
    BY <1>1, <1>2, ActsTyped DEF AmpActs
  <2> QED BY <1>2, <2>3, <2>4 DEF AmpActs, IInv
<1>3. ASSUME UNCHANGED <<line, nav, ctl, disk, rx>>, amp' \in Amps,
             events' \in 0..MaxEvents
      PROVE  IInv'
  <2>1. World' = World
    BY <1>3 DEF World
  <2> QED BY <1>1, <1>3, <2>1 DEF IInv
<1>4. CASE AmpHasStored
  <2>1. amp' \in Amps
    BY <1>1, <1>4 DEF AmpHasStored, Shows, Amps, Screens, OtherScreens
  <2> QED BY <1>3, <1>4, <2>1 DEF AmpHasStored, IInv
<1>5. CASE Transmit
  <2>1. amp' \in Amps
    BY <1>1, <1>5 DEF Transmit, Amps
  <2>2. events' \in 0..MaxEvents
    BY <1>5, EventBounded DEF Transmit, IInv
  <2> QED BY <1>3, <1>5, <2>1, <2>2 DEF Transmit
<1>6. ASSUME NEW key \in Buttons, PressPanel(key) PROVE IInv'
  <2>1. amp' \in Amps
    BY <1>1, <1>6, ActsTyped DEF PressPanel
  <2>2. events' \in 0..MaxEvents
    <3>1. Requested \/ UNCHANGED events
      BY <1>6 DEF PressPanel
    <3> QED BY <3>1, EventBounded DEF Requested, IInv
  <2> QED BY <1>3, <1>6, <2>1, <2>2 DEF PressPanel
<1> QED BY <1>2, <1>4, <1>5, <1>6

-----------------------------------------------------------------------------
(* The invariant and what follows from it.                                 *)

\* What the environment may answer has its type.
LEMMA AnswersTyped == Answers \subseteq IOs /\ SaveAnswers \subseteq IOs
<1>1. Good \in IOs
  BY GoodTyped
<1>2. \A r \in {"lost", "unconfirmed", "refused"} : [Good EXCEPT !.send = r] \in IOs
  BY <1>1 DEF IOs
<1>3. /\ [Good EXCEPT !.save = FALSE] \in IOs /\ [Good EXCEPT !.granted = FALSE] \in IOs
      /\ [Good EXCEPT !.hold = TRUE] \in IOs
  BY <1>1 DEF IOs
<1> QED BY <1>1, <1>2, <1>3 DEF Answers, SaveAnswers

\* The program starts with what is on disk, on an amplifier at home.
LEMMA InitIInv == Init => IInv
<1> SUFFICES ASSUME Init PROVE IInv
  OBVIOUS
<1>1. amp \in Amps
  BY DEF Init, Amps, Oper, Screens, OtherScreens
<1>2. PICK start \in Starts : /\ ctl = Started(start.disk, start.enabled, start.verify, FALSE)
                              /\ disk = Saved(ctl)
  BY DEF Init
<1>3. ctl \in Ctls /\ PagesShow(ctl.lcd)
  BY <1>2, StartAssumption, StartedTyped
<1>4. nav \in Navs /\ TargetKnown(nav)
  <2>1. NoNav \in Navs
    BY FanAssumption DEF NoNav, Navs, NoScreen, Shown, Steps, Chosen
  <2> QED BY <2>1 DEF Init, TargetKnown, NoNav
<1>5. line \in Seq(Keys)
  BY DEF Init
<1>6. World \in Worlds /\ World.ctl = ctl /\ World.nav = nav /\ World.disk = disk
  BY <1>2, <1>3, <1>4, <1>5, SavedTyped DEF World, Worlds
<1>7. Sound(World)
  BY <1>2, <1>3, <1>4, <1>6 DEF Sound, Typed
<1>8. rx \in {"none", "status", "both"} /\ events \in 0..MaxEvents
  BY FanAssumption DEF Init
<1> QED BY <1>1, <1>7, <1>8 DEF IInv

\* Every method, and everything around it, preserves the invariant.
LEMMA NextIInv == IInv /\ [Next]_vars => IInv'
<1> SUFFICES ASSUME IInv, [Next]_vars PROVE IInv'
  OBVIOUS
<1>1. CASE AmpActs \/ AmpHasStored \/ Transmit
  BY <1>1, AmplifierIInv
<1>2. ASSUME NEW key \in Buttons, PressPanel(key) PROVE IInv'
  BY <1>2, AmplifierIInv
<1>3. CASE StatusAges \/ ObserveOldDisplay
  BY <1>3, QuietIInv
<1>4. CASE RequestVerification
  <2>1. Good \in IOs
    BY AnswersTyped DEF Answers
  <2> QED BY <1>4, <2>1, RequestsIInv
<1>5. ASSUME NEW verify \in {"none", "startup"}, NEW expired \in BOOLEAN,
             Restart(verify, expired)
      PROVE  IInv'
  BY <1>5, RestartIInv
<1>6. ASSUME NEW valid \in BOOLEAN, NEW cooled \in BOOLEAN, NEW io \in IOs,
             ObserveDisplay(valid, cooled, io)
      PROVE  IInv'
  BY <1>6, ObserveDisplayIInv
<1>7. ASSUME NEW late \in BOOLEAN, NEW expired \in MayExpire, NEW io \in IOs,
             Tick(late, expired, io)
      PROVE  IInv'
  BY <1>7, TickIInv
<1>8. ASSUME NEW io \in IOs,
             \/ \E tx \in {amp.tx, "unknown"}, expired \in MayExpire, band \in Bands :
                   ObserveStatus(tx, band, expired, io)
             \/ \E enabled \in BOOLEAN, expired \in MayExpire, band \in Bands :
                   SaveSettings(enabled, band, expired, io)
      PROVE  IInv'
  BY <1>8, ObserveIInv
<1>9. ASSUME NEW io \in IOs,
             \/ \E policy \in Chosen, timer \in {"none", "set"} :
                   SetManualOverride(policy, timer, io)
             \/ Recover(io) \/ ClearCompletedNormalOverride(io)
      PROVE  IInv'
  BY <1>9, RequestsIInv
<1>10. ASSUME NEW io \in IOs, BeginSession(io) PROVE IInv'
  BY <1>10, SessionIInv
<1>11. CASE UNCHANGED vars
  <2>1. World' = World
    BY <1>11 DEF vars, World
  <2> QED BY <1>11, <2>1 DEF vars, IInv
<1>12. CASE Next
  <2>1. \/ AmpActs \/ AmpHasStored \/ Transmit \/ StatusAges
        \/ \E key \in Buttons : PressPanel(key)
        \/ ObserveOldDisplay \/ RequestVerification
        \/ \E verify \in {"none", "startup"}, expired \in BOOLEAN : Restart(verify, expired)
        \/ \E valid, cooled \in BOOLEAN, io \in IOs : ObserveDisplay(valid, cooled, io)
        \/ \E late \in BOOLEAN, expired \in MayExpire, io \in IOs : Tick(late, expired, io)
        \/ \E io \in IOs :
              \/ \E tx \in {amp.tx, "unknown"}, expired \in MayExpire, band \in Bands :
                    ObserveStatus(tx, band, expired, io)
              \/ \E policy \in Chosen, timer \in {"none", "set"} :
                    SetManualOverride(policy, timer, io)
              \/ \E enabled \in BOOLEAN, expired \in MayExpire, band \in Bands :
                    SaveSettings(enabled, band, expired, io)
              \/ Recover(io) \/ ClearCompletedNormalOverride(io) \/ BeginSession(io)
    BY <1>12, AnswersTyped DEF Next, Buttons, Chosen
  <2> QED BY <1>1, <1>2, <1>3, <1>4, <1>5, <1>6, <1>7, <1>8, <1>9, <1>10, <2>1
<1> QED BY <1>11, <1>12

\* Whatever the requests, transmissions, lost keys and failed writes, the controller and
\* the amplifier are in states the methods expect: a transaction has a profile and, past
\* the page that shows it, a target.
THEOREM FanInvariant == Spec => []IInv
BY InitIInv, NextIInv, PTL DEF Spec

\* Every field has its type; the index stays within the setup keys of the profile.
THEOREM TypeCorrect == Spec => []TypeOK
<1>1. IInv => TypeOK
  <2> SUFFICES ASSUME IInv PROVE TypeOK
    OBVIOUS
  <2>1. nav \in Navs /\ ctl \in Ctls /\ disk \in Saves /\ line \in Seq(Keys)
    BY DEF IInv, Sound, Typed, World, Worlds
  <2>2. /\ amp \in [model : Models, at : Screens, shown : Policies, stored : Policies,
                    oper : Oper, tx : {"rx", "tx"}]
        /\ rx \in {"none", "status", "both"} /\ events \in 0..MaxEvents
    BY DEF IInv, Amps
  <2>3. \A i \in DOMAIN line : line[i].name \in {"set", "right", "display", "operate"}
    <3>1. \A i \in DOMAIN line : line[i] \in Keys
      BY <2>1
    <3> QED BY <3>1 DEF Keys, Buttons
  <2>4. /\ nav.mode \in {"idle", "active", "failed", "complete"} /\ nav.step \in Steps
        /\ nav.model \in Models \cup {"none"} /\ nav.index \in DOMAIN SetupKeys
        /\ {nav.target, nav.observed} \subseteq Chosen /\ nav.prev \in Shown
        /\ nav.expected \in Pages \cup {"none"}
    BY <2>1 DEF Navs
  <2>5. {nav.paused, nav.rxSeen, nav.restore, nav.verifyOnly, nav.exitTried, nav.newFrame}
            \subseteq BOOLEAN
    BY <2>1 DEF Navs
  <2>6. Saved(ctl) \in Saves /\ ctl.desired \in Chosen /\ ctl.verify \in {"none", "startup", "api"}
    BY <2>1, SavedTyped DEF Ctls
  <2> QED BY <2>1, <2>2, <2>3, <2>4, <2>5, <2>6 DEF TypeOK
<1> QED BY <1>1, FanInvariant, PTL

\* Unless saving failed and is reported, the disk has what the controller would save.
THEOREM DiskIsCurrent == Spec => []DiskMatchesMemory
<1>1. IInv => DiskMatchesMemory
  BY DEF IInv, Sound, World, DiskMatchesMemory
<1> QED BY <1>1, FanInvariant, PTL

-----------------------------------------------------------------------------
(* Keys wait for RX.  A transaction that has seen nothing but TX since TX is   *)
(* paused, and the status frame that ends the wait is not the display frame    *)
(* the next key is written on.                                                 *)

Held(n) == n.paused /\ ~n.rxSeen
Waiting == nav.mode = "active" /\ rx = "none" => Held(nav)

\* The step of KeysWaitForFreshRX.
WritesOnRX ==
    Len(line') > Len(line) /\ nav.mode = "active" /\ line'[Len(line')].name # "display"
        => rx' = "both"

\* t is left of s without writing a key, and without ending a pause.
Silent(s, t) ==
    /\ t.line = s.line /\ t.ctl.st = s.ctl.st
    /\ Active(t) => Active(s) /\ (Held(s.nav) => Held(t.nav))

\* What writes no key.
LEMMA QuietMethods ==
    ASSUME NEW s \in Worlds, NEW io \in IOs
    PROVE  /\ Silent(s, s) /\ Silent(s, Fail(s)) /\ Silent(s, Pause(s))
           /\ Silent(s, ForgetComplete(s)) /\ Silent(s, ClearVerified(s))
           /\ Silent(s, Persist(s, io)) /\ Silent(s, DropThird(s))
           /\ (Active(Pause(s)) => Held(Pause(s).nav)) /\ ~Active(Fail(s))
<1>1. Silent(s, s)
  BY DEF Silent
<1>2. Silent(s, Fail(s)) /\ ~Active(Fail(s))
  BY DEF Fail, Ended, NoNav, Silent, Active, Worlds
<1>3. Silent(s, Pause(s)) /\ (Active(Pause(s)) => Held(Pause(s).nav))
  BY DEF Pause, Silent, Active, Held, Worlds, Navs
<1>4. Silent(s, ForgetComplete(s))
  BY DEF ForgetComplete, NoNav, Silent, Active, Worlds
<1>5. Silent(s, ClearVerified(s)) /\ Silent(s, Persist(s, io)) /\ Silent(s, DropThird(s))
  BY DEF ClearVerified, Persist, DropThird, Silent, Active, Worlds, Ctls
<1> QED BY <1>1, <1>2, <1>3, <1>4, <1>5

\* One method after another.
LEMMA SilentAgain ==
    ASSUME NEW s, NEW t, NEW u, Silent(s, t), Silent(t, u)
    PROVE  Silent(s, u)
BY DEF Silent

\* An override that expires.
LEMMA ExpireSilent ==
    ASSUME NEW s, Sound(s), NEW expired \in BOOLEAN, NEW io \in IOs
    PROVE  LET t == Expire(s, expired, io)
           IN  Silent(s, t) /\ (Active(s) => t.nav = s.nav)
<1> DEFINE c == [s.ctl EXCEPT !.override = "unknown", !.timer = "none",
                              !.desired = "unknown"]
           u == [s EXCEPT !.ctl = c]
           f == ForgetComplete(u)
<1>1. c \in Ctls /\ c.lcd = s.ctl.lcd /\ c.st = s.ctl.st /\ s \in Worlds
  BY DEF Sound, Typed, Worlds, Ctls, Chosen
<1>2. Typed(u) /\ Silent(s, u) /\ u.nav = s.nav
  <2> HIDE DEF c
  <2> QED BY <1>1 DEF Sound, Typed, Worlds, Silent, Active
<1>3. Typed(f) /\ Silent(s, f) /\ (Active(s) => f.nav = s.nav)
  <2> HIDE DEF u
  <2>1. Typed(f) /\ Silent(u, f)
    BY <1>2, ForgetSound, QuietMethods DEF Typed
  <2>2. Active(s) => f.nav = s.nav
    BY <1>2 DEF ForgetComplete, Active
  <2> HIDE DEF f
  <2> QED BY <1>2, <2>1, <2>2, SilentAgain
<1>4. Silent(s, Persist(f, io)) /\ (Active(s) => Persist(f, io).nav = s.nav)
  <2> HIDE DEF f
  <2> QED BY <1>3, PersistSound, QuietMethods, SilentAgain DEF Typed
<1>5. Expire(s, expired, io) \in {s, Persist(f, io)}
  BY DEF Expire, Sound, Typed, Worlds
<1> HIDE DEF f
<1> QED BY <1>1, <1>4, <1>5, QuietMethods

\* What the settings and the temperature ask for.
LEMMA DecideSilent ==
    ASSUME NEW s \in Worlds, NEW band \in Bands
    PROVE  Silent(s, Decide(s, band))
<1> DEFINE With(policy) == [s EXCEPT !.ctl.desired = policy]
<1>1. ASSUME NEW policy PROVE Silent(s, With(policy)) /\ With(policy).nav = s.nav
  BY DEF Silent, Active, Worlds, Ctls
<1>2. ASSUME NEW policy
      PROVE  /\ Silent(s, [With(policy) EXCEPT !.nav = NoNav])
             /\ Silent(s, Fail(With(policy))) /\ Silent(s, ForgetComplete(With(policy)))
  BY DEF Silent, Active, Worlds, Ctls, NoNav, Fail, Ended, ForgetComplete
<1>3. CASE ~ControlActive(s.ctl)
  <2>1. Decide(s, band) = [s EXCEPT !.ctl.desired = "unknown",
                              !.nav = IF s.nav.mode = "failed" THEN s.nav ELSE NoNav]
    BY <1>3 DEF Decide
  <2> QED BY <2>1 DEF Silent, Active, Worlds, Ctls, NoNav
<1>4. CASE ControlActive(s.ctl)
  <2>1. Decide(s, band) \in {With("unknown"), Fail(With("unknown")),
                             With(Desired(s.ctl, band)),
                             ForgetComplete(With(Desired(s.ctl, band)))}
    BY <1>4 DEF Decide
  <2> HIDE DEF With
  <2> QED BY <1>1, <1>2, <2>1
<1> QED BY <1>3, <1>4

\* The one key of a recovery is DISPLAY.
LEMMA GiveUpDisplays ==
    ASSUME NEW s, Sound(s), NEW io \in IOs
    PROVE  LET t == GiveUp(s, io)
           IN  \/ t.line = s.line
               \/ \E key : key.name = "display" /\ t.line = Append(s.line, key)
<1> DEFINE u == [s EXCEPT !.nav.exitTried = TRUE]
           v == [u EXCEPT !.nav.step = "recover:home", !.nav.prev = Screen(u),
                          !.ctl.mayBeInMenu = @ \/ ("display" = "set" /\ u.ctl.lcd.at = "home")]
           key == [name |-> "display", at |-> v.ctl.lcd.at, policy |-> v.ctl.lcd.policy,
                   oper |-> v.ctl.lcd.oper]
           w == [v EXCEPT !.line = Append(v.line, key)]
<1>1. s \in Worlds /\ u.line = s.line /\ v.line = s.line /\ DOMAIN u = DOMAIN s
      /\ DOMAIN v = DOMAIN s /\ w.line = Append(s.line, key) /\ DOMAIN w = DOMAIN s
  BY DEF Sound, Typed, Worlds
<1>2. key.name = "display"
  OBVIOUS
<1>3. GiveUp(s, io) \in {Fail(s), Fail(u), Pause(u), v, w, Fail(v), Fail(w)}
  <2> HIDE DEF u
  <2>1. GiveUp(s, io) \in {Fail(s), Send(u, "display", "recover:home", io)}
    BY DEF GiveUp, u
  <2>2. Send(u, "display", "recover:home", io) \in {Fail(u), Pause(u), Write(v, "display", io)}
    <3> HIDE DEF w, key
    <3> QED BY DEF Send
  <2>3. Write(v, "display", io) \in {v, w, Fail(v), Fail(w)}
    <3> HIDE DEF v
    <3> QED BY DEF Write
  <2> HIDE DEF v, w
  <2> QED BY <2>1, <2>2, <2>3
<1>4. \A x : DOMAIN x = DOMAIN s => Fail(x).line = x.line /\ Pause(x).line = x.line
  BY <1>1 DEF Fail, Pause, Worlds
<1> HIDE DEF u, v, w, key
<1> QED BY <1>1, <1>2, <1>3, <1>4

\* A step that leaves the keys alone, and its transaction paused or ended, or as it was.
LEMMA SilentStep ==
    ASSUME IInv, Waiting, NEW t, Silent(World, t), Becomes(t), UNCHANGED rx
    PROVE  Waiting' /\ WritesOnRX
<1>1. World.line = line /\ World.nav = nav /\ line' = t.line /\ nav' = t.nav
  BY DEF World, Becomes
<1> QED BY <1>1 DEF Silent, Waiting, WritesOnRX, Active, IInv, Sound, Typed, Worlds

\* A display frame: what has shown TX is paused or given up, what is paused stays so.
LEMMA DisplayWaits ==
    ASSUME IInv, Waiting, NEW valid \in BOOLEAN, NEW cooled \in BOOLEAN, NEW io \in IOs,
           ObserveDisplay(valid, cooled, io)
    PROVE  Waiting' /\ WritesOnRX
<1> DEFINE high == ctl.heldHigh /\ ~cooled
           start == ctl.heldStart /\ ~cooled
           new == nav.mode = "failed"
           c == [ctl EXCEPT !.lcd = Frame(valid), !.heldHigh = high, !.heldStart = start]
           n == [nav EXCEPT !.newFrame = new]
           seen == [World EXCEPT !.ctl = c, !.nav = n]
<1>1. World \in Worlds /\ nav \in Navs /\ ctl \in Ctls /\ amp \in Amps
  BY DEF IInv, World, Sound, Typed, Worlds
<1>2. seen = [World EXCEPT !.ctl.lcd = Frame(valid),
                           !.ctl.heldHigh = @ /\ ~cooled, !.ctl.heldStart = @ /\ ~cooled,
                           !.nav.newFrame = nav.mode = "failed"]
  BY ZenonT(60) DEF World
<1>3. rx' = IF nav.mode # "active" THEN "both"
            ELSE IF Frame(valid).tx # "rx" THEN "none"
            ELSE IF rx = "none" THEN "none" ELSE "both"
  BY DEF ObserveDisplay
<1>4. CASE rx' = "both"
  BY <1>4 DEF Waiting, WritesOnRX
<1>5. CASE nav.mode = "active" /\ (Frame(valid).tx # "rx" \/ rx = "none")
  <2>1. /\ Active(seen) /\ seen.line = line /\ seen.ctl.lcd.tx = Frame(valid).tx
        /\ seen.nav.paused = nav.paused /\ seen.nav.rxSeen = nav.rxSeen
    <3> HIDE DEF high, start, new
    <3> QED BY <1>1, <1>5 DEF Active, Navs, Ctls, World
  <2>2. seen \in Worlds
    <3>1. c \in Ctls
      <4>1. Frame(valid) \in Lcds
        BY <1>1, FrameTyped
      <4>2. high \in BOOLEAN /\ start \in BOOLEAN
        OBVIOUS
      <4> HIDE DEF high, start
      <4> QED BY <1>1, <4>1, <4>2 DEF Ctls
    <3>2. n \in Navs
      BY <1>1 DEF Navs
    <3> HIDE DEF c, n
    <3> QED BY <1>1, <3>1, <3>2 DEF Worlds
  <2>3. IF ~ControlActive(seen.ctl) \/ Fatal(seen) THEN Becomes(Fail(seen))
        ELSE IF PauseBlock(seen) THEN Becomes(Pause(seen)) ELSE FrameInNavigation(seen, io)
    <3> HIDE DEF seen
    <3> QED BY <1>2, <2>1 DEF ObserveDisplay
  <2> HIDE DEF seen
  <2>4. Becomes(Fail(seen)) \/ Becomes(Pause(seen)) \/ (Becomes(seen) /\ Held(seen.nav))
    <3>1. CASE Frame(valid).tx # "rx"
      BY <2>1, <2>3, <3>1 DEF PauseBlock
    <3>2. CASE rx = "none"
      <4>1. Held(seen.nav)
        BY <1>5, <2>1, <3>2 DEF Waiting, Held
      <4> QED BY <2>3, <4>1 DEF FrameInNavigation, Held
    <3> QED BY <1>5, <3>1, <3>2
  <2>5. PICK t : Becomes(t) /\ t.line = seen.line /\ (Active(t) => Held(t.nav))
    BY <2>2, <2>4, QuietMethods DEF Silent
  <2>6. line' = line /\ (nav'.mode = "active" => Held(nav'))
    BY <2>1, <2>5 DEF Becomes, Active
  <2> QED BY <1>1, <2>6 DEF Waiting, WritesOnRX, World, Worlds
<1> QED BY <1>3, <1>4, <1>5

\* A status frame writes nothing; TX pauses the transaction and an unknown TX ends it.
LEMMA StatusWaits ==
    ASSUME IInv, NEW band \in Bands, NEW expired \in MayExpire, NEW io \in IOs,
           NEW tx \in {amp.tx, "unknown"}, ObserveStatus(tx, band, expired, io)
    PROVE  Waiting' /\ WritesOnRX
<1> DEFINE st == [recent |-> TRUE, tx |-> tx, oper |-> amp.oper, model |-> amp.model]
           e == Expire(World, expired, io)
           c == [e.ctl EXCEPT !.st = st, !.statusHere = TRUE]
           heard == [e EXCEPT !.ctl = c]
           cleared == ClearVerified(heard)
           named == IF heard.ctl.model \in {"none", amp.model} THEN heard
                    ELSE Persist(cleared, io)
           d == DropThird(named)
           s == Decide(d, band)
           t == StatusInNavigation(s)
<1>1. Sound(e) /\ e.line = line /\ expired \in BOOLEAN
  <2>1. expired \in BOOLEAN /\ Sound(World) /\ World.line = line
    BY DEF MayExpire, IInv, World
  <2> QED BY <2>1, ExpireSound, ExpireSilent DEF Silent
<1>2. st \in Statuses /\ st.tx = tx
  BY DEF Statuses, Amps, Tx, IInv
<1>3. heard = [Expire(World, expired, io) EXCEPT !.ctl.st = st, !.ctl.statusHere = TRUE]
  <2> HIDE DEF st
  <2> QED BY <1>1 DEF Sound, Typed, Worlds
<1>4. /\ c \in Ctls /\ PagesShow(c.lcd) /\ Saved(c) = Saved(e.ctl)
      /\ c.saveFailed = e.ctl.saveFailed /\ c.st = st
  <2> HIDE DEF e, st
  <2> QED BY <1>1, <1>2 DEF Sound, Typed, Worlds, Ctls, Saved
<1>5. Sound(heard) /\ heard.line = line /\ heard.ctl.st = st
  <2> HIDE DEF e, c, st
  <2>1. Sound(heard) /\ heard.ctl = c
    BY <1>1, <1>4, CtlSound
  <2>2. heard.line = e.line
    BY <1>1 DEF Sound, Typed, Worlds
  <2> HIDE DEF heard
  <2> QED BY <1>1, <1>4, <2>1, <2>2
<1>6. Sound(named) /\ Silent(heard, named)
  <2> HIDE DEF heard
  <2>1. Typed(heard) /\ heard \in Worlds
    BY <1>5 DEF Sound, Typed
  <2>2. Typed(cleared) /\ Silent(heard, cleared)
    BY <2>1, ClearTyped, QuietMethods
  <2>3. Sound(Persist(cleared, io)) /\ Silent(cleared, Persist(cleared, io))
    BY <2>2, PersistSound, QuietMethods DEF Typed
  <2> HIDE DEF cleared
  <2> QED BY <1>5, <2>1, <2>2, <2>3, QuietMethods, SilentAgain
<1>7. Sound(d) /\ Silent(heard, d)
  <2> HIDE DEF named, heard
  <2>1. Silent(named, d)
    BY <1>6, QuietMethods DEF Sound, Typed
  <2> QED BY <1>6, <2>1, DropSound, SilentAgain
<1>8. Sound(s) /\ s.line = line /\ s.ctl.st = st
  <2> HIDE DEF d, heard, st
  <2>1. Silent(d, s)
    BY <1>7, DecideSilent DEF Sound, Typed
  <2> QED BY <1>5, <1>7, <2>1, DecideSound DEF Silent
<1>9. t.line = s.line /\ (Active(t) /\ tx # "rx" => Held(t.nav))
  <2> HIDE DEF s, st
  <2>1. s \in Worlds
    BY <1>8 DEF Sound, Typed
  <2>2. tx # "rx" => tx \in {"tx", "unknown"}
    BY DEF IInv, Amps
  <2>3. CASE ~Active(s)
    BY <2>3 DEF StatusInNavigation
  <2>4. CASE Active(s) /\ tx # "rx"
    <3>1. t \in {Fail(s), Pause(s)}
      BY <1>2, <1>8, <2>2, <2>4 DEF StatusInNavigation, Fatal, ActionBlocked
    <3> QED BY <2>1, <3>1, QuietMethods, GoodTyped DEF Silent
  <2>5. CASE tx = "rx"
    <3>1. /\ Fail(s).line = s.line /\ Pause(s).line = s.line
      BY <2>1, QuietMethods, GoodTyped DEF Silent
    <3> QED BY <2>1, <2>5, <3>1 DEF StatusInNavigation, Worlds
  <2> QED BY <2>3, <2>4, <2>5
<1>10. Becomes(t)
  <2> HIDE DEF heard
  <2> QED BY <1>3 DEF ObserveStatus
<1>11. rx' = IF nav.mode # "active" THEN "both"
             ELSE IF tx # "rx" THEN "none"
             ELSE IF rx = "none" THEN "status" ELSE rx
  BY DEF ObserveStatus
<1>12. line' = line /\ (nav'.mode = "active" /\ tx # "rx" => Held(nav'))
  <2> HIDE DEF s, t
  <2> QED BY <1>8, <1>9, <1>10 DEF Becomes, Active
<1>13. line \in Seq(Keys)
  BY DEF IInv, World, Sound, Typed, Worlds
<1> HIDE DEF t
<1> QED BY <1>11, <1>12, <1>13 DEF Waiting, WritesOnRX

\* Settings and new sessions write no key.
LEMMA SettingsWait ==
    ASSUME IInv, Waiting, NEW io \in IOs,
           \/ \E enabled \in BOOLEAN, expired \in MayExpire, band \in Bands :
                 SaveSettings(enabled, band, expired, io)
           \/ BeginSession(io)
    PROVE  Waiting' /\ WritesOnRX
<1>1. World \in Worlds /\ Sound(World)
  BY DEF IInv, Sound, Typed
<1>2. ASSUME NEW enabled \in BOOLEAN, NEW expired \in MayExpire, NEW band \in Bands,
             SaveSettings(enabled, band, expired, io)
      PROVE  Waiting' /\ WritesOnRX
  <2> DEFINE e == Expire(World, expired, io)
             c == [e.ctl EXCEPT !.enabled = enabled]
             u == [e EXCEPT !.ctl = c]
             d == DropThird(u)
             s == Decide(d, band)
  <2>1. Sound(e) /\ Silent(World, e)
    BY <1>1, ExpireSound, ExpireSilent DEF MayExpire
  <2>2. /\ c \in Ctls /\ PagesShow(c.lcd) /\ Saved(c) = Saved(e.ctl)
        /\ c.saveFailed = e.ctl.saveFailed /\ c.st = e.ctl.st
    <3> HIDE DEF e
    <3> QED BY <2>1 DEF Sound, Typed, Worlds, Ctls, Saved
  <2>3. Sound(u) /\ Silent(World, u)
    <3> HIDE DEF e, c
    <3>1. Sound(u) /\ u.nav = e.nav /\ u.ctl = c
      BY <2>1, <2>2, CtlSound
    <3>2. u.line = e.line
      BY <2>1 DEF Sound, Typed, Worlds
    <3> HIDE DEF u
    <3>3. Silent(e, u)
      BY <2>2, <3>1, <3>2 DEF Silent, Active
    <3> QED BY <2>1, <3>1, <3>3, SilentAgain
  <2>4. Sound(d) /\ Silent(World, d)
    <3> HIDE DEF u
    <3>1. Silent(u, d)
      BY <2>3, QuietMethods DEF Sound, Typed
    <3> HIDE DEF d
    <3> QED BY <2>3, <3>1, DropSound, SilentAgain DEF d
  <2>5. s \in Worlds /\ Silent(World, s)
    <3> HIDE DEF d
    <3>1. s \in Worlds /\ Silent(d, s)
      BY <2>4, DecideSound, DecideSilent DEF Sound, Typed
    <3> HIDE DEF s
    <3> QED BY <2>4, <3>1, SilentAgain
  <2>6. u = [Expire(World, expired, io) EXCEPT !.ctl.enabled = enabled]
    BY <2>1 DEF Sound, Typed, Worlds
  <2>7. Becomes(s) \/ Becomes(Fail(s)) \/ Becomes(Pause(s))
    <3> HIDE DEF u
    <3> QED BY <1>2, <2>6 DEF SaveSettings, UpdateSettings
  <2>8. Silent(World, Fail(s)) /\ Silent(World, Pause(s))
    <3> HIDE DEF s
    <3> QED BY <2>5, QuietMethods, SilentAgain
  <2>9. UNCHANGED rx
    BY <1>2 DEF SaveSettings
  <2> HIDE DEF s
  <2> QED BY <2>5, <2>7, <2>8, <2>9, SilentStep
<1>3. CASE BeginSession(io)
  <2> DEFINE c == [ctl EXCEPT !.session = TRUE, !.statusHere = FALSE, !.lcd = NoFrame,
                              !.passive = NoPassive]
             fresh == [World EXCEPT !.ctl = c]
             stopped == IF Active(fresh) THEN Fail(fresh) ELSE fresh
             cleared == ClearVerified(stopped)
  <2>1. World.ctl = ctl /\ ctl \in Ctls /\ World.nav = nav
    BY <1>1 DEF World, Worlds
  <2>2. NoFrame \in Lcds /\ PagesShow(NoFrame) /\ NoPassive \in Passives
    BY DEF NoFrame, Lcds, Chosen, Tx, NoPassive, Passives, PagesShow, Pages, NextPage
  <2>3. /\ c \in Ctls /\ PagesShow(c.lcd) /\ Saved(c) = Saved(World.ctl)
        /\ c.saveFailed = World.ctl.saveFailed /\ c.st = ctl.st
    BY <2>1, <2>2 DEF Ctls, Saved
  <2>4. Sound(fresh) /\ Silent(World, fresh)
    <3> HIDE DEF c
    <3>1. Sound(fresh) /\ fresh.nav = nav /\ fresh.ctl = c
      BY <1>1, <2>1, <2>3, CtlSound
    <3>2. fresh.line = World.line
      BY DEF World
    <3> HIDE DEF fresh
    <3> QED BY <2>1, <2>3, <3>1, <3>2 DEF Silent, Active
  <2>5. Sound(stopped) /\ Silent(World, stopped)
    <3> HIDE DEF fresh
    <3>1. Silent(fresh, Fail(fresh))
      BY <2>4, QuietMethods DEF Sound, Typed
    <3> QED BY <2>4, <3>1, FailSound, SilentAgain
  <2>6. Silent(World, Persist(cleared, io))
    <3> HIDE DEF stopped
    <3>1. Typed(cleared) /\ Silent(stopped, cleared)
      BY <2>5, ClearTyped, QuietMethods DEF Sound, Typed
    <3> HIDE DEF cleared
    <3>2. Silent(cleared, Persist(cleared, io))
      BY <3>1, QuietMethods DEF Typed
    <3> QED BY <2>5, <3>1, <3>2, SilentAgain
  <2>7. fresh = [World EXCEPT !.ctl.session = TRUE, !.ctl.statusHere = FALSE,
                              !.ctl.lcd = NoFrame, !.ctl.passive = NoPassive]
    BY DEF World
  <2>8. (Becomes(stopped) \/ Becomes(Persist(cleared, io))) /\ UNCHANGED rx
    <3> HIDE DEF fresh
    <3> QED BY <1>3, <2>7 DEF BeginSession, ObserveSerialSession
  <2> HIDE DEF stopped, cleared
  <2> QED BY <2>5, <2>6, <2>8, SilentStep
<1> QED BY <1>2, <1>3

\* A deadline writes only the DISPLAY key of a recovery, and not in a pause that has not
\* seen RX.
LEMMA TickWaits ==
    ASSUME IInv, Waiting, NEW late \in BOOLEAN, NEW expired \in MayExpire, NEW io \in IOs,
           Tick(late, expired, io)
    PROVE  Waiting' /\ WritesOnRX
<1> DEFINE s == Expire(World, expired, io)
<1>1. World.nav = nav /\ World.line = line /\ Sound(World) /\ World \in Worlds
  BY DEF IInv, World, Sound, Typed
<1>2. Sound(s) /\ s \in Worlds /\ Silent(World, s) /\ (nav.mode = "active" => s.nav = nav)
  <2>1. expired \in BOOLEAN /\ (nav.mode = "active" => Active(World))
    BY <1>1 DEF MayExpire, Active
  <2>2. Sound(s) /\ Silent(World, s) /\ (Active(World) => s.nav = World.nav)
    BY <1>1, <2>1, ExpireSound, ExpireSilent
  <2> HIDE DEF s
  <2> QED BY <1>1, <2>1, <2>2 DEF Sound, Typed
<1>3. /\ UNCHANGED rx
      /\ \/ Becomes(s) \/ Becomes(Fail(s))
         \/ Active(s) /\ (s.nav.paused => s.nav.rxSeen) /\ Becomes(GiveUp(s, io))
  BY DEF Tick
<1>4. CASE Becomes(s) \/ Becomes(Fail(s))
  <2> HIDE DEF s
  <2>1. Silent(World, Fail(s))
    BY <1>2, QuietMethods, SilentAgain
  <2> QED BY <1>2, <1>3, <1>4, <2>1, SilentStep
<1>5. CASE Active(s) /\ (s.nav.paused => s.nav.rxSeen) /\ Becomes(GiveUp(s, io))
  <2> HIDE DEF s
  <2>1. nav.mode = "active" /\ s.nav = nav /\ s.line = line /\ line \in Seq(Keys)
    BY <1>1, <1>2, <1>5 DEF Silent, Active, Worlds
  <2>2. rx # "none" /\ rx' # "none"
    BY <1>3, <1>5, <2>1 DEF Waiting, Held
  <2>3. line' = GiveUp(s, io).line
    BY <1>5 DEF Becomes
  <2>4. \/ line' = line
        \/ \E key : key.name = "display" /\ line' = Append(line, key)
    BY <1>2, <2>1, <2>3, GiveUpDisplays
  <2>5. CASE line' = line
    BY <2>1, <2>2, <2>5 DEF Waiting, WritesOnRX
  <2>6. ASSUME NEW key, key.name = "display", line' = Append(line, key)
        PROVE  WritesOnRX
    <3>1. Len(line') = Len(line) + 1 /\ line'[Len(line) + 1] = key
      BY <2>1, <2>6
    <3> QED BY <2>6, <3>1 DEF WritesOnRX
  <2> QED BY <2>2, <2>4, <2>5, <2>6 DEF Waiting
<1> QED BY <1>3, <1>4, <1>5

\* Requests write no key.
LEMMA RequestsWait ==
    ASSUME IInv, Waiting, NEW io \in IOs,
           \/ \E policy \in Chosen, timer \in {"none", "set"} :
                 SetManualOverride(policy, timer, io)
           \/ RequestVerification \/ Recover(io) \/ ClearCompletedNormalOverride(io)
           \/ \E verify \in {"none", "startup"}, expired \in BOOLEAN :
                 Restart(verify, expired)
    PROVE  Waiting' /\ WritesOnRX
<1>1. World \in Worlds /\ World.nav = nav /\ World.line = line /\ World.ctl = ctl
      /\ line \in Seq(Keys) /\ disk \in Saves /\ DOMAIN World = {"nav", "ctl", "disk", "line"}
  BY DEF IInv, World, Sound, Typed, Worlds
<1> DEFINE Ends(u) == u.line = line /\ u.nav.mode # "active"
                      /\ DOMAIN u = {"nav", "ctl", "disk", "line"}
<1>2. ASSUME NEW u, Ends(u), NEW answer
      PROVE  Ends(ForgetComplete(u)) /\ Ends(Persist(u, answer))
  BY <1>2 DEF ForgetComplete, Persist, NoNav
<1>3. ASSUME NEW u, Ends(u), Becomes(u)
      PROVE  Waiting' /\ WritesOnRX
  BY <1>1, <1>3 DEF Becomes, Waiting, WritesOnRX
<1>4. ASSUME NEW policy \in Chosen, NEW timer \in {"none", "set"},
             SetManualOverride(policy, timer, io)
      PROVE  Waiting' /\ WritesOnRX
  <2> DEFINE u == [World EXCEPT !.ctl.override = policy, !.ctl.timer = timer,
                       !.ctl.desired = "unknown",
                       !.ctl.verify = IF policy = "unknown" THEN @ ELSE "none"]
  <2>1. Ends(u) /\ Becomes(Persist(ForgetComplete(u), io))
    BY <1>1, <1>4 DEF SetManualOverride
  <2> HIDE DEF u, Ends
  <2> QED BY <1>2, <1>3, <2>1
<1>5. CASE RequestVerification
  <2> DEFINE u == [World EXCEPT !.ctl.verify = "api", !.ctl.desired = "unknown"]
  <2>1. Ends(u) /\ Becomes(ForgetComplete(u))
    BY <1>1, <1>5 DEF RequestVerification
  <2> HIDE DEF u, Ends
  <2> QED BY <1>2, <1>3, <2>1
<1>6. ASSUME NEW t, Ends(t), OrTakenBack(t), nav.mode # "active"
      PROVE  Waiting' /\ WritesOnRX
  <2> DEFINE u == [World EXCEPT !.ctl.saveFailed = TRUE]
  <2>1. Ends(u) /\ (Becomes(t) \/ Becomes(u))
    BY <1>1, <1>6 DEF OrTakenBack
  <2> HIDE DEF u, Ends
  <2> QED BY <1>3, <1>6, <2>1
<1>7. CASE Recover(io)
  <2> DEFINE u == [World EXCEPT
                 !.nav = NoNav, !.ctl.override = "unknown", !.ctl.timer = "none",
                 !.ctl.verify = "none", !.ctl.desired = "unknown", !.ctl.mayBeInMenu = FALSE]
  <2>1. Ends(u) /\ OrTakenBack(Persist(u, io)) /\ nav.mode # "active"
    BY <1>1, <1>7 DEF Recover, NoNav
  <2> HIDE DEF u, Ends
  <2> QED BY <1>2, <1>6, <2>1
<1>8. CASE ClearCompletedNormalOverride(io)
  <2> DEFINE u == [World EXCEPT !.ctl.override = "unknown", !.ctl.timer = "none",
                                !.ctl.desired = "unknown"]
  <2>1. Ends(u) /\ OrTakenBack(Persist(ForgetComplete(u), io)) /\ nav.mode # "active"
    BY <1>1, <1>8 DEF ClearCompletedNormalOverride
  <2> HIDE DEF u, Ends
  <2> QED BY <1>2, <1>6, <2>1
<1>9. ASSUME NEW verify \in {"none", "startup"}, NEW expired \in BOOLEAN,
             Restart(verify, expired)
      PROVE  Waiting' /\ WritesOnRX
  <2> DEFINE u == [World EXCEPT !.nav = NoNav,
                       !.ctl = Started(disk, ctl.enabled, verify, expired)]
  <2>1. Ends(u) /\ Becomes(Persist(u, Good))
    BY <1>1, <1>9 DEF Restart, NoNav
  <2> HIDE DEF u, Ends
  <2> QED BY <1>2, <1>3, <2>1
<1> QED BY <1>4, <1>5, <1>7, <1>8, <1>9

\* Every step keeps the pauses and writes on RX.
LEMMA NextWaits == IInv /\ Waiting /\ [Next]_vars => Waiting' /\ (WritesOnRX \/ UNCHANGED vars)
<1> SUFFICES ASSUME IInv, Waiting, [Next]_vars
             PROVE  Waiting' /\ (WritesOnRX \/ UNCHANGED vars)
  OBVIOUS
<1>1. line \in Seq(Keys)
  BY DEF IInv, World, Sound, Typed, Worlds
<1>2. ASSUME UNCHANGED <<nav, rx>>, line' = line \/ (line # <<>> /\ line' = Tail(line))
      PROVE  Waiting' /\ WritesOnRX
  BY <1>1, <1>2 DEF Waiting, WritesOnRX
<1>3. CASE UNCHANGED vars
  BY <1>3 DEF vars, Waiting
<1>4. CASE AmpActs \/ AmpHasStored \/ Transmit \/ StatusAges \/ ObserveOldDisplay
  BY <1>2, <1>4 DEF AmpActs, AmpHasStored, Transmit, StatusAges, ObserveOldDisplay
<1>5. ASSUME NEW key, PressPanel(key)
      PROVE  Waiting' /\ WritesOnRX
  BY <1>2, <1>5 DEF PressPanel
<1>6. CASE RequestVerification
            \/ \E verify \in {"none", "startup"}, expired \in BOOLEAN : Restart(verify, expired)
  BY <1>6, RequestsWait, GoodTyped
<1>7. ASSUME NEW io \in SaveAnswers,
             \/ \E policy \in Policies \cup {"unknown"}, timer \in {"none", "set"} :
                   SetManualOverride(policy, timer, io)
             \/ Recover(io) \/ ClearCompletedNormalOverride(io)
      PROVE  Waiting' /\ WritesOnRX
  BY <1>7, RequestsWait, AnswersTyped DEF Chosen
<1>8. ASSUME NEW io \in SaveAnswers,
             \/ \E enabled \in BOOLEAN, expired \in MayExpire, band \in Bands :
                   SaveSettings(enabled, band, expired, io)
             \/ BeginSession(io)
      PROVE  Waiting' /\ WritesOnRX
  BY <1>8, SettingsWait, AnswersTyped
<1>9. ASSUME NEW io \in SaveAnswers, NEW tx \in {amp.tx, "unknown"},
             NEW expired \in MayExpire, NEW band \in Bands,
             ObserveStatus(tx, band, expired, io)
      PROVE  Waiting' /\ WritesOnRX
  BY <1>9, StatusWaits, AnswersTyped
<1>10. ASSUME NEW valid \in BOOLEAN, NEW cooled \in BOOLEAN, NEW io \in Answers,
              ObserveDisplay(valid, cooled, io)
       PROVE  Waiting' /\ WritesOnRX
  BY <1>10, DisplayWaits, AnswersTyped
<1>11. ASSUME NEW late \in BOOLEAN, NEW expired \in MayExpire, NEW io \in Answers,
              Tick(late, expired, io)
       PROVE  Waiting' /\ WritesOnRX
  BY <1>11, TickWaits, AnswersTyped
<1>12. CASE Next
  BY <1>4, <1>5, <1>6, <1>7, <1>8, <1>9, <1>10, <1>11, <1>12 DEF Next
<1> QED BY <1>3, <1>12

\* After TX was seen, a key other than DISPLAY waits for a status frame and then a display
\* frame that show RX.
THEOREM KeysWait == Spec => KeysWaitForFreshRX
<1>1. Init => Waiting
  BY DEF Init, NoNav, Waiting
<1>2. WritesOnRX \/ UNCHANGED vars
          => [Len(line') > Len(line) /\ nav.mode = "active"
                  /\ line'[Len(line')].name # "display" => rx' = "both"]_vars
  BY DEF WritesOnRX
<1>3. Spec => []IInv
  BY FanInvariant
<1> QED BY <1>1, <1>2, <1>3, NextWaits, PTL DEF Spec, KeysWaitForFreshRX
=============================================================================
