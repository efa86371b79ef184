------------------------------ MODULE MenuDebug ------------------------------
(***************************************************************************)
(* The menu-debug wizard: menudebug.Controller, whose methods each run     *)
(* under c.mu, and the runner and handlers of menuDebugAPI that call it.   *)
(*                                                                         *)
(* A session walks the setup menu to a capability (discovery), applies a   *)
(* reviewed plan, waits for the operator, restores the original value and  *)
(* waits again.  Every key is authorized on the last frame, written under  *)
(* dispatchMu after the session was checked again, and answered by a frame *)
(* that differs from the one it was decided on.                            *)
(*                                                                         *)
(* Frames come from one read loop, so an accepted frame is newer than what *)
(* the session remembers.  Of the revision, what is left is whether the    *)
(* one the runner holds is still the session's (run.cur).                  *)
(*                                                                         *)
(* Timing assumptions: a key acts well within the 8 s receipt timeout and, *)
(* like the frame that shows it, before an operator arms again.  Nobody    *)
(* else moves the menu while a session may send keys.                      *)
(***************************************************************************)
EXTENDS Naturals, Sequences

CONSTANTS
    SetupKeys,      \* for each model, its setup screens in cursor order
    Amps,           \* the amplifiers: model and stored values
    Requests,       \* the lists of capabilities an operator may ask for
    MaxEvents       \* bound on transmissions, new sessions, changed settings, restarts,
                    \* expiries and everything that goes wrong, together

Models == {"first", "third", "other"}
Capabilities == {"fan", "bank"}

VARIABLES
    amp,        \* the amplifier: screen, edited and stored values, STANDBY, OPERATE or TX
    line,       \* keys written and not yet acted on
    rt,         \* c.runtime and c.lastObservedModel
    fan,        \* fan control: off, a completed Normal override, or active
    sess,       \* c.session
    reports,    \* c.reports
    run,        \* the runner of the session
    starting,   \* a handler began a transaction and has not called startGuardedTest
    events

\* An amplifier as it is when it is connected.
Idle(a) == [model |-> a.model, at |-> "home", edit |-> "a", fan |-> a.fan, bank |-> a.bank,
            mode |-> "standby"]

vars == <<amp, line, rt, fan, sess, reports, run, starting, events>>

Values == {"a", "b"}            \* NORMAL or bank A, and the other value
Flip(v) == IF v = "a" THEN "b" ELSE "a"

SetupEntry == [fan |-> "setupFan", bank |-> "setupBank"]
Setup == UNION {{SetupKeys[m][i] : i \in DOMAIN SetupKeys[m]} : m \in Models}

\* The pages with their cursor position, and what RIGHT does on each.
NextPage == [scale |-> "fan", fan |-> "save", save |-> "scale",
             normal |-> "thirdSave", thirdSave |-> "quiet", quiet |-> "normal",
             bankA |-> "bankB", bankB |-> "bankSave", bankSave |-> "bankA",
             otherFan |-> "otherFan"]
Pages == DOMAIN NextPage
SavePages == {"save", "thirdSave", "bankSave"}
CapabilityOf(at) == IF at \in {"bankA", "bankB", "bankSave"} THEN "bank"
                    ELSE IF at \in Pages THEN "fan" ELSE "none"
OtherScreens == {"home", "elsewhere", "storing"} \cup Pages
Screens == OtherScreens \cup Setup

\* The setup screens of a model are different from each other and from every other
\* screen; a setup menu does not open on an entry that is tested, and the reviewed
\* profiles have the entries their plans return to.
ASSUME MenuDebugAssumption ==
    /\ SetupKeys \in [Models -> Seq(STRING)]
    /\ \A m \in Models : Len(SetupKeys[m]) > 1
    /\ \A m \in Models : \A i, j \in DOMAIN SetupKeys[m] :
           SetupKeys[m][i] = SetupKeys[m][j] => i = j
    /\ \A m \in Models : SetupKeys[m][1] \notin {SetupEntry.fan, SetupEntry.bank}
    /\ \A m \in {"first", "third"} : \E i \in DOMAIN SetupKeys[m] :
           SetupKeys[m][i] = SetupEntry.fan
    /\ \E i \in DOMAIN SetupKeys["first"] : SetupKeys["first"][i] = SetupEntry.bank
    /\ Setup \cap (OtherScreens \cup {"none"}) = {}
    /\ Amps \subseteq [model : Models, fan : {"a", "b"}, bank : {"a", "b"}]
    /\ Requests \subseteq Seq(Capabilities) /\ MaxEvents \in Nat

\* The page behind a setup entry; radio pages open on the active value.
EntryPage(model, cap, value) ==
    IF cap = "bank" THEN IF value = "a" THEN "bankA" ELSE "bankB"
    ELSE CASE model = "first" -> "scale"
           [] model = "third" -> IF value = "a" THEN "normal" ELSE "quiet"
           [] OTHER -> "otherFan"

NoScreen == [at |-> "none", value |-> "none", reading |-> 0]
NoPlan == [profile |-> "none", original |-> "none"]
NoSession == [phase |-> "idle", cap |-> "none", wanted |-> <<>>, completed |-> {},
              mayBeInMenu |-> FALSE, lease |-> FALSE, acted |-> FALSE,
              seen |-> {}, last |-> NoScreen, from |-> NoScreen, pending |-> FALSE,
              exiting |-> FALSE, plan |-> NoPlan, step |-> 1, retained |-> FALSE,
              gen |-> 0]
NoKey == [name |-> "none", at |-> "none", value |-> "none", model |-> "none"]
NoRun == [pc |-> "idle", cur |-> FALSE, phase |-> "none", key |-> NoKey, again |-> FALSE,
          cancelled |-> FALSE, abandoned |-> FALSE]

Running == {"discovering", "plan-ready", "applying", "restoring"}
Terminal == {"complete", "failed", "expired", "aborted"}
Active(s) == s.phase \notin Terminal \cup {"idle"}

Event(happens) == events' = events + (IF happens THEN 1 ELSE 0) /\ events' <= MaxEvents

\* What a method works on; Becomes installs what it leaves.
World == [sess |-> sess, reports |-> reports, run |-> run]
Becomes(left) == \E w \in {left} : sess' = w.sess /\ reports' = w.reports /\ run' = w.run

-----------------------------------------------------------------------------
(* The reviewed plans: key, and the screen and value it must lead to.      *)

Step(key, at, value) == [key |-> key, at |-> at, value |-> value]

\* RestoreSetupWaypoints: from home to the entry of the capability.
ToEntry(model, cap) ==
    LET keys == SetupKeys[model]
        entry == CHOOSE i \in DOMAIN keys : keys[i] = SetupEntry[cap]
    IN  [i \in 1..entry |-> Step(IF i = 1 THEN "set" ELSE "right", keys[i], "none")]

\* Fault: the restoring half saves what the applying half left.
FirstFanFault(o, c) ==
    [applying |-> <<Step("set", "fan", c), Step("right", "save", c),
                    Step("set", "home", "any")>>,
     restoring |-> ToEntry("first", "fan") \o
                   <<Step("set", "scale", c), Step("right", "fan", c),
                     Step("right", "save", c), Step("set", "home", "any")>>]

FirstFan(o, c) ==
    [applying |-> <<Step("set", "fan", c), Step("right", "save", c),
                    Step("set", "home", "any")>>,
     restoring |-> ToEntry("first", "fan") \o
                   <<Step("set", "scale", c), Step("right", "fan", c), Step("set", "fan", o),
                     Step("right", "save", o), Step("set", "home", "any")>>]

ThirdFan(o, c) ==
    [applying |-> <<Step("right", "thirdSave", o), Step("right", "quiet", o),
                    Step("set", "quiet", c), Step("right", "normal", c),
                    Step("right", "thirdSave", c), Step("set", "home", "any")>>,
     restoring |-> ToEntry("third", "fan") \o
                   <<Step("set", "quiet", c), Step("right", "normal", c),
                     Step("set", "normal", o), Step("right", "thirdSave", o),
                     Step("set", "home", "any")>>]

FirstBank(o, c) ==
    [applying |-> <<Step("right", "bankB", o), Step("set", "bankB", c),
                    Step("right", "bankSave", c), Step("set", "home", c)>>,
     restoring |-> ToEntry("first", "bank") \o
                   <<Step("set", "bankB", c), Step("right", "bankSave", c),
                     Step("right", "bankA", c), Step("set", "bankA", o),
                     Step("right", "bankB", o), Step("right", "bankSave", o),
                     Step("set", "home", o)>>]

\* reviewedMenuDebugPlan: the profile a frame of a model is reviewed for.
Profile(cap, model, lcd) ==
    CASE cap = "fan" /\ model = "first" /\ lcd.at = "fan" -> "first-fan"
      [] cap = "fan" /\ model = "third" /\ lcd.at = "normal" /\ lcd.value = "a" -> "third-fan"
      [] cap = "bank" /\ model = "first" /\ lcd.at = "bankA" /\ lcd.value = "a" -> "first-bank"
      [] OTHER -> "none"

Steps(s) ==
    LET o == s.plan.original
        c == Flip(o)
    IN  CASE s.plan.profile = "first-fan" -> FirstFan(o, c)[s.phase]
          [] s.plan.profile = "third-fan" -> ThirdFan(o, c)[s.phase]
          [] OTHER -> FirstBank(o, c)[s.phase]

-----------------------------------------------------------------------------
(* How a session ends.                                                     *)

\* bumpLocked: the revision the runner holds is no longer the session's.
Bump(w) == [w EXCEPT !.run.cur = FALSE]

Report(w, kind) == [cap |-> w.sess.cap, kind |-> kind, gen |-> w.sess.gen, model |-> rt.model]

\* retainIncompleteReportLocked
Retain(w) ==
    LET s == w.sess IN
    IF s.retained \/ s.cap = "none" \/ (s.seen = {} /\ ~s.acted) THEN w
    ELSE [w EXCEPT !.reports = @ \cup {Report(w, "incomplete")}, !.sess.retained = TRUE]

\* What a session that is over no longer uses is dropped.
Over(s, phase) ==
    [NoSession EXCEPT !.phase = phase, !.cap = s.cap, !.gen = s.gen, !.retained = s.retained,
                      !.mayBeInMenu = s.mayBeInMenu, !.acted = s.acted \/ s.seen # {}]

Ended(w, phase) ==
    LET kept == Retain(w) IN Bump([kept EXCEPT !.sess = Over(kept.sess, phase)])

\* failLocked
Fail(w) ==
    [Ended(w, "failed") EXCEPT
        !.sess.mayBeInMenu = @ \/ w.sess.acted
                               \/ w.sess.phase \in {"discovering", "applying", "restoring"}]

\* A new serial session or another model: the evidence is discarded.
Invalidate(w) ==
    IF ~Active(w.sess) /\ w.reports = {} THEN w
    ELSE Bump([w EXCEPT !.sess = Over(@, "failed"), !.reports = {}])

\* completeTopologyLocked
CompleteTopology(w, home) ==
    Bump([w EXCEPT !.reports = @ \cup {Report(w, "topology")},
                   !.sess.completed = @ \cup {w.sess.cap}, !.sess.cap = "none",
                   !.sess.phase = IF home THEN "armed" ELSE "awaiting-home",
                   !.sess.lease = ~home, !.sess.mayBeInMenu = ~home,
                   !.sess.last = NoScreen, !.sess.seen = {}, !.sess.acted = TRUE,
                   !.sess.pending = FALSE, !.sess.exiting = FALSE])

-----------------------------------------------------------------------------
(* The evidence the read loop delivers.                                    *)

Screen(lcd) == [at |-> lcd.at, value |-> lcd.value, reading |-> lcd.reading]
Home(lcd) == lcd.at = "home" /\ lcd.mode = "standby"

NoLcd == [at |-> "none", value |-> "none", reading |-> 0, mode |-> "unknown"]
NoRuntime == [model |-> "none", gen |-> 0, status |-> "unknown", heard |-> "gone",
              lcd |-> NoLcd, shown |-> "gone"]

\* What the amplifier displays; the home screen shows readings that change, and the
\* bank where there is one.  Without a valid checksum STANDBY and RX are unknown.
Frame(reading, valid) ==
    [at |-> amp.at,
     value |-> IF amp.at \in Pages THEN amp.edit
               ELSE IF amp.at = "home" /\ amp.model = "first" THEN amp.bank ELSE "none",
     reading |-> IF amp.at = "home" THEN reading ELSE 0,
     mode |-> IF valid THEN amp.mode ELSE "unknown"]

\* Fault: a repeated copy of the screen before the key is taken for its answer.
DiscoveryFrameFault(w, lcd) ==
    LET newer == [w EXCEPT !.sess.last = Screen(lcd)] IN
    IF w.sess.exiting
    THEN IF Home(lcd) THEN CompleteTopology(newer, TRUE) ELSE Fail(newer)
    ELSE Bump([newer EXCEPT !.sess.seen = @ \cup {Screen(lcd)}, !.sess.pending = FALSE])

\* observeDisplay while a discovery key awaits its receipt.
DiscoveryFrame(w, lcd) ==
    LET newer == [w EXCEPT !.sess.last = Screen(lcd)] IN
    IF Screen(lcd) = w.sess.last THEN w
    ELSE IF w.sess.exiting
    THEN IF Home(lcd) THEN CompleteTopology(newer, TRUE) ELSE Fail(newer)
    ELSE IF Screen(lcd) \in w.sess.seen THEN Fail(newer)
    ELSE Bump([newer EXCEPT !.sess.seen = @ \cup {Screen(lcd)}, !.sess.pending = FALSE])

\* matchesStepExpectation
Expected(step, lcd) ==
    /\ lcd.at = step.at /\ step.value \in {"any", lcd.value}
    /\ step.at = "home" => Home(lcd)

\* Fault: the end of the plan is noticed one frame late.
PlannedFrameFault(w, lcd) ==
    LET s == w.sess
        newer == [w EXCEPT !.sess.last = Screen(lcd)]
        end == s.step > Len(Steps(s))
    IN  IF Screen(lcd) = s.last THEN w
        ELSE IF end /\ lcd.at = "storing" THEN Bump(newer)
        ELSE IF ~Expected(Steps(s)[s.step], lcd) THEN Fail(newer)
        ELSE Bump([w EXCEPT
                 !.sess.pending = FALSE, !.sess.step = @ + 1,
                 !.sess.from = IF end THEN NoScreen ELSE Screen(lcd), !.sess.last = NoScreen,
                 !.sess.phase = IF ~end THEN @ ELSE IF @ = "applying" THEN "awaiting-apply"
                                                              ELSE "awaiting-restore"])

\* observeDisplay while a planned key awaits its receipt.
PlannedFrame(w, lcd) ==
    LET s == w.sess
        newer == [w EXCEPT !.sess.last = Screen(lcd)]
        end == s.step = Len(Steps(s))
    IN  IF Screen(lcd) = s.last THEN w
        ELSE IF end /\ lcd.at = "storing" THEN Bump(newer)
        ELSE IF ~Expected(Steps(s)[s.step], lcd) THEN Fail(newer)
        ELSE Bump([w EXCEPT
                 !.sess.pending = FALSE, !.sess.step = @ + 1,
                 !.sess.from = IF end THEN NoScreen ELSE Screen(lcd), !.sess.last = NoScreen,
                 !.sess.phase = IF ~end THEN @ ELSE IF @ = "applying" THEN "awaiting-apply"
                                                              ELSE "awaiting-restore"])

\* observeDisplay.  Readings change all the time; it matters on a frame that is compared
\* with the home screen a key was decided on, and there it counts as an event.
ObserveDisplay(reading, valid) ==
    LET lcd == Frame(reading, valid)
        s == sess
    IN  /\ rt.gen > 0 /\ Event(~valid \/ reading # 0)
        /\ reading # 0 => s.pending /\ s.last.at = "home"
        /\ rt' = [rt EXCEPT !.lcd = lcd, !.shown = "fresh"]
        /\ Becomes(
             IF ~valid THEN World
             ELSE IF Active(s) /\ lcd.mode = "tx" THEN Fail(World)
             ELSE IF s.phase = "awaiting-home" /\ Home(lcd)
             THEN Bump([World EXCEPT !.sess.phase = "armed", !.sess.lease = FALSE,
                                     !.sess.mayBeInMenu = FALSE])
             ELSE IF s.phase = "discovering" /\ s.pending THEN DiscoveryFrame(World, lcd)
             ELSE IF s.phase \in {"applying", "restoring"} /\ s.pending
             THEN PlannedFrame(World, lcd) ELSE World)
        /\ UNCHANGED <<amp, line, fan, starting>>

\* ObserveStatusFromSerialSession: a frame that does not name the model keeps the last.
ObserveStatus(named) ==
    /\ rt.gen > 0 /\ Event(~named)
    /\ rt' = [rt EXCEPT !.model = IF named THEN amp.model ELSE @,
                        !.status = amp.mode, !.heard = "fresh"]
    /\ LET told == IF named /\ rt.model \notin {"none", amp.model} THEN Invalidate(World)
                                                                ELSE World
       IN  Becomes(IF amp.mode = "tx" /\ Active(told.sess) THEN Fail(told) ELSE told)
    /\ UNCHANGED <<amp, line, fan, starting>>

\* ObserveSerialSession: a new port, maybe with another amplifier behind it.
BeginSession ==
    /\ Event(rt.gen > 0) /\ line = <<>>
    /\ rt' = [rt EXCEPT !.gen = @ + 1, !.model = "none", !.heard = "gone", !.lcd = NoLcd,
                        !.shown = "gone"]
    /\ Becomes(Invalidate(World))
    /\ UNCHANGED <<line, fan, starting>>
    /\ \/ UNCHANGED amp
       \/ rt.gen > 0 /\ \E a \in Amps : amp' = Idle(a)

\* Nothing is heard, or shown, for evidenceWindow.
EvidenceAges ==
    /\ Event(TRUE)
    /\ \/ rt.heard = "fresh" /\ rt' = [rt EXCEPT !.heard = "old"]
       \/ rt.shown = "fresh" /\ rt' = [rt EXCEPT !.shown = "old"]
    /\ UNCHANGED <<amp, line, fan, sess, reports, run, starting>>

\* The session's lifetime is over: Tick or the next call notices.
Expire ==
    /\ sess.phase \notin {"idle", "expired"} /\ Event(TRUE)
    /\ Becomes(Ended(World, "expired"))
    /\ UNCHANGED <<amp, line, rt, fan, starting>>

-----------------------------------------------------------------------------
(* The runner.                                                             *)

\* validateWritePrerequisites
Prerequisites(home) ==
    /\ rt.heard = "fresh" /\ rt.status = "standby"
    /\ rt.shown = "fresh" /\ rt.lcd.mode = "standby"
    /\ fan = "off"
    /\ home => rt.lcd.at = "home"

\* What the coordinator and the transport answer: a key is written, written and
\* lost, written but reported as failed, or not written.
Good == [send |-> "sent", granted |-> TRUE, hold |-> FALSE]
Fails(io) == io # Good

At(w, pc) == [w EXCEPT !.run.pc = pc]

\* consumeActionLocked: a key for this screen, authorized once.
Consume(w, name, io) ==
    IF io.hold \/ rt.model = "none" \/ "gone" \in {rt.heard, rt.shown}
    THEN At(Fail(w), "stop")
    ELSE [w EXCEPT !.sess.acted = TRUE, !.run.pc = "check", !.run.cur = TRUE,
                   !.run.phase = w.sess.phase,
                   !.run.key = [name |-> name, at |-> rt.lcd.at, value |-> rt.lcd.value,
                                model |-> rt.model]]

\* Fault: entering the menu is not recorded.
AuthorizeDiscoveryFault(w, name, io) ==
    Consume([w EXCEPT !.sess.seen = @ \cup {Screen(rt.lcd)}, !.sess.last = Screen(rt.lcd),
                      !.sess.pending = TRUE], name, io)

\* AuthorizeDiscovery on the current frame.
AuthorizeDiscovery(w, name, io) ==
    Consume([w EXCEPT !.sess.seen = @ \cup {Screen(rt.lcd)}, !.sess.last = Screen(rt.lcd),
                      !.sess.pending = TRUE, !.sess.mayBeInMenu = @ \/ name = "set"],
            name, io)

\* InstallPlan: bound to the screen that was accepted last and, for a fan plan, to the
\* setup screens that were passed.
InstallPlan(w, profile) ==
    LET keys == SetupKeys[rt.model]
        passed == {f.at : f \in {g \in w.sess.seen : g.at \in Setup}}
        waypoints == {ToEntry(rt.model, "fan")[i].at : i \in DOMAIN ToEntry(rt.model, "fan")}
    IN  IF w.sess.last # Screen(rt.lcd) \/ (w.sess.cap = "fan" /\ passed # waypoints)
        THEN At(Fail(w), "stop")
        ELSE Bump([w EXCEPT !.sess.phase = "plan-ready", !.sess.step = 1,
                            !.sess.plan = [profile |-> profile, original |-> rt.lcd.value],
                            !.sess.from = Screen(rt.lcd), !.sess.last = NoScreen,
                            !.sess.seen = {}])

AuthorizeTopologyExit(w, io) ==
    Consume([w EXCEPT !.sess.seen = @ \cup {Screen(rt.lcd)}, !.sess.last = Screen(rt.lcd),
                      !.sess.pending = TRUE, !.sess.exiting = TRUE], "display", io)

\* finishTopologyOnly: only the First Series leaves its pages by DISPLAY.
FinishTopologyOnly(w, io) ==
    IF CapabilityOf(rt.lcd.at) # w.sess.cap THEN At(Fail(w), "stop")
    ELSE IF rt.model = "first" THEN AuthorizeTopologyExit(w, io)
    ELSE CompleteTopology(w, FALSE)

\* sendDiscovery up to the write; an unreviewed entry page may be refused by its legend.
Discover(w, legend, io) ==
    LET at == rt.lcd.at
        profile == Profile(w.sess.cap, rt.model, rt.lcd)
    IN  IF w.sess.pending THEN At(w, "stop")
        ELSE IF at = SetupEntry[w.sess.cap]
        THEN IF legend THEN AuthorizeDiscovery(w, "set", io) ELSE At(w, "stop")
        ELSE CASE at = "home" -> AuthorizeDiscovery(w, "set", io)
               [] at \in Setup -> AuthorizeDiscovery(w, "right", io)
               [] at = "scale" /\ w.sess.cap = "fan" /\ rt.model = "first" ->
                      AuthorizeDiscovery(w, "right", io)
               [] at \in Pages /\ profile # "none" -> InstallPlan(w, profile)
               [] at \in Pages \ {"scale"} /\ profile = "none" -> FinishTopologyOnly(w, io)
               [] OTHER -> At(w, "stop")

\* beginPlan
BeginPlan(w, to) ==
    Bump([w EXCEPT !.sess.phase = to, !.sess.step = 1, !.sess.pending = FALSE])

\* AuthorizeNext
AuthorizeNext(w, io) ==
    LET s == w.sess
        entry == s.phase = "restoring" /\ s.step = 1
        step == Steps(s)[s.step]
        saves == s.step = Len(Steps(s))
    IN  IF s.pending THEN At(w, "stop")
        ELSE IF \/ entry /\ ~Home(rt.lcd)
                \/ ~entry /\ Screen(rt.lcd) # s.from
                \/ saves /\ rt.lcd.at \notin SavePages
        THEN At(Fail(w), "stop")
        ELSE Consume([w EXCEPT !.sess.pending = TRUE, !.sess.last = Screen(rt.lcd),
                               !.sess.mayBeInMenu = @ \/ step.key = "set"], step.key, io)

\* nextCapability
NextCapability(s) ==
    LET open == {i \in DOMAIN s.wanted : s.wanted[i] \notin s.completed}
    IN  IF open = {} THEN "none" ELSE s.wanted[CHOOSE i \in open : \A j \in open : i <= j]

Complete(w) == Bump([w EXCEPT !.sess = Over(@, "complete")])

\* runGuardedTestContext, from one look at the session to an authorized key.  Waiting
\* for the physical home, it looks again until the phase changes.
RunnerTop(legend, io) ==
    /\ run.pc = "top" /\ Event(Fails(io))
    /\ ~legend => rt.model = "other"
    /\ sess.phase # "awaiting-home" \/ run.cancelled
    /\ Becomes(CASE run.cancelled -> At(World, "done")
                 [] sess.phase = "plan-ready" /\ ~run.cancelled ->
                        BeginPlan(World, "applying")
                 [] sess.phase = "discovering" /\ ~run.cancelled -> Discover(World, legend, io)
                 [] sess.phase \in {"applying", "restoring"} /\ ~run.cancelled ->
                        AuthorizeNext(World, io)
                 [] sess.phase = "armed" /\ ~run.cancelled ->
                        At(IF NextCapability(sess) = "none" THEN Complete(World) ELSE World,
                           "done")
                 [] OTHER -> At(World, "done"))
    /\ UNCHANGED <<amp, line, rt, fan, starting>>

\* sendAuthorized under dispatchMu: everything is checked again.
RunnerChecks ==
    /\ run.pc = "check"
    /\ run' = [run EXCEPT !.pc = IF /\ ~run.cancelled /\ run.cur
                                    /\ Prerequisites(run.phase = "discovering"
                                                         /\ run.key.at = "home")
                                 THEN "write" ELSE "fail"]
    /\ UNCHANGED <<amp, line, rt, fan, sess, reports, starting, events>>

\* The write.  The transport refuses it when the port, the model or the operating state
\* is no longer the one it was authorized for.
RunnerWrites(io) ==
    /\ run.pc = "write"
    /\ \E refuses \in {rt.gen # sess.gen \/ rt.status # "standby" \/ rt.model # run.key.model} :
          /\ refuses => io.send = "refused"
          /\ Event(Fails(io) /\ ~refuses)
    /\ line' = IF io.send \in {"sent", "unconfirmed"} THEN Append(line, run.key) ELSE line
    /\ run' = [run EXCEPT !.pc = IF io.send \in {"sent", "lost"} THEN "wait" ELSE "fail",
                          !.key = NoKey]
    /\ UNCHANGED <<amp, rt, fan, sess, reports, starting>>

\* Fail with the revision of the authorization; if that is stale, stopGuardedTest.
RunnerFails ==
    /\ run.pc = "fail"
    /\ Becomes(IF run.cur THEN At(Fail(World), "done") ELSE At(World, "stop"))
    /\ UNCHANGED <<amp, line, rt, fan, starting, events>>

\* waitForGuardedReceipt: the receipt came, or the prerequisites are lost.
RunnerWaits ==
    /\ run.pc = "wait"
    /\ \E receipt \in {sess.phase # run.phase \/ ~sess.pending} :
          /\ run.cancelled \/ receipt \/ ~Prerequisites(FALSE)
          /\ Becomes(At(World, IF run.cancelled THEN "done" ELSE IF receipt THEN "top"
                               ELSE "giveUp"))
    /\ UNCHANGED <<amp, line, rt, fan, starting, events>>

\* Fault: the receipt timeout never fires.
RunnerTimesOutFault == FALSE /\ UNCHANGED vars

\* Its timer fires; before the amplifier has acted and was shown, that is an event.
RunnerTimesOut ==
    /\ run.pc = "wait"
    /\ Event(line # <<>> \/ \A reading \in {0, 1} : rt.lcd # Frame(reading, TRUE))
    /\ Becomes(At(World, "giveUp"))
    /\ UNCHANGED <<amp, line, rt, fan, starting>>

\* stopGuardedTest, while the transaction runs, and failPlannedTransaction, whatever
\* the phase: both read the revision and fail the session with it.
RunnerReadsRevision ==
    /\ run.pc \in {"stop", "giveUp"}
    /\ run' = IF sess.phase = "expired" \/ (run.pc = "stop" /\ sess.phase \notin Running)
              THEN [run EXCEPT !.pc = "done"]
              ELSE [run EXCEPT !.pc = "stopping", !.cur = TRUE]
    /\ UNCHANGED <<amp, line, rt, fan, sess, reports, starting, events>>

\* A stale revision is not tried again.
RunnerStops ==
    /\ run.pc = "stopping"
    /\ Becomes(IF run.cur THEN At(Fail(World), "done")
               ELSE [At(World, "done") EXCEPT !.run.abandoned = sess.phase \in Running])
    /\ UNCHANGED <<amp, line, rt, fan, starting, events>>

\* The goroutine of startGuardedTest runs again if it was asked to meanwhile.
RunnerReturns ==
    /\ run.pc = "done"
    /\ run' = IF run.again THEN [run EXCEPT !.pc = "top", !.again = FALSE, !.abandoned = FALSE]
              ELSE [NoRun EXCEPT !.abandoned = run.abandoned]
    /\ UNCHANGED <<amp, line, rt, fan, sess, reports, starting, events>>

\* Fault: a call that finds the runner at work is forgotten.
StartGuardedTestFault ==
    /\ starting /\ starting' = FALSE
    /\ run' = IF run.pc = "idle" THEN [NoRun EXCEPT !.pc = "top"] ELSE run
    /\ UNCHANGED <<amp, line, rt, fan, sess, reports, events>>

\* startGuardedTest: one runner per session.
StartGuardedTest ==
    /\ starting /\ starting' = FALSE
    /\ run' = IF run.pc = "idle" THEN [NoRun EXCEPT !.pc = "top"]
                                 ELSE [run EXCEPT !.again = TRUE]
    /\ UNCHANGED <<amp, line, rt, fan, sess, reports, events>>

-----------------------------------------------------------------------------
(* The requests of operators.                                              *)

\* POST session.  A completed Normal override is cleared by the way; when that fails,
\* the provisional session is aborted.
Arm(request, cleared) ==
    LET armed == [NoSession EXCEPT !.phase = "armed", !.wanted = request, !.gen = rt.gen]
    IN  /\ ~Active(sess) /\ rt.heard = "fresh" /\ rt.status = "standby"
        /\ rt.shown = "fresh" /\ Home(rt.lcd)
        /\ fan # "on" /\ (fan = "off" => cleared)
        /\ line = <<>> /\ amp.at = "home" /\ ~starting /\ run.pc # "write"
        /\ fan' = IF cleared THEN "off" ELSE fan
        /\ sess' = IF cleared THEN armed ELSE [armed EXCEPT !.phase = "aborted"]
        /\ reports' = {} /\ run' = NoRun
        /\ UNCHANGED <<amp, line, rt, starting, events>>

\* Begin: the lease is taken and the session starts afresh.
Begin(w) ==
    Bump([w EXCEPT !.sess = [NoSession EXCEPT
             !.phase = "discovering", !.cap = NextCapability(w.sess), !.lease = TRUE,
             !.wanted = w.sess.wanted, !.completed = w.sess.completed, !.gen = w.sess.gen]])

BeginOrComplete(w, granted) ==
    IF NextCapability(w.sess) = "none" THEN Becomes(Complete(w)) /\ UNCHANGED starting
    ELSE IF granted THEN Becomes(Begin(w)) /\ starting' = TRUE
    ELSE Becomes(w) /\ UNCHANGED starting

\* POST session/advance
Advance(granted) ==
    /\ sess.phase = "armed" /\ ~starting /\ Event(~granted)
    /\ BeginOrComplete(World, granted)
    /\ UNCHANGED <<amp, line, rt, fan>>

\* POST session/verification: Confirm and what follows it.
Verification(granted) ==
    /\ ~starting /\ Event(~granted)
    /\ \/ /\ sess.phase = "awaiting-apply" /\ granted
          /\ Becomes(BeginPlan(World, "restoring"))
          /\ starting' = TRUE
       \/ /\ sess.phase = "awaiting-restore"
          /\ BeginOrComplete(Bump([World EXCEPT
                 !.reports = @ \cup {Report(World, "restored")},
                 !.sess.completed = @ \cup {sess.cap}, !.sess.phase = "armed",
                 !.sess.cap = "none", !.sess.plan = NoPlan, !.sess.lease = FALSE,
                 !.sess.mayBeInMenu = FALSE]), granted)
    /\ UNCHANGED <<amp, line, rt, fan>>

\* The operator denies: Confirm fails the session, in whatever phase it is.
Deny ==
    /\ sess.phase \notin {"idle", "expired"} /\ Event(TRUE)
    /\ Becomes(Fail(World))
    /\ UNCHANGED <<amp, line, rt, fan, starting>>

Aborted(w) ==
    [Ended(w, "aborted") EXCEPT !.sess.mayBeInMenu = @ \/ ~Home(rt.lcd),
                                !.run.cancelled = @ \/ w.run.pc # "idle",
                                !.run.again = FALSE]

\* Fault: abort does not wait for a write in progress.
AbortFault ==
    /\ sess.phase \notin {"idle", "expired"} /\ Event(TRUE)
    /\ Becomes(Aborted(World))
    /\ UNCHANGED <<amp, line, rt, fan, starting>>

\* POST session/abort, under dispatchMu.
Abort ==
    /\ sess.phase \notin {"idle", "expired"} /\ Event(TRUE)
    /\ run.pc # "write"
    /\ Becomes(Aborted(World))
    /\ UNCHANGED <<amp, line, rt, fan, starting>>

\* Fan control is switched on or off, or left with a completed Normal override.
SettingsChange(to) ==
    /\ fan # to /\ Event(TRUE) /\ fan' = to
    /\ UNCHANGED <<amp, line, rt, sess, reports, run, starting>>

\* The session is only in memory.
Restart ==
    /\ Event(TRUE) /\ line = <<>>
    /\ rt' = NoRuntime /\ sess' = NoSession /\ reports' = {} /\ run' = NoRun
    /\ starting' = FALSE
    /\ UNCHANGED <<amp, line, fan>>

-----------------------------------------------------------------------------
(* The amplifier and its operator.                                         *)

Shows(at) == amp' = [amp EXCEPT !.at = at]

Opens(cap) ==
    LET v == IF cap = "fan" THEN amp.fan ELSE amp.bank
    IN  amp' = [amp EXCEPT !.at = EntryPage(amp.model, cap, v), !.edit = v]

Store == IF CapabilityOf(amp.at) = "fan" THEN [amp EXCEPT !.at = "storing", !.fan = amp.edit]
                                         ELSE [amp EXCEPT !.at = "storing", !.bank = amp.edit]

\* What a key does on the screen the amplifier is on.
Acts(key) ==
    \/ key = "display" /\ amp' = [amp EXCEPT !.at = "home", !.edit = "a"]
    \/ /\ key = "right"
       /\ IF amp.at \in Pages THEN Shows(NextPage[amp.at])
          ELSE IF amp.at \in Setup
          THEN LET keys == SetupKeys[amp.model] IN
               \E i \in DOMAIN keys :
                   amp.at = keys[i] /\ Shows(keys[IF i = Len(keys) THEN 1 ELSE i + 1])
          ELSE UNCHANGED amp
    \/ /\ key = "set"
       /\ CASE amp.at = "home" -> IF amp.mode = "standby" THEN Shows(SetupKeys[amp.model][1])
                                                          ELSE UNCHANGED amp
            [] amp.at = SetupEntry.fan -> Opens("fan")
            [] amp.at = SetupEntry.bank -> Opens("bank")
            [] amp.at \in Setup \ {SetupEntry.fan, SetupEntry.bank} -> Shows("elsewhere")
            [] amp.at = "fan" -> amp' = [amp EXCEPT !.edit = Flip(@)]
            [] amp.at \in {"normal", "bankA"} -> amp' = [amp EXCEPT !.edit = "a"]
            [] amp.at \in {"quiet", "bankB"} -> amp' = [amp EXCEPT !.edit = "b"]
            [] amp.at \in SavePages -> amp' = Store
            [] OTHER -> UNCHANGED amp

AmpActs ==
    /\ line # <<>> /\ Acts(Head(line).name) /\ line' = Tail(line)
    /\ UNCHANGED <<rt, fan, sess, reports, run, starting, events>>

AmpHasStored ==
    /\ amp.at = "storing" /\ amp' = [amp EXCEPT !.at = "home", !.edit = "a"]
    /\ UNCHANGED <<line, rt, fan, sess, reports, run, starting, events>>

\* The operator recovers the panel by hand, when the runner has returned or waits for it.
PressDisplay ==
    /\ sess.phase \in Terminal \cup {"idle", "awaiting-home"}
    /\ line = <<>> /\ run.pc \in {"idle", "top"} /\ amp.at # "home" /\ Acts("display")
    /\ UNCHANGED <<line, rt, fan, sess, reports, run, starting, events>>

\* Somebody keys the amplifier or switches to OPERATE, and back.
ChangeMode(to) ==
    /\ amp.mode # to /\ "standby" \in {amp.mode, to}
    /\ amp' = [amp EXCEPT !.mode = to] /\ Event(to # "standby")
    /\ UNCHANGED <<line, rt, fan, sess, reports, run, starting>>

\* Another model answers on the same port, after more than evidenceWindow.
Replace ==
    /\ "fresh" \in {rt.heard, rt.shown} /\ line = <<>> /\ run.pc # "write" /\ Event(TRUE)
    /\ \E a \in Amps : a.model # amp.model /\ amp' = Idle(a)
    /\ rt' = [rt EXCEPT !.heard = "old", !.shown = "old"]
    /\ UNCHANGED <<line, fan, sess, reports, run, starting>>

-----------------------------------------------------------------------------
Init ==
    /\ \E a \in Amps : amp = Idle(a)
    /\ line = <<>> /\ rt = NoRuntime /\ fan = "off"
    /\ sess = NoSession /\ reports = {} /\ run = NoRun /\ starting = FALSE /\ events = 0

AuthorizeAnswers == {Good, [Good EXCEPT !.hold = TRUE]}
WriteAnswers == {Good} \cup {[Good EXCEPT !.send = r] : r \in {"lost", "unconfirmed", "refused"}}

Next ==
    \/ AmpActs \/ AmpHasStored \/ PressDisplay \/ Replace
    \/ \E to \in {"standby", "operate", "tx"} : ChangeMode(to)
    \/ \E reading \in {0, 1}, valid \in BOOLEAN : ObserveDisplay(reading, valid)
    \/ \E named \in BOOLEAN : ObserveStatus(named)
    \/ BeginSession \/ EvidenceAges \/ Expire
    \/ \E legend \in BOOLEAN, io \in AuthorizeAnswers : RunnerTop(legend, io)
    \/ \E io \in WriteAnswers : RunnerWrites(io)
    \/ RunnerChecks \/ RunnerFails \/ RunnerWaits \/ RunnerTimesOut
    \/ RunnerReadsRevision \/ RunnerStops \/ RunnerReturns \/ StartGuardedTest
    \/ \E request \in Requests, cleared \in BOOLEAN : Arm(request, cleared)
    \/ \E granted \in BOOLEAN : Advance(granted) \/ Verification(granted)
    \/ Deny \/ Abort \/ Restart
    \/ \E to \in {"off", "manual", "on"} : SettingsChange(to)

Spec == Init /\ [][Next]_vars

\* The amplifier acts on keys and answers polls, the runner and the handlers run, and
\* timers fire; nothing is promised of operators, disturbances or the session's expiry.
LiveSpec ==
    /\ Spec
    /\ WF_vars(AmpActs \/ AmpHasStored)
    /\ WF_vars(ObserveDisplay(0, TRUE))
    /\ WF_vars(ObserveStatus(TRUE))
    /\ WF_vars(\/ RunnerTop(TRUE, Good) \/ RunnerChecks \/ RunnerFails \/ RunnerWaits
               \/ RunnerWrites(Good) \/ RunnerWrites([Good EXCEPT !.send = "refused"])
               \/ RunnerReadsRevision \/ RunnerStops \/ RunnerReturns)
    /\ WF_vars(RunnerTimesOut) /\ WF_vars(StartGuardedTest)

-----------------------------------------------------------------------------
Modes == {"standby", "operate", "tx"}
Phases == Running \cup Terminal \cup {"idle", "armed", "awaiting-home", "awaiting-apply",
                                      "awaiting-restore"}

\* The types; the step stays within the plan.
TypeOK ==
    /\ amp \in [model : Models, at : Screens, edit : Values, fan : Values, bank : Values,
                mode : Modes]
    /\ \A i \in DOMAIN line : line[i].name \in {"set", "right", "display"}
    /\ rt.model \in Models \cup {"none"} /\ rt.status \in Modes \cup {"unknown"}
    /\ {rt.heard, rt.shown} \subseteq {"gone", "old", "fresh"}
    /\ rt.lcd.at \in Screens \cup {"none"} /\ fan \in {"off", "manual", "on"}
    /\ sess.phase \in Phases /\ sess.cap \in Capabilities \cup {"none"}
    /\ sess.completed \subseteq Capabilities
    /\ sess.phase \in {"applying", "restoring"} => sess.step \in DOMAIN Steps(sess)
    /\ {sess.mayBeInMenu, sess.lease, sess.acted, sess.pending, sess.exiting, sess.retained,
        run.cur, run.again, run.cancelled, run.abandoned, starting} \subseteq BOOLEAN
    /\ run.pc \in {"idle", "top", "check", "write", "fail", "wait", "stop", "giveUp",
                   "stopping", "done"}
    /\ events \in 0..MaxEvents

\* A key meets the amplifier on the screen, and with the value, it was authorized on,
\* whichever frames are repeated or lost, whichever key is late or lost, and whichever
\* amplifier answers meanwhile.  Exempt is the SET that leaves home, and what follows in a
\* submenu it opened by mistake: a reading that changes on the home screen passes for the
\* answer to that SET, and a second SET is sent.
KeyFindsItsScreen ==
    line # <<>> =>
        LET key == Head(line)
        IN  \/ key.at = "home" \/ amp.at = "elsewhere"
            \/ amp.at = key.at /\ (amp.at \in Pages => amp.edit = key.value)

\* Whenever keys have taken the amplifier away from home, or still may, the session
\* says so and the operator is told to recover the panel; while it can still act, it
\* holds the lease.
OperatorIsTold ==
    sess.phase # "idle" /\ (amp.at # "home" \/ line # <<>>) =>
        sess.mayBeInMenu /\ (Active(sess) => sess.lease)

\* A capability that was tested is reported as complete only when the amplifier is
\* back home and has stored its original value again, whatever else went on.
RestoredWhenReported ==
    [][\A r \in reports' \ reports :
          r.kind = "restored" /\ r.model = amp.model =>
              /\ amp.at = "home" /\ line = <<>>
              /\ (IF r.cap = "fan" THEN amp.fan ELSE amp.bank) = sess.plan.original]_vars

\* Once abort was accepted, no key is written.
NoKeyAfterAbort == [][Len(line') > Len(line) => sess.phase # "aborted"]_vars

\* A guarded transaction never stands still: it ends or waits for the operator also
\* when keys or frames are lost, unless its runner gave up on a stale revision.
TransactionEnds == []<>(sess.phase \notin Running \/ run.abandoned)

\* What controller.go:106-109 says of ObserveSerialSession: no report outlives the port
\* and the model it was made with.  It does not hold: a session that failed so expires
\* later, and retains its evidence as an incomplete report again.
ReportsAreOfThisSession ==
    \A r \in reports : r.gen = rt.gen /\ ("none" \in {rt.model, r.model} \/ r.model = rt.model)
=============================================================================
