---------------------------- MODULE FanMenuProofs ----------------------------
(***************************************************************************)
(* Theorems about the fan controller and the amplifier: a key finds the    *)
(* screen it was decided on, and a fan mode that is recorded is the one    *)
(* the amplifier has stored.                                               *)
(***************************************************************************)
EXTENDS FanPolicyProofs

(* Where the amplifier is while a key is on its way.                       *)

\* The setup entry that leads to the fan page.
FanEntry == SetupKeys[Len(SetupKeys)]

\* The key does on the amplifier what it was written for.
Meets(key) ==
    CASE key.name = "operate" -> amp.at = "home" /\ amp.oper = key.oper
      [] key.name = "display" -> amp.at \in Setup
      [] OTHER -> /\ amp.at = key.at /\ amp.at \notin {"storing", "thirdStoring"}
                  /\ amp.at \in Pages => amp.shown = key.policy
                  /\ key.name = "set" => amp.at \notin Setup \ {FanEntry}

\* One key at a time, except that a DISPLAY may follow a RIGHT through the setup menu.
LineMeets(keys) ==
    \/ keys = <<>>
    \/ Len(keys) = 1 /\ Meets(keys[1])
    \/ /\ Len(keys) = 2 /\ amp.at \in Setup /\ Meets(keys[1])
       /\ keys[1].name = "right" /\ keys[2].name = "display"

\* A step that waits for a key: until the key has acted, the amplifier does not show what
\* the step waits for.
Unseen(step, n, key) ==
    /\ step \in {"standby:status", "setup:identify", "setup", "scale", "fan", "toggled",
                 "save", "thirdQuiet", "thirdTarget", "thirdToggled", "thirdSave",
                 "storing", "restore:status", "recover:home"}
    /\ step = "standby:status" => amp.oper = "operate"
    /\ step = "restore:status" => amp.oper = "standby"
    /\ step = "setup:identify" => amp.at = "home"
    /\ step = "setup" => /\ key.name = "right" /\ n.index > 1
                         /\ amp.at = SetupKeys[n.index - 1]
    /\ step \in {"scale", "thirdQuiet"} => amp.at \in Setup
    /\ step = "fan" => amp.at = "scale"
    /\ step \in {"toggled", "thirdToggled"} => Displayed.policy # n.target
    /\ step = "save" => key.name = "right" /\ amp.at = "fan"
    /\ step \in {"thirdTarget", "thirdSave"} => amp.at # n.expected
    /\ step = "storing" => key.name = "set" /\ amp.at \in {"save", "thirdSave"}

\* What a step knows of the amplifier, whether its key acted, was lost or is on its way.
Reached(step, n) ==
    /\ step = "setup" => amp.at \in Setup
    /\ step = "save" => amp.at \in {"fan", "save"} /\ amp.shown = n.target
    /\ step = "storing" =>
          \/ amp.at \in {"save", "thirdSave"} /\ amp.shown = n.target
          \/ amp.at \in {"storing", "thirdStoring", "home"} /\ amp.stored = n.target
    /\ step = "home" =>
          amp.at \in {"storing", "thirdStoring", "home"} /\ amp.stored = n.target

Resting(s) == s.nav.mode \in {"idle", "complete"}

\* The keys of a world and what its transaction knows of them.  Without a transaction,
\* none begins while a key is on its way.
Met(s) ==
    /\ LineMeets(s.line)
    /\ Active(s) => Reached(s.nav.step, s.nav)
    /\ Active(s) /\ s.line # <<>> =>
          Unseen(s.nav.step, s.nav, s.line[1])
              /\ (s.nav.step # "recover:home" => Len(s.line) = 1)
    /\ Resting(s) /\ s.line # <<>> => ~ControlActive(s.ctl)

-----------------------------------------------------------------------------
(* Methods that write no key.                                              *)

\* t is left of s without a key, another step or another reason for a transaction.
Calm(s, t) ==
    /\ t.line = s.line
    /\ Active(t) => /\ Active(s)
                    /\ t.nav.step = s.nav.step /\ t.nav.index = s.nav.index
                    /\ t.nav.target = s.nav.target /\ t.nav.expected = s.nav.expected
    /\ Resting(t) /\ ControlActive(t.ctl) => Resting(s) /\ ControlActive(s.ctl)

\* What the amplifier knows of keys and steps does not change.
LEMMA CalmMet == ASSUME NEW s, NEW t, Met(s), Calm(s, t) PROVE Met(t)
BY DEF Met, Calm, Unseen, Reached

\* One method after another.
LEMMA CalmAgain == ASSUME NEW s, NEW t, NEW u, Calm(s, t), Calm(t, u) PROVE Calm(s, u)
BY DEF Calm

\* The methods.
LEMMA CalmMethods ==
    ASSUME NEW s \in Worlds, NEW io \in IOs
    PROVE  /\ Calm(s, s) /\ Calm(s, Fail(s)) /\ Calm(s, Pause(s))
           /\ Calm(s, ForgetComplete(s)) /\ Calm(s, ClearVerified(s))
           /\ Calm(s, Persist(s, io)) /\ Calm(s, DropThird(s))
<1> USE DEF Calm, Active, Resting
<1>1. Calm(s, s)
  OBVIOUS
<1>2. Calm(s, Fail(s))
  BY DEF Fail, Ended, NoNav, Worlds
<1>3. Calm(s, Pause(s))
  BY DEF Pause, Worlds, Navs
<1>4. Calm(s, ForgetComplete(s))
  BY DEF ForgetComplete, NoNav, Worlds
<1>5. Calm(s, ClearVerified(s)) /\ Calm(s, DropThird(s))
  BY DEF ClearVerified, DropThird, Worlds, Ctls, ControlActive
<1>6. Calm(s, Persist(s, io))
  BY DEF Persist, Worlds, Ctls, ControlActive
<1> QED BY <1>1, <1>2, <1>3, <1>4, <1>5, <1>6

\* An override that expires takes a reason away.
LEMMA ExpireCalm ==
    ASSUME NEW s, Sound(s), NEW expired \in BOOLEAN, NEW io \in IOs
    PROVE  Calm(s, Expire(s, expired, io))
<1> DEFINE c == [s.ctl EXCEPT !.override = "unknown", !.timer = "none",
                              !.desired = "unknown"]
           u == [s EXCEPT !.ctl = c]
           f == ForgetComplete(u)
<1>1. c \in Ctls /\ c.lcd = s.ctl.lcd /\ s \in Worlds
      /\ (ControlActive(c) => ControlActive(s.ctl))
  <2>1. c \in Ctls /\ s \in Worlds
    BY ZenonT(60) DEF Sound, Typed, Worlds, Ctls, Chosen
  <2>2. c.lcd = s.ctl.lcd /\ (ControlActive(c) => ControlActive(s.ctl))
    BY DEF Sound, Typed, Worlds, Ctls, ControlActive
  <2> QED BY <2>1, <2>2
<1>2. Typed(u) /\ Calm(s, u)
  <2> HIDE DEF c
  <2> QED BY <1>1 DEF Sound, Typed, Worlds, Calm, Active, Resting
<1>3. Typed(f) /\ Calm(s, f)
  <2> HIDE DEF u
  <2>1. Typed(f) /\ Calm(u, f)
    BY <1>2, ForgetSound, CalmMethods DEF Typed
  <2> HIDE DEF f
  <2> QED BY <1>2, <2>1, CalmAgain
<1>4. Calm(s, Persist(f, io))
  <2> HIDE DEF f
  <2> QED BY <1>3, CalmMethods, CalmAgain DEF Typed
<1>5. Expire(s, expired, io) \in {s, Persist(f, io)}
  BY DEF Expire, Sound, Typed, Worlds
<1> HIDE DEF f
<1> QED BY <1>1, <1>4, <1>5, CalmMethods

\* The policy that is wanted; without a reason, a transaction is dropped.
LEMMA DecideCalm ==
    ASSUME NEW s \in Worlds, NEW band \in Bands
    PROVE  Calm(s, Decide(s, band))
<1> DEFINE With(policy) == [s EXCEPT !.ctl.desired = policy]
<1>1. ASSUME NEW policy PROVE Calm(s, With(policy))
  BY DEF Calm, Active, Resting, ControlActive, Worlds, Ctls
<1>2. ASSUME NEW policy
      PROVE  Calm(s, Fail(With(policy))) /\ Calm(s, ForgetComplete(With(policy)))
  BY DEF Calm, Active, Resting, ControlActive, Worlds, Ctls, NoNav, Fail, Ended,
         ForgetComplete
<1>3. CASE ~ControlActive(s.ctl)
  <2>1. Decide(s, band) = [s EXCEPT !.ctl.desired = "unknown",
                              !.nav = IF s.nav.mode = "failed" THEN s.nav ELSE NoNav]
    BY <1>3 DEF Decide
  <2> QED BY <1>3, <2>1 DEF Calm, Active, Resting, ControlActive, Worlds, Ctls, NoNav
<1>4. CASE ControlActive(s.ctl)
  <2>1. Decide(s, band) \in {With("unknown"), Fail(With("unknown")),
                             With(Desired(s.ctl, band)),
                             ForgetComplete(With(Desired(s.ctl, band)))}
    BY <1>4 DEF Decide
  <2> HIDE DEF With
  <2> QED BY <1>1, <1>2, <2>1
<1> QED BY <1>3, <1>4

-----------------------------------------------------------------------------
(* Methods that write a key.                                               *)

\* The last frame shows the amplifier.
Sees(s) ==
    /\ s.ctl.lcd.at = amp.at /\ s.ctl.lcd.policy = Displayed.policy
    /\ s.ctl.lcd.oper \in {amp.oper, "unknown"}

\* The key that is written on the last frame.
KeyFor(s, name) == [name |-> name, at |-> s.ctl.lcd.at, policy |-> s.ctl.lcd.policy,
                    oper |-> s.ctl.lcd.oper]

\* A transaction that fails keeps the keys on their way.
LEMMA FailMet ==
    ASSUME NEW s \in Worlds, LineMeets(s.line)
    PROVE  Met(Fail(s))
BY DEF Met, Fail, Ended, NoNav, Worlds, Active, Resting

\* A key on an empty line, and the step that waits for it.
LEMMA WriteMet ==
    ASSUME NEW s \in Worlds, Active(s), s.line = <<>>, NEW name \in Buttons, NEW io \in IOs,
           Meets(KeyFor(s, name)), Reached(s.nav.step, s.nav),
           Unseen(s.nav.step, s.nav, KeyFor(s, name))
    PROVE  Met(Write(s, name, io))
<1> DEFINE key == KeyFor(s, name)
           u == [s EXCEPT !.line = Append(s.line, key)]
<1>1. key \in Keys
  BY DEF Worlds, Ctls, Lcds, Keys, KeyFor
<1>2. /\ u \in Worlds /\ u.nav = s.nav /\ u.ctl = s.ctl /\ u.line = <<key>>
  <2> HIDE DEF key
  <2>1. Append(s.line, key) = <<key>> /\ <<key>> \in Seq(Keys)
    BY <1>1
  <2> QED BY <2>1 DEF Worlds
<1>3. LineMeets(u.line) /\ LineMeets(s.line) /\ u.line[1] = key /\ Len(u.line) = 1
  <2> HIDE DEF key, u
  <2>1. Meets(key)
    BY DEF key
  <2> QED BY <1>2, <2>1 DEF LineMeets
<1>4. Met(u) /\ Met(s)
  <2>1. Active(u) /\ ~Resting(u) /\ ~Resting(s) /\ u.nav = s.nav
    <3> HIDE DEF u
    <3> QED BY <1>2 DEF Active, Resting
  <2>2. Unseen(s.nav.step, s.nav, key)
    OBVIOUS
  <2> HIDE DEF u, key
  <2> QED BY <1>3, <2>1, <2>2 DEF Met
<1>5. Met(Fail(u)) /\ Met(Fail(s))
  <2> HIDE DEF u
  <2> QED BY <1>2, <1>3, FailMet
<1>6. Write(s, name, io) \in {s, u, Fail(s), Fail(u)}
  BY DEF Write, KeyFor
<1> HIDE DEF u
<1> QED BY <1>4, <1>5, <1>6

\* sendLocked on an empty line and the frame of the amplifier.
LEMMA SendMet ==
    ASSUME NEW s, Sound(s), Active(s), s.line = <<>>, NEW name \in Buttons,
           NEW step \in Steps, NEW io \in IOs, Meets(KeyFor(s, name)),
           Reached(s.nav.step, s.nav), Reached(step, s.nav),
           Unseen(step, s.nav, KeyFor(s, name))
    PROVE  Met(Send(s, name, step, io))
<1> DEFINE n == [s.nav EXCEPT !.step = step, !.prev = Screen(s)]
           c == [s.ctl EXCEPT !.mayBeInMenu = @ \/ (name = "set" /\ s.ctl.lcd.at = "home")]
           u == [s EXCEPT !.nav = n]
           v == [u EXCEPT !.ctl = c]
<1>1. Screen(s) \in Shown /\ s \in Worlds
  BY DEF Screen, Shown, Sound, Typed, Worlds, Ctls, Lcds
<1>2. /\ n \in Navs /\ n.mode = "active" /\ n.step = step /\ n.target = s.nav.target
      /\ n.index = s.nav.index /\ n.expected = s.nav.expected
  BY <1>1, Active(s) DEF Worlds, Navs, Active
<1>3. c \in Ctls /\ c.lcd = s.ctl.lcd
  BY <1>1 DEF Worlds, Ctls
<1>4. v \in Worlds /\ v.nav = n /\ v.ctl = c /\ v.line = <<>>
  <2> HIDE DEF n, c
  <2> QED BY <1>1, <1>2, <1>3 DEF Worlds
<1>5. KeyFor(v, name) = KeyFor(s, name)
  <2> HIDE DEF v, c
  <2> QED BY <1>3, <1>4 DEF KeyFor
<1>6. /\ Active(v) /\ Reached(v.nav.step, v.nav)
      /\ Unseen(v.nav.step, v.nav, KeyFor(v, name))
  <2> HIDE DEF v, c, n
  <2> QED BY <1>2, <1>4, <1>5 DEF Active, Reached, Unseen
<1>7. Met(Write(v, name, io))
  <2> HIDE DEF v, c, n
  <2> QED BY <1>4, <1>5, <1>6, WriteMet
<1>8. Met(s)
  BY DEF Met, LineMeets, Active, Resting
<1>9. Met(Fail(s)) /\ Met(Pause(s))
  BY <1>1, <1>8, CalmMethods, CalmMet
<1>10. Send(s, name, step, io) \in {Fail(s), Pause(s), Write(v, name, io)}
  <2>1. v = [s EXCEPT !.nav.step = step, !.nav.prev = Screen(s),
                      !.ctl.mayBeInMenu = @ \/ (name = "set" /\ s.ctl.lcd.at = "home")]
    BY DEF Sound, Typed, Worlds
  <2> HIDE DEF v
  <2> QED BY <2>1 DEF Send
<1> HIDE DEF v
<1> QED BY <1>7, <1>9, <1>10

\* sendControlLocked at home, in the step that waits for the other operating state.
LEMMA SendControlMet ==
    ASSUME NEW s, Sound(s), Active(s), s.line = <<>>, Sees(s), NEW expected \in Oper,
           NEW io \in IOs, amp.at = "home",
           \/ s.nav.step = "standby:status" /\ expected = "operate"
           \/ s.nav.step = "restore:status" /\ expected = "standby"
    PROVE  Met(SendControl(s, expected, io))
<1>1. Met(s) /\ s \in Worlds /\ Reached(s.nav.step, s.nav)
  BY DEF Met, LineMeets, Active, Resting, Reached, Sound, Typed
<1>2. Met(Fail(s)) /\ Met(Pause(s))
  BY <1>1, CalmMethods, CalmMet
<1>3. CASE s.ctl.lcd.oper = expected
  <2>1. amp.oper = expected
    BY <1>3 DEF Sees, Oper
  <2>2. Meets(KeyFor(s, "operate")) /\ Unseen(s.nav.step, s.nav, KeyFor(s, "operate"))
    BY <1>3, <2>1 DEF KeyFor, Meets, Unseen
  <2>3. Met(Write(s, "operate", io))
    BY <1>1, <2>2, WriteMet DEF Buttons
  <2> QED BY <1>2, <2>3 DEF SendControl
<1>4. CASE s.ctl.lcd.oper # expected
  BY <1>2, <1>4 DEF SendControl
<1> QED BY <1>3, <1>4

\* unexpectedLocked and startVerifiedSetupExitLocked: DISPLAY from a setup screen, also
\* behind a RIGHT that has not acted.
LEMMA GiveUpMet ==
    ASSUME NEW s, Sound(s), Met(s), amp \in Amps, NEW io \in IOs
    PROVE  Met(GiveUp(s, io)) /\ Met(Unexpected(s, io))
<1> DEFINE n == [s.nav EXCEPT !.exitTried = TRUE, !.step = "recover:home",
                              !.prev = Screen(s)]
           c == [s.ctl EXCEPT !.mayBeInMenu = @ \/ ("display" = "set" /\ s.ctl.lcd.at = "home")]
           key == KeyFor(s, "display")
           u == [s EXCEPT !.nav.exitTried = TRUE]
           v == [s EXCEPT !.nav = n, !.ctl = c]
           w == [v EXCEPT !.line = Append(s.line, key)]
<1>1. s \in Worlds /\ Screen(s) \in Shown /\ key \in Keys
  BY DEF Screen, Shown, Sound, Typed, Worlds, Ctls, Lcds, KeyFor, Keys, Buttons
<1>2. Met(Fail(s))
  BY <1>1, CalmMethods, CalmMet, GoodTyped
<1>3. u \in Worlds /\ Calm(s, u) /\ u.line = s.line
  BY <1>1 DEF Worlds, Navs, Calm, Active, Resting, ControlActive
<1>4. Met(Fail(u)) /\ Met(Pause(u))
  <2> HIDE DEF u
  <2> QED BY <1>3, CalmMethods, CalmMet, GoodTyped
<1>5. /\ n \in Navs /\ n.mode = s.nav.mode /\ n.step = "recover:home" /\ c \in Ctls
      /\ c.lcd = s.ctl.lcd
  <2>1. n \in Navs /\ n.mode = s.nav.mode /\ n.step = "recover:home"
    BY <1>1 DEF Worlds, Navs, Steps
  <2>2. c \in Ctls /\ c.lcd = s.ctl.lcd
    BY <1>1 DEF Worlds, Ctls
  <2> QED BY <2>1, <2>2
<1>6. v \in Worlds /\ v.nav = n /\ v.line = s.line /\ v.ctl = c
  <2> HIDE DEF n, c
  <2> QED BY <1>1, <1>5 DEF Worlds
<1>7. /\ w \in Worlds /\ w.nav = n /\ w.line = Append(s.line, key)
      /\ s.line \in Seq(Keys) /\ Append(s.line, key) \in Seq(Keys)
  <2> HIDE DEF n, c, key, v
  <2>1. s.line \in Seq(Keys) /\ Append(s.line, key) \in Seq(Keys)
    BY <1>1 DEF Worlds
  <2> QED BY <1>6, <2>1 DEF Worlds
<1>8. ASSUME MayExit(s) PROVE LineMeets(Append(s.line, key)) /\ LineMeets(s.line)
  <2>1. Active(s) /\ s.nav.step = "setup" /\ amp.at \in Setup
    BY <1>8 DEF MayExit, Met, Reached
  <2>2. Meets(key) /\ key.name = "display"
    BY <2>1 DEF Meets, KeyFor
  <2> HIDE DEF key
  <2>3. CASE s.line = <<>>
    <3>1. Append(s.line, key) = <<key>>
      BY <2>3
    <3> QED BY <2>2, <2>3, <3>1 DEF LineMeets
  <2>4. CASE s.line # <<>>
    <3>1. Len(s.line) = 1 /\ s.line[1].name = "right" /\ Meets(s.line[1])
      BY <2>1, <2>4 DEF Met, Unseen, LineMeets
    <3>2. /\ Len(Append(s.line, key)) = 2 /\ Append(s.line, key)[1] = s.line[1]
          /\ Append(s.line, key)[2] = key
      BY <1>7, <3>1
    <3> QED BY <2>1, <2>2, <3>1, <3>2 DEF LineMeets
  <2> QED BY <2>3, <2>4
<1>9. ASSUME MayExit(s) PROVE Met(v) /\ Met(w) /\ Met(Fail(v)) /\ Met(Fail(w))
  <2>1. /\ ~Resting(v) /\ ~Resting(w)
    <3> HIDE DEF n, v, w
    <3> QED BY <1>5, <1>6, <1>7, <1>9 DEF MayExit, Resting, Active
  <2>2. LineMeets(v.line) /\ LineMeets(w.line)
    <3> HIDE DEF n, v, w
    <3> QED BY <1>6, <1>7, <1>8, <1>9
  <2>3. Reached("recover:home", n) /\ \A k : Unseen("recover:home", n, k)
    BY DEF Reached, Unseen
  <2> HIDE DEF v, w, n
  <2>4. Met(v) /\ Met(w)
    BY <1>5, <1>6, <1>7, <2>1, <2>2, <2>3 DEF Met
  <2> QED BY <1>6, <1>7, <2>2, <2>4, FailMet
<1>10. GiveUp(s, io) \in {Fail(s), Fail(u), Pause(u), v, w, Fail(v), Fail(w)}
  <2>1. GiveUp(s, io) \in {Fail(s), Send(u, "display", "recover:home", io)}
    BY DEF GiveUp, u
  <2>2. Send(u, "display", "recover:home", io) \in {Fail(u), Pause(u), Write(v, "display", io)}
    <3>1. v = [u EXCEPT !.nav.step = "recover:home", !.nav.prev = Screen(u),
                        !.ctl.mayBeInMenu = @ \/ ("display" = "set" /\ u.ctl.lcd.at = "home")]
      BY <1>1 DEF Worlds, Screen, Navs
    <3> HIDE DEF u, v, w, key, n, c
    <3> QED BY <3>1 DEF Send
  <2>3. Write(v, "display", io) \in {v, w, Fail(v), Fail(w)}
    <3>1. KeyFor(v, "display") = key
      <4> HIDE DEF v, c
      <4> QED BY <1>5, <1>6 DEF KeyFor
    <3>2. w = [v EXCEPT !.line = Append(v.line, KeyFor(v, "display"))]
      <4> HIDE DEF v, key
      <4> QED BY <1>6, <3>1
    <3> HIDE DEF v, w, key
    <3> QED BY <3>2 DEF Write, KeyFor
  <2> HIDE DEF u, v, w
  <2> QED BY <2>1, <2>2, <2>3
<1>11. ~MayExit(s) => GiveUp(s, io) = Fail(s)
  BY DEF GiveUp
<1>12. Met(GiveUp(s, io))
  <2> HIDE DEF u, v, w
  <2> QED BY <1>2, <1>4, <1>9, <1>10, <1>11
<1> QED BY <1>2, <1>12 DEF Unexpected

-----------------------------------------------------------------------------
(* A frame during a transaction.  Where a step acts on the frame, its key has  *)
(* acted; where it does not, the frame is unexpected.                          *)

\* A transaction that was shown the amplifier, and one whose keys have all acted or are
\* lost.
Facing(s) == InTransaction(s) /\ Met(s) /\ Sees(s) /\ amp \in Amps
Ready(s) ==
    /\ Sound(s) /\ Active(s) /\ s.line = <<>> /\ Sees(s) /\ amp \in Amps
    /\ Reached(s.nav.step, s.nav)

\* What a method leaves is the next state, on the same amplifier.
LEMMA BecomesMet ==
    ASSUME NEW t, Met(t), Becomes(t), UNCHANGED amp
    PROVE  Met(World)'
<1>1. World'.nav = t.nav /\ World'.ctl = t.ctl /\ World'.line = t.line
  BY DEF Becomes, World
<1>2. Met(t)'
  BY DEF Met, LineMeets, Meets, Reached, Unseen, Displayed
<1> QED BY <1>1, <1>2 DEF Met, Active, Resting

\* A frame that is acted on if it is the expected one.
LEMMA ExpectedMet ==
    ASSUME NEW s, Facing(s), NEW io \in IOs, NEW ok, NEW t, ok => Met(t),
           Becomes(IF ok THEN t ELSE Unexpected(s, io)), UNCHANGED amp
    PROVE  Met(World)'
<1>1. Met(Unexpected(s, io))
  BY GiveUpMet DEF Facing, InTransaction
<1>2. Met(IF ok THEN t ELSE Unexpected(s, io))
  BY <1>1
<1> QED BY <1>2, BecomesMet

\* SET or RIGHT on the screen of the last frame.
LEMMA PressMet ==
    ASSUME NEW s, Ready(s), NEW name \in {"set", "right"}, NEW step \in Steps,
           NEW io \in IOs, Reached(step, s.nav), Unseen(step, s.nav, KeyFor(s, name)),
           amp.at \notin {"storing", "thirdStoring"},
           name = "set" => amp.at \notin Setup \ {FanEntry}
    PROVE  Met(Send(s, name, step, io))
<1>1. Meets(KeyFor(s, name))
  BY DEF Ready, Sees, Displayed, Meets, KeyFor
<1> QED BY <1>1, SendMet DEF Ready, Buttons

\* The setup screens are none of the others, and each is another one.
LEMMA SetupScreens ==
    /\ \A i \in DOMAIN SetupKeys : SetupKeys[i] \in Setup
    /\ Setup \cap ({"home", "elsewhere", "storing", "thirdStoring"} \cup Pages) = {}
    /\ \A i, j \in DOMAIN SetupKeys : SetupKeys[i] = SetupKeys[j] => i = j
    /\ Len(SetupKeys) \in Nat /\ DOMAIN SetupKeys = 1..Len(SetupKeys)
    /\ FanEntry \in Setup /\ SetupKeys[1] \in Setup
<1>1. Len(SetupKeys) \in Nat /\ DOMAIN SetupKeys = 1..Len(SetupKeys) /\ Len(SetupKeys) > 1
  BY FanAssumption
<1>2. \A i \in DOMAIN SetupKeys : SetupKeys[i] \in Setup
  BY DEF Setup
<1> QED BY <1>1, <1>2, FanAssumption DEF FanEntry, OtherScreens

\* setup:identify and advanceProfileSetupLocked
LEMMA SetupMet ==
    ASSUME NEW s, Facing(s), NEW io \in IOs, SetupWaypoint(s, io), UNCHANGED amp
    PROVE  Met(World)'
<1> DEFINE at == SetupKeys[s.nav.index]
<1>1. /\ Sound(s) /\ Active(s) /\ amp \in Amps /\ Sees(s) /\ Met(s)
      /\ s \in Worlds /\ s.nav \in Navs /\ s.ctl.lcd.at = amp.at
      /\ s.nav.index \in DOMAIN SetupKeys
  BY DEF Facing, InTransaction, Sound, Typed, Worlds, Navs, Sees
<1>2. s.nav.step \in {"setup:identify", "setup"}
  BY DEF SetupWaypoint
<1>3. CASE amp.at # at
  BY <1>1, <1>3, GiveUpMet, BecomesMet DEF SetupWaypoint
<1>4. CASE amp.at = at
  <2>1. at \in Setup /\ amp.at # "home"
    BY <1>1, <1>4, SetupScreens
  <2>2. s.line = <<>>
    <3> SUFFICES ASSUME s.line # <<>> PROVE FALSE
      OBVIOUS
    <3>1. Unseen(s.nav.step, s.nav, s.line[1])
      BY <1>1 DEF Met
    <3>2. s.nav.index > 1 /\ at = SetupKeys[s.nav.index - 1]
      BY <1>2, <1>4, <2>1, <3>1 DEF Unseen
    <3>3. s.nav.index - 1 \in DOMAIN SetupKeys /\ s.nav.index - 1 # s.nav.index
      BY <1>1, <3>2, SetupScreens
    <3> QED BY <1>1, <3>2, <3>3, SetupScreens
  <2>3. Ready(s)
    BY <1>1, <2>2 DEF Ready, Met
  <2>4. CASE /\ s.nav.index < Len(SetupKeys)
             /\ Becomes(Send([s EXCEPT !.nav.index = @ + 1], "right", "setup", io))
    <3> DEFINE n == [s.nav EXCEPT !.index = s.nav.index + 1]
               u == [s EXCEPT !.nav = n]
    <3>1. s.nav.index + 1 \in DOMAIN SetupKeys
      BY <1>1, <2>4, SetupScreens
    <3>2. /\ n \in Navs /\ TargetKnown(n) /\ n.step = s.nav.step /\ n.mode = s.nav.mode
          /\ n.index = s.nav.index + 1
      BY <1>1, <3>1 DEF Sound, Typed, Navs, TargetKnown
    <3>3. Sound(u) /\ u.nav = n /\ u.ctl = s.ctl /\ u.line = s.line
      <4> HIDE DEF n
      <4>1. Sound(u) /\ u.nav = n /\ u.ctl = s.ctl
        BY <1>1, <3>2, NavSound
      <4>2. u.line = s.line
        BY <1>1 DEF Worlds
      <4> QED BY <4>1, <4>2
    <3>4. u = [s EXCEPT !.nav.index = @ + 1]
      BY <1>1 DEF Worlds
    <3> HIDE DEF u, n
    <3>5. Ready(u)
      BY <1>1, <1>2, <2>1, <1>4, <2>2, <3>2, <3>3 DEF Ready, Active, Sees, Reached
    <3>6. Reached("setup", n) /\ Unseen("setup", n, KeyFor(u, "right"))
      <4>1. n.index > 1 /\ n.index - 1 = s.nav.index
        BY <1>1, <3>2, SetupScreens
      <4> QED BY <1>4, <2>1, <4>1 DEF Reached, Unseen, KeyFor
    <3>7. amp.at \notin {"storing", "thirdStoring"} /\ "setup" \in Steps
      BY <1>4, <2>1, SetupScreens DEF Steps
    <3>8. Met(Send(u, "right", "setup", io))
      BY <3>3, <3>5, <3>6, <3>7, PressMet
    <3> QED BY <2>4, <3>4, <3>8, BecomesMet
  <2>5. CASE s.nav.index = Len(SetupKeys) /\ Becomes(Send(s, "set", FanPage[s.nav.model], io))
    <3>1. s.nav.model \in Models
      BY <1>1 DEF Sound, Typed, TargetKnown, Active
    <3>2. FanPage[s.nav.model] \in {"scale", "thirdQuiet"}
      BY <3>1 DEF FanPage, Models
    <3>3. amp.at = FanEntry /\ amp.at \notin {"storing", "thirdStoring"}
      BY <1>4, <2>1, <2>5, SetupScreens DEF FanEntry
    <3>4. /\ Reached(FanPage[s.nav.model], s.nav) /\ FanPage[s.nav.model] \in Steps
          /\ Unseen(FanPage[s.nav.model], s.nav, KeyFor(s, "set"))
      BY <1>4, <2>1, <3>2 DEF Reached, Unseen, Steps
    <3>5. Met(Send(s, "set", FanPage[s.nav.model], io))
      BY <2>3, <3>3, <3>4, PressMet
    <3> QED BY <2>5, <3>5, BecomesMet
  <2> QED BY <1>1, <1>4, <2>4, <2>5 DEF SetupWaypoint
<1> QED BY <1>3, <1>4

\* A frame that no step with a key on its way expects: the key has acted or is lost.
LEMMA ActedReady ==
    ASSUME NEW s, Facing(s), \A key : ~Unseen(s.nav.step, s.nav, key)
    PROVE  Ready(s)
BY DEF Facing, InTransaction, Met, Ready

\* Reading the mode on a page changes the target and nothing the amplifier is held to.
LEMMA ReadReady ==
    ASSUME NEW s, Ready(s), s.nav.step \in {"fan", "thirdQuiet"}, amp.at \in Pages
    PROVE  Ready(Read(s)) /\ Read(s).ctl = s.ctl /\ Read(s).nav.target \in Policies
<1>1. InTransaction(s) /\ s.ctl.lcd.at = amp.at
  BY DEF Ready, Sees, InTransaction, Amps
<1>2. InTransaction(Read(s)) /\ Read(s).ctl = s.ctl /\ Read(s).nav.target \in Policies
  BY <1>1, ReadSound
<1>3. Read(s).line = s.line /\ Read(s).nav.step = s.nav.step
  BY DEF Read, Ready, Sound, Typed, Worlds, Navs
<1> QED BY <1>2, <1>3 DEF Ready, InTransaction, Sees, Reached

\* The TEMP/FANS page of the First and Second Series.
LEMMA FanPageMet ==
    ASSUME NEW s, Facing(s), NEW io \in IOs, FanPageWaypoint(s, io), UNCHANGED amp
    PROVE  Met(World)'
<1>1. s.ctl.lcd.at = amp.at /\ s.ctl.lcd.policy = Displayed.policy
  BY DEF Facing, Sees
<1>2. {"scale", "fan", "save"} \subseteq Pages /\ Setup \cap Pages = {}
  BY SetupScreens DEF Pages, NextPage
<1>3. /\ {"scale", "fan", "save", "toggled", "storing"} \subseteq Steps
      /\ \A screen \in {"scale", "fan", "save"} : screen \notin {"storing", "thirdStoring"}
  BY DEF Steps
<1>4. CASE Waypoint(s, "scale", At(s, {"scale"}), Send(s, "right", "fan", io), io)
  <2>1. s.nav.step = "scale"
    BY <1>4 DEF Waypoint
  <2>2. ASSUME At(s, {"scale"}) PROVE Met(Send(s, "right", "fan", io))
    <3>1. amp.at = "scale"
      BY <1>1, <2>2 DEF At
    <3>2. Ready(s)
      BY <1>2, <2>1, <3>1, ActedReady DEF Unseen
    <3>3. Reached("fan", s.nav) /\ Unseen("fan", s.nav, KeyFor(s, "right"))
      BY <3>1 DEF Reached, Unseen
    <3> QED BY <1>3, <3>1, <3>2, <3>3, PressMet
  <2> QED BY <1>4, <2>2, ExpectedMet DEF Waypoint
<1>5. CASE Waypoint(s, "fan", At(s, {"fan"}),
                IF s.ctl.lcd.policy = Read(s).nav.target
                THEN Send(Read(s), "right", "save", io)
                ELSE Send(Read(s), "set", "toggled", io), io)
  <2> DEFINE t == IF s.ctl.lcd.policy = Read(s).nav.target
                  THEN Send(Read(s), "right", "save", io)
                  ELSE Send(Read(s), "set", "toggled", io)
             r == Read(s)
  <2>1. s.nav.step = "fan"
    BY <1>5 DEF Waypoint
  <2>2. ASSUME At(s, {"fan"}) PROVE Met(t)
    <3>1. amp.at = "fan"
      BY <1>1, <2>2 DEF At
    <3>2. Ready(s)
      BY <2>1, <3>1, ActedReady DEF Unseen
    <3>3. Ready(r) /\ r.ctl = s.ctl
      BY <1>2, <2>1, <3>1, <3>2, ReadReady
    <3>4. Displayed.policy = amp.shown
      BY <1>2, <3>1 DEF Displayed
    <3> HIDE DEF r
    <3>5. CASE s.ctl.lcd.policy = r.nav.target
      <4>1. Reached("save", r.nav) /\ Unseen("save", r.nav, KeyFor(r, "right"))
        BY <1>1, <3>1, <3>4, <3>5 DEF Reached, Unseen, KeyFor
      <4>2. Met(Send(r, "right", "save", io))
        BY <1>3, <3>1, <3>3, <4>1, PressMet
      <4> QED BY <3>5, <4>2 DEF r
    <3>6. CASE s.ctl.lcd.policy # r.nav.target
      <4>1. Reached("toggled", r.nav) /\ Unseen("toggled", r.nav, KeyFor(r, "set"))
        BY <1>1, <3>6 DEF Reached, Unseen
      <4>2. Met(Send(r, "set", "toggled", io))
        BY <1>2, <1>3, <3>1, <3>3, <4>1, PressMet
      <4> QED BY <3>6, <4>2 DEF r
    <3> QED BY <3>5, <3>6
  <2> HIDE DEF t
  <2> QED BY <1>5, <2>2, ExpectedMet DEF Waypoint, t
<1>6. CASE Waypoint(s, "toggled", At(s, {"fan"}) /\ s.ctl.lcd.policy = s.nav.target,
                    Send(s, "right", "save", io), io)
  <2>1. s.nav.step = "toggled"
    BY <1>6 DEF Waypoint
  <2>2. ASSUME At(s, {"fan"}), s.ctl.lcd.policy = s.nav.target
        PROVE  Met(Send(s, "right", "save", io))
    <3>1. amp.at = "fan"
      BY <1>1, <2>2 DEF At
    <3>2. Ready(s)
      BY <1>1, <2>1, <2>2, ActedReady DEF Unseen
    <3>3. Displayed.policy = amp.shown
      BY <1>2, <3>1 DEF Displayed
    <3>4. Reached("save", s.nav) /\ Unseen("save", s.nav, KeyFor(s, "right"))
      BY <1>1, <2>2, <3>1, <3>3 DEF Reached, Unseen, KeyFor
    <3> QED BY <1>3, <3>1, <3>2, <3>4, PressMet
  <2> QED BY <1>6, <2>2, ExpectedMet DEF Waypoint
<1>7. CASE Waypoint(s, "save", At(s, {"save"}), Send(s, "set", "storing", io), io)
  <2>1. s.nav.step = "save"
    BY <1>7 DEF Waypoint
  <2>2. ASSUME At(s, {"save"}) PROVE Met(Send(s, "set", "storing", io))
    <3>1. amp.at = "save"
      BY <1>1, <2>2 DEF At
    <3>2. Ready(s)
      BY <2>1, <3>1, ActedReady DEF Unseen
    <3>3. amp.shown = s.nav.target
      BY <2>1, <3>2 DEF Ready, Reached
    <3>4. Reached("storing", s.nav) /\ Unseen("storing", s.nav, KeyFor(s, "set"))
      BY <3>1, <3>3 DEF Reached, Unseen, KeyFor
    <3> QED BY <1>2, <1>3, <3>1, <3>2, <3>4, PressMet
  <2> QED BY <1>7, <2>2, ExpectedMet DEF Waypoint
<1> QED BY <1>4, <1>5, <1>6, <1>7 DEF FanPageWaypoint

\* RIGHT on the radio page: the cursor is elsewhere afterwards.
LEMMA ThirdRightMet ==
    ASSUME NEW s, Ready(s), amp.at \in Pages, NEW step \in {"thirdSave", "thirdTarget"},
           NEW io \in IOs
    PROVE  Met(ThirdRight(s, step, io))
<1> DEFINE n == [s.nav EXCEPT !.expected = NextPage[amp.at]]
           u == [s EXCEPT !.nav = n]
<1>1. NextPage[amp.at] \in Pages /\ NextPage[amp.at] # amp.at
      /\ amp.at \notin {"storing", "thirdStoring"}
  BY DEF Pages, NextPage
<1>2. s \in Worlds /\ s.ctl.lcd.at = amp.at
  BY DEF Ready, Sees, Sound, Typed
<1>3. /\ n \in Navs /\ TargetKnown(n) /\ n.step = s.nav.step /\ n.target = s.nav.target
      /\ n.mode = s.nav.mode /\ n.expected # amp.at
  <2> DEFINE expected == NextPage[amp.at]
  <2> HIDE DEF expected
  <2> QED BY <1>1, <1>2 DEF Ready, Sound, Typed, Worlds, Navs, TargetKnown, expected
<1>4. Sound(u) /\ u.nav = n /\ u.ctl = s.ctl /\ u.line = s.line
  <2> HIDE DEF n
  <2> QED BY <1>2, <1>3, NavSound DEF Ready, Worlds
<1>5. ThirdRight(s, step, io) = Send(u, "right", step, io)
  <2>1. u = [s EXCEPT !.nav.expected = NextPage[s.ctl.lcd.at]]
    BY <1>2 DEF Worlds
  <2> HIDE DEF u
  <2> QED BY <2>1 DEF ThirdRight
<1> HIDE DEF u, n
<1>6. Ready(u)
  BY <1>3, <1>4 DEF Ready, Active, Sees, Reached
<1>7. Reached(step, u.nav) /\ Unseen(step, u.nav, KeyFor(u, "right")) /\ step \in Steps
  BY <1>3, <1>4 DEF Reached, Unseen, Steps
<1> QED BY <1>1, <1>5, <1>6, <1>7, PressMet

\* What is pressed for the target on the radio page.
LEMMA ThirdTargetMet ==
    ASSUME NEW s, Ready(s), amp.at \in Pages, NEW io \in IOs
    PROVE  Met(ThirdTarget(s, io))
<1>1. \A step \in {"thirdSave", "thirdTarget"} : Met(ThirdRight(s, step, io))
  BY ThirdRightMet
<1>2. s.ctl.lcd.policy = Displayed.policy
  BY DEF Ready, Sees
<1>3. ASSUME s.ctl.lcd.policy # s.nav.target
      PROVE  Met(Send(s, "set", "thirdToggled", io))
  <2>1. Reached("thirdToggled", s.nav) /\ Unseen("thirdToggled", s.nav, KeyFor(s, "set"))
        /\ "thirdToggled" \in Steps
    BY <1>2, <1>3 DEF Reached, Unseen, Steps
  <2>2. amp.at \notin {"storing", "thirdStoring"} /\ amp.at \notin Setup
    BY SetupScreens DEF Pages, NextPage
  <2> QED BY <2>1, <2>2, PressMet
<1> QED BY <1>1, <1>3 DEF ThirdTarget

\* The radio page of the Third Series.
LEMMA ThirdPageMet ==
    ASSUME NEW s, Facing(s), NEW io \in IOs, ThirdPageWaypoint(s, io), UNCHANGED amp
    PROVE  Met(World)'
<1>1. s.ctl.lcd.at = amp.at /\ s.ctl.lcd.policy = Displayed.policy /\ amp.at \in Screens
      /\ s.nav.expected \in Pages \cup {"none"}
  BY DEF Facing, Sees, Amps, InTransaction, Sound, Typed, Worlds, Navs
<1>2. ThirdPages \subseteq Pages /\ Setup \cap Pages = {} /\ "none" \notin Screens
  BY SetupScreens, FanAssumption DEF ThirdPages, Pages, NextPage, Screens, OtherScreens
<1>3. Met(Unexpected(s, io))
  BY GiveUpMet DEF Facing, InTransaction
<1>4. CASE /\ s.nav.step = "thirdQuiet"
           /\ Becomes(IF At(s, ThirdPages) THEN ThirdTarget(Read(s), io)
                                           ELSE Unexpected(s, io))
  <2>1. ASSUME At(s, ThirdPages) PROVE Met(ThirdTarget(Read(s), io))
    <3>1. amp.at \in Pages
      BY <1>1, <1>2, <2>1 DEF At
    <3>2. Ready(s)
      BY <1>2, <1>4, <3>1, ActedReady DEF Unseen
    <3> QED BY <1>4, <3>1, <3>2, ReadReady, ThirdTargetMet
  <2> QED BY <1>4, <2>1, ExpectedMet
<1>5. CASE /\ s.nav.step = "thirdTarget"
           /\ Becomes(IF At(s, {s.nav.expected}) /\ s.ctl.lcd.policy = s.nav.observed
                      THEN ThirdTarget(s, io) ELSE Unexpected(s, io))
  <2>1. ASSUME At(s, {s.nav.expected}) PROVE Met(ThirdTarget(s, io))
    <3>1. amp.at = s.nav.expected /\ amp.at \in Pages
      BY <1>1, <1>2, <2>1 DEF At
    <3>2. Ready(s)
      BY <1>5, <3>1, ActedReady DEF Unseen
    <3> QED BY <3>1, <3>2, ThirdTargetMet
  <2> QED BY <1>5, <2>1, ExpectedMet
<1>6. CASE /\ s.nav.step = "thirdToggled"
           /\ Becomes(IF At(s, {ThirdSelection[s.nav.target]}) /\ s.ctl.lcd.policy = s.nav.target
                      THEN ThirdRight(s, "thirdSave", io) ELSE Unexpected(s, io))
  <2>1. ASSUME At(s, {ThirdSelection[s.nav.target]}), s.ctl.lcd.policy = s.nav.target
        PROVE  Met(ThirdRight(s, "thirdSave", io))
    <3>1. s.nav.target \in Policies
      BY <1>6 DEF Facing, InTransaction, Active, Sound, Typed, TargetKnown, AfterRead
    <3>2. amp.at \in Pages
      BY <1>1, <2>1, <3>1 DEF At, Policies, ThirdSelection, Pages, NextPage
    <3>3. Ready(s)
      BY <1>1, <1>6, <2>1, ActedReady DEF Unseen
    <3> QED BY <3>2, <3>3, ThirdRightMet
  <2> QED BY <1>6, <2>1, ExpectedMet
<1>7. CASE /\ s.nav.step = "thirdSave"
           /\ Becomes(IF ~(At(s, {s.nav.expected}) /\ s.ctl.lcd.policy = s.nav.target)
                      THEN Unexpected(s, io)
                      ELSE IF At(s, {"thirdSave"}) THEN Send(s, "set", "storing", io)
                                                   ELSE ThirdRight(s, "thirdSave", io))
  <2>1. ASSUME At(s, {s.nav.expected}), s.ctl.lcd.policy = s.nav.target
        PROVE  /\ Met(ThirdRight(s, "thirdSave", io))
               /\ At(s, {"thirdSave"}) => Met(Send(s, "set", "storing", io))
    <3>1. amp.at = s.nav.expected /\ amp.at \in Pages
      BY <1>1, <1>2, <2>1 DEF At
    <3>2. Ready(s)
      BY <1>7, <3>1, ActedReady DEF Unseen
    <3>3. amp.shown = s.nav.target
      BY <1>1, <2>1, <3>1 DEF Displayed
    <3>4. ASSUME At(s, {"thirdSave"}) PROVE Met(Send(s, "set", "storing", io))
      <4>1. amp.at = "thirdSave" /\ "storing" \in Steps
        BY <1>1, <3>4 DEF At, Steps
      <4>2. Reached("storing", s.nav) /\ Unseen("storing", s.nav, KeyFor(s, "set"))
        BY <3>3, <4>1 DEF Reached, Unseen, KeyFor
      <4> QED BY <1>2, <3>1, <3>2, <4>1, <4>2, PressMet
    <3> QED BY <3>1, <3>2, <3>4, ThirdRightMet
  <2> QED BY <1>3, <1>7, <2>1, BecomesMet
<1> QED BY <1>4, <1>5, <1>6, <1>7 DEF ThirdPageWaypoint

\* recordVerifiedPolicyLocked leaves keys, steps and reasons alone.
LEMMA RecordCalm ==
    ASSUME NEW s \in Worlds, NEW policy, NEW manual \in BOOLEAN, NEW io \in IOs
    PROVE  LET t == RecordVerified(s, policy, manual, io)
           IN  Calm(s, t) /\ t.nav = s.nav
<1> DEFINE model == IF s.nav.model # "none" THEN s.nav.model ELSE s.ctl.st.model
           timer == IF manual /\ s.ctl.timer = "set" THEN "running" ELSE s.ctl.timer
           high == policy = "high"
           c == [s.ctl EXCEPT !.policy = policy, !.live = TRUE, !.model = model,
                              !.timer = timer, !.heldHigh = high]
           u == [s EXCEPT !.ctl = c]
<1>1. c.enabled = s.ctl.enabled /\ c.override = s.ctl.override /\ c.verify = s.ctl.verify
      /\ DOMAIN c = DOMAIN s.ctl
  <2> HIDE DEF model, timer, high
  <2> QED BY DEF Worlds, Ctls
<1>2. RecordVerified(s, policy, manual, io) = Persist(u, io)
  BY DEF RecordVerified, Worlds
<1>3. u.nav = s.nav /\ u.line = s.line /\ u.ctl = c /\ DOMAIN u = DOMAIN s
  <2> HIDE DEF c
  <2> QED BY DEF Worlds
<1> HIDE DEF u, c
<1>4. \A saved : /\ Persist(u, io).nav = u.nav /\ Persist(u, io).line = u.line
                 /\ Persist(u, io).ctl = [u.ctl EXCEPT !.saveFailed = ~io.save]
  BY <1>3 DEF Persist, Worlds, IOs
<1>5. LET t == Persist(u, io)
      IN  /\ t.ctl.enabled = c.enabled /\ t.ctl.override = c.override
          /\ t.ctl.verify = c.verify
  BY <1>1, <1>3, <1>4 DEF Worlds, Ctls
<1> QED BY <1>1, <1>2, <1>3, <1>4, <1>5 DEF Calm, Active, Resting, ControlActive

\* A transaction that ends well with no key on its way.
LEMMA CompleteMet ==
    ASSUME NEW s \in Worlds, s.line = <<>>
    PROVE  Met(Complete(s))
<1>1. Complete(s).line = <<>> /\ Complete(s).nav.mode = "complete"
  BY DEF Complete, Ended, NoNav, Worlds
<1> QED BY <1>1 DEF Met, LineMeets, Active

\* Home after SET on SAVE: what was stored is recorded, and OPERATE is restored.
LEMMA SavedAtHomeMet ==
    ASSUME NEW s, Facing(s), Ready(s), amp.at = "home", NEW io \in IOs
    PROVE  Met(SavedAtHome(s, io))
<1> DEFINE c == [s.ctl EXCEPT !.mayBeInMenu = FALSE]
           u == [s EXCEPT !.ctl = c]
           manual == ~s.nav.verifyOnly /\ s.ctl.override # "unknown"
           r == RecordVerified(u, s.nav.target, manual, io)
           n == [r.nav EXCEPT !.step = "restore:status"]
           v == [r EXCEPT !.nav = n]
<1>1. Sound(s) /\ Active(s) /\ s.line = <<>> /\ Sees(s) /\ amp \in Amps /\ s \in Worlds
  BY DEF Ready, Sound, Typed
<1>2. c \in Ctls /\ PagesShow(c.lcd) /\ Saved(c) = Saved(s.ctl) /\ c.saveFailed = s.ctl.saveFailed
      /\ c.lcd = s.ctl.lcd
  BY <1>1 DEF Sound, Typed, Worlds, Ctls, Saved
<1>3. Sound(u) /\ u.nav = s.nav /\ u.line = <<>> /\ u.ctl = c
  <2> HIDE DEF c
  <2>1. Sound(u) /\ u.nav = s.nav /\ u.ctl = c
    BY <1>1, <1>2, CtlSound
  <2>2. u.line = s.line
    BY <1>1 DEF Worlds
  <2> QED BY <1>1, <2>1, <2>2
<1>4. manual \in BOOLEAN /\ s.nav.target \in Chosen
  BY <1>1 DEF Worlds, Navs
<1>5. Sound(r) /\ r.nav = s.nav /\ r.line = <<>> /\ r.ctl.lcd = s.ctl.lcd /\ r \in Worlds
  <2> HIDE DEF u, manual, c
  <2>1. Sound(r) /\ r.nav = u.nav /\ r.ctl.lcd = u.ctl.lcd
    BY <1>3, <1>4, RecordSound DEF Sound
  <2>2. r.line = u.line
    BY <1>3, <1>4, RecordCalm DEF Calm, Sound, Typed
  <2> HIDE DEF r
  <2> QED BY <1>2, <1>3, <2>1, <2>2 DEF Sound, Typed
<1>6. Met(Complete(r)) /\ Met(Fail(r))
  <2> HIDE DEF r
  <2> QED BY <1>5, CompleteMet, FailMet DEF LineMeets
<1>7. /\ n \in Navs /\ TargetKnown(n) /\ n.mode = "active" /\ n.step = "restore:status"
  <2> HIDE DEF r
  <2> QED BY <1>1, <1>5 DEF Sound, Typed, Worlds, Navs, TargetKnown, Steps, AfterRead, Active
<1>8. Sound(v) /\ v.nav = n /\ v.ctl = r.ctl /\ v.line = <<>>
  <2> HIDE DEF n, r
  <2>1. Sound(v) /\ v.nav = n /\ v.ctl = r.ctl
    BY <1>5, <1>7, NavSound
  <2>2. v.line = r.line
    BY <1>5 DEF Worlds
  <2> QED BY <1>5, <2>1, <2>2
<1>9. Met(SendControl(v, "standby", io))
  <2> HIDE DEF v, r, n
  <2>1. Active(v) /\ Sees(v)
    BY <1>1, <1>5, <1>7, <1>8 DEF Active, Sees
  <2>2. "standby" \in Oper
    BY DEF Oper
  <2> QED BY <1>1, <1>7, <1>8, <2>1, <2>2, SendControlMet
<1>10. SavedAtHome(s, io) \in {Complete(r), Fail(r), SendControl(v, "standby", io)}
  <2>1. u = [s EXCEPT !.ctl.mayBeInMenu = FALSE]
    BY <1>1 DEF Worlds
  <2>2. v = [r EXCEPT !.nav.step = "restore:status"]
    <3> HIDE DEF r
    <3> QED BY <1>5 DEF Worlds
  <2> HIDE DEF u, v
  <2> QED BY <2>1, <2>2 DEF SavedAtHome
<1> HIDE DEF r, v
<1> QED BY <1>6, <1>9, <1>10

\* STORING DATA! and home.
LEMMA StoringMet ==
    ASSUME NEW s, Facing(s), NEW io \in IOs, StoringWaypoint(s, io), UNCHANGED amp
    PROVE  Met(World)'
<1>1. /\ s \in Worlds /\ s.ctl.lcd.at = amp.at /\ Met(s) /\ Active(s)
  BY DEF Facing, Sees, InTransaction, Sound, Typed
<1>2. Met(Unexpected(s, io))
  BY GiveUpMet DEF Facing, InTransaction
<1>3. CASE Becomes(Unexpected(s, io))
  BY <1>2, <1>3, BecomesMet
<1>4. CASE s.nav.step \in {"storing", "home"} /\ AtHome(s, "standby") /\ Becomes(SavedAtHome(s, io))
  <2>1. amp.at = "home"
    BY <1>1, <1>4 DEF AtHome
  <2>2. Ready(s)
    BY <1>4, <2>1, ActedReady DEF Unseen
  <2> QED BY <1>4, <2>1, <2>2, SavedAtHomeMet, BecomesMet
<1>5. CASE /\ s.nav.step = "storing" /\ s.ctl.lcd.at \in {"storing", "thirdStoring"}
           /\ Becomes([s EXCEPT !.nav.step = "home", !.nav.prev = Screen(s)])
  <2> DEFINE u == [s EXCEPT !.nav.step = "home", !.nav.prev = Screen(s)]
  <2>1. Ready(s)
    BY <1>1, <1>5, ActedReady DEF Unseen
  <2>2. /\ u.line = s.line /\ u.nav.step = "home" /\ u.nav.mode = s.nav.mode
        /\ u.nav.target = s.nav.target
    BY <1>1 DEF Worlds, Navs
  <2>3. Reached("home", s.nav)
    BY <1>1, <1>5 DEF Met, Reached
  <2> HIDE DEF u
  <2>4. Met(u)
    BY <2>1, <2>2, <2>3 DEF Met, LineMeets, Ready, Active, Resting, Reached
  <2> QED BY <1>5, <2>4, BecomesMet DEF u
<1> QED BY <1>3, <1>4, <1>5 DEF StoringWaypoint, At

\* The home waypoints: the key that goes home has acted where home is expected.
LEMMA HomeMet ==
    ASSUME NEW s, Facing(s), NEW io \in IOs, HomeWaypoint(s, io), UNCHANGED amp
    PROVE  Met(World)'
<1>1. /\ s \in Worlds /\ s.ctl.lcd.at = amp.at /\ Met(s) /\ Active(s)
  BY DEF Facing, Sees, InTransaction, Sound, Typed
<1>2. CASE Waypoint(s, "standby:display", AtHome(s, "standby"),
                    Send(s, "set", "setup:identify", io), io)
  <2>1. s.nav.step = "standby:display"
    BY <1>2 DEF Waypoint
  <2>2. ASSUME AtHome(s, "standby") PROVE Met(Send(s, "set", "setup:identify", io))
    <3>1. amp.at = "home"
      BY <1>1, <2>2 DEF AtHome
    <3>2. Ready(s)
      BY <2>1, ActedReady DEF Unseen
    <3>3. /\ Reached("setup:identify", s.nav) /\ "setup:identify" \in Steps
          /\ Unseen("setup:identify", s.nav, KeyFor(s, "set"))
      BY <3>1 DEF Reached, Unseen, Steps
    <3> QED BY <3>1, <3>2, <3>3, SetupScreens, PressMet
  <2> QED BY <1>2, <2>2, ExpectedMet DEF Waypoint
<1>3. CASE Waypoint(s, "restore:display", AtHome(s, "operate"), Complete(s), io)
  <2>1. s.nav.step = "restore:display"
    BY <1>3 DEF Waypoint
  <2>2. Ready(s)
    BY <2>1, ActedReady DEF Unseen
  <2>3. Met(Complete(s))
    BY <1>1, <2>2, CompleteMet DEF Ready
  <2> QED BY <1>3, <2>3, ExpectedMet DEF Waypoint
<1>4. CASE Becomes(IF AtHome(s, "standby")
                   THEN [Fail(s) EXCEPT !.nav.newFrame = TRUE, !.ctl.mayBeInMenu = FALSE]
                   ELSE Fail(s))
  <2> DEFINE f == Fail(s)
             u == [f EXCEPT !.nav.newFrame = TRUE, !.ctl.mayBeInMenu = FALSE]
  <2>1. Met(f) /\ f.nav.mode = "failed" /\ f.line = s.line /\ LineMeets(s.line)
        /\ DOMAIN f = DOMAIN s /\ DOMAIN f.nav = DOMAIN NoNav
    BY <1>1, FailMet DEF Met, Fail, Ended, NoNav, Worlds
  <2>2. u.line = s.line /\ u.nav.mode = "failed"
    <3> HIDE DEF f
    <3> QED BY <1>1, <2>1 DEF Worlds, NoNav
  <2> HIDE DEF u
  <2>3. Met(u)
    BY <2>1, <2>2 DEF Met, Active, Resting
  <2> HIDE DEF f
  <2> QED BY <1>4, <2>1, <2>3, BecomesMet DEF u, f
<1> QED BY <1>2, <1>3, <1>4 DEF HomeWaypoint

\* A frame during a transaction.
LEMMA FrameMet ==
    ASSUME NEW s, Facing(s), NEW io \in IOs, FrameInNavigation(s, io), UNCHANGED amp
    PROVE  Met(World)'
<1> DEFINE n == [s.nav EXCEPT !.paused = FALSE]
           u == [s EXCEPT !.nav = n]
<1>1. InTransaction(s) /\ Met(s) /\ Sees(s) /\ amp \in Amps /\ s \in Worlds /\ Sound(s)
  BY DEF Facing, InTransaction, Sound, Typed
<1>2. /\ n \in Navs /\ TargetKnown(n) /\ n.mode = s.nav.mode /\ n.step = s.nav.step
      /\ n.index = s.nav.index /\ n.target = s.nav.target /\ n.expected = s.nav.expected
  BY <1>1 DEF Sound, Typed, Worlds, Navs, TargetKnown
<1>3. u = [s EXCEPT !.nav.paused = FALSE]
  BY <1>1 DEF Worlds
<1>4. Sound(u) /\ u.nav = n /\ u.ctl = s.ctl /\ u.line = s.line
  <2> HIDE DEF n
  <2> QED BY <1>1, <1>2, NavSound DEF Worlds
<1> HIDE DEF u, n
<1>5. Calm(s, u)
  BY <1>2, <1>4 DEF Calm, Active, Resting
<1>6. Facing(u)
  BY <1>1, <1>2, <1>4, <1>5, CalmMet DEF Facing, InTransaction, Sees, Active
<1>7. CASE Becomes(s)
  BY <1>1, <1>7, BecomesMet
<1>8. CASE HomeWaypoint(u, io)
  BY <1>6, <1>8, HomeMet
<1>9. CASE \/ SetupWaypoint(u, io) \/ FanPageWaypoint(u, io)
           \/ ThirdPageWaypoint(u, io) \/ StoringWaypoint(u, io)
  BY <1>6, <1>9, SetupMet, FanPageMet, ThirdPageMet, StoringMet
<1>10. \/ Becomes(s)
       \/ \E resumed \in {u} :
             \/ HomeWaypoint(resumed, io)
             \/ SetupWaypoint(resumed, io) \/ FanPageWaypoint(resumed, io)
             \/ ThirdPageWaypoint(resumed, io) \/ StoringWaypoint(resumed, io)
  BY <1>3 DEF FrameInNavigation
<1> QED BY <1>7, <1>8, <1>9, <1>10

-----------------------------------------------------------------------------
(* The methods.                                                            *)

\* A transaction begins at home, with no key on its way.
LEMMA StartMet ==
    ASSUME NEW s, Sound(s), Met(s), Sees(s), amp \in Amps, ~Fatal(s), ControlActive(s.ctl),
           ~Active(s), NEW io \in IOs
    PROVE  Met(Start(s, io))
<1> USE DEF Sound, Typed, Worlds
<1> DEFINE t == [s EXCEPT !.nav = Begun(s)]
           n == [t.nav EXCEPT !.restore = TRUE, !.step = "standby:status"]
           u == [t EXCEPT !.nav = n]
<1>1. CASE ~(Wanted(s) /\ At(s, {"home"}))
  BY <1>1 DEF Start
<1>2. CASE Wanted(s) /\ At(s, {"home"})
  <2>1. s.ctl.st.model \in Models
    BY DEF Fatal, ActionBlocked
  <2>2. s.line = <<>> /\ amp.at = "home"
    <3>1. Resting(s)
      BY <1>2 DEF Wanted, Active, Resting, Navs
    <3> QED BY <1>2, <3>1 DEF Met, Sees, At
  <2>3. Begun(s) \in Navs /\ Begun(s).step = "none" /\ Begun(s).mode = "active"
        /\ Begun(s).target = s.ctl.desired /\ Begun(s).verifyOnly = (s.ctl.verify # "none")
        /\ Begun(s).model = s.ctl.st.model
    <3> DEFINE verifies == s.ctl.verify # "none"
    <3>1. NoNav \in Navs /\ NoNav.step = "none"
      BY EndedTyped DEF NoNav
    <3>2. s.ctl.desired \in Chosen /\ verifies \in BOOLEAN
      BY DEF Ctls
    <3>3. Begun(s) = [NoNav EXCEPT !.mode = "active", !.model = s.ctl.st.model,
                                   !.verifyOnly = verifies, !.target = s.ctl.desired]
      BY DEF Begun
    <3> HIDE DEF verifies
    <3>4. Begun(s) \in Navs /\ Begun(s).verifyOnly = verifies
      BY <2>1, <3>1, <3>2, <3>3, ZenonT(60) DEF Navs
    <3>5. Begun(s).model = s.ctl.st.model /\ Begun(s).step = "none"
          /\ Begun(s).target = s.ctl.desired /\ Begun(s).mode = "active"
      BY <3>1, <3>3 DEF Navs
    <3> QED BY <3>4, <3>5 DEF verifies
  <2>4. TargetKnown(Begun(s))
    BY <1>2, <2>1, <2>3 DEF TargetKnown, Wanted, AfterRead, Chosen, Ctls
  <2>5. Sound(t) /\ t.nav = Begun(s) /\ t.ctl = s.ctl /\ t.line = <<>>
    <3>1. t.line = s.line
      OBVIOUS
    <3>2. Sound(t) /\ t.nav = Begun(s) /\ t.ctl = s.ctl
      BY <2>3, <2>4, NavSound
    <3> QED BY <2>2, <3>1, <3>2
  <2>6. n \in Navs /\ TargetKnown(n) /\ n.mode = "active" /\ n.step = "standby:status"
    <3> HIDE DEF t
    <3>1. t.nav \in Navs /\ TargetKnown(t.nav) /\ t.nav.mode = "active"
      BY <2>3, <2>4, <2>5
    <3>2. n \in Navs
      BY <3>1, ZenonT(60) DEF Navs, Steps
    <3>3. /\ n.mode = t.nav.mode /\ n.target = t.nav.target /\ n.model = t.nav.model
          /\ n.verifyOnly = t.nav.verifyOnly /\ n.step = "standby:status"
      BY <3>1 DEF Navs
    <3> QED BY <3>1, <3>2, <3>3 DEF TargetKnown, AfterRead
  <2>7. Sound(u) /\ u.nav = n /\ u.ctl = s.ctl /\ u.line = <<>>
    <3> HIDE DEF n, t
    <3>1. u.line = t.line
      BY <2>5
    <3>2. Sound(u) /\ u.nav = n /\ u.ctl = t.ctl
      BY <2>5, <2>6, NavSound
    <3> HIDE DEF u
    <3> QED BY <2>5, <3>1, <3>2
  <2>8. u = [t EXCEPT !.nav.restore = TRUE, !.nav.step = "standby:status"]
    <3> HIDE DEF t
    <3> QED BY <2>5
  <2> HIDE DEF t, u, n, Sound, Typed, Worlds
  <2>9. Ready(t) /\ Active(u) /\ Sees(u)
    BY <2>3, <2>5, <2>6, <2>7 DEF Ready, Active, Sees, Reached
  <2>10. Met(Send(t, "set", "setup:identify", io))
    <3>1. /\ Reached("setup:identify", t.nav) /\ "setup:identify" \in Steps
          /\ Unseen("setup:identify", t.nav, KeyFor(t, "set"))
      BY <2>2 DEF Reached, Unseen, Steps
    <3> QED BY <2>2, <2>9, <3>1, SetupScreens, PressMet
  <2>11. Met(SendControl(u, "operate", io))
    BY <2>2, <2>6, <2>7, <2>9, SendControlMet DEF Oper
  <2>12. Met(Fail(t))
    BY <2>5, FailMet DEF Sound, Typed, LineMeets
  <2>13. Start(s, io) \in {s, Fail(t), SendControl(u, "operate", io),
                           Send(t, "set", "setup:identify", io)}
    BY <2>8 DEF Start, t
  <2> QED BY <2>10, <2>11, <2>12, <2>13
<1> QED BY <1>1, <1>2

\* What passive observation notes on a screen.
Noted(at, phase, policy) ==
    [phase |-> phase, policy |-> policy, third |-> at \notin {"fan", "save", "storing"}]

\* Passive observation, phase by phase.
LEMMA PassiveCases ==
    ASSUME NEW s \in Worlds, NEW io \in IOs
    PROVE  LET t == Passive(s, io)
               at == s.ctl.lcd.at
               was == s.ctl.passive
               Now(p) == [s EXCEPT !.ctl.passive = p]
           IN  \/ t = Now(NoPassive)
               \/ /\ t = s /\ at \notin {"fan", "home"} /\ ~was.third
                  /\ at = "save" => was.phase # "fan"
                  /\ at = "storing" => was.phase # "save"
               \/ /\ t = Now(Noted(at, "fan", s.ctl.lcd.policy))
                  /\ at \in {"fan", "thirdQuiet", "thirdNormal"}
               \/ /\ t = Now(Noted(at, "save", was.policy))
                  /\ was.phase \in {"fan", "save"}
                  /\ \/ at = "save"
                     \/ at = "thirdSave" /\ s.ctl.lcd.policy = was.policy
               \/ /\ t = Now(Noted(at, "storing", was.policy))
                  /\ was.phase \in {"save", "storing"} /\ at \in {"storing", "thirdStoring"}
               \/ /\ t = RecordVerified(Now(NoPassive), was.policy, FALSE, io)
                  /\ was.phase = "storing" /\ at = "home"
<1>1. CASE s.ctl.st.model # "third"
  BY <1>1 DEF Passive, Noted
<1>2. CASE s.ctl.st.model = "third"
  BY <1>2, ZenonT(60) DEF Passive, ThirdPages, Noted
<1> QED BY <1>1, <1>2

\* Passive observation writes no key.
LEMMA PassiveCalm ==
    ASSUME NEW s \in Worlds, NEW io \in IOs
    PROVE  Calm(s, Passive(s, io))
<1> DEFINE Now(p) == [s EXCEPT !.ctl.passive = p]
<1>1. ASSUME NEW p PROVE Calm(s, Now(p)) /\ Now(p).nav = s.nav /\ Now(p).line = s.line
  BY DEF Worlds, Ctls, Calm, Active, Resting, ControlActive
<1>2. NoPassive \in Passives
  BY DEF NoPassive, Passives, Chosen
<1>3. Now(NoPassive) \in Worlds
  BY <1>2 DEF Worlds, Ctls
<1>4. \A policy : Calm(s, RecordVerified(Now(NoPassive), policy, FALSE, io))
  <2> HIDE DEF Now
  <2> QED BY <1>1, <1>3, RecordCalm, CalmAgain
<1>5. \/ Passive(s, io) = s
      \/ \E p : Passive(s, io) = Now(p)
      \/ \E policy : Passive(s, io) = RecordVerified(Now(NoPassive), policy, FALSE, io)
  BY PassiveCases
<1> HIDE DEF Now
<1> QED BY <1>1, <1>4, <1>5, CalmMethods

\* What the controller works on and knows of keys on their way.
AllMet == IInv /\ Met(World)

\* The world with the frame that arrives.
Seen(valid, cooled) ==
    [World EXCEPT !.ctl.lcd = Frame(valid),
                  !.ctl.heldHigh = @ /\ ~cooled, !.ctl.heldStart = @ /\ ~cooled,
                  !.nav.newFrame = nav.mode = "failed"]

\* The frame alone changes no key, step, policy or phase.
LEMMA SeenMet ==
    ASSUME AllMet, NEW valid \in BOOLEAN, NEW cooled \in BOOLEAN
    PROVE  LET seen == Seen(valid, cooled)
           IN  /\ Sound(seen) /\ Calm(World, seen) /\ Sees(seen)
               /\ seen.ctl.lcd = Frame(valid) /\ seen.ctl.lcd.at \in Screens
               /\ seen.ctl.passive = ctl.passive /\ seen.ctl.policy = ctl.policy
               /\ seen.ctl.live = ctl.live /\ seen.line = line /\ seen.nav.mode = nav.mode
<1> DEFINE high == ctl.heldHigh /\ ~cooled
           start == ctl.heldStart /\ ~cooled
           new == nav.mode = "failed"
           c == [ctl EXCEPT !.lcd = Frame(valid), !.heldHigh = high, !.heldStart = start]
           n == [nav EXCEPT !.newFrame = new]
           seen == [World EXCEPT !.ctl = c, !.nav = n]
<1>1. /\ nav \in Navs /\ ctl \in Ctls /\ TargetKnown(nav) /\ World.ctl = ctl
      /\ World.nav = nav /\ Sound(World) /\ Met(World) /\ amp \in Amps
      /\ World.line = line
  BY DEF AllMet, IInv, World, Sound, Typed, Worlds
<1>2. high \in BOOLEAN /\ start \in BOOLEAN /\ new \in BOOLEAN
  BY <1>1 DEF Ctls
<1>3. /\ c \in Ctls /\ Saved(c) = Saved(ctl) /\ c.saveFailed = ctl.saveFailed
      /\ c.lcd = Frame(valid) /\ PagesShow(c.lcd)
      /\ (ControlActive(c) => ControlActive(ctl))
  <2>1. Frame(valid) \in Lcds /\ PagesShow(Frame(valid))
    BY <1>1, FrameTyped
  <2> HIDE DEF high, start
  <2>2. c \in Ctls /\ c.lcd = Frame(valid)
    BY <1>1, <1>2, <2>1, ZenonT(60) DEF Ctls
  <2>3. Saved(c) = Saved(ctl) /\ c.saveFailed = ctl.saveFailed
        /\ (ControlActive(c) => ControlActive(ctl))
    BY <1>1 DEF Ctls, Saved, ControlActive
  <2> HIDE DEF c
  <2> QED BY <2>1, <2>2, <2>3
<1>4. /\ n \in Navs /\ TargetKnown(n) /\ n.mode = nav.mode /\ n.step = nav.step
      /\ n.index = nav.index /\ n.target = nav.target /\ n.expected = nav.expected
  <2> HIDE DEF new
  <2> QED BY <1>1, <1>2 DEF Navs, TargetKnown
<1>5. Sound(seen) /\ seen.ctl = c /\ seen.nav = n /\ seen.line = line
  <2> DEFINE t == [World EXCEPT !.ctl = c]
  <2>1. Sound(t) /\ t.ctl = c /\ t.nav = World.nav
    <3> HIDE DEF c
    <3> QED BY <1>1, <1>3, CtlSound
  <2>2. seen = [t EXCEPT !.nav = n] /\ seen.line = line
    BY DEF World
  <2> HIDE DEF c, n, t, seen
  <2> QED BY <1>4, <2>1, <2>2, NavSound
<1>6. Calm(World, seen)
  <2> HIDE DEF seen, c, n
  <2> QED BY <1>1, <1>3, <1>4, <1>5 DEF Calm, Active, Resting
<1>7. seen = Seen(valid, cooled)
  BY <1>1, ZenonT(60) DEF World, Seen
<1>8. /\ c.passive = ctl.passive /\ c.policy = ctl.policy /\ c.live = ctl.live
      /\ c.lcd.at \in Screens
  <2>1. c.passive = ctl.passive /\ c.policy = ctl.policy /\ c.live = ctl.live
    BY <1>1 DEF Ctls
  <2> HIDE DEF c
  <2> QED BY <1>1, <1>3, <2>1 DEF Frame, Displayed, Amps
<1> HIDE DEF c, n, seen
<1>9. Sees(seen)
  BY <1>1, <1>3, <1>5 DEF Sees, Frame, Displayed
<1> QED BY <1>3, <1>4, <1>5, <1>6, <1>7, <1>8, <1>9

\* A frame, in a transaction and outside.
LEMMA DisplayMet ==
    ASSUME AllMet, NEW valid \in BOOLEAN, NEW cooled \in BOOLEAN, NEW io \in IOs,
           ObserveDisplay(valid, cooled, io)
    PROVE  Met(World)'
<1> DEFINE seen == Seen(valid, cooled)
           s == IF Active(seen) THEN seen ELSE Passive(seen, io)
<1>1. Met(World) /\ amp \in Amps
  BY DEF AllMet, IInv
<1>2. /\ Sound(seen) /\ Calm(World, seen) /\ Sees(seen)
      /\ seen.ctl.lcd = Frame(valid) /\ seen.ctl.lcd.at \in Screens
  BY SeenMet
<1> HIDE DEF seen
<1>3. Sound(s) /\ Calm(World, s) /\ s.ctl.lcd = Frame(valid) /\ s \in Worlds
      /\ (Active(s) => s = seen)
  <2>1. Calm(seen, Passive(seen, io)) /\ Passive(seen, io).nav = seen.nav
        /\ Sound(Passive(seen, io)) /\ Passive(seen, io).ctl.lcd = seen.ctl.lcd
    BY <1>2, PassiveSound, PassiveCalm DEF Sound, Typed
  <2>2. Sound(s) /\ Calm(World, s) /\ s.ctl.lcd = Frame(valid)
    BY <1>2, <2>1, CalmAgain
  <2>3. Active(s) => s = seen
    BY <2>1 DEF Active
  <2> HIDE DEF s
  <2> QED BY <2>2, <2>3 DEF Sound, Typed
<1>4. Sees(s) /\ s.ctl.lcd.at \in Screens
  <2> HIDE DEF s
  <2> QED BY <1>1, <1>3 DEF Sees, Frame, Displayed, Amps
<1>5. UNCHANGED amp
  BY DEF ObserveDisplay
<1>6. IF ~ControlActive(s.ctl) \/ Fatal(s)
       THEN Becomes(IF Active(s) THEN Fail(s) ELSE s)
       ELSE IF PauseBlock(s) THEN Becomes(Pause(s))
       ELSE IF Active(s) THEN FrameInNavigation(s, io) ELSE Becomes(Start(s, io))
  BY DEF ObserveDisplay, Seen, seen
<1> HIDE DEF s
<1>7. Met(s) /\ Met(Fail(s)) /\ Met(Pause(s))
  BY <1>1, <1>3, CalmMet, CalmMethods
<1>8. CASE Becomes(IF Active(s) THEN Fail(s) ELSE s) \/ Becomes(Pause(s))
  BY <1>5, <1>7, <1>8, BecomesMet
<1>9. CASE Active(s) /\ FrameInNavigation(s, io)
  BY <1>1, <1>3, <1>4, <1>5, <1>7, <1>9, FrameMet DEF Facing, InTransaction
<1>10. CASE ~Fatal(s) /\ ControlActive(s.ctl) /\ ~Active(s) /\ Becomes(Start(s, io))
  <2>1. Met(Start(s, io))
    BY <1>1, <1>3, <1>4, <1>7, <1>10, StartMet
  <2> QED BY <1>5, <1>10, <2>1, BecomesMet
<1> QED BY <1>6, <1>8, <1>9, <1>10

\* A status frame writes no key, and shows an operating state that was asked for only
\* after the key has acted.
LEMMA StatusMet ==
    ASSUME AllMet, NEW band \in Bands, NEW expired \in MayExpire, NEW io \in IOs,
           NEW tx \in {amp.tx, "unknown"}, ObserveStatus(tx, band, expired, io)
    PROVE  Met(World)'
<1> DEFINE st == [recent |-> TRUE, tx |-> tx, oper |-> amp.oper, model |-> amp.model]
           e == Expire(World, expired, io)
           c == [e.ctl EXCEPT !.st = st, !.statusHere = TRUE]
           heard == [e EXCEPT !.ctl = c]
           cleared == ClearVerified(heard)
           named == IF heard.ctl.model \in {"none", amp.model} THEN heard
                    ELSE Persist(cleared, io)
           d == DropThird(named)
           s == Decide(d, band)
           t == StatusInNavigation(s)
<1>0. amp \in Amps /\ Sound(World) /\ Met(World) /\ expired \in BOOLEAN
  BY DEF AllMet, IInv, MayExpire
<1>1. Sound(e) /\ Calm(World, e)
  BY <1>0, ExpireSound, ExpireCalm
<1>2. st \in Statuses /\ st.oper = amp.oper
  BY <1>0 DEF Statuses, Amps, Tx
<1>3. heard = [Expire(World, expired, io) EXCEPT !.ctl.st = st, !.ctl.statusHere = TRUE]
  <2> HIDE DEF st
  <2> QED BY <1>1 DEF Sound, Typed, Worlds
<1>4. /\ c \in Ctls /\ PagesShow(c.lcd) /\ Saved(c) = Saved(e.ctl)
      /\ c.saveFailed = e.ctl.saveFailed /\ c.st = st
      /\ (ControlActive(c) => ControlActive(e.ctl))
  <2> HIDE DEF e, st
  <2> QED BY <1>1, <1>2 DEF Sound, Typed, Worlds, Ctls, Saved, ControlActive
<1>5. Sound(heard) /\ Calm(World, heard) /\ heard.ctl.st = st
  <2> HIDE DEF e, c, st
  <2>1. Sound(heard) /\ heard.ctl = c /\ heard.nav = e.nav
    BY <1>1, <1>4, CtlSound
  <2>2. heard.line = e.line
    BY <1>1 DEF Sound, Typed, Worlds
  <2> HIDE DEF heard
  <2>3. Calm(e, heard)
    BY <1>4, <2>1, <2>2 DEF Calm, Active, Resting
  <2> QED BY <1>1, <1>4, <2>1, <2>3, CalmAgain
<1>6. Sound(named) /\ Calm(heard, named) /\ Silent(heard, named)
  <2> HIDE DEF heard
  <2>1. Typed(heard) /\ heard \in Worlds
    BY <1>5 DEF Sound, Typed
  <2>2. Typed(cleared) /\ Calm(heard, cleared) /\ Silent(heard, cleared)
    BY <2>1, ClearTyped, CalmMethods, QuietMethods
  <2>3. /\ Sound(Persist(cleared, io)) /\ Calm(cleared, Persist(cleared, io))
        /\ Silent(cleared, Persist(cleared, io))
    BY <2>2, PersistSound, CalmMethods, QuietMethods DEF Typed
  <2> HIDE DEF cleared
  <2> QED BY <1>5, <2>1, <2>2, <2>3, CalmMethods, CalmAgain, QuietMethods, SilentAgain
<1>7. Sound(d) /\ Calm(World, d) /\ d.ctl.st = st
  <2> HIDE DEF named, heard, st
  <2>1. Calm(named, d) /\ Silent(named, d)
    BY <1>6, CalmMethods, QuietMethods DEF Sound, Typed
  <2> QED BY <1>5, <1>6, <2>1, DropSound, CalmAgain DEF Silent
<1>8. Sound(s) /\ Met(s) /\ s.ctl.st = st
  <2> HIDE DEF d, st
  <2>1. Calm(d, s) /\ Silent(d, s)
    BY <1>7, DecideCalm, DecideSilent DEF Sound, Typed
  <2> QED BY <1>0, <1>7, <2>1, DecideSound, CalmAgain, CalmMet DEF Silent
<1>9. Met(t)
  <2> HIDE DEF s, st
  <2>1. s \in Worlds
    BY <1>8 DEF Sound, Typed
  <2>2. Met(Fail(s)) /\ Met(Pause(s))
    BY <1>8, <2>1, CalmMethods, CalmMet
  <2>3. CASE Active(s) /\ AwaitsStatus(s) /\ t \notin {s, Fail(s), Pause(s)}
    <3> DEFINE want == IF s.nav.step = "standby:status" THEN "standby" ELSE "operate"
               next == IF s.nav.step = "standby:status" THEN "standby:display"
                                                        ELSE "restore:display"
               step == IF s.ctl.st.oper = want THEN next ELSE s.nav.step
               n == [s.nav EXCEPT !.paused = FALSE, !.step = step]
               u == [s EXCEPT !.nav = n]
    <3>1. t = u
      BY <2>1, <2>3 DEF StatusInNavigation, Worlds
    <3>2. s.line # <<>> => step = s.nav.step
      BY <1>2, <1>8, <2>3 DEF Met, Unseen, AwaitsStatus
    <3>3. step \in {s.nav.step, "standby:display", "restore:display"}
      OBVIOUS
    <3>4. /\ n.mode = s.nav.mode /\ n.step = step /\ n.index = s.nav.index
          /\ n.target = s.nav.target /\ n.expected = s.nav.expected
      <4> HIDE DEF step
      <4> QED BY <2>1 DEF Worlds, Navs
    <3>5. u.nav = n /\ u.line = s.line /\ u.ctl = s.ctl
      <4> HIDE DEF n
      <4> QED BY <2>1 DEF Worlds
    <3>6. Met(u)
      <4> HIDE DEF n, u, step
      <4> QED BY <1>8, <2>3, <3>2, <3>3, <3>4, <3>5
             DEF Met, Active, Resting, Reached, Unseen
    <3> QED BY <3>1, <3>6
  <2>4. CASE ~AwaitsStatus(s) /\ t \notin {s, Fail(s), Pause(s)}
    <3> DEFINE n == [s.nav EXCEPT !.rxSeen = s.nav.paused]
               u == [s EXCEPT !.nav = n]
    <3>1. t = u
      BY <2>1, <2>4 DEF StatusInNavigation, Worlds
    <3>2. /\ n.mode = s.nav.mode /\ n.step = s.nav.step /\ n.index = s.nav.index
          /\ n.target = s.nav.target /\ n.expected = s.nav.expected
      BY <2>1 DEF Worlds, Navs
    <3>3. u.nav = n /\ u.line = s.line /\ u.ctl = s.ctl
      <4> HIDE DEF n
      <4> QED BY <2>1 DEF Worlds
    <3>4. Calm(s, u)
      <4> HIDE DEF n, u
      <4> QED BY <3>2, <3>3 DEF Calm, Active, Resting
    <3> QED BY <1>8, <3>1, <3>4, CalmMet
  <2>5. CASE t \in {s, Fail(s), Pause(s)}
    BY <1>8, <2>2, <2>5
  <2>6. ~Active(s) => t = s
    BY DEF StatusInNavigation
  <2> HIDE DEF t
  <2> QED BY <2>3, <2>4, <2>5, <2>6
<1>10. Becomes(t) /\ UNCHANGED amp
  <2> HIDE DEF heard
  <2> QED BY <1>3 DEF ObserveStatus
<1> HIDE DEF t
<1> QED BY <1>9, <1>10, BecomesMet

\* Settings write no key; control is switched on with no key on its way.
LEMMA SettingsMet ==
    ASSUME AllMet, NEW io \in IOs, NEW enabled \in BOOLEAN, NEW expired \in MayExpire,
           NEW band \in Bands, SaveSettings(enabled, band, expired, io)
    PROVE  Met(World)'
<1> DEFINE e == Expire(World, expired, io)
           c == [e.ctl EXCEPT !.enabled = enabled]
           u == [e EXCEPT !.ctl = c]
           d == DropThird(u)
           s == Decide(d, band)
<1>1. Sound(World) /\ World \in Worlds /\ Met(World) /\ expired \in BOOLEAN
      /\ World.line = line /\ World.ctl = ctl
  BY DEF AllMet, IInv, Sound, Typed, MayExpire, World
<1>2. Sound(e) /\ Calm(World, e) /\ Met(e) /\ e.line = line
  <2>1. Sound(e) /\ Calm(World, e)
    BY <1>1, ExpireSound, ExpireCalm
  <2> HIDE DEF e
  <2> QED BY <1>1, <2>1, CalmMet DEF Calm
<1>3. e.ctl.enabled = ctl.enabled
  BY <1>1 DEF Expire, Persist, ForgetComplete, Worlds, Ctls, IOs
<1>4. /\ c \in Ctls /\ PagesShow(c.lcd) /\ Saved(c) = Saved(e.ctl)
      /\ c.saveFailed = e.ctl.saveFailed /\ c.enabled = enabled
      /\ c.override = e.ctl.override /\ c.verify = e.ctl.verify
  <2> HIDE DEF e
  <2> QED BY <1>2 DEF Sound, Typed, Worlds, Ctls, Saved
<1>5. Sound(u) /\ u.nav = e.nav /\ u.ctl = c /\ u.line = line
  <2> HIDE DEF e, c
  <2>1. Sound(u) /\ u.nav = e.nav /\ u.ctl = c
    BY <1>2, <1>4, CtlSound
  <2>2. u.line = e.line
    BY <1>2 DEF Sound, Typed, Worlds
  <2> QED BY <1>2, <2>1, <2>2
<1>6. line # <<>> => enabled = ctl.enabled
  BY DEF SaveSettings
<1>7. Met(u)
  <2> HIDE DEF e, c, u
  <2>1. line # <<>> => ControlActive(c) = ControlActive(e.ctl)
    BY <1>3, <1>4, <1>6 DEF ControlActive
  <2> QED BY <1>2, <1>5, <2>1 DEF Met, Active, Resting
<1>8. Sound(d) /\ Met(d)
  <2> HIDE DEF u
  <2> QED BY <1>5, <1>7, DropSound, CalmMethods, CalmMet DEF Sound, Typed
<1>9. Sound(s) /\ Met(s) /\ s \in Worlds
  <2> HIDE DEF d
  <2>1. Sound(s) /\ Met(s)
    BY <1>8, DecideSound, DecideCalm, CalmMet DEF Sound, Typed
  <2> HIDE DEF s
  <2> QED BY <2>1 DEF Sound, Typed
<1>10. u = [Expire(World, expired, io) EXCEPT !.ctl.enabled = enabled]
  BY <1>2 DEF Sound, Typed, Worlds
<1>11. Becomes(s) \/ Becomes(Fail(s)) \/ Becomes(Pause(s))
  <2> HIDE DEF u
  <2> QED BY <1>10 DEF SaveSettings, UpdateSettings
<1>12. UNCHANGED amp
  BY DEF SaveSettings
<1> HIDE DEF s
<1>13. Met(Fail(s)) /\ Met(Pause(s))
  BY <1>9, CalmMethods, CalmMet
<1> QED BY <1>9, <1>11, <1>12, <1>13, BecomesMet

\* No transaction and no key.
LEMMA EmptyMet ==
    ASSUME line' = <<>>, nav'.mode # "active"
    PROVE  Met(World)'
<1>1. World'.line = <<>> /\ World'.nav.mode # "active"
  BY DEF World
<1> QED BY <1>1 DEF Met, LineMeets, Active

\* A new session ends the transaction.
LEMMA SessionMet ==
    ASSUME AllMet, NEW io \in IOs, BeginSession(io)
    PROVE  Met(World)'
<1> DEFINE c == [ctl EXCEPT !.session = TRUE, !.statusHere = FALSE, !.lcd = NoFrame,
                            !.passive = NoPassive]
           fresh == [World EXCEPT !.ctl = c]
           stopped == IF Active(fresh) THEN Fail(fresh) ELSE fresh
           cleared == ClearVerified(stopped)
           Ends(u) == /\ u.line = line /\ u.nav.mode # "active"
                      /\ DOMAIN u = {"nav", "ctl", "disk", "line"}
<1>1. fresh = [World EXCEPT !.ctl.session = TRUE, !.ctl.statusHere = FALSE,
                            !.ctl.lcd = NoFrame, !.ctl.passive = NoPassive]
  BY DEF World
<1>2. fresh.line = line /\ DOMAIN fresh = {"nav", "ctl", "disk", "line"}
  BY DEF World
<1>3. Ends(stopped)
  <2> HIDE DEF fresh
  <2> QED BY <1>2 DEF Fail, Ended, NoNav, Active
<1>4. Ends(Persist(cleared, io))
  <2> HIDE DEF stopped
  <2> QED BY <1>3 DEF Persist, ClearVerified
<1>5. (Becomes(stopped) \/ Becomes(Persist(cleared, io))) /\ line = <<>>
  <2> HIDE DEF fresh
  <2> QED BY <1>1 DEF BeginSession, ObserveSerialSession
<1> HIDE DEF stopped, cleared
<1>6. line' = <<>> /\ nav'.mode # "active"
  BY <1>3, <1>4, <1>5 DEF Becomes
<1> QED BY <1>6, EmptyMet

\* A deadline.
LEMMA TickMet ==
    ASSUME AllMet, NEW late \in BOOLEAN, NEW expired \in MayExpire, NEW io \in IOs,
           Tick(late, expired, io)
    PROVE  Met(World)'
<1> DEFINE s == Expire(World, expired, io)
<1>1. Sound(World) /\ Met(World) /\ expired \in BOOLEAN /\ amp \in Amps
  BY DEF AllMet, IInv, MayExpire
<1>2. Sound(s) /\ Met(s)
  BY <1>1, ExpireSound, ExpireCalm, CalmMet
<1>3. (Becomes(s) \/ Becomes(Fail(s)) \/ Becomes(GiveUp(s, io))) /\ UNCHANGED amp
  BY DEF Tick
<1> HIDE DEF s
<1>4. Met(Fail(s)) /\ Met(GiveUp(s, io))
  BY <1>1, <1>2, CalmMethods, CalmMet, GiveUpMet DEF Sound, Typed
<1> QED BY <1>2, <1>3, <1>4, BecomesMet

\* Requests of an operator, and a restart, come when no key is on its way and leave none.
LEMMA RequestsMet ==
    ASSUME AllMet, NEW io \in IOs,
           \/ \E policy \in Chosen, timer \in {"none", "set"} :
                 SetManualOverride(policy, timer, io)
           \/ RequestVerification \/ Recover(io) \/ ClearCompletedNormalOverride(io)
           \/ \E verify \in {"none", "startup"}, expired \in BOOLEAN :
                 Restart(verify, expired)
    PROVE  Met(World)'
<1>1. World.nav = nav /\ World.line = line /\ World.ctl = ctl /\ Met(World)
      /\ DOMAIN World = {"nav", "ctl", "disk", "line"}
  BY DEF AllMet, World
<1> DEFINE Ends(u) == /\ u.line = <<>> /\ u.nav.mode # "active"
                      /\ DOMAIN u = {"nav", "ctl", "disk", "line"}
<1>2. ASSUME NEW u, Ends(u), NEW answer
      PROVE  Ends(ForgetComplete(u)) /\ Ends(Persist(u, answer))
  BY <1>2 DEF ForgetComplete, Persist, NoNav
<1>3. ASSUME NEW u, Ends(u), Becomes(u)
      PROVE  Met(World)'
  BY <1>3, EmptyMet DEF Becomes
<1>4. ASSUME NEW policy \in Chosen, NEW timer \in {"none", "set"},
             SetManualOverride(policy, timer, io)
      PROVE  Met(World)'
  <2> DEFINE u == [World EXCEPT !.ctl.override = policy, !.ctl.timer = timer,
                       !.ctl.desired = "unknown",
                       !.ctl.verify = IF policy = "unknown" THEN @ ELSE "none"]
  <2>1. Ends(u) /\ Becomes(Persist(ForgetComplete(u), io))
    BY <1>1, <1>4 DEF SetManualOverride, Requested
  <2> HIDE DEF u, Ends
  <2> QED BY <1>2, <1>3, <2>1
<1>5. CASE RequestVerification
  <2> DEFINE u == [World EXCEPT !.ctl.verify = "api", !.ctl.desired = "unknown"]
  <2>1. Ends(u) /\ Becomes(ForgetComplete(u))
    BY <1>1, <1>5 DEF RequestVerification, Requested
  <2> HIDE DEF u, Ends
  <2> QED BY <1>2, <1>3, <2>1
<1>6. ASSUME NEW t, Ends(t), OrTakenBack(t), nav.mode # "active", line = <<>>
      PROVE  Met(World)'
  <2> DEFINE u == [World EXCEPT !.ctl.saveFailed = TRUE]
  <2>1. Ends(u) /\ (Becomes(t) \/ Becomes(u))
    BY <1>1, <1>6 DEF OrTakenBack
  <2> HIDE DEF u, Ends
  <2> QED BY <1>3, <1>6, <2>1
<1>7. CASE Recover(io)
  <2> DEFINE u == [World EXCEPT
                 !.nav = NoNav, !.ctl.override = "unknown", !.ctl.timer = "none",
                 !.ctl.verify = "none", !.ctl.desired = "unknown", !.ctl.mayBeInMenu = FALSE]
  <2>1. Ends(u) /\ OrTakenBack(Persist(u, io)) /\ nav.mode # "active" /\ line = <<>>
    BY <1>1, <1>7 DEF Recover, NoNav
  <2> HIDE DEF u, Ends
  <2> QED BY <1>2, <1>6, <2>1
<1>8. CASE ClearCompletedNormalOverride(io)
  <2> DEFINE u == [World EXCEPT !.ctl.override = "unknown", !.ctl.timer = "none",
                                !.ctl.desired = "unknown"]
  <2>1. nav.mode \in {"idle", "complete"} /\ ControlActive(ctl)
    BY <1>8 DEF ClearCompletedNormalOverride, ControlActive
  <2>2. line = <<>>
    BY <1>1, <2>1 DEF Met, Resting
  <2>3. Ends(u) /\ OrTakenBack(Persist(ForgetComplete(u), io)) /\ nav.mode # "active"
    BY <1>1, <1>8, <2>2 DEF ClearCompletedNormalOverride
  <2> HIDE DEF u, Ends
  <2> QED BY <1>2, <1>6, <2>2, <2>3
<1>9. ASSUME NEW verify \in {"none", "startup"}, NEW expired \in BOOLEAN,
             Restart(verify, expired)
      PROVE  Met(World)'
  <2> DEFINE u == [World EXCEPT !.nav = NoNav,
                       !.ctl = Started(disk, ctl.enabled, verify, expired)]
  <2>1. Ends(u) /\ Becomes(Persist(u, Good))
    BY <1>1, <1>9 DEF Restart, NoNav
  <2> HIDE DEF u, Ends
  <2> QED BY <1>2, <1>3, <2>1
<1> QED BY <1>4, <1>5, <1>7, <1>8, <1>9

-----------------------------------------------------------------------------
(* The amplifier.                                                          *)

\* RIGHT stays in the setup menu, and SET on SAVE stores what is shown.
LEMMA KeyActs ==
    ASSUME amp \in Amps
    PROVE  /\ amp.at \in Setup /\ Acts("right") => amp'.at \in Setup
           /\ amp.at = "fan" /\ Acts("right") => amp'.at = "save" /\ amp'.shown = amp.shown
           /\ amp.at \in {"save", "thirdSave"} /\ Acts("set") =>
                 amp'.at \in {"storing", "thirdStoring"} /\ amp'.stored = amp.shown
<1>1. ASSUME amp.at \in Setup, Acts("right") PROVE amp'.at \in Setup
  <2>1. amp.at \notin Pages
    BY <1>1, SetupScreens
  <2>2. PICK i \in DOMAIN SetupKeys :
           Shows(SetupKeys[IF i = Len(SetupKeys) THEN 1 ELSE i + 1])
    BY <1>1, <2>1 DEF Acts
  <2>3. (IF i = Len(SetupKeys) THEN 1 ELSE i + 1) \in DOMAIN SetupKeys
    BY SetupScreens, FanAssumption
  <2>4. SetupKeys[IF i = Len(SetupKeys) THEN 1 ELSE i + 1] \in Setup
    BY <2>3, SetupScreens
  <2> QED BY <2>2, <2>4 DEF Shows, Amps
<1>2. ASSUME amp.at = "fan", Acts("right") PROVE amp'.at = "save" /\ amp'.shown = amp.shown
  <2>1. "fan" \in Pages /\ NextPage["fan"] = "save"
    BY DEF Pages, NextPage
  <2> QED BY <1>2, <2>1 DEF Acts, Shows, Amps
<1>3. ASSUME amp.at \in {"save", "thirdSave"}, Acts("set")
      PROVE  amp'.at \in {"storing", "thirdStoring"} /\ amp'.stored = amp.shown
  <2>1. amp.at \notin Setup /\ amp.at # FanEntry
    BY <1>3, SetupScreens DEF Pages, NextPage
  <2>2. CASE amp.at = "save"
    BY <1>3, <2>1, <2>2 DEF Acts, Amps, FanEntry
  <2>3. CASE amp.at = "thirdSave"
    BY <1>3, <2>1, <2>3 DEF Acts, Amps, FanEntry
  <2> QED BY <1>3, <2>2, <2>3
<1> QED BY <1>1, <1>2, <1>3

\* The amplifier acts on a key: the step that waited for it is reached.
LEMMA AmpActsMet ==
    ASSUME AllMet, AmpActs
    PROVE  Met(World)'
<1>1. /\ World.nav = nav /\ World.line = line /\ World.ctl = ctl /\ Met(World)
      /\ nav \in Navs /\ line \in Seq(Keys) /\ amp \in Amps /\ amp' \in Amps
  BY ActsTyped DEF AllMet, IInv, World, Sound, Typed, Worlds, AmpActs
<1>2. /\ World'.nav = nav /\ World'.line = line' /\ World'.ctl = ctl
      /\ line # <<>> /\ line' = Tail(line) /\ Acts(line[1].name)
  BY <1>1 DEF AmpActs, World
<1>3. CASE Len(line) = 1
  <2>1. line' = <<>>
    BY <1>1, <1>2, <1>3
  <2>2. ASSUME nav.mode = "active" PROVE Reached(nav.step, nav)'
    <3>1. Unseen(nav.step, nav, line[1]) /\ Reached(nav.step, nav)
      BY <1>1, <1>2, <2>2 DEF Met, Active
    <3>2. UNCHANGED nav
      BY DEF AmpActs
    <3>3. CASE nav.step = "setup"
      <4>1. amp.at \in Setup /\ line[1].name = "right"
        BY <3>1, <3>3 DEF Unseen, Reached
      <4>2. amp'.at \in Setup
        BY <1>1, <1>2, <4>1, KeyActs
      <4> QED BY <3>2, <3>3, <4>2 DEF Reached
    <3>4. CASE nav.step = "save"
      <4>1. amp.at = "fan" /\ line[1].name = "right" /\ amp.shown = nav.target
        BY <3>1, <3>4 DEF Unseen, Reached
      <4>2. amp'.at = "save" /\ amp'.shown = nav.target
        BY <1>1, <1>2, <4>1, KeyActs
      <4> QED BY <3>2, <3>4, <4>2 DEF Reached
    <3>5. CASE nav.step = "storing"
      <4>1. amp.at \in {"save", "thirdSave"} /\ line[1].name = "set" /\ amp.shown = nav.target
        BY <3>1, <3>5 DEF Unseen, Reached
      <4>2. amp'.at \in {"storing", "thirdStoring"} /\ amp'.stored = nav.target
        BY <1>1, <1>2, <4>1, KeyActs
      <4> QED BY <3>2, <3>5, <4>2 DEF Reached
    <3>6. nav.step # "home"
      BY <3>1 DEF Unseen
    <3> QED BY <3>2, <3>3, <3>4, <3>5, <3>6 DEF Reached
  <2>3. nav' = nav
    BY DEF AmpActs
  <2> QED BY <1>2, <2>1, <2>2, <2>3 DEF Met, LineMeets, Active
<1>4. CASE Len(line) # 1
  <2>1. /\ Len(line) = 2 /\ amp.at \in Setup /\ line[1].name = "right"
        /\ line[2].name = "display"
    BY <1>1, <1>2, <1>4 DEF Met, LineMeets
  <2>2. line' # <<>> /\ Len(line') = 1 /\ line'[1] = line[2]
    <3>1. ASSUME NEW keys \in Seq(Keys), Len(keys) = 2
          PROVE  Len(Tail(keys)) = 1 /\ Tail(keys)[1] = keys[2]
      BY <3>1
    <3>2. Len(line') = 1 /\ line'[1] = line[2]
      BY <1>1, <1>2, <2>1, <3>1
    <3> QED BY <3>2
  <2>3. amp'.at \in Setup
    BY <1>1, <1>2, <2>1, KeyActs
  <2>4. LineMeets(line)'
    BY <2>1, <2>2, <2>3 DEF LineMeets, Meets
  <2>5. nav.mode = "active" => nav.step = "recover:home"
    BY <1>1, <1>2, <1>4 DEF Met, Active
  <2>6. Reached("recover:home", nav)' /\ Unseen("recover:home", nav, line[1])'
    BY DEF Reached, Unseen
  <2>7. UNCHANGED <<nav, ctl>>
    BY DEF AmpActs
  <2>8. nav.mode \in {"idle", "complete"} => ~ControlActive(ctl)
    BY <1>1, <1>2 DEF Met, Resting
  <2> QED BY <1>2, <2>2, <2>4, <2>5, <2>6, <2>7, <2>8 DEF Met, Active, Resting
<1> QED BY <1>3, <1>4

\* The amplifier shows that it has stored, transmits, or is operated by hand.
LEMMA AmplifierMet ==
    ASSUME AllMet,
           \/ AmpHasStored \/ Transmit \/ StatusAges \/ ObserveOldDisplay
           \/ \E key \in Buttons : PressPanel(key)
           \/ UNCHANGED vars
    PROVE  Met(World)'
<1>1. /\ World.nav = nav /\ World.line = line /\ World.ctl = ctl /\ Met(World)
      /\ nav \in Navs /\ ctl \in Ctls /\ line \in Seq(Keys) /\ amp \in Amps
  BY DEF AllMet, IInv, World, Sound, Typed, Worlds
<1>2. CASE AmpHasStored
  <2>1. /\ amp.at \in {"storing", "thirdStoring"} /\ amp'.at = "home"
        /\ amp'.stored = amp.stored /\ UNCHANGED <<nav, line, ctl>>
    BY <1>1, <1>2 DEF AmpHasStored, Shows, Amps
  <2>2. amp.at \notin Setup
    BY <2>1, SetupScreens
  <2>3. line = <<>>
    BY <1>1, <2>1, <2>2 DEF Met, LineMeets, Meets
  <2>4. nav.mode = "active" => Reached(nav.step, nav)'
    BY <1>1, <2>1, <2>2 DEF Met, Active, Reached
  <2>5. World'.nav = nav /\ World'.line = <<>>
    BY <2>1, <2>3 DEF World
  <2> QED BY <2>1, <2>4, <2>5 DEF Met, LineMeets, Active
<1>3. ASSUME amp'.at = amp.at, amp'.shown = amp.shown, amp'.stored = amp.stored,
             amp'.oper = amp.oper, UNCHANGED <<nav, line>>,
             ControlActive(ctl)' = ControlActive(ctl)
      PROVE  Met(World)'
  <2>1. World'.nav = nav /\ World'.line = line /\ World'.ctl = ctl'
    BY <1>3 DEF World
  <2>2. \A key : Meets(key)' = Meets(key)
    BY <1>3 DEF Meets
  <2>3. LineMeets(line)' = LineMeets(line)
    BY <1>3, <2>2 DEF LineMeets
  <2>4. /\ Reached(nav.step, nav)' = Reached(nav.step, nav)
        /\ Unseen(nav.step, nav, line[1])' = Unseen(nav.step, nav, line[1])
    BY <1>3 DEF Reached, Unseen, Displayed
  <2> QED BY <1>1, <1>3, <2>1, <2>3, <2>4 DEF Met, Active, Resting
<1>4. CASE Transmit
  BY <1>1, <1>3, <1>4 DEF Transmit, Amps
<1>5. CASE StatusAges
  <2>1. ctl'.enabled = ctl.enabled /\ ctl'.override = ctl.override /\ ctl'.verify = ctl.verify
    BY <1>1, <1>5 DEF StatusAges, Ctls
  <2> QED BY <1>3, <1>5, <2>1 DEF StatusAges, ControlActive
<1>6. CASE ObserveOldDisplay
  <2>1. ctl'.enabled = ctl.enabled /\ ctl'.override = ctl.override /\ ctl'.verify = ctl.verify
    BY <1>1, <1>6 DEF ObserveOldDisplay, Ctls
  <2> QED BY <1>3, <1>6, <2>1 DEF ObserveOldDisplay, ControlActive
<1>7. ASSUME NEW key \in Buttons, PressPanel(key) PROVE Met(World)'
  BY <1>7, EmptyMet DEF PressPanel
<1>8. CASE UNCHANGED vars
  BY <1>3, <1>8 DEF vars, ControlActive
<1> QED BY <1>2, <1>4, <1>5, <1>6, <1>7, <1>8

-----------------------------------------------------------------------------
(* The invariant and what follows from it.                                 *)

\* A start with no key and no transaction.
LEMMA InitMet == Init => Met(World)
BY DEF Init, NoNav, World, Met, LineMeets, Active

\* Every step.
LEMMA NextMet == AllMet /\ [Next]_vars => Met(World)'
<1> SUFFICES ASSUME AllMet, [Next]_vars PROVE Met(World)'
  OBVIOUS
<1>1. CASE AmpActs
  BY <1>1, AmpActsMet
<1>2. CASE \/ AmpHasStored \/ Transmit \/ StatusAges \/ ObserveOldDisplay
           \/ \E key \in Buttons : PressPanel(key)
           \/ UNCHANGED vars
  BY <1>2, AmplifierMet
<1>3. CASE RequestVerification
            \/ \E verify \in {"none", "startup"}, expired \in BOOLEAN : Restart(verify, expired)
  BY <1>3, RequestsMet, GoodTyped
<1>4. ASSUME NEW io \in SaveAnswers,
             \/ \E policy \in Policies \cup {"unknown"}, timer \in {"none", "set"} :
                   SetManualOverride(policy, timer, io)
             \/ Recover(io) \/ ClearCompletedNormalOverride(io)
      PROVE  Met(World)'
  BY <1>4, RequestsMet, AnswersTyped DEF Chosen
<1>5. ASSUME NEW io \in SaveAnswers, NEW enabled \in BOOLEAN, NEW expired \in MayExpire,
             NEW band \in Bands, SaveSettings(enabled, band, expired, io)
      PROVE  Met(World)'
  BY <1>5, SettingsMet, AnswersTyped
<1>6. ASSUME NEW io \in SaveAnswers, BeginSession(io) PROVE Met(World)'
  BY <1>6, SessionMet, AnswersTyped
<1>7. ASSUME NEW io \in SaveAnswers, NEW tx \in {amp.tx, "unknown"},
             NEW expired \in MayExpire, NEW band \in Bands,
             ObserveStatus(tx, band, expired, io)
      PROVE  Met(World)'
  BY <1>7, StatusMet, AnswersTyped
<1>8. ASSUME NEW valid \in BOOLEAN, NEW cooled \in BOOLEAN, NEW io \in Answers,
             ObserveDisplay(valid, cooled, io)
      PROVE  Met(World)'
  BY <1>8, DisplayMet, AnswersTyped
<1>9. ASSUME NEW late \in BOOLEAN, NEW expired \in MayExpire, NEW io \in Answers,
             Tick(late, expired, io)
      PROVE  Met(World)'
  BY <1>9, TickMet, AnswersTyped
<1>10. CASE Next
  BY <1>1, <1>2, <1>3, <1>4, <1>5, <1>6, <1>7, <1>8, <1>9, <1>10 DEF Next, Buttons
<1> QED BY <1>2, <1>10

\* What the keys on their way meet, and what the steps of a transaction know of the
\* amplifier.
THEOREM LineInvariant == Spec => []AllMet
<1>1. AllMet /\ [Next]_vars => AllMet'
  BY NextIInv, NextMet DEF AllMet
<1>2. Init => AllMet
  BY InitIInv, InitMet DEF AllMet
<1> QED BY <1>1, <1>2, PTL DEF Spec

\* A key meets the amplifier on the screen, with the fan mode and in the operating state
\* it was decided on, whatever frames were repeated or lost and whichever key was late or
\* lost.
THEOREM KeysMeetScreens == Spec => []KeyFindsItsScreen
<1>1. AllMet => KeyFindsItsScreen
  <2> SUFFICES ASSUME AllMet, line # <<>> PROVE KeyFindsItsScreen
    BY DEF KeyFindsItsScreen
  <2>1. line \in Seq(Keys) /\ LineMeets(line)
    BY DEF AllMet, IInv, World, Sound, Typed, Worlds, Met
  <2>2. Meets(line[1])
    BY <2>1 DEF LineMeets
  <2>3. Head(line) = line[1]
    BY <2>1
  <2> QED BY <2>2, <2>3 DEF KeyFindsItsScreen, Meets, FanEntry
<1> QED BY <1>1, LineInvariant, PTL

-----------------------------------------------------------------------------
(* What is recorded.  Outside a transaction the controller follows somebody at *)
(* the front panel, or the last key of a transaction that failed, one key at a *)
(* time.                                                                       *)

SavePages == {"save", "thirdSave"}
StoringScreens == {"storing", "thirdStoring"}

\* The amplifier is at most one key past the screen of the last frame.
Near(at) ==
    \/ amp.at \in {at, NextPage[at], "home"}
    \/ at = "save" /\ amp.at = "storing"
    \/ at = "thirdSave" /\ amp.at = "thirdStoring"

\* Each phase of passive observation knows what the amplifier shows or stores.
Watched(s) ==
    LET p == s.ctl.passive
        lcd == s.ctl.lcd
    IN  /\ Active(s) => p.phase = "none"
        /\ p.phase = "fan" =>
              /\ lcd.at \in (IF p.third THEN {"thirdQuiet", "thirdNormal"} ELSE {"fan"})
              /\ lcd.policy = p.policy /\ Near(lcd.at)
              /\ s.line # <<>> => Screen(s) = Displayed
              /\ amp.at \in SavePages => amp.shown = p.policy
        /\ p.phase = "save" =>
              /\ lcd.at \in (IF p.third THEN {"thirdSave"} ELSE {"save", "scale"})
              /\ s.line = <<>> /\ Near(lcd.at)
              /\ amp.at \in SavePages \cup {"scale"} => amp.shown = p.policy
              /\ amp.at \in StoringScreens => amp.stored = p.policy
        /\ p.phase = "storing" =>
              /\ lcd.at \in StoringScreens /\ s.line = <<>>
              /\ amp.at \in StoringScreens \cup {"home"} /\ amp.stored = p.policy

\* The fields that matter are there.
Shaped(s) ==
    /\ {"nav", "ctl", "disk", "line"} \subseteq DOMAIN s /\ "mode" \in DOMAIN s.nav
    /\ {"lcd", "passive", "policy", "live"} \subseteq DOMAIN s.ctl

\* t is left of s without a policy that is recorded.
Keeps(s, t) ==
    /\ Shaped(t)
    /\ t.ctl.lcd = s.ctl.lcd /\ t.ctl.passive \in {s.ctl.passive, NoPassive}
    /\ t.ctl.live => s.ctl.live /\ t.ctl.policy = s.ctl.policy

\* Nor a key or a transaction.
Follows(s, t) == Keeps(s, t) /\ t.line = s.line /\ (Active(t) => Active(s))

\* One method after another.
LEMMA KeepsAgain ==
    ASSUME NEW s, NEW t, NEW u
    PROVE  /\ Keeps(s, t) /\ Keeps(t, u) => Keeps(s, u)
           /\ Follows(s, t) /\ Follows(t, u) => Follows(s, u)
BY DEF Keeps, Follows

\* The methods that write no key.
LEMMA FollowMethods ==
    ASSUME NEW s, Shaped(s), NEW io
    PROVE  /\ Follows(s, s) /\ Follows(s, Fail(s)) /\ Follows(s, Pause(s))
           /\ Follows(s, ForgetComplete(s)) /\ Follows(s, ClearVerified(s))
           /\ Follows(s, Persist(s, io)) /\ Follows(s, DropThird(s))
<1> USE DEF Shaped, Keeps, Follows, Active
<1>1. Follows(s, s)
  OBVIOUS
<1>2. Follows(s, Fail(s))
  BY DEF Fail, Ended, NoNav
<1>3. Follows(s, Pause(s))
  BY DEF Pause
<1>4. Follows(s, ForgetComplete(s))
  BY DEF ForgetComplete, NoNav
<1>5. Follows(s, ClearVerified(s)) /\ Follows(s, DropThird(s))
  BY DEF ClearVerified, DropThird
<1>6. Follows(s, Persist(s, io))
  BY DEF Persist
<1> QED BY <1>1, <1>2, <1>3, <1>4, <1>5, <1>6

\* An override that expires.
LEMMA ExpireFollows ==
    ASSUME NEW s, Shaped(s), NEW expired, NEW io
    PROVE  Follows(s, Expire(s, expired, io))
<1> DEFINE u == [s EXCEPT !.ctl.override = "unknown", !.ctl.timer = "none",
                          !.ctl.desired = "unknown"]
           f == ForgetComplete(u)
<1>1. Follows(s, u)
  BY DEF Shaped, Keeps, Follows, Active
<1> HIDE DEF u
<1>2. Follows(s, f)
  BY <1>1, FollowMethods, KeepsAgain DEF Follows, Keeps
<1> HIDE DEF f
<1>3. Follows(s, Persist(f, io))
  BY <1>2, FollowMethods, KeepsAgain DEF Follows, Keeps
<1> QED BY <1>3, FollowMethods DEF Expire, f, u

\* The policy that is wanted is not one that is recorded.
LEMMA DecideFollows ==
    ASSUME NEW s, Shaped(s), NEW band
    PROVE  Follows(s, Decide(s, band))
<1> DEFINE With(policy) == [s EXCEPT !.ctl.desired = policy]
           off == [s EXCEPT !.ctl.desired = "unknown",
                            !.nav = IF s.nav.mode = "failed" THEN @ ELSE NoNav]
<1>1. Follows(s, off)
  BY DEF Shaped, Keeps, Follows, Active, NoNav
<1>2. ASSUME NEW policy
      PROVE  /\ Follows(s, With(policy)) /\ Follows(s, Fail(With(policy)))
             /\ Follows(s, ForgetComplete(With(policy)))
  <2>1. Follows(s, With(policy))
    BY DEF Shaped, Keeps, Follows, Active
  <2> HIDE DEF With
  <2> QED BY <2>1, FollowMethods, KeepsAgain DEF Follows, Keeps
<1>3. \/ Decide(s, band) = off
      \/ \E policy : Decide(s, band) \in {With(policy), Fail(With(policy)),
                                          ForgetComplete(With(policy))}
  BY DEF Decide
<1> HIDE DEF With, off
<1> QED BY <1>1, <1>2, <1>3

\* The methods that write a key.
LEMMA KeepsMethods ==
    ASSUME NEW s, Shaped(s), NEW name, NEW step, NEW expected, NEW io
    PROVE  /\ Keeps(s, Write(s, name, io)) /\ Keeps(s, Send(s, name, step, io))
           /\ Keeps(s, SendControl(s, expected, io)) /\ Keeps(s, Complete(s))
           /\ Keeps(s, GiveUp(s, io)) /\ Keeps(s, Unexpected(s, io))
<1>1. ASSUME NEW t, Shaped(t)
      PROVE  Keeps(t, t) /\ Keeps(t, Fail(t)) /\ Keeps(t, Pause(t))
  BY <1>1, FollowMethods DEF Follows
<1>2. ASSUME NEW t, Shaped(t), NEW key PROVE Keeps(t, Write(t, key, io))
  <2> DEFINE u == [t EXCEPT !.line = Append(@, [name |-> key, at |-> t.ctl.lcd.at,
                                policy |-> t.ctl.lcd.policy, oper |-> t.ctl.lcd.oper])]
  <2>1. Keeps(t, u)
    BY <1>2 DEF Shaped, Keeps
  <2>2. Write(t, key, io) \in {t, u, Fail(t), Fail(u)}
    BY DEF Write
  <2> HIDE DEF u
  <2> QED BY <1>1, <1>2, <2>1, <2>2, KeepsAgain DEF Keeps
<1>3. ASSUME NEW t, Shaped(t), NEW key, NEW next
      PROVE  Keeps(t, Send(t, key, next, io))
  <2> DEFINE u == [t EXCEPT !.nav.step = next, !.nav.prev = Screen(t),
                            !.ctl.mayBeInMenu = @ \/ (key = "set" /\ t.ctl.lcd.at = "home")]
  <2>1. Keeps(t, u)
    BY <1>3 DEF Shaped, Keeps
  <2>2. Send(t, key, next, io) \in {Fail(t), Pause(t), Write(u, key, io)}
    BY DEF Send
  <2> HIDE DEF u
  <2>3. Shaped(u)
    BY <2>1 DEF Keeps
  <2>4. Keeps(u, Write(u, key, io))
    BY <2>3, <1>2
  <2> QED BY <1>1, <1>3, <2>1, <2>2, <2>4, KeepsAgain
<1>4. Keeps(s, SendControl(s, expected, io))
  BY <1>1, <1>2 DEF SendControl
<1>5. Keeps(s, Complete(s))
  BY DEF Complete, Ended, NoNav, Shaped, Keeps
<1>6. Keeps(s, GiveUp(s, io))
  <2> DEFINE u == [s EXCEPT !.nav.exitTried = TRUE]
  <2>1. Keeps(s, u)
    BY DEF Shaped, Keeps
  <2>2. GiveUp(s, io) \in {Fail(s), Send(u, "display", "recover:home", io)}
    BY DEF GiveUp
  <2> HIDE DEF u
  <2>3. Keeps(u, Send(u, "display", "recover:home", io))
    BY <2>1, <1>3 DEF Keeps
  <2> QED BY <1>1, <2>1, <2>2, <2>3, KeepsAgain
<1> QED BY <1>1, <1>2, <1>3, <1>4, <1>5, <1>6 DEF Unexpected

\* RecordedPolicyIsStored of a step that leaves t of s.
Recorded(s, t) ==
    t.ctl.live /\ (t.ctl.policy # s.ctl.policy \/ ~s.ctl.live) => t.ctl.policy = amp.stored

\* recordVerifiedPolicyLocked
LEMMA RecordTells ==
    ASSUME NEW s, Shaped(s), NEW policy, NEW manual, NEW io
    PROVE  LET t == RecordVerified(s, policy, manual, io)
           IN  /\ Shaped(t) /\ t.ctl.policy = policy /\ t.ctl.passive = s.ctl.passive
               /\ t.ctl.lcd = s.ctl.lcd /\ t.line = s.line /\ t.nav = s.nav
<1> DEFINE u == [s EXCEPT
               !.ctl.policy = policy, !.ctl.live = TRUE,
               !.ctl.model = IF s.nav.model # "none" THEN s.nav.model ELSE s.ctl.st.model,
               !.ctl.timer = IF manual /\ @ = "set" THEN "running" ELSE @,
               !.ctl.heldHigh = policy = "high"]
<1>1. /\ Shaped(u) /\ u.ctl.policy = policy /\ u.ctl.passive = s.ctl.passive
      /\ u.ctl.lcd = s.ctl.lcd /\ u.line = s.line /\ u.nav = s.nav
  BY DEF Shaped
<1>2. RecordVerified(s, policy, manual, io) = Persist(u, io)
  BY DEF RecordVerified
<1> HIDE DEF u
<1> QED BY <1>1, <1>2 DEF Persist, Shaped

\* What a frame leaves in a transaction: passive observation stays off.
Tells(s, t) == t.ctl.passive \in {s.ctl.passive, NoPassive} /\ Recorded(s, t)

\* Home again after SET on SAVE: the amplifier has stored the target.
LEMMA SavedAtHomeTells ==
    ASSUME NEW s, Shaped(s), s.nav.target = amp.stored, NEW io
    PROVE  Tells(s, SavedAtHome(s, io))
<1> DEFINE u == [s EXCEPT !.ctl.mayBeInMenu = FALSE]
           manual == ~s.nav.verifyOnly /\ s.ctl.override # "unknown"
           r == RecordVerified(u, s.nav.target, manual, io)
           v == [r EXCEPT !.nav.step = "restore:status"]
<1>1. Shaped(u) /\ u.ctl.passive = s.ctl.passive
  BY DEF Shaped
<1>2. Shaped(r) /\ r.ctl.policy = amp.stored /\ r.ctl.passive = s.ctl.passive
  <2> HIDE DEF u, manual
  <2> QED BY <1>1, RecordTells
<1> HIDE DEF r
<1>3. Keeps(r, v)
  BY <1>2 DEF Shaped, Keeps
<1> HIDE DEF v
<1>4. Keeps(r, Complete(r)) /\ Keeps(r, Fail(r)) /\ Keeps(r, SendControl(v, "standby", io))
  <2>1. Shaped(v)
    BY <1>3 DEF Keeps
  <2> QED BY <1>2, <1>3, <2>1, KeepsMethods, FollowMethods, KeepsAgain DEF Follows
<1>5. SavedAtHome(s, io) \in {Complete(r), Fail(r), SendControl(v, "standby", io)}
  BY DEF SavedAtHome, r, v
<1> QED BY <1>2, <1>4, <1>5 DEF Keeps, Tells, Recorded

\* What a method leaves is the next state.
LEMMA BecomesTells ==
    ASSUME NEW s, NEW t, Tells(s, t) \/ Keeps(s, t), Becomes(t)
    PROVE  Tells(s, World')
BY DEF Becomes, World, Tells, Keeps, Recorded

\* A frame during a transaction.
LEMMA FrameTells ==
    ASSUME NEW s, Shaped(s), Facing(s), NEW io \in IOs, FrameInNavigation(s, io)
    PROVE  Tells(s, World')
<1> DEFINE u == [s EXCEPT !.nav.paused = FALSE]
<1>1. Keeps(s, u) /\ Keeps(s, s) /\ u.ctl = s.ctl
  BY DEF Shaped, Keeps
<1>2. u.nav.target = s.nav.target /\ u.nav.step = s.nav.step
  BY DEF Facing, InTransaction, Sound, Typed, Worlds, Navs
<1> HIDE DEF u
<1>3. ASSUME NEW t, Keeps(u, t), Becomes(t) PROVE Tells(s, World')
  BY <1>1, <1>3, KeepsAgain, BecomesTells
<1>4. ASSUME NEW t, Keeps(u, t)
      PROVE  /\ \A name, step : Keeps(u, Send(t, name, step, io))
             /\ Keeps(u, Unexpected(t, io)) /\ Keeps(u, Complete(t)) /\ Keeps(u, Fail(t))
             /\ \A step : Keeps(u, ThirdRight(t, step, io))
             /\ Keeps(u, Read(t)) /\ Keeps(u, ThirdTarget(t, io))
  <2>1. Shaped(t)
    BY <1>4 DEF Keeps
  <2>2. ASSUME NEW name, NEW step PROVE Keeps(u, Send(t, name, step, io))
    BY <1>4, <2>1, KeepsMethods, KeepsAgain
  <2>3. Keeps(u, Unexpected(t, io)) /\ Keeps(u, Complete(t)) /\ Keeps(u, Fail(t))
    BY <1>4, <2>1, KeepsMethods, FollowMethods, KeepsAgain DEF Follows
  <2>4. Keeps(t, Read(t))
    BY <2>1 DEF Read, Shaped, Keeps
  <2>5. ASSUME NEW step PROVE Keeps(u, ThirdRight(t, step, io))
    <3> DEFINE v == [t EXCEPT !.nav.expected = NextPage[t.ctl.lcd.at]]
    <3>1. Keeps(t, v) /\ Shaped(v)
      BY <2>1 DEF Shaped, Keeps
    <3> HIDE DEF v
    <3>2. Keeps(v, Send(v, "right", step, io))
      BY <3>1, KeepsMethods
    <3> QED BY <1>4, <3>1, <3>2, KeepsAgain DEF ThirdRight, v
  <2> QED BY <1>4, <2>2, <2>3, <2>4, <2>5, KeepsAgain DEF ThirdTarget
<1>5. Shaped(u) /\ Keeps(u, u) /\ Keeps(u, Read(u))
  BY <1>1, <1>4, FollowMethods DEF Keeps, Follows
<1>6. ASSUME NEW step, NEW ok, NEW t, Keeps(u, t), Waypoint(u, step, ok, t, io)
      PROVE  Tells(s, World')
  BY <1>3, <1>4, <1>5, <1>6 DEF Waypoint
<1>7. CASE SetupWaypoint(u, io)
  <2> DEFINE v == [u EXCEPT !.nav.index = @ + 1]
  <2>1. Keeps(u, v)
    BY <1>5 DEF Shaped, Keeps
  <2>2. \/ Becomes(Unexpected(u, io)) \/ Becomes(Send(v, "right", "setup", io))
        \/ Becomes(Send(u, "set", FanPage[u.nav.model], io))
    BY <1>7 DEF SetupWaypoint
  <2> HIDE DEF v
  <2> QED BY <1>3, <1>4, <1>5, <2>1, <2>2
<1>8. CASE FanPageWaypoint(u, io)
  <2>1. \/ Becomes(Unexpected(u, io))
        \/ \E name, step : \/ Becomes(Send(u, name, step, io))
                           \/ Becomes(Send(Read(u), name, step, io))
    BY <1>8 DEF FanPageWaypoint, Waypoint
  <2> QED BY <1>3, <1>4, <1>5, <2>1
<1>9. CASE ThirdPageWaypoint(u, io)
  <2>1. \/ Becomes(Unexpected(u, io)) \/ Becomes(ThirdTarget(u, io))
        \/ Becomes(ThirdTarget(Read(u), io)) \/ Becomes(ThirdRight(u, "thirdSave", io))
        \/ Becomes(Send(u, "set", "storing", io))
    BY <1>9 DEF ThirdPageWaypoint
  <2> QED BY <1>3, <1>4, <1>5, <2>1
<1>10. CASE StoringWaypoint(u, io)
  <2>1. CASE u.nav.step \in {"storing", "home"} /\ AtHome(u, "standby")
             /\ Becomes(SavedAtHome(u, io))
    <3>1. amp.at = "home"
      BY <1>1, <2>1 DEF Facing, Sees, AtHome
    <3>2. Reached(s.nav.step, s.nav) /\ s.nav.step \in {"storing", "home"}
      BY <1>2, <2>1 DEF Facing, InTransaction, Met
    <3>3. u.nav.target = amp.stored
      BY <1>2, <3>1, <3>2 DEF Reached
    <3>4. Tells(u, SavedAtHome(u, io))
      BY <1>5, <3>3, SavedAtHomeTells
    <3>5. Tells(u, World')
      BY <2>1, <3>4, BecomesTells
    <3> QED BY <1>1, <3>5 DEF Tells, Recorded
  <2>2. CASE Becomes([u EXCEPT !.nav.step = "home", !.nav.prev = Screen(u)])
    <3> DEFINE v == [u EXCEPT !.nav.step = "home", !.nav.prev = Screen(u)]
    <3>1. Keeps(u, v)
      BY <1>5 DEF Shaped, Keeps
    <3> HIDE DEF v
    <3> QED BY <1>3, <2>2, <3>1 DEF v
  <2>3. CASE Becomes(Unexpected(u, io))
    BY <1>3, <1>4, <1>5, <2>3
  <2> QED BY <1>10, <2>1, <2>2, <2>3 DEF StoringWaypoint
<1>11. CASE HomeWaypoint(u, io)
  <2>1. CASE \E step, ok : \/ Waypoint(u, step, ok, Send(u, "set", "setup:identify", io), io)
                           \/ Waypoint(u, step, ok, Complete(u), io)
    BY <1>4, <1>5, <1>6, <2>1
  <2>2. CASE Becomes(IF AtHome(u, "standby")
                     THEN [Fail(u) EXCEPT !.nav.newFrame = TRUE, !.ctl.mayBeInMenu = FALSE]
                     ELSE Fail(u))
    <3> DEFINE f == Fail(u)
               v == [f EXCEPT !.nav.newFrame = TRUE, !.ctl.mayBeInMenu = FALSE]
    <3>1. Keeps(u, f)
      BY <1>4, <1>5
    <3> HIDE DEF f
    <3>2. Keeps(f, v)
      BY <3>1 DEF Shaped, Keeps
    <3> HIDE DEF v
    <3>3. Keeps(u, v)
      BY <3>1, <3>2, KeepsAgain
    <3>4. Becomes(v) \/ Becomes(f)
      BY <2>2 DEF v, f
    <3> QED BY <1>3, <3>1, <3>3, <3>4
  <2> QED BY <1>11, <2>1, <2>2 DEF HomeWaypoint
<1>12. CASE Becomes(s)
  BY <1>1, <1>12, BecomesTells
<1>13. \/ Becomes(s)
       \/ \E resumed \in {u} :
             \/ HomeWaypoint(resumed, io)
             \/ SetupWaypoint(resumed, io) \/ FanPageWaypoint(resumed, io)
             \/ ThirdPageWaypoint(resumed, io) \/ StoringWaypoint(resumed, io)
  BY DEF FrameInNavigation, u
<1> QED BY <1>7, <1>8, <1>9, <1>10, <1>11, <1>12, <1>13

\* A transaction that begins records nothing.
LEMMA StartKeeps ==
    ASSUME NEW s, Shaped(s), NEW io
    PROVE  Keeps(s, Start(s, io))
<1> DEFINE t == [s EXCEPT !.nav = Begun(s)]
           u == [t EXCEPT !.nav.restore = TRUE, !.nav.step = "standby:status"]
<1>1. Keeps(s, t) /\ Keeps(s, s)
  BY DEF Shaped, Keeps, Begun, NoNav
<1> HIDE DEF t
<1>2. Shaped(t) /\ Keeps(t, u)
  BY <1>1 DEF Shaped, Keeps
<1> HIDE DEF u
<1>3. Keeps(t, Fail(t)) /\ Keeps(t, Send(t, "set", "setup:identify", io))
  BY <1>2, KeepsMethods, FollowMethods DEF Follows
<1>4. Keeps(u, SendControl(u, "operate", io))
  <2>1. Shaped(u)
    BY <1>2 DEF Keeps
  <2> QED BY <2>1, KeepsMethods
<1>5. Start(s, io) \in {s, Fail(t), SendControl(u, "operate", io),
                        Send(t, "set", "setup:identify", io)}
  BY DEF Start, t, u
<1> QED BY <1>1, <1>2, <1>3, <1>4, <1>5, KeepsAgain

\* What is watched is watched on with the next frame, and recorded at home.
LEMMA PassiveTells ==
    ASSUME NEW s \in Worlds, Sees(s), ~Active(s), Watched(World), amp \in Amps,
           s.ctl.passive = ctl.passive, s.line = line, ~Active(World), NEW io \in IOs
    PROVE  LET t == Passive(s, io)
           IN  /\ Watched(t) /\ Recorded(s, t) /\ Shaped(t) /\ t.nav = s.nav
               /\ t.ctl.lcd = s.ctl.lcd /\ t.line = s.line
               /\ amp.at = "home" => t.ctl.passive.phase = "none"
<1> DEFINE t == Passive(s, io)
           was == s.ctl.passive
           at == s.ctl.lcd.at
           Now(p) == [s EXCEPT !.ctl.passive = p]
           Fine(u) == /\ Watched(u) /\ Recorded(s, u) /\ Shaped(u) /\ u.nav = s.nav
                      /\ u.ctl.lcd = s.ctl.lcd /\ u.line = s.line
                      /\ amp.at = "home" => u.ctl.passive.phase = "none"
<1>1. /\ s.ctl.lcd.at = amp.at /\ s.ctl.lcd.policy = Displayed.policy
      /\ Shaped(s) /\ World.ctl = ctl /\ World.line = line
  BY DEF Sees, Worlds, Ctls, Navs, Shaped, World
<1>2. ASSUME NEW p
      PROVE  /\ Shaped(Now(p)) /\ Now(p).ctl.passive = p /\ Now(p).nav = s.nav
             /\ Now(p).ctl.lcd = s.ctl.lcd /\ Now(p).line = s.line
             /\ Recorded(s, Now(p))
  BY <1>1 DEF Shaped, Recorded
<1> USE DEF Watched, Near, SavePages, StoringScreens
<1> SUFFICES Fine(t)
  OBVIOUS
<1> HIDE DEF Now, t
<1>3. Now(NoPassive).ctl.passive.phase = "none"
  BY <1>2 DEF NoPassive
<1>4. CASE t = Now(NoPassive)
  BY <1>2, <1>3, <1>4
<1>5. CASE /\ t = s /\ at \notin {"fan", "home"} /\ ~was.third
           /\ at = "save" => was.phase # "fan"
           /\ at = "storing" => was.phase # "save"
  <2>1. was.phase # "fan"
    BY <1>1, <1>5 DEF NextPage
  <2>2. was.phase = "save" => s.ctl.lcd.at \in {"save", "scale"} /\ line = <<>>
    BY <1>1, <1>5 DEF NextPage
  <2>3. was.phase = "storing" => s.ctl.lcd.at \in StoringScreens /\ line = <<>>
    BY <1>1, <1>5
  <2>4. Recorded(s, s)
    BY DEF Recorded
  <2>5. Watched(s)
    <3>1. CASE was.phase = "save"
      BY <1>1, <1>5, <2>2, <3>1
    <3>2. CASE was.phase = "storing"
      BY <1>1, <1>5, <2>3, <3>2
    <3>3. CASE was.phase \notin {"fan", "save", "storing"}
      BY <1>1, <3>3
    <3> QED BY <2>1, <3>1, <3>2, <3>3
  <2> QED BY <1>1, <1>5, <2>4, <2>5
<1>6. CASE /\ t = Now(Noted(at, "fan", s.ctl.lcd.policy))
           /\ at \in {"fan", "thirdQuiet", "thirdNormal"}
  <2> DEFINE p == Noted(at, "fan", s.ctl.lcd.policy)
  <2>1. p.phase = "fan" /\ p.policy = s.ctl.lcd.policy /\ p.third = (at # "fan")
    BY <1>6 DEF Noted
  <2> HIDE DEF p
  <2>2. Screen(t) = Displayed
    BY <1>1, <1>2, <1>6 DEF Screen, Displayed, p
  <2>3. t.ctl.passive = p /\ t.nav = s.nav /\ t.ctl.lcd = s.ctl.lcd
    BY <1>2, <1>6 DEF p
  <2>4. Watched(t)
    BY <1>1, <1>6, <2>1, <2>2, <2>3 DEF Active
  <2> QED BY <1>1, <1>2, <1>6, <2>4
<1>7. CASE /\ t = Now(Noted(at, "save", was.policy))
           /\ was.phase \in {"fan", "save"}
           /\ \/ at = "save"
              \/ at = "thirdSave" /\ s.ctl.lcd.policy = was.policy
  <2> DEFINE p == Noted(at, "save", was.policy)
  <2>1. p.phase = "save" /\ p.policy = was.policy /\ p.third = (at # "save")
    BY <1>7 DEF Noted
  <2> HIDE DEF p
  <2>2. line = <<>>
    <3>1. was.phase = "fan" => Screen(World) # Displayed
      BY <1>1, <1>7 DEF Screen, Displayed
    <3> QED BY <1>1, <1>7, <3>1
  <2>3. amp.shown = was.policy
    <3>1. amp.at \in Pages
      BY <1>1, <1>7 DEF Pages, NextPage
    <3> QED BY <1>1, <1>7, <3>1 DEF Displayed
  <2>4. t.ctl.passive = p /\ t.nav = s.nav /\ t.ctl.lcd = s.ctl.lcd /\ t.line = line
    BY <1>2, <1>7 DEF p
  <2>5. Watched(t)
    BY <1>1, <1>7, <2>1, <2>2, <2>3, <2>4 DEF Active
  <2> QED BY <1>1, <1>2, <1>7, <2>5
<1>8. CASE /\ t = Now(Noted(at, "storing", was.policy))
           /\ was.phase \in {"save", "storing"} /\ at \in StoringScreens
  <2> DEFINE p == Noted(at, "storing", was.policy)
  <2>1. p.phase = "storing" /\ p.policy = was.policy
    BY DEF Noted
  <2> HIDE DEF p
  <2>2. line = <<>> /\ amp.stored = was.policy
    BY <1>1, <1>8
  <2>3. t.ctl.passive = p /\ t.nav = s.nav /\ t.ctl.lcd = s.ctl.lcd /\ t.line = line
    BY <1>2, <1>8 DEF p
  <2>4. Watched(t)
    BY <1>1, <1>8, <2>1, <2>2, <2>3 DEF Active
  <2> QED BY <1>1, <1>2, <1>8, <2>4
<1>9. CASE /\ t = RecordVerified(Now(NoPassive), was.policy, FALSE, io)
           /\ was.phase = "storing" /\ at = "home"
  <2>1. /\ Shaped(t) /\ t.ctl.policy = was.policy /\ t.ctl.passive = Now(NoPassive).ctl.passive
        /\ t.ctl.lcd = s.ctl.lcd /\ t.line = s.line /\ t.nav = s.nav
    <3> DEFINE u == Now(NoPassive)
               manual == FALSE
    <3>1. /\ Shaped(u) /\ u.nav = s.nav /\ u.ctl.lcd = s.ctl.lcd /\ u.line = s.line
          /\ t = RecordVerified(u, was.policy, manual, io)
      BY <1>2, <1>9
    <3> HIDE DEF was, Fine, u, manual
    <3>2. /\ Shaped(t) /\ t.ctl.policy = was.policy /\ t.ctl.passive = u.ctl.passive
          /\ t.ctl.lcd = s.ctl.lcd /\ t.line = s.line /\ t.nav = s.nav
      BY <3>1, RecordTells
    <3> QED BY <3>2 DEF u
  <2>2. amp.stored = was.policy
    BY <1>1, <1>9
  <2>3. Recorded(s, t) /\ t.ctl.passive.phase = "none"
    BY <1>3, <2>1, <2>2 DEF Recorded
  <2>4. Watched(t)
    BY <2>3
  <2> QED BY <2>1, <2>3, <2>4
<1>10. \/ t = Now(NoPassive)
       \/ /\ t = s /\ at \notin {"fan", "home"} /\ ~was.third
          /\ at = "save" => was.phase # "fan"
          /\ at = "storing" => was.phase # "save"
       \/ /\ t = Now(Noted(at, "fan", s.ctl.lcd.policy))
          /\ at \in {"fan", "thirdQuiet", "thirdNormal"}
       \/ /\ t = Now(Noted(at, "save", was.policy))
          /\ was.phase \in {"fan", "save"}
          /\ \/ at = "save"
             \/ at = "thirdSave" /\ s.ctl.lcd.policy = was.policy
       \/ /\ t = Now(Noted(at, "storing", was.policy))
          /\ was.phase \in {"save", "storing"} /\ at \in StoringScreens
       \/ /\ t = RecordVerified(Now(NoPassive), was.policy, FALSE, io)
          /\ was.phase = "storing" /\ at = "home"
  BY PassiveCases DEF Now, t
<1> HIDE DEF Fine, at, was
<1> QED BY <1>4, <1>5, <1>6, <1>7, <1>8, <1>9, <1>10

\* What the controller works on, and what it watches.
AllWatched == AllMet /\ Watched(World)

\* RecordedPolicyIsStored of a step.
StepRecords ==
    ctl'.live /\ (ctl'.policy # ctl.policy \/ ~ctl.live) => ctl'.policy = amp'.stored

\* The world has the fields of its type.
LEMMA WorldShaped ==
    ASSUME NEW s \in Worlds
    PROVE  Shaped(s)
BY DEF Worlds, Navs, Ctls, Shaped

\* A phase that is none watches nothing.
LEMMA UnwatchedNext ==
    ASSUME ctl'.passive.phase = "none"
    PROVE  Watched(World)'
BY DEF Watched, World

\* A step that records nothing: in a transaction nothing is watched, and outside it no
\* key is written.
LEMMA KeepsNext ==
    ASSUME Watched(World), NEW t, Becomes(t), UNCHANGED amp, Keeps(World, t),
           Active(World) \/ Follows(World, t)
    PROVE  Watched(World)' /\ StepRecords
<1>1. World'.nav = t.nav /\ World'.line = t.line /\ World'.ctl = t.ctl /\ ctl' = t.ctl
      /\ World.ctl = ctl /\ World.line = line
  BY DEF Becomes, World
<1>2. StepRecords
  BY <1>1 DEF Keeps, StepRecords
<1>3. CASE t.ctl.passive.phase = "none"
  BY <1>1, <1>2, <1>3, UnwatchedNext
<1>4. CASE t.ctl.passive.phase # "none"
  <2>1. t.ctl.passive = ctl.passive /\ t.ctl.lcd = ctl.lcd
    BY <1>1, <1>4 DEF Keeps, NoPassive
  <2>2. ~Active(World) /\ ~Active(t) /\ t.line = line
    BY <1>1, <1>4, <2>1 DEF Watched, Follows
  <2>3. Screen(t) = Screen(World)
    BY <1>1, <2>1 DEF Screen
  <2>4. Watched(t)
    BY <1>1, <2>1, <2>2, <2>3 DEF Watched
  <2>5. Watched(World)' = Watched(t)
    BY <1>1 DEF Watched, Active, Screen, Displayed, Near
  <2> QED BY <1>2, <2>4, <2>5
<1> QED BY <1>3, <1>4

\* A frame.
LEMMA DisplayWatched ==
    ASSUME AllWatched, NEW valid \in BOOLEAN, NEW cooled \in BOOLEAN, NEW io \in IOs,
           ObserveDisplay(valid, cooled, io)
    PROVE  Watched(World)' /\ StepRecords
<1> DEFINE seen == Seen(valid, cooled)
           s == IF Active(seen) THEN seen ELSE Passive(seen, io)
<1>1. /\ Sound(seen) /\ Met(seen) /\ Sees(seen) /\ seen.ctl.lcd.at \in Screens /\ amp \in Amps
      /\ seen.ctl.passive = ctl.passive /\ seen.ctl.policy = ctl.policy
      /\ seen.ctl.live = ctl.live /\ seen.line = line /\ seen.nav.mode = nav.mode
  BY SeenMet, CalmMet DEF AllWatched, AllMet, IInv
<1>2. /\ seen \in Worlds /\ Shaped(seen) /\ World.ctl = ctl /\ World.nav = nav
      /\ Watched(World) /\ UNCHANGED amp
  BY <1>1, WorldShaped DEF Sound, Typed, World, AllWatched, ObserveDisplay
<1>3. IF ~ControlActive(s.ctl) \/ Fatal(s)
      THEN Becomes(IF Active(s) THEN Fail(s) ELSE s)
      ELSE IF PauseBlock(s) THEN Becomes(Pause(s))
      ELSE IF Active(s) THEN FrameInNavigation(s, io) ELSE Becomes(Start(s, io))
  BY DEF ObserveDisplay, Seen, seen
<1> HIDE DEF seen
<1>4. CASE Active(seen)
  <2>1. ctl.passive.phase = "none" /\ s = seen
    BY <1>1, <1>2, <1>4 DEF Watched, Active
  <2>2. Keeps(seen, Fail(seen)) /\ Keeps(seen, Pause(seen))
    BY <1>2, FollowMethods DEF Follows
  <2>3. Facing(seen)
    BY <1>1, <1>4 DEF Facing, InTransaction
  <2>4. Tells(seen, World')
    BY <1>2, <1>3, <1>4, <2>1, <2>2, <2>3, BecomesTells, FrameTells
  <2>5. World'.ctl = ctl'
    BY DEF World
  <2>6. ctl'.passive.phase = "none"
    BY <1>1, <2>1, <2>4, <2>5 DEF Tells, NoPassive
  <2>7. StepRecords
    BY <1>1, <1>2, <2>4, <2>5 DEF Tells, Recorded, StepRecords
  <2> QED BY <2>6, <2>7, UnwatchedNext
<1>5. CASE ~Active(seen)
  <2>1. ~Active(World)
    BY <1>1, <1>2, <1>5 DEF Active
  <2>2. /\ Watched(s) /\ Recorded(seen, s) /\ Shaped(s) /\ s.nav = seen.nav
        /\ s.ctl.lcd = seen.ctl.lcd /\ s.line = line /\ ~Active(s)
        /\ amp.at = "home" => s.ctl.passive.phase = "none"
    BY <1>1, <1>2, <1>5, <2>1, PassiveTells DEF Active
  <2> HIDE DEF s
  <2>3. CASE Becomes(s)
    <3>1. World'.nav = s.nav /\ World'.line = s.line /\ World'.ctl = s.ctl /\ ctl' = s.ctl
      BY <2>3 DEF Becomes, World
    <3>2. Watched(World)' = Watched(s)
      BY <1>2, <3>1 DEF Watched, Active, Screen, Displayed, Near
    <3>3. StepRecords
      BY <1>1, <1>2, <2>2, <3>1 DEF Recorded, StepRecords
    <3> QED BY <2>2, <3>2, <3>3
  <2>4. CASE amp.at = "home" /\ Becomes(Start(s, io))
    <3>1. Keeps(s, Start(s, io))
      BY <2>2, StartKeeps
    <3>2. ctl' = Start(s, io).ctl
      BY <2>4 DEF Becomes
    <3>3. ctl'.passive.phase = "none"
      BY <2>2, <2>4, <3>1, <3>2 DEF Keeps, NoPassive
    <3>4. StepRecords
      BY <1>1, <1>2, <2>2, <3>1, <3>2 DEF Keeps, Recorded, StepRecords
    <3> QED BY <3>3, <3>4, UnwatchedNext
  <2>5. amp.at # "home" => Start(s, io) = s
    BY <1>1, <2>2 DEF Start, At, Sees
  <2>6. Pause(s) = s
    BY <2>2 DEF Pause
  <2> QED BY <1>3, <2>2, <2>3, <2>4, <2>5, <2>6
<1> QED BY <1>4, <1>5

\* A status frame.
LEMMA StatusWatched ==
    ASSUME AllWatched, NEW tx, NEW band, NEW expired, NEW io,
           ObserveStatus(tx, band, expired, io)
    PROVE  Watched(World)' /\ StepRecords
<1> DEFINE st == [recent |-> TRUE, tx |-> tx, oper |-> amp.oper, model |-> amp.model]
           e == Expire(World, expired, io)
           heard == [e EXCEPT !.ctl.st = st, !.ctl.statusHere = TRUE]
           named == IF heard.ctl.model \in {"none", amp.model} THEN heard
                    ELSE Persist(ClearVerified(heard), io)
           d == DropThird(named)
           s == Decide(d, band)
           next == IF s.nav.step = "standby:status" THEN "standby:display"
                                                    ELSE "restore:display"
           want == IF s.nav.step = "standby:status" THEN "standby" ELSE "operate"
           u == [s EXCEPT !.nav.paused = FALSE,
                          !.nav.step = IF s.ctl.st.oper = want THEN next ELSE @]
           v == [s EXCEPT !.nav.rxSeen = s.nav.paused]
<1>1. Becomes(StatusInNavigation(s)) /\ UNCHANGED amp
  BY DEF ObserveStatus
<1>2. Shaped(World) /\ Watched(World)
  BY WorldShaped DEF AllWatched, AllMet, IInv, Sound, Typed
<1>3. Follows(World, heard)
  <2>1. Follows(World, e)
    BY <1>2, ExpireFollows
  <2> HIDE DEF e, st
  <2>2. Follows(e, heard)
    BY <2>1 DEF Follows, Keeps, Shaped, Active
  <2> QED BY <2>1, <2>2, KeepsAgain
<1>4. Follows(World, d)
  <2> HIDE DEF heard
  <2> DEFINE cleared == ClearVerified(heard)
  <2>1. Follows(World, cleared)
    BY <1>3, FollowMethods, KeepsAgain DEF Follows, Keeps
  <2> HIDE DEF cleared
  <2>2. Follows(World, Persist(cleared, io))
    BY <2>1, FollowMethods, KeepsAgain DEF Follows, Keeps
  <2>3. Follows(World, named)
    BY <1>3, <2>2 DEF cleared
  <2> HIDE DEF named
  <2> QED BY <2>3, FollowMethods, KeepsAgain DEF Follows, Keeps
<1>5. Follows(World, s)
  <2> HIDE DEF d
  <2> QED BY <1>4, DecideFollows, KeepsAgain DEF Follows, Keeps
<1> HIDE DEF s
<1>6. Keeps(s, u) /\ Keeps(s, v) /\ Keeps(s, Fail(s)) /\ Keeps(s, Pause(s))
  <2>1. Shaped(s)
    BY <1>5 DEF Follows, Keeps
  <2> HIDE DEF want, next
  <2> QED BY <2>1, FollowMethods DEF Shaped, Keeps, Follows
<1>7. /\ StatusInNavigation(s) \in {s, Fail(s), Pause(s), u, v}
      /\ ~Active(s) => StatusInNavigation(s) = s
  BY DEF StatusInNavigation
<1> HIDE DEF u, v
<1>8. /\ Keeps(World, StatusInNavigation(s))
      /\ Active(World) \/ Follows(World, StatusInNavigation(s))
  BY <1>5, <1>6, <1>7, KeepsAgain DEF Follows
<1> QED BY <1>1, <1>2, <1>8, KeepsNext

\* The settings and the ticker.
LEMMA TimedWatched ==
    ASSUME AllWatched, NEW expired, NEW io,
           \/ \E enabled, band : SaveSettings(enabled, band, expired, io)
           \/ \E late : Tick(late, expired, io)
    PROVE  Watched(World)' /\ StepRecords
<1> DEFINE e == Expire(World, expired, io)
<1>1. Shaped(World) /\ Watched(World)
  BY WorldShaped DEF AllWatched, AllMet, IInv, Sound, Typed
<1>2. Follows(World, e)
  BY <1>1, ExpireFollows
<1>3. ASSUME NEW s, Follows(World, s)
      PROVE  /\ Follows(World, Fail(s)) /\ Follows(World, Pause(s))
             /\ Keeps(World, GiveUp(s, io))
  BY <1>3, FollowMethods, KeepsMethods, KeepsAgain DEF Follows, Keeps
<1>4. ASSUME NEW enabled, NEW band, SaveSettings(enabled, band, expired, io)
      PROVE  Watched(World)' /\ StepRecords
  <2> DEFINE u == [e EXCEPT !.ctl.enabled = enabled]
             d == DropThird(u)
             s == Decide(d, band)
  <2>1. (Becomes(s) \/ Becomes(Fail(s)) \/ Becomes(Pause(s))) /\ UNCHANGED amp
    BY <1>4 DEF SaveSettings, UpdateSettings
  <2> HIDE DEF e
  <2>2. Follows(World, u)
    <3>1. Follows(e, u)
      BY <1>2 DEF Follows, Keeps, Shaped, Active
    <3> QED BY <1>2, <3>1, KeepsAgain
  <2> HIDE DEF u
  <2>3. Follows(World, d)
    BY <2>2, FollowMethods, KeepsAgain DEF Follows, Keeps
  <2> HIDE DEF d
  <2>4. Follows(World, s)
    BY <2>3, DecideFollows, KeepsAgain DEF Follows, Keeps
  <2> HIDE DEF s
  <2> QED BY <1>1, <1>3, <2>1, <2>4, KeepsNext DEF Follows
<1>5. ASSUME NEW late, Tick(late, expired, io) PROVE Watched(World)' /\ StepRecords
  <2>1. /\ Becomes(e) \/ Becomes(Fail(e)) \/ (Active(e) /\ Becomes(GiveUp(e, io)))
        /\ UNCHANGED amp
    BY <1>5 DEF Tick
  <2> HIDE DEF e
  <2> QED BY <1>1, <1>2, <1>3, <2>1, KeepsNext DEF Follows
<1> QED BY <1>4, <1>5

\* The requests of an operator.
LEMMA RequestsWatched ==
    ASSUME AllWatched, NEW io,
           \/ \E policy, timer : SetManualOverride(policy, timer, io)
           \/ RequestVerification \/ Recover(io) \/ ClearCompletedNormalOverride(io)
    PROVE  Watched(World)' /\ StepRecords
<1>1. Shaped(World) /\ Watched(World)
  BY WorldShaped DEF AllWatched, AllMet, IInv, Sound, Typed
<1>2. ASSUME NEW s, Follows(World, s)
      PROVE  /\ Follows(World, ForgetComplete(s)) /\ Follows(World, Persist(s, io))
             /\ (UNCHANGED amp /\ Becomes(s) => Watched(World)' /\ StepRecords)
  BY <1>1, <1>2, FollowMethods, KeepsAgain, KeepsNext DEF Follows, Keeps
<1>3. ASSUME NEW policy, NEW timer, SetManualOverride(policy, timer, io)
      PROVE  Watched(World)' /\ StepRecords
  <2> DEFINE u == [World EXCEPT !.ctl.override = policy, !.ctl.timer = timer,
                       !.ctl.desired = "unknown",
                       !.ctl.verify = IF policy = "unknown" THEN @ ELSE "none"]
  <2>1. Follows(World, u)
    BY <1>1 DEF Follows, Keeps, Shaped, Active
  <2>2. Becomes(Persist(ForgetComplete(u), io)) /\ UNCHANGED amp
    BY <1>3 DEF SetManualOverride
  <2> HIDE DEF u
  <2> QED BY <1>2, <2>1, <2>2
<1>4. CASE RequestVerification
  <2> DEFINE u == [World EXCEPT !.ctl.verify = "api", !.ctl.desired = "unknown"]
  <2>1. Follows(World, u)
    BY <1>1 DEF Follows, Keeps, Shaped, Active
  <2>2. Becomes(ForgetComplete(u)) /\ UNCHANGED amp
    BY <1>4 DEF RequestVerification
  <2> HIDE DEF u
  <2> QED BY <1>2, <2>1, <2>2
<1>5. ASSUME NEW t, Follows(World, t), OrTakenBack(t), UNCHANGED amp
      PROVE  Watched(World)' /\ StepRecords
  <2> DEFINE u == [World EXCEPT !.ctl.saveFailed = TRUE]
  <2>1. Follows(World, u)
    BY <1>1 DEF Follows, Keeps, Shaped, Active
  <2>2. Becomes(t) \/ Becomes(u)
    BY <1>5 DEF OrTakenBack
  <2> HIDE DEF u
  <2> QED BY <1>2, <1>5, <2>1, <2>2
<1>6. CASE Recover(io)
  <2> DEFINE idle == [World EXCEPT !.nav = NoNav]
             u == [idle EXCEPT
                 !.ctl.override = "unknown", !.ctl.timer = "none", !.ctl.verify = "none",
                 !.ctl.desired = "unknown", !.ctl.mayBeInMenu = FALSE]
  <2>1. Follows(World, u)
    <3>1. Follows(World, idle)
      BY <1>1 DEF Follows, Keeps, Shaped, Active, NoNav
    <3> HIDE DEF idle
    <3>2. Follows(idle, u)
      BY <3>1 DEF Follows, Keeps, Shaped, Active
    <3> QED BY <3>1, <3>2, KeepsAgain
  <2>2. OrTakenBack(Persist(u, io)) /\ UNCHANGED amp
    BY <1>6 DEF Recover
  <2> HIDE DEF u
  <2> QED BY <1>2, <1>5, <2>1, <2>2
<1>7. CASE ClearCompletedNormalOverride(io)
  <2> DEFINE u == [World EXCEPT !.ctl.override = "unknown", !.ctl.timer = "none",
                                !.ctl.desired = "unknown"]
  <2>1. Follows(World, u)
    BY <1>1 DEF Follows, Keeps, Shaped, Active
  <2>2. OrTakenBack(Persist(ForgetComplete(u), io)) /\ UNCHANGED amp
    BY <1>7 DEF ClearCompletedNormalOverride
  <2> HIDE DEF u
  <2> QED BY <1>2, <1>5, <2>1, <2>2
<1> QED BY <1>3, <1>4, <1>6, <1>7

\* A new session or a restart watches nothing, and has recorded nothing.
LEMMA FreshWatched ==
    ASSUME AllWatched, NEW io,
           BeginSession(io) \/ \E verify, expired : Restart(verify, expired)
    PROVE  Watched(World)' /\ StepRecords
<1>1. Shaped(World) /\ Watched(World) /\ World.ctl = ctl
  BY WorldShaped DEF AllWatched, AllMet, IInv, Sound, Typed, World
<1>2. CASE BeginSession(io)
  <2> DEFINE fresh == [World EXCEPT !.ctl.session = TRUE, !.ctl.statusHere = FALSE,
                                    !.ctl.lcd = NoFrame, !.ctl.passive = NoPassive]
             stopped == IF Active(fresh) THEN Fail(fresh) ELSE fresh
             Blank(t) == /\ Shaped(t) /\ t.ctl.passive = NoPassive
                         /\ t.ctl.live => ctl.live /\ t.ctl.policy = ctl.policy
  <2>1. Blank(fresh)
    BY <1>1 DEF Shaped
  <2>2. Becomes(stopped) \/ Becomes(Persist(ClearVerified(stopped), io))
    BY <1>2 DEF BeginSession, ObserveSerialSession
  <2> HIDE DEF fresh
  <2>3. ASSUME NEW t, Blank(t)
        PROVE  Blank(Fail(t)) /\ Blank(ClearVerified(t)) /\ Blank(Persist(t, io))
    BY <2>3, FollowMethods DEF Follows, Keeps
  <2>4. ASSUME NEW t, Blank(t), Becomes(t) PROVE Watched(World)' /\ StepRecords
    <3>1. ctl' = t.ctl
      BY <2>4 DEF Becomes
    <3>2. ctl'.passive.phase = "none" /\ StepRecords
      BY <2>4, <3>1 DEF NoPassive, StepRecords
    <3> QED BY <3>2, UnwatchedNext
  <2> HIDE DEF Blank
  <2>5. Blank(stopped)
    BY <2>1, <2>3
  <2> HIDE DEF stopped
  <2> QED BY <2>2, <2>3, <2>4, <2>5
<1>3. ASSUME NEW verify, NEW expired, Restart(verify, expired)
      PROVE  Watched(World)' /\ StepRecords
  <2> DEFINE c == Started(disk, ctl.enabled, verify, expired)
             u == [World EXCEPT !.nav = NoNav, !.ctl = c]
  <2>1. c.passive = NoPassive /\ ~c.live
    BY DEF Started
  <2>2. Becomes(Persist(u, Good))
    BY <1>3 DEF Restart
  <2>3. u.ctl = c /\ "ctl" \in DOMAIN u
    <3> HIDE DEF c
    <3> QED BY DEF World
  <2>4. {"passive", "live"} \subseteq DOMAIN c
    BY DEF Started
  <2> HIDE DEF c, u
  <2>5. Persist(u, Good).ctl.passive = NoPassive /\ ~Persist(u, Good).ctl.live
    BY <2>1, <2>3, <2>4 DEF Persist
  <2>6. ctl'.passive.phase = "none" /\ StepRecords
    BY <2>2, <2>5 DEF Becomes, NoPassive, StepRecords
  <2> QED BY <2>6, UnwatchedNext
<1> QED BY <1>2, <1>3

\* What RIGHT and SET do on the screens that are watched.
LEMMA WatchedKeys ==
    ASSUME amp \in Amps
    PROVE  /\ amp.at \in Pages /\ Acts("right") =>
                 amp' = [amp EXCEPT !.at = NextPage[amp.at]]
           /\ amp.at \in {"fan", "thirdQuiet", "thirdNormal"} /\ Acts("set") =>
                 amp'.at = amp.at
           /\ amp.at \in {"save", "thirdSave"} /\ Acts("set") =>
                 /\ amp'.at = IF amp.at = "save" THEN "storing" ELSE "thirdStoring"
                 /\ amp'.stored = amp.shown /\ amp'.shown = amp.shown
           /\ amp.at \in {"scale", "storing", "thirdStoring"} /\ Acts("set") =>
                 amp' = amp
           /\ amp.at \in {"storing", "thirdStoring"} /\ Acts("right") => amp' = amp
<1>1. ASSUME amp.at \in Pages, Acts("right") PROVE amp' = [amp EXCEPT !.at = NextPage[amp.at]]
  BY <1>1 DEF Acts, Shows
<1>2. ASSUME amp.at \in Pages \cup StoringScreens
      PROVE  amp.at \notin Setup /\ amp.at # FanEntry /\ amp.at # "home"
  BY <1>2, SetupScreens DEF Pages, NextPage, StoringScreens
<1>3. Pages = {"scale", "fan", "save", "thirdQuiet", "thirdNormal", "thirdSave"}
  BY DEF Pages, NextPage
<1>4. ASSUME amp.at \in Pages \cup StoringScreens, Acts("set")
      PROVE  CASE amp.at = "fan" -> amp' = [amp EXCEPT !.shown = Flip(@)]
               [] amp.at = "thirdQuiet" -> amp' = [amp EXCEPT !.shown = "normal"]
               [] amp.at = "thirdNormal" -> amp' = [amp EXCEPT !.shown = "high"]
               [] amp.at = "save" -> amp' = [amp EXCEPT !.at = "storing", !.stored = amp.shown]
               [] amp.at = "thirdSave" ->
                      amp' = [amp EXCEPT !.at = "thirdStoring", !.stored = amp.shown]
               [] OTHER -> UNCHANGED amp
  BY <1>2, <1>4 DEF Acts, FanEntry
<1>5. ASSUME amp.at \in StoringScreens, Acts("right") PROVE amp' = amp
  BY <1>2, <1>3, <1>5 DEF Acts, StoringScreens
<1> QED BY <1>1, <1>3, <1>4, <1>5 DEF Amps, StoringScreens

\* The amplifier acts on a key of a transaction that failed.
LEMMA AmpActsWatched ==
    ASSUME AllWatched, AmpActs
    PROVE  Watched(World)' /\ StepRecords
<1>1. /\ line # <<>> /\ Acts(line[1].name) /\ line' = Tail(line) /\ UNCHANGED <<nav, ctl>>
      /\ LineMeets(line) /\ line \in Seq(Keys) /\ amp \in Amps /\ Watched(World)
  BY DEF AmpActs, AllWatched, AllMet, IInv, Met, World, Sound, Typed, Worlds
<1>2. StepRecords
  BY <1>1 DEF StepRecords
<1>3. World.ctl = ctl /\ World.line = line /\ World.nav = nav
      /\ World'.ctl = ctl /\ World'.line = line' /\ World'.nav = nav
  BY <1>1 DEF World
<1>4. CASE ctl.passive.phase # "fan"
  BY <1>1, <1>2, <1>3, <1>4 DEF Watched, Active
<1>5. CASE ctl.passive.phase = "fan"
  <2>1. /\ amp.at = ctl.lcd.at /\ amp.at \in {"fan", "thirdQuiet", "thirdNormal"}
        /\ ctl.lcd.policy = ctl.passive.policy /\ nav.mode # "active"
        /\ ctl.lcd.at \in (IF ctl.passive.third THEN {"thirdQuiet", "thirdNormal"}
                                                ELSE {"fan"})
    BY <1>1, <1>3, <1>5 DEF Watched, Screen, Displayed, Active
  <2>2. amp.at \in Pages /\ amp.at \notin Setup /\ amp.at # "home"
    BY <2>1, SetupScreens DEF Pages, NextPage
  <2>3. amp.shown = ctl.passive.policy
    BY <1>1, <1>3, <1>5, <2>1, <2>2 DEF Watched, Screen, Displayed
  <2>4. Len(line) = 1 /\ Meets(line[1])
    BY <1>1, <2>2 DEF LineMeets
  <2>5. line' = <<>>
    BY <1>1, <2>4
  <2>6. line[1].name \in {"set", "right"}
    <3>1. line[1] \in Keys
      BY <1>1, <2>4
    <3> QED BY <2>2, <2>4, <3>1 DEF Meets, Keys, Buttons
  <2>7. \/ amp'.at = NextPage[amp.at] /\ amp'.shown = amp.shown
        \/ amp'.at = amp.at
    BY <1>1, <2>1, <2>2, <2>6, WatchedKeys DEF Amps
  <2>8. Near(ctl.lcd.at)' /\ (amp'.at \in SavePages => amp'.shown = ctl.passive.policy)
    BY <1>1, <2>1, <2>3, <2>7 DEF Near, SavePages
  <2> QED BY <1>1, <1>2, <1>3, <1>5, <2>1, <2>5, <2>8 DEF Watched, Active
<1> QED BY <1>4, <1>5

\* The amplifier has stored, transmits, or is operated by hand.
LEMMA AmplifierWatched ==
    ASSUME AllWatched,
           \/ AmpHasStored \/ Transmit \/ StatusAges \/ ObserveOldDisplay
           \/ \E key \in Buttons : PressPanel(key)
           \/ UNCHANGED vars
    PROVE  Watched(World)' /\ StepRecords
<1>1. /\ World.ctl = ctl /\ World.line = line /\ World.nav = nav /\ Watched(World)
      /\ World'.ctl = ctl' /\ World'.line = line' /\ World'.nav = nav'
      /\ amp \in Amps /\ ctl \in Ctls /\ LineMeets(line)
  BY DEF AllWatched, AllMet, IInv, Met, World, Sound, Typed, Worlds
<1>2. CASE ObserveOldDisplay
  <2>1. ctl'.passive.phase = "none" /\ ctl'.policy = ctl.policy /\ ctl'.live = ctl.live
    BY <1>1, <1>2 DEF ObserveOldDisplay, NoPassive, Ctls
  <2> QED BY <2>1, UnwatchedNext DEF StepRecords
<1>3. ASSUME UNCHANGED <<line, nav>>, amp'.at = amp.at, amp'.shown = amp.shown,
             amp'.stored = amp.stored,
             ctl'.passive = ctl.passive, ctl'.lcd = ctl.lcd, ctl'.policy = ctl.policy,
             ctl'.live = ctl.live
      PROVE  Watched(World)' /\ StepRecords
  <2>1. Screen(World)' = Screen(World) /\ Displayed' = Displayed
    BY <1>1, <1>3 DEF Screen, Displayed
  <2> QED BY <1>1, <1>3, <2>1 DEF Watched, Near, Active, StepRecords
<1>4. CASE Transmit \/ StatusAges \/ UNCHANGED vars
  <2>1. CASE Transmit
    BY <1>1, <1>3, <2>1 DEF Transmit, Amps
  <2>2. CASE StatusAges
    BY <1>1, <1>3, <2>2 DEF StatusAges, Ctls
  <2>3. CASE UNCHANGED vars
    BY <1>3, <2>3 DEF vars
  <2> QED BY <1>4, <2>1, <2>2, <2>3
<1>5. CASE AmpHasStored
  <2>1. /\ amp.at \in StoringScreens /\ amp'.at = "home" /\ amp'.stored = amp.stored
        /\ UNCHANGED <<nav, line, ctl>>
    BY <1>1, <1>5 DEF AmpHasStored, Shows, Amps, StoringScreens
  <2>2. line = <<>>
    <3>1. amp.at \notin Setup
      BY <2>1, SetupScreens DEF StoringScreens
    <3> QED BY <1>1, <2>1, <3>1 DEF LineMeets, Meets, StoringScreens
  <2> QED BY <1>1, <2>1, <2>2 DEF Watched, Near, Active, StepRecords, SavePages, StoringScreens
<1>6. ASSUME NEW key \in Buttons, PressPanel(key) PROVE Watched(World)' /\ StepRecords
  <2>1. /\ UNCHANGED <<nav, line, ctl>> /\ line = <<>> /\ nav.mode # "active"
        /\ ctl.lcd.at = amp.at /\ Acts(key)
        /\ amp.at \in Pages => ctl.lcd.policy = amp.shown
    BY <1>1, <1>6 DEF PressPanel, Screen, Displayed
  <2>2. StepRecords
    BY <2>1 DEF StepRecords
  <2>3. CASE key = "operate"
    BY <1>1, <1>3, <2>1, <2>3 DEF Acts, Amps
  <2>4. CASE key = "display"
    <3>1. amp'.at = "home" /\ amp'.stored = amp.stored
      BY <1>1, <2>1, <2>4 DEF Acts, Amps
    <3> QED BY <1>1, <2>1, <2>2, <3>1 DEF Watched, Near, Active, SavePages, StoringScreens
  <2>5. CASE key \in {"right", "set"}
    <3> DEFINE p == ctl.passive
    <3>1. CASE p.phase = "fan"
      <4>1. /\ amp.at \in {"fan", "thirdQuiet", "thirdNormal"} /\ amp.at \in Pages
            /\ amp.shown = p.policy
        BY <1>1, <2>1, <3>1 DEF Watched, Pages, NextPage
      <4>2. \/ amp'.at = NextPage[amp.at] /\ amp'.shown = amp.shown
            \/ amp'.at = amp.at
        BY <1>1, <2>1, <2>5, <4>1, WatchedKeys DEF Amps
      <4> QED BY <1>1, <2>1, <2>2, <3>1, <4>1, <4>2 DEF Watched, Near, Active, SavePages
    <3>2. CASE p.phase = "save"
      <4>1. /\ amp.at \in {"save", "scale", "thirdSave"} /\ amp.at \in Pages
            /\ amp.shown = p.policy
        BY <1>1, <2>1, <3>2 DEF Watched, Pages, NextPage, SavePages
      <4>2. \/ amp'.at = NextPage[amp.at] /\ amp'.shown = amp.shown
            \/ amp'.at = amp.at /\ amp'.shown = amp.shown
            \/ amp.at = "save" /\ amp'.at = "storing" /\ amp'.stored = amp.shown
            \/ amp.at = "thirdSave" /\ amp'.at = "thirdStoring" /\ amp'.stored = amp.shown
        BY <1>1, <2>1, <2>5, <4>1, WatchedKeys DEF Amps
      <4>3. NextPage[amp.at] \notin StoringScreens
        BY <4>1 DEF NextPage, StoringScreens
      <4> QED BY <1>1, <2>1, <2>2, <3>2, <4>1, <4>2, <4>3
              DEF Watched, Near, Active, SavePages, StoringScreens
    <3>3. CASE p.phase = "storing"
      <4>1. amp.at \in {"storing", "thirdStoring"}
        BY <1>1, <2>1, <3>3 DEF Watched, StoringScreens
      <4>2. amp' = amp
        BY <1>1, <2>1, <2>5, <4>1, WatchedKeys
      <4> QED BY <1>3, <2>1, <4>2
    <3> QED BY <1>1, <2>1, <2>2, <3>1, <3>2, <3>3 DEF Watched, Active
  <2> QED BY <2>3, <2>4, <2>5 DEF Buttons
<1> QED BY <1>2, <1>4, <1>5, <1>6

\* A start watches nothing.
LEMMA InitWatched == Init => Watched(World)
BY DEF Init, NoNav, Started, NoPassive, Watched, World, Active

\* Every step.
LEMMA NextWatched == AllWatched /\ [Next]_vars => Watched(World)' /\ StepRecords
<1> SUFFICES ASSUME AllWatched, [Next]_vars PROVE Watched(World)' /\ StepRecords
  OBVIOUS
<1>1. CASE AmpActs
  BY <1>1, AmpActsWatched
<1>2. CASE \/ AmpHasStored \/ Transmit \/ StatusAges \/ ObserveOldDisplay
           \/ \E key \in Buttons : PressPanel(key)
           \/ UNCHANGED vars
  BY <1>2, AmplifierWatched
<1>3. CASE RequestVerification
            \/ \E verify \in {"none", "startup"}, expired \in BOOLEAN : Restart(verify, expired)
  BY <1>3, RequestsWatched, FreshWatched
<1>4. ASSUME NEW io \in SaveAnswers,
             \/ \E policy \in Policies \cup {"unknown"}, timer \in {"none", "set"} :
                   SetManualOverride(policy, timer, io)
             \/ Recover(io) \/ ClearCompletedNormalOverride(io)
      PROVE  Watched(World)' /\ StepRecords
  BY <1>4, RequestsWatched
<1>5. ASSUME NEW io \in SaveAnswers, BeginSession(io)
      PROVE  Watched(World)' /\ StepRecords
  BY <1>5, FreshWatched
<1>6. ASSUME NEW io \in SaveAnswers, NEW enabled \in BOOLEAN, NEW expired \in MayExpire,
             NEW band \in Bands, SaveSettings(enabled, band, expired, io)
      PROVE  Watched(World)' /\ StepRecords
  BY <1>6, TimedWatched
<1>7. ASSUME NEW io \in SaveAnswers, NEW tx \in {amp.tx, "unknown"},
             NEW expired \in MayExpire, NEW band \in Bands,
             ObserveStatus(tx, band, expired, io)
      PROVE  Watched(World)' /\ StepRecords
  BY <1>7, StatusWatched
<1>8. ASSUME NEW valid \in BOOLEAN, NEW cooled \in BOOLEAN, NEW io \in Answers,
             ObserveDisplay(valid, cooled, io)
      PROVE  Watched(World)' /\ StepRecords
  BY <1>8, DisplayWatched, AnswersTyped
<1>9. ASSUME NEW late \in BOOLEAN, NEW expired \in MayExpire, NEW io \in Answers,
             Tick(late, expired, io)
      PROVE  Watched(World)' /\ StepRecords
  BY <1>9, TimedWatched
<1>10. CASE Next
  BY <1>1, <1>2, <1>3, <1>4, <1>5, <1>6, <1>7, <1>8, <1>9, <1>10 DEF Next, Buttons
<1> QED BY <1>2, <1>10

\* A fan mode that is recorded is the one the amplifier has stored, whether a transaction
\* saved it or a hand at the front panel did, and across new sessions.
THEOREM RecordedIsStored == Spec => RecordedPolicyIsStored
<1>1. Init => AllWatched
  BY InitIInv, InitMet, InitWatched DEF AllWatched, AllMet
<1>2. AllWatched /\ [Next]_vars => AllWatched'
  BY NextIInv, NextMet, NextWatched DEF AllWatched, AllMet
<1>3. AllWatched /\ [Next]_vars
         => [ctl'.live /\ (ctl'.policy # ctl.policy \/ ~ctl.live)
                => ctl'.policy = amp'.stored]_vars
  BY NextWatched DEF StepRecords
<1> QED BY <1>1, <1>2, <1>3, PTL DEF Spec, RecordedPolicyIsStored
=============================================================================
