--------------------------- MODULE MenuDebugProofs ---------------------------
(***************************************************************************)
(* Theorems about the menu-debug wizard, for any setup menus, any          *)
(* amplifiers, any requests and any number of events.  A method of the     *)
(* controller is a function of what it works on (World); the lemmas say of *)
(* each what it preserves.                                                 *)
(*                                                                         *)
(* Three invariants: IInv is about the controller, its types and the step  *)
(* of its plan; Meeting (in MInv) relates what the session believes to     *)
(* where the amplifier is; Restoring (in RInv) follows the original value  *)
(* through a restoration.  The lemmas ...IInv, ...Meet and ...Restores say *)
(* of each action that it preserves the one, the other and the third.      *)
(***************************************************************************)
EXTENDS MenuDebug, TLAPS, WellFoundedInduction

Buttons == {"set", "right", "display"}
Lcds == [at : Screens \cup {"none"}, value : Values \cup {"none"}, reading : {0, 1},
         mode : Modes \cup {"unknown"}]
Shots == [at : Screens \cup {"none"}, value : Values \cup {"none"}, reading : {0, 1}]
Runtimes == [model : Models \cup {"none"}, gen : Nat, status : Modes \cup {"unknown"},
             heard : {"gone", "old", "fresh"}, lcd : Lcds, shown : {"gone", "old", "fresh"}]
AmpStates == [model : Models, at : Screens, edit : Values, fan : Values, bank : Values,
              mode : Modes]
Plans == [profile : {"none", "first-fan", "third-fan", "first-bank"},
          original : Values \cup {"none"}]
Sessions == [phase : Phases, cap : Capabilities \cup {"none"}, wanted : Seq(Capabilities),
             completed : SUBSET Capabilities, mayBeInMenu : BOOLEAN, lease : BOOLEAN,
             acted : BOOLEAN, seen : SUBSET Shots, last : Shots, from : Shots,
             pending : BOOLEAN, exiting : BOOLEAN, plan : Plans, step : Nat,
             retained : BOOLEAN, gen : Nat]
Keys == [name : Buttons \cup {"none"}, at : Screens \cup {"none"},
         value : Values \cup {"none"}, model : Models \cup {"none"}]
Places == {"idle", "top", "check", "write", "fail", "wait", "stop", "giveUp", "stopping",
           "done"}
Runs == [pc : Places, cur : BOOLEAN, phase : Phases \cup {"none"}, key : Keys,
         again : BOOLEAN, cancelled : BOOLEAN, abandoned : BOOLEAN]
PlanSteps == [key : {"set", "right"}, at : Screens, value : Values \cup {"none", "any"}]
Answers == [send : {"sent", "lost", "unconfirmed", "refused"}, granted : BOOLEAN,
            hold : BOOLEAN]

\* A transaction is about a capability, and its step is one of its plan.
InPlan(s) ==
    /\ s.phase \in Running \cup {"awaiting-apply", "awaiting-restore"}
           => s.cap \in Capabilities
    /\ s.phase \in {"applying", "restoring"} => s.step \in DOMAIN Steps(s)

\* A key that is about to be written is a button, for a session that is not aborted:
\* when abort came first, the revision of the key is stale.
KeyReady(s, r) ==
    /\ r.pc \in {"check", "write"} => r.key.name \in Buttons
    /\ r.pc = "write" => s.phase # "aborted"
    /\ r.pc = "check" /\ r.cur => s.phase # "aborted"

Sane(w) ==
    /\ DOMAIN w = {"sess", "reports", "run"}
    /\ w = [sess |-> w.sess, reports |-> w.reports, run |-> w.run]
    /\ w.sess \in Sessions /\ w.run \in Runs
    /\ InPlan(w.sess) /\ KeyReady(w.sess, w.run)

IInv ==
    /\ Sane(World) /\ amp \in AmpStates /\ rt \in Runtimes
    /\ line \in Seq([name : Buttons, at : Screens \cup {"none"},
                     value : Values \cup {"none"}, model : Models \cup {"none"}])
    /\ fan \in {"off", "manual", "on"} /\ starting \in BOOLEAN /\ events \in 0..MaxEvents

-----------------------------------------------------------------------------
(* The plans, and the capability that is next.                             *)

\* The waypoints from home to a capability the model has an entry for.
LEMMA ToEntryTyped ==
    ASSUME NEW m \in Models, NEW cap \in Capabilities,
           \E i \in DOMAIN SetupKeys[m] : SetupKeys[m][i] = SetupEntry[cap]
    PROVE  ToEntry(m, cap) \in Seq(PlanSteps)
<1> DEFINE keys == SetupKeys[m]
           entry == CHOOSE i \in DOMAIN keys : keys[i] = SetupEntry[cap]
<1>1. entry \in DOMAIN keys
  OBVIOUS
<1>2. keys \in Seq(STRING) /\ DOMAIN keys = 1..Len(keys) /\ entry \in Nat
  BY <1>1, MenuDebugAssumption
<1>3. \A i \in DOMAIN keys : keys[i] \in Screens
  BY DEF Screens, Setup
<1> HIDE DEF entry, keys
<1>4. ASSUME NEW i \in 1..entry
      PROVE  Step(IF i = 1 THEN "set" ELSE "right", keys[i], "none") \in PlanSteps
  <2>1. i \in DOMAIN keys
    BY <1>1, <1>2
  <2> QED BY <1>3, <2>1 DEF Step, PlanSteps
<1>5. ToEntry(m, cap) = [i \in 1..entry |-> Step(IF i = 1 THEN "set" ELSE "right", keys[i], "none")]
  BY DEF ToEntry, entry, keys
<1> QED BY <1>2, <1>4, <1>5

\* Both halves of a reviewed plan have steps, which are keys and screens of the menu.
LEMMA StepsTyped ==
    ASSUME NEW s \in Sessions, s.phase \in {"applying", "restoring"}
    PROVE  Steps(s) \in Seq(PlanSteps) /\ Len(Steps(s)) > 0
<1> DEFINE o == s.plan.original
           c == Flip(o)
           Value == Values \cup {"none", "any"}
<1>1. o \in Value /\ c \in Value /\ "any" \in Value
  BY DEF Sessions, Plans, Flip, Values
<1>2. \A key \in {"set", "right"}, at \in Screens, v \in Value : Step(key, at, v) \in PlanSteps
  BY DEF Step, PlanSteps
<1>3. {"fan", "save", "home", "scale", "thirdSave", "quiet", "normal", "bankA", "bankB",
       "bankSave"} \subseteq Screens
  BY DEF Screens, OtherScreens, Pages, NextPage
<1>4. /\ ToEntry("first", "fan") \in Seq(PlanSteps)
      /\ ToEntry("third", "fan") \in Seq(PlanSteps)
      /\ ToEntry("first", "bank") \in Seq(PlanSteps)
  BY ToEntryTyped, MenuDebugAssumption DEF Models, Capabilities, SetupEntry
<1> DEFINE Plan(x) == x \in Seq(PlanSteps) /\ Len(x) > 0
<1>5. \A a, b \in Seq(PlanSteps) : Len(b) > 0 => Plan(a \o b)
  OBVIOUS
<1> HIDE DEF o, c, Value
<1>6. Plan(FirstFan(o, c).applying) /\ Plan(FirstFan(o, c).restoring)
  <2>1. Plan(<<Step("set", "fan", c), Step("right", "save", c), Step("set", "home", "any")>>)
    BY <1>1, <1>2, <1>3
  <2>2. Plan(<<Step("set", "scale", c), Step("right", "fan", c), Step("set", "fan", o),
               Step("right", "save", o), Step("set", "home", "any")>>)
    BY <1>1, <1>2, <1>3
  <2> HIDE DEF Plan
  <2> QED BY <1>4, <1>5, <2>1, <2>2 DEF FirstFan, Plan
<1>7. Plan(ThirdFan(o, c).applying) /\ Plan(ThirdFan(o, c).restoring)
  <2>1. Plan(<<Step("right", "thirdSave", o), Step("right", "quiet", o),
               Step("set", "quiet", c), Step("right", "normal", c),
               Step("right", "thirdSave", c), Step("set", "home", "any")>>)
    BY <1>1, <1>2, <1>3
  <2>2. Plan(<<Step("set", "quiet", c), Step("right", "normal", c), Step("set", "normal", o),
               Step("right", "thirdSave", o), Step("set", "home", "any")>>)
    BY <1>1, <1>2, <1>3
  <2> QED BY <1>4, <1>5, <2>1, <2>2 DEF ThirdFan
<1>8. Plan(FirstBank(o, c).applying) /\ Plan(FirstBank(o, c).restoring)
  <2>1. Plan(<<Step("right", "bankB", o), Step("set", "bankB", c),
               Step("right", "bankSave", c), Step("set", "home", c)>>)
    BY <1>1, <1>2, <1>3
  <2>2. Plan(<<Step("set", "bankB", c), Step("right", "bankSave", c),
               Step("right", "bankA", c), Step("set", "bankA", o),
               Step("right", "bankB", o), Step("right", "bankSave", o),
               Step("set", "home", o)>>)
    BY <1>1, <1>2, <1>3
  <2> QED BY <1>4, <1>5, <2>1, <2>2 DEF FirstBank
<1> HIDE DEF Plan
<1>9. Plan(Steps(s))
  BY <1>6, <1>7, <1>8 DEF Steps, o, c
<1> QED BY <1>9 DEF Plan

\* The next capability is one that was asked for.
LEMMA NextTyped ==
    ASSUME NEW s \in Sessions
    PROVE  NextCapability(s) \in Capabilities \cup {"none"}
<1> DEFINE open == {i \in DOMAIN s.wanted : s.wanted[i] \notin s.completed}
           less == OpToRel(<, Nat)
<1>1. s.wanted \in Seq(Capabilities)
  BY DEF Sessions
<1>2. open \subseteq Nat
  BY <1>1
<1>3. CASE open # {}
  <2>1. PICK i \in open : \A j \in open : <<j, i>> \notin less
    BY <1>2, <1>3, NatLessThanWellFounded, WFMin
  <2>2. ASSUME NEW j \in open PROVE i <= j
    <3>1. i \in Nat /\ j \in Nat
      BY <1>2
    <3>2. <<j, i>> \notin less
      BY <2>1
    <3> HIDE DEF open
    <3>3. ~(j < i)
      BY <3>1, <3>2 DEF OpToRel
    <3> QED BY <3>1, <3>3
  <2> DEFINE first == CHOOSE k \in open : \A j \in open : k <= j
  <2>3. first \in open
    <3> HIDE DEF open
    <3> QED BY <2>2
  <2>4. NextCapability(s) = s.wanted[first]
    BY <1>3 DEF NextCapability
  <2> HIDE DEF first
  <2>5. s.wanted[first] \in Capabilities
    BY <1>1, <2>3
  <2> QED BY <2>4, <2>5
<1> QED BY <1>3 DEF NextCapability

-----------------------------------------------------------------------------
(* What the parts of a method preserve.                                    *)

\* Another session, other reports, another state of the runner.
LEMMA ChangeSane ==
    ASSUME NEW w, Sane(w)
    PROVE  /\ \A s \in Sessions : InPlan(s) /\ s.phase # "aborted" =>
                 LET v == [w EXCEPT !.sess = s]
                 IN  Sane(v) /\ v.sess = s /\ v.run = w.run
           /\ \A r \in Runs : KeyReady(w.sess, r) =>
                 LET v == [w EXCEPT !.run = r]
                 IN  Sane(v) /\ v.run = r /\ v.sess = w.sess
           /\ \A x : LET v == [w EXCEPT !.reports = x]
                     IN  Sane(v) /\ v.sess = w.sess /\ v.run = w.run
<1>1. ASSUME NEW s \in Sessions, InPlan(s), s.phase # "aborted"
      PROVE  LET v == [w EXCEPT !.sess = s] IN Sane(v) /\ v.sess = s /\ v.run = w.run
  BY <1>1 DEF Sane, KeyReady
<1>2. ASSUME NEW r \in Runs, KeyReady(w.sess, r)
      PROVE  LET v == [w EXCEPT !.run = r] IN Sane(v) /\ v.run = r /\ v.sess = w.sess
  BY <1>2 DEF Sane
<1>3. ASSUME NEW x
      PROVE  LET v == [w EXCEPT !.reports = x]
             IN  Sane(v) /\ v.sess = w.sess /\ v.run = w.run
  BY <1>3 DEF Sane
<1> QED BY <1>1, <1>2, <1>3

\* bumpLocked
LEMMA BumpSane ==
    ASSUME NEW w, Sane(w)
    PROVE  Sane(Bump(w)) /\ Bump(w).sess = w.sess /\ Bump(w).run.pc = w.run.pc
           /\ Bump(w).run.cur = FALSE
<1> DEFINE r == [w.run EXCEPT !.cur = FALSE]
<1>1. r \in Runs /\ KeyReady(w.sess, r) /\ r.pc = w.run.pc /\ r.cur = FALSE
  BY DEF Sane, Runs, KeyReady
<1>2. Bump(w) = [w EXCEPT !.run = r]
  BY DEF Bump, Sane
<1> HIDE DEF r
<1> QED BY <1>1, <1>2, ChangeSane

\* The runner moves on to where it holds no authorized key.
LEMMA AtSane ==
    ASSUME NEW w, Sane(w), NEW pc \in Places \ {"check", "write"}
    PROVE  Sane(At(w, pc)) /\ At(w, pc).sess = w.sess
<1> DEFINE r == [w.run EXCEPT !.pc = pc]
<1>1. r \in Runs /\ KeyReady(w.sess, r)
  BY DEF Sane, Runs, KeyReady
<1>2. At(w, pc) = [w EXCEPT !.run = r]
  BY DEF At, Sane
<1> HIDE DEF r
<1> QED BY <1>1, <1>2, ChangeSane

\* No session, and one that is over.
LEMMA OverTyped ==
    ASSUME NEW s \in Sessions, NEW phase \in Terminal
    PROVE  /\ NoSession \in Sessions /\ InPlan(NoSession)
           /\ Over(s, phase) \in Sessions /\ InPlan(Over(s, phase))
           /\ Over(s, phase).phase = phase
<1> DEFINE acted == s.acted \/ s.seen # {}
<1>1. NoSession \in Sessions /\ InPlan(NoSession)
  BY DEF NoSession, Sessions, Phases, NoScreen, Shots, NoPlan, Plans, InPlan, Running
<1>2. acted \in BOOLEAN
  BY DEF Sessions
<1>3. Over(s, phase) = [NoSession EXCEPT !.phase = phase, !.cap = s.cap, !.gen = s.gen,
                            !.retained = s.retained, !.mayBeInMenu = s.mayBeInMenu,
                            !.acted = acted]
  BY DEF Over
<1> HIDE DEF acted
<1>4. Over(s, phase) \in Sessions /\ Over(s, phase).phase = phase
  <2>1. /\ phase \in Phases /\ s.cap \in Capabilities \cup {"none"} /\ s.gen \in Nat
        /\ s.retained \in BOOLEAN /\ s.mayBeInMenu \in BOOLEAN
    BY DEF Sessions, Phases
  <2> DEFINE n == NoSession
             a == [n EXCEPT !.phase = phase, !.cap = s.cap, !.gen = s.gen]
             b == [a EXCEPT !.retained = s.retained, !.mayBeInMenu = s.mayBeInMenu,
                            !.acted = acted]
  <2> HIDE DEF n
  <2>2. a \in Sessions /\ a.phase = phase
    BY <1>1, <2>1 DEF Sessions, n
  <2>3. Over(s, phase) = b
    BY <1>3 DEF n
  <2> HIDE DEF a
  <2>4. b \in Sessions /\ b.phase = phase
    BY <1>2, <2>1, <2>2 DEF Sessions
  <2> QED BY <2>3, <2>4
<1> QED BY <1>1, <1>4 DEF InPlan, Running, Terminal

\* retainIncompleteReportLocked
LEMMA RetainSane ==
    ASSUME NEW w, Sane(w)
    PROVE  LET v == Retain(w) IN Sane(v) /\ v.sess.phase = w.sess.phase /\ v.run = w.run
<1> DEFINE s == [w.sess EXCEPT !.retained = TRUE]
           x == w.reports \cup {Report(w, "incomplete")}
           u == [w EXCEPT !.reports = x]
           v == [u EXCEPT !.sess = s]
<1>1. s \in Sessions /\ InPlan(s) /\ s.phase = w.sess.phase /\ KeyReady(s, w.run)
  BY DEF Sane, Sessions, InPlan, Steps, KeyReady
<1>2. Sane(u) /\ u.sess = w.sess /\ u.run = w.run
  BY ChangeSane
<1>3. Sane(v) /\ v.sess = s /\ v.run = w.run
  <2> HIDE DEF s, u
  <2> QED BY <1>1, <1>2 DEF Sane
<1>4. Retain(w) \in {w, v}
  <2>1. v = [w EXCEPT !.reports = w.reports \cup {Report(w, "incomplete")},
                      !.sess.retained = TRUE]
    BY DEF Sane
  <2> HIDE DEF v
  <2> QED BY <2>1 DEF Retain
<1> HIDE DEF v, s
<1> QED BY <1>1, <1>3, <1>4

\* A session that ends, when it is aborted not while its key is written.
LEMMA EndedSane ==
    ASSUME NEW w, Sane(w), NEW phase \in Terminal,
           phase = "aborted" => w.run.pc # "write"
    PROVE  LET v == Ended(w, phase)
           IN  Sane(v) /\ v.sess.phase = phase /\ v.run.pc = w.run.pc /\ v.run.cur = FALSE
<1> DEFINE kept == Retain(w)
           s == Over(kept.sess, phase)
           r == [kept.run EXCEPT !.cur = FALSE]
           v == [sess |-> s, reports |-> kept.reports, run |-> r]
<1>1. Sane(kept) /\ kept.run = w.run
  BY RetainSane
<1>2. s \in Sessions /\ InPlan(s) /\ s.phase = phase
  <2> HIDE DEF kept
  <2> QED BY <1>1, OverTyped DEF Sane
<1>3. r \in Runs /\ r.pc = w.run.pc /\ r.cur = FALSE
  <2> HIDE DEF kept
  <2> QED BY <1>1 DEF Sane, Runs
<1>4. KeyReady(s, r)
  <2>1. r.key = w.run.key
    <3> HIDE DEF kept
    <3> QED BY <1>1 DEF Sane, Runs
  <2> HIDE DEF s, r
  <2> QED BY <1>2, <1>3, <2>1 DEF Sane, KeyReady
<1>5. Ended(w, phase) = v
  <2>1. Ended(w, phase) = Bump([kept EXCEPT !.sess = s])
    BY DEF Ended
  <2> HIDE DEF kept, s
  <2> QED BY <1>1, <2>1 DEF Bump, Sane
<1>6. Sane(v)
  <2> HIDE DEF s, r, kept
  <2> QED BY <1>2, <1>3, <1>4 DEF Sane
<1> HIDE DEF s, r, kept
<1> QED BY <1>2, <1>3, <1>5, <1>6

\* failLocked
LEMMA FailSane ==
    ASSUME NEW w, Sane(w)
    PROVE  Sane(Fail(w)) /\ Fail(w).sess.phase = "failed"
<1> DEFINE v == Ended(w, "failed")
           in == v.sess.mayBeInMenu \/ w.sess.acted
                     \/ w.sess.phase \in {"discovering", "applying", "restoring"}
           s == [v.sess EXCEPT !.mayBeInMenu = in]
<1>1. Sane(v) /\ v.sess.phase = "failed"
  BY EndedSane DEF Terminal
<1>2. s \in Sessions /\ InPlan(s) /\ s.phase = "failed"
  <2>1. in \in BOOLEAN
    BY <1>1 DEF Sane, Sessions
  <2> HIDE DEF v, in
  <2> QED BY <1>1, <2>1 DEF Sane, Sessions, InPlan, Running
<1>3. Fail(w) = [v EXCEPT !.sess = s]
  <2> HIDE DEF v
  <2> QED BY <1>1 DEF Fail, Sane, v
<1> HIDE DEF v, s
<1> QED BY <1>1, <1>2, <1>3, ChangeSane

\* A new serial session or another model.
LEMMA InvalidateSane == ASSUME NEW w, Sane(w) PROVE Sane(Invalidate(w))
<1> DEFINE s == Over(w.sess, "failed")
           u == [w EXCEPT !.sess = s]
           v == [u EXCEPT !.reports = {}]
<1>1. s \in Sessions /\ InPlan(s) /\ s.phase = "failed"
  BY OverTyped DEF Sane, Terminal
<1>2. Sane(u)
  <2> HIDE DEF s
  <2> QED BY <1>1, ChangeSane
<1>3. Sane(v)
  <2> HIDE DEF u
  <2> QED BY <1>2, ChangeSane
<1>4. Invalidate(w) \in {w, Bump(v)}
  BY DEF Invalidate, Sane
<1> HIDE DEF v
<1> QED BY <1>3, <1>4, BumpSane

\* A frame as the session remembers it.
LEMMA ScreenTyped == ASSUME NEW lcd \in Lcds PROVE Screen(lcd) \in Shots
BY DEF Lcds, Shots, Screen

\* The steps of a plan depend on its profile, its value and the phase.
LEMMA SamePlan ==
    ASSUME NEW s, NEW u, u.plan = s.plan, u.phase = s.phase
    PROVE  Steps(u) = Steps(s)
BY DEF Steps

\* completeTopologyLocked
LEMMA CompleteTopologySane ==
    ASSUME NEW w, Sane(w), w.sess.cap \in Capabilities, NEW home \in BOOLEAN
    PROVE  Sane(CompleteTopology(w, home))
<1> DEFINE away == ~home
           phase == IF home THEN "armed" ELSE "awaiting-home"
           a == [w.sess EXCEPT !.completed = @ \cup {w.sess.cap}, !.cap = "none",
                               !.phase = phase, !.lease = away, !.mayBeInMenu = away]
           b == [a EXCEPT !.last = NoScreen, !.seen = {}, !.acted = TRUE,
                          !.pending = FALSE, !.exiting = FALSE]
           u == [w EXCEPT !.sess = b]
           v == [u EXCEPT !.reports = w.reports \cup {Report(w, "topology")}]
<1>1. away \in BOOLEAN /\ phase \in {"armed", "awaiting-home"} /\ NoScreen \in Shots
  BY DEF NoScreen, Shots
<1>2. a \in Sessions /\ a.phase = phase
  <2> HIDE DEF away, phase
  <2> QED BY <1>1 DEF Sane, Sessions, Phases
<1>3. b \in Sessions /\ b.phase = phase
  <2> HIDE DEF a
  <2> QED BY <1>1, <1>2 DEF Sessions
<1>4. InPlan(b) /\ b.phase # "aborted"
  <2> HIDE DEF b
  <2> QED BY <1>1, <1>3 DEF InPlan, Running
<1>5. Sane(u)
  <2> HIDE DEF b
  <2> QED BY <1>3, <1>4, ChangeSane
<1>6. Sane(v)
  <2> HIDE DEF u
  <2> QED BY <1>5, ChangeSane
<1>7. CompleteTopology(w, home) = Bump(v)
  <2> DEFINE x == [w EXCEPT !.reports = @ \cup {Report(w, "topology")},
                 !.sess.completed = @ \cup {w.sess.cap}, !.sess.cap = "none",
                 !.sess.phase = phase, !.sess.lease = away, !.sess.mayBeInMenu = away]
             y == [x EXCEPT !.sess.last = NoScreen, !.sess.seen = {}, !.sess.acted = TRUE,
                            !.sess.pending = FALSE, !.sess.exiting = FALSE]
  <2>1. x = [w EXCEPT !.reports = w.reports \cup {Report(w, "topology")}, !.sess = a]
    <3> HIDE DEF away, phase
    <3> QED BY DEF Sane
  <2>2. y = [x EXCEPT !.sess = b]
    <3>1. x.sess = a /\ DOMAIN x = DOMAIN w
      <4> HIDE DEF x, a
      <4> QED BY <2>1 DEF Sane
    <3> HIDE DEF x, a
    <3> QED BY <3>1 DEF Sane
  <2>3. y = v
    <3> HIDE DEF x, y, a, b
    <3> QED BY <2>1, <2>2 DEF Sane
  <2>4. CompleteTopology(w, home) = Bump(y)
    BY DEF CompleteTopology
  <2> QED BY <2>3, <2>4
<1> HIDE DEF v
<1> QED BY <1>6, <1>7, BumpSane

\* A frame that answers, or does not answer, a discovery key.
LEMMA DiscoveryFrameSane ==
    ASSUME NEW w, Sane(w), w.sess.phase = "discovering", NEW lcd \in Lcds
    PROVE  Sane(DiscoveryFrame(w, lcd))
<1> DEFINE s == [w.sess EXCEPT !.last = Screen(lcd)]
           newer == [w EXCEPT !.sess = s]
           t == [s EXCEPT !.seen = @ \cup {Screen(lcd)}, !.pending = FALSE]
           v == [newer EXCEPT !.sess = t]
<1>1. s \in Sessions /\ s.phase = "discovering" /\ s.cap \in Capabilities
  BY ScreenTyped DEF Sane, Sessions, InPlan, Running
<1>2. Sane(newer) /\ newer.sess = s
  <2>1. InPlan(s) /\ s.phase # "aborted"
    <3> HIDE DEF s
    <3> QED BY <1>1 DEF InPlan
  <2> HIDE DEF s
  <2> QED BY <1>1, <2>1, ChangeSane
<1>3. Sane(v)
  <2>1. t \in Sessions /\ t.phase = "discovering" /\ t.cap \in Capabilities
    <3> HIDE DEF s
    <3> QED BY <1>1, ScreenTyped DEF Sessions
  <2>2. InPlan(t)
    <3> HIDE DEF t
    <3> QED BY <2>1 DEF InPlan
  <2> HIDE DEF t, newer
  <2> QED BY <1>2, <2>1, <2>2, ChangeSane
<1>4. DiscoveryFrame(w, lcd) \in {w, CompleteTopology(newer, TRUE), Fail(newer), Bump(v)}
  <2>1. newer = [w EXCEPT !.sess.last = Screen(lcd)]
    BY DEF Sane
  <2>2. v = [newer EXCEPT !.sess.seen = w.sess.seen \cup {Screen(lcd)}, !.sess.pending = FALSE]
    BY DEF Sane, Sessions
  <2>3. newer.sess.seen = w.sess.seen
    BY DEF Sane, Sessions
  <2> HIDE DEF newer, v
  <2> QED BY <2>1, <2>2, <2>3 DEF DiscoveryFrame
<1> HIDE DEF newer, v, s
<1> QED BY <1>1, <1>2, <1>3, <1>4, CompleteTopologySane, FailSane, BumpSane

\* A frame that answers, or does not answer, a key of a plan.
LEMMA PlannedFrameSane ==
    ASSUME NEW w, Sane(w), w.sess.phase \in {"applying", "restoring"}, NEW lcd \in Lcds
    PROVE  Sane(PlannedFrame(w, lcd))
<1> DEFINE s == [w.sess EXCEPT !.last = Screen(lcd)]
           newer == [w EXCEPT !.sess = s]
           end == w.sess.step = Len(Steps(w.sess))
           next == IF ~end THEN w.sess.phase
                   ELSE IF w.sess.phase = "applying" THEN "awaiting-apply"
                                                     ELSE "awaiting-restore"
           from == IF end THEN NoScreen ELSE Screen(lcd)
           t == [w.sess EXCEPT !.pending = FALSE, !.step = w.sess.step + 1, !.from = from,
                               !.last = NoScreen, !.phase = next]
           v == [w EXCEPT !.sess = t]
<1>1. w.sess \in Sessions /\ InPlan(w.sess) /\ Screen(lcd) \in Shots /\ NoScreen \in Shots
  BY ScreenTyped DEF Sane, NoScreen, Shots
<1>2. /\ Steps(w.sess) \in Seq(PlanSteps) /\ w.sess.step \in DOMAIN Steps(w.sess)
      /\ w.sess.cap \in Capabilities
  BY <1>1, StepsTyped DEF InPlan, Running
<1>3. Sane(newer)
  <2>1. s \in Sessions /\ s.phase = w.sess.phase /\ s.plan = w.sess.plan
        /\ s.step = w.sess.step /\ s.cap = w.sess.cap
    BY <1>1 DEF Sessions
  <2> HIDE DEF s
  <2>2. InPlan(s)
    <3>1. Steps(s) = Steps(w.sess)
      BY <2>1, SamePlan
    <3> QED BY <1>2, <2>1, <3>1 DEF InPlan
  <2> QED BY <2>1, <2>2, ChangeSane
<1>4. Sane(v)
  <2>1. from \in Shots /\ next \in Phases /\ next # "aborted"
    BY <1>1 DEF Phases, Running
  <2>2. t \in Sessions /\ t.phase = next /\ t.plan = w.sess.plan
        /\ t.step = w.sess.step + 1 /\ t.cap = w.sess.cap
    <3>1. w.sess.step + 1 \in Nat
      BY <1>1 DEF Sessions
    <3> HIDE DEF from, next
    <3> QED BY <1>1, <2>1, <3>1 DEF Sessions
  <2> HIDE DEF t
  <2>3. InPlan(t)
    <3>1. CASE end
      <4>1. next \in {"awaiting-apply", "awaiting-restore"}
        BY <3>1
      <4> QED BY <1>2, <2>2, <4>1 DEF InPlan
    <3>2. CASE ~end
      <4>1. next = w.sess.phase
        BY <3>2
      <4>2. Steps(t) = Steps(w.sess)
        BY <2>2, <4>1, SamePlan
      <4>3. w.sess.step + 1 \in DOMAIN Steps(w.sess)
        BY <1>2, <3>2
      <4> QED BY <1>2, <2>2, <4>2, <4>3 DEF InPlan
    <3> QED BY <3>1, <3>2
  <2> QED BY <2>1, <2>2, <2>3, ChangeSane
<1>5. PlannedFrame(w, lcd) \in {w, Bump(newer), Fail(newer), Bump(v)}
  <2>1. newer = [w EXCEPT !.sess.last = Screen(lcd)]
    BY DEF Sane
  <2>2. v = [w EXCEPT
                 !.sess.pending = FALSE, !.sess.step = @ + 1,
                 !.sess.from = IF end THEN NoScreen ELSE Screen(lcd), !.sess.last = NoScreen,
                 !.sess.phase = IF ~end THEN @ ELSE IF @ = "applying" THEN "awaiting-apply"
                                                              ELSE "awaiting-restore"]
    <3> HIDE DEF end
    <3> QED BY <1>1 DEF Sane, Sessions
  <2> HIDE DEF newer, v
  <2> QED BY <2>1, <2>2 DEF PlannedFrame
<1> HIDE DEF newer, v
<1> QED BY <1>3, <1>4, <1>5, FailSane, BumpSane

\* consumeActionLocked
LEMMA ConsumeSane ==
    ASSUME NEW w, Sane(w), NEW name \in Buttons, NEW io, rt \in Runtimes,
           w.sess.phase \in Running
    PROVE  Sane(Consume(w, name, io))
<1> DEFINE s == [w.sess EXCEPT !.acted = TRUE]
           key == [name |-> name, at |-> rt.lcd.at, value |-> rt.lcd.value,
                   model |-> rt.model]
           r == [w.run EXCEPT !.pc = "check", !.cur = TRUE, !.phase = w.sess.phase,
                              !.key = key]
           u == [w EXCEPT !.sess = s]
           v == [u EXCEPT !.run = r]
<1>1. s \in Sessions /\ InPlan(s) /\ s.phase = w.sess.phase /\ s.phase # "aborted"
  <2>1. s \in Sessions /\ s.phase = w.sess.phase /\ s.plan = w.sess.plan
        /\ s.step = w.sess.step /\ s.cap = w.sess.cap
    BY DEF Sane, Sessions
  <2> HIDE DEF s
  <2>2. Steps(s) = Steps(w.sess)
    BY <2>1, SamePlan
  <2> QED BY <2>1, <2>2 DEF InPlan, Sane, Running
<1>2. key \in Keys /\ key.name \in Buttons
  BY DEF Keys, Runtimes, Lcds
<1>3. r \in Runs /\ r.pc = "check" /\ r.key = key
  <2>1. w.sess.phase \in Phases
    BY DEF Phases
  <2> HIDE DEF key
  <2> QED BY <1>2, <2>1 DEF Sane, Runs, Places
<1>4. Sane(u) /\ u.sess = s /\ u.run = w.run
  <2> HIDE DEF s
  <2> QED BY <1>1, ChangeSane
<1>5. Sane(v)
  <2> HIDE DEF r, u, s, key
  <2>1. KeyReady(s, r)
    BY <1>1, <1>2, <1>3 DEF KeyReady
  <2> QED BY <1>3, <1>4, <2>1, ChangeSane
<1>6. Consume(w, name, io) \in {At(Fail(w), "stop"), v}
  <2>1. v = [w EXCEPT !.sess.acted = TRUE, !.run.pc = "check", !.run.cur = TRUE,
                   !.run.phase = w.sess.phase,
                   !.run.key = [name |-> name, at |-> rt.lcd.at, value |-> rt.lcd.value,
                                model |-> rt.model]]
    <3> HIDE DEF key
    <3>1. v = [w EXCEPT !.sess.acted = TRUE, !.run.pc = "check", !.run.cur = TRUE,
                        !.run.phase = w.sess.phase, !.run.key = key]
      BY DEF Sane
    <3> HIDE DEF v
    <3> QED BY <3>1 DEF key
  <2> HIDE DEF v
  <2> QED BY <2>1 DEF Consume
<1> HIDE DEF v
<1> QED BY <1>5, <1>6, FailSane, AtSane DEF Places

-----------------------------------------------------------------------------
(* What the runner does between two keys.                                  *)

\* A discovery key is authorized, to enter or walk the menu or to leave it.
LEMMA AuthorizeSane ==
    ASSUME NEW w, Sane(w), w.sess.phase = "discovering", rt \in Runtimes, NEW io,
           NEW name \in Buttons
    PROVE  Sane(AuthorizeDiscovery(w, name, io)) /\ Sane(AuthorizeTopologyExit(w, io))
<1> DEFINE shot == Screen(rt.lcd)
           in == w.sess.mayBeInMenu \/ name = "set"
           s == [w.sess EXCEPT !.seen = @ \cup {shot}, !.last = shot, !.pending = TRUE,
                               !.mayBeInMenu = in]
           t == [w.sess EXCEPT !.seen = @ \cup {shot}, !.last = shot, !.pending = TRUE,
                               !.exiting = TRUE]
           u == [w EXCEPT !.sess = s]
           v == [w EXCEPT !.sess = t]
<1>1. shot \in Shots /\ in \in BOOLEAN
  BY ScreenTyped DEF Runtimes, Sane, Sessions
<1>2. w.sess \in Sessions /\ w.sess.cap \in Capabilities
  BY DEF Sane, InPlan, Running
<1>3. /\ s \in Sessions /\ s.phase = "discovering" /\ s.cap \in Capabilities
      /\ t \in Sessions /\ t.phase = "discovering" /\ t.cap \in Capabilities
  <2> HIDE DEF shot, in
  <2> QED BY <1>1, <1>2 DEF Sessions
<1>4. InPlan(s) /\ InPlan(t)
  <2> HIDE DEF s, t
  <2> QED BY <1>3 DEF InPlan
<1>5. /\ Sane(u) /\ u.sess.phase \in Running /\ Sane(v) /\ v.sess.phase \in Running
  <2> HIDE DEF s, t
  <2> QED BY <1>3, <1>4, ChangeSane DEF Running
<1>6. /\ AuthorizeDiscovery(w, name, io) = Consume(u, name, io)
      /\ AuthorizeTopologyExit(w, io) = Consume(v, "display", io)
  <2>1. u = [w EXCEPT !.sess.seen = @ \cup {Screen(rt.lcd)}, !.sess.last = Screen(rt.lcd),
                      !.sess.pending = TRUE, !.sess.mayBeInMenu = @ \/ name = "set"]
    BY DEF Sane
  <2>2. v = [w EXCEPT !.sess.seen = @ \cup {Screen(rt.lcd)}, !.sess.last = Screen(rt.lcd),
                      !.sess.pending = TRUE, !.sess.exiting = TRUE]
    BY DEF Sane
  <2> HIDE DEF u, v
  <2> QED BY <2>1, <2>2 DEF AuthorizeDiscovery, AuthorizeTopologyExit
<1> HIDE DEF u, v
<1> QED BY <1>5, <1>6, ConsumeSane DEF Buttons

\* InstallPlan
LEMMA InstallPlanSane ==
    ASSUME NEW w, Sane(w), w.sess.phase = "discovering", rt \in Runtimes,
           NEW profile \in {"first-fan", "third-fan", "first-bank"}
    PROVE  Sane(InstallPlan(w, profile))
<1> DEFINE plan == [profile |-> profile, original |-> rt.lcd.value]
           shot == Screen(rt.lcd)
           s == [w.sess EXCEPT !.phase = "plan-ready", !.step = 1, !.plan = plan,
                               !.from = shot, !.last = NoScreen, !.seen = {}]
           v == [w EXCEPT !.sess = s]
<1>1. plan \in Plans /\ shot \in Shots /\ NoScreen \in Shots
  BY ScreenTyped DEF Plans, Runtimes, Lcds, NoScreen, Shots
<1>2. w.sess \in Sessions /\ w.sess.cap \in Capabilities
  BY DEF Sane, InPlan, Running
<1>3. s \in Sessions /\ s.phase = "plan-ready" /\ s.cap = w.sess.cap
  <2>1. "plan-ready" \in Phases
    BY DEF Phases, Running
  <2> HIDE DEF plan, shot
  <2> QED BY <1>1, <1>2, <2>1 DEF Sessions
<1>4. InPlan(s)
  <2> HIDE DEF s
  <2> QED BY <1>2, <1>3 DEF InPlan
<1>5. Sane(v)
  <2> HIDE DEF s
  <2> QED BY <1>3, <1>4, ChangeSane
<1>6. InstallPlan(w, profile) \in {At(Fail(w), "stop"), Bump(v)}
  <2>1. v = [w EXCEPT !.sess.phase = "plan-ready", !.sess.step = 1,
                 !.sess.plan = [profile |-> profile, original |-> rt.lcd.value],
                 !.sess.from = Screen(rt.lcd), !.sess.last = NoScreen, !.sess.seen = {}]
    <3> HIDE DEF plan, shot
    <3>1. v = [w EXCEPT !.sess.phase = "plan-ready", !.sess.step = 1, !.sess.plan = plan,
                   !.sess.from = shot, !.sess.last = NoScreen, !.sess.seen = {}]
      BY DEF Sane
    <3> HIDE DEF v
    <3> QED BY <3>1 DEF plan, shot
  <2> HIDE DEF v
  <2> QED BY <2>1 DEF InstallPlan
<1> HIDE DEF v
<1> QED BY <1>5, <1>6, FailSane, AtSane, BumpSane, ZenonT(60) DEF Places

\* sendDiscovery up to the write
LEMMA DiscoverSane ==
    ASSUME NEW w, Sane(w), w.sess.phase = "discovering", rt \in Runtimes, NEW io,
           NEW legend
    PROVE  Sane(Discover(w, legend, io))
<1> DEFINE profile == Profile(w.sess.cap, rt.model, rt.lcd)
<1>1. profile # "none" => profile \in {"first-fan", "third-fan", "first-bank"}
  BY DEF Profile
<1>2. w.sess.cap \in Capabilities
  BY DEF Sane, InPlan, Running
<1>3. /\ Sane(AuthorizeDiscovery(w, "set", io)) /\ Sane(AuthorizeDiscovery(w, "right", io))
      /\ Sane(AuthorizeTopologyExit(w, io)) /\ Sane(At(w, "stop")) /\ Sane(At(Fail(w), "stop"))
  BY AuthorizeSane, AtSane, FailSane DEF Buttons, Places
<1>4. Sane(FinishTopologyOnly(w, io))
  BY <1>2, <1>3, CompleteTopologySane DEF FinishTopologyOnly
<1>5. profile # "none" => Sane(InstallPlan(w, profile))
  BY <1>1, InstallPlanSane
<1>6. \/ Discover(w, legend, io) \in {At(w, "stop"), AuthorizeDiscovery(w, "set", io),
                                      AuthorizeDiscovery(w, "right", io),
                                      FinishTopologyOnly(w, io)}
      \/ profile # "none" /\ Discover(w, legend, io) = InstallPlan(w, profile)
  BY DEF Discover
<1> HIDE DEF profile
<1> QED BY <1>3, <1>4, <1>5, <1>6

\* beginPlan
LEMMA BeginPlanSane ==
    ASSUME NEW w, Sane(w), w.sess.cap \in Capabilities, NEW to \in {"applying", "restoring"}
    PROVE  Sane(BeginPlan(w, to))
<1> DEFINE s == [w.sess EXCEPT !.phase = to, !.step = 1, !.pending = FALSE]
           v == [w EXCEPT !.sess = s]
<1>1. s \in Sessions /\ s.phase = to /\ s.cap \in Capabilities /\ s.step = 1
  BY DEF Sane, Sessions, Phases, Running
<1>2. InPlan(s)
  <2> HIDE DEF s
  <2>1. Steps(s) \in Seq(PlanSteps) /\ Len(Steps(s)) > 0
    BY <1>1, StepsTyped
  <2>2. 1 \in DOMAIN Steps(s)
    BY <2>1
  <2> QED BY <1>1, <2>2 DEF InPlan
<1>3. Sane(v)
  <2> HIDE DEF s
  <2> QED BY <1>1, <1>2, ChangeSane
<1>4. BeginPlan(w, to) = Bump(v)
  BY DEF BeginPlan, Sane
<1> HIDE DEF v
<1> QED BY <1>3, <1>4, BumpSane

\* AuthorizeNext
LEMMA AuthorizeNextSane ==
    ASSUME NEW w, Sane(w), w.sess.phase \in {"applying", "restoring"}, rt \in Runtimes,
           NEW io
    PROVE  Sane(AuthorizeNext(w, io))
<1> DEFINE step == Steps(w.sess)[w.sess.step]
           shot == Screen(rt.lcd)
           in == w.sess.mayBeInMenu \/ step.key = "set"
           s == [w.sess EXCEPT !.pending = TRUE, !.last = shot, !.mayBeInMenu = in]
           v == [w EXCEPT !.sess = s]
<1>1. w.sess \in Sessions /\ InPlan(w.sess)
  BY DEF Sane
<1>2. step.key \in Buttons
  <2>1. Steps(w.sess) \in Seq(PlanSteps) /\ w.sess.step \in DOMAIN Steps(w.sess)
    BY <1>1, StepsTyped DEF InPlan
  <2>2. step \in PlanSteps
    BY <2>1
  <2> HIDE DEF step
  <2> QED BY <2>2 DEF PlanSteps, Buttons
<1>3. shot \in Shots /\ in \in BOOLEAN
  <2> HIDE DEF step
  <2> QED BY <1>1, ScreenTyped DEF Runtimes, Sessions
<1>4. s \in Sessions /\ s.phase = w.sess.phase /\ s.plan = w.sess.plan
      /\ s.step = w.sess.step /\ s.cap = w.sess.cap
  <2> HIDE DEF shot, in
  <2> QED BY <1>1, <1>3 DEF Sessions
<1>5. Sane(v) /\ v.sess.phase \in Running
  <2> HIDE DEF s
  <2>1. Steps(s) = Steps(w.sess)
    BY <1>4, SamePlan
  <2>2. InPlan(s)
    BY <1>1, <1>4, <2>1 DEF InPlan
  <2> QED BY <1>4, <2>2, ChangeSane DEF Running
<1>6. AuthorizeNext(w, io) \in {At(w, "stop"), At(Fail(w), "stop"), Consume(v, step.key, io)}
  <2>1. v = [w EXCEPT !.sess.pending = TRUE, !.sess.last = Screen(rt.lcd),
                      !.sess.mayBeInMenu = @ \/ step.key = "set"]
    <3> HIDE DEF step
    <3> QED BY DEF Sane
  <2> HIDE DEF v
  <2> QED BY <2>1 DEF AuthorizeNext
<1> HIDE DEF v, step
<1> QED BY <1>2, <1>5, <1>6, ConsumeSane, AtSane, FailSane DEF Places

\* A session that has nothing left to test, and one that starts the next test.
LEMMA BeginSane ==
    ASSUME NEW w, Sane(w)
    PROVE  Sane(Complete(w)) /\ (NextCapability(w.sess) # "none" => Sane(Begin(w)))
<1> DEFINE over == Over(w.sess, "complete")
           next == NextCapability(w.sess)
           s == [NoSession EXCEPT
                     !.phase = "discovering", !.cap = next, !.lease = TRUE,
                     !.wanted = w.sess.wanted, !.completed = w.sess.completed,
                     !.gen = w.sess.gen]
           u == [w EXCEPT !.sess = over]
           v == [w EXCEPT !.sess = s]
<1>1. w.sess \in Sessions
  BY DEF Sane
<1>2. /\ over \in Sessions /\ InPlan(over) /\ over.phase = "complete"
      /\ NoSession \in Sessions /\ next \in Capabilities \cup {"none"}
  BY <1>1, OverTyped, NextTyped DEF Terminal
<1>3. Sane(u)
  <2> HIDE DEF over
  <2> QED BY <1>2, ChangeSane
<1>4. ASSUME next # "none" PROVE Sane(v)
  <2>1. s \in Sessions /\ s.phase = "discovering" /\ s.cap = next
    <3> DEFINE n == NoSession
               a == [n EXCEPT !.phase = "discovering", !.cap = next, !.lease = TRUE]
               b == [a EXCEPT !.wanted = w.sess.wanted, !.completed = w.sess.completed,
                              !.gen = w.sess.gen]
    <3>1. s = b
      OBVIOUS
    <3>2. n \in Sessions /\ "discovering" \in Phases
      BY <1>2 DEF Phases, Running
    <3> HIDE DEF n, next
    <3>3. a \in Sessions /\ a.phase = "discovering" /\ a.cap = next
      BY <1>2, <3>2 DEF Sessions
    <3> HIDE DEF a
    <3>4. b \in Sessions /\ b.phase = "discovering" /\ b.cap = next
      BY <1>1, <3>3 DEF Sessions
    <3> HIDE DEF b, s
    <3> QED BY <3>1, <3>4
  <2> HIDE DEF s, next
  <2>2. InPlan(s)
    BY <1>2, <1>4, <2>1 DEF InPlan
  <2> QED BY <2>1, <2>2, ChangeSane
<1>5. Complete(w) = Bump(u) /\ Begin(w) = Bump(v)
  BY DEF Complete, Begin, Sane
<1> HIDE DEF u, v, next
<1>6. Sane(Complete(w))
  BY <1>3, <1>5, BumpSane
<1>7. next # "none" => Sane(Begin(w))
  BY <1>4, <1>5, BumpSane
<1> QED BY <1>6, <1>7 DEF next

-----------------------------------------------------------------------------
(* The steps.                                                              *)

\* What a method leaves is the next state.
LEMMA BecomesSane == ASSUME NEW t, Sane(t), Becomes(t) PROVE Sane(World)'
<1>1. World' = t
  BY DEF Becomes, World, Sane
<1> QED BY <1>1

\* The count stays within its bound.
LEMMA EventBounded ==
    ASSUME events \in 0..MaxEvents, NEW happens, Event(happens)
    PROVE  events' \in 0..MaxEvents
BY MenuDebugAssumption DEF Event

\* What the amplifier shows.
LEMMA FrameTyped ==
    ASSUME amp \in AmpStates, NEW reading \in {0, 1}, NEW valid \in BOOLEAN
    PROVE  Frame(reading, valid) \in Lcds
<1> DEFINE value == IF amp.at \in Pages THEN amp.edit
                    ELSE IF amp.at = "home" /\ amp.model = "first" THEN amp.bank ELSE "none"
           shown == IF amp.at = "home" THEN reading ELSE 0
           mode == IF valid THEN amp.mode ELSE "unknown"
<1>1. value \in Values \cup {"none"} /\ shown \in {0, 1} /\ mode \in Modes \cup {"unknown"}
  BY DEF AmpStates
<1>2. amp.at \in Screens
  BY DEF AmpStates
<1>3. Frame(reading, valid) = [at |-> amp.at, value |-> value, reading |-> shown, mode |-> mode]
  BY DEF Frame
<1> HIDE DEF value, shown, mode
<1> QED BY <1>1, <1>2, <1>3 DEF Lcds

\* A display frame.
LEMMA ObserveDisplayIInv ==
    ASSUME IInv, NEW reading \in {0, 1}, NEW valid \in BOOLEAN, ObserveDisplay(reading, valid)
    PROVE  IInv'
<1> DEFINE lcd == Frame(reading, valid)
           s == [sess EXCEPT !.phase = "armed", !.lease = FALSE, !.mayBeInMenu = FALSE]
           u == [World EXCEPT !.sess = s]
<1>1. /\ Sane(World) /\ World.sess = sess /\ sess \in Sessions /\ lcd \in Lcds
      /\ World \in [sess : {sess}, reports : {reports}, run : {run}]
  BY FrameTyped DEF IInv, World, Sane
<1>2. Sane(u)
  <2>1. s \in Sessions /\ s.phase = "armed"
    BY <1>1 DEF Sessions, Phases
  <2>2. InPlan(s)
    <3> HIDE DEF s
    <3> QED BY <2>1 DEF InPlan, Running
  <2> HIDE DEF s
  <2> QED BY <1>1, <2>1, <2>2, ChangeSane
<1>3. u = [World EXCEPT !.sess.phase = "armed", !.sess.lease = FALSE,
                        !.sess.mayBeInMenu = FALSE]
  BY <1>1
<1> HIDE DEF lcd, u
<1>4. \/ Becomes(World) \/ Becomes(Fail(World)) \/ Becomes(Bump(u))
      \/ sess.phase = "discovering" /\ Becomes(DiscoveryFrame(World, lcd))
      \/ sess.phase \in {"applying", "restoring"} /\ Becomes(PlannedFrame(World, lcd))
  BY <1>3 DEF ObserveDisplay, lcd
<1>5. Sane(World)'
  BY <1>1, <1>2, <1>4, FailSane, BumpSane, DiscoveryFrameSane, PlannedFrameSane, BecomesSane
<1>6. rt' \in Runtimes
  BY <1>1 DEF ObserveDisplay, IInv, Runtimes, lcd
<1>7. events' \in 0..MaxEvents
  BY EventBounded DEF ObserveDisplay, IInv
<1> QED BY <1>5, <1>6, <1>7 DEF ObserveDisplay, IInv

\* An amplifier that is connected.
LEMMA IdleTyped ==
    ASSUME NEW a \in Amps
    PROVE  Idle(a) \in AmpStates
BY MenuDebugAssumption DEF Idle, AmpStates, Values, Modes, Screens, OtherScreens

\* A status frame, a new port, the age of what was heard, the lifetime of a session, the
\* settings.
LEMMA EvidenceIInv ==
    ASSUME IInv,
           \/ \E named \in BOOLEAN : ObserveStatus(named)
           \/ BeginSession \/ EvidenceAges \/ Expire \/ Deny
           \/ \E to \in {"off", "manual", "on"} : SettingsChange(to)
    PROVE  IInv'
<1>1. Sane(World) /\ rt \in Runtimes /\ amp \in AmpStates /\ World.sess = sess
      /\ World = [sess |-> sess, reports |-> reports, run |-> run]
  BY DEF IInv, World
<1>2. ASSUME NEW named \in BOOLEAN, ObserveStatus(named)
      PROVE  IInv'
  <2>1. \/ Becomes(World) \/ Becomes(Fail(World)) \/ Becomes(Invalidate(World))
        \/ Becomes(Fail(Invalidate(World)))
    BY <1>2 DEF ObserveStatus
  <2>2. Sane(World)'
    BY <1>1, <2>1, FailSane, InvalidateSane, BecomesSane
  <2>3. rt' \in Runtimes
    <3> DEFINE model == IF named THEN amp.model ELSE rt.model
    <3>1. model \in Models \cup {"none"} /\ amp.mode \in Modes
      BY <1>1 DEF Runtimes, AmpStates
    <3>2. rt' = [rt EXCEPT !.model = model, !.status = amp.mode, !.heard = "fresh"]
      BY <1>2 DEF ObserveStatus
    <3> HIDE DEF model
    <3> QED BY <1>1, <3>1, <3>2 DEF Runtimes
  <2>4. events' \in 0..MaxEvents
    BY <1>2, EventBounded DEF ObserveStatus, IInv
  <2> QED BY <1>2, <2>2, <2>3, <2>4 DEF ObserveStatus, IInv
<1>3. CASE BeginSession
  <2>1. Sane(World)'
    BY <1>1, <1>3, InvalidateSane, BecomesSane DEF BeginSession
  <2>2. rt' \in Runtimes
    <3> DEFINE gen == rt.gen + 1
               a == [rt EXCEPT !.gen = gen, !.model = "none", !.heard = "gone"]
               b == [a EXCEPT !.lcd = NoLcd, !.shown = "gone"]
    <3>1. NoLcd \in Lcds
      BY DEF NoLcd, Lcds
    <3>2. gen \in Nat /\ "none" \in Models \cup {"none"} /\ rt' = b
      BY <1>1, <1>3 DEF BeginSession, Runtimes
    <3> HIDE DEF gen
    <3>3. a \in Runtimes
      BY <1>1, <3>2 DEF Runtimes
    <3> HIDE DEF a
    <3>4. b \in Runtimes
      BY <3>1, <3>3 DEF Runtimes
    <3> QED BY <3>2, <3>4
  <2>3. amp' \in AmpStates
    BY <1>1, <1>3, IdleTyped DEF BeginSession
  <2>4. events' \in 0..MaxEvents
    BY <1>3, EventBounded DEF BeginSession, IInv
  <2> QED BY <1>3, <2>1, <2>2, <2>3, <2>4 DEF BeginSession, IInv
<1>4. CASE EvidenceAges
  <2>1. rt' \in Runtimes
    BY <1>1, <1>4 DEF EvidenceAges, Runtimes
  <2>2. events' \in 0..MaxEvents
    BY <1>4, EventBounded DEF EvidenceAges, IInv
  <2>3. World' = World
    BY <1>4 DEF EvidenceAges, World
  <2> QED BY <1>1, <1>4, <2>1, <2>2, <2>3 DEF EvidenceAges, IInv
<1>5. CASE Expire
  <2>1. Sane(World)'
    BY <1>1, <1>5, EndedSane, BecomesSane DEF Expire, Terminal
  <2>2. events' \in 0..MaxEvents
    BY <1>5, EventBounded DEF Expire, IInv
  <2> QED BY <1>5, <2>1, <2>2 DEF Expire, IInv
<1>6. CASE Deny
  <2>1. Sane(World)'
    BY <1>1, <1>6, FailSane, BecomesSane DEF Deny
  <2>2. events' \in 0..MaxEvents
    BY <1>6, EventBounded DEF Deny, IInv
  <2> QED BY <1>6, <2>1, <2>2 DEF Deny, IInv
<1>7. ASSUME NEW to \in {"off", "manual", "on"}, SettingsChange(to)
      PROVE  IInv'
  <2>1. events' \in 0..MaxEvents
    BY <1>7, EventBounded DEF SettingsChange, IInv
  <2>2. World' = World
    BY <1>7 DEF SettingsChange, World
  <2> QED BY <1>1, <1>7, <2>1, <2>2 DEF SettingsChange, IInv
<1> QED BY <1>2, <1>3, <1>4, <1>5, <1>6, <1>7

\* The runner up to an authorized key.
LEMMA RunnerTopIInv ==
    ASSUME IInv, NEW legend \in BOOLEAN, NEW io, RunnerTop(legend, io)
    PROVE  IInv'
<1>1. Sane(World) /\ rt \in Runtimes /\ World.sess = sess
  BY DEF IInv, World
<1>2. \/ Becomes(At(World, "done")) \/ Becomes(At(Complete(World), "done"))
      \/ sess.phase = "plan-ready" /\ Becomes(BeginPlan(World, "applying"))
      \/ sess.phase = "discovering" /\ Becomes(Discover(World, legend, io))
      \/ sess.phase \in {"applying", "restoring"} /\ Becomes(AuthorizeNext(World, io))
  BY DEF RunnerTop
<1>3. Sane(At(World, "done")) /\ Sane(At(Complete(World), "done"))
  BY <1>1, BeginSane, AtSane DEF Places
<1>4. sess.phase = "plan-ready" => sess.cap \in Capabilities
  BY <1>1 DEF Sane, InPlan, Running
<1>5. Sane(World)'
  BY <1>1, <1>2, <1>3, <1>4, BeginPlanSane, DiscoverSane, AuthorizeNextSane, BecomesSane
<1>6. events' \in 0..MaxEvents
  BY EventBounded DEF RunnerTop, IInv
<1> QED BY <1>5, <1>6 DEF RunnerTop, IInv

\* The runner from an authorized key to the answer or the failure, and its return.
LEMMA RunnerIInv ==
    ASSUME IInv,
           \/ RunnerChecks \/ RunnerFails \/ RunnerWaits \/ RunnerTimesOut
           \/ RunnerReadsRevision \/ RunnerStops \/ RunnerReturns \/ StartGuardedTest
    PROVE  IInv'
<1>1. /\ Sane(World) /\ World.sess = sess /\ World.run = run /\ run \in Runs
      /\ KeyReady(sess, run) /\ sess \in Sessions /\ InPlan(sess)
  BY DEF IInv, World, Sane
<1>2. ASSUME NEW r \in Runs, KeyReady(sess, r), run' = r, UNCHANGED <<sess, reports>>
      PROVE  Sane(World)'
  <2>1. World' = [World EXCEPT !.run = r]
    BY <1>2 DEF World
  <2> QED BY <1>1, <1>2, <2>1, ChangeSane
<1>3. NoRun \in Runs /\ NoRun.pc = "idle"
  BY DEF NoRun, NoKey, Runs, Keys, Places
<1>4. ASSUME NEW pc \in Places \ {"check", "write"}, Becomes(At(World, pc))
      PROVE  Sane(World)'
  BY <1>1, <1>4, AtSane, BecomesSane
<1>5. CASE RunnerChecks
  <2> DEFINE may == /\ ~run.cancelled /\ run.cur
                    /\ Prerequisites(run.phase = "discovering" /\ run.key.at = "home")
             pc == IF may THEN "write" ELSE "fail"
             r == [run EXCEPT !.pc = pc]
  <2>1. run.pc = "check" /\ run' = r /\ (may => run.cur)
    BY <1>5 DEF RunnerChecks
  <2> HIDE DEF may
  <2>2. pc \in Places /\ (pc = "write" => run.cur) /\ pc # "check"
    BY <2>1 DEF Places
  <2> HIDE DEF pc
  <2>3. r \in Runs /\ r.pc = pc /\ r.key = run.key
    BY <1>1, <2>2 DEF Runs
  <2>4. KeyReady(sess, r)
    BY <1>1, <2>1, <2>2, <2>3 DEF KeyReady
  <2>5. Sane(World)'
    BY <1>2, <1>5, <2>1, <2>3, <2>4 DEF RunnerChecks
  <2> QED BY <1>5, <2>5 DEF RunnerChecks, IInv
<1>6. CASE RunnerFails
  <2>1. Becomes(At(Fail(World), "done")) \/ Becomes(At(World, "stop"))
    BY <1>6 DEF RunnerFails
  <2>2. Sane(World)'
    BY <1>1, <1>4, <2>1, FailSane, AtSane, BecomesSane DEF Places
  <2> QED BY <1>6, <2>2 DEF RunnerFails, IInv
<1>7. CASE RunnerWaits
  <2>1. \E pc \in {"done", "top", "giveUp"} : Becomes(At(World, pc))
    BY <1>7 DEF RunnerWaits
  <2>2. Sane(World)'
    BY <1>4, <2>1 DEF Places
  <2> QED BY <1>7, <2>2 DEF RunnerWaits, IInv
<1>8. CASE RunnerTimesOut
  <2>1. Sane(World)'
    BY <1>4, <1>8 DEF RunnerTimesOut, Places
  <2>2. events' \in 0..MaxEvents
    BY <1>8, EventBounded DEF RunnerTimesOut, IInv
  <2> QED BY <1>8, <2>1, <2>2 DEF RunnerTimesOut, IInv
<1>9. CASE RunnerReadsRevision
  <2> DEFINE a == [run EXCEPT !.pc = "done"]
             b == [run EXCEPT !.pc = "stopping", !.cur = TRUE]
  <2>1. a \in Runs /\ KeyReady(sess, a) /\ b \in Runs /\ KeyReady(sess, b)
    BY <1>1 DEF Runs, Places, KeyReady
  <2>2. run' \in {a, b} /\ UNCHANGED <<sess, reports>>
    BY <1>9 DEF RunnerReadsRevision
  <2> HIDE DEF a, b
  <2>3. Sane(World)'
    BY <1>2, <2>1, <2>2
  <2> QED BY <1>9, <2>3 DEF RunnerReadsRevision, IInv
<1>10. CASE RunnerStops
  <2> DEFINE given == sess.phase \in Running
             r == [run EXCEPT !.pc = "done", !.abandoned = given]
             u == [World EXCEPT !.run = r]
  <2>1. given \in BOOLEAN
    OBVIOUS
  <2>2. [At(World, "done") EXCEPT !.run.abandoned = sess.phase \in Running] = u
    BY <1>1 DEF At, Sane
  <2>3. Sane(u)
    <3> HIDE DEF given
    <3>1. r \in Runs /\ KeyReady(sess, r)
      BY <1>1, <2>1 DEF Runs, Places, KeyReady
    <3> HIDE DEF r
    <3> QED BY <1>1, <3>1, ChangeSane
  <2> HIDE DEF u
  <2>4. Becomes(At(Fail(World), "done")) \/ Becomes(u)
    BY <1>10, <2>2 DEF RunnerStops
  <2>5. Sane(World)'
    BY <1>1, <2>3, <2>4, FailSane, AtSane, BecomesSane DEF Places
  <2> QED BY <1>10, <2>5 DEF RunnerStops, IInv
<1>11. CASE RunnerReturns
  <2> DEFINE a == [run EXCEPT !.pc = "top", !.again = FALSE, !.abandoned = FALSE]
             b == [NoRun EXCEPT !.abandoned = run.abandoned]
  <2>1. a \in Runs /\ KeyReady(sess, a)
    BY <1>1 DEF Runs, Places, KeyReady
  <2>2. b \in Runs /\ KeyReady(sess, b)
    <3> HIDE DEF NoRun
    <3> QED BY <1>1, <1>3 DEF Runs, KeyReady
  <2>3. run' \in {a, b} /\ UNCHANGED <<sess, reports>>
    BY <1>11 DEF RunnerReturns
  <2> HIDE DEF a, b
  <2>4. Sane(World)'
    BY <1>2, <2>1, <2>2, <2>3
  <2> QED BY <1>11, <2>4 DEF RunnerReturns, IInv
<1>12. CASE StartGuardedTest
  <2> DEFINE a == [NoRun EXCEPT !.pc = "top"]
             b == [run EXCEPT !.again = TRUE]
  <2>1. a \in Runs /\ KeyReady(sess, a)
    BY <1>3 DEF Runs, Places, KeyReady
  <2>2. b \in Runs /\ KeyReady(sess, b)
    BY <1>1 DEF Runs, KeyReady
  <2>3. run' \in {a, b} /\ UNCHANGED <<sess, reports>>
    BY <1>12 DEF StartGuardedTest
  <2> HIDE DEF a, b
  <2>4. Sane(World)'
    BY <1>2, <2>1, <2>2, <2>3
  <2> QED BY <1>12, <2>4 DEF StartGuardedTest, IInv
<1> QED BY <1>5, <1>6, <1>7, <1>8, <1>9, <1>10, <1>11, <1>12

\* The write hands over the key that was authorized.
LEMMA RunnerWritesIInv ==
    ASSUME IInv, NEW io, RunnerWrites(io)
    PROVE  IInv'
<1> DEFINE Sent == [name : Buttons, at : Screens \cup {"none"},
                    value : Values \cup {"none"}, model : Models \cup {"none"}]
           pc == IF io.send \in {"sent", "lost"} THEN "wait" ELSE "fail"
           r == [run EXCEPT !.pc = pc, !.key = NoKey]
<1>1. Sane(World) /\ World.sess = sess /\ run \in Runs /\ KeyReady(sess, run) /\ run.pc = "write"
  BY DEF IInv, World, Sane, RunnerWrites
<1>2. run.key \in Sent /\ line \in Seq(Sent)
  BY <1>1 DEF Runs, Keys, KeyReady, IInv
<1>3. r \in Runs /\ KeyReady(sess, r)
  <2>1. pc \in {"wait", "fail"} /\ NoKey \in Keys
    BY DEF NoKey, Keys
  <2> HIDE DEF pc
  <2> QED BY <1>1, <2>1 DEF Runs, Places, KeyReady
<1>4. World' = [World EXCEPT !.run = r]
  BY DEF RunnerWrites, World
<1>5. Sane(World)'
  <2> HIDE DEF r
  <2> QED BY <1>1, <1>3, <1>4, ChangeSane
<1>6. line' \in Seq(Sent)
  <2> HIDE DEF Sent
  <2> QED BY <1>2 DEF RunnerWrites
<1>7. events' \in 0..MaxEvents
  <2>1. \E happens : Event(happens)
    BY DEF RunnerWrites
  <2> QED BY <2>1, EventBounded DEF IInv
<1> QED BY <1>5, <1>6, <1>7 DEF RunnerWrites, IInv

-----------------------------------------------------------------------------
(* The requests, and the amplifier.                                        *)

\* A session is armed, or aborted at once.
LEMMA ArmIInv ==
    ASSUME IInv, NEW request \in Requests, NEW cleared \in BOOLEAN, Arm(request, cleared)
    PROVE  IInv'
<1> DEFINE n == NoSession
           armed == [n EXCEPT !.phase = "armed", !.wanted = request, !.gen = rt.gen]
           aborted == [armed EXCEPT !.phase = "aborted"]
<1>1. n \in Sessions /\ InPlan(n)
  <2>1. sess \in Sessions /\ "failed" \in Terminal
    BY DEF IInv, Sane, World, Terminal
  <2> QED BY <2>1, OverTyped
<1>2. /\ request \in Seq(Capabilities) /\ rt.gen \in Nat
      /\ "armed" \in Phases /\ "aborted" \in Phases
  BY MenuDebugAssumption DEF IInv, Runtimes, Phases, Terminal
<1>3. sess' \in {armed, aborted} /\ run' = NoRun
  BY DEF Arm
<1> HIDE DEF n
<1>4. /\ armed \in Sessions /\ armed.phase = "armed"
      /\ aborted \in Sessions /\ aborted.phase = "aborted"
  <2>1. armed \in Sessions /\ armed.phase = "armed"
    BY <1>1, <1>2 DEF Sessions
  <2> HIDE DEF armed
  <2>2. aborted \in Sessions /\ aborted.phase = "aborted"
    BY <1>2, <2>1 DEF Sessions
  <2> QED BY <2>1, <2>2
<1> HIDE DEF armed, aborted
<1>5. sess' \in Sessions /\ InPlan(sess')
  BY <1>3, <1>4 DEF InPlan, Running
<1>6. run' \in Runs /\ KeyReady(sess', run')
  BY <1>3 DEF NoRun, NoKey, Runs, Keys, Places, KeyReady
<1>7. Sane(World)'
  BY <1>5, <1>6 DEF World, Sane
<1> QED BY <1>7 DEF Arm, IInv

\* The next test, the last one, or none.
LEMMA BeginOrCompleteSane ==
    ASSUME NEW w, Sane(w), NEW granted, BeginOrComplete(w, granted), starting \in BOOLEAN
    PROVE  Sane(World)' /\ starting' \in BOOLEAN
<1>1. \/ Becomes(Complete(w)) \/ Becomes(w)
      \/ NextCapability(w.sess) # "none" /\ Becomes(Begin(w))
  BY DEF BeginOrComplete
<1>2. starting' \in BOOLEAN
  BY DEF BeginOrComplete
<1> QED BY <1>1, <1>2, BeginSane, BecomesSane

\* An operator advances, confirms, or aborts; the process restarts.
LEMMA RequestsIInv ==
    ASSUME IInv,
           \/ \E granted \in BOOLEAN : Advance(granted) \/ Verification(granted)
           \/ Abort \/ Restart
    PROVE  IInv'
<1>1. /\ Sane(World) /\ World.sess = sess /\ World.run = run /\ run \in Runs
      /\ KeyReady(sess, run) /\ sess \in Sessions /\ InPlan(sess) /\ starting \in BOOLEAN
  BY DEF IInv, World, Sane
<1>2. ASSUME NEW granted \in BOOLEAN, Advance(granted)
      PROVE  IInv'
  <2>1. Sane(World)' /\ starting' \in BOOLEAN
    BY <1>1, <1>2, BeginOrCompleteSane DEF Advance
  <2>2. events' \in 0..MaxEvents
    BY <1>2, EventBounded DEF Advance, IInv
  <2> QED BY <1>2, <2>1, <2>2 DEF Advance, IInv
<1>3. ASSUME NEW granted \in BOOLEAN, Verification(granted)
      PROVE  IInv'
  <2> DEFINE s == [sess EXCEPT !.completed = @ \cup {sess.cap}, !.phase = "armed",
                       !.cap = "none", !.plan = NoPlan, !.lease = FALSE,
                       !.mayBeInMenu = FALSE]
             u == [World EXCEPT !.sess = s]
             x == reports \cup {Report(World, "restored")}
             v == [u EXCEPT !.reports = x]
  <2>1. CASE sess.phase = "awaiting-apply"
    <3>1. sess.cap \in Capabilities
      BY <1>1, <2>1 DEF InPlan
    <3>2. Becomes(BeginPlan(World, "restoring")) /\ starting' = TRUE
      BY <1>3, <2>1 DEF Verification
    <3> QED BY <1>1, <1>3, <3>1, <3>2, BeginPlanSane, BecomesSane, EventBounded
            DEF Verification, IInv
  <2>2. CASE sess.phase = "awaiting-restore"
    <3>1. sess.cap \in Capabilities /\ NoPlan \in Plans /\ "armed" \in Phases
      BY <1>1, <2>2 DEF InPlan, NoPlan, Plans, Phases
    <3>2. s \in Sessions /\ s.phase = "armed"
      BY <1>1, <3>1, ZenonT(60) DEF Sessions
    <3>3. Sane(u)
      <4> HIDE DEF s
      <4>1. InPlan(s)
        BY <3>2 DEF InPlan, Running
      <4> QED BY <1>1, <3>2, <4>1, ChangeSane
    <3>4. Sane(v)
      <4> HIDE DEF u, x
      <4> QED BY <3>3, ChangeSane
    <3>5. v = [World EXCEPT
                 !.reports = @ \cup {Report(World, "restored")},
                 !.sess.completed = @ \cup {sess.cap}, !.sess.phase = "armed",
                 !.sess.cap = "none", !.sess.plan = NoPlan, !.sess.lease = FALSE,
                 !.sess.mayBeInMenu = FALSE]
      BY ZenonT(60) DEF World
    <3> HIDE DEF v
    <3>6. BeginOrComplete(Bump(v), granted)
      BY <1>3, <2>2, <3>5 DEF Verification
    <3>7. Sane(World)' /\ starting' \in BOOLEAN
      BY <1>1, <3>4, <3>6, BumpSane, BeginOrCompleteSane
    <3> QED BY <1>3, <3>7, EventBounded DEF Verification, IInv
  <2> QED BY <1>3, <2>1, <2>2 DEF Verification
<1>4. CASE Abort
  <2> DEFINE v == Ended(World, "aborted")
             in == v.sess.mayBeInMenu \/ ~Home(rt.lcd)
             stop == v.run.cancelled \/ run.pc # "idle"
             s == [v.sess EXCEPT !.mayBeInMenu = in]
             r == [v.run EXCEPT !.cancelled = stop, !.again = FALSE]
             u == [sess |-> s, reports |-> v.reports, run |-> r]
  <2>1. run.pc # "write" /\ Becomes(Aborted(World))
    BY <1>4 DEF Abort
  <2>2. /\ Sane(v) /\ v.sess.phase = "aborted" /\ v.run.pc = run.pc /\ v.run.cur = FALSE
    BY <1>1, <2>1, EndedSane DEF Terminal
  <2>3. Aborted(World) = u
    <3>1. Aborted(World) = [v EXCEPT !.sess.mayBeInMenu = @ \/ ~Home(rt.lcd),
                                     !.run.cancelled = @ \/ run.pc # "idle",
                                     !.run.again = FALSE]
      BY <1>1 DEF Aborted
    <3>2. v = [sess |-> v.sess, reports |-> v.reports, run |-> v.run]
      <4> HIDE DEF v
      <4> QED BY <2>2 DEF Sane
    <3> DEFINE x == [v EXCEPT !.sess = s]
    <3>3. Aborted(World) = [x EXCEPT !.run = r]
      <4> HIDE DEF v
      <4> QED BY <3>1, <3>2
    <3> HIDE DEF v, s, r
    <3> QED BY <3>2, <3>3
  <2> HIDE DEF v
  <2>4. s \in Sessions /\ s.phase = "aborted"
    <3>1. in \in BOOLEAN
      BY <2>2 DEF Sane, Sessions
    <3> HIDE DEF in
    <3> QED BY <2>2, <3>1 DEF Sane, Sessions
  <2>5. r \in Runs /\ r.pc = run.pc /\ r.cur = FALSE /\ r.key = v.run.key
    <3>1. stop \in BOOLEAN
      BY <2>2 DEF Sane, Runs
    <3> HIDE DEF stop
    <3> QED BY <2>2, <3>1 DEF Sane, Runs
  <2>6. Sane(u)
    <3> HIDE DEF s, r
    <3>1. InPlan(s)
      BY <2>4 DEF InPlan, Running
    <3>2. KeyReady(s, r)
      BY <2>1, <2>2, <2>5 DEF KeyReady, Sane
    <3> QED BY <2>4, <2>5, <3>1, <3>2 DEF Sane
  <2> HIDE DEF u
  <2>7. Sane(World)'
    BY <2>1, <2>3, <2>6, BecomesSane
  <2>8. events' \in 0..MaxEvents
    BY <1>4, EventBounded DEF Abort, IInv
  <2> QED BY <1>4, <2>7, <2>8 DEF Abort, IInv
<1>5. CASE Restart
  <2>1. sess' = NoSession /\ run' = NoRun /\ rt' = NoRuntime
    BY <1>5 DEF Restart
  <2>2. sess' \in Sessions /\ InPlan(sess')
    BY <1>1, <2>1, OverTyped DEF Terminal
  <2>3. run' \in Runs /\ KeyReady(sess', run')
    BY <2>1 DEF NoRun, NoKey, Runs, Keys, Places, KeyReady
  <2>4. Sane(World)'
    BY <2>2, <2>3 DEF World, Sane
  <2>5. rt' \in Runtimes
    <3>1. NoLcd \in Lcds
      BY DEF NoLcd, Lcds
    <3> HIDE DEF NoLcd
    <3> QED BY <2>1, <3>1 DEF NoRuntime, Runtimes
  <2>6. events' \in 0..MaxEvents
    BY <1>5, EventBounded DEF Restart, IInv
  <2> QED BY <1>5, <2>4, <2>5, <2>6 DEF Restart, IInv
<1> QED BY <1>2, <1>3, <1>4, <1>5

\* A key that acts leaves the amplifier on one of its screens, with its values.
LEMMA ActsTyped ==
    ASSUME amp \in AmpStates, NEW key, Acts(key)
    PROVE  amp' \in AmpStates
<1> DEFINE keys == SetupKeys[amp.model]
<1>1. ASSUME NEW at \in Screens, Shows(at) PROVE amp' \in AmpStates
  BY <1>1 DEF Shows, AmpStates
<1>2. /\ DOMAIN keys = 1..Len(keys) /\ Len(keys) \in Nat /\ Len(keys) > 1
      /\ \A i \in DOMAIN keys : keys[i] \in Screens
  <2>1. amp.model \in Models
    BY DEF AmpStates
  <2>2. keys \in Seq(STRING) /\ Len(keys) > 1
    BY <2>1, MenuDebugAssumption
  <2> QED BY <2>1, <2>2 DEF Screens, Setup
<1>3. {"home", "elsewhere", "storing"} \subseteq Screens /\ Pages \subseteq Screens
  BY DEF Screens, OtherScreens
<1>4. CASE key = "display"
  BY <1>3, <1>4 DEF Acts, AmpStates, Values
<1>5. CASE key = "right"
  <2>1. CASE amp.at \in Pages
    <3>1. NextPage[amp.at] \in Screens
      BY <2>1 DEF Pages, NextPage, Screens, OtherScreens
    <3> QED BY <1>1, <1>5, <2>1, <3>1 DEF Acts
  <2>2. CASE amp.at \notin Pages /\ amp.at \in Setup
    <3>1. PICK i \in DOMAIN keys : Shows(keys[IF i = Len(keys) THEN 1 ELSE i + 1])
      BY <1>5, <2>2 DEF Acts
    <3> HIDE DEF keys
    <3>2. (IF i = Len(keys) THEN 1 ELSE i + 1) \in DOMAIN keys
      BY <1>2
    <3> QED BY <1>1, <1>2, <3>1, <3>2
  <2>3. CASE amp.at \notin Pages /\ amp.at \notin Setup
    BY <1>5, <2>3 DEF Acts
  <2> QED BY <2>1, <2>2, <2>3
<1>6. CASE key = "set"
  <2>1. keys[1] \in Screens
    <3> HIDE DEF keys
    <3> QED BY <1>2
  <2>2. \/ Shows(keys[1]) \/ Shows("elsewhere") \/ UNCHANGED amp
        \/ Opens("fan") \/ Opens("bank")
        \/ \E v \in {Flip(amp.edit), "a", "b"} : amp' = [amp EXCEPT !.edit = v]
        \/ amp' = Store
    BY <1>6 DEF Acts
  <2>3. CASE Shows(keys[1]) \/ Shows("elsewhere") \/ UNCHANGED amp
    BY <1>1, <1>3, <2>1, <2>3
  <2>4. ASSUME NEW cap \in Capabilities, Opens(cap) PROVE amp' \in AmpStates
    <3> DEFINE v == IF cap = "fan" THEN amp.fan ELSE amp.bank
               at == EntryPage(amp.model, cap, v)
    <3>1. v \in Values
      BY DEF AmpStates
    <3>2. at \in Screens
      BY DEF EntryPage, Pages, NextPage, Screens, OtherScreens
    <3>3. amp' = [amp EXCEPT !.at = at, !.edit = v]
      BY <2>4 DEF Opens
    <3> HIDE DEF v, at
    <3> QED BY <3>1, <3>2, <3>3 DEF AmpStates
  <2>5. ASSUME NEW v \in {Flip(amp.edit), "a", "b"}, amp' = [amp EXCEPT !.edit = v]
        PROVE  amp' \in AmpStates
    <3>1. v \in Values
      BY DEF Flip, Values
    <3> QED BY <2>5, <3>1 DEF AmpStates
  <2>6. CASE amp' = Store
    <3>1. \/ amp' = [amp EXCEPT !.at = "storing", !.fan = amp.edit]
          \/ amp' = [amp EXCEPT !.at = "storing", !.bank = amp.edit]
      BY <2>6 DEF Store
    <3> QED BY <1>3, <3>1 DEF AmpStates
  <2> QED BY <2>2, <2>3, <2>4, <2>5, <2>6 DEF Capabilities
<1> QED BY <1>4, <1>5, <1>6 DEF Acts

\* The amplifier acts, is operated by hand, changes its mode or is replaced.
LEMMA AmplifierIInv ==
    ASSUME IInv,
           \/ AmpActs \/ AmpHasStored \/ PressDisplay \/ Replace
           \/ \E to \in {"standby", "operate", "tx"} : ChangeMode(to)
    PROVE  IInv'
<1> DEFINE Sent == [name : Buttons, at : Screens \cup {"none"},
                    value : Values \cup {"none"}, model : Models \cup {"none"}]
<1>1. amp \in AmpStates /\ line \in Seq(Sent) /\ rt \in Runtimes
  BY DEF IInv
<1> HIDE DEF Sent
<1>2. UNCHANGED <<sess, reports, run, fan, starting>>
  BY DEF AmpActs, AmpHasStored, PressDisplay, Replace, ChangeMode
<1>3. Sane(World)'
  <2>1. World' = World
    BY <1>2 DEF World
  <2> QED BY <2>1 DEF IInv
<1>4. ASSUME amp' \in AmpStates, line' \in Seq(Sent), rt' \in Runtimes,
             events' \in 0..MaxEvents
      PROVE  IInv'
  BY <1>2, <1>3, <1>4 DEF IInv, Sent
<1>5. CASE AmpActs
  <2>1. Tail(line) \in Seq(Sent)
    BY <1>1, <1>5 DEF AmpActs
  <2> QED BY <1>1, <1>4, <1>5, <2>1, ActsTyped DEF AmpActs, IInv
<1>6. CASE AmpHasStored
  <2>1. amp' \in AmpStates
    BY <1>1, <1>6 DEF AmpHasStored, AmpStates, Screens, OtherScreens, Values
  <2> QED BY <1>1, <1>4, <1>6, <2>1 DEF AmpHasStored, IInv
<1>7. CASE PressDisplay
  BY <1>1, <1>4, <1>7, ActsTyped DEF PressDisplay, IInv
<1>8. CASE Replace
  <2>1. rt' \in Runtimes
    BY <1>1, <1>8 DEF Replace, Runtimes
  <2>2. amp' \in AmpStates
    BY <1>8, IdleTyped DEF Replace
  <2>3. events' \in 0..MaxEvents
    BY <1>8, EventBounded DEF Replace, IInv
  <2> QED BY <1>1, <1>4, <1>8, <2>1, <2>2, <2>3 DEF Replace
<1>9. ASSUME NEW to \in {"standby", "operate", "tx"}, ChangeMode(to) PROVE IInv'
  <2>1. amp' \in AmpStates
    BY <1>1, <1>9 DEF ChangeMode, AmpStates, Modes
  <2>2. events' \in 0..MaxEvents
    BY <1>9, EventBounded DEF ChangeMode, IInv
  <2> QED BY <1>1, <1>4, <1>9, <2>1, <2>2 DEF ChangeMode
<1> QED BY <1>5, <1>6, <1>7, <1>8, <1>9

-----------------------------------------------------------------------------
(* The theorems.                                                           *)

\* The invariant holds of the initial states.
LEMMA InitIInv == Init => IInv
<1> SUFFICES ASSUME Init PROVE IInv
  OBVIOUS
<1>1. NoSession \in Sessions /\ InPlan(NoSession)
  BY DEF NoSession, Sessions, Phases, NoScreen, Shots, NoPlan, Plans, InPlan, Running
<1>2. NoRun \in Runs /\ KeyReady(NoSession, NoRun)
  BY DEF NoRun, NoKey, Runs, Keys, Places, KeyReady
<1>3. Sane(World)
  BY <1>1, <1>2 DEF Init, World, Sane
<1>4. rt \in Runtimes
  <2>1. NoLcd \in Lcds
    BY DEF NoLcd, Lcds
  <2> HIDE DEF NoLcd
  <2> QED BY <2>1 DEF Init, NoRuntime, Runtimes
<1>5. amp \in AmpStates
  BY IdleTyped DEF Init
<1>6. events \in 0..MaxEvents
  BY MenuDebugAssumption DEF Init
<1>7. \A S : <<>> \in Seq(S)
  OBVIOUS
<1>8. line = <<>> /\ fan = "off" /\ starting = FALSE
  BY DEF Init
<1> QED BY <1>3, <1>4, <1>5, <1>6, <1>7, <1>8 DEF IInv

\* Every step keeps the invariant.
LEMMA NextIInv == IInv /\ [Next]_vars => IInv'
<1> SUFFICES ASSUME IInv, [Next]_vars PROVE IInv'
  OBVIOUS
<1>1. CASE UNCHANGED vars
  BY <1>1 DEF vars, IInv, World
<1>2. CASE AmpActs \/ AmpHasStored \/ PressDisplay \/ Replace
           \/ \E to \in {"standby", "operate", "tx"} : ChangeMode(to)
  BY <1>2, AmplifierIInv
<1>3. CASE \E reading \in {0, 1}, valid \in BOOLEAN : ObserveDisplay(reading, valid)
  BY <1>3, ObserveDisplayIInv
<1>4. CASE \/ \E named \in BOOLEAN : ObserveStatus(named)
           \/ BeginSession \/ EvidenceAges \/ Expire \/ Deny
           \/ \E to \in {"off", "manual", "on"} : SettingsChange(to)
  BY <1>4, EvidenceIInv
<1>5. CASE \E legend \in BOOLEAN, io \in AuthorizeAnswers : RunnerTop(legend, io)
  BY <1>5, RunnerTopIInv
<1>6. CASE \E io \in WriteAnswers : RunnerWrites(io)
  BY <1>6, RunnerWritesIInv
<1>7. CASE RunnerChecks \/ RunnerFails \/ RunnerWaits \/ RunnerTimesOut
           \/ RunnerReadsRevision \/ RunnerStops \/ RunnerReturns \/ StartGuardedTest
  BY <1>7, RunnerIInv
<1>8. CASE \E request \in Requests, cleared \in BOOLEAN : Arm(request, cleared)
  BY <1>8, ArmIInv
<1>9. CASE \/ \E granted \in BOOLEAN : Advance(granted) \/ Verification(granted)
           \/ Abort \/ Restart
  BY <1>9, RequestsIInv
<1> QED BY <1>1, <1>2, <1>3, <1>4, <1>5, <1>6, <1>7, <1>8, <1>9 DEF Next

\* The types of everything the wizard keeps, the step of a transaction within its plan,
\* and the key that is about to be written: all of it holds in every reachable state.
THEOREM MenuInvariant == Spec => []IInv
BY InitIInv, NextIInv, PTL DEF Spec

\* The step a runner authorizes is always one of the plan that was reviewed, and the
\* state has its type, for every menu, amplifier and list of capabilities.
THEOREM TypeCorrect == Spec => []TypeOK
<1>1. IInv => TypeOK
  <2> SUFFICES ASSUME IInv PROVE TypeOK
    OBVIOUS
  <2>1. sess \in Sessions /\ run \in Runs /\ InPlan(sess)
    BY DEF IInv, Sane, World
  <2>2. \A i \in DOMAIN line : line[i].name \in {"set", "right", "display"}
    <3> DEFINE Sent == [name : Buttons, at : Screens \cup {"none"},
                        value : Values \cup {"none"}, model : Models \cup {"none"}]
    <3>1. line \in Seq(Sent)
      BY DEF IInv
    <3>2. \A k \in Sent : k.name \in Buttons
      OBVIOUS
    <3> HIDE DEF Sent
    <3>3. \A i \in DOMAIN line : line[i] \in Sent
      BY <3>1
    <3> QED BY <3>2, <3>3 DEF Buttons
  <2>3. amp \in AmpStates /\ rt \in Runtimes /\ fan \in {"off", "manual", "on"}
        /\ starting \in BOOLEAN /\ events \in 0..MaxEvents
    BY DEF IInv
  <2>4. rt.lcd.at \in Screens \cup {"none"}
    BY <2>3 DEF Runtimes, Lcds
  <2>5. /\ sess.phase \in Phases /\ sess.cap \in Capabilities \cup {"none"}
        /\ sess.completed \subseteq Capabilities
        /\ {sess.mayBeInMenu, sess.lease, sess.acted, sess.pending, sess.exiting,
            sess.retained} \subseteq BOOLEAN
    BY <2>1 DEF Sessions
  <2>6. /\ {run.cur, run.again, run.cancelled, run.abandoned} \subseteq BOOLEAN
        /\ run.pc \in Places
    BY <2>1 DEF Runs
  <2>7. /\ rt.model \in Models \cup {"none"} /\ rt.status \in Modes \cup {"unknown"}
        /\ {rt.heard, rt.shown} \subseteq {"gone", "old", "fresh"}
    BY <2>3 DEF Runtimes
  <2>8. sess.phase \in {"applying", "restoring"} => sess.step \in DOMAIN Steps(sess)
    BY <2>1 DEF InPlan
  <2> QED BY <2>2, <2>3, <2>4, <2>5, <2>6, <2>7, <2>8 DEF TypeOK, AmpStates, Places
<1> QED BY <1>1, MenuInvariant, PTL

\* Only the write of an authorized key adds to the line.
LEMMA OnlyWritesAdd ==
    ASSUME IInv, [Next]_vars, Len(line') > Len(line)
    PROVE  sess.phase # "aborted"
<1>1. \E S : line \in Seq(S)
  BY DEF IInv
<1>2. line' # line /\ ~(line # <<>> /\ line' = Tail(line))
  BY <1>1
<1>3. \E io : RunnerWrites(io)
  BY <1>2 DEF Next, vars, AmpActs, AmpHasStored, PressDisplay, Replace, ChangeMode,
              ObserveDisplay, ObserveStatus, BeginSession, EvidenceAges, Expire, RunnerTop,
              RunnerChecks, RunnerFails, RunnerWaits, RunnerTimesOut, RunnerReadsRevision,
              RunnerStops, RunnerReturns, StartGuardedTest, Arm, Advance, Verification,
              Deny, Abort, Restart, SettingsChange
<1> QED BY <1>3 DEF RunnerWrites, IInv, Sane, World, KeyReady

\* Abort waits for a write in progress, and makes the revision of every other key stale:
\* once it was accepted, no key is written.
THEOREM AbortIsFinal == Spec => NoKeyAfterAbort
<1>1. IInv /\ [Next]_vars => [Len(line') > Len(line) => sess.phase # "aborted"]_vars
  BY OnlyWritesAdd
<1> QED BY <1>1, MenuInvariant, PTL DEF Spec, NoKeyAfterAbort

-----------------------------------------------------------------------------
(* Where the amplifier is while a key is on its way.  A is the amplifier,  *)
(* L the keys on the line, r the runtime and w the world of a method.      *)

Sent == [name : Buttons, at : Screens \cup {"none"}, value : Values \cup {"none"},
         model : Models \cup {"none"}]

First(a) == SetupKeys[a.model][1]
Entries == {SetupEntry.fan, SetupEntry.bank}
Waiting == {"armed", "awaiting-home", "awaiting-apply", "awaiting-restore"}
Planning == {"plan-ready", "applying", "restoring"}

\* The key finds the screen and the value it was authorized on.
Meets(a, k) ==
    a.at = k.at /\ k.at # "storing" /\ (a.at \in Pages => k.value = a.edit)

\* One key that meets the amplifier.  When a reading passed for the answer to the SET that
\* leaves home there are several: they come to an end on the first setup screen, which no
\* capability is behind.
FromHome(k) == k.at = "home" /\ k.name = "set"

Fit(a, L) ==
    \/ L = <<>>
    \/ Len(L) = 1 /\ Meets(a, L[1])
    \/ a.at = "home" /\ \A i \in DOMAIN L : FromHome(L[i])
    \/ /\ a.at = First(a)
       /\ \A i \in DOMAIN L : \/ FromHome(L[i])
                              \/ i = Len(L) /\ L[i].at = First(a) /\ L[i].name = "right"
    \/ /\ a.at = "elsewhere"
       /\ \A i \in DOMAIN L : L[i].at \in {"home"} \cup Setup /\ L[i].name # "display"

\* The runner has a key in hand that it may still write.
Holds(w) == w.run.pc = "write" \/ (w.run.pc = "check" /\ w.run.cur)

\* The frame that the last check of a key asks for.
Clear(r) == r.shown = "fresh" /\ r.lcd.mode # "unknown"

\* The key in hand meets the amplifier if it is ever written.
Counts(L, r, w) ==
    \/ w.run.pc = "write" /\ w.sess.gen = r.gen
    \/ w.run.pc = "check" /\ w.run.cur /\ (L # <<>> \/ Clear(r))

InPlay(L, w) == {L[i] : i \in DOMAIN L} \cup (IF Holds(w) THEN {w.run.key} ELSE {})

LineFits(a, L, r, w) == Fit(a, L) /\ (Counts(L, r, w) => Fit(a, Append(L, w.run.key)))

\* The session is as old as the port; where it waits for people there is no key.
Quiet(a, L, r, w) ==
    LET s == w.sess IN
    /\ s.gen <= r.gen /\ (Active(s) => s.gen = r.gen)
    /\ s.phase = "idle" => w.run.pc \in {"idle", "top", "done"} /\ w.reports = {} /\ L = <<>>
    /\ w.run.pc = "check" /\ w.run.cur => s.phase \in {"discovering", "applying", "restoring"}
    /\ s.phase \in Waiting => L = <<>> /\ ~Holds(w)
    /\ s.phase \in {"awaiting-apply", "awaiting-restore"} =>
           a.at = "home" /\ r.lcd.at = "home" /\ s.from.at # "storing"

\* What the session says of the panel.
Told(a, L, r, w) ==
    LET s == w.sess IN
    /\ s.phase # "idle" /\ ~s.mayBeInMenu => a.at = "home" /\ L = <<>> /\ ~Holds(w)
    /\ Active(s) /\ ~s.mayBeInMenu => r.lcd.at = "home"
    /\ s.phase = "armed" => ~s.mayBeInMenu
    /\ s.phase \in Planning \cup (Waiting \ {"armed"}) => s.mayBeInMenu
    /\ Active(s) /\ s.phase # "armed" => s.lease

\* A screen as frames show it: only home has readings, and no setup screen a value.
Proper(x) ==
    (x.at \notin Pages \cup {"home"} => x.value = "none") /\ (x.at # "home" => x.reading = 0)

\* The session waits for the answer to the key, and remembers the screen it is for.
Expecting(s, k) == s.pending /\ s.last.at = k.at /\ s.last.value = k.value

\* The last frame shows the amplifier; or one of several SETs from home went unseen.
Current(a, r) == r.lcd.at = a.at /\ (a.at \in Pages => r.lcd.value = a.edit)
Blurred(a, r) == a.at \in {First(a), "elsewhere"} /\ r.lcd.at \in {"home", First(a)}

\* Unless the amplifier was replaced, which takes it out of sight.
Sure(L, r, w) == L # <<>> \/ w.run.pc = "write" \/ r.shown = "fresh"

\* A key of the discovery.
Walks(a, s, k) ==
    /\ k.at \in {"home"} \cup Setup \cup Pages
    /\ k.at = "home" => k.name = "set"
    /\ k.at \in (Setup \ Entries) => k.name = "right"
    /\ k.name = "display" => k.at \in Pages
    /\ s.exiting => k.at \in Pages
    /\ k.at # "home" => a.at = "elsewhere" \/ Expecting(s, k)

Walking(a, L, r, w) ==
    LET s == w.sess IN
    s.phase = "discovering" =>
        /\ \A k \in InPlay(L, w) : Walks(a, s, k)
        /\ s.exiting => s.pending
        /\ w.run.pc = "check" /\ w.run.cur => Expecting(s, w.run.key)
        /\ ~s.pending /\ Sure(L, r, w) =>
               Current(a, r) \/ Blurred(a, r) \/ r.lcd.at = "storing"

\* A plan has one key at a time, and the one that ends it is not sent at home: no frame
\* but the one after it can be taken for its answer.
Planned(a, L, r, w) ==
    LET s == w.sess IN
    s.phase \in Planning =>
        /\ \A k \in InPlay(L, w) : Expecting(s, k) /\ k.at # "storing"
        /\ Len(L) <= 1 /\ (Holds(w) => L = <<>>)
        /\ L # <<>> => Meets(a, L[1])
        /\ Counts(L, r, w) => Meets(a, w.run.key)
        /\ s.phase = "plan-ready" => ~s.pending
        /\ ~s.pending => s.from.at # "storing"
        /\ ~s.pending /\ Sure(L, r, w) => Current(a, r) \/ r.lcd.at = "storing"
        /\ s.pending /\ s.step = Len(Steps(s)) => s.last.at # "home"

Meeting(a, L, r, w) ==
    /\ LineFits(a, L, r, w) /\ Quiet(a, L, r, w) /\ Told(a, L, r, w)
    /\ Proper(r.lcd) /\ Proper(w.sess.last)
    /\ Walking(a, L, r, w) /\ Planned(a, L, r, w)

MInv == IInv /\ Meeting(amp, line, rt, World)

-----------------------------------------------------------------------------
(* Keys and screens.                                                       *)

\* The first setup screen is none of the others, and no entry that is tested.
LEMMA FirstFacts ==
    ASSUME NEW a \in AmpStates
    PROVE  /\ First(a) \in Setup /\ First(a) \notin Entries
           /\ First(a) \notin OtherScreens \cup {"none"}
<1>1. a.model \in Models
  BY DEF AmpStates
<1>2. 1 \in DOMAIN SetupKeys[a.model]
  <2>1. SetupKeys[a.model] \in Seq(STRING) /\ Len(SetupKeys[a.model]) > 1
    BY <1>1, MenuDebugAssumption
  <2> QED BY <2>1
<1>3. First(a) \in Setup
  BY <1>1, <1>2 DEF First, Setup
<1> QED BY <1>1, <1>3, MenuDebugAssumption DEF First, Entries

\* No setup screen is one of the others.
LEMMA SetupApart ==
    ASSUME NEW x \in Setup
    PROVE  x \notin Pages \cup {"home", "elsewhere", "storing", "none"}
BY MenuDebugAssumption DEF OtherScreens

\* A key of the discovery acts.
LEMMA WalkActs ==
    ASSUME amp \in AmpStates, NEW name, Acts(name)
    PROVE  /\ amp.at = "home" /\ name = "set" =>
                  amp' = amp \/ amp' = [amp EXCEPT !.at = First(amp)]
           /\ amp.at = First(amp) /\ name = "set" => amp' = [amp EXCEPT !.at = "elsewhere"]
           /\ amp.at = "elsewhere" /\ name \in {"set", "right"} => amp' = amp
<1>1. /\ First(amp) \in Setup /\ First(amp) \notin Entries
      /\ First(amp) \notin OtherScreens \cup {"none"}
  BY FirstFacts
<1>2. /\ "home" \notin Setup /\ "elsewhere" \notin Setup
      /\ "home" \notin Entries /\ "elsewhere" \notin Entries
      /\ "elsewhere" \notin Pages \cup SavePages /\ "home" \notin Pages
      /\ Pages \subseteq OtherScreens
  BY MenuDebugAssumption DEF Entries, SetupEntry, OtherScreens, Pages, NextPage, SavePages
<1>3. ASSUME amp.at = "home", name = "set"
      PROVE  amp' = amp \/ amp' = [amp EXCEPT !.at = First(amp)]
  <2>1. IF amp.mode = "standby" THEN Shows(SetupKeys[amp.model][1]) ELSE UNCHANGED amp
    BY <1>2, <1>3 DEF Acts, Entries, SavePages
  <2> QED BY <2>1 DEF Shows, First
<1>4. ASSUME amp.at = First(amp), name = "set"
      PROVE  amp' = [amp EXCEPT !.at = "elsewhere"]
  <2>1. amp.at # "home" /\ amp.at \notin {SetupEntry.fan, SetupEntry.bank} /\ amp.at \in Setup
        /\ amp.at \notin Pages
    BY <1>1, <1>2, <1>4 DEF Entries, OtherScreens
  <2>2. amp.at \notin {"fan", "normal", "bankA", "quiet", "bankB"} \cup SavePages
    BY <2>1 DEF Pages, NextPage, SavePages
  <2>3. Shows("elsewhere")
    BY <1>4, <2>1, <2>2 DEF Acts
  <2> QED BY <2>3 DEF Shows
<1>5. ASSUME amp.at = "elsewhere", name \in {"set", "right"}
      PROVE  amp' = amp
  BY <1>2, <1>5 DEF Acts, SavePages, Entries
<1> QED BY <1>3, <1>4, <1>5

\* The rest of the line still fits when its first key has acted.
LEMMA FitTail ==
    ASSUME amp \in AmpStates, NEW L \in Seq(Sent), L # <<>>, Fit(amp, L), Acts(L[1].name)
    PROVE  Fit(amp', Tail(L))
<1>1. /\ Len(L) \in Nat /\ Len(L) > 0 /\ (Len(L) = 1 => Tail(L) = <<>>) /\ 1 \in DOMAIN L
      /\ \A i \in DOMAIN Tail(L) : i + 1 \in DOMAIN L /\ Tail(L)[i] = L[i + 1] /\ i \in Nat
      /\ Len(Tail(L)) = Len(L) - 1
  OBVIOUS
<1>2. \A i \in DOMAIN L : L[i].name \in Buttons
  <2>1. \A i \in DOMAIN L : L[i] \in Sent
    OBVIOUS
  <2> QED BY <2>1 DEF Sent
<1>3. /\ First(amp) \in Setup /\ First(amp) \notin Entries
      /\ First(amp) \notin OtherScreens \cup {"none"}
  BY FirstFacts
<1> DEFINE T == Tail(L)
<1> HIDE DEF T
<1>4. CASE Len(L) = 1
  BY <1>1, <1>4 DEF Fit
<1>5. CASE Len(L) # 1 /\ amp.at = "home" /\ \A i \in DOMAIN L : FromHome(L[i])
  <2>1. amp' = amp \/ amp' = [amp EXCEPT !.at = First(amp)]
    BY <1>1, <1>5, WalkActs DEF FromHome
  <2>2. \A i \in DOMAIN T : FromHome(T[i])
    BY <1>1, <1>5 DEF T
  <2>3. amp'.at \in {"home", First(amp')}
    BY <1>5, <2>1 DEF First, AmpStates
  <2> QED BY <2>2, <2>3 DEF Fit, T
<1>6. CASE /\ Len(L) # 1 /\ amp.at = First(amp)
           /\ \A i \in DOMAIN L : \/ FromHome(L[i])
                                  \/ i = Len(L) /\ L[i].at = First(amp) /\ L[i].name = "right"
  <2>1. amp' = [amp EXCEPT !.at = "elsewhere"]
    BY <1>1, <1>6, WalkActs DEF FromHome
  <2>2. \A i \in DOMAIN L : L[i].at \in {"home"} \cup Setup /\ L[i].name # "display"
    BY <1>3, <1>6 DEF FromHome
  <2>3. amp'.at = "elsewhere"
    BY <2>1 DEF AmpStates
  <2>4. \A i \in DOMAIN T : T[i].at \in {"home"} \cup Setup /\ T[i].name # "display"
    BY <1>1, <2>2 DEF T
  <2> QED BY <2>3, <2>4 DEF Fit, T
<1>7. CASE /\ amp.at = "elsewhere"
           /\ \A i \in DOMAIN L : L[i].at \in {"home"} \cup Setup /\ L[i].name # "display"
  <2>1. amp' = amp
    BY <1>1, <1>2, <1>7, WalkActs DEF Buttons
  <2>2. \A i \in DOMAIN T : T[i].at \in {"home"} \cup Setup /\ T[i].name # "display"
    BY <1>1, <1>7 DEF T
  <2> QED BY <1>7, <2>1, <2>2 DEF Fit, T
<1> QED BY <1>4, <1>5, <1>6, <1>7 DEF Fit

-----------------------------------------------------------------------------
(* Methods that only take away.                                            *)

\* The session stays as it is, and the runner has nothing in hand.
LEMMA NothingInHand ==
    ASSUME NEW a, NEW L, NEW r, NEW w, NEW v, Meeting(a, L, r, w),
           v.sess = w.sess, v.reports = w.reports, ~Holds(v),
           w.sess.phase = "idle" => v.run.pc \in {"idle", "top", "done"}
    PROVE  Meeting(a, L, r, v)
<1>1. ~Counts(L, r, v) /\ (Sure(L, r, v) => Sure(L, r, w)) /\ v.run.pc # "write"
  BY DEF Counts, Holds, Sure
<1>2. ~(v.run.pc = "check" /\ v.run.cur)
  BY DEF Holds
<1>3. InPlay(L, v) \subseteq InPlay(L, w)
  BY DEF InPlay
<1>4. LineFits(a, L, r, v)
  BY <1>1 DEF Meeting, LineFits
<1>5. Quiet(a, L, r, v) /\ Told(a, L, r, v)
  BY <1>2 DEF Meeting, Quiet, Told
<1>6. Walking(a, L, r, v)
  BY <1>1, <1>2, <1>3 DEF Meeting, Walking
<1>7. Planned(a, L, r, v)
  BY <1>1, <1>2, <1>3 DEF Meeting, Planned
<1> QED BY <1>4, <1>5, <1>6, <1>7 DEF Meeting

\* A session that is over and told what it told; its key may still be written, unless
\* the port is another by then.
Stops(w, v) ==
    /\ v.sess.phase \in Terminal /\ v.sess.gen = w.sess.gen
    /\ w.sess.mayBeInMenu => v.sess.mayBeInMenu
    /\ Proper(v.sess.last)
    /\ v.run.pc = "write" => w.run.pc = "write" /\ v.run.key = w.run.key
    /\ ~(v.run.pc = "check" /\ v.run.cur)

LEMMA StopsMeet ==
    ASSUME NEW a, NEW L, NEW r, NEW q, NEW w, NEW v, Meeting(a, L, r, w), Stops(w, v),
           w.sess.phase # "idle", w.sess.gen \in Nat, r.gen \in Nat,
           q.gen = r.gen, Proper(q.lcd)
    PROVE  Meeting(a, L, q, v)
<1>1. v.sess.phase \notin Planning \cup Waiting \cup {"discovering", "idle"}
      /\ ~Active(v.sess)
  BY DEF Stops, Terminal, Planning, Waiting, Active
<1>2. Holds(v) => Holds(w) /\ v.run.pc = "write" /\ v.run.key = w.run.key
  BY DEF Stops, Holds
<1>3. Counts(L, q, v) => Counts(L, r, w) /\ v.run.key = w.run.key
  BY DEF Stops, Counts
<1>4. LineFits(a, L, q, v)
  BY <1>3 DEF Meeting, LineFits
<1>5. Quiet(a, L, q, v)
  <2>1. v.sess.gen <= q.gen
    BY DEF Meeting, Quiet, Stops
  <2> QED BY <1>1, <2>1 DEF Stops, Quiet, Waiting
<1>6. Told(a, L, q, v)
  <2>1. ~v.sess.mayBeInMenu => a.at = "home" /\ L = <<>> /\ ~Holds(v)
    BY <1>2 DEF Meeting, Told, Stops
  <2> QED BY <1>1, <2>1 DEF Told, Waiting
<1>7. Walking(a, L, q, v) /\ Planned(a, L, q, v)
  BY <1>1 DEF Walking, Planned
<1> QED BY <1>4, <1>5, <1>6, <1>7 DEF Meeting, Stops

\* How a session ends.
LEMMA EndedStops ==
    ASSUME NEW w, Sane(w), Proper(w.sess.last), NEW phase \in Terminal
    PROVE  Stops(w, Ended(w, phase)) /\ Ended(w, phase).run.pc = w.run.pc
<1> DEFINE kept == Retain(w)
           s == Over(kept.sess, phase)
           v == Bump([kept EXCEPT !.sess = s])
<1>1. /\ Sane(kept) /\ kept.run = w.run /\ kept.sess.gen = w.sess.gen
      /\ kept.sess.mayBeInMenu = w.sess.mayBeInMenu
  <2>1. Sane(kept) /\ kept.run = w.run
    BY RetainSane
  <2>2. kept.sess \in {w.sess, [w.sess EXCEPT !.retained = TRUE]}
    BY DEF Retain, Sane
  <2> HIDE DEF kept
  <2> QED BY <2>1, <2>2 DEF Sane, Sessions
<1>2. /\ s.phase = phase /\ s.gen = w.sess.gen /\ s.mayBeInMenu = w.sess.mayBeInMenu
      /\ s.last = NoScreen
  <2> HIDE DEF kept
  <2> QED BY <1>1 DEF Over, NoSession
<1>3. /\ v.sess = s /\ v.run.pc = w.run.pc /\ v.run.key = w.run.key /\ v.run.cur = FALSE
  <2> HIDE DEF kept, s
  <2> QED BY <1>1 DEF Bump, Sane, Runs
<1>4. Ended(w, phase) = v
  BY DEF Ended
<1> HIDE DEF v, s
<1> QED BY <1>2, <1>3, <1>4 DEF Stops, Proper, NoScreen

\* failLocked, which also says that the panel may be in the menu.
LEMMA FailStops ==
    ASSUME NEW w, Sane(w), Proper(w.sess.last)
    PROVE  Stops(w, Fail(w)) /\ Fail(w).run.pc = w.run.pc
<1> DEFINE v == Ended(w, "failed")
           in == \/ v.sess.mayBeInMenu \/ w.sess.acted
                 \/ w.sess.phase \in {"discovering", "applying", "restoring"}
           s == [v.sess EXCEPT !.mayBeInMenu = in]
           u == [v EXCEPT !.sess = s]
<1>1. Sane(v) /\ Stops(w, v) /\ v.run.pc = w.run.pc
  BY EndedSane, EndedStops DEF Terminal
<1>2. Fail(w) = u
  BY <1>1 DEF Fail, Sane
<1>3. u.sess = s /\ u.run = v.run
  <2> HIDE DEF v, s
  <2> QED BY <1>1 DEF Sane
<1>4. /\ s.phase = v.sess.phase /\ s.gen = v.sess.gen /\ s.last = v.sess.last
      /\ (v.sess.mayBeInMenu => s.mayBeInMenu)
  <2> HIDE DEF v
  <2> QED BY <1>1 DEF Sane, Sessions
<1> HIDE DEF u, v, s
<1> QED BY <1>1, <1>2, <1>3, <1>4 DEF Stops

\* A new serial session or another model.
LEMMA InvalidateStops ==
    ASSUME NEW w, Sane(w), Proper(w.sess.last)
    PROVE  \/ Invalidate(w) = w /\ ~Active(w.sess) /\ w.reports = {}
           \/ /\ Stops(w, Invalidate(w)) /\ Invalidate(w).run.pc = w.run.pc
              /\ (Active(w.sess) \/ w.reports # {})
<1> DEFINE s == Over(w.sess, "failed")
           v == Bump([w EXCEPT !.sess = s, !.reports = {}])
<1>1. /\ s.phase = "failed" /\ s.gen = w.sess.gen /\ s.mayBeInMenu = w.sess.mayBeInMenu
      /\ s.last = NoScreen
  BY DEF Over, NoSession
<1>2. /\ v.sess = s /\ v.run.pc = w.run.pc /\ v.run.key = w.run.key /\ v.run.cur = FALSE
  <2> HIDE DEF s
  <2> QED BY DEF Bump, Sane, Runs
<1>3. Invalidate(w) = v \/ (~Active(w.sess) /\ w.reports = {})
  BY DEF Invalidate, Sane
<1>4. Stops(w, v)
  <2> HIDE DEF v, s
  <2> QED BY <1>1, <1>2 DEF Stops, Proper, NoScreen, Terminal
<1> HIDE DEF v, s
<1>5. CASE ~Active(w.sess) /\ w.reports = {}
  BY <1>5 DEF Invalidate
<1>6. CASE Active(w.sess) \/ w.reports # {}
  BY <1>2, <1>3, <1>4, <1>6
<1> QED BY <1>5, <1>6

-----------------------------------------------------------------------------
(* The amplifier and its operator.                                         *)

\* What the invariant knows of the types.
LEMMA Types ==
    ASSUME IInv
    PROVE  /\ amp \in AmpStates /\ line \in Seq(Sent) /\ rt \in Runtimes /\ Sane(World)
           /\ World = [sess |-> sess, reports |-> reports, run |-> run]
           /\ sess \in Sessions /\ run \in Runs
           /\ (Holds(World) => run.key \in Sent)
<1>1. Sane(World) /\ World.sess = sess /\ World.run = run
  BY DEF IInv, World
<1>2. sess \in Sessions /\ run \in Runs /\ KeyReady(sess, run)
  BY <1>1 DEF Sane
<1>3. Holds(World) => run.key \in Sent
  BY <1>1, <1>2 DEF Holds, KeyReady, Runs, Keys, Sent
<1> QED BY <1>1, <1>2, <1>3 DEF IInv, Sent, World

\* A key of the discovery leaves the amplifier in sight, or out of it for one of several
\* SETs from home.
LEMMA DiscoveryInSight ==
    ASSUME MInv, AmpActs, sess.phase = "discovering", ~sess.pending,
           Current(amp, rt) \/ Blurred(amp, rt) \/ rt.lcd.at = "storing"
    PROVE  Current(amp', rt) \/ Blurred(amp', rt) \/ rt.lcd.at = "storing"
<1>1. /\ amp \in AmpStates /\ line \in Seq(Sent) /\ World.sess = sess
      /\ Meeting(amp, line, rt, World)
  BY Types DEF MInv
<1>2. /\ line # <<>> /\ Acts(line[1].name) /\ 1 \in DOMAIN line
      /\ line[1] \in Sent /\ line[1] \in InPlay(line, World)
  <2>1. Head(line) = line[1]
    BY <1>1 DEF AmpActs
  <2> QED BY <1>1, <2>1 DEF AmpActs, InPlay
<1>3. /\ First(amp) \in Setup /\ First(amp) \notin {"home", "elsewhere", "storing"} \cup Pages
      /\ "elsewhere" \notin {"home"} \cup Setup \cup Pages /\ "home" \notin Setup \cup Pages
  BY <1>1, FirstFacts, MenuDebugAssumption DEF OtherScreens, Pages, NextPage
<1>4. /\ line[1].name \in Buttons /\ line[1].at \in {"home"} \cup Setup \cup Pages
      /\ line[1].at = "home" => line[1].name = "set"
      /\ line[1].at = "home" \/ amp.at = "elsewhere"
  BY <1>1, <1>2 DEF Meeting, Walking, Walks, Expecting, Sent
<1>5. Fit(amp, line)
  BY <1>1 DEF Meeting, LineFits
<1>6. CASE amp.at = "elsewhere"
  <2>1. line[1].name # "display"
    BY <1>2, <1>3, <1>4, <1>5, <1>6 DEF Fit, Meets
  <2>2. amp' = amp
    BY <1>1, <1>2, <1>4, <1>6, <2>1, WalkActs DEF Buttons
  <2> QED BY <2>2
<1>7. CASE amp.at = "home"
  <2>1. amp' = amp \/ amp' = [amp EXCEPT !.at = First(amp)]
    BY <1>1, <1>2, <1>3, <1>4, <1>7, WalkActs
  <2>2. rt.lcd.at \in {"home", "storing"}
    BY <1>3, <1>7 DEF Current, Blurred
  <2>3. amp' = amp \/ amp'.at = First(amp')
    BY <1>1, <2>1 DEF First, AmpStates
  <2> QED BY <2>2, <2>3 DEF Blurred
<1>8. CASE amp.at = First(amp)
  <2>1. amp' = [amp EXCEPT !.at = "elsewhere"]
    BY <1>1, <1>2, <1>3, <1>4, <1>8, WalkActs
  <2>2. rt.lcd.at \in {"home", First(amp), "storing"}
    BY <1>8 DEF Current, Blurred
  <2>3. amp'.at = "elsewhere" /\ First(amp') = First(amp)
    BY <1>1, <2>1 DEF First, AmpStates
  <2> QED BY <2>2, <2>3 DEF Blurred
<1>9. amp.at \in {"home", "elsewhere", First(amp)}
  BY <1>2, <1>4, <1>5 DEF Fit, Meets
<1> QED BY <1>6, <1>7, <1>8, <1>9

\* A key acts.
LEMMA AmpActsMeet ==
    ASSUME MInv, AmpActs
    PROVE  Meeting(amp', Tail(line), rt, World)
<1> DEFINE T == Tail(line)
           w == World
           s == sess
<1>1. /\ amp \in AmpStates /\ line \in Seq(Sent) /\ w.sess = sess /\ w.run = run
      /\ (Holds(w) => run.key \in Sent)
  BY Types DEF MInv
<1>2. line # <<>> /\ Acts(line[1].name)
  <2>1. Head(line) = line[1]
    BY <1>1 DEF AmpActs
  <2> QED BY <2>1 DEF AmpActs
<1>3. Meeting(amp, line, rt, w)
  BY DEF MInv
<1>4. /\ Len(line) \in Nat /\ Len(line) > 0 /\ 1 \in DOMAIN line /\ T \in Seq(Sent)
      /\ (Len(line) <= 1 => T = <<>>)
      /\ \A i \in DOMAIN T : i + 1 \in DOMAIN line /\ T[i] = line[i + 1]
      /\ \A k : /\ Tail(Append(line, k)) = Append(T, k) /\ Append(line, k) # <<>>
               /\ Append(line, k)[1] = line[1]
      /\ \A k \in Sent : Append(line, k) \in Seq(Sent)
  BY <1>1, <1>2
<1>5. InPlay(T, w) \subseteq InPlay(line, w) /\ line[1] \in InPlay(line, w)
  BY <1>4 DEF InPlay
<1>6. (Counts(T, rt, w) => Counts(line, rt, w) /\ Holds(w)) /\ Sure(line, rt, w)
  BY <1>2 DEF Counts, Holds, Sure
<1> HIDE DEF T, w
<1>7. LineFits(amp', T, rt, w)
  <2>1. Fit(amp, line) /\ (Counts(line, rt, w) => Fit(amp, Append(line, run.key)))
    BY <1>1, <1>3 DEF Meeting, LineFits
  <2>2. Fit(amp', T)
    BY <1>1, <1>2, <2>1, FitTail DEF T
  <2>3. ASSUME Counts(T, rt, w) PROVE Fit(amp', Append(T, run.key))
    <3> DEFINE M == Append(line, run.key)
    <3>1. /\ M \in Seq(Sent) /\ M # <<>> /\ M[1] = line[1] /\ Tail(M) = Append(T, run.key)
          /\ Fit(amp, M)
      BY <1>1, <1>4, <1>6, <2>1, <2>3
    <3> HIDE DEF M
    <3>2. Fit(amp', Tail(M))
      BY <1>1, <1>2, <3>1, FitTail
    <3> QED BY <3>1, <3>2
  <2> QED BY <1>1, <2>2, <2>3 DEF LineFits
<1>8. /\ sess.phase \notin Waiting \cup {"idle"}
      /\ Quiet(amp', T, rt, w)
  BY <1>1, <1>2, <1>3 DEF Meeting, Quiet, Waiting
<1>9. Told(amp', T, rt, w)
  <2>1. sess.mayBeInMenu
    BY <1>1, <1>2, <1>3, <1>8 DEF Meeting, Told
  <2> QED BY <1>1, <1>3, <1>8, <2>1 DEF Meeting, Told, Waiting
<1>10. Walking(amp', T, rt, w)
  <2> SUFFICES ASSUME sess.phase = "discovering" PROVE Walking(amp', T, rt, w)
    BY <1>1 DEF Walking
  <2>1. /\ \A k \in InPlay(line, w) : Walks(amp, sess, k)
        /\ sess.exiting => sess.pending
        /\ run.pc = "check" /\ run.cur => Expecting(sess, run.key)
        /\ ~sess.pending => Current(amp, rt) \/ Blurred(amp, rt) \/ rt.lcd.at = "storing"
    BY <1>1, <1>3, <1>6 DEF Meeting, Walking
  <2>2. /\ First(amp) \in Setup /\ First(amp) \notin Entries
        /\ First(amp) \notin {"home", "elsewhere", "storing"} \cup Pages
        /\ "elsewhere" \notin {"home"} \cup Setup \cup Pages /\ "home" \notin Setup \cup Pages
    BY <1>1, FirstFacts, MenuDebugAssumption DEF OtherScreens, Pages, NextPage
  <2>3. line[1].at \in {"home"} \cup Setup \cup Pages /\ line[1].name \in Buttons
    <3>1. Walks(amp, sess, line[1]) /\ line[1] \in Sent
      BY <1>1, <1>4, <1>5, <2>1
    <3> QED BY <3>1 DEF Walks, Sent
  <2>4. Fit(amp, line)
    BY <1>3 DEF Meeting, LineFits
  <2>5. amp.at = "elsewhere" => amp' = amp
    <3> SUFFICES ASSUME amp.at = "elsewhere" PROVE amp' = amp
      OBVIOUS
    <3>1. line[1].name # "display"
      BY <1>4, <2>2, <2>3, <2>4 DEF Fit, Meets
    <3> QED BY <1>1, <1>2, <2>3, <3>1, WalkActs DEF Buttons
  <2>6. \A k \in InPlay(T, w) : Walks(amp', sess, k)
    BY <1>5, <2>1, <2>5 DEF Walks
  <2>7. ASSUME ~sess.pending
        PROVE  Current(amp', rt) \/ Blurred(amp', rt) \/ rt.lcd.at = "storing"
    BY <2>1, <2>7, DiscoveryInSight
  <2> QED BY <1>1, <2>1, <2>6, <2>7 DEF Walking
<1>11. Planned(amp', T, rt, w)
  <2> SUFFICES ASSUME sess.phase \in Planning PROVE Planned(amp', T, rt, w)
    BY <1>1 DEF Planned
  <2>1. /\ Expecting(sess, line[1]) /\ Len(line) <= 1 /\ ~Holds(w)
        /\ sess.phase # "plan-ready"
        /\ sess.pending /\ sess.step = Len(Steps(sess)) => sess.last.at # "home"
    BY <1>1, <1>2, <1>3, <1>5 DEF Meeting, Planned, Expecting
  <2>2. T = <<>> /\ sess.pending /\ ~Counts(T, rt, w)
    BY <1>4, <1>6, <2>1 DEF Expecting
  <2>3. InPlay(T, w) = {}
    BY <2>1, <2>2 DEF InPlay
  <2> QED BY <1>1, <2>1, <2>2, <2>3 DEF Planned
<1> QED BY <1>1, <1>3, <1>7, <1>8, <1>9, <1>10, <1>11 DEF Meeting, T, w

\* What was stored is shown at home.
LEMMA StoredMeet ==
    ASSUME MInv, AmpHasStored
    PROVE  Meeting(amp', line, rt, World)
<1>1. /\ amp \in AmpStates /\ line \in Seq(Sent) /\ World.sess = sess /\ World.run = run
      /\ (Holds(World) => run.key \in Sent)
  BY Types DEF MInv
<1>2. Meeting(amp, line, rt, World)
  BY DEF MInv
<1>3. /\ amp.at = "storing" /\ amp'.at = "home" /\ First(amp) # "storing"
      /\ "storing" \notin Pages
  BY <1>1, FirstFacts DEF AmpHasStored, AmpStates, OtherScreens, Pages, NextPage
<1>4. \A L : Fit(amp, L) => L = <<>>
  BY <1>3 DEF Fit, Meets
<1>5. line = <<>> /\ ~Counts(line, rt, World)
  <2>1. line = <<>>
    BY <1>2, <1>4 DEF Meeting, LineFits
  <2>2. Counts(line, rt, World) => Append(line, run.key) = <<>>
    BY <1>1, <1>2, <1>4 DEF Meeting, LineFits
  <2>3. Holds(World) => Append(line, run.key) # <<>>
    BY <1>1
  <2> QED BY <2>1, <2>2, <2>3 DEF Counts, Holds
<1>6. LineFits(amp', line, rt, World) /\ Quiet(amp', line, rt, World)
  BY <1>2, <1>3, <1>5 DEF LineFits, Fit, Meeting, Quiet
<1>7. Told(amp', line, rt, World)
  BY <1>2, <1>3 DEF Meeting, Told
<1>8. Walking(amp', line, rt, World)
  <2>1. \A k : Walks(amp, sess, k) => Walks(amp', sess, k)
    BY <1>3 DEF Walks
  <2> QED BY <1>1, <1>2, <1>3, <2>1 DEF Meeting, Walking, Current, Blurred
<1>9. Planned(amp', line, rt, World)
  BY <1>1, <1>2, <1>3, <1>5 DEF Meeting, Planned, Current
<1> QED BY <1>2, <1>6, <1>7, <1>8, <1>9 DEF Meeting

\* The operator recovers the panel when no session may send keys.
LEMMA PressDisplayMeet ==
    ASSUME MInv, PressDisplay
    PROVE  Meeting(amp', line, rt, World)
<1>1. World.sess = sess /\ World.run = run /\ amp \in AmpStates
  BY Types DEF MInv
<1>2. Meeting(amp, line, rt, World)
  BY DEF MInv
<1>3. /\ amp'.at = "home" /\ line = <<>> /\ ~Holds(World) /\ ~Counts(line, rt, World)
      /\ sess.phase \in Terminal \cup {"idle", "awaiting-home"}
  BY <1>1 DEF PressDisplay, Acts, AmpStates, Holds, Counts
<1>4. Walking(amp', line, rt, World) /\ Planned(amp', line, rt, World)
  BY <1>1, <1>3 DEF Walking, Planned, Terminal, Planning
<1>5. LineFits(amp', line, rt, World) /\ Quiet(amp', line, rt, World)
      /\ Told(amp', line, rt, World)
  BY <1>1, <1>2, <1>3 DEF LineFits, Fit, Meeting, Quiet, Told, Terminal
<1> QED BY <1>2, <1>4, <1>5 DEF Meeting

\* Only the screen of the amplifier matters, and its setup menu.
LEMMA SameScreen ==
    ASSUME NEW a, NEW b, NEW L, NEW r, NEW w, Meeting(a, L, r, w),
           b.at = a.at, b.edit = a.edit, b.model = a.model
    PROVE  Meeting(b, L, r, w)
<1>1. First(b) = First(a) /\ \A k : Meets(a, k) => Meets(b, k)
  BY DEF First, Meets
<1>2. \A K : Fit(a, K) => Fit(b, K)
  BY <1>1 DEF Fit
<1>3. LineFits(b, L, r, w) /\ Quiet(b, L, r, w) /\ Told(b, L, r, w)
  BY <1>2 DEF Meeting, LineFits, Quiet, Told
<1>4. \A s, k : Walks(a, s, k) => Walks(b, s, k)
  BY DEF Walks
<1>5. (Current(a, r) => Current(b, r)) /\ (Blurred(a, r) => Blurred(b, r))
  BY <1>1 DEF Current, Blurred
<1>6. Walking(b, L, r, w)
  BY <1>4, <1>5 DEF Meeting, Walking
<1>7. Planned(b, L, r, w)
  BY <1>1, <1>5 DEF Meeting, Planned
<1> QED BY <1>3, <1>6, <1>7 DEF Meeting

\* Another model is out of sight until it is shown.
LEMMA ReplaceMeet ==
    ASSUME MInv, Replace
    PROVE  Meeting(amp', line, rt', World)
<1>1. World.sess = sess /\ World.run = run /\ rt \in Runtimes
  BY Types DEF MInv
<1>2. Meeting(amp, line, rt, World)
  BY DEF MInv
<1>3. /\ amp'.at = "home" /\ line = <<>> /\ run.pc # "write" /\ rt'.shown = "old"
      /\ rt'.lcd = rt.lcd /\ rt'.gen = rt.gen
  BY <1>1 DEF Replace, Idle, Runtimes
<1>4. /\ ~Counts(line, rt', World) /\ ~Sure(line, rt', World)
      /\ (Holds(World) => run.pc = "check" /\ run.cur)
  BY <1>1, <1>3 DEF Counts, Sure, Clear, Holds
<1>5. LineFits(amp', line, rt', World) /\ Quiet(amp', line, rt', World)
      /\ Told(amp', line, rt', World)
  BY <1>2, <1>3, <1>4 DEF LineFits, Fit, Meeting, Quiet, Told
<1>6. Walking(amp', line, rt', World)
  <2> SUFFICES ASSUME sess.phase = "discovering" PROVE Walking(amp', line, rt', World)
    BY <1>1 DEF Walking
  <2>1. \A k \in InPlay(line, World) : Walks(amp, sess, k) /\ Expecting(sess, k)
    BY <1>1, <1>2, <1>3, <1>4 DEF Meeting, Walking, InPlay
  <2>2. \A k \in InPlay(line, World) : Walks(amp', sess, k)
    BY <2>1 DEF Walks
  <2> QED BY <1>1, <1>2, <1>4, <2>2 DEF Meeting, Walking
<1>7. Planned(amp', line, rt', World)
  BY <1>2, <1>3, <1>4 DEF Meeting, Planned
<1> QED BY <1>1, <1>2, <1>3, <1>5, <1>6, <1>7 DEF Meeting

-----------------------------------------------------------------------------
(* What is heard.                                                          *)

\* What does not change what is shown, or makes it older.
LEMMA OlderMeet ==
    ASSUME NEW a, NEW L, NEW r, NEW q, NEW w, Meeting(a, L, r, w),
           q.gen = r.gen, q.lcd = r.lcd, q.shown = "fresh" => r.shown = "fresh"
    PROVE  Meeting(a, L, q, w)
<1>1. (Counts(L, q, w) => Counts(L, r, w)) /\ (Sure(L, q, w) => Sure(L, r, w))
  BY DEF Counts, Sure, Clear
<1>2. (Current(a, r) => Current(a, q)) /\ (Blurred(a, r) => Blurred(a, q))
  BY DEF Current, Blurred
<1>3. LineFits(a, L, q, w) /\ Quiet(a, L, q, w) /\ Told(a, L, q, w)
  BY <1>1 DEF Meeting, LineFits, Quiet, Told
<1>4. Walking(a, L, q, w)
  BY <1>1, <1>2 DEF Meeting, Walking
<1>5. Planned(a, L, q, w)
  BY <1>1, <1>2 DEF Meeting, Planned
<1> QED BY <1>3, <1>4, <1>5 DEF Meeting

\* A new port, with an empty line: no session outlives it.
LEMMA PortMeet ==
    ASSUME NEW a, NEW b, NEW r, NEW q, NEW w, NEW v, Meeting(a, <<>>, r, w),
           \/ v = w /\ ~Active(w.sess)
           \/ Stops(w, v) /\ w.sess.phase # "idle",
           b = a \/ b.at = "home", q.gen = r.gen + 1, q.shown = "gone", Proper(q.lcd),
           r.gen \in Nat, w.sess.gen \in Nat
    PROVE  Meeting(b, <<>>, q, v)
<1>1. /\ v.sess.gen = w.sess.gen /\ w.sess.gen <= r.gen /\ v.sess.gen < q.gen
      /\ ~Active(v.sess) /\ Proper(v.sess.last)
      /\ ~(v.run.pc = "check" /\ v.run.cur)
      /\ (Holds(v) => Holds(w))
  <2>1. w.sess.gen <= r.gen /\ Proper(w.sess.last)
    BY DEF Meeting, Quiet
  <2>2. CASE Stops(w, v) /\ w.sess.phase # "idle"
    BY <2>1, <2>2 DEF Stops, Active, Holds
  <2>3. CASE v = w /\ ~Active(w.sess)
    BY <2>1, <2>3 DEF Meeting, Quiet, Active, Terminal
  <2> QED BY <2>2, <2>3
<1>2. v.sess.phase \notin Waiting \cup Planning \cup {"discovering"}
  BY <1>1 DEF Active, Waiting, Planning, Terminal
<1>3. ~Counts(<<>>, q, v)
  BY <1>1 DEF Counts
<1>4. LineFits(b, <<>>, q, v)
  BY <1>3 DEF LineFits, Fit
<1>5. Quiet(b, <<>>, q, v)
  <2>1. v.sess.phase = "idle" => v.run.pc \in {"idle", "top", "done"} /\ v.reports = {}
    BY DEF Meeting, Quiet, Stops, Terminal
  <2> QED BY <1>1, <1>2, <2>1 DEF Quiet, Waiting
<1>6. Told(b, <<>>, q, v)
  <2>1. ASSUME v.sess.phase # "idle", ~v.sess.mayBeInMenu
        PROVE  b.at = "home" /\ ~Holds(v)
    <3>1. w.sess.phase # "idle" /\ ~w.sess.mayBeInMenu
      BY <2>1 DEF Stops
    <3> QED BY <1>1, <3>1 DEF Meeting, Told
  <2> QED BY <1>1, <1>2, <2>1 DEF Told, Waiting
<1>7. Walking(b, <<>>, q, v) /\ Planned(b, <<>>, q, v)
  BY <1>2 DEF Walking, Planned
<1> QED BY <1>1, <1>4, <1>5, <1>6, <1>7 DEF Meeting

\* What a method leaves is the next world.
LEMMA BecomesIs ==
    ASSUME NEW t, Sane(t), Becomes(t)
    PROVE  World' = t
BY DEF Becomes, World, Sane

\* A status frame, a new port, the age of what was heard, the end of the session's
\* lifetime, an operator who denies.
LEMMA EvidenceMeet ==
    ASSUME MInv,
           \/ \E named \in BOOLEAN : ObserveStatus(named)
           \/ BeginSession \/ EvidenceAges \/ Expire \/ Deny
           \/ \E to \in {"off", "manual", "on"} : SettingsChange(to)
    PROVE  Meeting(amp', line', rt', World')
<1>1. /\ Sane(World) /\ World.sess = sess /\ World.run = run /\ World.reports = reports
      /\ rt \in Runtimes /\ rt.gen \in Nat /\ sess.gen \in Nat
  BY Types DEF MInv, Runtimes, Sessions
<1>2. Meeting(amp, line, rt, World) /\ Proper(sess.last) /\ Proper(rt.lcd)
  BY <1>1 DEF MInv, Meeting
<1>3. ASSUME NEW named \in BOOLEAN, ObserveStatus(named)
      PROVE  Meeting(amp', line', rt', World')
  <2>1. amp' = amp /\ line' = line /\ rt'.gen = rt.gen /\ rt'.lcd = rt.lcd /\ rt'.shown = rt.shown
    BY <1>1, <1>3 DEF ObserveStatus, Runtimes
  <2> DEFINE told == IF named /\ rt.model \notin {"none", amp.model} THEN Invalidate(World)
                                                                  ELSE World
  <2>2. Becomes(IF amp.mode = "tx" /\ Active(told.sess) THEN Fail(told) ELSE told)
    BY <1>3 DEF ObserveStatus
  <2>3. Active(told.sess) => told = World
    BY <1>1, <1>2, InvalidateStops DEF Stops, Active
  <2>4. \/ Becomes(World) \/ Becomes(Invalidate(World))
        \/ Becomes(Fail(World)) /\ Active(sess)
    BY <1>1, <2>2, <2>3
  <2>5. Meeting(amp, line, rt', World)
    BY <1>2, <2>1, OlderMeet
  <2>6. CASE Becomes(World)
    BY <1>1, <2>1, <2>5, <2>6, BecomesIs
  <2>7. CASE Becomes(Fail(World)) /\ Active(sess)
    <3>1. sess.phase # "idle" /\ Stops(World, Fail(World)) /\ Sane(Fail(World))
      BY <1>1, <1>2, <2>7, FailStops, FailSane DEF Active
    <3>2. Meeting(amp, line, rt', Fail(World))
      BY <1>1, <1>2, <2>1, <3>1, StopsMeet
    <3> QED BY <2>1, <2>7, <3>1, <3>2, BecomesIs
  <2>8. CASE Becomes(Invalidate(World))
    <3>1. Sane(Invalidate(World))
      BY <1>1, InvalidateSane
    <3>2. CASE Invalidate(World) = World
      BY <1>1, <2>1, <2>5, <2>8, <3>2, BecomesIs
    <3>3. CASE Stops(World, Invalidate(World)) /\ (Active(sess) \/ reports # {})
      <4>1. sess.phase # "idle"
        BY <1>1, <1>2, <3>3 DEF Meeting, Quiet, Active
      <4>2. Meeting(amp, line, rt', Invalidate(World))
        BY <1>1, <1>2, <2>1, <3>3, <4>1, StopsMeet
      <4> QED BY <2>1, <2>8, <3>1, <4>2, BecomesIs
    <3> QED BY <1>1, <1>2, <3>2, <3>3, InvalidateStops
  <2> QED BY <2>4, <2>6, <2>7, <2>8
<1>4. CASE BeginSession
  <2> DEFINE v == Invalidate(World)
  <2>1. /\ line = <<>> /\ line' = <<>> /\ rt'.gen = rt.gen + 1 /\ rt'.shown = "gone"
        /\ rt'.lcd = NoLcd /\ Becomes(v)
    BY <1>1, <1>4 DEF BeginSession, Runtimes
  <2>2. amp' = amp \/ amp'.at = "home"
    BY <1>4 DEF BeginSession, Idle
  <2>3. Proper(rt'.lcd)
    BY <2>1 DEF Proper, NoLcd
  <2>4. Sane(v) /\ World' = v
    BY <1>1, <2>1, InvalidateSane, BecomesIs
  <2>5. \/ v = World /\ ~Active(World.sess)
        \/ Stops(World, v) /\ World.sess.phase # "idle"
    BY <1>1, <1>2, InvalidateStops DEF Meeting, Quiet, Active
  <2> HIDE DEF v
  <2>6. Meeting(amp', <<>>, rt', v)
    BY <1>1, <1>2, <2>1, <2>2, <2>3, <2>5, PortMeet
  <2> QED BY <2>1, <2>4, <2>6
<1>5. CASE EvidenceAges
  <2>1. amp' = amp /\ line' = line /\ World' = World
    BY <1>5 DEF EvidenceAges, World
  <2>2. rt'.gen = rt.gen /\ rt'.lcd = rt.lcd /\ (rt'.shown = "fresh" => rt.shown = "fresh")
    BY <1>1, <1>5 DEF EvidenceAges, Runtimes
  <2> QED BY <1>2, <2>1, <2>2, OlderMeet
<1>6. CASE Expire \/ Deny
  <2>1. amp' = amp /\ line' = line /\ rt' = rt /\ sess.phase # "idle"
    BY <1>6 DEF Expire, Deny
  <2>2. PICK v \in {Ended(World, "expired"), Fail(World)} : Becomes(v)
    BY <1>6 DEF Expire, Deny
  <2>3. Sane(v) /\ Stops(World, v)
    BY <1>1, <1>2, EndedSane, EndedStops, FailSane, FailStops DEF Terminal
  <2>4. Meeting(amp, line, rt, v)
    BY <1>1, <1>2, <2>1, <2>3, StopsMeet
  <2> QED BY <2>1, <2>2, <2>3, <2>4, BecomesIs
<1>7. ASSUME NEW to \in {"off", "manual", "on"}, SettingsChange(to)
      PROVE  Meeting(amp', line', rt', World')
  <2>1. amp' = amp /\ line' = line /\ rt' = rt /\ World' = World
    BY <1>7 DEF SettingsChange, World
  <2> QED BY <1>2, <2>1
<1> QED BY <1>3, <1>4, <1>5, <1>6, <1>7

-----------------------------------------------------------------------------
(* What is shown.                                                          *)

\* A frame shows a screen as frames do.
LEMMA FrameProper ==
    ASSUME amp \in AmpStates, NEW reading \in {0, 1}, NEW valid \in BOOLEAN
    PROVE  LET lcd == Frame(reading, valid)
           IN  /\ lcd \in Lcds /\ Screen(lcd) \in Shots /\ Proper(lcd) /\ Proper(Screen(lcd))
               /\ Screen(lcd).at = amp.at /\ lcd.at = amp.at
               /\ (amp.at \in Pages => lcd.value = amp.edit /\ Screen(lcd).value = amp.edit)
               /\ (~valid => lcd.mode = "unknown")
<1> DEFINE lcd == Frame(reading, valid)
<1>1. lcd \in Lcds /\ Screen(lcd) \in Shots
  BY FrameTyped, ScreenTyped
<1>2. /\ lcd.at = amp.at /\ (amp.at \in Pages => lcd.value = amp.edit)
      /\ (amp.at \notin Pages \cup {"home"} => lcd.value = "none")
      /\ (amp.at # "home" => lcd.reading = 0) /\ (~valid => lcd.mode = "unknown")
  BY DEF Frame
<1> HIDE DEF lcd
<1>3. Screen(lcd).at = lcd.at /\ Screen(lcd).value = lcd.value
      /\ Screen(lcd).reading = lcd.reading
  BY DEF Screen
<1> QED BY <1>1, <1>2, <1>3 DEF Proper, lcd

\* While a key is on its way from a screen, that is the screen shown.
LEMMA ShownMeanwhile ==
    ASSUME amp \in AmpStates, NEW reading \in {0, 1}, NEW valid \in BOOLEAN,
           NEW x \in Shots, Proper(x), NEW k, x.at = k.at, x.value = k.value,
           k.at # "home", Meets(amp, k) \/ (k.at = First(amp) /\ amp.at = First(amp))
    PROVE  Screen(Frame(reading, valid)) = x
<1> DEFINE y == Screen(Frame(reading, valid))
<1>1. /\ y \in Shots /\ Proper(y) /\ y.at = amp.at
      /\ (amp.at \in Pages => y.value = amp.edit)
  BY FrameProper
<1>2. First(amp) \notin Pages
  BY FirstFacts DEF OtherScreens
<1>3. /\ x.at = amp.at /\ amp.at # "home" /\ (amp.at \in Pages => x.value = amp.edit)
  BY <1>2 DEF Meets
<1> HIDE DEF y
<1>4. y.at = x.at /\ y.value = x.value /\ y.reading = x.reading
  BY <1>1, <1>3 DEF Proper
<1>5. y = x
  BY <1>1, <1>4 DEF Shots
<1> QED BY <1>5 DEF y

\* The keys on their way: on the line, or about to be written by the runner.
OnItsWay(L, r) == {L[i] : i \in DOMAIN L} \cup (IF r.pc = "write" THEN {r.key} ELSE {})

\* Some line that fits the amplifier has the key.
Carried(a, k) == \E K \in Seq(Sent) : Fit(a, K) /\ \E i \in DOMAIN K : K[i] = k

\* A key on its way is one of a line that fits.
LEMMA Underway ==
    ASSUME NEW L \in Seq(Sent), NEW w, NEW r, NEW a, LineFits(a, L, r, w),
           w.run.pc = "write" => w.run.key \in Sent /\ w.sess.gen = r.gen,
           NEW k \in OnItsWay(L, w.run)
    PROVE  Carried(a, k)
<1>1. CASE k \in {L[i] : i \in DOMAIN L}
  BY <1>1 DEF LineFits, Carried
<1>2. CASE w.run.pc = "write" /\ k = w.run.key
  <2> DEFINE K == Append(L, k)
  <2>1. K \in Seq(Sent) /\ Len(K) \in DOMAIN K /\ K[Len(K)] = k
    BY <1>2
  <2>2. Fit(a, K)
    BY <1>2 DEF LineFits, Counts
  <2> HIDE DEF K
  <2> QED BY <2>1, <2>2 DEF Carried
<1> QED BY <1>1, <1>2 DEF OnItsWay

\* A frame that changes nothing in the session: it is not valid, no answer is awaited, or
\* it shows the screen the key was decided on.
LEMMA SeenMeet ==
    ASSUME MInv, NEW reading \in {0, 1}, NEW valid \in BOOLEAN, NEW q,
           q.gen = rt.gen, q.lcd = Frame(reading, valid),
           \/ ~valid
           \/ ~(sess.pending /\ sess.phase \in {"discovering", "applying", "restoring"})
           \/ Screen(q.lcd) = sess.last
    PROVE  Meeting(amp, line, q, World)
<1>1. /\ World.sess = sess /\ World.run = run /\ amp \in AmpStates /\ line \in Seq(Sent)
      /\ (Holds(World) => run.key \in Sent)
  BY Types DEF MInv
<1>2. Meeting(amp, line, rt, World)
  BY DEF MInv
<1>3. /\ Proper(q.lcd) /\ q.lcd.at = amp.at /\ (amp.at \in Pages => q.lcd.value = amp.edit)
      /\ (~valid => q.lcd.mode = "unknown")
      /\ Screen(q.lcd).at = q.lcd.at /\ Screen(q.lcd).value = q.lcd.value
  BY <1>1, FrameProper DEF Screen
<1>4. Current(amp, q)
  BY <1>3 DEF Current
<1>5. ASSUME Counts(line, q, World), ~Counts(line, rt, World)
      PROVE  line = <<>> /\ Meets(amp, run.key)
  <2>1. run.pc = "check" /\ run.cur /\ line = <<>> /\ Clear(q)
    BY <1>1, <1>5 DEF Counts
  <2>2. sess.phase \in {"discovering", "applying", "restoring"} /\ valid
    BY <1>1, <1>2, <1>3, <2>1 DEF Meeting, Quiet, Clear
  <2>3. Expecting(sess, run.key) /\ run.key.at # "storing"
    <3>1. Holds(World) /\ run.key \in InPlay(line, World)
      BY <1>1, <2>1 DEF Holds, InPlay
    <3>2. CASE sess.phase = "discovering"
      <4>1. Expecting(sess, run.key) /\ Walks(amp, sess, run.key)
        BY <1>1, <1>2, <2>1, <3>1, <3>2 DEF Meeting, Walking
      <4>2. "storing" \notin {"home"} \cup Setup \cup Pages
        BY MenuDebugAssumption DEF OtherScreens, Pages, NextPage
      <4> QED BY <4>1, <4>2 DEF Walks
    <3>3. CASE sess.phase \in {"applying", "restoring"}
      BY <1>1, <1>2, <3>1, <3>3 DEF Meeting, Planned, Planning
    <3> QED BY <2>2, <3>2, <3>3
  <2>4. Screen(q.lcd) = sess.last
    BY <2>2, <2>3 DEF Expecting
  <2> QED BY <1>3, <2>1, <2>3, <2>4 DEF Meets, Expecting
<1>6. LineFits(amp, line, q, World)
  <2>1. ASSUME line = <<>>, Meets(amp, run.key), Holds(World)
        PROVE  Fit(amp, Append(line, run.key))
    <3> DEFINE M == Append(line, run.key)
    <3>1. Len(M) = 1 /\ M[1] = run.key
      BY <1>1, <2>1
    <3> HIDE DEF M
    <3> QED BY <2>1, <3>1 DEF Fit, M
  <2>2. Counts(line, q, World) => Holds(World)
    BY DEF Counts, Holds
  <2> QED BY <1>1, <1>2, <1>5, <2>1, <2>2 DEF Meeting, LineFits
<1>7. Quiet(amp, line, q, World) /\ Told(amp, line, q, World)
  BY <1>2, <1>3 DEF Meeting, Quiet, Told, Active
<1>8. Walking(amp, line, q, World)
  BY <1>2, <1>4 DEF Meeting, Walking
<1>9. Planned(amp, line, q, World)
  BY <1>1, <1>2, <1>4, <1>5 DEF Meeting, Planned
<1> QED BY <1>2, <1>3, <1>6, <1>7, <1>8, <1>9 DEF Meeting

\* A session that waits for the operator: no key is underway.
LEMMA WaitsMeet ==
    ASSUME NEW a, NEW q, NEW v, v.sess.phase \in Waiting, ~Holds(v), v.sess.gen = q.gen,
           q.gen \in Nat, Proper(q.lcd), Proper(v.sess.last),
           v.sess.phase = "armed" => ~v.sess.mayBeInMenu,
           v.sess.phase # "armed" => v.sess.mayBeInMenu /\ v.sess.lease,
           v.sess.phase # "awaiting-home" => a.at = "home" /\ q.lcd.at = "home",
           v.sess.phase \in {"awaiting-apply", "awaiting-restore"} =>
               v.sess.from.at # "storing"
    PROVE  Meeting(a, <<>>, q, v)
<1>1. ~Counts(<<>>, q, v)
  BY DEF Counts, Holds
<1>2. LineFits(a, <<>>, q, v)
  BY <1>1 DEF LineFits, Fit
<1>3. Quiet(a, <<>>, q, v)
  BY DEF Quiet, Waiting, Holds
<1>4. Told(a, <<>>, q, v)
  BY DEF Told, Waiting, Planning
<1>5. Walking(a, <<>>, q, v) /\ Planned(a, <<>>, q, v)
  BY DEF Waiting, Walking, Planned, Planning
<1> QED BY <1>2, <1>3, <1>4, <1>5 DEF Meeting

-----------------------------------------------------------------------------
(* A frame in a session that awaits it.                                    *)

\* What completeTopologyLocked leaves.
LEMMA TopologyLeaves ==
    ASSUME NEW w, Sane(w), NEW home \in BOOLEAN
    PROVE  LET v == CompleteTopology(w, home)
           IN  /\ v.sess.phase = IF home THEN "armed" ELSE "awaiting-home"
               /\ v.sess.lease = ~home /\ v.sess.mayBeInMenu = ~home
               /\ v.sess.last = NoScreen /\ v.sess.gen = w.sess.gen
               /\ v.run.pc = w.run.pc /\ v.run.cur = FALSE
<1> DEFINE phase == IF home THEN "armed" ELSE "awaiting-home"
           x == [w EXCEPT !.reports = @ \cup {Report(w, "topology")},
                   !.sess.completed = @ \cup {w.sess.cap}, !.sess.cap = "none",
                   !.sess.phase = phase, !.sess.lease = ~home, !.sess.mayBeInMenu = ~home]
           y == [x EXCEPT !.sess.last = NoScreen, !.sess.seen = {}, !.sess.acted = TRUE,
                          !.sess.pending = FALSE, !.sess.exiting = FALSE]
<1>1. /\ DOMAIN x = {"sess", "reports", "run"} /\ x.run = w.run
      /\ x.sess = [w.sess EXCEPT !.completed = @ \cup {w.sess.cap}, !.cap = "none",
                                 !.phase = phase, !.lease = ~home, !.mayBeInMenu = ~home]
  <2> HIDE DEF phase
  <2> QED BY DEF Sane
<1>2. /\ x.sess.phase = phase /\ x.sess.lease = ~home /\ x.sess.mayBeInMenu = ~home
      /\ x.sess.gen = w.sess.gen /\ DOMAIN x.sess = DOMAIN w.sess
  <2> HIDE DEF phase, x
  <2> QED BY <1>1 DEF Sane, Sessions
<1>3. /\ y.run = w.run /\ y.sess.phase = phase /\ y.sess.lease = ~home
      /\ y.sess.mayBeInMenu = ~home /\ y.sess.gen = w.sess.gen /\ y.sess.last = NoScreen
      /\ DOMAIN y = {"sess", "reports", "run"}
  <2> HIDE DEF phase, x
  <2> QED BY <1>1, <1>2 DEF Sane, Sessions
<1>4. CompleteTopology(w, home) = Bump(y)
  BY DEF CompleteTopology
<1>5. /\ Bump(y).sess = y.sess /\ Bump(y).run.pc = w.run.pc /\ Bump(y).run.cur = FALSE
  <2> HIDE DEF y
  <2> QED BY <1>3 DEF Bump, Sane, Runs
<1> HIDE DEF y
<1> QED BY <1>3, <1>4, <1>5

\* What bumpLocked leaves.
LEMMA BumpLeaves ==
    ASSUME NEW w, DOMAIN w = {"sess", "reports", "run"}, w.run \in Runs
    PROVE  /\ Bump(w).sess = w.sess /\ Bump(w).reports = w.reports
           /\ Bump(w).run.pc = w.run.pc /\ Bump(w).run.key = w.run.key
           /\ Bump(w).run.cur = FALSE
BY DEF Bump, Runs

\* Nothing is underway that is not for the screen that the session remembers.
LEMMA NoneUnderway ==
    ASSUME MInv, Active(sess), NEW reading \in {0, 1}, NEW valid \in BOOLEAN,
           Screen(Frame(reading, valid)) # sess.last, sess.phase = "discovering"
    PROVE  \A k \in OnItsWay(line, run) : k.at = "home" \/ amp.at = "elsewhere"
<1>1. /\ World.sess = sess /\ World.run = run /\ amp \in AmpStates /\ line \in Seq(Sent)
      /\ (Holds(World) => run.key \in Sent) /\ sess.last \in Shots
  BY Types DEF MInv, Sessions
<1>2. Meeting(amp, line, rt, World)
  BY DEF MInv
<1>3. run.pc = "write" => run.key \in Sent /\ sess.gen = rt.gen
  BY <1>1, <1>2 DEF Holds, Meeting, Quiet
<1> SUFFICES ASSUME NEW k \in OnItsWay(line, run), k.at # "home", amp.at # "elsewhere"
             PROVE  FALSE
  OBVIOUS
<1>4. PICK K \in Seq(Sent) : Fit(amp, K) /\ \E i \in DOMAIN K : K[i] = k
  <2> DEFINE w == World
  <2>1. /\ LineFits(amp, line, rt, w)
        /\ w.run.pc = "write" => w.run.key \in Sent /\ w.sess.gen = rt.gen
        /\ k \in OnItsWay(line, w.run)
    BY <1>1, <1>2, <1>3 DEF Meeting
  <2> HIDE DEF w
  <2>2. Carried(amp, k)
    BY <1>1, <2>1, Underway
  <2> QED BY <2>2 DEF Carried
<1>5. Meets(amp, k) \/ (k.at = First(amp) /\ amp.at = First(amp))
  <2>1. PICK i \in DOMAIN K : K[i] = k
    BY <1>4
  <2>2. Len(K) = 1 => i = 1
    OBVIOUS
  <2> QED BY <1>4, <2>1, <2>2 DEF Fit, FromHome
<1>6. k \in InPlay(line, World)
  BY <1>1 DEF InPlay, Holds, OnItsWay
<1>7. Walks(amp, sess, k)
  BY <1>1, <1>2, <1>6 DEF Meeting, Walking
<1>8. Expecting(sess, k)
  BY <1>7 DEF Walks
<1>9. Proper(sess.last)
  BY <1>1, <1>2 DEF Meeting
<1> QED BY <1>1, <1>5, <1>8, <1>9, ShownMeanwhile DEF Expecting

\* A frame that answers a discovery key.
LEMMA DiscoveryFrameMeet ==
    ASSUME MInv, NEW reading \in {0, 1}, NEW valid \in BOOLEAN, NEW q,
           q.gen = rt.gen, q.lcd = Frame(reading, valid),
           sess.phase = "discovering", sess.pending
    PROVE  Meeting(amp, line, q, DiscoveryFrame(World, q.lcd))
<1> DEFINE lcd == q.lcd
           w == World
           s == [sess EXCEPT !.last = Screen(lcd)]
           newer == [w EXCEPT !.sess = s]
           t == [s EXCEPT !.seen = @ \cup {Screen(lcd)}, !.pending = FALSE]
           v == [w EXCEPT !.sess = t]
<1>1. /\ Sane(w) /\ w.sess = sess /\ w.run = run /\ amp \in AmpStates /\ line \in Seq(Sent)
      /\ sess \in Sessions /\ rt.gen \in Nat /\ sess.gen \in Nat
      /\ DOMAIN w = {"sess", "reports", "run"}
  BY Types DEF MInv, Runtimes, Sessions, Sane
<1>2. Meeting(amp, line, rt, w) /\ Active(sess)
  BY DEF MInv, Active, Terminal
<1>3. /\ lcd \in Lcds /\ Screen(lcd) \in Shots /\ Proper(lcd) /\ Proper(Screen(lcd))
      /\ lcd.at = amp.at /\ Screen(lcd).at = amp.at
      /\ (amp.at \in Pages => lcd.value = amp.edit)
  BY <1>1, FrameProper
<1>4. /\ s.gen = sess.gen /\ s.mayBeInMenu = sess.mayBeInMenu /\ s.last = Screen(lcd)
      /\ s.phase = "discovering" /\ s.cap \in Capabilities /\ s \in Sessions
      /\ s.lease = sess.lease /\ s.exiting = sess.exiting /\ s.seen = sess.seen
  BY <1>1, <1>3 DEF Sessions, Sane, InPlan, Running
<1>5. Sane(newer) /\ newer.sess = s /\ newer.run = run
  <2>1. InPlan(s) /\ s.phase # "aborted"
    <3> HIDE DEF s
    <3> QED BY <1>4 DEF InPlan
  <2> HIDE DEF s, w
  <2> QED BY <1>1, <1>4, <2>1, ChangeSane
<1>6. LET left == DiscoveryFrame(w, lcd)
      IN  \/ Screen(lcd) = sess.last /\ left = w
          \/ left = Fail(newer)
          \/ Screen(lcd) # sess.last /\ sess.exiting /\ Home(lcd)
             /\ left = CompleteTopology(newer, TRUE)
          \/ Screen(lcd) # sess.last /\ ~sess.exiting /\ left = Bump(v)
  <2>1. newer = [w EXCEPT !.sess.last = Screen(lcd)]
    <3> HIDE DEF w
    <3> QED BY <1>1
  <2>2. v = [newer EXCEPT !.sess.seen = w.sess.seen \cup {Screen(lcd)}, !.sess.pending = FALSE]
    <3>1. t = [newer.sess EXCEPT !.seen = w.sess.seen \cup {Screen(lcd)}, !.pending = FALSE]
      <4> HIDE DEF w, s, newer, lcd
      <4> QED BY <1>1, <1>4, <1>5
    <3> HIDE DEF w, s, t, lcd
    <3> QED BY <1>1, <1>4, <3>1
  <2>3. newer.sess.seen = w.sess.seen
    <3> HIDE DEF w, s, newer, lcd
    <3> QED BY <1>1, <1>4, <1>5
  <2> HIDE DEF newer, v, w, s, t, lcd
  <2> QED BY <1>1, <2>1, <2>2, <2>3 DEF DiscoveryFrame
<1> HIDE DEF w, s, newer, t, v, lcd
<1>7. ASSUME Screen(lcd) = sess.last
      PROVE  Meeting(amp, line, q, w)
  BY <1>7, SeenMeet DEF w, lcd
<1>8. Meeting(amp, line, q, Fail(newer))
  <2>1. Stops(newer, Fail(newer))
    BY <1>3, <1>4, <1>5, FailStops
  <2>2. Stops(w, Fail(newer))
    BY <1>1, <1>4, <1>5, <2>1 DEF Stops
  <2> QED BY <1>1, <1>2, <1>3, <2>2, StopsMeet DEF lcd
<1>9. ASSUME Screen(lcd) # sess.last, sess.exiting, Home(lcd)
      PROVE  Meeting(amp, line, q, CompleteTopology(newer, TRUE))
  <2> DEFINE u == CompleteTopology(newer, TRUE)
  <2>1. amp.at = "home"
    BY <1>3, <1>9 DEF Home
  <2>2. \A k \in InPlay(line, w) : k.at # "home"
    <3>1. "home" \notin Pages
      BY DEF Pages, NextPage
    <3> QED BY <1>1, <1>2, <1>9, <3>1 DEF Meeting, Walking, Walks
  <2>3. OnItsWay(line, run) = {}
    <3>1. OnItsWay(line, run) \subseteq InPlay(line, w)
      BY <1>1 DEF InPlay, Holds, OnItsWay
    <3>2. \A k \in OnItsWay(line, run) : k.at = "home" \/ amp.at = "elsewhere"
      BY <1>2, <1>9, NoneUnderway DEF lcd
    <3> QED BY <2>1, <2>2, <3>1, <3>2
  <2>4. line = <<>> /\ run.pc # "write"
    <3>1. 1 \notin DOMAIN line
      BY <2>3 DEF OnItsWay
    <3>2. line = <<>>
      BY <1>1, <3>1
    <3> QED BY <2>3, <3>2 DEF OnItsWay
  <2>5. /\ u.sess.phase = "armed" /\ ~u.sess.mayBeInMenu /\ u.sess.last = NoScreen
        /\ u.sess.gen = sess.gen /\ u.run.pc = run.pc /\ u.run.cur = FALSE
    BY <1>4, <1>5, TopologyLeaves
  <2> HIDE DEF u
  <2>6. ~Holds(u) /\ u.sess.gen = q.gen /\ Proper(u.sess.last)
    BY <1>1, <1>2, <2>4, <2>5 DEF Holds, Meeting, Quiet, Proper, NoScreen
  <2>7. Meeting(amp, <<>>, q, u)
    BY <1>1, <1>3, <2>1, <2>5, <2>6, WaitsMeet DEF Waiting, lcd
  <2> QED BY <2>4, <2>7 DEF u
<1>10. ASSUME Screen(lcd) # sess.last, ~sess.exiting
       PROVE  Meeting(amp, line, q, Bump(v))
  <2> DEFINE u == Bump(v)
  <2>1. /\ u.sess = t /\ u.run.pc = run.pc /\ u.run.key = run.key /\ u.run.cur = FALSE
        /\ u.reports = w.reports
    <3>1. DOMAIN v = {"sess", "reports", "run"} /\ v.sess = t /\ v.run = run
          /\ v.reports = w.reports /\ v.run \in Runs
      BY <1>1 DEF v, Sane
    <3> QED BY <3>1, BumpLeaves
  <2> HIDE DEF u
  <2>2. /\ t.phase = "discovering" /\ ~t.pending /\ ~t.exiting /\ t.last = Screen(lcd)
        /\ t.gen = sess.gen /\ t.mayBeInMenu = sess.mayBeInMenu /\ t.lease = sess.lease
    BY <1>1, <1>4, <1>10 DEF t, Sessions
  <2>3. /\ Holds(u) => Holds(w) /\ run.pc = "write"
        /\ Counts(line, q, u) => Counts(line, rt, w)
        /\ InPlay(line, u) = OnItsWay(line, run)
        /\ InPlay(line, u) \subseteq InPlay(line, w)
    BY <1>1, <2>1, <2>2 DEF Holds, Counts, InPlay, OnItsWay
  <2>4. LineFits(amp, line, q, u)
    BY <1>1, <1>2, <2>1, <2>3 DEF Meeting, LineFits
  <2>5. Quiet(amp, line, q, u)
    BY <1>1, <1>2, <2>1, <2>2 DEF Meeting, Quiet, Active, Terminal, Waiting
  <2>6. Told(amp, line, q, u)
    BY <1>1, <1>2, <1>3, <2>1, <2>2, <2>3 DEF Meeting, Told, Active, Terminal, Waiting, Planning, lcd
  <2>7. Walking(amp, line, q, u)
    <3>1. Current(amp, q)
      BY <1>3 DEF Current, lcd
    <3>2. ASSUME NEW k \in InPlay(line, u) PROVE Walks(amp, t, k)
      <4>1. Walks(amp, sess, k)
        BY <1>1, <1>2, <2>3 DEF Meeting, Walking
      <4>2. k.at = "home" \/ amp.at = "elsewhere"
        BY <1>2, <1>10, <2>3, NoneUnderway DEF lcd
      <4> QED BY <2>2, <4>1, <4>2 DEF Walks
    <3> QED BY <2>1, <2>2, <3>1, <3>2 DEF Walking
  <2>8. Planned(amp, line, q, u)
    BY <2>1, <2>2 DEF Planned, Planning
  <2> QED BY <1>3, <2>1, <2>2, <2>4, <2>5, <2>6, <2>7, <2>8 DEF Meeting, u, lcd
<1> QED BY <1>6, <1>7, <1>8, <1>9, <1>10 DEF w, lcd

\* A plan leads through setup screens and pages, and home with its last step.
Leads(x) ==
    /\ x \in Seq(PlanSteps) /\ Len(x) > 0 /\ x[Len(x)].at = "home"
    /\ \A i \in 1..(Len(x) - 1) : x[i].at \in Setup \cup Pages

LEMMA LeadsHome ==
    ASSUME NEW x \in Seq(PlanSteps), NEW y, Leads(y), \A i \in DOMAIN x : x[i].at \in Setup
    PROVE  Leads(x \o y)
<1> DEFINE z == x \o y
<1>1. /\ z \in Seq(PlanSteps) /\ Len(z) = Len(x) + Len(y) /\ Len(y) \in Nat /\ Len(y) > 0
      /\ Len(x) \in Nat
      /\ \A i \in 1..Len(z) : z[i] = IF i <= Len(x) THEN x[i] ELSE y[i - Len(x)]
  BY DEF Leads
<1> HIDE DEF z
<1>2. z[Len(z)] = y[Len(y)]
  BY <1>1
<1>3. ASSUME NEW i \in 1..(Len(z) - 1) PROVE z[i].at \in Setup \cup Pages
  <2>1. CASE i <= Len(x)
    BY <1>1, <2>1
  <2>2. CASE i > Len(x)
    <3>1. i - Len(x) \in 1..(Len(y) - 1) /\ z[i] = y[i - Len(x)]
      BY <1>1, <2>2
    <3> QED BY <3>1 DEF Leads
  <2> QED BY <1>1, <2>1, <2>2
<1> QED BY <1>1, <1>2, <1>3 DEF Leads, z

LEMMA EntryLeads ==
    ASSUME NEW m \in Models, NEW cap \in Capabilities,
           \E i \in DOMAIN SetupKeys[m] : SetupKeys[m][i] = SetupEntry[cap]
    PROVE  /\ ToEntry(m, cap) \in Seq(PlanSteps)
           /\ \A i \in DOMAIN ToEntry(m, cap) : ToEntry(m, cap)[i].at \in Setup
<1> DEFINE keys == SetupKeys[m]
           entry == CHOOSE i \in DOMAIN keys : keys[i] = SetupEntry[cap]
<1>1. entry \in DOMAIN keys
  OBVIOUS
<1>2. keys \in Seq(STRING) /\ DOMAIN keys = 1..Len(keys) /\ entry \in Nat
  BY <1>1, MenuDebugAssumption
<1>3. \A i \in DOMAIN keys : keys[i] \in Setup
  BY DEF Setup
<1>4. ToEntry(m, cap) = [i \in 1..entry |-> Step(IF i = 1 THEN "set" ELSE "right", keys[i], "none")]
  BY DEF ToEntry
<1> HIDE DEF entry, keys
<1>5. ASSUME NEW i \in 1..entry
      PROVE  Step(IF i = 1 THEN "set" ELSE "right", keys[i], "none").at \in Setup
  <2>1. i \in DOMAIN keys
    BY <1>1, <1>2
  <2> QED BY <1>3, <2>1 DEF Step
<1> QED BY <1>4, <1>5, ToEntryTyped

LEMMA StepsLead ==
    ASSUME NEW s \in Sessions, s.phase \in {"applying", "restoring"}
    PROVE  Leads(Steps(s))
<1> DEFINE o == s.plan.original
           c == Flip(o)
           Value == Values \cup {"none", "any"}
<1>1. o \in Value /\ c \in Value /\ "any" \in Value
  BY DEF Sessions, Plans, Flip, Values
<1>2. \A key \in {"set", "right"}, at \in Screens, v \in Value :
          Step(key, at, v) \in PlanSteps /\ Step(key, at, v).at = at
  BY DEF Step, PlanSteps
<1>3. {"fan", "save", "scale", "thirdSave", "quiet", "normal", "bankA", "bankB",
       "bankSave"} \subseteq Pages /\ Pages \subseteq Screens /\ "home" \in Screens
  BY DEF Screens, OtherScreens, Pages, NextPage
<1>4. \A x \in {ToEntry("first", "fan"), ToEntry("third", "fan"), ToEntry("first", "bank")} :
          x \in Seq(PlanSteps) /\ \A i \in DOMAIN x : x[i].at \in Setup
  BY EntryLeads, MenuDebugAssumption DEF Models, Capabilities, SetupEntry
<1> HIDE DEF o, c, Value
<1>5. Leads(FirstFan(o, c).applying) /\ Leads(FirstFan(o, c).restoring)
  <2>1. Leads(<<Step("set", "fan", c), Step("right", "save", c), Step("set", "home", "any")>>)
    BY <1>1, <1>2, <1>3 DEF Leads
  <2>2. Leads(<<Step("set", "scale", c), Step("right", "fan", c), Step("set", "fan", o),
                Step("right", "save", o), Step("set", "home", "any")>>)
    BY <1>1, <1>2, <1>3 DEF Leads
  <2> QED BY <1>4, <2>1, <2>2, LeadsHome DEF FirstFan
<1>6. Leads(ThirdFan(o, c).applying) /\ Leads(ThirdFan(o, c).restoring)
  <2>1. Leads(<<Step("right", "thirdSave", o), Step("right", "quiet", o),
                Step("set", "quiet", c), Step("right", "normal", c),
                Step("right", "thirdSave", c), Step("set", "home", "any")>>)
    BY <1>1, <1>2, <1>3 DEF Leads
  <2>2. Leads(<<Step("set", "quiet", c), Step("right", "normal", c), Step("set", "normal", o),
                Step("right", "thirdSave", o), Step("set", "home", "any")>>)
    BY <1>1, <1>2, <1>3 DEF Leads
  <2> QED BY <1>4, <2>1, <2>2, LeadsHome DEF ThirdFan
<1>7. Leads(FirstBank(o, c).applying) /\ Leads(FirstBank(o, c).restoring)
  <2>1. Leads(<<Step("right", "bankB", o), Step("set", "bankB", c),
                Step("right", "bankSave", c), Step("set", "home", c)>>)
    BY <1>1, <1>2, <1>3 DEF Leads
  <2>2. Leads(<<Step("set", "bankB", c), Step("right", "bankSave", c),
                Step("right", "bankA", c), Step("set", "bankA", o),
                Step("right", "bankB", o), Step("right", "bankSave", o),
                Step("set", "home", o)>>)
    BY <1>1, <1>2, <1>3 DEF Leads
  <2> QED BY <1>4, <2>1, <2>2, LeadsHome DEF FirstBank
<1> QED BY <1>5, <1>6, <1>7 DEF Steps, o, c

\* A frame that answers a key of a plan.
LEMMA PlannedFrameMeet ==
    ASSUME MInv, NEW reading \in {0, 1}, NEW valid \in BOOLEAN, NEW q,
           q.gen = rt.gen, q.lcd = Frame(reading, valid),
           sess.phase \in {"applying", "restoring"}, sess.pending
    PROVE  Meeting(amp, line, q, PlannedFrame(World, q.lcd))
<1> DEFINE lcd == q.lcd
           w == World
           steps == Steps(sess)
           step == steps[sess.step]
           end == sess.step = Len(steps)
           s == [sess EXCEPT !.last = Screen(lcd)]
           newer == [w EXCEPT !.sess = s]
           next == IF ~end THEN sess.phase
                   ELSE IF sess.phase = "applying" THEN "awaiting-apply"
                                                   ELSE "awaiting-restore"
           from == IF end THEN NoScreen ELSE Screen(lcd)
           t == [sess EXCEPT !.pending = FALSE, !.step = sess.step + 1, !.from = from,
                             !.last = NoScreen, !.phase = next]
           v == [w EXCEPT !.sess = t]
<1>1. /\ Sane(w) /\ w.sess = sess /\ w.run = run /\ amp \in AmpStates /\ line \in Seq(Sent)
      /\ sess \in Sessions /\ rt.gen \in Nat /\ sess.gen \in Nat /\ run \in Runs
      /\ DOMAIN w = {"sess", "reports", "run"}
  BY Types DEF MInv, Runtimes, Sessions, Sane
<1>2. Meeting(amp, line, rt, w) /\ Active(sess) /\ sess.phase \in Planning
  BY DEF MInv, Active, Terminal, Planning
<1>3. /\ lcd \in Lcds /\ Screen(lcd) \in Shots /\ Proper(lcd) /\ Proper(Screen(lcd))
      /\ lcd.at = amp.at /\ Screen(lcd).at = amp.at
      /\ (amp.at \in Pages => lcd.value = amp.edit)
  BY <1>1, FrameProper
<1>4. /\ s.gen = sess.gen /\ s.mayBeInMenu = sess.mayBeInMenu /\ s.last = Screen(lcd)
      /\ s.phase = sess.phase /\ s.cap = sess.cap /\ s \in Sessions
      /\ s.lease = sess.lease /\ s.pending /\ s.step = sess.step /\ s.plan = sess.plan
  BY <1>1, <1>3 DEF Sessions
<1>5. /\ Leads(steps) /\ sess.step \in DOMAIN steps /\ sess.cap \in Capabilities
      /\ Steps(s) = steps
  <2>1. InPlan(sess)
    BY <1>1 DEF Sane
  <2> HIDE DEF s
  <2> QED BY <1>1, <1>4, <2>1, StepsLead, SamePlan DEF InPlan, Running
<1>6. /\ Sane(newer) /\ newer.sess = s /\ newer.run = run /\ newer.reports = w.reports
      /\ DOMAIN newer = {"sess", "reports", "run"}
  <2>1. InPlan(s) /\ s.phase # "aborted"
    <3> HIDE DEF s, steps
    <3> QED BY <1>4, <1>5 DEF InPlan, steps
  <2> HIDE DEF s, w
  <2> QED BY <1>1, <1>4, <2>1, ChangeSane
<1>7. LET left == PlannedFrame(w, lcd)
      IN  \/ Screen(lcd) = sess.last /\ left = w
          \/ Screen(lcd) # sess.last /\ end /\ lcd.at = "storing" /\ left = Bump(newer)
          \/ left = Fail(newer)
          \/ Screen(lcd) # sess.last /\ Expected(step, lcd) /\ left = Bump(v)
  <2>1. newer = [w EXCEPT !.sess.last = Screen(lcd)]
    <3> HIDE DEF w
    <3> QED BY <1>1
  <2>2. v = [w EXCEPT
                 !.sess.pending = FALSE, !.sess.step = @ + 1,
                 !.sess.from = IF end THEN NoScreen ELSE Screen(lcd), !.sess.last = NoScreen,
                 !.sess.phase = IF ~end THEN @ ELSE IF @ = "applying" THEN "awaiting-apply"
                                                              ELSE "awaiting-restore"]
    <3> HIDE DEF end, w
    <3> QED BY <1>1 DEF Sane, Sessions
  <2> HIDE DEF newer, v, w, lcd
  <2> QED BY <1>1, <2>1, <2>2 DEF PlannedFrame
<1> HIDE DEF w, s, newer, next, from, t, v, lcd, steps
<1>8. ASSUME Screen(lcd) = sess.last
      PROVE  Meeting(amp, line, q, w)
  BY <1>8, SeenMeet DEF w, lcd
<1>9. Meeting(amp, line, q, Fail(newer))
  <2>1. Stops(newer, Fail(newer))
    BY <1>3, <1>4, <1>6, FailStops
  <2>2. Stops(w, Fail(newer))
    BY <1>1, <1>4, <1>6, <2>1 DEF Stops
  <2>3. sess.phase # "idle"
    OBVIOUS
  <2> QED BY <1>1, <1>2, <1>3, <2>2, <2>3, StopsMeet DEF lcd
<1>10. ASSUME Screen(lcd) # sess.last, amp.at = "storing" \/ Expected(step, lcd)
       PROVE  line = <<>> /\ run.pc # "write"
  <2>1. ASSUME NEW k, Meets(amp, k), Expecting(sess, k) PROVE FALSE
    <3>1. Expected(step, lcd) /\ step.at = amp.at
      BY <1>3, <1>10, <2>1 DEF Meets, Expected
    <3>2. Proper(sess.last) /\ sess.last \in Shots
      BY <1>1, <1>2 DEF Meeting, Sessions
    <3>3. CASE k.at # "home"
      BY <1>1, <1>10, <2>1, <3>2, <3>3, ShownMeanwhile DEF Expecting, lcd
    <3>4. CASE k.at = "home"
      <4>1. step.at = "home" /\ sess.last.at = "home" /\ sess.pending
        BY <2>1, <3>1, <3>4 DEF Meets, Expecting
      <4>2. "home" \notin Setup \cup Pages
        BY MenuDebugAssumption DEF OtherScreens, Pages, NextPage
      <4>3. end
        <5>1. Len(steps) \in Nat /\ sess.step \in 1..Len(steps)
          BY <1>5 DEF Leads
        <5>2. sess.step \in 1..(Len(steps) - 1) => step.at \in Setup \cup Pages
          BY <1>5 DEF Leads
        <5> QED BY <4>1, <4>2, <5>1, <5>2
      <4>4. sess.last.at # "home"
        BY <1>1, <1>2, <4>1, <4>3 DEF Meeting, Planned, steps
      <4> QED BY <4>1, <4>4
    <3> QED BY <3>3, <3>4
  <2>2. line = <<>>
    <3>1. line # <<>> => 1 \in DOMAIN line
      BY <1>1
    <3>2. line # <<>> => Meets(amp, line[1]) /\ Expecting(sess, line[1])
      BY <1>1, <1>2, <3>1 DEF Meeting, Planned, InPlay
    <3> QED BY <2>1, <3>2
  <2>3. run.pc # "write"
    <3>1. run.pc = "write" => Counts(line, rt, w) /\ run.key \in InPlay(line, w)
      BY <1>1, <1>2 DEF Counts, Meeting, Quiet, InPlay, Holds
    <3>2. run.pc = "write" => Meets(amp, run.key) /\ Expecting(sess, run.key)
      BY <1>1, <1>2, <3>1 DEF Meeting, Planned
    <3> QED BY <2>1, <3>2
  <2> QED BY <2>2, <2>3
<1>11. Current(amp, q)
  BY <1>3 DEF Current, lcd
<1>12. sess.mayBeInMenu /\ sess.lease /\ sess.gen = q.gen
  BY <1>1, <1>2 DEF Meeting, Told, Quiet, Planning
<1>13. ASSUME NEW u, line = <<>>, run.pc # "write", u.run.pc = run.pc, u.run.cur = FALSE,
              u.sess.phase = sess.phase, u.sess.gen = sess.gen, u.sess.mayBeInMenu,
              u.sess.lease, Proper(u.sess.last),
              ~u.sess.pending => u.sess.from.at # "storing",
              u.sess.pending => u.sess.last.at # "home"
       PROVE  Meeting(amp, line, q, u)
  <2>1. ~Holds(u) /\ ~Counts(line, q, u) /\ InPlay(line, u) = {}
    BY <1>13 DEF Holds, Counts, InPlay
  <2>2. LineFits(amp, line, q, u)
    BY <1>13, <2>1 DEF LineFits, Fit
  <2>3. Quiet(amp, line, q, u) /\ Told(amp, line, q, u)
    BY <1>1, <1>12, <1>13 DEF Quiet, Told, Waiting
  <2>4. Walking(amp, line, q, u)
    BY <1>13 DEF Walking
  <2>5. Planned(amp, line, q, u)
    BY <1>11, <1>13, <2>1 DEF Planned
  <2> QED BY <1>3, <1>13, <2>2, <2>3, <2>4, <2>5 DEF Meeting, lcd
<1>14. ASSUME Screen(lcd) # sess.last, end, lcd.at = "storing"
       PROVE  Meeting(amp, line, q, Bump(newer))
  <2> DEFINE u == Bump(newer)
  <2>1. /\ u.sess = s /\ u.run.pc = run.pc /\ u.run.cur = FALSE
    BY <1>1, <1>6, BumpLeaves
  <2> HIDE DEF u
  <2>2. line = <<>> /\ run.pc # "write" /\ Screen(lcd).at # "home"
    BY <1>3, <1>10, <1>14
  <2> QED BY <1>3, <1>4, <1>12, <1>13, <2>1, <2>2 DEF u
<1>15. ASSUME Screen(lcd) # sess.last, Expected(step, lcd)
       PROVE  Meeting(amp, line, q, Bump(v))
  <2> DEFINE u == Bump(v)
  <2>1. /\ u.sess = t /\ u.run.pc = run.pc /\ u.run.cur = FALSE
    <3>1. DOMAIN v = {"sess", "reports", "run"} /\ v.sess = t /\ v.run = run
          /\ v.run \in Runs
      BY <1>1 DEF v
    <3> QED BY <3>1, BumpLeaves
  <2> HIDE DEF u
  <2>2. line = <<>> /\ run.pc # "write"
    BY <1>10, <1>15
  <2>3. /\ t.gen = sess.gen /\ t.mayBeInMenu = sess.mayBeInMenu /\ t.lease = sess.lease
        /\ ~t.pending /\ t.from = from /\ t.last = NoScreen /\ t.phase = next
    BY <1>1 DEF t, Sessions
  <2>4. Proper(NoScreen) /\ step.at = amp.at
    BY <1>3, <1>15 DEF Proper, NoScreen, Expected
  <2>5. CASE ~end
    <3>1. t.phase = sess.phase /\ t.from = Screen(lcd)
      BY <2>3, <2>5 DEF next, from
    <3>2. step.at \in Setup \cup Pages
      <4>1. Len(steps) \in Nat /\ sess.step \in 1..Len(steps)
        BY <1>5 DEF Leads
      <4>2. sess.step \in 1..(Len(steps) - 1)
        BY <2>5, <4>1
      <4> QED BY <1>5, <4>2 DEF Leads
    <3>3. Screen(lcd).at # "storing"
      BY <1>3, <2>4, <3>2, MenuDebugAssumption DEF OtherScreens, Pages, NextPage
    <3> QED BY <1>12, <1>13, <2>1, <2>2, <2>3, <2>4, <3>1, <3>3 DEF u
  <2>6. CASE end
    <3>1. t.phase \in {"awaiting-apply", "awaiting-restore"}
      BY <2>3, <2>6 DEF next
    <3>2. amp.at = "home"
      BY <1>5, <2>4, <2>6 DEF Leads
    <3>3. ~Holds(u)
      BY <2>1, <2>2 DEF Holds
    <3>4. Meeting(amp, <<>>, q, u)
      <4>1. /\ u.sess.phase \in Waiting \ {"armed"} /\ u.sess.gen = q.gen /\ q.gen \in Nat
            /\ Proper(q.lcd) /\ Proper(u.sess.last) /\ u.sess.mayBeInMenu /\ u.sess.lease
            /\ q.lcd.at = "home" /\ u.sess.from = NoScreen
        BY <1>1, <1>3, <1>12, <2>1, <2>3, <2>4, <2>6, <3>1, <3>2
           DEF Waiting, lcd, from
      <4> QED BY <3>2, <3>3, <4>1, WaitsMeet DEF NoScreen
    <3> QED BY <2>2, <3>4 DEF u
  <2> QED BY <2>5, <2>6
<1> QED BY <1>7, <1>8, <1>9, <1>14, <1>15 DEF w, lcd

\* A display frame.
LEMMA ObserveDisplayMeet ==
    ASSUME MInv, NEW reading \in {0, 1}, NEW valid \in BOOLEAN, ObserveDisplay(reading, valid)
    PROVE  Meeting(amp', line', rt', World')
<1> DEFINE lcd == Frame(reading, valid)
           s == [sess EXCEPT !.phase = "armed", !.lease = FALSE, !.mayBeInMenu = FALSE]
           u == [World EXCEPT !.sess = s]
           q == rt'
<1>1. /\ Sane(World) /\ World.sess = sess /\ World.run = run /\ amp \in AmpStates
      /\ sess \in Sessions /\ rt \in Runtimes /\ rt.gen \in Nat /\ sess.gen \in Nat
      /\ DOMAIN World = {"sess", "reports", "run"} /\ run \in Runs
  BY Types DEF MInv, Runtimes, Sessions, Sane
<1>2. Meeting(amp, line, rt, World) /\ Proper(sess.last)
  BY <1>1 DEF MInv, Meeting
<1>3. /\ q.gen = rt.gen /\ q.lcd = lcd /\ q.shown = "fresh" /\ amp' = amp /\ line' = line
  BY <1>1 DEF ObserveDisplay, Runtimes
<1>4. Proper(lcd) /\ lcd.at = amp.at /\ lcd \in Lcds
  BY <1>1, FrameProper
<1>5. u = [World EXCEPT !.sess.phase = "armed", !.sess.lease = FALSE,
                        !.sess.mayBeInMenu = FALSE]
  BY <1>1
<1> HIDE DEF u, s
<1>6. \/ /\ \/ ~valid
            \/ ~(sess.pending /\ sess.phase \in {"discovering", "applying", "restoring"})
         /\ Becomes(World)
      \/ Active(sess) /\ Becomes(Fail(World))
      \/ sess.phase = "awaiting-home" /\ Home(lcd) /\ Becomes(Bump(u))
      \/ sess.phase = "discovering" /\ sess.pending /\ Becomes(DiscoveryFrame(World, lcd))
      \/ sess.phase \in {"applying", "restoring"} /\ sess.pending
         /\ Becomes(PlannedFrame(World, lcd))
  <2> HIDE DEF lcd
  <2> QED BY <1>5 DEF ObserveDisplay, lcd
<1> HIDE DEF lcd, q
<1>7. ASSUME NEW left, Becomes(left), Sane(left), Meeting(amp, line, q, left)
      PROVE  Meeting(amp', line', rt', World')
  BY <1>3, <1>7, BecomesIs DEF q
<1>8. ASSUME \/ ~valid
             \/ ~(sess.pending /\ sess.phase \in {"discovering", "applying", "restoring"}),
             Becomes(World)
      PROVE  Meeting(amp', line', rt', World')
  <2>1. Meeting(amp, line, q, World)
    BY <1>3, <1>8, SeenMeet DEF lcd
  <2> QED BY <1>1, <1>7, <1>8, <2>1
<1>9. CASE Active(sess) /\ Becomes(Fail(World))
  <2>1. Stops(World, Fail(World)) /\ Sane(Fail(World)) /\ sess.phase # "idle"
    BY <1>1, <1>2, <1>9, FailStops, FailSane DEF Active
  <2>2. Meeting(amp, line, q, Fail(World))
    BY <1>1, <1>2, <1>3, <1>4, <2>1, StopsMeet
  <2> QED BY <1>7, <1>9, <2>1, <2>2
<1>10. CASE sess.phase = "awaiting-home" /\ Home(lcd) /\ Becomes(Bump(u))
  <2> DEFINE v == Bump(u)
  <2>1. DOMAIN u = {"sess", "reports", "run"} /\ u.sess = s /\ u.run = run
    BY <1>1 DEF u
  <2>2. v.sess = s /\ v.run.pc = run.pc /\ v.run.cur = FALSE
    BY <1>1, <2>1, BumpLeaves
  <2>3. s \in Sessions /\ s.phase = "armed" /\ ~s.mayBeInMenu /\ s.gen = sess.gen
        /\ s.last = sess.last
    BY <1>1 DEF s, Sessions, Phases
  <2>4. Sane(v)
    <3>1. InPlan(s)
      BY <2>3 DEF InPlan, Running
    <3>2. Sane(u)
      BY <1>1, <2>3, <3>1, ChangeSane DEF u
    <3> QED BY <3>2, BumpSane
  <2>5. line = <<>> /\ run.pc # "write" /\ sess.gen = rt.gen
    BY <1>1, <1>2, <1>10 DEF Meeting, Quiet, Holds, Waiting, Active, Terminal
  <2> HIDE DEF v
  <2>6. /\ ~Holds(v) /\ v.sess.phase \in Waiting /\ v.sess.phase = "armed"
        /\ ~v.sess.mayBeInMenu /\ v.sess.gen = q.gen /\ Proper(v.sess.last)
        /\ amp.at = "home" /\ q.lcd.at = "home"
    BY <1>2, <1>3, <1>4, <1>10, <2>2, <2>3, <2>5 DEF Holds, Waiting, Home
  <2>7. Meeting(amp, <<>>, q, v)
    BY <1>1, <1>3, <1>4, <2>6, WaitsMeet
  <2>8. Becomes(v)
    BY <1>10 DEF v
  <2> QED BY <1>7, <2>4, <2>5, <2>7, <2>8
<1>11. CASE sess.phase = "discovering" /\ sess.pending /\ Becomes(DiscoveryFrame(World, lcd))
  <2>1. Meeting(amp, line, q, DiscoveryFrame(World, q.lcd))
    BY <1>3, <1>11, DiscoveryFrameMeet DEF lcd
  <2>2. Sane(DiscoveryFrame(World, lcd))
    BY <1>1, <1>4, <1>11, DiscoveryFrameSane
  <2> QED BY <1>3, <1>7, <1>11, <2>1, <2>2
<1>12. CASE sess.phase \in {"applying", "restoring"} /\ sess.pending
            /\ Becomes(PlannedFrame(World, lcd))
  <2>1. Meeting(amp, line, q, PlannedFrame(World, q.lcd))
    BY <1>3, <1>12, PlannedFrameMeet DEF lcd
  <2>2. Sane(PlannedFrame(World, lcd))
    BY <1>1, <1>4, <1>12, PlannedFrameSane
  <2> QED BY <1>3, <1>7, <1>12, <2>1, <2>2
<1> QED BY <1>6, <1>8, <1>9, <1>10, <1>11, <1>12

-----------------------------------------------------------------------------
(* The runner up to an authorized key.                                     *)

\* The runner moves on to where it holds no key.
LEMMA AtMeet ==
    ASSUME NEW a, NEW L, NEW r, NEW w, Sane(w), Meeting(a, L, r, w),
           NEW pc \in Places \ {"check", "write"},
           w.sess.phase = "idle" => pc \in {"idle", "top", "done"}
    PROVE  Meeting(a, L, r, At(w, pc))
<1> DEFINE v == At(w, pc)
<1>1. v.sess = w.sess /\ v.reports = w.reports /\ v.run.pc = pc
  BY DEF At, Sane, Runs
<1>2. ~Holds(v)
  BY <1>1 DEF Holds
<1> HIDE DEF v
<1> QED BY <1>1, <1>2, NothingInHand DEF v

\* Stops where it holds no key, too.
LEMMA AtStops ==
    ASSUME NEW w, NEW v, Sane(v), Stops(w, v), NEW pc \in Places \ {"check", "write"}
    PROVE  Stops(w, At(v, pc))
<1>1. At(v, pc).sess = v.sess /\ At(v, pc).run.pc = pc
  BY DEF At, Sane, Runs
<1> QED BY <1>1 DEF Stops

\* A session that has nothing left to test.
LEMMA CompleteStops ==
    ASSUME NEW w, Sane(w)
    PROVE  Stops(w, Complete(w))
<1> DEFINE s == Over(w.sess, "complete")
           u == [w EXCEPT !.sess = s]
<1>1. /\ s.phase = "complete" /\ s.gen = w.sess.gen /\ s.mayBeInMenu = w.sess.mayBeInMenu
      /\ s.last = NoScreen
  BY DEF Over, NoSession
<1>2. DOMAIN u = {"sess", "reports", "run"} /\ u.sess = s /\ u.run = w.run /\ u.run \in Runs
  <2> HIDE DEF s
  <2> QED BY DEF Sane
<1>3. Complete(w) = Bump(u)
  BY DEF Complete, Sane
<1> HIDE DEF u, s
<1>4. /\ Bump(u).sess = s /\ Bump(u).run.pc = w.run.pc /\ Bump(u).run.key = w.run.key
      /\ Bump(u).run.cur = FALSE
  BY <1>2, BumpLeaves
<1> QED BY <1>1, <1>3, <1>4 DEF Stops, Proper, NoScreen, Terminal

\* A plan that awaits its next key: none is underway.
LEMMA PlansMeet ==
    ASSUME NEW a, NEW q, NEW v, v.sess.phase \in Planning, ~Holds(v), v.sess.gen = q.gen,
           q.gen \in Nat, Proper(q.lcd), Proper(v.sess.last), v.sess.mayBeInMenu,
           v.sess.lease, ~v.sess.pending, v.sess.from.at # "storing",
           q.shown = "fresh" => Current(a, q) \/ q.lcd.at = "storing"
    PROVE  Meeting(a, <<>>, q, v)
<1>1. ~Counts(<<>>, q, v) /\ InPlay(<<>>, v) = {} /\ (Sure(<<>>, q, v) => q.shown = "fresh")
  BY DEF Counts, Holds, InPlay, Sure
<1>2. LineFits(a, <<>>, q, v)
  BY <1>1 DEF LineFits, Fit
<1>3. Quiet(a, <<>>, q, v) /\ Told(a, <<>>, q, v)
  BY DEF Quiet, Told, Planning, Waiting, Holds
<1>4. Walking(a, <<>>, q, v) /\ Planned(a, <<>>, q, v)
  BY <1>1 DEF Walking, Planned, Planning
<1> QED BY <1>2, <1>3, <1>4 DEF Meeting

\* beginPlan, when no key is underway.
LEMMA BeginPlanMeet ==
    ASSUME NEW a, NEW q, NEW w, Sane(w), NEW to \in {"applying", "restoring"},
           w.run.pc # "write", w.sess.gen = q.gen, q.gen \in Nat, Proper(q.lcd),
           Proper(w.sess.last), w.sess.mayBeInMenu, w.sess.lease,
           w.sess.from.at # "storing",
           q.shown = "fresh" => Current(a, q) \/ q.lcd.at = "storing"
    PROVE  Meeting(a, <<>>, q, BeginPlan(w, to))
<1> DEFINE s == [w.sess EXCEPT !.phase = to, !.step = 1, !.pending = FALSE]
           u == [w EXCEPT !.sess = s]
           v == Bump(u)
<1>1. BeginPlan(w, to) = v
  BY DEF BeginPlan, Sane
<1>2. /\ s.phase = to /\ ~s.pending /\ s.gen = w.sess.gen /\ s.last = w.sess.last
      /\ s.mayBeInMenu = w.sess.mayBeInMenu /\ s.lease = w.sess.lease
      /\ s.from = w.sess.from
  BY DEF Sane, Sessions
<1>3. DOMAIN u = {"sess", "reports", "run"} /\ u.sess = s /\ u.run = w.run /\ u.run \in Runs
  <2> HIDE DEF s
  <2> QED BY DEF Sane
<1> HIDE DEF s, u
<1>4. v.sess = s /\ v.run.pc = w.run.pc /\ v.run.cur = FALSE
  BY <1>3, BumpLeaves
<1> HIDE DEF v
<1>5. ~Holds(v) /\ v.sess.phase \in Planning
  BY <1>2, <1>4 DEF Holds, Planning
<1> QED BY <1>1, <1>2, <1>4, <1>5, PlansMeet

\* The runner has an authorized key, for the frame that is shown.
Authorized(w, name, v) ==
    /\ v.sess = [w.sess EXCEPT !.acted = TRUE]
    /\ v.run.pc = "check" /\ v.run.cur = TRUE
    /\ v.run.key = [name |-> name, at |-> rt.lcd.at, value |-> rt.lcd.value,
                    model |-> rt.model]

\* What consumeActionLocked leaves.
LEMMA ConsumeLeaves ==
    ASSUME NEW w, Sane(w), NEW name, NEW io
    PROVE  \/ Consume(w, name, io) = At(Fail(w), "stop")
           \/ Authorized(w, name, Consume(w, name, io))
<1> DEFINE key == [name |-> name, at |-> rt.lcd.at, value |-> rt.lcd.value,
                   model |-> rt.model]
           v == [w EXCEPT !.sess.acted = TRUE, !.run.pc = "check", !.run.cur = TRUE,
                          !.run.phase = w.sess.phase, !.run.key = key]
<1>1. Consume(w, name, io) \in {At(Fail(w), "stop"), v}
  <2>1. v = [w EXCEPT !.sess.acted = TRUE, !.run.pc = "check", !.run.cur = TRUE,
                      !.run.phase = w.sess.phase,
                      !.run.key = [name |-> name, at |-> rt.lcd.at, value |-> rt.lcd.value,
                                   model |-> rt.model]]
    OBVIOUS
  <2> HIDE DEF v
  <2> QED BY <2>1 DEF Consume
<1>2. /\ v.sess = [w.sess EXCEPT !.acted = TRUE]
      /\ v.run.pc = "check" /\ v.run.cur = TRUE /\ v.run.key = key
  <2> HIDE DEF key
  <2> QED BY DEF Sane, Runs
<1> HIDE DEF v
<1>3. Authorized(w, name, v)
  BY <1>2 DEF Authorized
<1> QED BY <1>1, <1>3

\* A page that is shown while a discovery awaits no answer: no key is underway.
LEMMA PageSeen ==
    ASSUME MInv, sess.phase = "discovering", ~sess.pending, rt.lcd.at \in Pages
    PROVE  line = <<>>
<1>1. /\ World.sess = sess /\ World.run = run /\ amp \in AmpStates /\ line \in Seq(Sent)
  BY Types DEF MInv
<1>2. Meeting(amp, line, rt, World)
  BY DEF MInv
<1> SUFFICES ASSUME line # <<>> PROVE FALSE
  OBVIOUS
<1>3. /\ First(amp) \notin Pages /\ "home" \notin Pages /\ "elsewhere" \notin Pages
      /\ "storing" \notin Pages
  BY <1>1, FirstFacts DEF OtherScreens, Pages, NextPage
<1>4. Current(amp, rt)
  BY <1>1, <1>2, <1>3 DEF Meeting, Walking, Sure, Blurred
<1>5. amp.at \in Pages
  BY <1>4 DEF Current
<1>6. Meets(amp, line[1]) /\ line[1] \in InPlay(line, World)
  <2>1. 1 \in DOMAIN line
    BY <1>1
  <2> QED BY <1>2, <1>3, <1>5, <2>1 DEF Meeting, LineFits, Fit, InPlay
<1>7. Walks(amp, sess, line[1])
  BY <1>1, <1>2, <1>6 DEF Meeting, Walking
<1> QED BY <1>3, <1>5, <1>6, <1>7 DEF Walks, Meets, Expecting

\* A discovery key is authorized on the frame that is shown.
LEMMA DiscoversMeet ==
    ASSUME MInv, run.pc = "top", sess.phase = "discovering", ~sess.pending, NEW v,
           v.run.pc = "check", v.run.cur, NEW k \in Sent, v.run.key = k,
           k.at = rt.lcd.at, k.value = rt.lcd.value,
           v.sess.phase = "discovering", v.sess.gen = sess.gen, v.sess.pending,
           v.sess.last = Screen(rt.lcd), v.sess.lease = sess.lease, v.sess.mayBeInMenu,
           k.at \in {"home"} \cup Setup \cup Pages, k.at = "home" => k.name = "set",
           k.at \in (Setup \ Entries) => k.name = "right",
           k.name = "display" \/ v.sess.exiting => k.at \in Pages
    PROVE  Meeting(amp, line, rt, v)
<1>1. /\ World.sess = sess /\ World.run = run /\ amp \in AmpStates /\ line \in Seq(Sent)
  BY Types DEF MInv
<1>2. Meeting(amp, line, rt, World)
  BY DEF MInv
<1>3. /\ First(amp) \in Setup /\ First(amp) \notin Entries /\ First(amp) \notin Pages
      /\ "home" \notin Setup \cup Pages /\ "elsewhere" \notin {"home"} \cup Setup \cup Pages
      /\ "storing" \notin {"home"} \cup Setup \cup Pages /\ First(amp) \notin {"home", "elsewhere"}
  BY <1>1, FirstFacts, MenuDebugAssumption DEF OtherScreens, Pages, NextPage
<1>4. Fit(amp, line)
  BY <1>2 DEF Meeting, LineFits
<1>5. \A j \in InPlay(line, World) :
          /\ Walks(amp, sess, j) /\ j.at \in {"home"} \cup Setup \cup Pages
          /\ j.at = "home" \/ amp.at = "elsewhere"
          /\ j.at = "home" => FromHome(j)
  BY <1>1, <1>2 DEF Meeting, Walking, Walks, Expecting, FromHome
<1>6. \A i \in DOMAIN line : line[i] \in InPlay(line, World)
  BY DEF InPlay
<1>7. line # <<>> => 1 \in DOMAIN line
  BY <1>1
<1> DEFINE M == Append(line, k)
<1>8. /\ \A i \in DOMAIN M : \/ i \in DOMAIN line /\ M[i] = line[i]
                             \/ i = Len(M) /\ M[i] = k
      /\ (line = <<>> => Len(M) = 1 /\ M[1] = k)
  BY <1>1
<1> HIDE DEF M
<1>9. ASSUME line # <<>> \/ Clear(rt) PROVE Fit(amp, M)
  <2>1. Current(amp, rt) \/ Blurred(amp, rt)
    BY <1>1, <1>2, <1>3, <1>9 DEF Meeting, Walking, Sure, Clear
  <2>2. CASE amp.at = "elsewhere"
    <3>1. \A i \in DOMAIN line : line[i].at \in {"home"} \cup Setup /\ line[i].name # "display"
      <4>1. ~(Len(line) = 1 /\ Meets(amp, line[1]))
        BY <1>3, <1>5, <1>6, <1>7, <2>2 DEF Meets
      <4> QED BY <1>3, <1>4, <2>2, <4>1 DEF Fit
    <3>2. k.at \in {"home"} \cup Setup /\ k.name # "display"
      BY <1>3, <2>1, <2>2 DEF Current, Blurred
    <3> QED BY <1>8, <2>2, <3>1, <3>2 DEF Fit
  <2>3. CASE amp.at # "elsewhere"
    <3>1. \A i \in DOMAIN line : FromHome(line[i]) /\ line[i].at = "home"
      BY <1>5, <1>6, <2>3
    <3>2. CASE line = <<>> /\ Current(amp, rt)
      BY <1>3, <1>8, <3>2 DEF Fit, Meets, Current
    <3>3. CASE line # <<>> \/ Blurred(amp, rt)
      <4>1. amp.at \in {"home", First(amp)}
        BY <1>4, <1>7, <2>3, <3>1, <3>3 DEF Fit, Meets, Blurred
      <4>2. amp.at = "home" => FromHome(k)
        BY <1>3, <2>1 DEF Current, Blurred, FromHome
      <4>3. amp.at = First(amp) => FromHome(k) \/ (k.at = First(amp) /\ k.name = "right")
        BY <1>3, <2>1 DEF Current, Blurred, FromHome
      <4>4. CASE amp.at = "home"
        <5>1. \A i \in DOMAIN M : FromHome(M[i])
          BY <1>8, <3>1, <4>2, <4>4
        <5> QED BY <4>4, <5>1 DEF Fit
      <4>5. CASE amp.at = First(amp)
        <5>1. \A i \in DOMAIN M : \/ FromHome(M[i])
                                  \/ i = Len(M) /\ M[i].at = First(amp) /\ M[i].name = "right"
          BY <1>8, <3>1, <4>3, <4>5
        <5> QED BY <4>5, <5>1 DEF Fit
      <4> QED BY <4>1, <4>4, <4>5
    <3> QED BY <2>1, <3>2, <3>3
  <2> QED BY <2>2, <2>3
<1>10. LineFits(amp, line, rt, v)
  BY <1>4, <1>9 DEF LineFits, Counts, M
<1>11. Quiet(amp, line, rt, v)
  BY <1>1, <1>2 DEF Meeting, Quiet, Active, Terminal, Waiting
<1>12. Told(amp, line, rt, v)
  BY <1>1, <1>2 DEF Meeting, Told, Active, Terminal, Waiting, Planning
<1>13. Proper(v.sess.last) /\ v.sess.last.at = k.at /\ v.sess.last.value = k.value
  BY <1>2 DEF Meeting, Proper, Screen
<1>14. Walking(amp, line, rt, v)
  <2>1. Expecting(v.sess, k)
    BY <1>13 DEF Expecting
  <2>2. Walks(amp, v.sess, k)
    BY <2>1 DEF Walks
  <2>3. ASSUME NEW j \in InPlay(line, World) PROVE Walks(amp, v.sess, j)
    <3>1. v.sess.exiting => line = <<>>
      BY PageSeen
    <3>2. ~v.sess.exiting
      <4>1. line # <<>>
        BY <1>1, <2>3 DEF InPlay, Holds
      <4> QED BY <3>1, <4>1
    <3> QED BY <1>5, <3>2 DEF Walks
  <2>4. InPlay(line, v) \subseteq InPlay(line, World) \cup {k}
    BY DEF InPlay
  <2> QED BY <2>1, <2>2, <2>3, <2>4 DEF Walking
<1>15. Planned(amp, line, rt, v)
  BY DEF Planned, Planning
<1> QED BY <1>2, <1>10, <1>11, <1>12, <1>13, <1>14, <1>15 DEF Meeting

\* AuthorizeDiscovery and AuthorizeTopologyExit; s is the session with its key pending.
LEMMA AuthorizeMeet ==
    ASSUME MInv, run.pc = "top", sess.phase = "discovering", ~sess.pending,
           NEW name \in Buttons, NEW io, NEW s \in Sessions, InPlan(s),
           s.phase = "discovering", s.gen = sess.gen, s.pending, s.last = Screen(rt.lcd),
           s.lease = sess.lease, s.mayBeInMenu,
           rt.lcd.at \in {"home"} \cup Setup \cup Pages, rt.lcd.at = "home" => name = "set",
           rt.lcd.at \in (Setup \ Entries) => name = "right",
           name = "display" \/ s.exiting => rt.lcd.at \in Pages
    PROVE  Meeting(amp, line, rt, Consume([World EXCEPT !.sess = s], name, io))
<1> DEFINE u == [World EXCEPT !.sess = s]
           v == Consume(u, name, io)
           k == [name |-> name, at |-> rt.lcd.at, value |-> rt.lcd.value, model |-> rt.model]
           t == [s EXCEPT !.acted = TRUE]
<1>1. /\ Sane(World) /\ World.sess = sess /\ World.run = run /\ amp \in AmpStates
      /\ line \in Seq(Sent) /\ rt \in Runtimes /\ sess.gen \in Nat /\ rt.gen \in Nat
  BY Types DEF MInv, Runtimes, Sessions
<1>2. Meeting(amp, line, rt, World)
  BY DEF MInv
<1>3. Sane(u) /\ u.sess = s /\ u.run = run
  BY <1>1, ChangeSane
<1>4. k \in Sent /\ k.at = rt.lcd.at /\ k.value = rt.lcd.value /\ k.name = name
  BY <1>1 DEF Sent, Runtimes, Lcds
<1>5. /\ t.phase = "discovering" /\ t.gen = sess.gen /\ t.pending /\ t.last = Screen(rt.lcd)
      /\ t.lease = sess.lease /\ t.mayBeInMenu /\ t.exiting = s.exiting
  BY DEF Sessions
<1> HIDE DEF u, v, k, t
<1>6. \/ v = At(Fail(u), "stop")
      \/ v.sess = t /\ v.run.pc = "check" /\ v.run.cur = TRUE /\ v.run.key = k
  <2>1. v = At(Fail(u), "stop") \/ Authorized(u, name, v)
    BY <1>3, ConsumeLeaves DEF v
  <2> QED BY <1>3, <2>1 DEF Authorized, k, t
<1>7. CASE v = At(Fail(u), "stop")
  <2>1. Proper(s.last)
    BY <1>2 DEF Meeting, Proper, Screen
  <2>2. Stops(u, Fail(u)) /\ Sane(Fail(u))
    BY <1>3, <2>1, FailStops, FailSane
  <2>3. Stops(u, v)
    BY <1>7, <2>2, AtStops DEF Places
  <2>4. Stops(World, v)
    BY <1>1, <1>3, <2>3 DEF Stops
  <2>5. Proper(rt.lcd) /\ sess.phase # "idle"
    BY <1>2 DEF Meeting
  <2> QED BY <1>1, <1>2, <2>4, <2>5, StopsMeet DEF v, u
<1>8. CASE v.sess = t /\ v.run.pc = "check" /\ v.run.cur = TRUE /\ v.run.key = k
  <2>1. Meeting(amp, line, rt, v)
    BY <1>4, <1>5, <1>8, DiscoversMeet
  <2> QED BY <2>1 DEF v, u
<1> QED BY <1>6, <1>7, <1>8

\* A page that completes the topology, or is bound to a plan.
LEMMA PageMeet ==
    ASSUME MInv, run.pc = "top", sess.phase = "discovering", ~sess.pending,
           rt.lcd.at \in Pages,
           NEW profile \in {"first-fan", "third-fan", "first-bank"}
    PROVE  /\ Meeting(amp, line, rt, CompleteTopology(World, FALSE))
           /\ Meeting(amp, line, rt, InstallPlan(World, profile))
<1> DEFINE plan == [profile |-> profile, original |-> rt.lcd.value]
           shot == Screen(rt.lcd)
           s == [sess EXCEPT !.phase = "plan-ready", !.step = 1, !.plan = plan,
                             !.from = shot, !.last = NoScreen, !.seen = {}]
           u == [World EXCEPT !.sess = s]
           v == Bump(u)
           c == CompleteTopology(World, FALSE)
<1>1. /\ Sane(World) /\ World.sess = sess /\ World.run = run /\ amp \in AmpStates
      /\ sess \in Sessions /\ rt \in Runtimes /\ sess.gen \in Nat /\ rt.gen \in Nat
      /\ run \in Runs /\ DOMAIN World = {"sess", "reports", "run"}
  BY Types DEF MInv, Runtimes, Sessions, Sane
<1>2. Meeting(amp, line, rt, World) /\ line = <<>> /\ Proper(rt.lcd) /\ Proper(sess.last)
  BY <1>1, PageSeen DEF MInv, Meeting
<1>3. "home" \notin Pages /\ "storing" \notin Pages /\ Proper(NoScreen)
  BY DEF Pages, NextPage, Proper, NoScreen
<1>4. sess.mayBeInMenu /\ sess.lease /\ sess.gen = rt.gen
  BY <1>1, <1>2, <1>3 DEF Meeting, Told, Quiet, Active, Terminal
<1>5. rt.shown = "fresh" => Current(amp, rt)
  <2>1. First(amp) \notin Pages
    BY <1>1, FirstFacts DEF OtherScreens
  <2> QED BY <1>1, <1>2, <1>3, <2>1 DEF Meeting, Walking, Sure, Blurred
<1>6. Meeting(amp, line, rt, c)
  <2>1. /\ c.sess.phase = "awaiting-home" /\ c.sess.lease /\ c.sess.mayBeInMenu
        /\ c.sess.last = NoScreen /\ c.sess.gen = sess.gen /\ c.run.pc = "top"
    BY <1>1, TopologyLeaves
  <2> HIDE DEF c
  <2>2. ~Holds(c) /\ c.sess.phase \in Waiting
    BY <2>1 DEF Holds, Waiting
  <2> QED BY <1>1, <1>2, <1>3, <1>4, <2>1, <2>2, WaitsMeet
<1>7. /\ s.phase = "plan-ready" /\ ~s.pending /\ s.gen = sess.gen /\ s.last = NoScreen
      /\ s.mayBeInMenu = sess.mayBeInMenu /\ s.lease = sess.lease /\ s.from = shot
  <2> HIDE DEF plan, shot
  <2> QED BY <1>1 DEF Sessions
<1>8. DOMAIN u = {"sess", "reports", "run"} /\ u.sess = s /\ u.run = run
  <2> HIDE DEF s
  <2> QED BY <1>1
<1>9. InstallPlan(World, profile) \in {At(Fail(World), "stop"), v}
  <2>1. u = [World EXCEPT !.sess.phase = "plan-ready", !.sess.step = 1,
                 !.sess.plan = [profile |-> profile, original |-> rt.lcd.value],
                 !.sess.from = Screen(rt.lcd), !.sess.last = NoScreen, !.sess.seen = {}]
    <3> HIDE DEF plan, shot
    <3>1. u = [World EXCEPT !.sess.phase = "plan-ready", !.sess.step = 1, !.sess.plan = plan,
                   !.sess.from = shot, !.sess.last = NoScreen, !.sess.seen = {}]
      BY <1>1
    <3> HIDE DEF u
    <3> QED BY <3>1 DEF plan, shot
  <2> HIDE DEF u
  <2> QED BY <2>1 DEF InstallPlan
<1> HIDE DEF u, s, c, plan
<1>10. Meeting(amp, line, rt, v)
  <2>1. v.sess = s /\ v.run.pc = "top" /\ v.run.cur = FALSE
    <3>1. u.run \in Runs /\ u.run.pc = "top"
      BY <1>1, <1>8
    <3> QED BY <1>8, <3>1, BumpLeaves
  <2>2. v.sess.from.at # "storing"
    BY <1>3, <1>7, <2>1 DEF Screen
  <2> HIDE DEF v
  <2>3. ~Holds(v) /\ v.sess.phase \in Planning
    BY <1>7, <2>1 DEF Holds, Planning
  <2> QED BY <1>1, <1>2, <1>3, <1>4, <1>5, <1>7, <2>1, <2>2, <2>3, PlansMeet
<1>11. Meeting(amp, line, rt, At(Fail(World), "stop"))
  <2>1. Stops(World, Fail(World)) /\ Sane(Fail(World))
    BY <1>1, <1>2, FailStops, FailSane
  <2>2. Stops(World, At(Fail(World), "stop"))
    BY <2>1, AtStops DEF Places
  <2> QED BY <1>1, <1>2, <2>2, StopsMeet
<1> QED BY <1>6, <1>9, <1>10, <1>11 DEF c

\* sendDiscovery up to the write.
LEMMA DiscoverMeet ==
    ASSUME MInv, run.pc = "top", sess.phase = "discovering", NEW legend, NEW io
    PROVE  Meeting(amp, line, rt, Discover(World, legend, io))
<1> DEFINE at == rt.lcd.at
           shot == Screen(rt.lcd)
           in(name) == sess.mayBeInMenu \/ name = "set"
           s(name) == [sess EXCEPT !.seen = @ \cup {shot}, !.last = shot, !.pending = TRUE,
                                   !.mayBeInMenu = in(name)]
           t == [sess EXCEPT !.seen = @ \cup {shot}, !.last = shot, !.pending = TRUE,
                             !.exiting = TRUE]
           profile == Profile(sess.cap, rt.model, rt.lcd)
<1>1. /\ Sane(World) /\ World.sess = sess /\ World.run = run /\ amp \in AmpStates
      /\ sess \in Sessions /\ rt \in Runtimes /\ InPlan(sess) /\ sess.gen \in Nat
      /\ rt.gen \in Nat /\ shot \in Shots /\ sess.cap \in Capabilities
      /\ World = [sess |-> sess, reports |-> reports, run |-> run]
  BY Types, ScreenTyped DEF MInv, Sane, InPlan, Running, Runtimes, Sessions
<1>2. Meeting(amp, line, rt, World)
  BY DEF MInv
<1>3. /\ Active(sess) /\ (~sess.mayBeInMenu => at = "home")
      /\ (sess.exiting => sess.pending)
  BY <1>1, <1>2 DEF Meeting, Told, Active, Terminal, Walking
<1>4. /\ "home" \notin Setup \cup Pages /\ \A x \in Setup : x \notin Pages \cup {"home"}
      /\ {SetupEntry[c] : c \in Capabilities} \subseteq Setup
      /\ Entries = {SetupEntry[c] : c \in Capabilities} /\ "set" \in Buttons
      /\ "right" \in Buttons /\ "display" \in Buttons
  <2>1. SetupEntry.fan \in Setup /\ SetupEntry.bank \in Setup
    BY MenuDebugAssumption DEF Setup, Models
  <2> QED BY <2>1, SetupApart DEF Capabilities, SetupEntry, Buttons, Entries, Pages, NextPage
<1>5. Meeting(amp, line, rt, At(World, "stop"))
  BY <1>1, <1>2, AtMeet DEF Places
<1>6. Meeting(amp, line, rt, At(Fail(World), "stop"))
  <2>1. Stops(World, Fail(World)) /\ Sane(Fail(World)) /\ Proper(rt.lcd)
    BY <1>1, <1>2, FailStops, FailSane DEF Meeting
  <2>2. Stops(World, At(Fail(World), "stop"))
    BY <2>1, AtStops DEF Places
  <2> QED BY <1>1, <1>2, <2>1, <2>2, StopsMeet
<1>7. ASSUME NEW name \in {"set", "right"}, ~sess.pending,
             at \in {"home"} \cup Setup \cup Pages, at = "home" => name = "set",
             at \in (Setup \ Entries) => name = "right"
      PROVE  Meeting(amp, line, rt, AuthorizeDiscovery(World, name, io))
  <2>1. in(name) \in BOOLEAN /\ in(name)
    BY <1>1, <1>3, <1>7 DEF Sessions
  <2>2. /\ s(name) \in Sessions /\ s(name).phase = "discovering" /\ s(name).gen = sess.gen
        /\ s(name).pending /\ s(name).last = shot /\ s(name).lease = sess.lease
        /\ s(name).mayBeInMenu /\ s(name).exiting = sess.exiting /\ s(name).cap = sess.cap
    <3> HIDE DEF in, shot
    <3> QED BY <1>1, <2>1 DEF Sessions
  <2>3. AuthorizeDiscovery(World, name, io) = Consume([World EXCEPT !.sess = s(name)], name, io)
    <3>1. [World EXCEPT !.sess = s(name)]
              = [World EXCEPT !.sess.seen = @ \cup {Screen(rt.lcd)}, !.sess.last = Screen(rt.lcd),
                      !.sess.pending = TRUE, !.sess.mayBeInMenu = @ \/ name = "set"]
      BY <1>1
    <3> HIDE DEF s
    <3> QED BY <3>1 DEF AuthorizeDiscovery
  <2> HIDE DEF s
  <2>4. InPlan(s(name))
    BY <1>1, <2>2 DEF InPlan
  <2>5. ~s(name).exiting /\ name \in Buttons /\ name # "display"
    BY <1>3, <1>4, <1>7, <2>2
  <2> QED BY <1>7, <2>2, <2>3, <2>4, <2>5, AuthorizeMeet
<1>8. ASSUME ~sess.pending, at \in Pages
      PROVE  Meeting(amp, line, rt, AuthorizeTopologyExit(World, io))
  <2>1. sess.mayBeInMenu
    BY <1>3, <1>4, <1>8
  <2>2. /\ t \in Sessions /\ t.phase = "discovering" /\ t.gen = sess.gen
        /\ t.pending /\ t.last = shot /\ t.lease = sess.lease
        /\ t.mayBeInMenu /\ t.cap = sess.cap
    <3> HIDE DEF shot
    <3> QED BY <1>1, <2>1 DEF Sessions
  <2>3. AuthorizeTopologyExit(World, io) = Consume([World EXCEPT !.sess = t], "display", io)
    <3>1. [World EXCEPT !.sess = t]
              = [World EXCEPT !.sess.seen = @ \cup {Screen(rt.lcd)}, !.sess.last = Screen(rt.lcd),
                      !.sess.pending = TRUE, !.sess.exiting = TRUE]
      BY <1>1
    <3> HIDE DEF t
    <3> QED BY <3>1 DEF AuthorizeTopologyExit
  <2> HIDE DEF t
  <2>4. InPlan(t)
    BY <1>1, <2>2 DEF InPlan
  <2>5. at \notin Setup \cup {"home"}
    BY <1>4, <1>8
  <2> QED BY <1>4, <1>8, <2>2, <2>3, <2>4, <2>5, AuthorizeMeet
<1>9. ASSUME ~sess.pending, at \in Pages
      PROVE  Meeting(amp, line, rt, FinishTopologyOnly(World, io))
  <2>1. FinishTopologyOnly(World, io) \in {At(Fail(World), "stop"),
            AuthorizeTopologyExit(World, io), CompleteTopology(World, FALSE)}
    BY DEF FinishTopologyOnly
  <2> QED BY <1>6, <1>8, <1>9, <2>1, PageMeet
<1>10. \/ Discover(World, legend, io) = At(World, "stop")
       \/ /\ ~sess.pending
          /\ \/ /\ at = SetupEntry[sess.cap] \/ at = "home"
                /\ Discover(World, legend, io) = AuthorizeDiscovery(World, "set", io)
             \/ /\ at # SetupEntry[sess.cap] /\ at # "home" /\ at \in Setup \cup Pages
                /\ Discover(World, legend, io) = AuthorizeDiscovery(World, "right", io)
             \/ /\ at \in Pages /\ profile \in {"first-fan", "third-fan", "first-bank"}
                /\ Discover(World, legend, io) = InstallPlan(World, profile)
             \/ /\ at \in Pages
                /\ Discover(World, legend, io) = FinishTopologyOnly(World, io)
  <2>1. profile # "none" => profile \in {"first-fan", "third-fan", "first-bank"}
    BY DEF Profile
  <2>2. "scale" \in Pages
    BY DEF Pages, NextPage
  <2> HIDE DEF profile, at
  <2> DEFINE D == Discover(World, legend, io)
  <2>3. D = IF sess.pending THEN At(World, "stop")
        ELSE IF at = SetupEntry[sess.cap]
        THEN IF legend THEN AuthorizeDiscovery(World, "set", io) ELSE At(World, "stop")
        ELSE CASE at = "home" -> AuthorizeDiscovery(World, "set", io)
               [] at \in Setup -> AuthorizeDiscovery(World, "right", io)
               [] at = "scale" /\ sess.cap = "fan" /\ rt.model = "first" ->
                      AuthorizeDiscovery(World, "right", io)
               [] at \in Pages /\ profile # "none" -> InstallPlan(World, profile)
               [] at \in Pages \ {"scale"} /\ profile = "none" -> FinishTopologyOnly(World, io)
               [] OTHER -> At(World, "stop")
    BY <1>1 DEF Discover, profile, at
  <2> HIDE DEF D
  <2> QED BY <1>4, <2>1, <2>2, <2>3 DEF D
<1> HIDE DEF at, profile
<1>11. ASSUME ~sess.pending, at = SetupEntry[sess.cap] \/ at = "home"
       PROVE  Meeting(amp, line, rt, AuthorizeDiscovery(World, "set", io))
  BY <1>1, <1>4, <1>7, <1>11
<1>12. ASSUME ~sess.pending, at # "home", at \in Setup \cup Pages
       PROVE  Meeting(amp, line, rt, AuthorizeDiscovery(World, "right", io))
  BY <1>7, <1>12
<1>13. ASSUME ~sess.pending, at \in Pages, profile \in {"first-fan", "third-fan", "first-bank"}
       PROVE  Meeting(amp, line, rt, InstallPlan(World, profile))
  BY <1>13, PageMeet DEF at
<1> QED BY <1>5, <1>9, <1>10, <1>11, <1>12, <1>13

\* AuthorizeNext
LEMMA AuthorizeNextMeet ==
    ASSUME MInv, run.pc = "top", sess.phase \in {"applying", "restoring"}, NEW io
    PROVE  Meeting(amp, line, rt, AuthorizeNext(World, io))
<1> DEFINE steps == Steps(sess)
           step == steps[sess.step]
           at == rt.lcd.at
           shot == Screen(rt.lcd)
           in == sess.mayBeInMenu \/ step.key = "set"
           s == [sess EXCEPT !.pending = TRUE, !.last = shot, !.mayBeInMenu = in]
           t == [s EXCEPT !.acted = TRUE]
           u == [World EXCEPT !.sess = s]
           v == Consume(u, step.key, io)
           k == [name |-> step.key, at |-> at, value |-> rt.lcd.value, model |-> rt.model]
<1>1. /\ Sane(World) /\ World.sess = sess /\ World.run = run /\ amp \in AmpStates
      /\ sess \in Sessions /\ rt \in Runtimes /\ InPlan(sess) /\ sess.gen \in Nat
      /\ rt.gen \in Nat /\ shot \in Shots /\ line \in Seq(Sent)
      /\ World = [sess |-> sess, reports |-> reports, run |-> run]
  BY Types, ScreenTyped DEF MInv, Sane, Runtimes, Sessions
<1>2. /\ Meeting(amp, line, rt, World) /\ Proper(rt.lcd) /\ Proper(sess.last)
      /\ sess.phase \in Planning /\ Active(sess)
  BY <1>1 DEF MInv, Meeting, Planning, Active, Terminal
<1>3. sess.mayBeInMenu /\ sess.lease /\ sess.gen = rt.gen
  BY <1>1, <1>2 DEF Meeting, Told, Quiet
<1>4. step.key \in Buttons
  <2>1. Leads(steps) /\ sess.step \in DOMAIN steps
    BY <1>1, StepsLead DEF InPlan
  <2>2. step \in PlanSteps
    BY <2>1 DEF Leads
  <2> HIDE DEF step
  <2> QED BY <2>2 DEF PlanSteps, Buttons
<1>5. /\ s \in Sessions /\ s.phase = sess.phase /\ s.plan = sess.plan
      /\ s.step = sess.step /\ s.cap = sess.cap /\ s.gen = sess.gen /\ s.pending
      /\ s.last = shot /\ s.mayBeInMenu /\ s.lease = sess.lease /\ s.from = sess.from
  <2>1. in \in BOOLEAN /\ in
    BY <1>1, <1>3 DEF Sessions
  <2> HIDE DEF in, shot
  <2> QED BY <1>1, <2>1 DEF Sessions
<1>6. Sane(u) /\ u.sess = s /\ u.run = run
  <2> HIDE DEF s
  <2>1. Steps(s) = Steps(sess)
    BY <1>5, SamePlan
  <2>2. InPlan(s)
    BY <1>1, <1>5, <2>1 DEF InPlan
  <2> QED BY <1>1, <1>5, <2>2, ChangeSane
<1>7. /\ t.phase = sess.phase /\ t.plan = sess.plan /\ t.step = sess.step
      /\ t.gen = sess.gen /\ t.pending /\ t.last = shot /\ t.mayBeInMenu
      /\ t.lease
  <2> HIDE DEF s
  <2> QED BY <1>3, <1>5 DEF Sessions
<1>8. LET D == AuthorizeNext(World, io)
      IN  \/ D = At(World, "stop") \/ D = At(Fail(World), "stop")
          \/ /\ ~sess.pending /\ D = v /\ (sess.step = Len(steps) => at \in SavePages)
             /\ at = "home" \/ shot = sess.from
  <2>1. u = [World EXCEPT !.sess.pending = TRUE, !.sess.last = Screen(rt.lcd),
                          !.sess.mayBeInMenu = @ \/ step.key = "set"]
    <3> HIDE DEF step
    <3> QED BY <1>1
  <2> HIDE DEF u
  <2> QED BY <1>1, <2>1 DEF AuthorizeNext, Home
<1> HIDE DEF s, t, u, v, k, step, steps, in
<1>9. Meeting(amp, line, rt, At(World, "stop"))
  BY <1>1, <1>2, AtMeet DEF Places
<1>10. ASSUME NEW w, Sane(w), w.sess.gen = sess.gen, w.sess.mayBeInMenu, w.run = run,
              Proper(w.sess.last)
       PROVE  Meeting(amp, line, rt, At(Fail(w), "stop"))
  <2>1. Stops(w, Fail(w)) /\ Sane(Fail(w))
    BY <1>10, FailStops, FailSane
  <2>2. Stops(w, At(Fail(w), "stop"))
    BY <2>1, AtStops DEF Places
  <2>3. Stops(World, At(Fail(w), "stop"))
    BY <1>1, <1>10, <2>2 DEF Stops
  <2>4. sess.phase # "idle"
    OBVIOUS
  <2> QED BY <1>1, <1>2, <2>3, <2>4, StopsMeet
<1>11. ASSUME ~sess.pending, sess.step = Len(steps) => at \in SavePages,
              at = "home" \/ shot = sess.from
       PROVE  Meeting(amp, line, rt, v)
  <2>1. Proper(shot) /\ shot.at = at /\ shot.value = rt.lcd.value
    BY <1>2 DEF Proper, Screen
  <2>2. k \in Sent /\ k.at = at /\ k.value = rt.lcd.value
    BY <1>1, <1>4 DEF Sent, Runtimes, Lcds, k
  <2>3. v = At(Fail(u), "stop") \/ Authorized(u, step.key, v)
    BY <1>6, ConsumeLeaves DEF v
  <2>4. CASE v = At(Fail(u), "stop")
    BY <1>5, <1>6, <1>10, <2>1, <2>4
  <2>5. CASE Authorized(u, step.key, v)
    <3>1. v.sess = t /\ v.run.pc = "check" /\ v.run.cur = TRUE /\ v.run.key = k
      BY <1>6, <2>5 DEF Authorized, k, t
    <3>2. line = <<>>
      <4>1. line # <<>> => line[1] \in InPlay(line, World)
        BY <1>1 DEF InPlay
      <4> QED BY <1>1, <1>2, <1>11, <4>1 DEF Meeting, Planned, Expecting
    <3>3. at # "storing"
      BY <1>1, <1>2, <1>11, <2>1 DEF Meeting, Planned
    <3>4. Expecting(t, k)
      BY <1>7, <2>1, <2>2 DEF Expecting
    <3>5. Counts(line, rt, v) => Meets(amp, k)
      <4>1. Counts(line, rt, v) => rt.shown = "fresh"
        BY <3>1, <3>2 DEF Counts, Clear
      <4>2. rt.shown = "fresh" => Current(amp, rt)
        BY <1>1, <1>2, <1>11, <3>3 DEF Meeting, Planned, Sure
      <4> QED BY <2>2, <3>3, <4>1, <4>2 DEF Current, Meets
    <3>6. LineFits(amp, line, rt, v)
      <4> DEFINE M == Append(line, k)
      <4>1. Len(M) = 1 /\ M[1] = k
        BY <3>2
      <4> HIDE DEF M
      <4> QED BY <3>1, <3>2, <3>5, <4>1 DEF LineFits, Fit, M
    <3>7. Quiet(amp, line, rt, v) /\ Told(amp, line, rt, v)
      BY <1>1, <1>3, <1>7, <3>1 DEF Quiet, Told, Waiting, Planning
    <3>8. Walking(amp, line, rt, v)
      BY <1>7, <3>1 DEF Walking
    <3>9. Planned(amp, line, rt, v)
      <4>1. InPlay(line, v) = {k}
        BY <3>1, <3>2 DEF InPlay, Holds
      <4>2. Steps(t) = steps
        BY <1>7, SamePlan DEF steps
      <4>3. "home" \notin SavePages
        BY DEF SavePages
      <4> QED BY <1>7, <1>11, <2>1, <2>2, <3>1, <3>2, <3>3, <3>4, <3>5, <4>1, <4>2, <4>3
          DEF Planned
    <3> QED BY <1>2, <1>7, <2>1, <3>1, <3>6, <3>7, <3>8, <3>9 DEF Meeting
  <2> QED BY <2>3, <2>4, <2>5
<1> QED BY <1>1, <1>2, <1>3, <1>8, <1>9, <1>10, <1>11

\* The runner, from one look at the session to an authorized key.
LEMMA RunnerTopMeet ==
    ASSUME MInv, NEW legend \in BOOLEAN, NEW io, RunnerTop(legend, io)
    PROVE  Meeting(amp', line', rt', World')
<1>1. /\ Sane(World) /\ World.sess = sess /\ World.run = run /\ amp \in AmpStates
      /\ sess \in Sessions /\ rt \in Runtimes /\ sess.gen \in Nat /\ rt.gen \in Nat
      /\ InPlan(sess) /\ line \in Seq(Sent)
  BY Types DEF MInv, Sane, Runtimes, Sessions
<1>2. Meeting(amp, line, rt, World) /\ Proper(rt.lcd) /\ Proper(sess.last)
  BY <1>1 DEF MInv, Meeting
<1>3. run.pc = "top" /\ amp' = amp /\ line' = line /\ rt' = rt
  BY DEF RunnerTop
<1>4. \/ Becomes(At(World, "done"))
      \/ sess.phase = "armed" /\ Becomes(At(Complete(World), "done"))
      \/ sess.phase = "plan-ready" /\ Becomes(BeginPlan(World, "applying"))
      \/ sess.phase = "discovering" /\ Becomes(Discover(World, legend, io))
      \/ sess.phase \in {"applying", "restoring"} /\ Becomes(AuthorizeNext(World, io))
  BY DEF RunnerTop
<1>5. ASSUME NEW left, Becomes(left), Sane(left), Meeting(amp, line, rt, left)
      PROVE  Meeting(amp', line', rt', World')
  BY <1>3, <1>5, BecomesIs
<1>6. Sane(At(World, "done")) /\ Meeting(amp, line, rt, At(World, "done"))
  BY <1>1, <1>2, AtSane, AtMeet DEF Places
<1>7. ASSUME sess.phase = "armed"
      PROVE  /\ Sane(At(Complete(World), "done"))
             /\ Meeting(amp, line, rt, At(Complete(World), "done"))
  <2>1. Sane(Complete(World)) /\ Stops(World, Complete(World))
    BY <1>1, BeginSane, CompleteStops
  <2>2. Stops(World, At(Complete(World), "done"))
    BY <2>1, AtStops DEF Places
  <2>3. Sane(At(Complete(World), "done"))
    BY <2>1, AtSane DEF Places
  <2> QED BY <1>1, <1>2, <1>7, <2>2, <2>3, StopsMeet
<1>8. ASSUME sess.phase = "plan-ready"
      PROVE  /\ Sane(BeginPlan(World, "applying"))
             /\ Meeting(amp, line, rt, BeginPlan(World, "applying"))
  <2>1. sess.cap \in Capabilities
    BY <1>1, <1>8 DEF InPlan, Running
  <2>2. ~sess.pending /\ sess.from.at # "storing" /\ line = <<>>
    <3>1. line # <<>> => line[1] \in InPlay(line, World)
      BY <1>1 DEF InPlay
    <3> QED BY <1>1, <1>2, <1>8, <3>1 DEF Meeting, Planned, Planning, Expecting
  <2>3. rt.shown = "fresh" => Current(amp, rt) \/ rt.lcd.at = "storing"
    BY <1>1, <1>2, <1>8, <2>2 DEF Meeting, Planned, Planning, Sure
  <2>4. sess.mayBeInMenu /\ sess.lease /\ sess.gen = rt.gen
    BY <1>1, <1>2, <1>8 DEF Meeting, Told, Quiet, Planning, Active, Terminal
  <2>5. Meeting(amp, <<>>, rt, BeginPlan(World, "applying"))
    BY <1>1, <1>2, <1>3, <2>2, <2>3, <2>4, BeginPlanMeet
  <2> QED BY <1>1, <2>1, <2>2, <2>5, BeginPlanSane
<1>9. ASSUME sess.phase = "discovering"
      PROVE  /\ Sane(Discover(World, legend, io))
             /\ Meeting(amp, line, rt, Discover(World, legend, io))
  BY <1>1, <1>3, <1>9, DiscoverMeet, DiscoverSane
<1>10. ASSUME sess.phase \in {"applying", "restoring"}
       PROVE  /\ Sane(AuthorizeNext(World, io))
              /\ Meeting(amp, line, rt, AuthorizeNext(World, io))
  BY <1>1, <1>3, <1>10, AuthorizeNextMeet, AuthorizeNextSane
<1> QED BY <1>4, <1>5, <1>6, <1>7, <1>8, <1>9, <1>10

-----------------------------------------------------------------------------
(* The runner from an authorized key on.                                   *)

\* All that matters of the runner is the key in its hand.
LEMMA SameHand ==
    ASSUME NEW a, NEW L, NEW r, NEW w, NEW v, Meeting(a, L, r, w),
           v.sess = w.sess, v.reports = w.reports, v.run.pc = w.run.pc,
           v.run.cur = w.run.cur, v.run.key = w.run.key
    PROVE  Meeting(a, L, r, v)
<1>1. /\ Holds(v) <=> Holds(w)
      /\ Counts(L, r, v) <=> Counts(L, r, w)
      /\ Sure(L, r, v) <=> Sure(L, r, w)
      /\ InPlay(L, v) = InPlay(L, w)
  BY DEF Holds, Counts, Sure, InPlay
<1>2. LineFits(a, L, r, v) /\ Quiet(a, L, r, v) /\ Told(a, L, r, v)
  BY <1>1 DEF Meeting, LineFits, Quiet, Told
<1>3. Walking(a, L, r, v)
  BY <1>1 DEF Meeting, Walking
<1>4. Planned(a, L, r, v)
  BY <1>1 DEF Meeting, Planned
<1> QED BY <1>2, <1>3, <1>4 DEF Meeting

\* The last check, the failures, the waiting and the return.
LEMMA RunnerMeet ==
    ASSUME MInv,
           \/ RunnerChecks \/ RunnerFails \/ RunnerWaits \/ RunnerTimesOut
           \/ RunnerReadsRevision \/ RunnerStops \/ RunnerReturns \/ StartGuardedTest
    PROVE  Meeting(amp', line', rt', World')
<1>1. /\ Sane(World) /\ World.sess = sess /\ World.run = run /\ World.reports = reports
      /\ sess \in Sessions /\ rt.gen \in Nat /\ sess.gen \in Nat /\ run \in Runs
  BY Types DEF MInv, Runtimes, Sessions
<1>2. Meeting(amp, line, rt, World) /\ Proper(rt.lcd) /\ Proper(sess.last)
  BY <1>1 DEF MInv, Meeting
<1>3. amp' = amp /\ line' = line /\ rt' = rt
  BY DEF RunnerChecks, RunnerFails, RunnerWaits, RunnerTimesOut, RunnerReadsRevision,
         RunnerStops, RunnerReturns, StartGuardedTest
<1>4. run.pc \notin {"idle", "top", "done"} => sess.phase # "idle"
  BY <1>1, <1>2 DEF Meeting, Quiet
<1>5. /\ World'.sess = sess' /\ World'.run = run' /\ World'.reports = reports'
  BY DEF World
<1>6. ASSUME NEW left, Becomes(left), Sane(left), Meeting(amp, line, rt, left)
      PROVE  Meeting(amp', line', rt', World')
  BY <1>3, <1>6, BecomesIs
<1>7. ASSUME sess' = sess, reports' = reports, run'.pc \notin {"check", "write"},
             sess.phase = "idle" => run'.pc \in {"idle", "top", "done"}
      PROVE  Meeting(amp', line', rt', World')
  <2> DEFINE v == World'
  <2>1. v.sess = World.sess /\ v.reports = World.reports /\ v.run = run'
    BY <1>1, <1>5, <1>7
  <2> HIDE DEF v
  <2>2. ~Holds(v)
    BY <1>7, <2>1 DEF Holds
  <2>3. Meeting(amp, line, rt, v)
    BY <1>1, <1>2, <1>7, <2>1, <2>2, NothingInHand
  <2> QED BY <1>3, <2>3 DEF v
<1>8. ASSUME NEW pc \in {"done", "stop", "top", "giveUp"}, sess.phase # "idle",
             Becomes(At(World, pc))
      PROVE  Meeting(amp', line', rt', World')
  <2>1. Sane(At(World, pc)) /\ Meeting(amp, line, rt, At(World, pc))
    BY <1>1, <1>2, <1>8, AtSane, AtMeet DEF Places
  <2> QED BY <1>6, <1>8, <2>1
<1>9. ASSUME sess.phase # "idle", Becomes(At(Fail(World), "done"))
      PROVE  Meeting(amp', line', rt', World')
  <2>1. Stops(World, Fail(World)) /\ Sane(Fail(World))
    BY <1>1, <1>2, FailStops, FailSane
  <2>2. Stops(World, At(Fail(World), "done")) /\ Sane(At(Fail(World), "done"))
    BY <2>1, AtStops, AtSane DEF Places
  <2>3. Meeting(amp, line, rt, At(Fail(World), "done"))
    BY <1>1, <1>2, <1>9, <2>2, StopsMeet
  <2> QED BY <1>6, <1>9, <2>2, <2>3
<1>10. CASE RunnerChecks
  <2>1. run.pc = "check" /\ sess' = sess /\ reports' = reports /\ sess.phase # "idle"
    BY <1>4, <1>10 DEF RunnerChecks
  <2>2. \/ run' = [run EXCEPT !.pc = "fail"]
        \/ run' = [run EXCEPT !.pc = "write"] /\ run.cur /\ Clear(rt)
    BY <1>10 DEF RunnerChecks, Prerequisites, Clear
  <2>3. CASE run' = [run EXCEPT !.pc = "fail"]
    BY <1>1, <1>7, <2>1, <2>3 DEF Runs
  <2>4. CASE run' = [run EXCEPT !.pc = "write"] /\ run.cur /\ Clear(rt)
    <3> DEFINE v == World'
    <3>1. /\ v.sess = sess /\ v.run.pc = "write" /\ v.run.key = run.key /\ v.run.cur
          /\ v.reports = reports
      BY <1>1, <1>5, <2>1, <2>4 DEF Runs
    <3> HIDE DEF v
    <3>2. /\ Counts(line, rt, World) /\ Holds(World) /\ Holds(v) /\ Sure(line, rt, World)
          /\ InPlay(line, v) = InPlay(line, World)
      BY <1>1, <2>1, <2>4, <3>1 DEF Counts, Holds, InPlay, Sure, Clear
    <3>3. LineFits(amp, line, rt, v)
      BY <1>1, <1>2, <3>1, <3>2 DEF Meeting, LineFits
    <3>4. Quiet(amp, line, rt, v) /\ Told(amp, line, rt, v)
      BY <1>1, <1>2, <2>1, <3>1, <3>2 DEF Meeting, Quiet, Told
    <3>5. Walking(amp, line, rt, v)
      BY <1>1, <1>2, <3>1, <3>2 DEF Meeting, Walking
    <3>6. Planned(amp, line, rt, v)
      BY <1>1, <1>2, <3>1, <3>2 DEF Meeting, Planned
    <3> QED BY <1>2, <1>3, <3>1, <3>3, <3>4, <3>5, <3>6 DEF Meeting, v
  <2> QED BY <2>2, <2>3, <2>4
<1>11. CASE RunnerFails
  <2>1. sess.phase # "idle" /\ (Becomes(At(Fail(World), "done")) \/ Becomes(At(World, "stop")))
    BY <1>4, <1>11 DEF RunnerFails
  <2> QED BY <1>8, <1>9, <2>1
<1>12. CASE RunnerWaits \/ RunnerTimesOut
  <2>1. /\ sess.phase # "idle"
        /\ \E pc \in {"done", "stop", "top", "giveUp"} : Becomes(At(World, pc))
    BY <1>4, <1>12 DEF RunnerWaits, RunnerTimesOut
  <2> QED BY <1>8, <2>1
<1>13. CASE RunnerReadsRevision
  <2>1. /\ sess' = sess /\ reports' = reports /\ sess.phase # "idle"
        /\ run'.pc \in {"done", "stopping"}
    BY <1>1, <1>4, <1>13 DEF RunnerReadsRevision, Runs
  <2> QED BY <1>7, <2>1
<1>14. CASE RunnerStops
  <2>1. sess.phase # "idle"
    BY <1>4, <1>14 DEF RunnerStops
  <2>2. CASE run.cur
    BY <1>9, <1>14, <2>1, <2>2 DEF RunnerStops
  <2>3. CASE ~run.cur
    <3>1. Becomes([At(World, "done") EXCEPT !.run.abandoned = sess.phase \in Running])
      BY <1>14, <2>3 DEF RunnerStops
    <3> DEFINE u == At(World, "done")
               v == [u EXCEPT !.run.abandoned = sess.phase \in Running]
    <3>2. /\ u.sess = sess /\ u.reports = reports /\ u.run.pc = "done" /\ u.run \in Runs
          /\ DOMAIN u = {"sess", "reports", "run"}
      BY <1>1, AtSane DEF At, Sane, Runs, Places
    <3> HIDE DEF u
    <3>3. v.sess = sess /\ v.reports = reports /\ v.run.pc = "done"
      BY <3>2 DEF Runs
    <3>4. sess' = v.sess /\ reports' = v.reports /\ run' = v.run
      BY <3>1 DEF Becomes, u
    <3> HIDE DEF v
    <3> QED BY <1>7, <2>1, <3>3, <3>4
  <2> QED BY <2>2, <2>3
<1>15. CASE RunnerReturns
  <2>1. /\ sess' = sess /\ reports' = reports /\ run'.pc \in {"idle", "top"}
    BY <1>1, <1>15 DEF RunnerReturns, Runs, NoRun
  <2> QED BY <1>7, <2>1
<1>16. CASE StartGuardedTest
  <2>1. sess' = sess /\ reports' = reports
    BY <1>16 DEF StartGuardedTest
  <2>2. CASE run.pc = "idle"
    <3>1. run'.pc = "top"
      BY <1>16, <2>2 DEF StartGuardedTest, NoRun
    <3> QED BY <1>7, <2>1, <3>1
  <2>3. CASE run.pc # "idle"
    <3> DEFINE v == World'
    <3>1. run'.pc = run.pc /\ run'.cur = run.cur /\ run'.key = run.key
      BY <1>1, <1>16, <2>3 DEF StartGuardedTest, Runs
    <3>2. /\ v.sess = World.sess /\ v.reports = World.reports /\ v.run.pc = World.run.pc
          /\ v.run.cur = World.run.cur /\ v.run.key = World.run.key
      BY <1>1, <1>5, <2>1, <3>1
    <3> HIDE DEF v
    <3>3. Meeting(amp, line, rt, v)
      BY <1>2, <3>2, SameHand
    <3> QED BY <1>3, <3>3 DEF v
  <2> QED BY <2>2, <2>3
<1> QED BY <1>10, <1>11, <1>12, <1>13, <1>14, <1>15, <1>16

\* The write: the key joins the line, or is lost on the way to it.
LEMMA RunnerWritesMeet ==
    ASSUME MInv, NEW io \in Answers, RunnerWrites(io)
    PROVE  Meeting(amp', line', rt', World')
<1> DEFINE v == World'
           k == run.key
<1>1. /\ World.sess = sess /\ World.run = run /\ World.reports = reports
      /\ run \in Runs /\ line \in Seq(Sent) /\ (Holds(World) => k \in Sent)
      /\ sess.gen \in Nat /\ rt.gen \in Nat
  BY Types DEF MInv, World, Runtimes, Sessions
<1>2. Meeting(amp, line, rt, World) /\ Proper(rt.lcd) /\ Proper(sess.last)
  BY <1>1 DEF MInv, Meeting
<1>3. /\ run.pc = "write" /\ amp' = amp /\ rt' = rt
      /\ v.sess = sess /\ v.reports = reports /\ v.run.pc \in {"wait", "fail"}
  BY <1>1 DEF RunnerWrites, World, Runs
<1> HIDE DEF v
<1>4. ~Holds(v) /\ Holds(World) /\ k \in Sent /\ Sure(line, rt, World)
  BY <1>1, <1>3 DEF Holds, Sure
<1>5. sess.phase \notin Waiting \cup {"idle"} /\ sess.mayBeInMenu
  BY <1>1, <1>2, <1>3, <1>4 DEF Meeting, Quiet, Told
<1>6. CASE line' = line
  <2>1. Meeting(amp, line, rt, v)
    BY <1>1, <1>2, <1>3, <1>4, <1>5, NothingInHand
  <2> QED BY <1>3, <1>6, <2>1 DEF v
<1>7. CASE line' # line
  <2> DEFINE M == Append(line, k)
  <2>1. line' = M /\ rt.gen = sess.gen
    BY <1>7 DEF RunnerWrites
  <2>2. Counts(line, rt, World)
    BY <1>1, <1>3, <2>1 DEF Counts
  <2>3. /\ Fit(amp, M) /\ ~Counts(M, rt, v)
    BY <1>1, <1>2, <1>4, <2>2 DEF Meeting, LineFits, Counts, Holds
  <2>4. InPlay(M, v) \subseteq InPlay(line, World)
    <3>1. \A i \in DOMAIN M : M[i] = k \/ (i \in DOMAIN line /\ M[i] = line[i])
      BY <1>1, <1>4
    <3>2. /\ \A i \in DOMAIN line : line[i] \in InPlay(line, World)
          /\ k \in InPlay(line, World)
      BY <1>1, <1>4 DEF InPlay
    <3> HIDE DEF M
    <3>3. InPlay(M, v) = {M[i] : i \in DOMAIN M}
      BY <1>4 DEF InPlay
    <3> QED BY <3>1, <3>2, <3>3
  <2>5. line = <<>> => Len(M) <= 1 /\ M[1] = k
    BY <1>1, <1>4
  <2> HIDE DEF M
  <2>6. LineFits(amp, M, rt, v)
    BY <2>3 DEF LineFits
  <2>7. Quiet(amp, M, rt, v) /\ Told(amp, M, rt, v)
    BY <1>1, <1>2, <1>3, <1>5 DEF Meeting, Quiet, Told
  <2>8. Walking(amp, M, rt, v)
    BY <1>1, <1>2, <1>3, <1>4, <2>4 DEF Meeting, Walking
  <2>9. Planned(amp, M, rt, v)
    <3> SUFFICES ASSUME sess.phase \in Planning PROVE Planned(amp, M, rt, v)
      BY <1>3 DEF Planned
    <3>1. line = <<>> /\ Meets(amp, k)
      BY <1>1, <1>2, <1>4, <2>2 DEF Meeting, Planned
    <3>2. \A j \in InPlay(line, World) : Expecting(sess, j) /\ j.at # "storing"
      BY <1>1, <1>2 DEF Meeting, Planned
    <3>3. sess.pending
      BY <1>1, <1>4, <3>2 DEF Expecting, InPlay
    <3>4. /\ sess.phase # "plan-ready"
          /\ sess.step = Len(Steps(sess)) => sess.last.at # "home"
      BY <1>1, <1>2, <3>3 DEF Meeting, Planned
    <3>5. /\ \A j \in InPlay(M, v) : Expecting(v.sess, j) /\ j.at # "storing"
          /\ v.sess.pending /\ v.sess.phase # "plan-ready"
          /\ v.sess.step = Len(Steps(v.sess)) => v.sess.last.at # "home"
      BY <1>3, <2>4, <3>2, <3>3, <3>4
    <3>6. Len(M) <= 1 /\ Meets(amp, M[1])
      <4>1. Len(M) <= 1 /\ M[1] = k
        BY <2>5, <3>1
      <4> QED BY <3>1, <4>1
    <3> QED BY <1>4, <2>3, <3>5, <3>6 DEF Planned
  <2>10. Meeting(amp, M, rt, v)
    BY <1>2, <1>3, <2>6, <2>7, <2>8, <2>9 DEF Meeting
  <2> QED BY <1>3, <2>1, <2>10 DEF v
<1> QED BY <1>6, <1>7

-----------------------------------------------------------------------------
(* The requests.                                                           *)

\* A session that is over, or none: no key is underway.
LEMMA RestMeet ==
    ASSUME NEW a, NEW q, NEW v, v.sess.phase \in Terminal \cup {"idle"},
           v.run.pc = "idle", v.reports = {}, v.sess.gen <= q.gen, Proper(q.lcd),
           Proper(v.sess.last), a.at = "home" \/ v.sess.phase = "idle"
    PROVE  Meeting(a, <<>>, q, v)
<1>1. ~Counts(<<>>, q, v) /\ ~Holds(v)
  BY DEF Counts, Holds
<1>2. v.sess.phase \notin Waiting \cup Planning \cup {"discovering"} /\ ~Active(v.sess)
  BY DEF Waiting, Planning, Terminal, Active
<1>3. LineFits(a, <<>>, q, v)
  BY <1>1 DEF LineFits, Fit
<1>4. Quiet(a, <<>>, q, v)
  BY <1>1, <1>2 DEF Quiet, Waiting
<1>5. Told(a, <<>>, q, v)
  BY <1>1, <1>2 DEF Told, Waiting
<1>6. Walking(a, <<>>, q, v) /\ Planned(a, <<>>, q, v)
  BY <1>2 DEF Walking, Planned
<1> QED BY <1>3, <1>4, <1>5, <1>6 DEF Meeting

\* Begin: nothing has been sent, and the panel is at home.
LEMMA BeginMeet ==
    ASSUME NEW a, NEW q, NEW w, Sane(w), w.run.pc # "write", w.sess.gen = q.gen,
           q.gen \in Nat, a.at = "home", q.lcd.at = "home", Proper(q.lcd)
    PROVE  Meeting(a, <<>>, q, Begin(w))
<1> DEFINE n == NoSession
           s == [n EXCEPT !.phase = "discovering", !.cap = NextCapability(w.sess),
                          !.lease = TRUE, !.wanted = w.sess.wanted,
                          !.completed = w.sess.completed, !.gen = w.sess.gen]
           u == [w EXCEPT !.sess = s]
           v == Bump(u)
<1>1. Begin(w) = v
  BY DEF Begin
<1>2. /\ s.phase = "discovering" /\ ~s.pending /\ ~s.exiting /\ ~s.mayBeInMenu /\ s.lease
      /\ s.gen = w.sess.gen /\ s.last = NoScreen
  BY DEF NoSession
<1>3. DOMAIN u = {"sess", "reports", "run"} /\ u.sess = s /\ u.run = w.run /\ u.run \in Runs
  <2> HIDE DEF s
  <2> QED BY DEF Sane
<1> HIDE DEF s, u
<1>4. v.sess = s /\ v.run.pc = w.run.pc /\ v.run.cur = FALSE
  BY <1>3, BumpLeaves
<1> HIDE DEF v
<1>5. ~Holds(v) /\ ~Counts(<<>>, q, v) /\ InPlay(<<>>, v) = {}
  BY <1>4 DEF Holds, Counts, InPlay
<1>6. LineFits(a, <<>>, q, v)
  BY <1>5 DEF LineFits, Fit
<1>7. Quiet(a, <<>>, q, v) /\ Told(a, <<>>, q, v)
  BY <1>2, <1>4, <1>5 DEF Quiet, Told, Waiting, Planning
<1>8. "home" \notin Pages
  BY DEF Pages, NextPage
<1>9. Walking(a, <<>>, q, v) /\ Planned(a, <<>>, q, v)
  BY <1>2, <1>4, <1>5, <1>8 DEF Walking, Planned, Planning, Current
<1>10. Proper(v.sess.last)
  BY <1>2, <1>4 DEF Proper, NoScreen
<1> QED BY <1>1, <1>6, <1>7, <1>9, <1>10 DEF Meeting

\* An armed session begins the next test, is complete, or stays as it is.
LEMMA BeginOrCompleteMeet ==
    ASSUME NEW w, Sane(w), w.sess.phase = "armed", Meeting(amp, <<>>, rt, w),
           rt.gen \in Nat, NEW granted, BeginOrComplete(w, granted)
    PROVE  Meeting(amp, <<>>, rt, World')
<1>1. /\ w.run.pc # "write" /\ w.sess.gen = rt.gen /\ amp.at = "home" /\ rt.lcd.at = "home"
      /\ Proper(rt.lcd) /\ Proper(w.sess.last)
  BY DEF Meeting, Quiet, Told, Waiting, Holds, Active, Terminal
<1>2. \/ Becomes(Complete(w)) \/ Becomes(w)
      \/ NextCapability(w.sess) # "none" /\ Becomes(Begin(w))
  BY DEF BeginOrComplete
<1>3. Sane(Complete(w)) /\ (NextCapability(w.sess) # "none" => Sane(Begin(w)))
  BY BeginSane
<1>4. CASE Becomes(Complete(w))
  <2>1. Meeting(amp, <<>>, rt, Complete(w))
    <3>1. w.sess.gen \in Nat
      BY DEF Sane, Sessions
    <3> QED BY <1>1, <3>1, CompleteStops, StopsMeet
  <2> QED BY <1>3, <1>4, <2>1, BecomesIs
<1>5. CASE Becomes(w)
  BY <1>5, BecomesIs
<1>6. CASE NextCapability(w.sess) # "none" /\ Becomes(Begin(w))
  BY <1>1, <1>3, <1>6, BeginMeet, BecomesIs
<1> QED BY <1>2, <1>4, <1>5, <1>6

\* POST session: the panel is seen at home.
LEMMA ArmMeet ==
    ASSUME MInv, NEW request \in Requests, NEW cleared \in BOOLEAN, Arm(request, cleared)
    PROVE  Meeting(amp', line', rt', World')
<1> DEFINE n == NoSession
           armed == [n EXCEPT !.phase = "armed", !.wanted = request, !.gen = rt.gen]
           aborted == [armed EXCEPT !.phase = "aborted"]
           v == World'
<1>1. rt.gen \in Nat /\ Proper(rt.lcd)
  BY Types DEF MInv, Runtimes, Meeting
<1>2. /\ line' = <<>> /\ amp' = amp /\ rt' = rt /\ amp.at = "home" /\ rt.lcd.at = "home"
      /\ sess' \in {armed, aborted} /\ run' = NoRun /\ reports' = {}
  BY DEF Arm, Home
<1>3. /\ armed.phase = "armed" /\ ~armed.mayBeInMenu /\ armed.gen = rt.gen
      /\ armed.last = NoScreen /\ DOMAIN armed = DOMAIN NoSession
  BY DEF NoSession
<1>4. /\ aborted.phase = "aborted" /\ aborted.gen = rt.gen /\ aborted.last = NoScreen
  <2> HIDE DEF armed
  <2> QED BY <1>3 DEF NoSession
<1>5. /\ v.sess = sess' /\ v.run.pc = "idle" /\ v.reports = {}
  BY <1>2 DEF World, NoRun
<1>6. Proper(NoScreen)
  BY DEF Proper, NoScreen
<1> HIDE DEF armed, aborted, v
<1>7. CASE sess' = armed
  <2>1. ~Holds(v) /\ v.sess.phase \in Waiting
    BY <1>3, <1>5, <1>7 DEF Holds, Waiting
  <2>2. Meeting(amp, <<>>, rt, v)
    BY <1>1, <1>2, <1>3, <1>5, <1>6, <1>7, <2>1, WaitsMeet
  <2> QED BY <1>2, <2>2 DEF v
<1>8. CASE sess' = aborted
  <2>1. v.sess.phase \in Terminal
    BY <1>4, <1>5, <1>8 DEF Terminal
  <2>2. Meeting(amp, <<>>, rt, v)
    BY <1>1, <1>2, <1>4, <1>5, <1>6, <1>8, <2>1, RestMeet
  <2> QED BY <1>2, <2>2 DEF v
<1> QED BY <1>2, <1>7, <1>8

\* POST session/advance and session/verification.
LEMMA OperatorMeet ==
    ASSUME MInv, NEW granted \in BOOLEAN, Advance(granted) \/ Verification(granted)
    PROVE  Meeting(amp', line', rt', World')
<1>1. /\ Sane(World) /\ World.sess = sess /\ World.run = run /\ sess \in Sessions
      /\ rt.gen \in Nat /\ DOMAIN World = {"sess", "reports", "run"} /\ run \in Runs
  BY Types DEF MInv, Runtimes, Sane
<1>2. Meeting(amp, line, rt, World) /\ Proper(rt.lcd) /\ Proper(sess.last)
  BY <1>1 DEF MInv, Meeting
<1>3. amp' = amp /\ line' = line /\ rt' = rt
  BY DEF Advance, Verification
<1>4. sess.phase \in {"armed", "awaiting-apply", "awaiting-restore"}
  BY DEF Advance, Verification
<1>5. line = <<>> /\ run.pc # "write" /\ ~Holds(World) /\ sess.gen = rt.gen
  BY <1>1, <1>2, <1>4 DEF Meeting, Quiet, Waiting, Holds, Active, Terminal
<1>6. CASE Advance(granted)
  <2>1. sess.phase = "armed" /\ BeginOrComplete(World, granted)
    BY <1>6 DEF Advance
  <2>2. Meeting(amp, <<>>, rt, World')
    BY <1>1, <1>2, <1>5, <2>1, BeginOrCompleteMeet
  <2> QED BY <1>3, <1>5, <2>2
<1>7. ASSUME sess.phase \in {"awaiting-apply", "awaiting-restore"}
      PROVE  /\ amp.at = "home" /\ rt.lcd.at = "home" /\ sess.from.at # "storing"
             /\ sess.mayBeInMenu /\ sess.lease
  BY <1>1, <1>2, <1>7 DEF Meeting, Quiet, Told, Waiting, Active, Terminal
<1>8. CASE Verification(granted) /\ sess.phase = "awaiting-apply"
  <2>1. Becomes(BeginPlan(World, "restoring"))
    BY <1>8 DEF Verification
  <2>2. sess.cap \in Capabilities
    BY <1>1, <1>8 DEF Sane, InPlan
  <2>3. Sane(BeginPlan(World, "restoring"))
    BY <1>1, <2>2, BeginPlanSane
  <2>4. "home" \notin Pages
    BY DEF Pages, NextPage
  <2>5. Current(amp, rt)
    BY <1>7, <1>8, <2>4 DEF Current
  <2>6. Meeting(amp, <<>>, rt, BeginPlan(World, "restoring"))
    BY <1>1, <1>2, <1>5, <1>7, <1>8, <2>5, BeginPlanMeet
  <2> QED BY <1>3, <1>5, <2>1, <2>3, <2>6, BecomesIs
<1>9. CASE Verification(granted) /\ sess.phase = "awaiting-restore"
  <2> DEFINE s == [sess EXCEPT !.completed = @ \cup {sess.cap}, !.phase = "armed",
                       !.cap = "none", !.plan = NoPlan, !.lease = FALSE,
                       !.mayBeInMenu = FALSE]
             u == [World EXCEPT !.sess = s]
             x == reports \cup {Report(World, "restored")}
             v == [u EXCEPT !.reports = x]
  <2>1. sess.cap \in Capabilities /\ NoPlan \in Plans /\ "armed" \in Phases
    BY <1>1, <1>9 DEF Sane, InPlan, NoPlan, Plans, Phases
  <2>2. s \in Sessions /\ s.phase = "armed"
    BY <1>1, <2>1, ZenonT(60) DEF Sessions
  <2>3. ~s.mayBeInMenu /\ s.gen = sess.gen /\ s.last = sess.last
    BY <1>1 DEF Sessions
  <2>4. Sane(u) /\ u.sess = s /\ u.run = run
    <3> HIDE DEF s
    <3>1. InPlan(s)
      BY <2>2 DEF InPlan, Running
    <3> QED BY <1>1, <2>2, <3>1, ChangeSane
  <2>5. Sane(v) /\ v.sess = s /\ v.run = run
    <3> HIDE DEF s, u, x
    <3> QED BY <2>4, ChangeSane
  <2>6. v = [World EXCEPT
               !.reports = @ \cup {Report(World, "restored")},
               !.sess.completed = @ \cup {sess.cap}, !.sess.phase = "armed",
               !.sess.cap = "none", !.sess.plan = NoPlan, !.sess.lease = FALSE,
               !.sess.mayBeInMenu = FALSE]
    BY ZenonT(60) DEF World
  <2> HIDE DEF s, u, v
  <2>7. BeginOrComplete(Bump(v), granted)
    BY <1>9, <2>6 DEF Verification
  <2> DEFINE b == Bump(v)
  <2>8. Sane(b) /\ b.sess = s /\ b.run.pc = run.pc /\ b.run.cur = FALSE
    <3>1. DOMAIN v = {"sess", "reports", "run"} /\ v.run \in Runs
      BY <1>1, <2>5 DEF Sane
    <3> QED BY <2>5, <3>1, BumpSane, BumpLeaves
  <2> HIDE DEF b
  <2>9. ~Holds(b) /\ b.sess.phase \in Waiting
    BY <1>5, <2>2, <2>8 DEF Holds, Waiting
  <2>10. Meeting(amp, <<>>, rt, b)
    BY <1>1, <1>2, <1>5, <1>7, <1>9, <2>2, <2>3, <2>8, <2>9, WaitsMeet
  <2>11. Meeting(amp, <<>>, rt, World')
    BY <1>1, <2>2, <2>7, <2>8, <2>10, BeginOrCompleteMeet DEF b
  <2> QED BY <1>3, <1>5, <2>11
<1> QED BY <1>6, <1>8, <1>9 DEF Verification

\* POST session/abort, and the restart of the process.
LEMMA AbortMeet ==
    ASSUME MInv, Abort \/ Restart
    PROVE  Meeting(amp', line', rt', World')
<1>1. /\ Sane(World) /\ World.sess = sess /\ World.run = run /\ rt.gen \in Nat
      /\ sess.gen \in Nat
  BY Types DEF MInv, Runtimes, Sessions
<1>2. Meeting(amp, line, rt, World) /\ Proper(rt.lcd) /\ Proper(sess.last)
  BY <1>1 DEF MInv, Meeting
<1>3. CASE Abort
  <2> DEFINE v == Ended(World, "aborted")
             in == v.sess.mayBeInMenu \/ ~Home(rt.lcd)
             stop == v.run.cancelled \/ run.pc # "idle"
             s == [v.sess EXCEPT !.mayBeInMenu = in]
             r == [v.run EXCEPT !.cancelled = stop, !.again = FALSE]
             u == [sess |-> s, reports |-> v.reports, run |-> r]
  <2>1. /\ sess.phase # "idle" /\ run.pc # "write" /\ Becomes(Aborted(World))
        /\ amp' = amp /\ line' = line /\ rt' = rt
    BY <1>3 DEF Abort
  <2>2. /\ Sane(v) /\ v.run.pc = run.pc /\ v.run.cur = FALSE /\ Stops(World, v)
    BY <1>1, <1>2, <2>1, EndedSane, EndedStops DEF Terminal
  <2>3. Aborted(World) = u
    <3>1. Aborted(World) = [v EXCEPT !.sess.mayBeInMenu = @ \/ ~Home(rt.lcd),
                                     !.run.cancelled = @ \/ run.pc # "idle",
                                     !.run.again = FALSE]
      BY <1>1 DEF Aborted
    <3>2. v = [sess |-> v.sess, reports |-> v.reports, run |-> v.run]
      <4> HIDE DEF v
      <4> QED BY <2>2 DEF Sane
    <3> DEFINE x == [v EXCEPT !.sess = s]
    <3>3. Aborted(World) = [x EXCEPT !.run = r]
      <4> HIDE DEF v
      <4> QED BY <3>1, <3>2
    <3> HIDE DEF v, s, r
    <3> QED BY <3>2, <3>3
  <2> HIDE DEF v
  <2>4. /\ s.phase = v.sess.phase /\ s.gen = v.sess.gen /\ s.last = v.sess.last
        /\ (v.sess.mayBeInMenu => s.mayBeInMenu)
    BY <2>2 DEF Sane, Sessions
  <2>5. r.pc = run.pc /\ r.cur = FALSE
    BY <2>2 DEF Sane, Runs
  <2> HIDE DEF s, r
  <2>6. Stops(World, u)
    BY <1>1, <2>1, <2>2, <2>4, <2>5 DEF Stops
  <2>7. World' = u
    BY <2>1, <2>3 DEF Becomes, World
  <2> HIDE DEF u
  <2>8. Meeting(amp, line, rt, u)
    BY <1>1, <1>2, <2>1, <2>6, StopsMeet
  <2> QED BY <2>1, <2>7, <2>8
<1>4. CASE Restart
  <2> DEFINE v == World'
  <2>1. /\ amp' = amp /\ line' = <<>> /\ rt' = NoRuntime
        /\ v = [sess |-> NoSession, reports |-> {}, run |-> NoRun]
    BY <1>4 DEF Restart, World
  <2>2. /\ v.sess.phase = "idle" /\ v.run.pc = "idle" /\ v.reports = {} /\ v.sess.gen = 0
        /\ v.sess.last = NoScreen /\ NoRuntime.gen = 0 /\ NoRuntime.lcd = NoLcd
    BY <2>1 DEF NoSession, NoRun, NoRuntime
  <2>3. Proper(NoScreen) /\ Proper(NoLcd)
    BY DEF Proper, NoScreen, NoLcd
  <2> HIDE DEF v
  <2>4. Meeting(amp, <<>>, rt', v)
    BY <2>1, <2>2, <2>3, RestMeet
  <2> QED BY <2>1, <2>4 DEF v
<1> QED BY <1>3, <1>4

-----------------------------------------------------------------------------
(* Keys find their screens, and operators are told.                        *)

\* The amplifier acts, is operated by hand, changes its mode or is replaced.
LEMMA AmplifierMeet ==
    ASSUME MInv,
           \/ AmpActs \/ AmpHasStored \/ PressDisplay \/ Replace
           \/ \E to \in {"standby", "operate", "tx"} : ChangeMode(to)
    PROVE  Meeting(amp', line', rt', World')
<1>1. World' = World
  BY DEF AmpActs, AmpHasStored, PressDisplay, Replace, ChangeMode, World
<1>2. CASE AmpActs
  BY <1>1, <1>2, AmpActsMeet DEF AmpActs
<1>3. CASE AmpHasStored
  BY <1>1, <1>3, StoredMeet DEF AmpHasStored
<1>4. CASE PressDisplay
  BY <1>1, <1>4, PressDisplayMeet DEF PressDisplay
<1>5. CASE Replace
  BY <1>1, <1>5, ReplaceMeet DEF Replace
<1>6. ASSUME NEW to \in {"standby", "operate", "tx"}, ChangeMode(to)
      PROVE  Meeting(amp', line', rt', World')
  <2>1. amp \in AmpStates /\ Meeting(amp, line, rt, World)
    BY Types DEF MInv
  <2>2. /\ amp'.at = amp.at /\ amp'.edit = amp.edit /\ amp'.model = amp.model
        /\ line' = line /\ rt' = rt
    BY <1>6, <2>1 DEF ChangeMode, AmpStates
  <2> QED BY <1>1, <2>1, <2>2, SameScreen
<1> QED BY <1>2, <1>3, <1>4, <1>5, <1>6

\* It holds of the initial states.
LEMMA InitMInv == Init => MInv
<1> SUFFICES ASSUME Init PROVE MInv
  OBVIOUS
<1> DEFINE v == World
<1>1. /\ line = <<>> /\ rt = NoRuntime
      /\ v = [sess |-> NoSession, reports |-> {}, run |-> NoRun]
  BY DEF Init, World
<1>2. /\ v.sess.phase = "idle" /\ v.run.pc = "idle" /\ v.reports = {} /\ v.sess.gen = 0
      /\ v.sess.last = NoScreen /\ NoRuntime.gen = 0 /\ NoRuntime.lcd = NoLcd
  BY <1>1 DEF NoSession, NoRun, NoRuntime
<1>3. Proper(NoScreen) /\ Proper(NoLcd)
  BY DEF Proper, NoScreen, NoLcd
<1> HIDE DEF v
<1>4. Meeting(amp, <<>>, rt, v)
  BY <1>1, <1>2, <1>3, RestMeet
<1> QED BY <1>1, <1>4, InitIInv DEF MInv, v

\* Every step keeps it.
LEMMA NextMInv == MInv /\ [Next]_vars => MInv'
<1> SUFFICES ASSUME MInv, [Next]_vars PROVE Meeting(amp', line', rt', World')
  BY NextIInv DEF MInv
<1>1. CASE UNCHANGED vars
  BY <1>1 DEF vars, MInv, World
<1>2. CASE AmpActs \/ AmpHasStored \/ PressDisplay \/ Replace
           \/ \E to \in {"standby", "operate", "tx"} : ChangeMode(to)
  BY <1>2, AmplifierMeet
<1>3. CASE \E reading \in {0, 1}, valid \in BOOLEAN : ObserveDisplay(reading, valid)
  BY <1>3, ObserveDisplayMeet
<1>4. CASE \/ \E named \in BOOLEAN : ObserveStatus(named)
           \/ BeginSession \/ EvidenceAges \/ Expire \/ Deny
           \/ \E to \in {"off", "manual", "on"} : SettingsChange(to)
  BY <1>4, EvidenceMeet
<1>5. CASE \E legend \in BOOLEAN, io \in AuthorizeAnswers : RunnerTop(legend, io)
  BY <1>5, RunnerTopMeet
<1>6. CASE \E io \in WriteAnswers : RunnerWrites(io)
  <2>1. PICK io \in WriteAnswers : RunnerWrites(io)
    BY <1>6
  <2>2. io = Good \/ \E r \in {"lost", "unconfirmed", "refused"} : io = [Good EXCEPT !.send = r]
    BY DEF WriteAnswers
  <2>3. io \in Answers
    <3>1. Good \in Answers
      BY DEF Good, Answers
    <3>2. \A r \in {"lost", "unconfirmed", "refused"} : [Good EXCEPT !.send = r] \in Answers
      BY <3>1 DEF Answers
    <3> QED BY <2>2, <3>1, <3>2
  <2> QED BY <2>1, <2>3, RunnerWritesMeet
<1>7. CASE RunnerChecks \/ RunnerFails \/ RunnerWaits \/ RunnerTimesOut
           \/ RunnerReadsRevision \/ RunnerStops \/ RunnerReturns \/ StartGuardedTest
  BY <1>7, RunnerMeet
<1>8. CASE \E request \in Requests, cleared \in BOOLEAN : Arm(request, cleared)
  BY <1>8, ArmMeet
<1>9. CASE \E granted \in BOOLEAN : Advance(granted) \/ Verification(granted)
  BY <1>9, OperatorMeet
<1>10. CASE Abort \/ Restart
  BY <1>10, AbortMeet
<1> QED BY <1>1, <1>2, <1>3, <1>4, <1>5, <1>6, <1>7, <1>8, <1>9, <1>10 DEF Next

\* Wherever the wizard is, every key on its way meets the amplifier on the screen it was
\* authorized on, or is one of the SETs that leave home and what they lead to; and the
\* frame that was seen last, the screen that an answer is awaited for and what the session
\* says of the panel agree with where the amplifier is.
THEOREM MenuMeeting == Spec => []MInv
BY InitMInv, NextMInv, PTL DEF Spec

\* However many frames are repeated or lost, keys late or lost, evidence old, ports and
\* amplifiers new: a planned key acts on the screen, and with the value, it was
\* authorized on, for every menu, amplifier and list of capabilities.
THEOREM KeysFindScreens == Spec => []KeyFindsItsScreen
<1>1. MInv => KeyFindsItsScreen
  <2> SUFFICES ASSUME MInv, line # <<>> PROVE KeyFindsItsScreen
    BY DEF KeyFindsItsScreen
  <2>1. amp \in AmpStates /\ line \in Seq(Sent) /\ Fit(amp, line)
    BY Types DEF MInv, Meeting, LineFits
  <2>2. First(amp) \notin Pages
    BY <2>1, FirstFacts DEF OtherScreens
  <2>3. 1 \in DOMAIN line /\ Head(line) = line[1]
    BY <2>1
  <2>4. LET key == line[1]
        IN  \/ key.at = "home" \/ amp.at = "elsewhere"
            \/ amp.at = key.at /\ (amp.at \in Pages => amp.edit = key.value)
    BY <2>1, <2>2, <2>3 DEF Fit, FromHome, Meets
  <2> QED BY <2>3, <2>4 DEF KeyFindsItsScreen
<1> QED BY <1>1, MenuMeeting, PTL

\* An operator whose panel may be in the menu is told so, and a session that may still act
\* holds the lease, for every menu, amplifier and list of capabilities.
THEOREM OperatorTold == Spec => []OperatorIsTold
<1>1. MInv => OperatorIsTold
  <2> SUFFICES ASSUME MInv PROVE OperatorIsTold
    OBVIOUS
  <2>1. World.sess = sess /\ Told(amp, line, rt, World)
    BY Types DEF MInv, Meeting
  <2> QED BY <2>1 DEF Told, OperatorIsTold
<1> QED BY <1>1, MenuMeeting, PTL

-----------------------------------------------------------------------------
(* What a restoration leaves in the amplifier, unless it is replaced: A is *)
(* the amplifier, K the keys in play, s the session.                       *)

Stored(a, cap) == IF cap = "fan" THEN a.fan ELSE a.bank

\* A plan is one for the capability that is tested.
Reviewed(s) ==
    s.phase \in Planning \cup {"awaiting-apply", "awaiting-restore"} =>
        /\ s.plan.profile \in {"first-fan", "third-fan", "first-bank"}
        /\ s.cap = IF s.plan.profile = "first-bank" THEN "bank" ELSE "fan"

\* While no answer is awaited, the last frame shows the amplifier, however old it is.
InSight(a, r, s) ==
    /\ s.phase = "discovering" /\ ~s.pending =>
           Current(a, r) \/ Blurred(a, r) \/ r.lcd.at = "storing"
    /\ s.phase \in Planning /\ ~s.pending => Current(a, r) \/ r.lcd.at = "storing"

\* The last step of a restoration is taken on SAVE with the original value, and stores it.
Ends(s) == s.phase = "restoring" /\ s.step = Len(Steps(s))
Saving(x, s) ==
    x.at \in SavePages /\ CapabilityOf(x.at) = s.cap /\ x.value = s.plan.original
Saves(a, K, s) ==
    Ends(s) =>
        /\ \A k \in K : k.name = "set"
        /\ ~s.pending => Saving(s.from, s)
        /\ s.pending =>
               \/ Saving(s.last, s) /\ a.at = s.last.at /\ a.edit = s.plan.original
               \/ /\ a.at \in {"storing", "home"} /\ Stored(a, s.cap) = s.plan.original
                  /\ K = {}

Returned(a, s) == s.phase = "awaiting-restore" => Stored(a, s.cap) = s.plan.original

Restoring(a, L, r, w) ==
    LET s == w.sess IN
    Reviewed(s) /\ InSight(a, r, s) /\ Saves(a, InPlay(L, w), s) /\ Returned(a, s)

RInv == MInv /\ Restoring(amp, line, rt, World)

\* A method that reports no restoration.
Mild(w, v) == \A x \in v.reports : x \in w.reports \/ x.kind # "restored"

\* A restoration ends on SAVE, with the original value and SET.
LEMMA RestoringSaves ==
    ASSUME NEW s \in Sessions, s.phase = "restoring", Reviewed(s)
    PROVE  LET x == Steps(s)
           IN  /\ Len(x) \in Nat /\ Len(x) > 1 /\ x[Len(x)].key = "set"
               /\ x[Len(x)].at = "home" /\ Saving(x[Len(x) - 1], s)
<1> DEFINE o == s.plan.original
           c == Flip(o)
           Back(y) == /\ Len(y) \in Nat /\ Len(y) > 1 /\ y[Len(y)].key = "set"
                      /\ y[Len(y)].at = "home" /\ Saving(y[Len(y) - 1], s)
<1>1. \A key, at, v : /\ Step(key, at, v).key = key /\ Step(key, at, v).at = at
                      /\ Step(key, at, v).value = v
  BY DEF Step
<1>2. /\ ToEntry("first", "fan") \in Seq(PlanSteps) /\ ToEntry("third", "fan") \in Seq(PlanSteps)
      /\ ToEntry("first", "bank") \in Seq(PlanSteps)
  BY EntryLeads, MenuDebugAssumption DEF Models, Capabilities, SetupEntry
<1>3. /\ {"save", "thirdSave", "bankSave"} = SavePages /\ CapabilityOf("save") = "fan"
      /\ CapabilityOf("thirdSave") = "fan" /\ CapabilityOf("bankSave") = "bank"
  BY DEF SavePages, CapabilityOf, Pages, NextPage
<1>4. \A S : \A y \in Seq(PlanSteps), z \in Seq(S) : Back(z) => Back(y \o z)
  <2> SUFFICES ASSUME NEW S, NEW y \in Seq(PlanSteps), NEW z \in Seq(S), Back(z)
               PROVE  Back(y \o z)
    OBVIOUS
  <2> DEFINE x == y \o z
  <2>1. /\ Len(x) = Len(y) + Len(z) /\ Len(y) \in Nat /\ Len(z) \in Nat /\ Len(z) > 1
        /\ x[Len(y) + Len(z)] = z[Len(z)] /\ x[Len(y) + (Len(z) - 1)] = z[Len(z) - 1]
    OBVIOUS
  <2> HIDE DEF x
  <2>2. Len(x) - 1 = Len(y) + (Len(z) - 1)
    BY <2>1
  <2> QED BY <2>1, <2>2 DEF x
<1>5. CASE s.plan.profile = "first-fan"
  <2> DEFINE z == <<Step("set", "scale", c), Step("right", "fan", c), Step("set", "fan", o),
                    Step("right", "save", o), Step("set", "home", "any")>>
  <2>1. Steps(s) = ToEntry("first", "fan") \o z
    BY <1>5 DEF Steps, FirstFan
  <2>2. /\ z \in Seq({z[1], z[2], z[3], z[4], z[5]}) /\ Len(z) = 5
        /\ z[5] = Step("set", "home", "any") /\ z[4] = Step("right", "save", o)
    OBVIOUS
  <2> HIDE DEF z
  <2>3. s.cap = "fan"
    BY <1>5 DEF Reviewed, Planning
  <2>4. Back(z)
    <3>1. 5 - 1 = 4
      OBVIOUS
    <3> QED BY <1>1, <1>3, <2>2, <2>3, <3>1 DEF Saving
  <2> HIDE DEF Back
  <2>5. Back(ToEntry("first", "fan") \o z)
    BY <1>2, <1>4, <2>2, <2>4
  <2> QED BY <2>1, <2>5 DEF Back
<1>6. CASE s.plan.profile = "third-fan"
  <2> DEFINE z == <<Step("set", "quiet", c), Step("right", "normal", c),
                    Step("set", "normal", o), Step("right", "thirdSave", o),
                    Step("set", "home", "any")>>
  <2>1. Steps(s) = ToEntry("third", "fan") \o z
    BY <1>6 DEF Steps, ThirdFan
  <2>2. /\ z \in Seq({z[1], z[2], z[3], z[4], z[5]}) /\ Len(z) = 5
        /\ z[5] = Step("set", "home", "any") /\ z[4] = Step("right", "thirdSave", o)
    OBVIOUS
  <2> HIDE DEF z
  <2>3. s.cap = "fan"
    BY <1>6 DEF Reviewed, Planning
  <2>4. Back(z)
    <3>1. 5 - 1 = 4
      OBVIOUS
    <3> QED BY <1>1, <1>3, <2>2, <2>3, <3>1 DEF Saving
  <2> HIDE DEF Back
  <2>5. Back(ToEntry("third", "fan") \o z)
    BY <1>2, <1>4, <2>2, <2>4
  <2> QED BY <2>1, <2>5 DEF Back
<1>7. CASE s.plan.profile = "first-bank"
  <2> DEFINE z == <<Step("set", "bankB", c), Step("right", "bankSave", c),
                    Step("right", "bankA", c), Step("set", "bankA", o),
                    Step("right", "bankB", o), Step("right", "bankSave", o),
                    Step("set", "home", o)>>
  <2>1. Steps(s) = ToEntry("first", "bank") \o z
    BY <1>7 DEF Steps, FirstBank
  <2>2. /\ z \in Seq({z[1], z[2], z[3], z[4], z[5], z[6], z[7]}) /\ Len(z) = 7
        /\ z[7] = Step("set", "home", o) /\ z[6] = Step("right", "bankSave", o)
    OBVIOUS
  <2> HIDE DEF z
  <2>3. s.cap = "bank"
    BY <1>7 DEF Reviewed, Planning
  <2>4. Back(z)
    <3>1. 7 - 1 = 6
      OBVIOUS
    <3> QED BY <1>1, <1>3, <2>2, <2>3, <3>1 DEF Saving
  <2> HIDE DEF Back
  <2>5. Back(ToEntry("first", "bank") \o z)
    BY <1>2, <1>4, <2>2, <2>4
  <2> QED BY <2>1, <2>5 DEF Back
<1>8. s.plan.profile \in {"first-fan", "third-fan", "first-bank"}
  BY DEF Reviewed, Planning
<1> QED BY <1>5, <1>6, <1>7, <1>8

-----------------------------------------------------------------------------
(* What reports no restoration.                                            *)

\* A session that is over.
LEMMA EndedMild ==
    ASSUME NEW w, Sane(w), NEW phase \in Terminal, phase # "aborted"
    PROVE  Mild(w, Ended(w, phase)) /\ Ended(w, phase).sess.phase = phase
<1> DEFINE kept == Retain(w)
           s == Over(kept.sess, phase)
           u == [kept EXCEPT !.sess = s]
<1>1. Sane(kept) /\ (kept = w \/ kept.reports = w.reports \cup {Report(w, "incomplete")})
  <2>1. Sane(kept)
    BY RetainSane
  <2> QED BY <2>1 DEF Retain, Sane
<1>2. Report(w, "incomplete").kind = "incomplete"
  BY DEF Report
<1>3. Ended(w, phase) = Bump(u)
  BY DEF Ended
<1> HIDE DEF kept, s
<1>4. DOMAIN u = {"sess", "reports", "run"} /\ u.reports = kept.reports /\ u.run \in Runs
  BY <1>1 DEF Sane
<1> HIDE DEF u
<1>5. Ended(w, phase).reports = kept.reports
  BY <1>3, <1>4, BumpLeaves
<1> QED BY <1>1, <1>2, <1>5, EndedSane DEF Mild

LEMMA FailMild ==
    ASSUME NEW w, Sane(w)
    PROVE  Mild(w, Fail(w)) /\ Fail(w).sess.phase = "failed"
<1> DEFINE v == Ended(w, "failed")
           in == \/ v.sess.mayBeInMenu \/ w.sess.acted
                 \/ w.sess.phase \in {"discovering", "applying", "restoring"}
           s == [v.sess EXCEPT !.mayBeInMenu = in]
           u == [v EXCEPT !.sess = s]
<1>1. Sane(v) /\ Mild(w, v) /\ v.sess.phase = "failed"
  BY EndedSane, EndedMild DEF Terminal
<1>2. Fail(w) = u
  BY <1>1 DEF Fail, Sane
<1> HIDE DEF v, in
<1>3. u.sess = s /\ u.reports = v.reports /\ s.phase = "failed"
  BY <1>1 DEF Sane, Sessions
<1> QED BY <1>1, <1>2, <1>3 DEF Mild

LEMMA AtMild ==
    ASSUME NEW w, Sane(w), NEW pc
    PROVE  /\ At(w, pc).sess = w.sess /\ At(w, pc).reports = w.reports
           /\ At(w, pc).run.pc = pc
BY DEF At, Sane, Runs

LEMMA InvalidateMild ==
    ASSUME NEW w, Sane(w)
    PROVE  /\ Mild(w, Invalidate(w))
           /\ (Invalidate(w) = w /\ ~Active(w.sess)) \/ Invalidate(w).sess.phase = "failed"
<1> DEFINE s == Over(w.sess, "failed")
           u == [w EXCEPT !.sess = s, !.reports = {}]
<1>1. s.phase = "failed"
  BY DEF Over, NoSession
<1>2. (Invalidate(w) = w /\ ~Active(w.sess)) \/ Invalidate(w) = Bump(u)
  BY DEF Invalidate, Sane
<1> HIDE DEF s
<1>3. DOMAIN u = {"sess", "reports", "run"} /\ u.reports = {} /\ u.run \in Runs /\ u.sess = s
  BY DEF Sane
<1> HIDE DEF u
<1>4. Bump(u).reports = {} /\ Bump(u).sess = s
  BY <1>3, BumpLeaves
<1> QED BY <1>1, <1>2, <1>4 DEF Mild

LEMMA TopologyMild ==
    ASSUME NEW w, Sane(w), NEW home \in BOOLEAN
    PROVE  Mild(w, CompleteTopology(w, home))
<1> DEFINE phase == IF home THEN "armed" ELSE "awaiting-home"
           x == [w EXCEPT !.reports = @ \cup {Report(w, "topology")},
                   !.sess.completed = @ \cup {w.sess.cap}, !.sess.cap = "none",
                   !.sess.phase = phase, !.sess.lease = ~home, !.sess.mayBeInMenu = ~home]
           y == [x EXCEPT !.sess.last = NoScreen, !.sess.seen = {}, !.sess.acted = TRUE,
                          !.sess.pending = FALSE, !.sess.exiting = FALSE]
<1>1. /\ DOMAIN x = {"sess", "reports", "run"} /\ x.run = w.run
      /\ x.reports = w.reports \cup {Report(w, "topology")}
  <2> HIDE DEF phase
  <2> QED BY DEF Sane
<1>2. /\ y.run = w.run /\ y.reports = x.reports /\ DOMAIN y = {"sess", "reports", "run"}
  <2> HIDE DEF x
  <2> QED BY <1>1
<1>3. CompleteTopology(w, home) = Bump(y)
  BY DEF CompleteTopology
<1> HIDE DEF y, x
<1>4. Bump(y).reports = x.reports
  BY <1>2, BumpLeaves DEF Sane
<1>5. Report(w, "topology").kind = "topology"
  BY DEF Report
<1> QED BY <1>1, <1>3, <1>4, <1>5 DEF Mild

-----------------------------------------------------------------------------
(* What keeps a restoration in sight.                                      *)

\* A session without a plan.
LEMMA OffRestores ==
    ASSUME NEW a, NEW L, NEW r, NEW v,
           v.sess.phase \in Terminal \cup {"idle", "armed", "awaiting-home"}
    PROVE  Restoring(a, L, r, v)
BY DEF Terminal, Restoring, Reviewed, InSight, Saves, Ends, Returned, Planning

\* The session stays, no key is added, and the amplifier keeps what it shows and stores.
LEMMA KeptRestores ==
    ASSUME NEW a, NEW b, NEW L, NEW M, NEW r, NEW q, NEW w, NEW v, Restoring(a, L, r, w),
           v.sess = w.sess, q.lcd = r.lcd, InPlay(M, v) \subseteq InPlay(L, w),
           b.at = a.at, b.edit = a.edit, b.fan = a.fan, b.bank = a.bank, b.model = a.model
    PROVE  Restoring(b, M, q, v)
<1> DEFINE s == w.sess
<1>1. (Current(a, r) => Current(b, q)) /\ (Blurred(a, r) => Blurred(b, q))
  BY DEF Current, Blurred, First
<1>2. Stored(b, s.cap) = Stored(a, s.cap)
  BY DEF Stored
<1>3. InSight(b, q, s)
  BY <1>1 DEF Restoring, InSight
<1>4. Saves(b, InPlay(M, v), s)
  <2>1. Saves(a, InPlay(L, w), s)
    BY DEF Restoring
  <2> HIDE DEF s
  <2> QED BY <1>2, <2>1 DEF Saves
<1>5. Returned(b, s)
  BY <1>2 DEF Restoring, Returned
<1> QED BY <1>3, <1>4, <1>5 DEF Restoring

\* A plan that awaits its next key.
LEMMA PlansRestore ==
    ASSUME NEW a, NEW L, NEW r, NEW v, Meeting(a, L, r, v), v.sess.phase \in Planning,
           ~v.sess.pending, Reviewed(v.sess), Current(a, r) \/ r.lcd.at = "storing",
           Ends(v.sess) => Saving(v.sess.from, v.sess)
    PROVE  Restoring(a, L, r, v)
<1>1. InPlay(L, v) = {}
  BY DEF Meeting, Planned, Expecting
<1>2. v.sess.phase \notin {"discovering", "awaiting-restore"}
  BY DEF Planning
<1> QED BY <1>1, <1>2 DEF Restoring, InSight, Saves, Returned

-----------------------------------------------------------------------------
(* The amplifier stores what it was told to.                               *)

\* SET on SAVE stores the value that is shown, for its capability.
LEMMA SaveActs ==
    ASSUME amp \in AmpStates, Acts("set"), amp.at \in SavePages
    PROVE  amp'.at = "storing" /\ Stored(amp', CapabilityOf(amp.at)) = amp.edit
<1>1. /\ SavePages \cap Setup = {} /\ SetupEntry.fan \notin SavePages
      /\ SetupEntry.bank \notin SavePages /\ "home" \notin SavePages
      /\ SavePages \cap {"fan", "normal", "bankA", "quiet", "bankB"} = {}
  <2>1. SavePages \subseteq Pages
    BY DEF SavePages, Pages, NextPage
  <2>2. \A x \in Setup : x \notin Pages
    BY SetupApart
  <2> QED BY <2>1, <2>2 DEF SavePages, SetupEntry
<1>2. amp' = Store
  BY <1>1 DEF Acts
<1>3. CapabilityOf(amp.at) \in {"fan", "bank"}
  BY DEF CapabilityOf, SavePages, Pages, NextPage
<1> QED BY <1>2, <1>3 DEF Store, Stored, AmpStates

\* A key acts.
LEMMA AmpActsRestores ==
    ASSUME RInv, AmpActs
    PROVE  Restoring(amp', Tail(line), rt, World)
<1> DEFINE T == Tail(line)
           w == World
<1>1. /\ amp \in AmpStates /\ line \in Seq(Sent) /\ w.sess = sess
      /\ Meeting(amp, line, rt, w) /\ Restoring(amp, line, rt, w) /\ MInv
  BY Types DEF RInv, MInv
<1>2. /\ line # <<>> /\ Acts(line[1].name) /\ 1 \in DOMAIN line
      /\ line[1] \in InPlay(line, w) /\ InPlay(T, w) \subseteq InPlay(line, w)
      /\ (Len(line) <= 1 => T = <<>>)
  <2>1. Head(line) = line[1] /\ \A i \in DOMAIN T : i + 1 \in DOMAIN line /\ T[i] = line[i + 1]
    BY <1>1 DEF AmpActs
  <2>2. InPlay(T, w) \subseteq InPlay(line, w)
    BY <2>1 DEF InPlay
  <2>3. Len(line) <= 1 => T = <<>>
    BY <1>1 DEF AmpActs
  <2> QED BY <1>1, <2>1, <2>2, <2>3 DEF AmpActs, InPlay
<1> HIDE DEF T, w
<1>3. sess.phase \in Planning => sess.pending /\ InPlay(T, w) = {} /\ Meets(amp, line[1])
                                 /\ Expecting(sess, line[1])
  <2> SUFFICES ASSUME sess.phase \in Planning
               PROVE  /\ sess.pending /\ InPlay(T, w) = {} /\ Meets(amp, line[1])
                      /\ Expecting(sess, line[1])
    OBVIOUS
  <2>1. Expecting(sess, line[1]) /\ Len(line) <= 1 /\ ~Holds(w) /\ Meets(amp, line[1])
    BY <1>1, <1>2 DEF Meeting, Planned
  <2>2. T = <<>>
    BY <1>2, <2>1
  <2> QED BY <2>1, <2>2 DEF InPlay, Expecting
<1>4. InSight(amp', rt, sess)
  <2>1. sess.phase = "discovering" /\ ~sess.pending =>
            Current(amp', rt) \/ Blurred(amp', rt) \/ rt.lcd.at = "storing"
    BY <1>1, DiscoveryInSight DEF Restoring, InSight
  <2> QED BY <1>3, <2>1 DEF InSight
<1>5. Saves(amp', InPlay(T, w), sess)
  <2> SUFFICES ASSUME Ends(sess) PROVE Saves(amp', InPlay(T, w), sess)
    BY DEF Saves
  <2>1. /\ sess.pending /\ InPlay(T, w) = {} /\ Meets(amp, line[1]) /\ Expecting(sess, line[1])
    BY <1>3 DEF Ends, Planning
  <2>2. /\ line[1].name = "set" /\ Saving(sess.last, sess)
        /\ amp.at = sess.last.at /\ amp.edit = sess.plan.original
    BY <1>1, <1>2, <2>1 DEF Restoring, Saves
  <2>3. amp'.at = "storing" /\ Stored(amp', CapabilityOf(amp.at)) = amp.edit
    BY <1>1, <1>2, <2>2, SaveActs DEF Saving
  <2> QED BY <2>1, <2>2, <2>3 DEF Saves, Saving
<1>6. Returned(amp', sess)
  BY <1>1, <1>2 DEF Meeting, Quiet, Waiting, Returned
<1> QED BY <1>1, <1>4, <1>5, <1>6 DEF Restoring, T, w

\* The amplifier acts, is operated by hand or changes its mode.
LEMMA AmplifierRestores ==
    ASSUME RInv,
           \/ AmpActs \/ AmpHasStored \/ PressDisplay
           \/ \E to \in {"standby", "operate", "tx"} : ChangeMode(to)
    PROVE  Restoring(amp', line', rt', World')
<1>1. /\ amp \in AmpStates /\ line \in Seq(Sent) /\ World.sess = sess
      /\ Meeting(amp, line, rt, World) /\ Restoring(amp, line, rt, World)
  BY Types DEF RInv, MInv
<1>2. World' = World /\ rt' = rt
  BY DEF AmpActs, AmpHasStored, PressDisplay, ChangeMode, World
<1>3. CASE AmpActs
  BY <1>2, <1>3, AmpActsRestores DEF AmpActs
<1>4. CASE AmpHasStored
  <2>1. /\ amp.at = "storing" /\ amp' = [amp EXCEPT !.at = "home", !.edit = "a"]
        /\ line' = line
    BY <1>4 DEF AmpHasStored
  <2>2. /\ amp'.at = "home" /\ \A c : Stored(amp', c) = Stored(amp, c)
    BY <1>1, <2>1 DEF AmpStates, Stored
  <2>3. First(amp) # "storing" /\ "storing" \notin SavePages
    BY <1>1, FirstFacts DEF OtherScreens, SavePages
  <2>4. InSight(amp', rt, sess)
    BY <1>1, <2>1, <2>3 DEF Restoring, InSight, Current, Blurred
  <2>5. Saves(amp', InPlay(line, World), sess)
    BY <1>1, <2>1, <2>2, <2>3 DEF Restoring, Saves, Saving
  <2>6. Returned(amp', sess)
    BY <1>1, <2>2 DEF Restoring, Returned
  <2> QED BY <1>1, <1>2, <2>1, <2>4, <2>5, <2>6 DEF Restoring
<1>5. CASE PressDisplay
  BY <1>1, <1>2, <1>5, OffRestores DEF PressDisplay
<1>6. ASSUME NEW to \in {"standby", "operate", "tx"}, ChangeMode(to)
      PROVE  Restoring(amp', line', rt', World')
  <2>1. /\ amp'.at = amp.at /\ amp'.edit = amp.edit /\ amp'.fan = amp.fan
        /\ amp'.bank = amp.bank /\ amp'.model = amp.model /\ line' = line
    BY <1>1, <1>6 DEF ChangeMode, AmpStates
  <2> QED BY <1>1, <1>2, <2>1, KeptRestores
<1> QED BY <1>3, <1>4, <1>5, <1>6

-----------------------------------------------------------------------------
(* What is heard and shown.                                                *)

\* A status frame, a new port, the age of what was heard, the end of the session's
\* lifetime, an operator who denies.
LEMMA EvidenceRestores ==
    ASSUME RInv,
           \/ \E named \in BOOLEAN : ObserveStatus(named)
           \/ BeginSession \/ EvidenceAges \/ Expire \/ Deny
           \/ \E to \in {"off", "manual", "on"} : SettingsChange(to)
    PROVE  Restoring(amp', line', rt', World') /\ Mild(World, World')
<1>1. /\ Sane(World) /\ World.sess = sess /\ rt \in Runtimes
      /\ Restoring(amp, line, rt, World)
  BY Types DEF RInv, MInv
<1>2. ASSUME NEW v, Becomes(v), Sane(v), Mild(World, v),
             v.sess.phase \in Terminal \cup {"idle"}
      PROVE  Restoring(amp', line', rt', World') /\ Mild(World, World')
  BY <1>2, BecomesIs, OffRestores
<1>3. ASSUME amp' = amp, line' = line, rt'.lcd = rt.lcd, World' = World
      PROVE  Restoring(amp', line', rt', World') /\ Mild(World, World')
  <2>1. Restoring(amp, line, rt', World)
    BY <1>1, <1>3, KeptRestores
  <2> QED BY <1>3, <2>1 DEF Mild
<1>4. Sane(Invalidate(World)) /\ Sane(Fail(World))
  BY <1>1, InvalidateSane, FailSane
<1>5. ASSUME Becomes(Fail(World))
      PROVE  Restoring(amp', line', rt', World') /\ Mild(World, World')
  BY <1>1, <1>2, <1>4, <1>5, FailMild DEF Terminal
<1>6. ASSUME NEW named \in BOOLEAN, ObserveStatus(named)
      PROVE  Restoring(amp', line', rt', World') /\ Mild(World, World')
  <2>1. amp' = amp /\ line' = line /\ rt'.lcd = rt.lcd
    BY <1>1, <1>6 DEF ObserveStatus, Runtimes
  <2> DEFINE told == IF named /\ rt.model \notin {"none", amp.model} THEN Invalidate(World)
                                                                  ELSE World
  <2>2. Becomes(IF amp.mode = "tx" /\ Active(told.sess) THEN Fail(told) ELSE told)
    BY <1>6 DEF ObserveStatus
  <2>3. told = World \/ (told = Invalidate(World) /\ told.sess.phase = "failed")
    BY <1>1, InvalidateMild
  <2>4. \/ Becomes(World) \/ Becomes(Fail(World))
        \/ Becomes(Invalidate(World)) /\ Invalidate(World).sess.phase = "failed"
    BY <2>2, <2>3 DEF Active, Terminal
  <2>5. CASE Becomes(World)
    BY <1>1, <1>3, <2>1, <2>5, BecomesIs
  <2>6. CASE Becomes(Invalidate(World)) /\ Invalidate(World).sess.phase = "failed"
    BY <1>1, <1>2, <1>4, <2>6, InvalidateMild DEF Terminal
  <2> QED BY <1>5, <2>4, <2>5, <2>6
<1>7. CASE BeginSession
  <2>1. Becomes(Invalidate(World))
    BY <1>7 DEF BeginSession
  <2>2. /\ Mild(World, Invalidate(World))
        /\ Invalidate(World).sess.phase \in Terminal \cup {"idle"}
    BY <1>1, InvalidateMild DEF Active, Terminal
  <2> QED BY <1>2, <1>4, <2>1, <2>2
<1>8. CASE EvidenceAges
  <2>1. amp' = amp /\ line' = line /\ World' = World /\ rt'.lcd = rt.lcd
    BY <1>1, <1>8 DEF EvidenceAges, World, Runtimes
  <2> QED BY <1>3, <2>1
<1>9. CASE Expire
  <2>1. Becomes(Ended(World, "expired"))
    BY <1>9 DEF Expire
  <2>2. /\ Sane(Ended(World, "expired")) /\ Mild(World, Ended(World, "expired"))
        /\ Ended(World, "expired").sess.phase = "expired"
    BY <1>1, EndedSane, EndedMild DEF Terminal
  <2> QED BY <1>2, <2>1, <2>2 DEF Terminal
<1>10. CASE Deny
  BY <1>5, <1>10 DEF Deny
<1>11. ASSUME NEW to \in {"off", "manual", "on"}, SettingsChange(to)
       PROVE  Restoring(amp', line', rt', World') /\ Mild(World, World')
  <2>1. amp' = amp /\ line' = line /\ rt' = rt /\ World' = World
    BY <1>11 DEF SettingsChange, World
  <2> QED BY <1>3, <2>1
<1> QED BY <1>6, <1>7, <1>8, <1>9, <1>10, <1>11

\* What a frame that answers a discovery key leaves.
LEMMA DiscoveryFrameLeaves ==
    ASSUME NEW w, Sane(w), NEW lcd \in Lcds, w.sess.phase = "discovering"
    PROVE  LET v == DiscoveryFrame(w, lcd)
           IN  /\ Mild(w, v)
               /\ v.sess.phase \in {"discovering", "failed", "armed"}
<1> DEFINE s == [w.sess EXCEPT !.last = Screen(lcd)]
           newer == [w EXCEPT !.sess = s]
           t == [s EXCEPT !.seen = @ \cup {Screen(lcd)}, !.pending = FALSE]
           u == [newer EXCEPT !.sess = t]
<1>1. /\ s \in Sessions /\ s.phase = "discovering" /\ s.cap = w.sess.cap
      /\ w.sess \in Sessions /\ InPlan(w.sess)
  BY ScreenTyped DEF Sane, Sessions
<1>2. Sane(newer) /\ newer.sess = s /\ newer.reports = w.reports
  <2>1. InPlan(s) /\ s.phase # "aborted"
    <3> HIDE DEF s
    <3> QED BY <1>1 DEF InPlan, Running
  <2> HIDE DEF s
  <2>2. Sane(newer) /\ newer.sess = s
    BY <1>1, <2>1, ChangeSane
  <2> QED BY <2>2 DEF Sane
<1>3. t.phase = "discovering"
  <2> HIDE DEF s
  <2> QED BY <1>1 DEF Sessions
<1>4. DOMAIN u = {"sess", "reports", "run"} /\ u.run \in Runs /\ u.sess = t
      /\ u.reports = w.reports
  <2> HIDE DEF t, newer
  <2> QED BY <1>2 DEF Sane
<1>5. DiscoveryFrame(w, lcd) \in {w, Fail(newer), CompleteTopology(newer, TRUE), Bump(u)}
  <2>1. newer = [w EXCEPT !.sess.last = Screen(lcd)]
    BY DEF Sane
  <2>2. u = [newer EXCEPT !.sess.seen = @ \cup {Screen(lcd)}, !.sess.pending = FALSE]
    <3> HIDE DEF newer, s
    <3> QED BY <1>2 DEF Sane
  <2> HIDE DEF newer, u, s, t
  <2> QED BY <2>1, <2>2 DEF DiscoveryFrame
<1> HIDE DEF newer, u, s, t
<1>6. Bump(u).sess = t /\ Bump(u).reports = w.reports
  BY <1>4, BumpLeaves
<1>7. Fail(newer).sess.phase = "failed" /\ Mild(newer, Fail(newer))
  BY <1>2, FailMild
<1>8. /\ CompleteTopology(newer, TRUE).sess.phase = "armed"
      /\ Mild(newer, CompleteTopology(newer, TRUE))
  BY <1>2, TopologyLeaves, TopologyMild
<1> QED BY <1>2, <1>3, <1>5, <1>6, <1>7, <1>8 DEF Mild

\* The session that a planned key has been answered for.
Answered(s, lcd) ==
    LET end == s.step = Len(Steps(s))
    IN  [s EXCEPT !.pending = FALSE, !.step = @ + 1,
                  !.from = IF end THEN NoScreen ELSE Screen(lcd), !.last = NoScreen,
                  !.phase = IF ~end THEN @
                            ELSE IF @ = "applying" THEN "awaiting-apply"
                                                   ELSE "awaiting-restore"]

\* What a frame that answers a planned key leaves.
LEMMA PlannedFrameLeaves ==
    ASSUME NEW w, Sane(w), NEW lcd \in Lcds, w.sess.phase \in {"applying", "restoring"}
    PROVE  LET v == PlannedFrame(w, lcd)
               s == w.sess
               end == s.step = Len(Steps(s))
           IN  /\ Mild(w, v)
               /\ \/ v = w
                  \/ v.sess.phase = "failed"
                  \/ /\ end /\ lcd.at = "storing"
                     /\ v.sess = [s EXCEPT !.last = Screen(lcd)]
                     /\ v.run.pc = w.run.pc /\ v.run.key = w.run.key /\ v.run.cur = FALSE
                  \/ /\ Expected(Steps(s)[s.step], lcd)
                     /\ v.sess = Answered(s, lcd)
<1> DEFINE steps == Steps(w.sess)
           end == w.sess.step = Len(steps)
           s == [w.sess EXCEPT !.last = Screen(lcd)]
           newer == [w EXCEPT !.sess = s]
           t == Answered(w.sess, lcd)
           u == [w EXCEPT !.sess = t]
<1>1. /\ s \in Sessions /\ s.phase = w.sess.phase /\ s.cap = w.sess.cap
      /\ s.plan = w.sess.plan /\ s.step = w.sess.step
      /\ w.sess \in Sessions /\ InPlan(w.sess)
  BY ScreenTyped DEF Sane, Sessions
<1>2. Sane(newer) /\ newer.sess = s /\ newer.reports = w.reports /\ newer.run = w.run
  <2> HIDE DEF s
  <2>1. Steps(s) = Steps(w.sess)
    BY <1>1, SamePlan
  <2>2. InPlan(s) /\ s.phase # "aborted"
    BY <1>1, <2>1 DEF InPlan
  <2>3. Sane(newer) /\ newer.sess = s
    BY <1>1, <2>2, ChangeSane
  <2> QED BY <2>3 DEF Sane
<1>3. DOMAIN u = {"sess", "reports", "run"} /\ u.run \in Runs /\ u.sess = t
      /\ u.reports = w.reports
  <2> HIDE DEF t
  <2> QED BY DEF Sane
<1>4. LET left == PlannedFrame(w, lcd)
      IN  \/ left = w \/ left = Fail(newer)
          \/ end /\ lcd.at = "storing" /\ left = Bump(newer)
          \/ Expected(steps[w.sess.step], lcd) /\ left = Bump(u)
  <2>1. newer = [w EXCEPT !.sess.last = Screen(lcd)]
    BY DEF Sane
  <2>2. u = [w EXCEPT
                 !.sess.pending = FALSE, !.sess.step = @ + 1,
                 !.sess.from = IF end THEN NoScreen ELSE Screen(lcd), !.sess.last = NoScreen,
                 !.sess.phase = IF ~end THEN @ ELSE IF @ = "applying" THEN "awaiting-apply"
                                                              ELSE "awaiting-restore"]
    <3> HIDE DEF end
    <3> QED BY DEF Sane, Sessions, Answered, end
  <2> HIDE DEF newer, u
  <2> QED BY <2>1, <2>2 DEF PlannedFrame
<1> HIDE DEF u, newer
<1>5. Bump(u).sess = t /\ Bump(u).reports = w.reports
  BY <1>3, BumpLeaves
<1>6. Fail(newer).sess.phase = "failed" /\ Mild(newer, Fail(newer))
  BY <1>2, FailMild
<1>7. /\ Bump(newer).sess = s /\ Bump(newer).reports = w.reports
      /\ Bump(newer).run.pc = w.run.pc /\ Bump(newer).run.key = w.run.key
      /\ Bump(newer).run.cur = FALSE
  <2>1. DOMAIN newer = {"sess", "reports", "run"} /\ newer.run \in Runs
    BY <1>2 DEF Sane
  <2>2. /\ Bump(newer).sess = newer.sess /\ Bump(newer).reports = newer.reports
        /\ Bump(newer).run.pc = newer.run.pc /\ Bump(newer).run.key = newer.run.key
        /\ Bump(newer).run.cur = FALSE
    BY <2>1, BumpLeaves
  <2> HIDE DEF s
  <2> QED BY <1>2, <2>2
<1>8. Mild(w, PlannedFrame(w, lcd))
  BY <1>2, <1>4, <1>5, <1>6, <1>7 DEF Mild
<1> QED BY <1>4, <1>5, <1>6, <1>7, <1>8

\* A frame that answers a planned key: the last one of a restoration shows that it is
\* stored.
LEMMA PlannedFrameRestores ==
    ASSUME RInv, NEW reading \in {0, 1}, NEW valid \in BOOLEAN, NEW q,
           q.gen = rt.gen, q.lcd = Frame(reading, valid),
           sess.phase \in {"applying", "restoring"}, sess.pending
    PROVE  Restoring(amp, line, q, PlannedFrame(World, q.lcd))
<1> DEFINE v == PlannedFrame(World, q.lcd)
           lcd == q.lcd
           steps == Steps(sess)
           step == steps[sess.step]
           end == sess.step = Len(steps)
<1>1. /\ Sane(World) /\ World.sess = sess /\ World.run = run /\ amp \in AmpStates
      /\ sess \in Sessions /\ InPlan(sess)
      /\ Restoring(amp, line, rt, World)
  BY Types DEF RInv, MInv, Sane
<1>2. /\ lcd \in Lcds /\ lcd.at = amp.at /\ (amp.at \in Pages => lcd.value = amp.edit)
  BY <1>1, FrameProper
<1>3. Current(amp, q)
  BY <1>2 DEF Current
<1>4. Meeting(amp, line, q, v)
  BY PlannedFrameMeet DEF RInv
<1>5. Reviewed(sess) /\ Saves(amp, InPlay(line, World), sess)
  BY <1>1 DEF Restoring
<1>6. /\ sess.step \in Nat /\ Len(steps) \in Nat /\ sess.phase # "discovering"
  BY <1>1, StepsLead DEF Sessions, Leads
<1> HIDE DEF lcd, steps, v
<1>7. ASSUME sess.phase = "restoring"
      PROVE  /\ Len(steps) > 1 /\ steps[Len(steps)].at = "home"
             /\ Saving(steps[Len(steps) - 1], sess)
  BY <1>1, <1>5, <1>7, RestoringSaves DEF steps
<1>8. CASE v = World
  <2>1. InSight(amp, q, sess)
    BY <1>3 DEF InSight
  <2> QED BY <1>1, <1>5, <1>8, <2>1 DEF Restoring, Returned, v
<1>9. CASE v.sess.phase = "failed"
  BY <1>9, OffRestores DEF Terminal, v
<1>10. CASE /\ end /\ lcd.at = "storing"
            /\ v.sess = [sess EXCEPT !.last = Screen(lcd)]
            /\ v.run.pc = run.pc /\ v.run.key = run.key /\ v.run.cur = FALSE
  <2> DEFINE s == v.sess
  <2>1. /\ s.phase = sess.phase /\ s.plan = sess.plan /\ s.cap = sess.cap
        /\ s.step = sess.step /\ s.pending = sess.pending /\ s.from = sess.from
    BY <1>1, <1>10 DEF Sessions
  <2>2. InPlay(line, v) \subseteq InPlay(line, World)
    BY <1>1, <1>10 DEF InPlay, Holds
  <2> HIDE DEF s
  <2>3. Reviewed(s) /\ InSight(amp, q, s) /\ Returned(amp, s)
    BY <1>3, <1>5, <2>1 DEF Reviewed, InSight, Returned
  <2>4. "storing" \notin SavePages
    BY DEF SavePages
  <2>5. Steps(s) = Steps(sess) /\ (Ends(s) => Ends(sess))
    BY <2>1, SamePlan DEF Ends
  <2>6. Saves(amp, InPlay(line, v), s)
    BY <1>2, <1>5, <1>10, <2>1, <2>2, <2>4, <2>5 DEF Saves, Saving
  <2> QED BY <2>3, <2>6 DEF Restoring, s, v
<1>11. CASE /\ Expected(step, lcd)
            /\ v.sess = Answered(sess, lcd)
  <2> DEFINE s == v.sess
  <2>1. /\ s.plan = sess.plan /\ s.cap = sess.cap /\ s.step = sess.step + 1 /\ ~s.pending
        /\ ~end => s.from = Screen(lcd) /\ s.phase = sess.phase
        /\ end => s.phase = IF sess.phase = "applying" THEN "awaiting-apply"
                                                       ELSE "awaiting-restore"
    <3> HIDE DEF end
    <3> QED BY <1>1, <1>11 DEF Sessions, Answered, end, steps
  <2> HIDE DEF s
  <2>2. Reviewed(s)
    BY <1>5, <2>1 DEF Reviewed, Planning
  <2>3. CASE ~end
    <3>1. s.phase = sess.phase /\ s.phase \in Planning /\ s.from = Screen(lcd)
      BY <2>1, <2>3 DEF Planning
    <3>2. ASSUME Ends(s) PROVE Saving(s.from, s)
      <4>1. sess.phase = "restoring" /\ sess.step + 1 = Len(steps)
        BY <2>1, <3>1, <3>2, SamePlan DEF Ends, steps
      <4>2. sess.step = Len(steps) - 1
        BY <1>6, <4>1
      <4>3. Saving(step, sess)
        BY <1>7, <4>1, <4>2
      <4>4. step.value \in Values \cup {"none"} /\ step.value # "any"
        BY <1>1, <4>3 DEF Saving, Sessions, Plans, Values
      <4>5. s.from.at = step.at /\ s.from.value = step.value
        BY <1>11, <3>1, <4>4 DEF Expected, Screen
      <4> QED BY <2>1, <4>3, <4>5 DEF Saving
    <3>3. Restoring(amp, line, q, v)
      BY <1>3, <1>4, <2>1, <2>2, <3>1, <3>2, PlansRestore DEF s
    <3> QED BY <3>3 DEF v
  <2>4. CASE end
    <3>1. s.phase \in {"awaiting-apply", "awaiting-restore"}
      BY <2>1, <2>4
    <3>2. ASSUME s.phase = "awaiting-restore"
          PROVE  Stored(amp, s.cap) = s.plan.original
      <4>1. sess.phase = "restoring" /\ Ends(sess)
        BY <2>1, <2>4, <3>2 DEF Ends, steps
      <4>2. amp.at = "home" /\ "home" \notin SavePages
        BY <1>2, <1>7, <1>11, <2>4, <4>1 DEF Expected, SavePages
      <4> QED BY <1>5, <2>1, <4>1, <4>2 DEF Saves, Saving
    <3>3. Restoring(amp, line, q, v)
      BY <2>2, <3>1, <3>2 DEF Restoring, InSight, Saves, Ends, Returned, Planning, s
    <3> QED BY <3>3 DEF v
  <2> QED BY <2>3, <2>4
<1>12. \/ v = World \/ v.sess.phase = "failed"
       \/ /\ end /\ lcd.at = "storing"
          /\ v.sess = [sess EXCEPT !.last = Screen(lcd)]
          /\ v.run.pc = run.pc /\ v.run.key = run.key /\ v.run.cur = FALSE
       \/ /\ Expected(step, lcd)
          /\ v.sess = Answered(sess, lcd)
  <2> DEFINE w == World
  <2>1. w.sess = sess /\ w.run = run /\ Sane(w) /\ lcd \in Lcds /\ v = PlannedFrame(w, lcd)
    BY <1>1, <1>2 DEF v, lcd
  <2> HIDE DEF w
  <2>2. w.sess.phase \in {"applying", "restoring"}
    BY <2>1
  <2> QED BY <2>1, <2>2, PlannedFrameLeaves DEF steps, w
<1> QED BY <1>8, <1>9, <1>10, <1>11, <1>12

\* A display frame.
LEMMA ObserveDisplayRestores ==
    ASSUME RInv, NEW reading \in {0, 1}, NEW valid \in BOOLEAN, ObserveDisplay(reading, valid)
    PROVE  Restoring(amp', line', rt', World') /\ Mild(World, World')
<1> DEFINE lcd == Frame(reading, valid)
           s == [sess EXCEPT !.phase = "armed", !.lease = FALSE, !.mayBeInMenu = FALSE]
           u == [World EXCEPT !.sess = s]
           q == rt'
<1>1. /\ Sane(World) /\ World.sess = sess /\ World.run = run /\ amp \in AmpStates
      /\ sess \in Sessions /\ rt \in Runtimes /\ World.reports = reports
      /\ DOMAIN World = {"sess", "reports", "run"} /\ run \in Runs
      /\ Restoring(amp, line, rt, World)
  BY Types DEF RInv, MInv, Sane
<1>2. /\ q.gen = rt.gen /\ q.lcd = lcd /\ amp' = amp /\ line' = line
  BY <1>1 DEF ObserveDisplay, Runtimes
<1>3. lcd.at = amp.at /\ lcd \in Lcds /\ (amp.at \in Pages => lcd.value = amp.edit)
  BY <1>1, FrameProper
<1>4. Current(amp, q)
  BY <1>2, <1>3 DEF Current
<1>5. u = [World EXCEPT !.sess.phase = "armed", !.sess.lease = FALSE,
                        !.sess.mayBeInMenu = FALSE]
  BY <1>1
<1> HIDE DEF u, s
<1>6. \/ Becomes(World)
      \/ Becomes(Fail(World))
      \/ sess.phase = "awaiting-home" /\ Becomes(Bump(u))
      \/ sess.phase = "discovering" /\ Becomes(DiscoveryFrame(World, lcd))
      \/ sess.phase \in {"applying", "restoring"} /\ sess.pending
         /\ Becomes(PlannedFrame(World, lcd))
  <2> HIDE DEF lcd
  <2> QED BY <1>5 DEF ObserveDisplay, lcd
<1> HIDE DEF lcd, q
<1>7. ASSUME NEW left, Becomes(left), Sane(left), Mild(World, left),
             Restoring(amp, line, q, left)
      PROVE  Restoring(amp', line', rt', World') /\ Mild(World, World')
  BY <1>2, <1>7, BecomesIs DEF q
<1>8. CASE Becomes(World)
  <2>1. InSight(amp, q, sess)
    BY <1>4 DEF InSight
  <2>2. Restoring(amp, line, q, World)
    BY <1>1, <2>1 DEF Restoring
  <2>3. Mild(World, World)
    BY DEF Mild
  <2> QED BY <1>1, <1>7, <1>8, <2>2, <2>3
<1>9. CASE Becomes(Fail(World))
  <2>1. Sane(Fail(World)) /\ Mild(World, Fail(World)) /\ Fail(World).sess.phase = "failed"
    BY <1>1, FailMild, FailSane
  <2> QED BY <1>7, <1>9, <2>1, OffRestores DEF Terminal
<1>10. CASE sess.phase = "awaiting-home" /\ Becomes(Bump(u))
  <2>1. DOMAIN u = {"sess", "reports", "run"} /\ u.sess = s /\ u.run = run
        /\ u.reports = reports
    BY <1>1 DEF u
  <2>2. Bump(u).sess = s /\ Bump(u).reports = reports
    BY <1>1, <2>1, BumpLeaves
  <2>3. s \in Sessions /\ s.phase = "armed"
    BY <1>1 DEF s, Sessions, Phases
  <2>4. Sane(Bump(u))
    <3>1. InPlan(s)
      BY <2>3 DEF InPlan, Running
    <3>2. Sane(u)
      BY <1>1, <2>3, <3>1, ChangeSane DEF u
    <3> QED BY <3>2, BumpSane
  <2>5. Mild(World, Bump(u))
    BY <1>1, <2>2 DEF Mild
  <2> QED BY <1>7, <1>10, <2>2, <2>3, <2>4, <2>5, OffRestores
<1>11. CASE sess.phase = "discovering" /\ Becomes(DiscoveryFrame(World, lcd))
  <2> DEFINE v == DiscoveryFrame(World, lcd)
  <2>1. Sane(v) /\ Mild(World, v) /\ v.sess.phase \in {"discovering", "failed", "armed"}
    BY <1>1, <1>3, <1>11, DiscoveryFrameSane, DiscoveryFrameLeaves
  <2> HIDE DEF v
  <2>2. Restoring(amp, line, q, v)
    <3>1. CASE v.sess.phase = "discovering"
      BY <1>4, <3>1 DEF Restoring, Reviewed, InSight, Saves, Ends, Returned, Planning
    <3> QED BY <2>1, <3>1, OffRestores DEF Terminal
  <2> QED BY <1>7, <1>11, <2>1, <2>2 DEF v
<1>12. CASE /\ sess.phase \in {"applying", "restoring"} /\ sess.pending
            /\ Becomes(PlannedFrame(World, lcd))
  <2>1. Restoring(amp, line, q, PlannedFrame(World, q.lcd))
    BY <1>2, <1>12, PlannedFrameRestores DEF lcd
  <2>2. Sane(PlannedFrame(World, lcd)) /\ Mild(World, PlannedFrame(World, lcd))
    BY <1>1, <1>3, <1>12, PlannedFrameSane, PlannedFrameLeaves
  <2> QED BY <1>2, <1>7, <1>12, <2>1, <2>2
<1> QED BY <1>6, <1>8, <1>9, <1>10, <1>11, <1>12

-----------------------------------------------------------------------------
(* The runner of a plan.                                                   *)

\* What consumeActionLocked reports, and whether it fails.
LEMMA ConsumeMild ==
    ASSUME NEW w, Sane(w), NEW name, NEW io
    PROVE  /\ Mild(w, Consume(w, name, io))
           /\ \/ Consume(w, name, io).sess.phase = "failed"
              \/ Authorized(w, name, Consume(w, name, io))
<1> DEFINE key == [name |-> name, at |-> rt.lcd.at, value |-> rt.lcd.value,
                   model |-> rt.model]
           v == [w EXCEPT !.sess.acted = TRUE, !.run.pc = "check", !.run.cur = TRUE,
                          !.run.phase = w.sess.phase, !.run.key = key]
<1>1. Consume(w, name, io) \in {At(Fail(w), "stop"), v}
  <2>1. v = [w EXCEPT !.sess.acted = TRUE, !.run.pc = "check", !.run.cur = TRUE,
                      !.run.phase = w.sess.phase,
                      !.run.key = [name |-> name, at |-> rt.lcd.at, value |-> rt.lcd.value,
                                   model |-> rt.model]]
    OBVIOUS
  <2> HIDE DEF v
  <2> QED BY <2>1 DEF Consume
<1>2. v.reports = w.reports
  <2> HIDE DEF key
  <2> QED BY DEF Sane
<1> HIDE DEF v
<1>3. Sane(Fail(w)) /\ Mild(w, Fail(w)) /\ Fail(w).sess.phase = "failed"
  BY FailSane, FailMild
<1>4. /\ At(Fail(w), "stop").reports = Fail(w).reports
      /\ At(Fail(w), "stop").sess = Fail(w).sess
  BY <1>3, AtMild
<1> QED BY <1>1, <1>2, <1>3, <1>4, ConsumeLeaves DEF Mild

\* A discovery key is authorized: its answer is awaited.
LEMMA AuthorizeRestores ==
    ASSUME RInv, NEW name, NEW io, NEW s \in Sessions, InPlan(s),
           s.phase = "discovering", s.pending
    PROVE  LET v == Consume([World EXCEPT !.sess = s], name, io)
           IN  Restoring(amp, line, rt, v) /\ Mild(World, v)
<1> DEFINE u == [World EXCEPT !.sess = s]
           v == Consume(u, name, io)
           t == [s EXCEPT !.acted = TRUE]
<1>1. Sane(World)
  BY Types DEF RInv, MInv
<1>2. Sane(u) /\ u.sess = s /\ u.reports = World.reports
  <2>1. Sane(u) /\ u.sess = s
    BY <1>1, ChangeSane
  <2> QED BY <1>1, <2>1 DEF Sane
<1>3. t.phase = "discovering" /\ t.pending
  BY DEF Sessions
<1> HIDE DEF u, t
<1>4. Mild(u, v) /\ (v.sess.phase = "failed" \/ v.sess = t)
  <2>1. Mild(u, v) /\ (v.sess.phase = "failed" \/ Authorized(u, name, v))
    BY <1>2, ConsumeMild
  <2> HIDE DEF v
  <2> QED BY <1>2, <2>1 DEF Authorized, t
<1> HIDE DEF v
<1>5. Mild(World, v)
  BY <1>2, <1>4 DEF Mild
<1>6. CASE v.sess.phase = "failed"
  BY <1>5, <1>6, OffRestores DEF v, u, Terminal
<1>7. CASE v.sess = t
  <2>1. Restoring(amp, line, rt, v)
    BY <1>3, <1>7 DEF Restoring, Reviewed, InSight, Saves, Ends, Returned, Planning
  <2> QED BY <1>5, <2>1 DEF v, u
<1> QED BY <1>4, <1>6, <1>7

\* A page is bound to the plan that was reviewed for it.
LEMMA InstallRestores ==
    ASSUME RInv, run.pc = "top", sess.phase = "discovering", ~sess.pending,
           rt.lcd.at \in Pages,
           NEW profile \in {"first-fan", "third-fan", "first-bank"},
           profile = Profile(sess.cap, rt.model, rt.lcd)
    PROVE  LET v == InstallPlan(World, profile)
           IN  Restoring(amp, line, rt, v) /\ Mild(World, v)
<1> DEFINE plan == [profile |-> profile, original |-> rt.lcd.value]
           shot == Screen(rt.lcd)
           s == [sess EXCEPT !.phase = "plan-ready", !.step = 1, !.plan = plan,
                             !.from = shot, !.last = NoScreen, !.seen = {}]
           u == [World EXCEPT !.sess = s]
           v == Bump(u)
<1>1. /\ Sane(World) /\ World.sess = sess /\ World.run = run /\ amp \in AmpStates
      /\ sess \in Sessions /\ World.reports = reports
      /\ run \in Runs /\ DOMAIN World = {"sess", "reports", "run"}
      /\ Restoring(amp, line, rt, World)
  BY Types DEF RInv, MInv, Sane
<1>2. Current(amp, rt)
  <2>1. First(amp) \notin Pages /\ "home" \notin Pages /\ "storing" \notin Pages
    BY <1>1, FirstFacts DEF OtherScreens, Pages, NextPage
  <2> QED BY <1>1, <2>1 DEF Restoring, InSight, Blurred
<1>3. sess.cap = IF profile = "first-bank" THEN "bank" ELSE "fan"
  BY DEF Profile
<1>4. /\ s.phase = "plan-ready" /\ ~s.pending /\ s.plan.profile = profile
      /\ s.cap = sess.cap
  <2> HIDE DEF shot
  <2> QED BY <1>1 DEF Sessions
<1>5. DOMAIN u = {"sess", "reports", "run"} /\ u.sess = s /\ u.run = run
      /\ u.reports = reports
  <2> HIDE DEF s
  <2> QED BY <1>1
<1>6. InstallPlan(World, profile) \in {At(Fail(World), "stop"), v}
  <2>1. u = [World EXCEPT !.sess.phase = "plan-ready", !.sess.step = 1,
                 !.sess.plan = [profile |-> profile, original |-> rt.lcd.value],
                 !.sess.from = Screen(rt.lcd), !.sess.last = NoScreen, !.sess.seen = {}]
    <3> HIDE DEF plan, shot
    <3>1. u = [World EXCEPT !.sess.phase = "plan-ready", !.sess.step = 1, !.sess.plan = plan,
                   !.sess.from = shot, !.sess.last = NoScreen, !.sess.seen = {}]
      BY <1>1
    <3> HIDE DEF u
    <3> QED BY <3>1 DEF plan, shot
  <2> HIDE DEF u
  <2> QED BY <2>1 DEF InstallPlan
<1> HIDE DEF u, s, plan
<1>7. v.sess = s /\ v.reports = reports
  BY <1>1, <1>5, BumpLeaves
<1> HIDE DEF v
<1>8. CASE InstallPlan(World, profile) = v
  <2>1. Meeting(amp, line, rt, v)
    BY <1>8, PageMeet DEF RInv
  <2>2. Reviewed(s) /\ ~Ends(s) /\ s.phase \in Planning
    BY <1>3, <1>4 DEF Reviewed, Ends, Planning
  <2>3. Restoring(amp, line, rt, v)
    BY <1>2, <1>4, <1>7, <2>1, <2>2, PlansRestore
  <2>4. Mild(World, v)
    BY <1>1, <1>7 DEF Mild
  <2> QED BY <1>8, <2>3, <2>4
<1>9. CASE InstallPlan(World, profile) = At(Fail(World), "stop")
  <2>1. Sane(Fail(World)) /\ Mild(World, Fail(World)) /\ Fail(World).sess.phase = "failed"
    BY <1>1, FailSane, FailMild
  <2>2. /\ At(Fail(World), "stop").reports = Fail(World).reports
        /\ At(Fail(World), "stop").sess = Fail(World).sess
    BY <2>1, AtMild
  <2> QED BY <1>9, <2>1, <2>2, OffRestores DEF Mild, Terminal
<1> QED BY <1>6, <1>8, <1>9

\* sendDiscovery up to the write.
LEMMA DiscoverRestores ==
    ASSUME RInv, run.pc = "top", sess.phase = "discovering", NEW legend, NEW io
    PROVE  LET v == Discover(World, legend, io)
           IN  Restoring(amp, line, rt, v) /\ Mild(World, v)
<1> DEFINE at == rt.lcd.at
           shot == Screen(rt.lcd)
           in(name) == sess.mayBeInMenu \/ name = "set"
           s(name) == [sess EXCEPT !.seen = @ \cup {shot}, !.last = shot, !.pending = TRUE,
                                   !.mayBeInMenu = in(name)]
           t == [sess EXCEPT !.seen = @ \cup {shot}, !.last = shot, !.pending = TRUE,
                             !.exiting = TRUE]
           profile == Profile(sess.cap, rt.model, rt.lcd)
           Fine(v) == Restoring(amp, line, rt, v) /\ Mild(World, v)
<1>1. /\ Sane(World) /\ World.sess = sess /\ World.run = run /\ World.reports = reports
      /\ sess \in Sessions /\ rt \in Runtimes /\ InPlan(sess) /\ shot \in Shots
      /\ World = [sess |-> sess, reports |-> reports, run |-> run]
      /\ Restoring(amp, line, rt, World)
  BY Types, ScreenTyped DEF RInv, MInv, Sane, Runtimes
<1>2. Fine(At(World, "stop"))
  <2>1. /\ At(World, "stop").sess = World.sess /\ At(World, "stop").reports = World.reports
        /\ At(World, "stop").run.pc = "stop"
    BY <1>1, AtMild
  <2>2. InPlay(line, At(World, "stop")) \subseteq InPlay(line, World)
    BY <2>1 DEF InPlay, Holds
  <2>3. Restoring(amp, line, rt, At(World, "stop"))
    BY <1>1, <2>1, <2>2, KeptRestores
  <2> QED BY <2>1, <2>3 DEF Mild
<1>3. Fine(At(Fail(World), "stop"))
  <2>1. Sane(Fail(World)) /\ Mild(World, Fail(World)) /\ Fail(World).sess.phase = "failed"
    BY <1>1, FailSane, FailMild
  <2>2. /\ At(Fail(World), "stop").reports = Fail(World).reports
        /\ At(Fail(World), "stop").sess = Fail(World).sess
    BY <2>1, AtMild
  <2> QED BY <2>1, <2>2, OffRestores DEF Mild, Terminal
<1>4. Fine(CompleteTopology(World, FALSE))
  <2>1. CompleteTopology(World, FALSE).sess.phase = "awaiting-home"
        /\ Mild(World, CompleteTopology(World, FALSE))
    BY <1>1, TopologyLeaves, TopologyMild
  <2> QED BY <2>1, OffRestores
<1> HIDE DEF Fine
<1>5. ASSUME NEW name PROVE Fine(AuthorizeDiscovery(World, name, io))
  <2>1. in(name) \in BOOLEAN
    BY <1>1 DEF Sessions
  <2>2. /\ s(name) \in Sessions /\ s(name).phase = "discovering" /\ s(name).pending
        /\ s(name).cap = sess.cap
    <3> HIDE DEF in, shot
    <3> QED BY <1>1, <2>1 DEF Sessions
  <2>3. AuthorizeDiscovery(World, name, io) = Consume([World EXCEPT !.sess = s(name)], name, io)
    <3>1. [World EXCEPT !.sess = s(name)]
              = [World EXCEPT !.sess.seen = @ \cup {Screen(rt.lcd)}, !.sess.last = Screen(rt.lcd),
                      !.sess.pending = TRUE, !.sess.mayBeInMenu = @ \/ name = "set"]
      BY <1>1
    <3> HIDE DEF s
    <3> QED BY <3>1 DEF AuthorizeDiscovery
  <2> HIDE DEF s
  <2>4. InPlan(s(name))
    BY <1>1, <2>2 DEF InPlan
  <2> QED BY <2>2, <2>3, <2>4, AuthorizeRestores DEF Fine
<1>6. Fine(AuthorizeTopologyExit(World, io))
  <2>1. /\ t \in Sessions /\ t.phase = "discovering" /\ t.pending /\ t.cap = sess.cap
    <3> HIDE DEF shot
    <3> QED BY <1>1 DEF Sessions
  <2>2. AuthorizeTopologyExit(World, io) = Consume([World EXCEPT !.sess = t], "display", io)
    <3>1. [World EXCEPT !.sess = t]
              = [World EXCEPT !.sess.seen = @ \cup {Screen(rt.lcd)}, !.sess.last = Screen(rt.lcd),
                      !.sess.pending = TRUE, !.sess.exiting = TRUE]
      BY <1>1
    <3> HIDE DEF t
    <3> QED BY <3>1 DEF AuthorizeTopologyExit
  <2> HIDE DEF t
  <2>3. InPlan(t)
    BY <1>1, <2>1 DEF InPlan
  <2> QED BY <2>1, <2>2, <2>3, AuthorizeRestores DEF Fine
<1>7. Fine(FinishTopologyOnly(World, io))
  BY <1>3, <1>4, <1>6 DEF FinishTopologyOnly
<1>8. ASSUME ~sess.pending, at \in Pages, profile # "none"
      PROVE  Fine(InstallPlan(World, profile))
  <2>1. profile \in {"first-fan", "third-fan", "first-bank"}
    BY <1>8 DEF Profile
  <2> QED BY <1>8, <2>1, InstallRestores DEF Fine
<1> HIDE DEF s, t, in
<1>9. Discover(World, legend, io)
        \in {At(World, "stop"), FinishTopologyOnly(World, io)}
            \cup {AuthorizeDiscovery(World, name, io) : name \in Buttons}
            \cup (IF ~sess.pending /\ at \in Pages /\ profile # "none"
                  THEN {InstallPlan(World, profile)} ELSE {})
  <2> DEFINE D == Discover(World, legend, io)
  <2> HIDE DEF profile, at
  <2>1. D = IF sess.pending THEN At(World, "stop")
        ELSE IF at = SetupEntry[sess.cap]
        THEN IF legend THEN AuthorizeDiscovery(World, "set", io) ELSE At(World, "stop")
        ELSE CASE at = "home" -> AuthorizeDiscovery(World, "set", io)
               [] at \in Setup -> AuthorizeDiscovery(World, "right", io)
               [] at = "scale" /\ sess.cap = "fan" /\ rt.model = "first" ->
                      AuthorizeDiscovery(World, "right", io)
               [] at \in Pages /\ profile # "none" -> InstallPlan(World, profile)
               [] at \in Pages \ {"scale"} /\ profile = "none" -> FinishTopologyOnly(World, io)
               [] OTHER -> At(World, "stop")
    BY <1>1 DEF Discover, profile, at
  <2>2. "set" \in Buttons /\ "right" \in Buttons
    BY DEF Buttons
  <2> HIDE DEF D
  <2>3. \/ D \in {At(World, "stop"), FinishTopologyOnly(World, io),
                  AuthorizeDiscovery(World, "set", io), AuthorizeDiscovery(World, "right", io)}
        \/ ~sess.pending /\ at \in Pages /\ profile # "none" /\ D = InstallPlan(World, profile)
    BY <2>1
  <2> QED BY <2>2, <2>3 DEF D
<1> HIDE DEF profile, at
<1>10. Fine(Discover(World, legend, io))
  BY <1>2, <1>5, <1>7, <1>8, <1>9
<1> QED BY <1>10 DEF Fine

\* AuthorizeNext: the key that ends a restoration is for the SAVE that shows the original
\* value, and the amplifier is there.
LEMMA AuthorizeNextRestores ==
    ASSUME RInv, run.pc = "top", sess.phase \in {"applying", "restoring"}, NEW io
    PROVE  LET v == AuthorizeNext(World, io)
           IN  Restoring(amp, line, rt, v) /\ Mild(World, v)
<1> DEFINE steps == Steps(sess)
           step == steps[sess.step]
           at == rt.lcd.at
           shot == Screen(rt.lcd)
           in == sess.mayBeInMenu \/ step.key = "set"
           s == [sess EXCEPT !.pending = TRUE, !.last = shot, !.mayBeInMenu = in]
           t == [s EXCEPT !.acted = TRUE]
           u == [World EXCEPT !.sess = s]
           v == Consume(u, step.key, io)
           Fine(x) == Restoring(amp, line, rt, x) /\ Mild(World, x)
<1>1. /\ Sane(World) /\ World.sess = sess /\ World.run = run /\ World.reports = reports
      /\ sess \in Sessions /\ rt \in Runtimes /\ InPlan(sess) /\ shot \in Shots
      /\ World = [sess |-> sess, reports |-> reports, run |-> run] /\ line \in Seq(Sent)
      /\ Restoring(amp, line, rt, World) /\ Meeting(amp, line, rt, World)
  BY Types, ScreenTyped DEF RInv, MInv, Sane, Runtimes
<1>2. /\ s \in Sessions /\ s.phase = sess.phase /\ s.plan = sess.plan
      /\ s.step = sess.step /\ s.cap = sess.cap /\ s.pending /\ s.last = shot
  <2>1. in \in BOOLEAN
    BY <1>1 DEF Sessions
  <2> HIDE DEF in, shot
  <2> QED BY <1>1, <2>1 DEF Sessions
<1>3. Sane(u) /\ u.sess = s /\ u.reports = reports
  <2> HIDE DEF s
  <2>1. Steps(s) = Steps(sess)
    BY <1>2, SamePlan
  <2>2. InPlan(s)
    BY <1>1, <1>2, <2>1 DEF InPlan
  <2>3. Sane(u) /\ u.sess = s
    BY <1>1, <1>2, <2>2, ChangeSane
  <2> QED BY <1>1, <2>3 DEF Sane
<1>4. /\ t.phase = sess.phase /\ t.plan = sess.plan /\ t.step = sess.step
      /\ t.cap = sess.cap /\ t.pending /\ t.last = shot
  <2> HIDE DEF s
  <2> QED BY <1>2 DEF Sessions
<1>5. LET D == AuthorizeNext(World, io)
      IN  \/ D = At(World, "stop") \/ D = At(Fail(World), "stop")
          \/ /\ ~sess.pending /\ D = v /\ (sess.step = Len(steps) => at \in SavePages)
             /\ sess.step = 1 \/ shot = sess.from
  <2>1. u = [World EXCEPT !.sess.pending = TRUE, !.sess.last = Screen(rt.lcd),
                          !.sess.mayBeInMenu = @ \/ step.key = "set"]
    <3> HIDE DEF step
    <3> QED BY <1>1
  <2> HIDE DEF u
  <2> QED BY <1>1, <2>1 DEF AuthorizeNext
<1> HIDE DEF s, t, u, v, step, steps, in
<1>6. Fine(At(World, "stop"))
  <2>1. /\ At(World, "stop").sess = World.sess /\ At(World, "stop").reports = World.reports
        /\ At(World, "stop").run.pc = "stop"
    BY <1>1, AtMild
  <2>2. InPlay(line, At(World, "stop")) \subseteq InPlay(line, World)
    BY <2>1 DEF InPlay, Holds
  <2>3. Restoring(amp, line, rt, At(World, "stop"))
    BY <1>1, <2>1, <2>2, KeptRestores
  <2> QED BY <2>1, <2>3 DEF Mild
<1>7. Fine(At(Fail(World), "stop"))
  <2>1. Sane(Fail(World)) /\ Mild(World, Fail(World)) /\ Fail(World).sess.phase = "failed"
    BY <1>1, FailSane, FailMild
  <2>2. /\ At(Fail(World), "stop").reports = Fail(World).reports
        /\ At(Fail(World), "stop").sess = Fail(World).sess
    BY <2>1, AtMild
  <2> QED BY <2>1, <2>2, OffRestores DEF Mild, Terminal
<1>8. ASSUME ~sess.pending, sess.step = Len(steps) => at \in SavePages,
             sess.step = 1 \/ shot = sess.from
      PROVE  Fine(v)
  <2>1. Mild(u, v) /\ (v.sess.phase = "failed" \/ Authorized(u, step.key, v))
    BY <1>3, ConsumeMild DEF v
  <2>2. Mild(World, v)
    BY <1>1, <1>3, <2>1 DEF Mild
  <2>3. CASE v.sess.phase = "failed"
    BY <2>2, <2>3, OffRestores DEF Terminal
  <2>4. CASE Authorized(u, step.key, v)
    <3>1. /\ v.sess = t /\ v.run.pc = "check" /\ v.run.cur = TRUE
          /\ v.run.key.name = step.key
      BY <1>3, <2>4 DEF Authorized, t
    <3>2. line = <<>>
      <4>1. line # <<>> => line[1] \in InPlay(line, World)
        BY <1>1 DEF InPlay
      <4> QED BY <1>1, <1>8, <4>1 DEF Meeting, Planned, Planning, Expecting
    <3>3. InPlay(line, v) = {v.run.key}
      BY <3>1, <3>2 DEF InPlay, Holds
    <3>4. Steps(t) = steps
      BY <1>4, SamePlan DEF steps
    <3>5. Reviewed(t)
      BY <1>1, <1>4 DEF Restoring, Reviewed
    <3>6. InSight(amp, rt, t) /\ Returned(amp, t)
      BY <1>4 DEF InSight, Returned
    <3>7. Saves(amp, {v.run.key}, t)
      <4> SUFFICES ASSUME Ends(t) PROVE Saves(amp, {v.run.key}, t)
        BY DEF Saves
      <4>1. sess.phase = "restoring" /\ sess.step = Len(steps) /\ Ends(sess)
        BY <1>4, <3>4 DEF Ends, steps
      <4>2. /\ Len(steps) > 1 /\ Len(steps) \in Nat /\ step.key = "set"
        <5>1. Reviewed(sess)
          BY <1>1 DEF Restoring
        <5>2. LET x == Steps(sess)
              IN  Len(x) \in Nat /\ Len(x) > 1 /\ x[Len(x)].key = "set"
          BY <1>1, <4>1, <5>1, RestoringSaves
        <5> QED BY <4>1, <5>2 DEF steps, step
      <4>3. shot = sess.from /\ at \in SavePages
        <5> HIDE DEF at, shot
        <5>1. \A n \in Nat : n > 1 => n # 1
          OBVIOUS
        <5>2. sess.step # 1
          BY <4>1, <4>2, <5>1, Zenon
        <5> QED BY <1>8, <4>1, <5>2
      <4>4. Saving(shot, sess)
        BY <1>1, <1>8, <4>1, <4>3 DEF Restoring, Saves
      <4>5. Current(amp, rt)
        <5>1. "storing" \notin SavePages /\ sess.phase \in Planning
          BY <4>1 DEF SavePages, Planning
        <5> QED BY <1>1, <1>8, <4>3, <5>1 DEF Restoring, InSight
      <4>6. amp.at = shot.at /\ amp.edit = sess.plan.original
        <5>1. SavePages \subseteq Pages
          BY DEF SavePages, Pages, NextPage
        <5> QED BY <4>3, <4>4, <4>5, <5>1 DEF Current, Saving, Screen
      <4>7. Saving(t.last, t)
        BY <1>4, <4>4 DEF Saving
      <4> QED BY <1>4, <3>1, <4>2, <4>6, <4>7 DEF Saves
    <3>8. Restoring(amp, line, rt, v)
      BY <3>1, <3>3, <3>5, <3>6, <3>7 DEF Restoring
    <3> QED BY <2>2, <3>8
  <2> QED BY <2>1, <2>3, <2>4
<1> HIDE DEF Fine
<1>9. Fine(AuthorizeNext(World, io))
  BY <1>5, <1>6, <1>7, <1>8
<1> QED BY <1>9 DEF Fine

\* beginPlan: a plan that begins is not at its end.
LEMMA BeginPlanRestores ==
    ASSUME NEW a, NEW q, NEW w, Sane(w), NEW to \in {"applying", "restoring"},
           Meeting(a, <<>>, q, BeginPlan(w, to)), Reviewed(w.sess),
           w.sess.phase \in {"plan-ready", "awaiting-apply"},
           Current(a, q) \/ q.lcd.at = "storing"
    PROVE  Restoring(a, <<>>, q, BeginPlan(w, to)) /\ Mild(w, BeginPlan(w, to))
<1> DEFINE s == [w.sess EXCEPT !.phase = to, !.step = 1, !.pending = FALSE]
           u == [w EXCEPT !.sess = s]
           v == Bump(u)
<1>1. BeginPlan(w, to) = v
  BY DEF BeginPlan, Sane
<1>2. /\ s \in Sessions /\ s.phase = to /\ ~s.pending /\ s.plan = w.sess.plan
      /\ s.cap = w.sess.cap /\ s.step = 1
  BY DEF Sane, Sessions, Phases, Running
<1>3. DOMAIN u = {"sess", "reports", "run"} /\ u.sess = s /\ u.run \in Runs
      /\ u.reports = w.reports
  <2> HIDE DEF s
  <2> QED BY DEF Sane
<1> HIDE DEF s, u
<1>4. v.sess = s /\ v.reports = w.reports
  BY <1>3, BumpLeaves
<1> HIDE DEF v
<1>5. Reviewed(s) /\ s.phase \in Planning
  BY <1>2 DEF Reviewed, Planning
<1>6. ~Ends(s)
  <2>1. s.phase = "restoring" =>
            LET x == Steps(s) IN Len(x) \in Nat /\ Len(x) > 1
    BY <1>2, <1>5, RestoringSaves
  <2>2. \A n \in Nat : n > 1 => n # 1
    OBVIOUS
  <2> QED BY <1>2, <2>1, <2>2, Zenon DEF Ends
<1>7. Restoring(a, <<>>, q, v)
  BY <1>1, <1>2, <1>4, <1>5, <1>6, PlansRestore
<1> QED BY <1>1, <1>4, <1>7 DEF Mild

\* A session that has nothing left to test is over, and reports nothing new.
LEMMA CompleteMild ==
    ASSUME NEW w, Sane(w)
    PROVE  Complete(w).reports = w.reports /\ Complete(w).sess.phase = "complete"
<1> DEFINE s == Over(w.sess, "complete")
           u == [w EXCEPT !.sess = s]
<1>1. s.phase = "complete"
  BY DEF Over, NoSession
<1>2. /\ DOMAIN u = {"sess", "reports", "run"} /\ u.sess = s /\ u.run \in Runs
      /\ u.reports = w.reports
  <2> HIDE DEF s
  <2> QED BY DEF Sane
<1>3. Complete(w) = Bump(u)
  BY DEF Complete, Sane
<1> HIDE DEF u, s
<1>4. Bump(u).sess = s /\ Bump(u).reports = w.reports
  BY <1>2, BumpLeaves
<1> QED BY <1>1, <1>3, <1>4

\* The runner, from one look at the session to an authorized key.
LEMMA RunnerTopRestores ==
    ASSUME RInv, NEW legend \in BOOLEAN, NEW io, RunnerTop(legend, io)
    PROVE  Restoring(amp', line', rt', World') /\ Mild(World, World')
<1> DEFINE Fine(x) == Restoring(amp, line, rt, x) /\ Mild(World, x)
<1>1. /\ Sane(World) /\ World.sess = sess /\ World.run = run /\ World.reports = reports
      /\ sess \in Sessions /\ rt \in Runtimes /\ rt.gen \in Nat
      /\ InPlan(sess) /\ line \in Seq(Sent) /\ Restoring(amp, line, rt, World)
      /\ Meeting(amp, line, rt, World) /\ Proper(rt.lcd) /\ Proper(sess.last)
  BY Types DEF RInv, MInv, Meeting, Sane, Runtimes
<1>2. run.pc = "top" /\ amp' = amp /\ line' = line /\ rt' = rt
  BY DEF RunnerTop
<1>3. \/ Becomes(At(World, "done"))
      \/ sess.phase = "armed" /\ Becomes(At(Complete(World), "done"))
      \/ sess.phase = "plan-ready" /\ Becomes(BeginPlan(World, "applying"))
      \/ sess.phase = "discovering" /\ Becomes(Discover(World, legend, io))
      \/ sess.phase \in {"applying", "restoring"} /\ Becomes(AuthorizeNext(World, io))
  BY DEF RunnerTop
<1>4. ASSUME NEW left, Becomes(left), Sane(left), Fine(left)
      PROVE  Restoring(amp', line', rt', World') /\ Mild(World, World')
  BY <1>2, <1>4, BecomesIs
<1>5. Sane(At(World, "done")) /\ Fine(At(World, "done"))
  <2>1. /\ At(World, "done").sess = World.sess /\ At(World, "done").reports = World.reports
        /\ At(World, "done").run.pc = "done" /\ Sane(At(World, "done"))
    BY <1>1, AtMild, AtSane DEF Places
  <2>2. InPlay(line, At(World, "done")) \subseteq InPlay(line, World)
    BY <2>1 DEF InPlay, Holds
  <2>3. Restoring(amp, line, rt, At(World, "done"))
    BY <1>1, <2>1, <2>2, KeptRestores
  <2> QED BY <2>1, <2>3 DEF Mild
<1>6. Sane(At(Complete(World), "done")) /\ Fine(At(Complete(World), "done"))
  <2>1. /\ Sane(Complete(World)) /\ Complete(World).reports = World.reports
        /\ Complete(World).sess.phase = "complete"
    BY <1>1, BeginSane, CompleteMild
  <2>2. /\ Sane(At(Complete(World), "done"))
        /\ At(Complete(World), "done").sess = Complete(World).sess
        /\ At(Complete(World), "done").reports = Complete(World).reports
    BY <2>1, AtSane, AtMild DEF Places
  <2>3. Restoring(amp, line, rt, At(Complete(World), "done"))
    BY <2>1, <2>2, OffRestores DEF Terminal
  <2> QED BY <2>1, <2>2, <2>3 DEF Mild
<1>7. ASSUME sess.phase = "plan-ready"
      PROVE  Sane(BeginPlan(World, "applying")) /\ Fine(BeginPlan(World, "applying"))
  <2>1. sess.cap \in Capabilities /\ sess.phase \in Planning
    BY <1>1, <1>7 DEF InPlan, Running, Planning
  <2>2. ~sess.pending /\ sess.from.at # "storing" /\ line = <<>>
    <3>1. line # <<>> => line[1] \in InPlay(line, World)
      BY <1>1 DEF InPlay
    <3> QED BY <1>1, <1>7, <2>1, <3>1 DEF Meeting, Planned, Expecting
  <2>3. Current(amp, rt) \/ rt.lcd.at = "storing"
    BY <1>1, <2>1, <2>2 DEF Restoring, InSight
  <2>4. sess.mayBeInMenu /\ sess.lease /\ sess.gen = rt.gen
    BY <1>1, <1>7 DEF Meeting, Told, Quiet, Planning, Active, Terminal
  <2>5. Meeting(amp, <<>>, rt, BeginPlan(World, "applying"))
    BY <1>1, <1>2, <2>2, <2>3, <2>4, BeginPlanMeet
  <2>6. Reviewed(World.sess)
    BY <1>1 DEF Restoring
  <2>7. Fine(BeginPlan(World, "applying"))
    BY <1>1, <1>7, <2>2, <2>3, <2>5, <2>6, BeginPlanRestores
  <2> HIDE DEF Fine
  <2> QED BY <1>1, <2>1, <2>7, BeginPlanSane
<1>8. ASSUME sess.phase = "discovering"
      PROVE  Sane(Discover(World, legend, io)) /\ Fine(Discover(World, legend, io))
  BY <1>1, <1>2, <1>8, DiscoverRestores, DiscoverSane
<1>9. ASSUME sess.phase \in {"applying", "restoring"}
      PROVE  Sane(AuthorizeNext(World, io)) /\ Fine(AuthorizeNext(World, io))
  BY <1>1, <1>2, <1>9, AuthorizeNextRestores, AuthorizeNextSane
<1> HIDE DEF Fine
<1> QED BY <1>3, <1>4, <1>5, <1>6, <1>7, <1>8, <1>9

\* The last check, the failures, the waiting and the return.
LEMMA RunnerRestores ==
    ASSUME RInv,
           \/ RunnerChecks \/ RunnerFails \/ RunnerWaits \/ RunnerTimesOut
           \/ RunnerReadsRevision \/ RunnerStops \/ RunnerReturns \/ StartGuardedTest
    PROVE  Restoring(amp', line', rt', World') /\ Mild(World, World')
<1>1. /\ Sane(World) /\ World.sess = sess /\ World.run = run /\ World.reports = reports
      /\ run \in Runs /\ Restoring(amp, line, rt, World)
      /\ World'.sess = sess' /\ World'.run = run' /\ World'.reports = reports'
  BY Types DEF RInv, MInv, World
<1>2. amp' = amp /\ line' = line /\ rt' = rt
  BY DEF RunnerChecks, RunnerFails, RunnerWaits, RunnerTimesOut, RunnerReadsRevision,
         RunnerStops, RunnerReturns, StartGuardedTest
<1>3. ASSUME sess' = sess, reports' = reports,
             \/ run'.pc \notin {"check", "write"}
             \/ Holds(World) /\ run'.key = run.key
             \/ run'.pc = run.pc /\ run'.cur = run.cur /\ run'.key = run.key
      PROVE  Restoring(amp', line', rt', World') /\ Mild(World, World')
  <2> DEFINE v == World'
  <2>1. v.sess = World.sess /\ v.reports = World.reports /\ v.run = run'
    BY <1>1, <1>3
  <2> HIDE DEF v
  <2>2. InPlay(line, v) \subseteq InPlay(line, World)
    BY <1>1, <1>3, <2>1 DEF InPlay, Holds
  <2>3. Restoring(amp, line, rt, v)
    BY <1>1, <2>1, <2>2, KeptRestores
  <2>4. Mild(World, v)
    BY <2>1 DEF Mild
  <2> QED BY <1>2, <2>3, <2>4 DEF v
<1>4. ASSUME NEW pc \in {"done", "stop", "top", "giveUp"}, Becomes(At(World, pc))
      PROVE  Restoring(amp', line', rt', World') /\ Mild(World, World')
  <2>1. /\ At(World, pc).sess = sess /\ At(World, pc).reports = reports
        /\ At(World, pc).run.pc = pc
    BY <1>1, AtMild
  <2>2. sess' = sess /\ reports' = reports /\ run'.pc = pc
    BY <1>4, <2>1 DEF Becomes
  <2> QED BY <1>3, <2>2
<1>5. ASSUME Becomes(At(Fail(World), "done"))
      PROVE  Restoring(amp', line', rt', World') /\ Mild(World, World')
  <2>1. Sane(Fail(World)) /\ Mild(World, Fail(World)) /\ Fail(World).sess.phase = "failed"
    BY <1>1, FailSane, FailMild
  <2>2. /\ At(Fail(World), "done").reports = Fail(World).reports
        /\ At(Fail(World), "done").sess = Fail(World).sess /\ Sane(At(Fail(World), "done"))
    BY <2>1, AtMild, AtSane DEF Places
  <2>3. World' = At(Fail(World), "done")
    BY <1>5, <2>2, BecomesIs
  <2> QED BY <1>2, <2>1, <2>2, <2>3, OffRestores DEF Mild, Terminal
<1>6. CASE RunnerChecks
  <2>1. run.pc = "check" /\ sess' = sess /\ reports' = reports
    BY <1>6 DEF RunnerChecks
  <2>2. \/ run' = [run EXCEPT !.pc = "fail"]
        \/ run' = [run EXCEPT !.pc = "write"] /\ run.cur
    BY <1>6 DEF RunnerChecks
  <2>3. run'.pc = "fail" \/ (Holds(World) /\ run'.key = run.key)
    BY <1>1, <2>1, <2>2 DEF Runs, Holds
  <2> QED BY <1>3, <2>1, <2>3
<1>7. CASE RunnerFails
  BY <1>4, <1>5, <1>7 DEF RunnerFails
<1>8. CASE RunnerWaits \/ RunnerTimesOut
  <2>1. \E pc \in {"done", "stop", "top", "giveUp"} : Becomes(At(World, pc))
    BY <1>8 DEF RunnerWaits, RunnerTimesOut
  <2> QED BY <1>4, <2>1
<1>9. CASE RunnerReadsRevision
  <2>1. sess' = sess /\ reports' = reports /\ run'.pc \in {"done", "stopping"}
    BY <1>1, <1>9 DEF RunnerReadsRevision, Runs
  <2> QED BY <1>3, <2>1
<1>10. CASE RunnerStops
  <2>1. CASE run.cur
    BY <1>5, <1>10, <2>1 DEF RunnerStops
  <2>2. CASE ~run.cur
    <3>1. Becomes([At(World, "done") EXCEPT !.run.abandoned = sess.phase \in Running])
      BY <1>10, <2>2 DEF RunnerStops
    <3> DEFINE u == At(World, "done")
               v == [u EXCEPT !.run.abandoned = sess.phase \in Running]
    <3>2. /\ u.sess = sess /\ u.reports = reports /\ u.run.pc = "done" /\ u.run \in Runs
          /\ DOMAIN u = {"sess", "reports", "run"}
      BY <1>1, AtSane, AtMild DEF Sane, Places
    <3> HIDE DEF u
    <3>3. v.sess = sess /\ v.reports = reports /\ v.run.pc = "done"
      BY <3>2 DEF Runs
    <3>4. sess' = v.sess /\ reports' = v.reports /\ run' = v.run
      BY <3>1 DEF Becomes, u
    <3> HIDE DEF v
    <3> QED BY <1>3, <3>3, <3>4
  <2> QED BY <2>1, <2>2
<1>11. CASE RunnerReturns
  <2>1. sess' = sess /\ reports' = reports /\ run'.pc \in {"idle", "top"}
    BY <1>1, <1>11 DEF RunnerReturns, Runs, NoRun
  <2> QED BY <1>3, <2>1
<1>12. CASE StartGuardedTest
  <2>1. sess' = sess /\ reports' = reports
    BY <1>12 DEF StartGuardedTest
  <2>2. \/ run'.pc = "top"
        \/ run'.pc = run.pc /\ run'.cur = run.cur /\ run'.key = run.key
    BY <1>1, <1>12 DEF StartGuardedTest, Runs, NoRun
  <2> QED BY <1>3, <2>1, <2>2
<1> QED BY <1>6, <1>7, <1>8, <1>9, <1>10, <1>11, <1>12

\* The write: the key joins the line, or is lost on the way to it.
LEMMA RunnerWritesRestores ==
    ASSUME RInv, NEW io, RunnerWrites(io)
    PROVE  Restoring(amp', line', rt', World') /\ Mild(World, World')
<1> DEFINE v == World'
           k == run.key
           M == line'
<1>1. /\ World.sess = sess /\ World.run = run /\ World.reports = reports
      /\ run \in Runs /\ line \in Seq(Sent) /\ (Holds(World) => k \in Sent)
      /\ Restoring(amp, line, rt, World)
  BY Types DEF RInv, MInv, World
<1>2. /\ run.pc = "write" /\ amp' = amp /\ rt' = rt /\ v.sess = sess /\ v.reports = reports
      /\ v.run.pc \in {"wait", "fail"} /\ M \in {line, Append(line, k)}
  BY <1>1 DEF RunnerWrites, World, Runs
<1> HIDE DEF v, M
<1>3. ~Holds(v) /\ Holds(World) /\ k \in Sent
  BY <1>1, <1>2 DEF Holds
<1>4. InPlay(M, v) \subseteq InPlay(line, World)
  <2>1. \A i \in DOMAIN M : M[i] = k \/ (i \in DOMAIN line /\ M[i] = line[i])
    BY <1>1, <1>2, <1>3
  <2>2. (\A i \in DOMAIN line : line[i] \in InPlay(line, World)) /\ k \in InPlay(line, World)
    BY <1>1, <1>3 DEF InPlay
  <2>3. InPlay(M, v) = {M[i] : i \in DOMAIN M}
    BY <1>3 DEF InPlay
  <2> QED BY <2>1, <2>2, <2>3
<1>5. Restoring(amp, M, rt, v)
  BY <1>1, <1>2, <1>4, KeptRestores
<1>6. Mild(World, v)
  BY <1>1, <1>2 DEF Mild
<1> QED BY <1>2, <1>5, <1>6 DEF v, M

-----------------------------------------------------------------------------
(* The requests, and what is reported.                                     *)

\* The body of RestoredWhenReported, of a step.
Truthful ==
    \A r \in reports' \ reports :
        r.kind = "restored" /\ r.model = amp.model =>
            amp.at = "home" /\ line = <<>> /\ Stored(amp, r.cap) = sess.plan.original

\* An armed session, with the panel seen at home, begins the next test, is complete, or
\* stays as it is; it reports nothing.
LEMMA BeginOrCompleteRestores ==
    ASSUME NEW w, Sane(w), w.sess.phase = "armed", amp.at = "home", rt.lcd.at = "home",
           NEW granted, BeginOrComplete(w, granted)
    PROVE  Restoring(amp, <<>>, rt, World') /\ reports' = w.reports
<1>1. \/ Becomes(Complete(w)) \/ Becomes(w)
      \/ NextCapability(w.sess) # "none" /\ Becomes(Begin(w))
  BY DEF BeginOrComplete
<1>2. Sane(Complete(w)) /\ (NextCapability(w.sess) # "none" => Sane(Begin(w)))
  BY BeginSane
<1>3. World'.reports = reports'
  BY DEF World
<1>4. CASE Becomes(Complete(w))
  <2>1. Complete(w).reports = w.reports /\ Complete(w).sess.phase = "complete"
    BY CompleteMild
  <2> QED BY <1>2, <1>3, <1>4, <2>1, BecomesIs, OffRestores DEF Terminal
<1>5. CASE Becomes(w)
  BY <1>3, <1>5, BecomesIs, OffRestores
<1>6. CASE NextCapability(w.sess) # "none" /\ Becomes(Begin(w))
  <2> DEFINE n == NoSession
             s == [n EXCEPT !.phase = "discovering", !.cap = NextCapability(w.sess),
                            !.lease = TRUE, !.wanted = w.sess.wanted,
                            !.completed = w.sess.completed, !.gen = w.sess.gen]
             u == [w EXCEPT !.sess = s]
             v == Bump(u)
  <2>1. Begin(w) = v
    BY DEF Begin
  <2>2. s.phase = "discovering" /\ "home" \notin Pages
    BY DEF NoSession, Pages, NextPage
  <2>3. /\ DOMAIN u = {"sess", "reports", "run"} /\ u.sess = s /\ u.run \in Runs
        /\ u.reports = w.reports
    <3> HIDE DEF s
    <3> QED BY DEF Sane
  <2> HIDE DEF s, u
  <2>4. v.sess = s /\ v.reports = w.reports
    BY <2>3, BumpLeaves
  <2> HIDE DEF v
  <2>5. Current(amp, rt)
    BY <2>2 DEF Current
  <2>6. Restoring(amp, <<>>, rt, v)
    BY <2>2, <2>4, <2>5 DEF Restoring, Reviewed, InSight, Saves, Ends, Returned, Planning
  <2>7. World' = v
    BY <1>2, <1>6, <2>1, BecomesIs
  <2> QED BY <1>3, <2>4, <2>6, <2>7
<1> QED BY <1>1, <1>4, <1>5, <1>6

\* POST session/verification after a restoration, the only step that reports one.
LEMMA ConfirmRestores ==
    ASSUME RInv, NEW granted \in BOOLEAN, Verification(granted),
           sess.phase = "awaiting-restore"
    PROVE  Restoring(amp', line', rt', World') /\ Truthful
<1> DEFINE s == [sess EXCEPT !.completed = @ \cup {sess.cap}, !.phase = "armed",
                     !.cap = "none", !.plan = NoPlan, !.lease = FALSE,
                     !.mayBeInMenu = FALSE]
           u == [World EXCEPT !.sess = s]
           x == reports \cup {Report(World, "restored")}
           v == [u EXCEPT !.reports = x]
           b == Bump(v)
<1>1. /\ Sane(World) /\ World.sess = sess /\ World.run = run /\ World.reports = reports
      /\ sess \in Sessions /\ InPlan(sess) /\ run \in Runs
      /\ DOMAIN World = {"sess", "reports", "run"}
      /\ Meeting(amp, line, rt, World) /\ Restoring(amp, line, rt, World)
  BY Types DEF RInv, MInv, Sane
<1>2. amp' = amp /\ line' = line /\ rt' = rt
  BY DEF Verification
<1>3. line = <<>> /\ amp.at = "home" /\ rt.lcd.at = "home"
  BY <1>1 DEF Meeting, Quiet, Waiting
<1>4. Stored(amp, sess.cap) = sess.plan.original
  BY <1>1 DEF Restoring, Returned
<1>5. s \in Sessions /\ s.phase = "armed"
  <2>1. sess.cap \in Capabilities /\ NoPlan \in Plans /\ "armed" \in Phases
    BY <1>1 DEF InPlan, NoPlan, Plans, Phases
  <2> QED BY <1>1, <2>1, ZenonT(60) DEF Sessions
<1>6. Sane(u) /\ u.sess = s /\ u.run = run
  <2> HIDE DEF s
  <2>1. InPlan(s)
    BY <1>5 DEF InPlan, Running
  <2> QED BY <1>1, <1>5, <2>1, ChangeSane
<1>7. Sane(v) /\ v.sess = s /\ v.run = run /\ v.reports = x
  <2> HIDE DEF s, u, x
  <2>1. Sane(v) /\ v.sess = s /\ v.run = run
    BY <1>6, ChangeSane
  <2>2. v.reports = x
    BY <1>6 DEF Sane
  <2> QED BY <2>1, <2>2
<1>8. v = [World EXCEPT
             !.reports = @ \cup {Report(World, "restored")},
             !.sess.completed = @ \cup {sess.cap}, !.sess.phase = "armed",
             !.sess.cap = "none", !.sess.plan = NoPlan, !.sess.lease = FALSE,
             !.sess.mayBeInMenu = FALSE]
  BY ZenonT(60) DEF World
<1> HIDE DEF s, u, v, x
<1>9. BeginOrComplete(b, granted)
  BY <1>8 DEF Verification
<1>10. Sane(b) /\ b.sess = s /\ b.reports = x
  <2>1. DOMAIN v = {"sess", "reports", "run"} /\ v.run \in Runs
    BY <1>1, <1>7 DEF Sane
  <2> QED BY <1>7, <2>1, BumpSane, BumpLeaves
<1> HIDE DEF b
<1>11. Restoring(amp, <<>>, rt, World') /\ reports' = x
  BY <1>3, <1>5, <1>9, <1>10, BeginOrCompleteRestores
<1>12. Truthful
  <2> SUFFICES ASSUME NEW r \in reports' \ reports
               PROVE  Stored(amp, r.cap) = sess.plan.original
    BY <1>3 DEF Truthful
  <2>1. r = Report(World, "restored")
    BY <1>11 DEF x
  <2>2. r.cap = sess.cap
    BY <1>1, <2>1 DEF Report
  <2> QED BY <1>4, <2>2
<1> QED BY <1>2, <1>3, <1>11, <1>12

\* The requests: POST session, its advance, the verification before a restoration, abort
\* and the restart of the process.
LEMMA RequestsRestore ==
    ASSUME RInv,
           \/ \E request \in Requests, cleared \in BOOLEAN : Arm(request, cleared)
           \/ \E granted \in BOOLEAN : Advance(granted)
           \/ sess.phase = "awaiting-apply" /\ \E granted \in BOOLEAN : Verification(granted)
           \/ Abort \/ Restart
    PROVE  Restoring(amp', line', rt', World') /\ Mild(World, World')
<1>1. /\ Sane(World) /\ World.sess = sess /\ World.run = run /\ World.reports = reports
      /\ sess \in Sessions /\ InPlan(sess) /\ rt.gen \in Nat
      /\ Meeting(amp, line, rt, World) /\ Restoring(amp, line, rt, World)
      /\ World'.sess = sess' /\ World'.reports = reports'
  BY Types DEF RInv, MInv, Sane, World, Runtimes
<1>2. ASSUME NEW request \in Requests, NEW cleared \in BOOLEAN, Arm(request, cleared)
      PROVE  Restoring(amp', line', rt', World') /\ Mild(World, World')
  <2> DEFINE n == NoSession
             armed == [n EXCEPT !.phase = "armed", !.wanted = request, !.gen = rt.gen]
             aborted == [armed EXCEPT !.phase = "aborted"]
  <2>1. sess' \in {armed, aborted} /\ reports' = {}
    BY <1>2 DEF Arm
  <2>2. armed.phase = "armed" /\ DOMAIN armed = DOMAIN NoSession
    BY DEF NoSession
  <2>3. aborted.phase = "aborted"
    <3> HIDE DEF armed
    <3> QED BY <2>2 DEF NoSession
  <2> HIDE DEF armed, aborted
  <2>4. World'.sess.phase \in {"armed", "aborted"} /\ World'.reports = {}
    BY <1>1, <2>1, <2>2, <2>3
  <2> QED BY <2>4, OffRestores DEF Mild, Terminal
<1>3. ASSUME NEW granted \in BOOLEAN, Advance(granted)
      PROVE  Restoring(amp', line', rt', World') /\ Mild(World, World')
  <2>1. /\ sess.phase = "armed" /\ BeginOrComplete(World, granted)
        /\ amp' = amp /\ line' = line /\ rt' = rt
    BY <1>3 DEF Advance
  <2>2. line = <<>> /\ amp.at = "home" /\ rt.lcd.at = "home"
    BY <1>1, <2>1 DEF Meeting, Quiet, Told, Waiting, Active, Terminal
  <2>3. Restoring(amp, <<>>, rt, World') /\ reports' = reports
    BY <1>1, <2>1, <2>2, BeginOrCompleteRestores
  <2> QED BY <1>1, <2>1, <2>2, <2>3 DEF Mild
<1>4. ASSUME sess.phase = "awaiting-apply", NEW granted \in BOOLEAN, Verification(granted)
      PROVE  Restoring(amp', line', rt', World') /\ Mild(World, World')
  <2>1. /\ Becomes(BeginPlan(World, "restoring"))
        /\ amp' = amp /\ line' = line /\ rt' = rt
    BY <1>4 DEF Verification
  <2>2. /\ line = <<>> /\ amp.at = "home" /\ rt.lcd.at = "home" /\ run.pc # "write"
        /\ sess.gen = rt.gen /\ sess.from.at # "storing" /\ sess.mayBeInMenu /\ sess.lease
        /\ Proper(rt.lcd) /\ Proper(sess.last)
    BY <1>1, <1>4 DEF Meeting, Quiet, Told, Waiting, Holds, Active, Terminal
  <2>3. Current(amp, rt)
    BY <2>2 DEF Current, Pages, NextPage
  <2>4. sess.cap \in Capabilities
    BY <1>1, <1>4 DEF InPlan
  <2>5. Sane(BeginPlan(World, "restoring"))
    BY <1>1, <2>4, BeginPlanSane
  <2>6. Meeting(amp, <<>>, rt, BeginPlan(World, "restoring"))
    BY <1>1, <2>2, <2>3, BeginPlanMeet
  <2>7. Reviewed(World.sess)
    BY <1>1 DEF Restoring
  <2>8. /\ Restoring(amp, <<>>, rt, BeginPlan(World, "restoring"))
        /\ Mild(World, BeginPlan(World, "restoring"))
    BY <1>1, <1>4, <2>3, <2>6, <2>7, BeginPlanRestores
  <2> QED BY <2>1, <2>2, <2>5, <2>8, BecomesIs
<1>5. CASE Abort
  <2> DEFINE kept == Retain(World)
             o == Over(kept.sess, "aborted")
             e == [kept EXCEPT !.sess = o]
             v == Ended(World, "aborted")
             in == v.sess.mayBeInMenu \/ ~Home(rt.lcd)
             s == [v.sess EXCEPT !.mayBeInMenu = in]
             u == [v EXCEPT !.sess = s]
  <2>1. Becomes(Aborted(World))
    BY <1>5 DEF Abort
  <2>2. Sane(v) /\ v.sess.phase = "aborted"
    BY <1>1, EndedSane, <1>5 DEF Abort, Terminal
  <2>3. /\ Sane(kept)
        /\ kept = World \/ kept.reports = reports \cup {Report(World, "incomplete")}
    <3>1. Sane(kept)
      BY <1>1, RetainSane
    <3> QED BY <1>1, <3>1 DEF Retain, Sane
  <2>4. v.reports = kept.reports
    <3>1. v = Bump(e)
      BY DEF Ended
    <3> HIDE DEF kept, o, v
    <3>2. DOMAIN e = {"sess", "reports", "run"} /\ e.reports = kept.reports /\ e.run \in Runs
      BY <2>3 DEF Sane
    <3> HIDE DEF e
    <3> QED BY <3>1, <3>2, BumpLeaves
  <2> HIDE DEF kept, o, e
  <2>5. /\ Aborted(World).sess = s /\ Aborted(World).reports = v.reports
    <3>1. Aborted(World) = [v EXCEPT !.sess.mayBeInMenu = @ \/ ~Home(rt.lcd),
                                     !.run.cancelled = @ \/ run.pc # "idle",
                                     !.run.again = FALSE]
      BY <1>1 DEF Aborted
    <3>2. v = [sess |-> v.sess, reports |-> v.reports, run |-> v.run]
      <4> HIDE DEF v
      <4> QED BY <2>2 DEF Sane
    <3> HIDE DEF v
    <3> QED BY <3>1, <3>2
  <2> HIDE DEF v
  <2>6. s.phase = "aborted"
    BY <2>2 DEF Sane, Sessions
  <2> HIDE DEF s
  <2>7. sess'.phase = "aborted" /\ reports' = kept.reports
    BY <2>1, <2>4, <2>5, <2>6 DEF Becomes
  <2>8. Report(World, "incomplete").kind = "incomplete"
    BY DEF Report
  <2>9. Mild(World, World')
    BY <1>1, <2>3, <2>7, <2>8 DEF Mild
  <2> QED BY <1>1, <2>7, <2>9, OffRestores DEF Terminal
<1>6. CASE Restart
  <2>1. sess' = NoSession /\ reports' = {}
    BY <1>6 DEF Restart
  <2>2. World'.sess.phase = "idle" /\ World'.reports = {}
    BY <1>1, <2>1 DEF NoSession
  <2> QED BY <2>2, OffRestores DEF Mild
<1> QED BY <1>2, <1>3, <1>4, <1>5, <1>6

\* It holds of the initial states.
LEMMA InitRInv == Init => RInv
<1> SUFFICES ASSUME Init PROVE RInv
  OBVIOUS
<1>1. World.sess.phase = "idle"
  BY DEF Init, World, NoSession
<1> QED BY <1>1, InitMInv, OffRestores DEF RInv

\* No capability is being tested.
Untested == sess.phase \in Terminal \cup {"idle", "armed", "awaiting-home"}

\* Every step keeps it, unless the amplifier is replaced meanwhile, and reports truthfully.
LEMMA NextRInv ==
    ASSUME RInv, [Next]_vars, [Replace => Untested]_vars
    PROVE  RInv' /\ Truthful
<1> SUFFICES Restoring(amp', line', rt', World') /\ (Mild(World, World') \/ Truthful)
  <2>1. World.reports = reports /\ World'.reports = reports'
    BY DEF World
  <2>2. Mild(World, World') => Truthful
    BY <2>1 DEF Mild, Truthful
  <2>3. MInv'
    BY NextMInv DEF RInv
  <2> QED BY <2>2, <2>3 DEF RInv
<1>1. CASE UNCHANGED vars
  <2>1. /\ amp' = amp /\ line' = line /\ rt' = rt /\ World' = World
    BY <1>1 DEF vars, World
  <2> QED BY <2>1 DEF RInv, Mild
<1>2. CASE AmpActs \/ AmpHasStored \/ PressDisplay
           \/ \E to \in {"standby", "operate", "tx"} : ChangeMode(to)
  <2>1. World' = World
    BY <1>2 DEF AmpActs, AmpHasStored, PressDisplay, ChangeMode, World
  <2> QED BY <1>2, <2>1, AmplifierRestores DEF Mild
<1>3. CASE \E reading \in {0, 1}, valid \in BOOLEAN : ObserveDisplay(reading, valid)
  BY <1>3, ObserveDisplayRestores
<1>4. CASE \/ \E named \in BOOLEAN : ObserveStatus(named)
           \/ BeginSession \/ EvidenceAges \/ Expire \/ Deny
           \/ \E to \in {"off", "manual", "on"} : SettingsChange(to)
  BY <1>4, EvidenceRestores
<1>5. CASE \E legend \in BOOLEAN, io \in AuthorizeAnswers : RunnerTop(legend, io)
  BY <1>5, RunnerTopRestores
<1>6. CASE \E io \in WriteAnswers : RunnerWrites(io)
  BY <1>6, RunnerWritesRestores
<1>7. CASE RunnerChecks \/ RunnerFails \/ RunnerWaits \/ RunnerTimesOut
           \/ RunnerReadsRevision \/ RunnerStops \/ RunnerReturns \/ StartGuardedTest
  BY <1>7, RunnerRestores
<1>8. CASE \/ \E request \in Requests, cleared \in BOOLEAN : Arm(request, cleared)
           \/ \E granted \in BOOLEAN : Advance(granted)
           \/ Abort \/ Restart
  BY <1>8, RequestsRestore
<1>9. ASSUME NEW granted \in BOOLEAN, Verification(granted)
      PROVE  Restoring(amp', line', rt', World') /\ (Mild(World, World') \/ Truthful)
  <2>1. sess.phase \in {"awaiting-apply", "awaiting-restore"}
    BY <1>9 DEF Verification
  <2> QED BY <1>9, <2>1, RequestsRestore, ConfirmRestores
<1>10. CASE Replace
  <2>1. UNCHANGED vars \/ Untested
    BY <1>10
  <2>2. CASE Untested
    <3>1. World' = World /\ World.sess = sess
      BY <1>10 DEF Replace, World
    <3> QED BY <2>2, <3>1, OffRestores DEF Untested, Mild
  <2> QED BY <1>1, <2>1, <2>2
<1> QED BY <1>1, <1>2, <1>3, <1>4, <1>5, <1>6, <1>7, <1>8, <1>9, <1>10 DEF Next

\* Unless the amplifier on the port is replaced while a capability is being tested, that
\* capability is reported as restored only with the panel at home, no key on its way and
\* the original value stored again: whichever keys are late or lost and whichever frames
\* are repeated, for every menu, amplifier and list of capabilities.
THEOREM RestoredUnlessReplaced == Spec /\ [][Replace => Untested]_vars => RestoredWhenReported
<1>1. RInv /\ [Next]_vars /\ [Replace => Untested]_vars => RInv'
  BY NextRInv
<1>2. RInv /\ [Next]_vars /\ [Replace => Untested]_vars =>
        [\A r \in reports' \ reports :
            r.kind = "restored" /\ r.model = amp.model =>
                /\ amp.at = "home" /\ line = <<>>
                /\ (IF r.cap = "fan" THEN amp.fan ELSE amp.bank) = sess.plan.original]_vars
  BY NextRInv DEF Truthful, Stored
<1> QED BY <1>1, <1>2, InitRInv, PTL DEF Spec, RestoredWhenReported
=============================================================================
