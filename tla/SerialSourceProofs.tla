-------------------------- MODULE SerialSourceProofs --------------------------
(***************************************************************************)
(* Theorems about the serial source, for any number of writers, wakes, raw *)
(* clients and sessions.  The invariant says which places of a goroutine   *)
(* hold which mutex, when the read loop's done channel is open, and what a *)
(* status frame in hand has to do with the recorded identity.              *)
(***************************************************************************)
EXTENDS SerialSource, TLAPS

\* Where the read loop has a session, and its done channel is open.
InSession == {"reading", "pollWait", "polling", "clearWait", "publish", "setWait",
              "callback", "callbackWait", "callbackIO", "ending", "closed"}

\* Where a wake and a raw client hold lifecycleMu, and where a client has set the flag.
WakerHolds == {"retire", "waitDone", "open", "pulsing", "unlock"}
RawHolds == {"retire", "waitDone", "open", "held", "unlock"}
Marked == RawHolds \cup {"lifecycle", "clear", "quiet"}

\* Each mutex is held by whoever is at a place that holds it; the flag keeps writeMu
\* free, because it was set under writeMu and nobody takes writeMu against it.
Mutexes ==
    /\ writeMu = "loop" <=> loop \in {"polling", "callbackIO"}
    /\ \A w \in Writers : writeMu = w <=> writer[w] = "writing"
    /\ \A k \in Wakers : writeMu = k <=> waker[k] # "idle"
    /\ writeMu \notin RawClients
    /\ lifecycleMu = "loop" <=> loop = "opening"
    /\ lifecycleMu \notin Writers
    /\ \A k \in Wakers : lifecycleMu = k <=> waker[k] \in WakerHolds
    /\ \A r \in RawClients : lifecycleMu = r <=> raw[r] \in RawHolds
    /\ claim = "free" \/ claim \in RawClients
    /\ \A r \in RawClients : claim = r <=> raw[r] # "idle"
    /\ rawPassthroughActive <=> \E r \in RawClients : raw[r] \in Marked
    /\ rawPassthroughActive => writeMu = "free"

\* A handle of the read loop belongs to a session that has not unwound, and a port in force
\* is open or about to be given up; a wake and a raw client open theirs after it has.
Handles ==
    /\ portDone <=> loop \in InSession
    /\ "loop" \in open => portDone /\ loop # "closed"
    /\ port # "none" => portDone /\ ("loop" \in open \/ loop = "closed")
    /\ \A k \in Wakers : /\ k \in open <=> waker[k] = "pulsing"
                         /\ waker[k] \in {"open", "pulsing"} => ~portDone
    /\ \A r \in RawClients : /\ r \in open <=> raw[r] = "held"
                             /\ raw[r] \in {"open", "held"} => ~portDone

\* The frame the read loop publishes is the newest accepted.
Evidence ==
    /\ loop \in {"publish", "setWait"} => accepted = frame
    /\ AuthorizedWriteSafe

IInv == TypeOK /\ Mutexes /\ Handles /\ Evidence /\ NoPollDuringLease

-----------------------------------------------------------------------------
\* The read loop starts on the port, and nobody else is there.
LEMMA InitIInv == Init => IInv
<1> SUFFICES ASSUME Init PROVE IInv
  OBVIOUS
<1> USE SerialAssumption DEF Init
<1>1. TypeOK
  BY DEF TypeOK, Holders, Authorizations
<1>2. Mutexes
  BY DEF Mutexes, Marked, RawHolds, WakerHolds
<1>3. Handles
  BY DEF Handles, InSession
<1>4. Evidence
  BY DEF Evidence, AuthorizedWriteSafe
<1>5. NoPollDuringLease
  BY DEF NoPollDuringLease
<1> QED BY <1>1, <1>2, <1>3, <1>4, <1>5 DEF IInv

-----------------------------------------------------------------------------
\* The read loop gets a session and ends it.
LEMMA SessionIInv ==
    ASSUME IInv, LoopBackoffEnds \/ LoopLocksLifecycle \/ LoopOpenFails \/ LoopBeginsSession
           \/ LoopLeavesPort \/ LoopClosesPort \/ LoopEndsSession
    PROVE  IInv'
<1> USE SerialAssumption DEF IInv, procs, mutexes, session, status, writes
<1>1. CASE LoopBackoffEnds
  <2> USE <1>1 DEF LoopBackoffEnds
  <2>1. TypeOK'
    BY DEF TypeOK
  <2>2. Mutexes'
    BY DEF TypeOK, Mutexes
  <2>3. Handles' /\ Evidence' /\ NoPollDuringLease'
    BY DEF TypeOK, Handles, Evidence, AuthorizedWriteSafe, NoPollDuringLease, InSession
  <2> QED BY <2>1, <2>2, <2>3
<1>2. CASE LoopLocksLifecycle
  <2> USE <1>2 DEF LoopLocksLifecycle
  <2>1. TypeOK'
    BY DEF TypeOK, Holders
  <2>2. Mutexes'
    BY DEF TypeOK, Mutexes
  <2>3. Handles' /\ Evidence' /\ NoPollDuringLease'
    BY DEF TypeOK, Handles, Evidence, AuthorizedWriteSafe, NoPollDuringLease, InSession
  <2> QED BY <2>1, <2>2, <2>3
<1>3. CASE LoopOpenFails
  <2> USE <1>3 DEF LoopOpenFails
  <2>1. TypeOK'
    BY DEF TypeOK, Holders
  <2>2. Mutexes'
    BY DEF TypeOK, Mutexes
  <2>3. Handles' /\ Evidence' /\ NoPollDuringLease'
    BY DEF TypeOK, Handles, Evidence, AuthorizedWriteSafe, NoPollDuringLease, InSession
  <2> QED BY <2>1, <2>2, <2>3
<1>4. CASE LoopBeginsSession
  <2> USE <1>4 DEF LoopBeginsSession
  <2>1. TypeOK'
    BY DEF TypeOK, Holders
  <2>2. Mutexes'
    BY DEF TypeOK, Mutexes
  <2>3. Handles' /\ NoPollDuringLease'
    BY DEF TypeOK, Handles, NoPollDuringLease, InSession, Mutexes, Marked, RawHolds,
           WakerHolds
  <2>4. Evidence'
    BY DEF Evidence, AuthorizedWriteSafe, Unreferenced, TypeOK
  <2> QED BY <2>1, <2>2, <2>3, <2>4
<1>5. CASE LoopLeavesPort
  <2> USE <1>5 DEF LoopLeavesPort
  <2>1. TypeOK'
    BY DEF TypeOK
  <2>2. Mutexes'
    BY DEF TypeOK, Mutexes
  <2>3. Handles' /\ Evidence' /\ NoPollDuringLease'
    BY DEF TypeOK, Handles, Evidence, AuthorizedWriteSafe, NoPollDuringLease, InSession
  <2> QED BY <2>1, <2>2, <2>3
<1>6. CASE LoopEndsSession
  <2> USE <1>6 DEF LoopEndsSession
  <2>1. TypeOK'
    BY DEF TypeOK
  <2>2. Mutexes'
    BY DEF TypeOK, Mutexes
  <2>3. Handles' /\ Evidence' /\ NoPollDuringLease'
    BY DEF TypeOK, Handles, Evidence, AuthorizedWriteSafe, NoPollDuringLease, InSession
  <2> QED BY <2>1, <2>2, <2>3
<1>7. CASE LoopClosesPort
  <2> USE <1>7 DEF LoopClosesPort
  <2>1. TypeOK'
    BY DEF TypeOK
  <2>2. Mutexes'
    BY DEF TypeOK, Mutexes
  <2>3. Handles' /\ Evidence' /\ NoPollDuringLease'
    BY DEF TypeOK, Handles, Evidence, AuthorizedWriteSafe, NoPollDuringLease, InSession
  <2> QED BY <2>1, <2>2, <2>3
<1> QED BY <1>1, <1>2, <1>3, <1>4, <1>5, <1>6, <1>7

\* The read loop polls, or a controller it calls sends a button.
LEMMA PollIInv ==
    ASSUME IInv, LoopPollDue \/ LoopPollStarts \/ LoopPollEnds \/ LoopCallback
           \/ LoopCallbackSends \/ LoopCallbackReturns
    PROVE  IInv'
<1> USE SerialAssumption DEF IInv, procs, mutexes, session, status, writes
<1>1. CASE LoopPollDue
  <2> USE <1>1 DEF LoopPollDue
  <2>1. TypeOK'
    BY DEF TypeOK
  <2>2. Mutexes'
    BY DEF TypeOK, Mutexes
  <2>3. Handles' /\ Evidence' /\ NoPollDuringLease'
    BY DEF TypeOK, Handles, Evidence, AuthorizedWriteSafe, NoPollDuringLease, InSession
  <2> QED BY <2>1, <2>2, <2>3
<1>2. CASE LoopPollStarts
  <2> USE <1>2 DEF LoopPollStarts
  <2>1. TypeOK'
    BY DEF TypeOK, Holders
  <2>2. Mutexes'
    BY DEF TypeOK, Mutexes, Admits
  <2>3. Handles' /\ NoPollDuringLease'
    BY DEF TypeOK, Handles, NoPollDuringLease, InSession
  <2>4. Evidence'
    BY DEF Evidence, AuthorizedWriteSafe, TypeOK
  <2> QED BY <2>1, <2>2, <2>3, <2>4
<1>3. CASE LoopPollEnds
  <2> USE <1>3 DEF LoopPollEnds
  <2>1. TypeOK'
    BY ZenonT(60) DEF TypeOK, Holders, RetirePortIfCurrent
  <2>2. Mutexes'
    BY DEF TypeOK, Mutexes
  <2>3. Handles' /\ NoPollDuringLease'
    BY DEF TypeOK, Handles, NoPollDuringLease, InSession, RetirePortIfCurrent
  <2>4. Evidence'
    BY DEF Evidence, AuthorizedWriteSafe, RetirePortIfCurrent
  <2> QED BY <2>1, <2>2, <2>3, <2>4
<1>4. CASE LoopCallback
  <2> USE <1>4 DEF LoopCallback
  <2>1. TypeOK'
    BY DEF TypeOK
  <2>2. Mutexes'
    BY DEF TypeOK, Mutexes
  <2>3. Handles' /\ Evidence' /\ NoPollDuringLease'
    BY DEF TypeOK, Handles, Evidence, AuthorizedWriteSafe, NoPollDuringLease, InSession
  <2> QED BY <2>1, <2>2, <2>3
<1>5. CASE LoopCallbackSends
  <2> USE <1>5 DEF LoopCallbackSends
  <2>1. TypeOK'
    BY DEF TypeOK, Holders
  <2>2. Mutexes'
    BY DEF TypeOK, Mutexes, Admits
  <2>3. Handles' /\ Evidence' /\ NoPollDuringLease'
    BY DEF TypeOK, Handles, Evidence, AuthorizedWriteSafe, NoPollDuringLease, InSession
  <2> QED BY <2>1, <2>2, <2>3
<1>6. CASE LoopCallbackReturns
  <2> USE <1>6 DEF LoopCallbackReturns
  <2>1. TypeOK'
    BY ZenonT(60) DEF TypeOK, Holders, RetirePortIfCurrent
  <2>2. Mutexes'
    BY DEF TypeOK, Mutexes
  <2>3. Handles' /\ NoPollDuringLease'
    BY DEF TypeOK, Handles, NoPollDuringLease, InSession, RetirePortIfCurrent
  <2>4. Evidence'
    BY DEF Evidence, AuthorizedWriteSafe, RetirePortIfCurrent
  <2> QED BY <2>1, <2>2, <2>3, <2>4
<1> QED BY <1>1, <1>2, <1>3, <1>4, <1>5, <1>6

\* The read loop clears, publishes and records the identity a status frame shows.
LEMMA StatusIInv ==
    ASSUME IInv, (\E f \in AnyStatus : LoopReadsStatus(f)) \/ LoopClearsIdentity
           \/ LoopPublishesStatus \/ LoopSetsIdentity \/ LoopReadsDisplay
    PROVE  IInv'
<1> USE SerialAssumption DEF IInv, procs, mutexes, session, status, writes
<1>1. ASSUME NEW f \in AnyStatus, LoopReadsStatus(f) PROVE IInv'
  <2> USE <1>1 DEF LoopReadsStatus
  <2>1. TypeOK'
    BY DEF TypeOK
  <2>2. Mutexes'
    BY DEF TypeOK, Mutexes
  <2>3. Handles' /\ Evidence' /\ NoPollDuringLease'
    BY DEF TypeOK, Handles, Evidence, AuthorizedWriteSafe, NoPollDuringLease, InSession
  <2> QED BY <2>1, <2>2, <2>3
<1>2. CASE LoopClearsIdentity
  <2> USE <1>2 DEF LoopClearsIdentity
  <2>1. TypeOK'
    BY DEF TypeOK, SessionCurrent
  <2>2. Mutexes'
    BY DEF TypeOK, Mutexes
  <2>3. Handles' /\ NoPollDuringLease'
    BY DEF TypeOK, Handles, NoPollDuringLease, InSession
  <2>4. Evidence'
    BY DEF Evidence, AuthorizedWriteSafe, SessionCurrent, Mutexes, TypeOK
  <2> QED BY <2>1, <2>2, <2>3, <2>4
<1>3. CASE LoopPublishesStatus
  <2> USE <1>3 DEF LoopPublishesStatus
  <2>1. TypeOK'
    BY DEF TypeOK
  <2>2. Mutexes'
    BY DEF TypeOK, Mutexes
  <2>3. Handles' /\ Evidence' /\ NoPollDuringLease'
    BY DEF TypeOK, Handles, Evidence, AuthorizedWriteSafe, NoPollDuringLease, InSession
  <2> QED BY <2>1, <2>2, <2>3
<1>4. CASE LoopSetsIdentity
  <2> USE <1>4 DEF LoopSetsIdentity
  <2>1. TypeOK'
    BY DEF TypeOK, SessionCurrent
  <2>2. Mutexes'
    BY DEF TypeOK, Mutexes
  <2>3. Handles' /\ NoPollDuringLease'
    BY DEF TypeOK, Handles, NoPollDuringLease, InSession
  <2>4. Evidence'
    BY DEF Evidence, AuthorizedWriteSafe, SessionCurrent, TypeOK
  <2> QED BY <2>1, <2>2, <2>3, <2>4
<1>5. CASE LoopReadsDisplay
  <2> USE <1>5 DEF LoopReadsDisplay
  <2>1. TypeOK'
    BY DEF TypeOK
  <2>2. Mutexes'
    BY DEF TypeOK, Mutexes
  <2>3. Handles' /\ Evidence' /\ NoPollDuringLease'
    BY DEF TypeOK, Handles, Evidence, AuthorizedWriteSafe, NoPollDuringLease, InSession
  <2> QED BY <2>1, <2>2, <2>3
<1> QED BY <1>1, <1>2, <1>3, <1>4, <1>5

\* A writer is authorized for the session it captures, on the newest status.
LEMMA WriterIInv ==
    ASSUME IInv, NEW w \in Writers,
           WriterCalls(w) \/ WriterStarts(w) \/ WriterRefused(w) \/ WriterReturns(w)
    PROVE  IInv'
<1> USE SerialAssumption DEF IInv, procs, mutexes, session, status, writes
<1>1. CASE WriterCalls(w)
  <2> USE <1>1 DEF WriterCalls
  <2>1. TypeOK'
    BY DEF TypeOK, Authorizations, NoAuth
  <2>2. Mutexes'
    BY DEF TypeOK, Mutexes
  <2>3. Handles' /\ NoPollDuringLease'
    BY DEF TypeOK, Handles, NoPollDuringLease
  <2>4. Evidence'
    BY DEF Evidence, AuthorizedWriteSafe, TypeOK
  <2> QED BY <2>1, <2>2, <2>3, <2>4
<1>2. CASE WriterStarts(w)
  <2> USE <1>2 DEF WriterStarts
  <2>1. TypeOK'
    BY DEF TypeOK, Holders, Admits
  <2>2. Mutexes'
    BY DEF TypeOK, Mutexes, Admits
  <2>3. Handles' /\ NoPollDuringLease'
    BY DEF TypeOK, Handles, NoPollDuringLease
  <2>4. Evidence'
    BY DEF Evidence, AuthorizedWriteSafe, Admits, TypeOK, Authorizations, NoAuth
  <2> QED BY <2>1, <2>2, <2>3, <2>4
<1>3. CASE WriterRefused(w)
  <2> USE <1>3 DEF WriterRefused
  <2>1. TypeOK'
    BY DEF TypeOK, Authorizations
  <2>2. Mutexes'
    BY DEF TypeOK, Mutexes
  <2>3. Handles' /\ Evidence' /\ NoPollDuringLease'
    BY DEF TypeOK, Handles, Evidence, AuthorizedWriteSafe, NoPollDuringLease
  <2> QED BY <2>1, <2>2, <2>3
<1>4. CASE WriterReturns(w)
  <2> USE <1>4 DEF WriterReturns
  <2>1. TypeOK'
    <3>1. port' \in {"none", port} /\ open' \subseteq open
          /\ UNCHANGED <<portGeneration, portDone>>
      BY DEF RetirePortIfCurrent
    <3>2. auth' \in [Writers -> Authorizations] /\ captured' \in [Writers -> Sessions \cup {"none"}]
          /\ writer' \in [Writers -> {"idle", "decided", "writing"}]
      BY DEF TypeOK, Authorizations
    <3> QED BY <3>1, <3>2 DEF TypeOK, Holders
  <2>2. Mutexes'
    BY DEF TypeOK, Mutexes
  <2>3. Handles' /\ NoPollDuringLease'
    BY DEF TypeOK, Handles, NoPollDuringLease, RetirePortIfCurrent
  <2>4. Evidence'
    BY DEF Evidence, AuthorizedWriteSafe, RetirePortIfCurrent, TypeOK
  <2> QED BY <2>1, <2>2, <2>3, <2>4
<1> QED BY <1>1, <1>2, <1>3, <1>4

\* A wake holds writeMu throughout, and lifecycleMu from the retire to its end.
LEMMA WakerIInv ==
    ASSUME IInv, NEW k \in Wakers,
           WakerPassesGate(k) \/ WakerLocksLifecycle(k) \/ WakerRetires(k)
           \/ WakerWaits(k) \/ WakerOpens(k) \/ WakerPulseEnds(k)
           \/ WakerUnlocksLifecycle(k) \/ WakerUnlocksWrite(k)
    PROVE  IInv'
<1> USE SerialAssumption DEF IInv, procs, mutexes, session, status, writes
<1>1. CASE WakerPassesGate(k)
  <2> USE <1>1 DEF WakerPassesGate
  <2>1. TypeOK'
    BY DEF TypeOK, Holders
  <2>2. Mutexes'
    BY DEF TypeOK, Mutexes, Marked, RawHolds, WakerHolds
  <2>3. Handles' /\ Evidence' /\ NoPollDuringLease'
    BY DEF TypeOK, Handles, Evidence, AuthorizedWriteSafe, NoPollDuringLease
  <2> QED BY <2>1, <2>2, <2>3
<1>2. CASE WakerLocksLifecycle(k)
  <2> USE <1>2 DEF WakerLocksLifecycle
  <2>1. TypeOK'
    BY DEF TypeOK, Holders
  <2>2. Mutexes'
    BY DEF TypeOK, Mutexes, Marked, RawHolds, WakerHolds
  <2>3. Handles' /\ Evidence' /\ NoPollDuringLease'
    BY DEF TypeOK, Handles, Evidence, AuthorizedWriteSafe, NoPollDuringLease
  <2> QED BY <2>1, <2>2, <2>3
<1>3. CASE WakerRetires(k)
  <2> USE <1>3 DEF WakerRetires
  <2>1. TypeOK'
    <3>1. port' = "none" /\ portGeneration' = portGeneration /\ portDone' = portDone
      BY DEF Retire
    <3>2. open' \subseteq open
      BY DEF Retire
    <3>3. \E pc \in {"open", "waitDone", "unlock"} : waker' = [waker EXCEPT ![k] = pc]
      OBVIOUS
    <3> QED BY <3>1, <3>2, <3>3 DEF TypeOK
  <2>2. Mutexes'
    BY DEF TypeOK, Mutexes, Marked, RawHolds, WakerHolds, Retire
  <2>3. Handles' /\ NoPollDuringLease'
    BY DEF TypeOK, Handles, NoPollDuringLease, Mutexes, Marked, RawHolds, WakerHolds,
           Retire
  <2>4. Evidence'
    BY DEF Evidence, AuthorizedWriteSafe, Retire
  <2> QED BY <2>1, <2>2, <2>3, <2>4
<1>4. CASE WakerWaits(k)
  <2> USE <1>4 DEF WakerWaits
  <2>1. TypeOK'
    BY DEF TypeOK
  <2>2. Mutexes'
    BY DEF TypeOK, Mutexes, Marked, RawHolds, WakerHolds
  <2>3. Handles' /\ Evidence' /\ NoPollDuringLease'
    BY DEF TypeOK, Handles, Evidence, AuthorizedWriteSafe, NoPollDuringLease,
           ReadLoopUnwound
  <2> QED BY <2>1, <2>2, <2>3
<1>5. CASE WakerOpens(k)
  <2> USE <1>5 DEF WakerOpens
  <2>1. TypeOK'
    <3>1. open \subseteq {"loop"} \cup Wakers \cup RawClients /\ open' \in {open, open \cup {k}}
      BY DEF TypeOK
    <3>2. waker' \in [Wakers -> {"idle", "gated", "retire", "waitDone", "open", "pulsing",
                              "unlock", "unlockWrite"}]
      BY DEF TypeOK
    <3> QED BY <3>1, <3>2 DEF TypeOK
  <2>2. Mutexes'
    BY DEF TypeOK, Mutexes, Marked, RawHolds, WakerHolds
  <2>3. Handles' /\ Evidence' /\ NoPollDuringLease'
    BY DEF TypeOK, Handles, Evidence, AuthorizedWriteSafe, NoPollDuringLease, Mutexes,
           Marked, RawHolds, WakerHolds
  <2> QED BY <2>1, <2>2, <2>3
<1>6. CASE WakerPulseEnds(k)
  <2> USE <1>6 DEF WakerPulseEnds
  <2>1. TypeOK'
    BY DEF TypeOK
  <2>2. Mutexes'
    BY DEF TypeOK, Mutexes, Marked, RawHolds, WakerHolds
  <2>3. Handles' /\ Evidence' /\ NoPollDuringLease'
    BY DEF TypeOK, Handles, Evidence, AuthorizedWriteSafe, NoPollDuringLease, Mutexes,
           Marked, RawHolds, WakerHolds
  <2> QED BY <2>1, <2>2, <2>3
<1>7. CASE WakerUnlocksLifecycle(k)
  <2> USE <1>7 DEF WakerUnlocksLifecycle
  <2>1. TypeOK'
    BY DEF TypeOK, Holders
  <2>2. Mutexes'
    BY DEF TypeOK, Mutexes, Marked, RawHolds, WakerHolds
  <2>3. Handles' /\ Evidence' /\ NoPollDuringLease'
    BY DEF TypeOK, Handles, Evidence, AuthorizedWriteSafe, NoPollDuringLease
  <2> QED BY <2>1, <2>2, <2>3
<1>8. CASE WakerUnlocksWrite(k)
  <2> USE <1>8 DEF WakerUnlocksWrite
  <2>1. TypeOK'
    BY DEF TypeOK, Holders
  <2>2. Mutexes'
    BY DEF TypeOK, Mutexes, Marked, RawHolds, WakerHolds
  <2>3. Handles' /\ Evidence' /\ NoPollDuringLease'
    BY DEF TypeOK, Handles, Evidence, AuthorizedWriteSafe, NoPollDuringLease
  <2> QED BY <2>1, <2>2, <2>3
<1> QED BY <1>1, <1>2, <1>3, <1>4, <1>5, <1>6, <1>7, <1>8

\* A raw client takes the claim, the flag and lifecycleMu, in this order.
LEMMA AcquireIInv ==
    ASSUME IInv, NEW r \in RawClients,
           RawClaims(r) \/ RawMarks(r) \/ RawLocksLifecycle(r) \/ RawAbandonsCancelled(r)
           \/ RawRetires(r) \/ RawWaits(r)
    PROVE  IInv'
<1> USE SerialAssumption DEF IInv, procs, mutexes, session, status, writes
<1>1. CASE RawClaims(r)
  <2> USE <1>1 DEF RawClaims
  <2>1. TypeOK'
    BY DEF TypeOK, Holders
  <2>2. Mutexes'
    BY DEF TypeOK, Mutexes, Marked, RawHolds, WakerHolds
  <2>3. Handles' /\ Evidence' /\ NoPollDuringLease'
    BY DEF TypeOK, Handles, Evidence, AuthorizedWriteSafe, NoPollDuringLease
  <2> QED BY <2>1, <2>2, <2>3
<1>2. CASE RawMarks(r)
  <2> USE <1>2 DEF RawMarks
  <2>1. TypeOK'
    BY DEF TypeOK
  <2>2. Mutexes'
    BY DEF TypeOK, Mutexes, Marked, RawHolds, WakerHolds
  <2>3. Handles' /\ Evidence' /\ NoPollDuringLease'
    BY DEF TypeOK, Handles, Evidence, AuthorizedWriteSafe, NoPollDuringLease
  <2> QED BY <2>1, <2>2, <2>3
<1>3. CASE RawLocksLifecycle(r)
  <2> USE <1>3 DEF RawLocksLifecycle
  <2>1. TypeOK'
    BY DEF TypeOK, Holders
  <2>2. Mutexes'
    BY DEF TypeOK, Mutexes, Marked, RawHolds, WakerHolds
  <2>3. Handles' /\ Evidence' /\ NoPollDuringLease'
    BY DEF TypeOK, Handles, Evidence, AuthorizedWriteSafe, NoPollDuringLease
  <2> QED BY <2>1, <2>2, <2>3
<1>4. CASE RawAbandonsCancelled(r)
  <2> USE <1>4 DEF RawAbandonsCancelled
  <2>1. TypeOK'
    BY DEF TypeOK, Holders
  <2>2. Mutexes'
    BY DEF TypeOK, Mutexes, Marked, RawHolds, WakerHolds
  <2>3. Handles' /\ Evidence' /\ NoPollDuringLease'
    BY DEF TypeOK, Handles, Evidence, AuthorizedWriteSafe, NoPollDuringLease
  <2> QED BY <2>1, <2>2, <2>3
<1>5. CASE RawRetires(r)
  <2> USE <1>5 DEF RawRetires
  <2>1. TypeOK'
    <3>1. port' = "none" /\ portGeneration' = portGeneration /\ portDone' = portDone
      BY DEF Retire
    <3>2. open' \subseteq open
      BY DEF Retire
    <3>3. \E pc \in {"open", "waitDone", "unlock"} : raw' = [raw EXCEPT ![r] = pc]
      OBVIOUS
    <3> QED BY <3>1, <3>2, <3>3 DEF TypeOK
  <2>2. Mutexes'
    BY DEF TypeOK, Mutexes, Marked, RawHolds, WakerHolds, Retire
  <2>3. Handles' /\ NoPollDuringLease'
    BY DEF TypeOK, Handles, NoPollDuringLease, Mutexes, Marked, RawHolds, WakerHolds,
           Retire
  <2>4. Evidence'
    BY DEF Evidence, AuthorizedWriteSafe, Retire
  <2> QED BY <2>1, <2>2, <2>3, <2>4
<1>6. CASE RawWaits(r)
  <2> USE <1>6 DEF RawWaits
  <2>1. TypeOK'
    BY DEF TypeOK
  <2>2. Mutexes'
    BY DEF TypeOK, Mutexes, Marked, RawHolds, WakerHolds
  <2>3. Handles' /\ Evidence' /\ NoPollDuringLease'
    BY DEF TypeOK, Handles, Evidence, AuthorizedWriteSafe, NoPollDuringLease,
           ReadLoopUnwound
  <2> QED BY <2>1, <2>2, <2>3
<1> QED BY <1>1, <1>2, <1>3, <1>4, <1>5, <1>6

\* It has the port, and gives everything back.
LEMMA LeaseIInv ==
    ASSUME IInv, NEW r \in RawClients,
           RawOpens(r) \/ RawForwards(r) \/ RawTaps(r) \/ RawCloses(r)
           \/ RawUnlocksLifecycle(r) \/ RawClearsFlag(r) \/ RawReleasesClaim(r)
    PROVE  IInv'
<1> USE SerialAssumption DEF IInv, procs, mutexes, session, status, writes
<1>1. CASE RawOpens(r)
  <2> USE <1>1 DEF RawOpens
  <2>1. TypeOK'
    BY DEF TypeOK
  <2>2. Mutexes'
    BY DEF TypeOK, Mutexes, Marked, RawHolds, WakerHolds
  <2>3. Handles' /\ Evidence' /\ NoPollDuringLease'
    BY DEF TypeOK, Handles, Evidence, AuthorizedWriteSafe, NoPollDuringLease, Mutexes,
           Marked, RawHolds, WakerHolds
  <2> QED BY <2>1, <2>2, <2>3
<1>2. CASE RawTaps(r)
  <2> USE <1>2 DEF RawTaps
  <2>1. TypeOK'
    BY DEF TypeOK
  <2>2. Mutexes'
    BY DEF TypeOK, Mutexes, Marked, RawHolds, WakerHolds
  <2>3. Handles' /\ Evidence' /\ NoPollDuringLease'
    BY DEF TypeOK, Handles, Evidence, AuthorizedWriteSafe, NoPollDuringLease, Mutexes,
           Marked, RawHolds, WakerHolds
  <2> QED BY <2>1, <2>2, <2>3
<1>3. CASE RawCloses(r)
  <2> USE <1>3 DEF RawCloses
  <2>1. TypeOK'
    BY DEF TypeOK
  <2>2. Mutexes'
    BY DEF TypeOK, Mutexes, Marked, RawHolds, WakerHolds
  <2>3. Handles' /\ Evidence' /\ NoPollDuringLease'
    BY DEF TypeOK, Handles, Evidence, AuthorizedWriteSafe, NoPollDuringLease, Mutexes,
           Marked, RawHolds, WakerHolds
  <2> QED BY <2>1, <2>2, <2>3
<1>4. CASE RawUnlocksLifecycle(r)
  <2> USE <1>4 DEF RawUnlocksLifecycle
  <2>1. TypeOK'
    BY DEF TypeOK, Holders
  <2>2. Mutexes'
    BY DEF TypeOK, Mutexes, Marked, RawHolds, WakerHolds
  <2>3. Handles' /\ Evidence' /\ NoPollDuringLease'
    BY DEF TypeOK, Handles, Evidence, AuthorizedWriteSafe, NoPollDuringLease
  <2> QED BY <2>1, <2>2, <2>3
<1>5. CASE RawClearsFlag(r)
  <2> USE <1>5 DEF RawClearsFlag
  <2>1. TypeOK'
    BY DEF TypeOK
  <2>2. Mutexes'
    BY DEF TypeOK, Mutexes, Marked, RawHolds, WakerHolds
  <2>3. Handles' /\ Evidence' /\ NoPollDuringLease'
    BY DEF TypeOK, Handles, Evidence, AuthorizedWriteSafe, NoPollDuringLease
  <2> QED BY <2>1, <2>2, <2>3
<1>6. CASE RawReleasesClaim(r)
  <2> USE <1>6 DEF RawReleasesClaim
  <2>1. TypeOK'
    BY DEF TypeOK, Holders
  <2>2. Mutexes'
    BY DEF TypeOK, Mutexes, Marked, RawHolds, WakerHolds
  <2>3. Handles' /\ Evidence' /\ NoPollDuringLease'
    BY DEF TypeOK, Handles, Evidence, AuthorizedWriteSafe, NoPollDuringLease
  <2> QED BY <2>1, <2>2, <2>3
<1>7. CASE RawForwards(r)
  <2> USE <1>7 DEF RawForwards
  <2>1. TypeOK'
    BY DEF TypeOK
  <2>2. Mutexes'
    BY DEF TypeOK, Mutexes
  <2>3. Handles' /\ Evidence' /\ NoPollDuringLease'
    BY DEF TypeOK, Handles, Evidence, AuthorizedWriteSafe, NoPollDuringLease
  <2> QED BY <2>1, <2>2, <2>3
<1> QED BY <1>1, <1>2, <1>3, <1>4, <1>5, <1>6, <1>7

\* The context touches nothing the invariant speaks of.
LEMMA CancelIInv == ASSUME IInv, Cancel \/ UNCHANGED vars PROVE IInv'
<1> USE DEF IInv, Cancel, vars, procs, mutexes, session, status, writes
<1>1. TypeOK'
  <2>1. CASE Cancel
    BY <2>1 DEF TypeOK
  <2>2. CASE UNCHANGED vars
    BY <2>2 DEF TypeOK
  <2> QED BY <2>1, <2>2
<1>2. Mutexes'
  BY DEF Mutexes
<1>3. Handles' /\ Evidence' /\ NoPollDuringLease'
  BY DEF Handles, Evidence, AuthorizedWriteSafe, NoPollDuringLease
<1> QED BY <1>1, <1>2, <1>3

\* Every step keeps the invariant.
LEMMA NextIInv == IInv /\ [Next]_vars => IInv'
<1> SUFFICES ASSUME IInv, [Next]_vars PROVE IInv'
  OBVIOUS
<1>1. CASE LoopNext
  BY <1>1, SessionIInv, PollIInv, StatusIInv DEF LoopNext
<1>2. ASSUME NEW w \in Writers, WriterNext(w) PROVE IInv'
  BY <1>2, WriterIInv DEF WriterNext
<1>3. ASSUME NEW k \in Wakers, WakerNext(k) PROVE IInv'
  BY <1>3, WakerIInv DEF WakerNext
<1>4. ASSUME NEW r \in RawClients, RawNext(r) PROVE IInv'
  BY <1>4, AcquireIInv, LeaseIInv DEF RawNext
<1>5. CASE Cancel \/ UNCHANGED vars
  BY <1>5, CancelIInv
<1> QED BY <1>1, <1>2, <1>3, <1>4, <1>5 DEF Next

\* The invariant of the port, its mutexes and the recorded status.
THEOREM SourceInvariant == Spec => []IInv
BY InitIInv, NextIInv, PTL DEF Spec

\* Every variable has its type, and the port is that of the latest session.
THEOREM TypeCorrect == Spec => []TypeOK
<1>1. IInv => TypeOK
  BY DEF IInv
<1> QED BY <1>1, SourceInvariant, PTL

\* Whoever has the port, the read loop, a wake or a raw client, has it alone, through
\* every handover (retireCurrentSessionForReason, SendWake, BeginRawPassthrough).
THEOREM OneMaster == Spec => []PortIsExclusive
<1>1. IInv => PortIsExclusive
  <2> SUFFICES ASSUME IInv PROVE SinglePortHandle /\ RawExclusive
    BY DEF PortIsExclusive
  <2> USE SerialAssumption DEF IInv, TypeOK, Mutexes, Handles
  <2>1. SinglePortHandle
    <3> SUFFICES ASSUME NEW p \in open, NEW q \in open PROVE p = q
      BY DEF SinglePortHandle
    <3>1. p \in Wakers \cup RawClients => ~portDone /\ lifecycleMu = p
      BY DEF WakerHolds, RawHolds
    <3>2. q \in Wakers \cup RawClients => ~portDone /\ lifecycleMu = q
      BY DEF WakerHolds, RawHolds
    <3> QED BY <3>1, <3>2
  <2>2. RawExclusive
    <3> SUFFICES ASSUME NEW r \in RawClients, raw[r] = "held"
                 PROVE  rawPassthroughActive /\ claim = r /\ lifecycleMu = r /\ ~WriteInFlight
      BY DEF RawExclusive
    <3>1. rawPassthroughActive /\ claim = r /\ lifecycleMu = r /\ writeMu = "free"
      BY DEF Marked, RawHolds
    <3>2. ~WriteInFlight
      BY <3>1 DEF WriteInFlight
    <3> QED BY <3>1, <3>2
  <2> QED BY <2>1, <2>2
<1> QED BY <1>1, SourceInvariant, PTL

\* An authorized button reaches the session it was authorized for, on the newest
\* accepted status (writeFrameForSerialSession, applyStatusFrameFromSession).
THEOREM WritesAreAuthorized == Spec => []AuthorizedWriteSafe
<1>1. IInv => AuthorizedWriteSafe
  BY DEF IInv, Evidence
<1> QED BY <1>1, SourceInvariant, PTL

\* During a lease the retained status owes no authority to a poll: the read loop of the
\* retired session has unwound (BeginRawPassthrough).  Taps, of this lease or late ones of
\* the lease before, are not excluded.
THEOREM LeaseInvalidates == Spec => []NoPollDuringLease
<1>1. IInv => NoPollDuringLease
  BY DEF IInv
<1> QED BY <1>1, SourceInvariant, PTL

\* Who waits for the read loop finds it elsewhere than at lifecycleMu.
LEMMA LoopIsAwaited ==
    ASSUME IInv, NEW p, WaitsFor(p) = "loop"
    PROVE  loop # "lock"
BY SerialAssumption DEF IInv, Mutexes, Handles, InSession, WaitsFor

\* Only the read loop ever waits for a raw client, and only for its lifecycleMu.
LEMMA OnlyLoopWaitsForRaw ==
    ASSUME IInv, NEW p, NEW r \in RawClients, WaitsFor(p) = r
    PROVE  p = "loop" /\ loop = "lock"
BY SerialAssumption
   DEF IInv, TypeOK, Mutexes, Handles, Marked, RawHolds, WakerHolds, WaitsFor

\* No lease parks a wake or a button, and no raw client waits for anyone who waits for it
\* (BeginRawPassthrough drops writeMu before it waits; SendWake looks at the flag first).
THEOREM LeaseParks == Spec => []LeaseParksNobody
<1>1. IInv => LeaseParksNobody
  <2> SUFFICES ASSUME IInv PROVE WakeNeverWaitsForLease /\ RawNeverInWaitCycle
    BY DEF LeaseParksNobody
  <2>1. WakeNeverWaitsForLease
    <3> SUFFICES ASSUME NEW k \in Wakers, waker[k] = "gated", lifecycleMu \in RawClients
                 PROVE  FALSE
      BY DEF WakeNeverWaitsForLease
    <3>1. writeMu = k /\ k # "free"
      BY SerialAssumption DEF IInv, Mutexes
    <3>2. rawPassthroughActive
      BY DEF IInv, Mutexes, Marked
    <3> QED BY <3>1, <3>2 DEF IInv, Mutexes
  <2>2. RawNeverInWaitCycle
    <3> SUFFICES ASSUME NEW r \in RawClients, InWaitCycle(r) PROVE FALSE
      BY DEF RawNeverInWaitCycle
    <3>1. \A p : WaitsFor(p) = r => p = "loop" /\ loop = "lock"
      BY OnlyLoopWaitsForRaw
    <3>2. \A p : WaitsFor(p) = "loop" => loop # "lock"
      BY LoopIsAwaited
    <3> QED BY <3>1, <3>2 DEF InWaitCycle
  <2> QED BY <2>1, <2>2
<1> QED BY <1>1, SourceInvariant, PTL

\* A port in force is open, whatever timeouts of writes to earlier sessions, retires and
\* failed retires do (retirePortIfCurrent, retireCurrentSessionForReason, endSession).
THEOREM PortInForceWorks == Spec => []PortInForceIsOpen
<1>1. IInv => PortInForceIsOpen
  BY DEF IInv, Handles, PortInForceIsOpen
<1> QED BY <1>1, SourceInvariant, PTL
===============================================================================
