----------------------------- MODULE SerialSource -----------------------------
(***************************************************************************)
(* runtime.SerialSource: one serial port shared by the background read     *)
(* loop, button writers, the DTR/RTS wake and raw-passthrough clients.     *)
(*                                                                         *)
(* A step is what a goroutine does between two places where another one    *)
(* may get in: taking writeMu or lifecycleMu, waiting for portDone, or     *)
(* serial I/O.  Sections under portMu are short and are part of a step.    *)
(*                                                                         *)
(* Session numbers only grow and are only compared for equality, so a new  *)
(* session takes any number that nothing refers to any more.               *)
(***************************************************************************)
EXTENDS FiniteSets

CONSTANTS
    Writers,        \* goroutines that call SendButton[ForSerialSession]
    Wakers,         \* goroutines that call SendWake
    RawClients,     \* goroutines that call BeginRawPassthrough
    Sessions,       \* session numbers (portGeneration)
    Statuses,       \* operating states a write may be authorized for, status in RX
    Unusable        \* any other accepted status (TX, TX unknown, other state)

ASSUME SerialAssumption ==
    /\ Writers \cap Wakers = {} /\ Writers \cap RawClients = {} /\ Wakers \cap RawClients = {}
    /\ {"loop", "free"} \cap (Writers \cup Wakers \cup RawClients) = {}
    /\ "none" \notin Sessions \cup Statuses \cup {Unusable}
    /\ Unusable \notin Statuses

VARIABLES
    loop, writer, waker, raw,   \* where each goroutine is
    writeMu, lifecycleMu,       \* the holder of each mutex, or "free"
    claim,                      \* the holder of rawPassthroughClaim, or "free"
    rawPassthroughActive,
    port,                       \* s.port: the session whose handle it is, or "none"
    portGeneration,             \* the latest session, or "none"
    portDone,                   \* the latest session's done channel is still open
    statusPortGeneration,       \* the session of the recorded status, or "none"
    evidence,                   \* recorded statusModel/OperatingState/TX, or "none"
    accepted,                   \* the newest status frame accepted in the session
    frame,                      \* the status frame the read loop has in hand
    auth,                       \* writer -> the authorization it carries
    captured,                   \* writer -> the session whose port it writes to
    open,                       \* goroutines with an open OS handle on the port
    retained,                   \* the provenance of the retained status: "poll", "tap",
                                \* or "none" where there is none or it was invalidated
    inHand,                     \* raw clients whose pump has forwarded a status frame
                                \* that it has still to show to ObserveFromAmp
    reconnectNow,               \* the one-slot reconnect channel is full
    cancelled                   \* the server context is cancelled

procs == <<loop, writer, waker, raw>>
mutexes == <<writeMu, lifecycleMu, claim, rawPassthroughActive>>
session == <<port, portGeneration, portDone>>
status == <<statusPortGeneration, evidence, accepted>>
writes == <<auth, captured>>
vars == <<procs, mutexes, session, status, frame, writes, open, retained, inHand,
          reconnectNow, cancelled>>

Holders == {"loop", "free"} \cup Writers \cup Wakers \cup RawClients
AnyStatus == Statuses \cup {Unusable}
NoAuth == [gen |-> "none", expected |-> "none"]
Authorizations == {NoAuth} \cup [gen : Sessions, expected : Statuses]

TypeOK ==
    /\ loop \in {"backoff", "lock", "opening", "reading", "pollWait", "polling",
                 "clearWait", "publish", "setWait", "callback", "callbackWait",
                 "callbackIO", "ending", "closed", "stopped"}
    /\ writer \in [Writers -> {"idle", "decided", "writing"}]
    /\ waker \in [Wakers -> {"idle", "gated", "retire", "waitDone", "open", "pulsing",
                             "unlock", "unlockWrite"}]
    /\ raw \in [RawClients -> {"idle", "mark", "lifecycle", "retire", "waitDone", "open",
                               "held", "unlock", "clear", "signal", "quiet"}]
    /\ {writeMu, lifecycleMu, claim} \subseteq Holders
    /\ {rawPassthroughActive, portDone, reconnectNow, cancelled} \subseteq BOOLEAN
    /\ retained \in {"none", "poll", "tap"} /\ inHand \subseteq RawClients
    /\ {port, portGeneration, statusPortGeneration} \subseteq Sessions \cup {"none"}
    /\ {evidence, accepted, frame} \subseteq AnyStatus \cup {"none"}
    /\ auth \in [Writers -> Authorizations]
    /\ captured \in [Writers -> Sessions \cup {"none"}]
    /\ port \in {"none", portGeneration}
    /\ open \subseteq {"loop"} \cup Wakers \cup RawClients

Init ==
    /\ loop = "lock"
    /\ writer = [w \in Writers |-> "idle"]
    /\ waker = [k \in Wakers |-> "idle"]
    /\ raw = [r \in RawClients |-> "idle"]
    /\ writeMu = "free" /\ lifecycleMu = "free" /\ claim = "free"
    /\ rawPassthroughActive = FALSE
    /\ port = "none" /\ portGeneration = "none" /\ portDone = FALSE
    /\ statusPortGeneration = "none" /\ evidence = "none" /\ accepted = "none"
    /\ frame = "none"
    /\ auth = [w \in Writers |-> NoAuth]
    /\ captured = [w \in Writers |-> "none"]
    /\ open = {}
    /\ retained = "none" /\ inHand = {} /\ reconnectNow = FALSE /\ cancelled = FALSE

-----------------------------------------------------------------------------
(* The port, as every goroutine sees it under portMu.                      *)

\* The read loop is in the session whose number portGeneration holds.
SessionCurrent == port # "none" /\ port = portGeneration

\* Fault: the handle that is closed is the one in force, not the one written to.
RetireClosesCurrent(s) ==
    /\ port' = IF port = s THEN "none" ELSE port
    /\ open' = open \ {"loop"}
    /\ UNCHANGED <<portGeneration, portDone>>

\* retirePortIfCurrent: forget the port if it is still this one and close its
\* handle.  Handles of earlier sessions were closed when they ended.
RetirePortIfCurrent(s) ==
    /\ port' = IF port = s THEN "none" ELSE port
    /\ open' = IF s = portGeneration THEN open \ {"loop"} ELSE open
    /\ UNCHANGED <<portGeneration, portDone>>

\* The checks of writeFrameForSerialSession, made under writeMu.
Admits(a) ==
    /\ ~rawPassthroughActive
    /\ port # "none"
    /\ a # NoAuth => /\ portGeneration = a.gen
                     /\ statusPortGeneration = a.gen
                     /\ evidence = a.expected

Unreferenced(s) ==
    /\ s \notin {port, portGeneration, statusPortGeneration}
    /\ \A w \in Writers : auth[w].gen # s /\ captured[w] # s

-----------------------------------------------------------------------------
(* readLoop and readFromPort.                                              *)

\* The backoff select: the timer, the reconnect signal or the server context.
LoopBackoffEnds ==
    /\ loop = "backoff"
    /\ \/ cancelled /\ loop' = "stopped" /\ UNCHANGED reconnectNow
       \/ loop' = "lock" /\ UNCHANGED reconnectNow
       \/ reconnectNow /\ loop' = "lock" /\ reconnectNow' = FALSE
    /\ UNCHANGED <<writer, waker, raw, mutexes, session, status, frame, writes, open,
                   retained, inHand, cancelled>>

LoopLocksLifecycle ==
    /\ loop = "lock" /\ lifecycleMu = "free"
    /\ \/ cancelled /\ loop' = "stopped" /\ UNCHANGED lifecycleMu
       \/ ~cancelled /\ loop' = "opening" /\ lifecycleMu' = "loop"
    /\ UNCHANGED <<writer, waker, raw, writeMu, claim, rawPassthroughActive, session,
                   status, frame, writes, open, retained, inHand, reconnectNow, cancelled>>

LoopOpenFails ==
    /\ loop = "opening"
    /\ loop' = "backoff" /\ lifecycleMu' = "free"
    /\ UNCHANGED <<writer, waker, raw, writeMu, claim, rawPassthroughActive, session,
                   status, frame, writes, open, retained, inHand, reconnectNow, cancelled>>

\* Fault: the session number is not advanced.
LoopReusesGeneration ==
    /\ loop = "opening"
    /\ \E s \in Sessions :
          /\ Unreferenced(s)
          /\ port' = s /\ portDone' = TRUE
    /\ statusPortGeneration' = "none" /\ evidence' = "none" /\ accepted' = "none"
    /\ open' = open \cup {"loop"}
    /\ loop' = "reading" /\ lifecycleMu' = "free"
    /\ UNCHANGED <<writer, waker, raw, writeMu, claim, rawPassthroughActive, frame,
                   portGeneration, writes, retained, inHand, reconnectNow, cancelled>>

\* Open and beginSession.
LoopBeginsSession ==
    /\ loop = "opening"
    /\ \E s \in Sessions :
          /\ Unreferenced(s)
          /\ port' = s /\ portGeneration' = s /\ portDone' = TRUE
    /\ statusPortGeneration' = "none" /\ evidence' = "none" /\ accepted' = "none"
    /\ open' = open \cup {"loop"}
    /\ loop' = "reading" /\ lifecycleMu' = "free"
    /\ UNCHANGED <<writer, waker, raw, writeMu, claim, rawPassthroughActive, frame,
                   writes, retained, inHand, reconnectNow, cancelled>>

\* Fault: only a failing read ends the session, not the context.
LoopIgnoresContext ==
    /\ loop = "reading" /\ "loop" \notin open
    /\ loop' = "ending"
    /\ UNCHANGED <<writer, waker, raw, mutexes, session, status, frame, writes, open,
                   retained, inHand, reconnectNow, cancelled>>

\* The context is cancelled, a line setup or a read fails.
LoopLeavesPort ==
    /\ loop = "reading"
    /\ loop' = "ending"
    /\ UNCHANGED <<writer, waker, raw, mutexes, session, status, frame, writes, open,
                   retained, inHand, reconnectNow, cancelled>>

\* The scheduler has a poll due and writeFrame is called.
LoopPollDue ==
    /\ loop = "reading" /\ ~cancelled
    /\ loop' = "pollWait"
    /\ UNCHANGED <<writer, waker, raw, mutexes, session, status, frame, writes, open,
                   retained, inHand, reconnectNow, cancelled>>

\* A refused poll ends the session.
LoopPollStarts ==
    /\ loop = "pollWait" /\ writeMu = "free"
    /\ \/ Admits(NoAuth) /\ loop' = "polling" /\ writeMu' = "loop"
       \/ (cancelled \/ ~Admits(NoAuth)) /\ loop' = "ending" /\ UNCHANGED writeMu
    /\ UNCHANGED <<writer, waker, raw, lifecycleMu, claim, rawPassthroughActive, session,
                   status, frame, writes, open, retained, inHand, reconnectNow, cancelled>>

\* The poll is written, fails, or times out and takes the port down.
LoopPollEnds ==
    /\ loop = "polling"
    /\ \/ loop' \in {"reading", "ending"} /\ UNCHANGED <<session, open>>
       \/ loop' = "ending" /\ RetirePortIfCurrent(portGeneration)
    /\ writeMu' = "free"
    /\ UNCHANGED <<writer, waker, raw, lifecycleMu, claim, rawPassthroughActive, status,
                   frame, writes, retained, inHand, reconnectNow, cancelled>>

\* A read returns a status frame.
LoopReadsStatus(f) ==
    /\ loop = "reading" /\ "loop" \in open
    /\ loop' = "clearWait" /\ frame' = f
    /\ UNCHANGED <<writer, waker, raw, mutexes, session, status, writes, open, retained,
                   inHand, reconnectNow, cancelled>>

\* A read returns a display frame: the fan controller observes it, and may send a key
\* from this goroutine.
LoopReadsDisplay ==
    /\ loop = "reading" /\ "loop" \in open
    /\ loop' = "callbackWait"
    /\ UNCHANGED <<writer, waker, raw, mutexes, session, status, frame, writes, open,
                   retained, inHand, reconnectNow, cancelled>>

\* Fault: the status frame is accepted without clearing the old identity.
LoopAcceptsWithoutClearing ==
    /\ loop = "clearWait" /\ writeMu = "free"
    /\ IF SessionCurrent
       THEN /\ statusPortGeneration' = portGeneration
            /\ accepted' = frame
            /\ loop' = "publish"
            /\ UNCHANGED <<frame, evidence>>
       ELSE /\ loop' = "reading" /\ frame' = "none"
            /\ UNCHANGED status
    /\ UNCHANGED <<writer, waker, raw, mutexes, session, writes, open, retained, inHand,
                   reconnectNow, cancelled>>

\* Fault: the identity is cleared under portMu alone, not under writeMu.
LoopClearsWithoutWriteMu ==
    /\ loop = "clearWait"
    /\ IF SessionCurrent
       THEN /\ statusPortGeneration' = portGeneration
            /\ evidence' = "none"
            /\ accepted' = frame
            /\ loop' = "publish"
            /\ UNCHANGED frame
       ELSE /\ loop' = "reading" /\ frame' = "none"
            /\ UNCHANGED status
    /\ UNCHANGED <<writer, waker, raw, mutexes, session, writes, open, retained, inHand,
                   reconnectNow, cancelled>>

\* First critical section of applyStatusFrameFromSession: drop a frame of a
\* retired session, else clear the recorded identity.
LoopClearsIdentity ==
    /\ loop = "clearWait" /\ writeMu = "free"
    /\ IF SessionCurrent
       THEN /\ statusPortGeneration' = portGeneration
            /\ evidence' = "none"
            /\ accepted' = frame
            /\ loop' = "publish"
            /\ UNCHANGED frame
       ELSE /\ loop' = "reading" /\ frame' = "none"
            /\ UNCHANGED status
    /\ UNCHANGED <<writer, waker, raw, mutexes, session, writes, open, retained, inHand,
                   reconnectNow, cancelled>>

\* statusState.UpdateProtocolNative.
LoopPublishesStatus ==
    /\ loop = "publish"
    /\ retained' = "poll"
    /\ loop' = "setWait"
    /\ UNCHANGED <<writer, waker, raw, mutexes, session, status, frame, writes, open,
                   inHand, reconnectNow, cancelled>>

\* Second critical section: record the identity if the session is still current.
LoopSetsIdentity ==
    /\ loop = "setWait" /\ writeMu = "free"
    /\ IF SessionCurrent
       THEN statusPortGeneration' = portGeneration /\ evidence' = frame
       ELSE UNCHANGED <<statusPortGeneration, evidence>>
    /\ loop' = "callback" /\ frame' = "none"
    /\ UNCHANGED <<writer, waker, raw, mutexes, session, accepted, writes, open, retained,
                   inHand, reconnectNow, cancelled>>

\* The safety, fan and menu controllers observe the status; any of them may
\* send a button from this goroutine.
LoopCallback ==
    /\ loop = "callback"
    /\ loop' \in {"reading", "callbackWait"}
    /\ UNCHANGED <<writer, waker, raw, mutexes, session, status, frame, writes, open,
                   retained, inHand, reconnectNow, cancelled>>

LoopCallbackSends ==
    /\ loop = "callbackWait" /\ writeMu = "free"
    /\ \/ Admits(NoAuth) /\ loop' = "callbackIO" /\ writeMu' = "loop"
       \/ loop' = "reading" /\ UNCHANGED writeMu
    /\ UNCHANGED <<writer, waker, raw, lifecycleMu, claim, rawPassthroughActive, session,
                   status, frame, writes, open, retained, inHand, reconnectNow, cancelled>>

LoopCallbackReturns ==
    /\ loop = "callbackIO"
    /\ \/ UNCHANGED <<session, open>>
       \/ RetirePortIfCurrent(portGeneration)
    /\ loop' = "reading" /\ writeMu' = "free"
    /\ UNCHANGED <<writer, waker, raw, lifecycleMu, claim, rawPassthroughActive, status,
                   frame, writes, retained, inHand, reconnectNow, cancelled>>

\* The deferred port.Close of readFromPort.
LoopClosesPort ==
    /\ loop = "ending"
    /\ open' = open \ {"loop"}
    /\ loop' = "closed"
    /\ UNCHANGED <<writer, waker, raw, mutexes, session, status, frame, writes, retained,
                   inHand, reconnectNow, cancelled>>

\* endSession.
LoopEndsSession ==
    /\ loop = "closed"
    /\ port' = "none" /\ portDone' = FALSE
    /\ loop' = "backoff"
    /\ UNCHANGED <<writer, waker, raw, mutexes, portGeneration, status, frame, writes,
                   open, retained, inHand, reconnectNow, cancelled>>

-----------------------------------------------------------------------------
(* SendButton and SendButtonForSerialSession.                              *)

\* A caller takes the session it believes in and calls; the manual path
\* carries no authorization.
WriterCalls(w) ==
    /\ writer[w] = "idle"
    /\ \/ auth' = [auth EXCEPT ![w] = NoAuth]
       \/ \E e \in Statuses :
             /\ portGeneration # "none"
             /\ auth' = [auth EXCEPT ![w] = [gen |-> portGeneration, expected |-> e]]
    /\ writer' = [writer EXCEPT ![w] = "decided"]
    /\ UNCHANGED <<loop, waker, raw, mutexes, session, status, frame, captured, open,
                   retained, inHand, reconnectNow, cancelled>>

WriterStarts(w) ==
    /\ writer[w] = "decided" /\ writeMu = "free"
    /\ Admits(auth[w])
    /\ writer' = [writer EXCEPT ![w] = "writing"]
    /\ captured' = [captured EXCEPT ![w] = port]
    /\ writeMu' = w
    /\ UNCHANGED <<loop, waker, raw, lifecycleMu, claim, rawPassthroughActive, session,
                   status, frame, auth, open, retained, inHand, reconnectNow, cancelled>>

WriterRefused(w) ==
    /\ writer[w] = "decided" /\ writeMu = "free"
    /\ ~Admits(auth[w])
    /\ writer' = [writer EXCEPT ![w] = "idle"]
    /\ auth' = [auth EXCEPT ![w] = NoAuth]
    /\ UNCHANGED <<loop, waker, raw, mutexes, session, status, frame, captured, open,
                   retained, inHand, reconnectNow, cancelled>>

\* The write completes or fails, or its timeout retires the port it captured.
WriterReturns(w) ==
    /\ writer[w] = "writing"
    /\ \/ UNCHANGED <<session, open>>
       \/ RetirePortIfCurrent(captured[w])
    /\ writer' = [writer EXCEPT ![w] = "idle"]
    /\ auth' = [auth EXCEPT ![w] = NoAuth]
    /\ captured' = [captured EXCEPT ![w] = "none"]
    /\ writeMu' = "free"
    /\ UNCHANGED <<loop, waker, raw, lifecycleMu, claim, rawPassthroughActive, status,
                   frame, retained, inHand, reconnectNow, cancelled>>

-----------------------------------------------------------------------------
(* retireCurrentSessionForReason, shared by the wake and raw passthrough.  *)

\* Fault: the caller does not wait for the read loop's done channel.
UnwoundUnchecked == TRUE

\* The done channel of the retired session is closed.  The caller holds
\* lifecycleMu, so no other session can have begun since.
ReadLoopUnwound == ~portDone

\* Forget the port and close its handle: "done" when there is nothing to wait
\* for, "wait" when the read loop must unwind, "failed" when Close fails and
\* leaves the handle as it was.
Retire(outcome) ==
    /\ \/ outcome = "done" /\ port = "none" /\ ~portDone /\ UNCHANGED open
       \/ outcome = "wait" /\ port = "none" /\ portDone /\ UNCHANGED open
       \/ outcome = "wait" /\ port # "none" /\ open' = open \ {"loop"}
       \/ outcome = "failed" /\ port # "none" /\ UNCHANGED open
    /\ port' = "none"
    /\ UNCHANGED <<portGeneration, portDone>>

-----------------------------------------------------------------------------
(* SendWake.                                                               *)

\* writeMu, then the passthrough flag; a refused wake changes nothing.
WakerPassesGate(k) ==
    /\ waker[k] = "idle" /\ writeMu = "free"
    /\ ~rawPassthroughActive
    /\ writeMu' = k
    /\ waker' = [waker EXCEPT ![k] = "gated"]
    /\ UNCHANGED <<loop, writer, raw, lifecycleMu, claim, rawPassthroughActive, session,
                   status, frame, writes, open, retained, inHand, reconnectNow, cancelled>>

WakerLocksLifecycle(k) ==
    /\ waker[k] = "gated" /\ lifecycleMu = "free"
    /\ lifecycleMu' = k
    /\ waker' = [waker EXCEPT ![k] = "retire"]
    /\ UNCHANGED <<loop, writer, raw, writeMu, claim, rawPassthroughActive, session,
                   status, frame, writes, open, retained, inHand, reconnectNow, cancelled>>

WakerRetires(k) ==
    /\ waker[k] = "retire"
    /\ \/ Retire("done") /\ waker' = [waker EXCEPT ![k] = "open"]
       \/ Retire("wait") /\ waker' = [waker EXCEPT ![k] = "waitDone"]
       \/ Retire("failed") /\ waker' = [waker EXCEPT ![k] = "unlock"]
    /\ UNCHANGED <<loop, writer, raw, mutexes, status, frame, writes, retained, inHand,
                   reconnectNow, cancelled>>

\* Fault: the error path of the retire forgets lifecycleMu.
WakerTimeoutKeepsLifecycle(k) ==
    /\ waker[k] = "waitDone"
    /\ \/ ReadLoopUnwound /\ waker' = [waker EXCEPT ![k] = "open"]
       \/ waker' = [waker EXCEPT ![k] = "unlockWrite"]
    /\ UNCHANGED <<loop, writer, raw, mutexes, session, status, frame, writes, open,
                   retained, inHand, reconnectNow, cancelled>>

\* The done channel, or the retire timeout or the request's context.
WakerWaits(k) ==
    /\ waker[k] = "waitDone"
    /\ \/ ReadLoopUnwound /\ waker' = [waker EXCEPT ![k] = "open"]
       \/ waker' = [waker EXCEPT ![k] = "unlock"]
    /\ UNCHANGED <<loop, writer, raw, mutexes, session, status, frame, writes, open,
                   retained, inHand, reconnectNow, cancelled>>

\* transport.LocalWakeTransport opens a handle of its own, or fails to.
WakerOpens(k) ==
    /\ waker[k] = "open"
    /\ \/ open' = open \cup {k} /\ waker' = [waker EXCEPT ![k] = "pulsing"]
       \/ UNCHANGED open /\ waker' = [waker EXCEPT ![k] = "unlock"]
    /\ UNCHANGED <<loop, writer, raw, mutexes, session, status, frame, writes, retained,
                   inHand, reconnectNow, cancelled>>

WakerPulseEnds(k) ==
    /\ waker[k] = "pulsing"
    /\ open' = open \ {k}
    /\ waker' = [waker EXCEPT ![k] = "unlock"]
    /\ UNCHANGED <<loop, writer, raw, mutexes, session, status, frame, writes, retained,
                   inHand, reconnectNow, cancelled>>

\* The deferred calls: lifecycleMu and the reconnect signal, then writeMu.
WakerUnlocksLifecycle(k) ==
    /\ waker[k] = "unlock"
    /\ lifecycleMu' = "free" /\ reconnectNow' = TRUE
    /\ waker' = [waker EXCEPT ![k] = "unlockWrite"]
    /\ UNCHANGED <<loop, writer, raw, writeMu, claim, rawPassthroughActive, session,
                   status, frame, writes, open, retained, inHand, cancelled>>

WakerUnlocksWrite(k) ==
    /\ waker[k] = "unlockWrite"
    /\ writeMu' = "free"
    /\ waker' = [waker EXCEPT ![k] = "idle"]
    /\ UNCHANGED <<loop, writer, raw, lifecycleMu, claim, rawPassthroughActive, session,
                   status, frame, writes, open, retained, inHand, reconnectNow, cancelled>>

-----------------------------------------------------------------------------
(* BeginRawPassthrough, the lease, and Close.                              *)

\* TryLock: a second client is refused.  A client is a connection: its name is used
\* again once its pump is done.
RawClaims(r) ==
    /\ raw[r] = "idle" /\ claim = "free" /\ r \notin inHand
    /\ claim' = r
    /\ raw' = [raw EXCEPT ![r] = "mark"]
    /\ UNCHANGED <<loop, writer, waker, writeMu, lifecycleMu, rawPassthroughActive,
                   session, status, frame, writes, open, retained, inHand, reconnectNow,
                   cancelled>>

\* Fault: the mark keeps writeMu across the retire, as SendWake does.
RawMarksHoldingWriteMu(r) ==
    /\ raw[r] = "mark" /\ writeMu = "free"
    /\ rawPassthroughActive' = TRUE
    /\ writeMu' = r
    /\ raw' = [raw EXCEPT ![r] = "lifecycle"]
    /\ UNCHANGED <<loop, writer, waker, lifecycleMu, claim, session, status, frame,
                   writes, open, retained, inHand, reconnectNow, cancelled>>

\* The flag is set under writeMu, and writeMu is dropped before any wait.
RawMarks(r) ==
    /\ raw[r] = "mark" /\ writeMu = "free"
    /\ rawPassthroughActive' = TRUE
    /\ raw' = [raw EXCEPT ![r] = "lifecycle"]
    /\ UNCHANGED <<loop, writer, waker, writeMu, lifecycleMu, claim, session, status,
                   frame, writes, open, retained, inHand, reconnectNow, cancelled>>

\* A cancelled server refuses the client: lifecycleMu is dropped at once.
RawLocksLifecycle(r) ==
    /\ raw[r] = "lifecycle" /\ lifecycleMu = "free"
    /\ \/ cancelled /\ raw' = [raw EXCEPT ![r] = "quiet"] /\ UNCHANGED lifecycleMu
       \/ ~cancelled /\ raw' = [raw EXCEPT ![r] = "retire"] /\ lifecycleMu' = r
    /\ UNCHANGED <<loop, writer, waker, writeMu, claim, rawPassthroughActive, session,
                   status, frame, writes, open, retained, inHand, reconnectNow, cancelled>>

\* abandon and release on that path, where no reconnect is signalled.
RawAbandonsCancelled(r) ==
    /\ raw[r] = "quiet" /\ writeMu = "free"
    /\ rawPassthroughActive' = FALSE /\ claim' = "free"
    /\ raw' = [raw EXCEPT ![r] = "idle"]
    /\ UNCHANGED <<loop, writer, waker, writeMu, lifecycleMu, session, status, frame,
                   writes, open, retained, inHand, reconnectNow, cancelled>>

RawRetires(r) ==
    /\ raw[r] = "retire"
    /\ \/ Retire("done") /\ raw' = [raw EXCEPT ![r] = "open"]
       \/ Retire("wait") /\ raw' = [raw EXCEPT ![r] = "waitDone"]
       \/ Retire("failed") /\ raw' = [raw EXCEPT ![r] = "unlock"]
    /\ UNCHANGED <<loop, writer, waker, mutexes, status, frame, writes, retained, inHand,
                   reconnectNow, cancelled>>

RawWaits(r) ==
    /\ raw[r] = "waitDone"
    /\ \/ ReadLoopUnwound /\ raw' = [raw EXCEPT ![r] = "open"]
       \/ raw' = [raw EXCEPT ![r] = "unlock"]
    /\ UNCHANGED <<loop, writer, waker, mutexes, session, status, frame, writes, open,
                   retained, inHand, reconnectNow, cancelled>>

\* Open and set up the port, then invalidate the retained status; or fail,
\* closing whatever was opened.
RawOpens(r) ==
    /\ raw[r] = "open"
    /\ \/ /\ open' = open \cup {r} /\ retained' = "none"
          /\ raw' = [raw EXCEPT ![r] = "held"]
       \/ raw' = [raw EXCEPT ![r] = "unlock"] /\ UNCHANGED <<open, retained>>
    /\ UNCHANGED <<loop, writer, waker, mutexes, session, status, frame, writes, inHand,
                   reconnectNow, cancelled>>

\* The amplifier-to-client goroutine forwards a chunk with a status frame in it.
RawForwards(r) ==
    /\ raw[r] = "held" /\ r \notin inHand
    /\ inHand' = inHand \cup {r}
    /\ UNCHANGED <<procs, mutexes, session, status, frame, writes, open, retained,
                   reconnectNow, cancelled>>

\* ObserveFromAmp publishes the frame.  Nothing asks whether the handle is still open:
\* the lease may be over, and the next one begun.
RawTaps(r) ==
    /\ r \in inHand
    /\ inHand' = inHand \ {r} /\ retained' = "tap"
    /\ UNCHANGED <<procs, mutexes, session, status, frame, writes, open, reconnectNow,
                   cancelled>>

\* closeFn, step by step: the port, lifecycleMu, the flag, then the signal and
\* the claim.  A failed acquisition ends the same way.
RawCloses(r) ==
    /\ raw[r] = "held"
    /\ open' = open \ {r}
    /\ raw' = [raw EXCEPT ![r] = "unlock"]
    /\ UNCHANGED <<loop, writer, waker, mutexes, session, status, frame, writes, retained,
                   inHand, reconnectNow, cancelled>>

\* Fault: the flag is cleared while lifecycleMu is still held.
RawClearsBeforeUnlock(r) ==
    /\ raw[r] = "unlock"
    /\ rawPassthroughActive' = FALSE
    /\ \/ UNCHANGED <<lifecycleMu, raw>>
       \/ lifecycleMu' = "free" /\ raw' = [raw EXCEPT ![r] = "clear"]
    /\ UNCHANGED <<loop, writer, waker, writeMu, claim, session, status, frame, writes,
                   open, retained, inHand, reconnectNow, cancelled>>

\* Fault: the claim goes with lifecycleMu, before the flag is cleared.
RawUnlocksWithClaim(r) ==
    /\ raw[r] = "unlock"
    /\ lifecycleMu' = "free" /\ claim' = "free"
    /\ raw' = [raw EXCEPT ![r] = "clear"]
    /\ UNCHANGED <<loop, writer, waker, writeMu, rawPassthroughActive, session, status,
                   frame, writes, open, retained, inHand, reconnectNow, cancelled>>

RawUnlocksLifecycle(r) ==
    /\ raw[r] = "unlock"
    /\ lifecycleMu' = "free"
    /\ raw' = [raw EXCEPT ![r] = "clear"]
    /\ UNCHANGED <<loop, writer, waker, writeMu, claim, rawPassthroughActive, session,
                   status, frame, writes, open, retained, inHand, reconnectNow, cancelled>>

\* Fault: the clean-up forgets the flag.
RawLeavesFlag(r) ==
    /\ raw[r] = "clear" /\ writeMu = "free"
    /\ raw' = [raw EXCEPT ![r] = "signal"]
    /\ UNCHANGED <<loop, writer, waker, mutexes, session, status, frame, writes, open,
                   retained, inHand, reconnectNow, cancelled>>

RawClearsFlag(r) ==
    /\ raw[r] = "clear" /\ writeMu = "free"
    /\ rawPassthroughActive' = FALSE
    /\ raw' = [raw EXCEPT ![r] = "signal"]
    /\ UNCHANGED <<loop, writer, waker, writeMu, lifecycleMu, claim, session, status,
                   frame, writes, open, retained, inHand, reconnectNow, cancelled>>

RawReleasesClaim(r) ==
    /\ raw[r] = "signal"
    /\ reconnectNow' = TRUE /\ claim' = "free"
    /\ raw' = [raw EXCEPT ![r] = "idle"]
    /\ UNCHANGED <<loop, writer, waker, writeMu, lifecycleMu, rawPassthroughActive,
                   session, status, frame, writes, open, retained, inHand, cancelled>>

-----------------------------------------------------------------------------
\* Stop, or the server's context.
Cancel ==
    /\ ~cancelled
    /\ cancelled' = TRUE
    /\ UNCHANGED <<procs, mutexes, session, status, frame, writes, open, retained, inHand,
                   reconnectNow>>

LoopNext ==
    \/ LoopBackoffEnds \/ LoopLocksLifecycle \/ LoopOpenFails \/ LoopBeginsSession
    \/ LoopLeavesPort \/ LoopPollDue \/ LoopPollStarts \/ LoopPollEnds
    \/ (\E f \in AnyStatus : LoopReadsStatus(f)) \/ LoopReadsDisplay
    \/ LoopClearsIdentity \/ LoopPublishesStatus \/ LoopSetsIdentity
    \/ LoopCallback \/ LoopCallbackSends \/ LoopCallbackReturns
    \/ LoopClosesPort \/ LoopEndsSession

WriterNext(w) == WriterCalls(w) \/ WriterStarts(w) \/ WriterRefused(w) \/ WriterReturns(w)

WakerNext(k) ==
    \/ WakerPassesGate(k) \/ WakerLocksLifecycle(k) \/ WakerRetires(k) \/ WakerWaits(k)
    \/ WakerOpens(k) \/ WakerPulseEnds(k) \/ WakerUnlocksLifecycle(k)
    \/ WakerUnlocksWrite(k)

RawNext(r) ==
    \/ RawClaims(r) \/ RawMarks(r) \/ RawLocksLifecycle(r) \/ RawAbandonsCancelled(r)
    \/ RawRetires(r) \/ RawWaits(r) \/ RawOpens(r) \/ RawForwards(r) \/ RawTaps(r)
    \/ RawCloses(r) \/ RawUnlocksLifecycle(r) \/ RawClearsFlag(r) \/ RawReleasesClaim(r)

Next ==
    \/ LoopNext
    \/ \E w \in Writers : WriterNext(w)
    \/ \E k \in Wakers : WakerNext(k)
    \/ \E r \in RawClients : RawNext(r)
    \/ Cancel

Spec == Init /\ [][Next]_vars

-----------------------------------------------------------------------------
(* Safety.                                                                 *)

\* The amplifier tolerates one serial master: at most one goroutine has an OS
\* handle open on the port, through every handover between the read loop, a
\* wake and a raw client, and through retires that time out or fail.
SinglePortHandle == \A p, q \in open : p = q

WriteInFlight ==
    \/ loop \in {"polling", "callbackIO"}
    \/ \E w \in Writers : writer[w] = "writing"
    \/ \E k \in Wakers : waker[k] = "pulsing"

\* While a raw client has the port it has everything that keeps the server off
\* it: the claim, lifecycleMu and the flag, and no server write is running
\* (the mark waited for the last one).  A predecessor's clean-up must not have
\* cleared the flag of its successor.
RawExclusive ==
    \A r \in RawClients : raw[r] = "held" =>
        /\ rawPassthroughActive /\ claim = r /\ lifecycleMu = r
        /\ ~WriteInFlight

\* Whoever has the port, the read loop, a wake or a raw client, has it alone.
PortIsExclusive == SinglePortHandle /\ RawExclusive

\* A write that carries an authorization runs on the port of the session it was
\* authorized for, and unless that session is over, against the newest status
\* the server has accepted from it.  A reconnect cannot redirect it and a new
\* status cannot be accepted underneath it.  Whatever is between the two critical
\* sections of the read loop, the identity that authorizes is the newest accepted.
AuthorizedWriteSafe ==
    /\ \A w \in Writers : writer[w] = "writing" /\ auth[w] # NoAuth =>
          /\ captured[w] = auth[w].gen
          /\ portGeneration = auth[w].gen => accepted = auth[w].expected
    /\ evidence # "none" => evidence = accepted /\ statusPortGeneration = portGeneration

\* A wake that has passed the passthrough check, and so holds writeMu, never
\* finds lifecycleMu in the hands of a raw client, which would park every
\* button write behind a lease of unbounded length.
WakeNeverWaitsForLease ==
    \A k \in Wakers : waker[k] = "gated" => lifecycleMu \notin RawClients

\* While a client has the port the retained status owes no authority to a poll: no reply
\* of the retired session is still on its way to lift the invalidation, because the lease
\* begins after the read loop has unwound.  A tap does lift it, and it need not be a tap
\* of this lease: the pump of the one before may still have a frame in hand, which is the
\* business of RawPassthrough (TapOfThisLease).
NoPollDuringLease ==
    \A r \in RawClients : raw[r] = "held" => retained # "poll"

\* A port that is in force is one that works: its session has not ended, there is a done
\* channel to wait for, and its handle is open, except between the read loop's own Close
\* and endSession.  A timeout of a write to an earlier session does not close the handle
\* of the one in force, and no retire, failed or not, leaves a closed handle in force,
\* to which every poll and key would be written in vain.
PortInForceIsOpen ==
    port # "none" => portDone /\ ("loop" \in open \/ loop = "closed")

\* Whom a goroutine is waiting for ("free": nobody).
WaitsFor(p) ==
    IF p = "loop"
    THEN IF loop \in {"pollWait", "clearWait", "setWait", "callbackWait"} THEN writeMu
         ELSE IF loop = "lock" THEN lifecycleMu ELSE "free"
    ELSE IF p \in Wakers
    THEN IF waker[p] = "gated" THEN lifecycleMu
         ELSE IF waker[p] = "waitDone" /\ portDone THEN "loop" ELSE "free"
    ELSE IF p \in RawClients
    THEN IF raw[p] \in {"mark", "clear", "quiet"} THEN writeMu
         ELSE IF raw[p] = "lifecycle" THEN lifecycleMu
         ELSE IF raw[p] = "waitDone" /\ portDone THEN "loop" ELSE "free"
    ELSE "free"

\* Two mutexes and one done channel: no cycle has more than three members.
InWaitCycle(p) ==
    p \in {WaitsFor(WaitsFor(p)), WaitsFor(WaitsFor(WaitsFor(p)))}

\* Beginning a lease never waits on a goroutine that waits, directly or through
\* a wake, on the client: acquisition does not have to time out.
RawNeverInWaitCycle ==
    \A r \in RawClients : ~InWaitCycle(r)

\* A raw client, whose lease has no bound in time, keeps nobody waiting but the read
\* loop, and waits for nobody who waits for it.
LeaseParksNobody == WakeNeverWaitsForLease /\ RawNeverInWaitCycle

\* What monitoring/controller.go:103-105 says of the wake: the serial callback
\* never blocks the read loop that wake is waiting to retire.  SendWake keeps
\* writeMu while it waits, and applyStatusFrameFromSession takes writeMu.
WakeNeverBlocksReadLoop ==
    \A k \in Wakers : ~(/\ waker[k] = "waitDone" /\ WaitsFor(k) = "loop"
                       /\ loop \in {"clearWait", "setWait"} /\ WaitsFor("loop") = k)

-----------------------------------------------------------------------------
(* Progress.  Go mutexes hand over to a starving waiter after a millisecond, *)
(* so a goroutine that waits for one gets it (SF); I/O is bounded by         *)
(* timeouts and running goroutines are scheduled (WF).  The read loop tests  *)
(* its context before every read, so it cannot read for ever after a cancel. *)
(* Nothing makes a raw client hang up, except that the listener closes it    *)
(* when the server stops.                                                    *)

\* Each goroutine has one enabled step at most places, so fairness of the
\* disjunction is fairness of every step it must take.
LoopMoves ==
    \/ LoopBackoffEnds \/ LoopLocksLifecycle \/ LoopOpenFails \/ LoopBeginsSession
    \/ LoopPollStarts \/ LoopPollEnds \/ LoopClearsIdentity \/ LoopPublishesStatus
    \/ LoopSetsIdentity \/ LoopCallback \/ LoopCallbackSends \/ LoopCallbackReturns
    \/ LoopClosesPort \/ LoopEndsSession

WakerMoves(k) == waker[k] # "idle" /\ WakerNext(k)

RawMoves(r) ==
    /\ raw[r] # "idle"
    /\ raw[r] = "held" => cancelled
    /\ RawNext(r) /\ raw' # raw

Fairness ==
    /\ SF_vars(LoopMoves)
    /\ SF_vars(cancelled /\ LoopLeavesPort)
    /\ \A w \in Writers : WF_vars(WriterReturns(w))
    /\ \A k \in Wakers : SF_vars(WakerMoves(k))
    /\ \A r \in RawClients : SF_vars(RawMoves(r))

LiveSpec == Spec /\ Fairness

\* The read loop always gets back to the port: whatever wakes, failed wakes and
\* failed acquisitions do to it, it leaves lifecycleMu behind unless a client
\* is on the line.
ReadLoopReturns ==
    loop = "lock" ~> (loop # "lock" \/ \E r \in RawClients : raw[r] = "held")

\* The passthrough flag does not outlive a lease or a failed acquisition: a
\* flag left set would refuse every button and every poll for ever.
FlagIsCleared ==
    rawPassthroughActive
        ~> (~rawPassthroughActive \/ \E r \in RawClients : raw[r] = "held")

\* Every handover of the port ends, also one that fails.
HandoverEnds == ReadLoopReturns /\ FlagIsCleared

\* A cancelled server stops its read loop, whoever has the port at the time.
ShutdownStopsLoop == cancelled ~> loop = "stopped"
=============================================================================
