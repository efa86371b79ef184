--------------------------- MODULE CanonicalStatus ---------------------------
(***************************************************************************)
(* Canonical status and the display: the retained protocol frame of        *)
(* StatusState, the snapshot of Store, which the Poller copies from the    *)
(* serial source, and a websocket of each kind that is told of changes.    *)
(*                                                                         *)
(* Both publishers deliver under their mutex, one subscriber after the     *)
(* other, into buffered channels: a full one is drained of its oldest      *)
(* entry and sent to again, while its reader takes entries without the     *)
(* mutex.  A status websocket reads the snapshot, then the retained frame, *)
(* and sends the answer when it differs from the last.                     *)
(*                                                                         *)
(* A frame is reduced to the operating state it shows, time to the order   *)
(* of frames and to whether one is within RecentContactWindow.             *)
(* lastContactAt, which is such a time in print, is left out of payloads.  *)
(***************************************************************************)
EXTENDS Naturals, Sequences, SequencesExt

CONSTANTS
    States,         \* operating states a frame may show
    Buffer,         \* of a subscription
    MaxEvents       \* bound on frames, ageing, leases, connections and their ends, together

ASSUME CanonicalStatusAssumption ==
    /\ Buffer \in Nat \ {0} /\ MaxEvents \in Nat

VARIABLES
    proto,      \* StatusState: the retained frame, its authority and its age
    lease,      \* an external client has the port ("held"), had it, or never did
    latest,     \* SerialSource.latest: the display frame received last
    snap,       \* Store.snapshot
    seenAge,    \* of snapshot.DisplayReceivedAt
    poller,     \* what Poll returned and Apply has not stored
    subs,       \* the subscribers of both publishers
    chan,       \* their channels
    pub,        \* a delivery in progress, under the publisher's mutex
    sock,       \* a status websocket
    disp,       \* a display websocket
    events

vars == <<proto, lease, latest, snap, seenAge, poller, subs, chan, pub, sock, disp, events>>

Hubs == {"status", "store"}
Clients == {"sock", "disp"}
Free(hub) == pub[hub].todo = {}

Event(happens) == events' = events + (IF happens THEN 1 ELSE 0) /\ events' <= MaxEvents

\* A display frame; behind (history): a protocol frame came after it.
\* newer: the snapshot's updatedAt, the time it was stored, is after lastProtocolAt.
NoFrame == [value |-> "none", behind |-> FALSE, age |-> "never"]
NoSnapshot == [value |-> "none", behind |-> FALSE, newer |-> FALSE, seq |-> 0]
NoAnswer == [state |-> "none", from |-> "none", contact |-> FALSE]

-----------------------------------------------------------------------------
(* What canonical status answers.                                          *)

\* mergeProtocolNativeStatus with applyFreshDisplayOverrides: a display that was stored
\* later has the say on the operating state.
Merged(snapshot) ==
    [state |-> IF snapshot.newer THEN snapshot.value ELSE proto.value, from |-> proto.from,
     contact |-> "fresh" \in {proto.age, seenAge}]

\* Resolve.  The retained frame speaks for the amplifier unless a lease invalidated it,
\* or it was tapped and nothing refreshes it.
Resolve(snapshot) ==
    LET contact == proto.age = "fresh"
        display == [state |-> snapshot.value, from |-> "display", contact |-> seenAge = "fresh"]
    IN  IF ~proto.auth \/ (proto.from = "tap" /\ ~contact) THEN display
        ELSE IF proto.from = "seed" THEN [display EXCEPT !.contact = @ \/ contact]
        ELSE Merged(snapshot)

-----------------------------------------------------------------------------
(* Delivery.                                                               *)

NoDelivery == [todo |-> {}, to |-> "none", step |-> "send", msg |-> 0]

\* notifySubscribersLocked, and the end of Apply: the mutex is kept until all are told.
Notify(hub, msg) ==
    pub' = [pub EXCEPT ![hub] = [NoDelivery EXCEPT !.todo = subs[hub], !.msg = msg]]

Told(hub, client) ==
    pub' = [pub EXCEPT ![hub].todo = @ \ {client}, ![hub].to = "none", ![hub].step = "send"]

Puts(hub, client) == chan' = [chan EXCEPT ![hub][client] = Append(@, pub[hub].msg)]

\* Fault: a full channel keeps its old entries.
PushFault(hub, client) ==
    /\ client \in pub[hub].todo /\ pub[hub].step = "send" /\ Told(hub, client)
    /\ IF Len(chan[hub][client]) < Buffer THEN Puts(hub, client) ELSE UNCHANGED chan
    /\ UNCHANGED <<proto, lease, latest, snap, seenAge, poller, subs, sock, disp, events>>

\* Fault: a channel takes one entry more than its buffer.
PushOverfull(hub, client) ==
    /\ client \in pub[hub].todo /\ pub[hub].step = "send" /\ Told(hub, client)
    /\ IF Len(chan[hub][client]) <= Buffer THEN Puts(hub, client) ELSE UNCHANGED chan
    /\ UNCHANGED <<proto, lease, latest, snap, seenAge, poller, subs, sock, disp, events>>

\* pushStatus and pushSnapshot: send, or else drain one, and send again.
Push(hub, client) ==
    /\ client \in pub[hub].todo /\ pub[hub].to \in {"none", client}
    /\ LET full == Len(chan[hub][client]) >= Buffer
           next(step) == pub' = [pub EXCEPT ![hub].to = client, ![hub].step = step]
       IN  CASE pub[hub].step = "send" ->
                    IF full THEN next("drain") /\ UNCHANGED chan
                            ELSE Puts(hub, client) /\ Told(hub, client)
             [] pub[hub].step = "drain" ->
                    /\ next("again")
                    /\ chan' = [chan EXCEPT ![hub][client] = IF @ = <<>> THEN @ ELSE Tail(@)]
             [] OTHER ->
                    /\ IF full THEN UNCHANGED chan ELSE Puts(hub, client)
                    /\ Told(hub, client)
    /\ UNCHANGED <<proto, lease, latest, snap, seenAge, poller, subs, sock, disp, events>>

-----------------------------------------------------------------------------
(* The publications.                                                       *)

\* A snapshot stored before a protocol frame, of a display frame received before it.
Before(s) == [s EXCEPT !.behind = s.value # "none", !.newer = FALSE]

\* Fault: only a change of the frame is announced.
AnnouncedFault(value, from) == <<proto.value, proto.from>> # <<value, from>>

\* An unchanged frame is announced when it restores authority.
Announced(value, from) == <<proto.value, proto.from, proto.auth>> # <<value, from, TRUE>>

\* UpdateProtocolNative: a reply to a poll or a tapped frame.  There are no polls during a
\* lease, but the frames of the last tapped chunk may be published after it.  One that is
\* not announced can still change the answer, by its time.
UpdateProtocolNative(value, from) ==
    /\ Free("status") /\ Event(TRUE)
    /\ (from = "poll" => lease # "held") /\ (from = "tap" => lease # "none")
    /\ proto' = [value |-> value, from |-> from, auth |-> TRUE, age |-> "fresh"]
    /\ latest' = [latest EXCEPT !.behind = latest.value # "none"]
    /\ poller' = [poller EXCEPT !.behind = poller.value # "none"]
    /\ snap' = Before(snap)
    /\ sock' = [sock EXCEPT !.snap = Before(@),
                            !.silent = @ \/ (~Announced(value, from)
                                             /\ (snap.newer \/ sock.snap.newer \/ proto.age # "fresh"))]
    /\ IF Announced(value, from) THEN Notify("status", 0) ELSE UNCHANGED pub
    /\ UNCHANGED <<lease, seenAge, subs, chan, disp>>

\* Fault: losing authority changes no byte of the retained frame, so nobody is told.
InvalidatePreLeaseStatusFault ==
    /\ lease # "held" /\ lease' = "held" /\ Free("status") /\ Event(TRUE)
    /\ proto' = [proto EXCEPT !.auth = FALSE]
    /\ UNCHANGED <<latest, snap, seenAge, poller, subs, chan, pub, sock, disp>>

\* BeginRawPassthrough calls InvalidatePreLeaseStatus.
InvalidatePreLeaseStatus ==
    /\ lease # "held" /\ lease' = "held" /\ Free("status") /\ Event(TRUE)
    /\ proto' = [proto EXCEPT !.auth = FALSE]
    /\ IF proto.auth THEN Notify("status", 0) ELSE UNCHANGED pub
    /\ UNCHANGED <<latest, snap, seenAge, poller, subs, chan, sock, disp>>

EndLease ==
    /\ lease = "held" /\ lease' = "over"
    /\ UNCHANGED <<proto, latest, snap, seenAge, poller, subs, chan, pub, sock, disp, events>>

\* A display frame, from the read loop or from a tap.
ReceiveDisplayFrame(value) ==
    /\ Event(TRUE) /\ latest' = [value |-> value, behind |-> FALSE, age |-> "fresh"]
    /\ UNCHANGED <<proto, lease, snap, seenAge, poller, subs, chan, pub, sock, disp>>

\* pollOnce: the frame received last, and then Apply; a poll that brings nothing new
\* is left out.
Poll ==
    /\ poller = NoFrame /\ latest # NoFrame
    /\ latest # [value |-> snap.value, behind |-> snap.behind, age |-> seenAge]
    /\ poller' = latest
    /\ UNCHANGED <<proto, lease, latest, snap, seenAge, subs, chan, pub, sock, disp, events>>

\* An unchanged frame only renews displayReceivedAt, and nobody is told.
Apply ==
    /\ poller # NoFrame /\ Free("store") /\ poller' = NoFrame
    /\ seenAge' = IF poller.age = "fresh" \/ seenAge = "never" THEN poller.age ELSE seenAge
    /\ IF poller.value = snap.value
       THEN /\ snap' = [snap EXCEPT !.behind = poller.behind]
            /\ sock' = [sock EXCEPT !.silent = @ \/ seenAge' # seenAge]
            /\ UNCHANGED pub
       ELSE /\ snap' = [value |-> poller.value, behind |-> poller.behind, newer |-> TRUE,
                        seq |-> snap.seq + 1]
            /\ Notify("store", snap.seq + 1)
            /\ UNCHANGED sock
    /\ UNCHANGED <<proto, lease, latest, subs, chan, disp, events>>

\* Nothing comes for RecentContactWindow.
Old(age) == IF age = "fresh" THEN "old" ELSE age
FramesAge(ofDisplay) ==
    /\ Event(TRUE) /\ sock' = [sock EXCEPT !.silent = TRUE]
    /\ IF ofDisplay
       THEN /\ "fresh" \in {seenAge, latest.age, poller.age}
            /\ seenAge' = Old(seenAge) /\ latest' = [latest EXCEPT !.age = Old(@)]
            /\ poller' = [poller EXCEPT !.age = Old(@)] /\ UNCHANGED proto
       ELSE /\ proto.age = "fresh" /\ proto' = [proto EXCEPT !.age = "old"]
            /\ UNCHANGED <<seenAge, latest, poller>>
    /\ UNCHANGED <<lease, snap, subs, chan, pub, disp>>

-----------------------------------------------------------------------------
(* The websockets.                                                         *)

Subscribe(hub, client) ==
    /\ Free(hub) /\ subs' = [subs EXCEPT ![hub] = @ \cup {client}]
    /\ UNCHANGED chan

\* Fault: the channel is closed beside a delivery.
UnsubscribeFault(hub, client) ==
    /\ subs' = [subs EXCEPT ![hub] = @ \ {client}]
    /\ chan' = [chan EXCEPT ![hub][client] = <<>>]

\* The returned function: the channel is closed under the mutex.
Unsubscribe(hub, client) ==
    /\ Free(hub) /\ subs' = [subs EXCEPT ![hub] = @ \ {client}]
    /\ chan' = [chan EXCEPT ![hub][client] = <<>>]

Sock(pc) == sock' = [sock EXCEPT !.pc = pc]
Disp(pc) == disp' = [disp EXCEPT !.pc = pc]
NoSock == [pc |-> "closed", snap |-> NoSnapshot, last |-> NoAnswer, silent |-> FALSE]
NoDisp == [pc |-> "closed", shown |-> 0, since |-> 0]

Quiet == UNCHANGED <<proto, lease, latest, snap, seenAge, poller, pub>>

\* Fault: a socket subscribes after its first answer.
SockSubscribesFault ==
    /\ \/ sock.pc = "closed" /\ sock' = [NoSock EXCEPT !.pc = "read"]
                             /\ UNCHANGED <<subs, chan>>
       \/ sock.pc = "wait" /\ "sock" \notin subs["status"] /\ UNCHANGED sock
                             /\ Subscribe("status", "sock")
       \/ sock.pc = "wait" /\ "sock" \notin subs["store"] /\ UNCHANGED sock
                             /\ Subscribe("store", "sock")
    /\ Quiet /\ UNCHANGED <<disp, events>>

\* handleStatusWebsocket subscribes before it resolves the first answer.
SockSubscribes ==
    /\ \/ sock.pc = "closed" /\ Sock("status") /\ Subscribe("status", "sock")
       \/ sock.pc = "status" /\ Sock("read") /\ Subscribe("store", "sock")
    /\ Quiet /\ UNCHANGED <<disp, events>>

\* selectedStatus: the snapshot, and then the retained frame; sendIfChanged.
SockReads ==
    /\ sock.pc = "read" /\ Free("store")
    /\ sock' = [sock EXCEPT !.pc = "resolve", !.snap = snap]
    /\ Quiet /\ UNCHANGED <<subs, chan, disp, events>>

SockAnswers ==
    /\ sock.pc = "resolve" /\ Free("status")
    /\ sock' = [pc |-> "wait", snap |-> NoSnapshot, last |-> Resolve(sock.snap), silent |-> FALSE]
    /\ Quiet /\ UNCHANGED <<subs, chan, disp, events>>

SockWakes(hub) ==
    /\ sock.pc = "wait" /\ chan[hub]["sock"] # <<>> /\ Sock("read")
    /\ chan' = [chan EXCEPT ![hub]["sock"] = Tail(@)]
    /\ Quiet /\ UNCHANGED <<subs, disp, events>>

\* Fault: only what is published moves an open socket.
SockRechecksFault == FALSE /\ UNCHANGED vars

\* Once a second.
SockRechecks ==
    /\ sock.pc = "wait" /\ Sock("read")
    /\ Quiet /\ UNCHANGED <<subs, chan, disp, events>>

\* The client is gone, or a message cannot be written; what was deferred runs backwards.
SockCloses ==
    /\ \/ sock.pc = "wait" /\ Sock("gone") /\ Event(TRUE) /\ UNCHANGED <<subs, chan>>
       \/ sock.pc = "gone" /\ Sock("left") /\ Event(FALSE) /\ Unsubscribe("store", "sock")
       \/ sock.pc = "left" /\ sock' = NoSock /\ Event(FALSE) /\ Unsubscribe("status", "sock")
    /\ Quiet /\ UNCHANGED disp

\* Fault: the subscription comes before the first event.
DispOpensFault ==
    /\ \/ /\ disp.pc = "closed" /\ Disp("subscribe") /\ Subscribe("store", "disp")
       \/ /\ disp.pc = "subscribe" /\ Free("store")
          /\ disp' = [pc |-> "wait", shown |-> snap.seq, since |-> snap.seq]
          /\ UNCHANGED <<subs, chan>>
    /\ Quiet /\ UNCHANGED <<sock, events>>

\* handleDisplayWebsocket sends the snapshot it reads, and then subscribes.
DispOpens ==
    /\ \/ /\ disp.pc = "closed" /\ Free("store")
          /\ disp' = [NoDisp EXCEPT !.pc = "subscribe", !.shown = snap.seq]
          /\ UNCHANGED <<subs, chan>>
       \/ /\ disp.pc = "subscribe" /\ Subscribe("store", "disp")
          /\ disp' = [disp EXCEPT !.pc = "wait", !.since = snap.seq]
    /\ Quiet /\ UNCHANGED <<sock, events>>

DispSends ==
    /\ disp.pc = "wait" /\ chan["store"]["disp"] # <<>>
    /\ disp' = [disp EXCEPT !.shown = Head(chan["store"]["disp"])]
    /\ chan' = [chan EXCEPT !["store"]["disp"] = Tail(@)]
    /\ Quiet /\ UNCHANGED <<subs, sock, events>>

DispCloses ==
    /\ \/ disp.pc = "wait" /\ Disp("gone") /\ Event(TRUE) /\ UNCHANGED <<subs, chan>>
       \/ disp.pc = "gone" /\ disp' = NoDisp /\ Event(FALSE) /\ Unsubscribe("store", "disp")
    /\ Quiet /\ UNCHANGED sock

-----------------------------------------------------------------------------
Init ==
    /\ proto = [value |-> "none", from |-> "seed", auth |-> TRUE, age |-> "never"]
    /\ lease = "none" /\ latest = NoFrame /\ snap = NoSnapshot /\ seenAge = "never"
    /\ poller = NoFrame /\ subs = [h \in Hubs |-> {}]
    /\ chan = [h \in Hubs |-> [c \in Clients |-> <<>>]] /\ pub = [h \in Hubs |-> NoDelivery]
    /\ sock = NoSock /\ disp = NoDisp /\ events = 0

Pushes == \E hub \in Hubs, client \in Clients : Push(hub, client)
SockRuns == SockReads \/ SockAnswers \/ (\E hub \in Hubs : SockWakes(hub)) \/ SockRechecks

Next ==
    \/ \E value \in States, from \in {"poll", "tap"} : UpdateProtocolNative(value, from)
    \/ \E value \in States : ReceiveDisplayFrame(value)
    \/ \E ofDisplay \in BOOLEAN : FramesAge(ofDisplay)
    \/ InvalidatePreLeaseStatus \/ EndLease \/ Poll \/ Apply \/ Pushes
    \/ SockSubscribes \/ SockRuns \/ SockCloses
    \/ DispOpens \/ DispSends \/ DispCloses

Spec == Init /\ [][Next]_vars

\* The poller ticks, publishers finish, and the sockets' goroutines run; nothing is
\* promised of frames, clients or leases.
LiveSpec ==
    /\ Spec
    /\ WF_vars(Poll \/ Apply) /\ WF_vars(Pushes)
    /\ WF_vars(SockSubscribes \/ SockRuns) /\ WF_vars(DispSends)

-----------------------------------------------------------------------------
\* The types; a channel never holds more than its buffer.
TypeOK ==
    /\ proto \in [value : States \cup {"none"}, from : {"seed", "poll", "tap"},
                  auth : BOOLEAN, age : {"never", "old", "fresh"}]
    /\ \A frame \in {latest, poller} :
          frame \in [value : States \cup {"none"}, behind : BOOLEAN,
                     age : {"never", "old", "fresh"}]
    /\ {snap.behind, snap.newer, sock.silent} \subseteq BOOLEAN
    /\ lease \in {"none", "held", "over"}
    /\ seenAge \in {"never", "old", "fresh"} /\ snap.seq \in Nat
    /\ \A hub \in Hubs, client \in Clients : Len(chan[hub][client]) <= Buffer
    /\ sock.pc \in {"closed", "status", "read", "resolve", "wait", "gone", "left"}
    /\ disp.pc \in {"closed", "subscribe", "wait", "gone"}
    /\ events \in 0..MaxEvents

\* A publisher never sends on a channel its reader has closed.
NoSendOnClosedChannel == \A hub \in Hubs : pub[hub].todo \subseteq subs[hub]

\* Whoever waits on its channels, and has not sent what canonical status answers now,
\* finds a wake-up there or gets one from the delivery in progress, also when the
\* channels overflow and when authority changed while it resolved.  What the clock and
\* repeated frames change is silent.
NoWakeUpIsLost ==
    sock.pc = "wait" /\ sock.last # Resolve(snap) =>
        \/ sock.silent
        \/ \E hub \in Hubs : chan[hub]["sock"] # <<>> \/ "sock" \in pub[hub].todo

\* A slow display client may miss snapshots, but never the newest one since it
\* subscribed: it was sent or ends the queue.
NewestSnapshotRemains ==
    disp.pc = "wait" /\ "disp" \notin pub["store"].todo =>
        LET queue == chan["store"]["disp"]
        IN  IF queue # <<>> THEN Last(queue) = snap.seq
            ELSE disp.shown = snap.seq \/ disp.since = snap.seq

\* Snapshots are sent in the order of their sequence.
SnapshotsInOrder ==
    [][disp.pc \in {"subscribe", "wait"} /\ disp'.pc # "closed" => disp'.shown >= disp.shown]_vars

\* An open status socket comes to show what canonical status answers, also when that
\* expires by the clock and nothing is published.
SocketsCatchUp == []<>(sock.pc \in {"closed", "gone", "left"} \/ sock.last = Resolve(snap))

\* What status_state.go:305-308 says: the display overrides the protocol's operating
\* state only when it is newer.  It does not hold: the snapshot's time is that of Apply.
OverrideIsNewer ==
    proto.auth /\ proto.from = "poll" /\ snap.newer /\ snap.value # proto.value => ~snap.behind

\* An open display socket has sent the newest snapshot, or will.  It does not hold: one
\* that is stored before the socket subscribes is never sent.
DisplayFollowsSnapshot ==
    disp.pc = "wait" =>
        \/ disp.shown = snap.seq \/ chan["store"]["disp"] # <<>> \/ "disp" \in pub["store"].todo
=============================================================================
