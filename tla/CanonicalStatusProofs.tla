------------------------ MODULE CanonicalStatusProofs ------------------------
(***************************************************************************)
(* Theorems about the delivery of status and snapshots, for any number of  *)
(* events and any buffer.  The invariant says what a publisher that holds  *)
(* its mutex may rely on, and what is in a display client's channel.       *)
(***************************************************************************)
EXTENDS CanonicalStatus, TLAPS

Times == {"never", "old", "fresh"}
Values == States \cup {"none"}
Leases == {"none", "held", "over"}
Protos == [value : Values, from : {"seed", "poll", "tap"}, auth : BOOLEAN, age : Times]
Frames == [value : Values, behind : BOOLEAN, age : Times]
Snapshots == [value : Values, behind : BOOLEAN, newer : BOOLEAN, seq : Nat]
Answers == [state : Values, from : {"none", "display", "seed", "poll", "tap"},
            contact : BOOLEAN]
Deliveries == [todo : SUBSET Clients, to : Clients \cup {"none"},
               step : {"send", "drain", "again"}, msg : Nat]
Socks == [pc : {"closed", "status", "read", "resolve", "wait", "gone", "left"},
          snap : Snapshots, last : Answers, silent : BOOLEAN]
Disps == [pc : {"closed", "subscribe", "wait", "gone"}, shown : Nat, since : Nat]

Types ==
    /\ proto \in Protos /\ lease \in Leases /\ latest \in Frames /\ poller \in Frames
    /\ snap \in Snapshots /\ seenAge \in Times
    /\ subs \in [Hubs -> SUBSET Clients] /\ chan \in [Hubs -> [Clients -> Seq(Nat)]]
    /\ pub \in [Hubs -> Deliveries] /\ sock \in Socks /\ disp \in Disps
    /\ events \in 0..MaxEvents

\* What holds under a publisher's mutex: whom it still has to tell is subscribed, the
\* channel it is busy with has room once an entry was drained (readers only take), and
\* what the store delivers is its snapshot.
Publishing ==
    /\ NoSendOnClosedChannel
    /\ \A hub \in Hubs : pub[hub].step # "send" => pub[hub].to \in pub[hub].todo
    /\ \A hub \in Hubs, client \in Clients :
          /\ Len(chan[hub][client]) <= Buffer
          /\ pub[hub].step = "again" /\ pub[hub].to = client
                => Len(chan[hub][client]) < Buffer
    /\ pub["store"].todo # {} => pub["store"].msg = snap.seq

\* The display client's channel holds snapshots between the one it sent and the newest,
\* in their order, and ends with the newest that was delivered.
Queue == chan["store"]["disp"]
Display ==
    /\ "disp" \in subs["store"] <=> disp.pc \in {"wait", "gone"}
    /\ "disp" \notin subs["store"] => Queue = <<>>
    /\ disp.shown <= snap.seq
    /\ \A i \in 1..Len(Queue) : disp.shown <= Queue[i] /\ Queue[i] <= snap.seq
    /\ \A i, j \in 1..Len(Queue) : i <= j => Queue[i] <= Queue[j]
    /\ NewestSnapshotRemains

IInv == Types /\ Publishing /\ Display

-----------------------------------------------------------------------------
\* Canonical status answers with an answer.
LEMMA ResolveTyped ==
    ASSUME proto \in Protos, seenAge \in Times, NEW s \in Snapshots
    PROVE  Resolve(s) \in Answers
<1>1. \A v \in Values, f \in {"none", "display", "seed", "poll", "tap"}, c \in BOOLEAN :
        [state |-> v, from |-> f, contact |-> c] \in Answers
  BY DEF Answers
<1>2. s.value \in Values /\ proto.value \in Values /\ proto.from \in {"seed", "poll", "tap"}
  BY DEF Snapshots, Protos
<1> DEFINE contact == proto.age = "fresh"
           display == [state |-> s.value, from |-> "display", contact |-> seenAge = "fresh"]
<1>3. display \in Answers
  BY <1>1, <1>2
<1>4. [display EXCEPT !.contact = @ \/ contact] \in Answers
  BY <1>3 DEF Answers
<1>5. Merged(s) \in Answers
  <2>1. (IF s.newer THEN s.value ELSE proto.value) \in Values
    BY <1>2
  <2>2. ("fresh" \in {proto.age, seenAge}) \in BOOLEAN
    OBVIOUS
  <2>3. proto.from \in {"none", "display", "seed", "poll", "tap"}
    BY <1>2
  <2> QED BY <1>1, <2>1, <2>2, <2>3, Zenon DEF Merged
<1>6. Resolve(s) \in {display, [display EXCEPT !.contact = @ \/ contact], Merged(s)}
  <2>1. CASE ~proto.auth
    BY <2>1 DEF Resolve
  <2>2. CASE proto.auth /\ proto.from = "tap" /\ ~contact
    BY <2>2 DEF Resolve
  <2>3. CASE proto.auth /\ proto.from = "seed"
    BY <2>3 DEF Resolve
  <2>4. CASE proto.auth /\ proto.from # "seed" /\ ~(proto.from = "tap" /\ ~contact)
    BY <2>4 DEF Resolve
  <2> QED BY <2>1, <2>2, <2>3, <2>4
<1> QED BY <1>3, <1>4, <1>5, <1>6

\* At the start nobody is subscribed and every channel is empty.
LEMMA InitIInv == Init => IInv
<1> SUFFICES ASSUME Init PROVE IInv
  OBVIOUS
<1> USE CanonicalStatusAssumption DEF Init, Hubs, Clients
<1>1. Types
  <2>1. proto \in Protos /\ latest \in Frames /\ poller \in Frames /\ snap \in Snapshots
    BY DEF Protos, Frames, Snapshots, NoFrame, NoSnapshot, Times, Values
  <2>2. subs \in [Hubs -> SUBSET Clients] /\ chan \in [Hubs -> [Clients -> Seq(Nat)]]
    OBVIOUS
  <2>3. pub \in [Hubs -> Deliveries]
    BY DEF Deliveries, NoDelivery
  <2>4. sock \in Socks /\ disp \in Disps
    BY DEF Socks, Disps, Snapshots, Answers, NoSnapshot, NoAnswer, NoSock, NoDisp, Values
  <2>5. lease \in Leases
    BY DEF Leases
  <2>6. seenAge \in Times /\ events \in 0..MaxEvents
    BY DEF Times
  <2> QED BY <2>1, <2>2, <2>3, <2>4, <2>5, <2>6 DEF Types
<1>2. Publishing
  BY DEF Publishing, NoSendOnClosedChannel, NoDelivery
<1>3. Display
  BY DEF Display, Queue, NewestSnapshotRemains, NoDisp, NoSnapshot
<1> QED BY <1>1, <1>2, <1>3 DEF IInv

\* A step that leaves the subscribers, their channels and the snapshot alone.
LEMMA QuietKeeps ==
    ASSUME IInv, UNCHANGED <<subs, chan, pub, disp>>, snap'.seq = snap.seq
    PROVE  Publishing' /\ Display'
<1>1. Publishing'
  BY DEF IInv, Publishing, NoSendOnClosedChannel
<1>2. Display'
  BY DEF IInv, Display, Queue, NewestSnapshotRemains, Last
<1> QED BY <1>1, <1>2

\* A publication: whoever is subscribed is to be told, and a new snapshot is the newest.
LEMMA NotifyKeeps ==
    ASSUME IInv, NEW hub \in Hubs, NEW msg \in Nat, Free(hub), Notify(hub, msg),
           UNCHANGED <<subs, chan, disp>>, snap'.seq \in Nat,
           IF hub = "store" THEN msg = snap'.seq /\ snap.seq <= snap'.seq
                            ELSE snap'.seq = snap.seq
    PROVE  pub' \in [Hubs -> Deliveries] /\ Publishing' /\ Display'
<1> USE DEF IInv, Types
<1>1. /\ pub'[hub] = [NoDelivery EXCEPT !.todo = subs[hub], !.msg = msg]
      /\ \A h \in Hubs \ {hub} : pub'[h] = pub[h]
      /\ pub' \in [Hubs -> Deliveries]
  BY DEF Notify, Deliveries, NoDelivery
<1>2. pub'[hub].todo = subs[hub] /\ pub'[hub].msg = msg /\ pub'[hub].step = "send"
  BY <1>1 DEF NoDelivery
<1>3. Publishing'
  <2>1. \A h \in Hubs : h # hub => pub'[h] = pub[h]
    BY <1>1
  <2>2. NoSendOnClosedChannel'
    BY <1>2, <2>1 DEF Publishing, NoSendOnClosedChannel
  <2>3. \A h \in Hubs : pub'[h].step # "send" => pub'[h].to \in pub'[h].todo
    BY <1>2, <2>1 DEF Publishing
  <2>4. \A h \in Hubs, c \in Clients :
           /\ Len(chan'[h][c]) <= Buffer
           /\ pub'[h].step = "again" /\ pub'[h].to = c => Len(chan'[h][c]) < Buffer
    BY <1>2, <2>1 DEF Publishing
  <2>5. pub'["store"].todo # {} => pub'["store"].msg = snap'.seq
    BY <1>2, <2>1 DEF Publishing, Hubs
  <2> QED BY <2>2, <2>3, <2>4, <2>5 DEF Publishing
<1>4. Queue \in Seq(Nat) /\ disp.shown \in Nat /\ snap.seq \in Nat /\ Queue' = Queue
  BY DEF Queue, Hubs, Clients, Disps, Snapshots
<1>5. NewestSnapshotRemains'
  <2>1. CASE hub = "store"
    BY <1>2, <2>1 DEF NewestSnapshotRemains, Display
  <2>2. CASE hub = "status"
    BY <1>1, <2>2 DEF NewestSnapshotRemains, Display, Hubs, Last
  <2> QED BY <2>1, <2>2 DEF Hubs
<1>6. Display'
  BY <1>4, <1>5, SMTT(30) DEF Display
<1> QED BY <1>1, <1>3, <1>6

-----------------------------------------------------------------------------
(* The frames, the lease and the poller.                                   *)

\* A protocol frame is retained, and announced when it says something new.
LEMMA UpdateIInv ==
    ASSUME IInv, NEW v \in States, NEW from \in {"poll", "tap"}, UpdateProtocolNative(v, from)
    PROVE  IInv'
<1> USE CanonicalStatusAssumption DEF IInv, Types, UpdateProtocolNative
<1>1. /\ proto' \in Protos /\ latest' \in Frames /\ poller' \in Frames
      /\ snap' \in Snapshots /\ snap'.seq = snap.seq
  BY DEF Protos, Frames, Snapshots, Before, Values, Times
<1>2. sock' \in Socks
  <2>1. Before(sock.snap) \in Snapshots
    BY DEF Socks, Snapshots, Before
  <2> DEFINE silent == sock.silent \/ (~Announced(v, from)
                          /\ (snap.newer \/ sock.snap.newer \/ proto.age # "fresh"))
  <2>2. sock' = [sock EXCEPT !.snap = Before(@), !.silent = silent]
    OBVIOUS
  <2>3. silent \in BOOLEAN
    BY DEF Socks, Snapshots
  <2> HIDE DEF silent
  <2> QED BY <2>1, <2>2, <2>3 DEF Socks
<1>3. CASE Announced(v, from)
  <2>1. pub' \in [Hubs -> Deliveries] /\ Publishing' /\ Display'
    BY <1>1, <1>3, NotifyKeeps DEF Hubs, Snapshots
  <2> QED BY <1>1, <1>2, <2>1 DEF Event
<1>4. CASE ~Announced(v, from)
  <2>1. Publishing' /\ Display'
    BY <1>1, <1>4, QuietKeeps
  <2> QED BY <1>1, <1>2, <1>4, <2>1 DEF Event
<1> QED BY <1>3, <1>4

\* A lease takes the authority of the retained frame, and gives it back to the next frame.
LEMMA LeaseIInv ==
    ASSUME IInv, InvalidatePreLeaseStatus \/ EndLease
    PROVE  IInv'
<1> USE CanonicalStatusAssumption DEF IInv, Types
<1>1. CASE InvalidatePreLeaseStatus
  <2> USE <1>1 DEF InvalidatePreLeaseStatus
  <2>1. proto' \in Protos /\ lease' \in Leases
    BY DEF Protos, Leases
  <2>2. CASE proto.auth
    <3>1. pub' \in [Hubs -> Deliveries] /\ Publishing' /\ Display'
      BY <2>2, NotifyKeeps DEF Hubs, Snapshots
    <3> QED BY <2>1, <3>1 DEF Event
  <2>3. CASE ~proto.auth
    <3>1. Publishing' /\ Display'
      BY <2>3, QuietKeeps
    <3> QED BY <2>1, <2>3, <3>1 DEF Event
  <2> QED BY <2>2, <2>3
<1>2. CASE EndLease
  <2>1. Publishing' /\ Display'
    BY <1>2, QuietKeeps DEF EndLease
  <2> QED BY <1>2, <2>1 DEF EndLease, Leases
<1> QED BY <1>1, <1>2

\* A display frame comes, gets old, or is read by the poller.
LEMMA FramesIInv ==
    ASSUME IInv, \/ \E v \in States : ReceiveDisplayFrame(v)
                 \/ \E ofDisplay \in BOOLEAN : FramesAge(ofDisplay)
                 \/ Poll
    PROVE  IInv'
<1> USE CanonicalStatusAssumption DEF IInv, Types
<1>1. ASSUME NEW v \in States, ReceiveDisplayFrame(v) PROVE IInv'
  <2>1. latest' \in Frames
    BY <1>1 DEF ReceiveDisplayFrame, Frames, Values, Times
  <2>2. Publishing' /\ Display'
    BY <1>1, QuietKeeps DEF ReceiveDisplayFrame
  <2> QED BY <1>1, <2>1, <2>2 DEF ReceiveDisplayFrame, Event
<1>2. ASSUME NEW ofDisplay \in BOOLEAN, FramesAge(ofDisplay) PROVE IInv'
  <2>1. \A age \in Times : Old(age) \in Times
    BY DEF Times, Old
  <2> DEFINE Typed == /\ proto' \in Protos /\ latest' \in Frames /\ poller' \in Frames
                      /\ seenAge' \in Times
  <2>2. ASSUME ofDisplay PROVE Typed
    <3>1. latest.age \in Times /\ poller.age \in Times
      BY DEF Frames
    <3>2. latest' \in Frames /\ poller' \in Frames /\ seenAge' \in Times /\ proto' \in Protos
      BY <1>2, <2>1, <2>2, <3>1, SMTT(30) DEF FramesAge, Frames
    <3> QED BY <3>2
  <2>3. ASSUME ~ofDisplay PROVE Typed
    <3>1. proto' \in Protos
      BY <1>2, <2>3 DEF FramesAge, Protos, Times
    <3> QED BY <1>2, <2>3, <3>1 DEF FramesAge
  <2>4. sock' \in Socks
    BY <1>2 DEF FramesAge, Socks
  <2>5. Publishing' /\ Display'
    BY <1>2, QuietKeeps DEF FramesAge
  <2>6. Typed
    BY <2>2, <2>3
  <2> QED BY <1>2, <2>4, <2>5, <2>6 DEF FramesAge, Event
<1>3. CASE Poll
  <2>1. Publishing' /\ Display'
    BY <1>3, QuietKeeps DEF Poll
  <2> QED BY <1>3, <2>1 DEF Poll
<1> QED BY <1>1, <1>2, <1>3

\* The poller stores a snapshot; a changed one is the next in sequence.
LEMMA ApplyIInv == ASSUME IInv, Apply PROVE IInv'
<1> USE CanonicalStatusAssumption DEF IInv, Types, Apply
<1>1. poller' \in Frames /\ seenAge' \in Times
  BY DEF Frames, NoFrame, Values, Times
<1>2. CASE poller.value = snap.value
  <2>1. snap' \in Snapshots /\ snap'.seq = snap.seq
    BY <1>2 DEF Snapshots, Frames
  <2>2. sock' \in Socks
    <3> DEFINE silent == sock.silent \/ seenAge' # seenAge
    <3>1. sock' = [sock EXCEPT !.silent = silent] /\ silent \in BOOLEAN
      BY <1>2
    <3> HIDE DEF silent
    <3> QED BY <3>1 DEF Socks
  <2>3. Publishing' /\ Display'
    BY <1>2, <2>1, QuietKeeps
  <2> QED BY <1>1, <1>2, <2>1, <2>2, <2>3
<1>3. CASE poller.value # snap.value
  <2>1. snap.seq \in Nat /\ poller.value \in Values /\ poller.behind \in BOOLEAN
    BY DEF Snapshots, Frames
  <2>2. snap' \in Snapshots /\ snap'.seq = snap.seq + 1
    <3>1. \A v \in Values, b, n \in BOOLEAN, i \in Nat :
             LET s == [value |-> v, behind |-> b, newer |-> n, seq |-> i]
             IN  s \in Snapshots /\ s.seq = i
      BY DEF Snapshots
    <3>2. snap.seq + 1 \in Nat /\ TRUE \in BOOLEAN
      BY <2>1
    <3>3. snap' = [value |-> poller.value, behind |-> poller.behind, newer |-> TRUE,
                   seq |-> snap.seq + 1]
      BY <1>3
    <3> QED BY <2>1, <3>1, <3>2, <3>3
  <2>3. pub' \in [Hubs -> Deliveries] /\ Publishing' /\ Display'
    BY <1>3, <2>1, <2>2, NotifyKeeps DEF Hubs
  <2> QED BY <1>1, <1>3, <2>2, <2>3
<1> QED BY <1>2, <1>3

-----------------------------------------------------------------------------
\* What a publisher's step does to its delivery, and to the client's channel.
Tells(d, client) == [d EXCEPT !.todo = @ \ {client}, !.to = "none", !.step = "send"]
Turns(d, client, step) == [d EXCEPT !.to = client, !.step = step]

\* A client is told in one send, unless its channel is full, which is then drained first.
LEMMA PushSteps ==
    ASSUME IInv, NEW hub \in Hubs, NEW client \in Clients, Push(hub, client)
    PROVE  LET d == pub[hub]
               queue == chan[hub][client]
           IN  \E next \in Deliveries, q \in Seq(Nat) :
                 /\ pub' = [pub EXCEPT ![hub] = next]
                 /\ chan' = [chan EXCEPT ![hub][client] = q]
                 /\ \/ next = Tells(d, client) /\ q = Append(queue, d.msg) /\ Len(queue) < Buffer
                    \/ next = Turns(d, client, "drain") /\ q = queue
                    \/ /\ next = Turns(d, client, "again")
                       /\ q = IF queue = <<>> THEN queue ELSE Tail(queue)
<1> USE CanonicalStatusAssumption DEF IInv, Types
<1> DEFINE d == pub[hub]
           queue == chan[hub][client]
<1>1. /\ d \in Deliveries /\ queue \in Seq(Nat) /\ Len(queue) \in Nat /\ d.msg \in Nat
      /\ d.step \in {"send", "drain", "again"} /\ d.todo \subseteq Clients
      /\ chan[hub] \in [Clients -> Seq(Nat)]
  BY DEF Deliveries
<1>2. /\ Tells(d, client) \in Deliveries
      /\ \A step \in {"send", "drain", "again"} : Turns(d, client, step) \in Deliveries
  BY <1>1 DEF Deliveries, Tells, Turns
<1>3. Append(queue, d.msg) \in Seq(Nat) /\ (queue # <<>> => Tail(queue) \in Seq(Nat))
  BY <1>1
<1>4. chan = [chan EXCEPT ![hub][client] = queue]
  BY <1>1
<1>5. \A step : [pub EXCEPT ![hub].to = client, ![hub].step = step]
                    = [pub EXCEPT ![hub] = Turns(d, client, step)]
  BY <1>1 DEF Turns
<1> DEFINE delivers == Puts(hub, client) /\ Told(hub, client)
<1>11. delivers => /\ pub' = [pub EXCEPT ![hub] = Tells(d, client)]
                   /\ chan' = [chan EXCEPT ![hub][client] = Append(queue, d.msg)]
  <2>1. Told(hub, client) => pub' = [pub EXCEPT ![hub] = Tells(d, client)]
    BY DEF Told, Tells
  <2>2. Puts(hub, client) => chan' = [chan EXCEPT ![hub][client] = Append(queue, d.msg)]
    BY DEF Puts
  <2> QED BY <2>1, <2>2
<1>6. CASE d.step = "send" /\ Len(queue) >= Buffer
  <2>1. pub' = [pub EXCEPT ![hub].to = client, ![hub].step = "drain"] /\ chan' = chan
    BY <1>6 DEF Push
  <2>2. pub' = [pub EXCEPT ![hub] = Turns(d, client, "drain")]
    BY <2>1, <1>5
  <2> QED BY <2>1, <2>2, <1>1, <1>2, <1>4
<1>7. CASE d.step = "send" /\ ~(Len(queue) >= Buffer)
  <2>1. pub' = [pub EXCEPT ![hub] = Tells(d, client)]
        /\ chan' = [chan EXCEPT ![hub][client] = Append(queue, d.msg)]
    <3>1. delivers
      BY <1>7 DEF Push
    <3> QED BY <3>1, <1>11
  <2>2. Len(queue) < Buffer
    BY <1>1, <1>7
  <2> QED BY <2>1, <2>2, <1>2, <1>3
<1>8. CASE d.step = "drain"
  <2>1. pub' = [pub EXCEPT ![hub].to = client, ![hub].step = "again"]
        /\ chan' = [chan EXCEPT ![hub][client] = IF queue = <<>> THEN queue ELSE Tail(queue)]
    BY <1>8 DEF Push
  <2>2. pub' = [pub EXCEPT ![hub] = Turns(d, client, "again")]
    BY <2>1, <1>5
  <2> QED BY <2>1, <2>2, <1>1, <1>2, <1>3
<1>9. CASE d.step = "again"
  <2>1. d.to = client
    BY <1>1, <1>9 DEF Push, Publishing, Clients
  <2>2. Len(queue) < Buffer /\ ~(Len(queue) >= Buffer)
    BY <2>1, <1>1, <1>9 DEF Publishing
  <2>3. pub' = [pub EXCEPT ![hub] = Tells(d, client)]
        /\ chan' = [chan EXCEPT ![hub][client] = Append(queue, d.msg)]
    <3>1. delivers
      BY <1>9, <2>2 DEF Push
    <3> QED BY <3>1, <1>11
  <2> QED BY <2>2, <2>3, <1>2, <1>3
<1> QED BY <1>1, <1>6, <1>7, <1>8, <1>9

\* What is appended is the newest, and what is dropped is the oldest.
LEMMA QueueGrows ==
    ASSUME NEW q \in Seq(Nat), NEW low \in Nat, NEW n \in Nat,
           \A i \in 1..Len(q) : low <= q[i] /\ q[i] <= n,
           \A i, j \in 1..Len(q) : i <= j => q[i] <= q[j], low <= n
    PROVE  LET a == Append(q, n)
           IN  /\ \A i \in 1..Len(a) : low <= a[i] /\ a[i] <= n
               /\ \A i, j \in 1..Len(a) : i <= j => a[i] <= a[j]
               /\ a # <<>> /\ Last(a) = n
<1> DEFINE a == Append(q, n)
<1>1. /\ Len(a) = Len(q) + 1 /\ a[Len(q) + 1] = n /\ Len(q) \in Nat
      /\ \A i \in 1..Len(q) : a[i] = q[i]
  OBVIOUS
<1>2. \A i \in 1..Len(a) : i \in 1..Len(q) \/ i = Len(q) + 1
  BY <1>1
<1>3. \A i \in 1..Len(a) : low <= a[i] /\ a[i] <= n
  BY <1>1, <1>2
<1>4. \A i, j \in 1..Len(a) : i <= j => a[i] <= a[j]
  BY <1>1, <1>2, <1>3
<1>5. a # <<>> /\ Last(a) = n
  BY <1>1 DEF Last
<1> QED BY <1>3, <1>4, <1>5

\* What is left of a queue keeps its order, its bounds and its newest entry.
LEMMA QueueShrinks ==
    ASSUME NEW q \in Seq(Nat), NEW low \in Nat, NEW n \in Nat, q # <<>>,
           \A i \in 1..Len(q) : low <= q[i] /\ q[i] <= n,
           \A i, j \in 1..Len(q) : i <= j => q[i] <= q[j]
    PROVE  LET t == Tail(q)
           IN  /\ t \in Seq(Nat) /\ Len(t) = Len(q) - 1
               /\ \A i \in 1..Len(t) : low <= t[i] /\ t[i] <= n /\ Head(q) <= t[i]
               /\ \A i, j \in 1..Len(t) : i <= j => t[i] <= t[j]
               /\ low <= Head(q) /\ Head(q) <= n /\ Head(q) \in Nat
               /\ IF t = <<>> THEN Last(q) = Head(q) ELSE Last(t) = Last(q)
<1> DEFINE t == Tail(q)
<1>1. /\ t \in Seq(Nat) /\ Len(t) = Len(q) - 1 /\ Len(q) \in Nat /\ Len(q) > 0
      /\ Head(q) = q[1] /\ q[1] \in Nat /\ \A i \in 1..Len(t) : t[i] = q[i + 1]
  OBVIOUS
<1>2. \A i \in 1..Len(t) : i + 1 \in 1..Len(q)
  BY <1>1
<1>3. /\ \A i \in 1..Len(t) : low <= t[i] /\ t[i] <= n /\ Head(q) <= t[i]
      /\ \A i, j \in 1..Len(t) : i <= j => t[i] <= t[j]
  BY <1>1, <1>2
<1>4. IF t = <<>> THEN Last(q) = Head(q) ELSE Last(t) = Last(q)
  <2>1. CASE t = <<>>
    <3>1. Len(t) = 0
      <4>1. \A s : s = <<>> => Len(s) = 0
        OBVIOUS
      <4> HIDE DEF t
      <4> QED BY <2>1, <4>1
    <3>2. Len(q) = 1
      <4>1. \A k \in Nat : 0 = k - 1 => k = 1
        OBVIOUS
      <4> QED BY <1>1, <3>1, <4>1
    <3>3. Last(q) = q[1]
      BY <3>2 DEF Last
    <3> QED BY <1>1, <2>1, <3>3
  <2>2. CASE t # <<>>
    <3>1. Len(t) \in Nat /\ Len(t) > 0 /\ Len(t) + 1 = Len(q)
      BY <1>1, <2>2
    <3>2. t[Len(t)] = q[Len(t) + 1]
      BY <1>1, <3>1
    <3> QED BY <2>2, <3>1, <3>2 DEF Last
  <2> QED BY <2>1, <2>2
<1> QED BY <1>1, <1>3, <1>4

\* One step of a publisher that holds its mutex.
LEMMA PushIInv ==
    ASSUME IInv, NEW hub \in Hubs, NEW client \in Clients, Push(hub, client)
    PROVE  IInv'
<1> USE CanonicalStatusAssumption DEF IInv, Types
<1> DEFINE d == pub[hub]
           queue == chan[hub][client]
<1>1. PICK next \in Deliveries, q \in Seq(Nat) :
         /\ pub' = [pub EXCEPT ![hub] = next]
         /\ chan' = [chan EXCEPT ![hub][client] = q]
         /\ \/ next = Tells(d, client) /\ q = Append(queue, d.msg) /\ Len(queue) < Buffer
            \/ next = Turns(d, client, "drain") /\ q = queue
            \/ /\ next = Turns(d, client, "again")
               /\ q = IF queue = <<>> THEN queue ELSE Tail(queue)
  BY PushSteps
<1>2. client \in d.todo /\ UNCHANGED <<proto, lease, latest, snap, seenAge, poller, subs,
                                       sock, disp, events>>
  BY DEF Push
<1>3. /\ d \in Deliveries /\ queue \in Seq(Nat) /\ Len(queue) \in Nat /\ d.msg \in Nat
      /\ Len(queue) <= Buffer /\ snap.seq \in Nat /\ disp.shown \in Nat
  BY DEF Deliveries, Publishing, Snapshots, Disps
<1>4. /\ pub' \in [Hubs -> Deliveries] /\ pub'[hub] = next
      /\ \A h \in Hubs : h # hub => pub'[h] = pub[h]
  BY <1>1
<1>5. /\ chan' \in [Hubs -> [Clients -> Seq(Nat)]] /\ chan'[hub][client] = q
      /\ \A h \in Hubs, c \in Clients : h # hub \/ c # client => chan'[h][c] = chan[h][c]
  BY <1>1
<1>6. /\ next.msg = d.msg
      /\ \/ /\ next.todo = d.todo \ {client} /\ next.step = "send"
            /\ q = Append(queue, d.msg) /\ Len(queue) < Buffer
         \/ /\ next.todo = d.todo /\ next.to = client /\ next.step = "drain" /\ q = queue
         \/ /\ next.todo = d.todo /\ next.to = client /\ next.step = "again"
            /\ q = IF queue = <<>> THEN queue ELSE Tail(queue)
  BY <1>1, <1>3 DEF Tells, Turns, Deliveries
<1>7. Len(q) <= Buffer /\ (next.step = "again" => Len(q) < Buffer)
  BY <1>3, <1>6, SMTT(30)
<1>8. Publishing'
  <2>1. NoSendOnClosedChannel'
    BY <1>2, <1>4, <1>6 DEF Publishing, NoSendOnClosedChannel
  <2>2. \A h \in Hubs : pub'[h].step # "send" => pub'[h].to \in pub'[h].todo
    BY <1>2, <1>4, <1>6 DEF Publishing
  <2>3. \A h \in Hubs, c \in Clients :
           /\ Len(chan'[h][c]) <= Buffer
           /\ pub'[h].step = "again" /\ pub'[h].to = c => Len(chan'[h][c]) < Buffer
    BY <1>4, <1>5, <1>6, <1>7 DEF Publishing
  <2>4. pub'["store"].todo # {} => pub'["store"].msg = snap'.seq
    BY <1>2, <1>4, <1>6 DEF Publishing, Hubs
  <2> QED BY <2>1, <2>2, <2>3, <2>4 DEF Publishing
<1>9. Display'
  <2>1. CASE hub # "store" \/ client # "disp"
    <3>1. Queue' = Queue /\ ("disp" \in pub'["store"].todo <=> "disp" \in pub["store"].todo)
      BY <1>4, <1>5, <1>6, <2>1 DEF Queue, Hubs, Clients
    <3> QED BY <1>2, <3>1 DEF Display, NewestSnapshotRemains, Queue, Last
  <2>2. CASE hub = "store" /\ client = "disp"
    <3>1. /\ "disp" \in subs["store"] /\ d.msg = snap.seq /\ queue = Queue /\ Queue' = q
          /\ pub'["store"] = next
      BY <1>2, <1>4, <1>5, <2>2 DEF Publishing, NoSendOnClosedChannel, Queue
    <3>2. /\ \A i \in 1..Len(queue) : disp.shown <= queue[i] /\ queue[i] <= snap.seq
          /\ \A i, j \in 1..Len(queue) : i <= j => queue[i] <= queue[j]
          /\ disp.shown <= snap.seq
      BY <3>1 DEF Display
    <3>3. CASE next.todo = d.todo \ {client} /\ q = Append(queue, d.msg)
      <4>1. /\ \A i \in 1..Len(q) : disp.shown <= q[i] /\ q[i] <= snap.seq
            /\ \A i, j \in 1..Len(q) : i <= j => q[i] <= q[j]
            /\ q # <<>> /\ Last(q) = snap.seq
        BY <1>3, <3>1, <3>2, <3>3, QueueGrows, ZenonT(60)
      <4> QED BY <1>2, <3>1, <4>1 DEF Display, NewestSnapshotRemains, Queue
    <3>4. CASE next.todo = d.todo /\ q \in {queue, Tail(queue)} /\ (q = queue \/ queue # <<>>)
      <4>1. /\ \A i \in 1..Len(q) : disp.shown <= q[i] /\ q[i] <= snap.seq
            /\ \A i, j \in 1..Len(q) : i <= j => q[i] <= q[j]
        <5>1. CASE q = queue
          BY <3>2, <5>1
        <5>2. CASE q = Tail(queue) /\ queue # <<>>
          BY <1>3, <3>2, <5>2, QueueShrinks
        <5> QED BY <3>4, <5>1, <5>2
      <4> QED BY <1>2, <2>2, <3>1, <3>4, <4>1 DEF Display, NewestSnapshotRemains
    <3> QED BY <1>6, <3>3, <3>4
  <2> QED BY <2>1, <2>2
<1> QED BY <1>2, <1>4, <1>5, <1>8, <1>9

-----------------------------------------------------------------------------
\* The websockets.  A subscriber is added, or removed and its channel emptied, only
\* while nobody delivers.
LEMMA SubscribersKeep ==
    ASSUME IInv, NEW hub \in Hubs, NEW client \in Clients, UNCHANGED <<snap, pub>>,
           Subscribe(hub, client) \/ Unsubscribe(hub, client)
    PROVE  /\ subs' \in [Hubs -> SUBSET Clients] /\ chan' \in [Hubs -> [Clients -> Seq(Nat)]]
           /\ Publishing'
<1> USE CanonicalStatusAssumption DEF IInv, Types
<1>1. Free(hub) /\ subs' \in [Hubs -> SUBSET Clients]
      /\ \A h \in Hubs : h # hub => subs'[h] = subs[h]
  <2>1. Free(hub) /\ (\/ subs' = [subs EXCEPT ![hub] = subs[hub] \cup {client}]
                     \/ subs' = [subs EXCEPT ![hub] = subs[hub] \ {client}])
    BY DEF Subscribe, Unsubscribe
  <2>2. /\ subs[hub] \cup {client} \in SUBSET Clients /\ subs[hub] \ {client} \in SUBSET Clients
    OBVIOUS
  <2>3. ASSUME NEW set \in SUBSET Clients, subs' = [subs EXCEPT ![hub] = set]
        PROVE  /\ subs' \in [Hubs -> SUBSET Clients]
               /\ \A h \in Hubs : h # hub => subs'[h] = subs[h]
    BY <2>3
  <2> QED BY <2>1, <2>2, <2>3
<1>2. \/ chan' = chan
      \/ chan' = [chan EXCEPT ![hub] = [chan[hub] EXCEPT ![client] = <<>>]]
  BY DEF Subscribe, Unsubscribe
<1>3. chan' \in [Hubs -> [Clients -> Seq(Nat)]]
  <2>1. chan[hub] \in [Clients -> Seq(Nat)] /\ <<>> \in Seq(Nat)
    OBVIOUS
  <2>2. [chan[hub] EXCEPT ![client] = <<>>] \in [Clients -> Seq(Nat)]
    BY <2>1
  <2> QED BY <1>2, <2>2
<1>4. \A h \in Hubs, c \in Clients : chan'[h][c] = chan[h][c] \/ chan'[h][c] = <<>>
  <2>1. CASE chan' = [chan EXCEPT ![hub] = [chan[hub] EXCEPT ![client] = <<>>]]
    <3> SUFFICES ASSUME NEW h \in Hubs, NEW c \in Clients
                 PROVE  chan'[h][c] = chan[h][c] \/ chan'[h][c] = <<>>
      OBVIOUS
    <3>1. CASE h = hub
      <4>1. chan'[h] = [chan[hub] EXCEPT ![client] = <<>>] /\ chan[hub] \in [Clients -> Seq(Nat)]
        BY <2>1, <3>1
      <4>2. CASE c = client
        BY <4>1, <4>2
      <4>3. CASE c # client
        BY <3>1, <4>1, <4>3
      <4> QED BY <4>2, <4>3
    <3>2. CASE h # hub
      BY <2>1, <3>2
    <3> QED BY <3>1, <3>2
  <2> QED BY <1>2, <2>1
<1>5. \A h \in Hubs, c \in Clients :
         /\ Len(chan'[h][c]) <= Buffer
         /\ pub'[h].step = "again" /\ pub'[h].to = c => Len(chan'[h][c]) < Buffer
  <2> SUFFICES ASSUME NEW h \in Hubs, NEW c \in Clients
               PROVE  /\ Len(chan'[h][c]) <= Buffer
                      /\ pub'[h].step = "again" /\ pub'[h].to = c => Len(chan'[h][c]) < Buffer
    OBVIOUS
  <2>1. CASE chan'[h][c] = chan[h][c]
    BY <2>1 DEF Publishing
  <2>2. CASE chan'[h][c] = <<>>
    BY <2>2
  <2> QED BY <1>4, <2>1, <2>2
<1>6. NoSendOnClosedChannel'
  BY <1>1 DEF Publishing, NoSendOnClosedChannel, Free
<1>7. Publishing'
  BY <1>5, <1>6 DEF Publishing
<1> QED BY <1>1, <1>3, <1>7

\* A reader takes an entry of its channel without the mutex.
LEMMA TakeKeeps ==
    ASSUME IInv, NEW hub \in Hubs, NEW client \in Clients, UNCHANGED <<snap, pub, subs>>,
           chan[hub][client] # <<>>,
           chan' = [chan EXCEPT ![hub][client] = Tail(@)]
    PROVE  /\ chan' \in [Hubs -> [Clients -> Seq(Nat)]] /\ Publishing'
           /\ chan'[hub][client] = Tail(chan[hub][client])
           /\ \A h \in Hubs, c \in Clients : h # hub \/ c # client => chan'[h][c] = chan[h][c]
<1> USE CanonicalStatusAssumption DEF IInv, Types
<1> DEFINE queue == chan[hub][client]
<1>1. queue \in Seq(Nat) /\ Tail(queue) \in Seq(Nat) /\ Len(queue) \in Nat
      /\ Len(Tail(queue)) = Len(queue) - 1
  OBVIOUS
<1>2. chan' \in [Hubs -> [Clients -> Seq(Nat)]] /\ chan'[hub][client] = Tail(queue)
      /\ \A h \in Hubs, c \in Clients : h # hub \/ c # client => chan'[h][c] = chan[h][c]
  BY <1>1
<1>3. \A h \in Hubs, c \in Clients :
         /\ Len(chan'[h][c]) <= Buffer
         /\ pub'[h].step = "again" /\ pub'[h].to = c => Len(chan'[h][c]) < Buffer
  <2> SUFFICES ASSUME NEW h \in Hubs, NEW c \in Clients
               PROVE  /\ Len(chan'[h][c]) <= Buffer
                      /\ pub'[h].step = "again" /\ pub'[h].to = c => Len(chan'[h][c]) < Buffer
    OBVIOUS
  <2>1. CASE h # hub \/ c # client
    BY <1>2, <2>1 DEF Publishing
  <2>2. CASE h = hub /\ c = client
    <3>1. Len(queue) <= Buffer /\ Buffer \in Nat
      BY DEF Publishing
    <3> QED BY <1>1, <1>2, <2>2, <3>1
  <2> QED BY <2>1, <2>2
<1>4. Publishing'
  BY <1>3 DEF Publishing, NoSendOnClosedChannel
<1> QED BY <1>2, <1>4

\* A step of the status websocket leaves the display client's queue alone.
LEMMA SockKeepsDisplay ==
    ASSUME IInv, UNCHANGED <<snap, pub, disp>>,
           chan'["store"]["disp"] = chan["store"]["disp"],
           "disp" \in subs'["store"] <=> "disp" \in subs["store"]
    PROVE  Display'
BY DEF IInv, Display, Queue, NewestSnapshotRemains, Last

\* The status websocket subscribes to both publishers, reads, answers and closes.
LEMMA SockIInv ==
    ASSUME IInv, \/ SockSubscribes \/ SockReads \/ SockAnswers \/ SockRechecks \/ SockCloses
                 \/ \E hub \in Hubs : SockWakes(hub)
    PROVE  IInv'
<1> USE CanonicalStatusAssumption DEF IInv, Types, Quiet
<1>1. CASE SockSubscribes
  <2>1. sock' \in Socks /\ \E hub \in Hubs : Subscribe(hub, "sock")
    BY <1>1 DEF SockSubscribes, Sock, Socks, Hubs
  <2>2. PICK hub \in Hubs : Subscribe(hub, "sock")
    BY <2>1
  <2>3. /\ subs' \in [Hubs -> SUBSET Clients] /\ chan' \in [Hubs -> [Clients -> Seq(Nat)]]
        /\ Publishing'
    BY <1>1, <2>2, SubscribersKeep DEF SockSubscribes, Clients
  <2>4. Display'
    <3>1. chan'["store"]["disp"] = chan["store"]["disp"]
          /\ ("disp" \in subs'["store"] <=> "disp" \in subs["store"])
      BY <2>2 DEF Subscribe, Hubs, Clients
    <3> QED BY <1>1, <3>1, SockKeepsDisplay DEF SockSubscribes
  <2> QED BY <1>1, <2>1, <2>3, <2>4 DEF SockSubscribes
<1>2. CASE SockReads \/ SockRechecks
  <2>1. sock' \in Socks
    BY <1>2 DEF SockReads, SockRechecks, Sock, Socks
  <2>2. Publishing' /\ Display'
    BY <1>2, QuietKeeps DEF SockReads, SockRechecks
  <2> QED BY <1>2, <2>1, <2>2 DEF SockReads, SockRechecks
<1>3. CASE SockAnswers
  <2>1. sock.snap \in Snapshots
    BY DEF Socks
  <2>2. Resolve(sock.snap) \in Answers
    BY <2>1, ResolveTyped
  <2>3. NoSnapshot \in Snapshots
    BY DEF NoSnapshot, Snapshots, Values
  <2>4. sock' \in Socks
    BY <1>3, <2>2, <2>3 DEF SockAnswers, Socks
  <2>5. Publishing' /\ Display'
    BY <1>3, QuietKeeps DEF SockAnswers
  <2> QED BY <1>3, <2>4, <2>5 DEF SockAnswers
<1>4. ASSUME NEW hub \in Hubs, SockWakes(hub) PROVE IInv'
  <2>1. sock' \in Socks
    BY <1>4 DEF SockWakes, Sock, Socks
  <2>2. /\ chan' \in [Hubs -> [Clients -> Seq(Nat)]] /\ Publishing'
        /\ \A h \in Hubs, c \in Clients : h # hub \/ c # "sock" => chan'[h][c] = chan[h][c]
    BY <1>4, TakeKeeps DEF SockWakes, Clients
  <2>3. chan'["store"]["disp"] = chan["store"]["disp"]
    BY <2>2 DEF Hubs, Clients
  <2>4. Display'
    BY <1>4, <2>3, SockKeepsDisplay DEF SockWakes
  <2> QED BY <1>4, <2>1, <2>2, <2>4 DEF SockWakes
<1>5. CASE SockCloses
  <2>1. sock' \in Socks
    <3>1. NoSock \in Socks
      BY DEF Socks, NoSock, Snapshots, Answers, NoSnapshot, NoAnswer, Values
    <3>2. \A pc \in {"gone", "left"} : [sock EXCEPT !.pc = pc] \in Socks
      BY DEF Socks
    <3> QED BY <1>5, <3>1, <3>2 DEF SockCloses, Sock
  <2>2. events' \in 0..MaxEvents
    BY <1>5 DEF SockCloses, Event
  <2>3. CASE UNCHANGED <<subs, chan>>
    <3>1. Publishing' /\ Display'
      BY <1>5, <2>3, QuietKeeps DEF SockCloses
    <3> QED BY <1>5, <2>1, <2>2, <2>3, <3>1 DEF SockCloses
  <2>4. ASSUME NEW hub \in Hubs, Unsubscribe(hub, "sock") PROVE IInv'
    <3>1. /\ subs' \in [Hubs -> SUBSET Clients]
          /\ chan' \in [Hubs -> [Clients -> Seq(Nat)]] /\ Publishing'
      BY <1>5, <2>4, SubscribersKeep DEF SockCloses, Clients
    <3>2. chan'["store"]["disp"] = chan["store"]["disp"]
          /\ ("disp" \in subs'["store"] <=> "disp" \in subs["store"])
      BY <2>4 DEF Unsubscribe, Hubs, Clients
    <3>3. Display'
      BY <1>5, <3>2, SockKeepsDisplay DEF SockCloses
    <3> QED BY <1>5, <2>1, <2>2, <3>1, <3>3 DEF SockCloses
  <2> QED BY <1>5, <2>3, <2>4 DEF SockCloses, Hubs
<1> QED BY <1>1, <1>2, <1>3, <1>4, <1>5

\* The display websocket starts with the snapshot it reads, and its queue has what was
\* delivered since it subscribed.
LEMMA DispOpensIInv == ASSUME IInv, DispOpens PROVE IInv'
<1> USE CanonicalStatusAssumption DEF IInv, Types, DispOpens, Quiet
<1>1. disp.shown \in Nat /\ snap.seq \in Nat
  BY DEF Disps, Snapshots
<1>2. CASE disp.pc = "closed"
  <2>1. disp' = [pc |-> "subscribe", shown |-> snap.seq, since |-> 0] /\ UNCHANGED <<subs, chan>>
    BY <1>2 DEF NoDisp
  <2>2. disp' \in Disps
    BY <1>1, <2>1 DEF Disps
  <2>3. Publishing'
    BY <2>1 DEF Publishing, NoSendOnClosedChannel
  <2>4. "disp" \notin subs["store"] /\ Queue = <<>>
    BY <1>2 DEF Display
  <2>5. Queue' = <<>> /\ "disp" \notin subs'["store"] /\ disp'.shown <= snap'.seq
    BY <1>1, <2>1, <2>4 DEF Queue
  <2>6. Display'
    BY <2>1, <2>5 DEF Display, NewestSnapshotRemains
  <2> QED BY <2>1, <2>2, <2>3, <2>6
<1>3. CASE disp.pc = "subscribe"
  <2>1. Subscribe("store", "disp") /\ disp' = [disp EXCEPT !.pc = "wait", !.since = snap.seq]
    BY <1>3
  <2>2. disp' \in Disps /\ disp'.pc = "wait" /\ disp'.shown = disp.shown /\ disp'.since = snap.seq
    BY <1>1, <2>1 DEF Disps
  <2>3. /\ subs' \in [Hubs -> SUBSET Clients] /\ chan' \in [Hubs -> [Clients -> Seq(Nat)]]
        /\ Publishing'
    BY <2>1, SubscribersKeep DEF Hubs, Clients
  <2>4. Queue = <<>> /\ disp.shown <= snap.seq
    BY <1>3 DEF Display
  <2>5. "disp" \in subs'["store"] /\ Queue' = <<>>
    BY <2>1, <2>4 DEF Subscribe, Queue, Hubs
  <2>6. Display'
    BY <1>1, <2>2, <2>4, <2>5 DEF Display, NewestSnapshotRemains, Queue
  <2> QED BY <2>2, <2>3, <2>6
<1> QED BY <1>2, <1>3

\* It sends the oldest entry of its queue.
LEMMA DispSendsIInv == ASSUME IInv, DispSends PROVE IInv' /\ disp'.shown >= disp.shown
<1> USE CanonicalStatusAssumption DEF IInv, Types, DispSends, Quiet
<1>1. /\ disp.shown \in Nat /\ snap.seq \in Nat /\ Queue \in Seq(Nat) /\ Queue # <<>>
  BY DEF Disps, Snapshots, Queue, Hubs, Clients
<1>2. /\ chan' \in [Hubs -> [Clients -> Seq(Nat)]] /\ Publishing' /\ Queue' = Tail(Queue)
  BY TakeKeeps DEF Queue, Hubs, Clients
<1> DEFINE t == Tail(Queue)
<1>3. /\ \A i \in 1..Len(Queue) : disp.shown <= Queue[i] /\ Queue[i] <= snap.seq
      /\ \A i, j \in 1..Len(Queue) : i <= j => Queue[i] <= Queue[j]
  BY DEF Display
<1>4. /\ \A i \in 1..Len(t) : t[i] <= snap.seq /\ Head(Queue) <= t[i]
      /\ \A i, j \in 1..Len(t) : i <= j => t[i] <= t[j]
      /\ disp.shown <= Head(Queue) /\ Head(Queue) <= snap.seq /\ Head(Queue) \in Nat
      /\ IF t = <<>> THEN Last(Queue) = Head(Queue) ELSE Last(t) = Last(Queue)
  BY <1>1, <1>3, QueueShrinks
<1>5. disp' = [disp EXCEPT !.shown = Head(Queue)]
  BY DEF Queue
<1>6. disp' \in Disps /\ disp'.shown = Head(Queue) /\ disp'.pc = "wait"
  BY <1>4, <1>5 DEF Disps
<1>7. NewestSnapshotRemains'
  <2> SUFFICES ASSUME "disp" \notin pub["store"].todo
               PROVE  IF t # <<>> THEN Last(t) = snap.seq ELSE disp'.shown = snap.seq
    BY <1>2 DEF NewestSnapshotRemains, Queue
  <2>1. Last(Queue) = snap.seq
    BY <1>1 DEF Display, NewestSnapshotRemains, Queue
  <2> QED BY <1>4, <1>6, <2>1
<1>8. Display'
  <2>1. "disp" \in subs["store"] <=> disp.pc \in {"wait", "gone"}
    BY DEF Display
  <2>2. "disp" \in subs'["store"]
    BY <2>1
  <2> QED BY <1>2, <1>4, <1>6, <1>7, <2>2 DEF Display
<1> QED BY <1>1, <1>2, <1>4, <1>6, <1>8

\* It is gone, and then unsubscribes.
LEMMA DispClosesIInv == ASSUME IInv, DispCloses PROVE IInv'
<1> USE CanonicalStatusAssumption DEF IInv, Types, DispCloses, Quiet
<1>1. disp.shown \in Nat /\ snap.seq \in Nat
  BY DEF Disps, Snapshots
<1>2. CASE disp.pc = "wait"
  <2>1. disp' = [disp EXCEPT !.pc = "gone"] /\ UNCHANGED <<subs, chan>> /\ Event(TRUE)
    BY <1>2 DEF Disp
  <2>2. disp' \in Disps /\ disp'.pc = "gone" /\ disp'.shown = disp.shown
    BY <2>1 DEF Disps
  <2>3. Publishing'
    BY <2>1 DEF Publishing, NoSendOnClosedChannel
  <2>4. Display'
    BY <1>2, <2>1, <2>2 DEF Display, NewestSnapshotRemains, Queue
  <2>5. events' \in 0..MaxEvents
    BY <2>1 DEF Event
  <2> QED BY <2>1, <2>2, <2>3, <2>4, <2>5
<1>3. CASE disp.pc = "gone"
  <2>1. disp' = NoDisp /\ Unsubscribe("store", "disp") /\ Event(FALSE)
    BY <1>3
  <2>2. disp' \in Disps /\ disp'.pc = "closed" /\ disp'.shown = 0
    BY <2>1 DEF Disps, NoDisp
  <2>3. /\ subs' \in [Hubs -> SUBSET Clients] /\ chan' \in [Hubs -> [Clients -> Seq(Nat)]]
        /\ Publishing'
    BY <2>1, SubscribersKeep DEF Hubs, Clients
  <2>4. "disp" \notin subs'["store"] /\ Queue' = <<>>
    BY <2>1 DEF Unsubscribe, Queue, Hubs, Clients
  <2>5. Display'
    BY <1>1, <2>2, <2>4 DEF Display, NewestSnapshotRemains
  <2>6. events' \in 0..MaxEvents
    BY <2>1 DEF Event
  <2> QED BY <2>2, <2>3, <2>5, <2>6
<1> QED BY <1>2, <1>3

-----------------------------------------------------------------------------
\* Every step keeps the invariant.
LEMMA NextIInv == IInv /\ [Next]_vars => IInv'
<1> SUFFICES ASSUME IInv, [Next]_vars PROVE IInv'
  OBVIOUS
<1>1. CASE UNCHANGED vars
  <2>1. Publishing' /\ Display'
    BY <1>1, QuietKeeps DEF vars
  <2> QED BY <1>1, <2>1 DEF vars, IInv, Types
<1>2. ASSUME NEW value \in States, NEW from \in {"poll", "tap"},
             UpdateProtocolNative(value, from)
      PROVE  IInv'
  BY <1>2, UpdateIInv
<1>3. CASE \/ \E value \in States : ReceiveDisplayFrame(value)
           \/ \E ofDisplay \in BOOLEAN : FramesAge(ofDisplay)
           \/ Poll
  BY <1>3, FramesIInv
<1>4. CASE InvalidatePreLeaseStatus \/ EndLease
  BY <1>4, LeaseIInv
<1>5. CASE Apply
  BY <1>5, ApplyIInv
<1>6. CASE Pushes
  BY <1>6, PushIInv DEF Pushes
<1>7. CASE SockSubscribes \/ SockRuns \/ SockCloses
  BY <1>7, SockIInv DEF SockRuns
<1>8. CASE DispOpens \/ DispSends \/ DispCloses
  BY <1>8, DispOpensIInv, DispSendsIInv, DispClosesIInv
<1> QED BY <1>1, <1>2, <1>3, <1>4, <1>5, <1>6, <1>7, <1>8 DEF Next

\* The invariant of the two publishers, their channels and the display client.
THEOREM StatusInvariant == Spec => []IInv
<1>1. Init => IInv
  BY InitIInv
<1>2. IInv /\ [Next]_vars => IInv'
  BY NextIInv
<1> QED BY <1>1, <1>2, PTL DEF Spec

\* Every variable has its type, and no channel exceeds its buffer (pushStatus,
\* pushSnapshot).
THEOREM TypeCorrect == Spec => []TypeOK
<1>1. IInv => TypeOK
  <2> SUFFICES ASSUME IInv PROVE TypeOK
    OBVIOUS
  <2>1. /\ proto \in Protos /\ latest \in Frames /\ poller \in Frames
        /\ snap.behind \in BOOLEAN /\ snap.newer \in BOOLEAN /\ snap.seq \in Nat
        /\ lease \in Leases /\ seenAge \in Times /\ events \in 0..MaxEvents
    BY DEF IInv, Types, Snapshots
  <2>2. sock.silent \in BOOLEAN
    BY DEF IInv, Types, Socks
  <2>3. /\ sock.pc \in {"closed", "status", "read", "resolve", "wait", "gone", "left"}
        /\ disp.pc \in {"closed", "subscribe", "wait", "gone"}
    BY DEF IInv, Types, Socks, Disps
  <2>4. \A hub \in Hubs, client \in Clients : Len(chan[hub][client]) <= Buffer
    BY DEF IInv, Publishing
  <2> QED BY <2>1, <2>2, <2>3, <2>4 DEF TypeOK, Leases, Protos, Frames, Values, Times
<1> QED BY <1>1, StatusInvariant, PTL

\* A publisher never sends on a channel its reader has closed (unsubscribe closes it
\* under the publisher's mutex).
THEOREM NothingOnClosedChannel == Spec => []NoSendOnClosedChannel
<1>1. IInv => NoSendOnClosedChannel
  BY DEF IInv, Publishing
<1> QED BY <1>1, StatusInvariant, PTL

\* A slow display client finds the newest snapshot since it subscribed, whatever the
\* buffer (pushSnapshot drops the oldest).
THEOREM NewestRemains == Spec => []NewestSnapshotRemains
<1>1. IInv => NewestSnapshotRemains
  BY DEF IInv, Display
<1> QED BY <1>1, StatusInvariant, PTL

\* A display client is sent snapshots in the order of their sequence.
THEOREM InOrder == Spec => SnapshotsInOrder
<1> DEFINE Forward ==
      disp.pc \in {"subscribe", "wait"} /\ disp'.pc # "closed" => disp'.shown >= disp.shown
<1>1. IInv /\ [Next]_vars => [Forward]_vars
  <2> SUFFICES ASSUME IInv, [Next]_vars, ~UNCHANGED vars PROVE Forward
    OBVIOUS
  <2>1. disp.shown \in Nat
    BY DEF IInv, Types, Disps
  <2>2. CASE DispOpens
    <3>1. CASE disp.pc = "closed"
      BY <3>1
    <3>2. CASE disp.pc = "subscribe"
      <4>1. disp' = [disp EXCEPT !.pc = "wait", !.since = snap.seq]
        BY <2>2, <3>2 DEF DispOpens
      <4>2. disp'.shown = disp.shown
        BY <4>1 DEF IInv, Types, Disps
      <4> QED BY <2>1, <4>2
    <3> QED BY <2>2, <3>1, <3>2 DEF DispOpens
  <2>3. CASE DispSends
    BY <2>3, DispSendsIInv
  <2>4. CASE DispCloses
    <3>1. CASE disp.pc = "wait"
      <4>1. disp' = [disp EXCEPT !.pc = "gone"]
        BY <2>4, <3>1 DEF DispCloses, Disp
      <4>2. disp'.shown = disp.shown
        BY <4>1 DEF IInv, Types, Disps
      <4> QED BY <2>1, <4>2
    <3>2. CASE disp.pc = "gone"
      BY <3>2
    <3> QED BY <2>4, <3>1, <3>2 DEF DispCloses
  <2>5. CASE UNCHANGED disp
    BY <2>1, <2>5
  <2>6. DispOpens \/ DispSends \/ DispCloses \/ UNCHANGED disp
    BY DEF Next, UpdateProtocolNative, ReceiveDisplayFrame, FramesAge,
           InvalidatePreLeaseStatus, EndLease, Poll, Apply, Pushes, Push, SockSubscribes,
           SockRuns, SockReads, SockAnswers, SockWakes, SockRechecks, SockCloses, Quiet
  <2> QED BY <2>2, <2>3, <2>4, <2>5, <2>6
<1> QED BY <1>1, StatusInvariant, PTL DEF Spec, SnapshotsInOrder

-----------------------------------------------------------------------------
\* The status websocket.  From its first answer on it is subscribed to both publishers;
\* between its two reads the snapshot it took is the current one, or one is announced.
WakeUp(hub) == chan[hub]["sock"] # <<>> \/ "sock" \in pub[hub].todo

Answering ==
    /\ sock.pc \in {"status", "read", "resolve", "wait"} => "sock" \in subs["status"]
    /\ sock.pc \in {"read", "resolve", "wait"} => "sock" \in subs["store"]
    /\ sock.pc = "resolve" =>
          \/ WakeUp("store")
          \/ sock.snap.value = snap.value /\ sock.snap.newer = snap.newer
    /\ NoWakeUpIsLost

\* Of a snapshot, the answer depends on what it shows and on whether it is newer.
LEMMA ResolveDepends ==
    ASSUME NEW s, NEW t, s.value = t.value, s.newer = t.newer
    PROVE  Resolve(s) = Resolve(t)
BY Zenon DEF Resolve, Merged

\* The answer stays the same as long as the retained frame, the snapshot and what is
\* fresh do.
LEMMA ResolveStays ==
    ASSUME UNCHANGED <<proto, seenAge>>, snap'.value = snap.value, snap'.newer = snap.newer
    PROVE  Resolve(snap)' = Resolve(snap)
BY Zenon DEF Resolve, Merged

\* A later protocol frame only takes a snapshot's precedence.
LEMMA BeforeShows ==
    ASSUME NEW s \in Snapshots
    PROVE  Before(s).value = s.value /\ Before(s).newer = FALSE
<1>1. Before(s) = [s EXCEPT !.behind = s.value # "none", !.newer = FALSE]
  BY DEF Before
<1> QED BY <1>1 DEF Snapshots

\* Whoever a publication is announced to is woken up.
LEMMA AnnouncedWakes ==
    ASSUME IInv, NEW hub \in Hubs, NEW msg, Free(hub), Notify(hub, msg), UNCHANGED chan
    PROVE  /\ "sock" \in subs[hub] => WakeUp(hub)'
           /\ \A h \in Hubs : WakeUp(h) => WakeUp(h)'
<1>1. pub' = [pub EXCEPT ![hub] = [NoDelivery EXCEPT !.todo = subs[hub], !.msg = msg]]
  BY DEF Notify
<1>2. /\ pub'[hub].todo = subs[hub] /\ \A h \in Hubs \ {hub} : pub'[h] = pub[h]
  BY <1>1 DEF IInv, Types, NoDelivery
<1> QED BY <1>2 DEF WakeUp, Free

\* A delivery loses no wake-up: the entry it drains, it replaces.
LEMMA PushKeepsWakeUp ==
    ASSUME IInv, NEW hub \in Hubs, NEW client \in Clients, Push(hub, client), NEW h \in Hubs,
           WakeUp(h)
    PROVE  WakeUp(h)'
<1> USE CanonicalStatusAssumption DEF IInv, Types
<1> DEFINE d == pub[hub]
           queue == chan[hub][client]
<1>1. PICK next \in Deliveries, q \in Seq(Nat) :
         /\ pub' = [pub EXCEPT ![hub] = next]
         /\ chan' = [chan EXCEPT ![hub][client] = q]
         /\ \/ next = Tells(d, client) /\ q = Append(queue, d.msg) /\ Len(queue) < Buffer
            \/ next = Turns(d, client, "drain") /\ q = queue
            \/ /\ next = Turns(d, client, "again")
               /\ q = IF queue = <<>> THEN queue ELSE Tail(queue)
  BY PushSteps
<1>2. client \in d.todo /\ d \in Deliveries /\ queue \in Seq(Nat) /\ d.msg \in Nat
  BY DEF Push, Deliveries
<1>3. CASE h # hub
  BY <1>1, <1>3 DEF WakeUp, Clients
<1>4. CASE h = hub /\ client # "sock"
  <2>1. chan'[h]["sock"] = chan[h]["sock"]
    BY <1>1, <1>4 DEF Clients
  <2>2. "sock" \in d.todo => "sock" \in next.todo
    <3>1. next.todo = d.todo \ {client} \/ next.todo = d.todo
      BY <1>1, <1>2 DEF Tells, Turns, Deliveries
    <3> QED BY <1>4, <3>1
  <2> QED BY <1>1, <1>4, <2>1, <2>2 DEF WakeUp
<1>5. CASE h = hub /\ client = "sock"
  <2>1. chan'[h]["sock"] = q /\ pub'[h] = next
    BY <1>1, <1>5
  <2>2. CASE next = Tells(d, client) /\ q = Append(queue, d.msg)
    <3>1. q # <<>>
      BY <1>2, <2>2
    <3> QED BY <2>1, <3>1 DEF WakeUp
  <2>3. CASE next = Turns(d, client, "drain") \/ next = Turns(d, client, "again")
    <3>1. next.todo = d.todo
      BY <1>2, <2>3 DEF Turns, Deliveries
    <3> QED BY <1>2, <1>5, <2>1, <3>1 DEF WakeUp
  <2> QED BY <1>1, <2>2, <2>3
<1> QED BY <1>3, <1>4, <1>5

\* The publications: what changes the answer is announced to the socket, or silent.
LEMMA PublicationsAnswer ==
    ASSUME IInv, Answering,
           \/ \E value \in States, from \in {"poll", "tap"} : UpdateProtocolNative(value, from)
           \/ InvalidatePreLeaseStatus \/ Apply
    PROVE  Answering'
<1> USE DEF IInv, Types
<1>0. sock \in Socks /\ snap \in Snapshots /\ sock.snap \in Snapshots
  BY DEF Socks
<1>1. ASSUME NEW value \in States, NEW from \in {"poll", "tap"},
             UpdateProtocolNative(value, from)
      PROVE  Answering'
  <2> USE <1>1 DEF UpdateProtocolNative
  <2>1. /\ sock'.pc = sock.pc /\ sock'.snap = Before(sock.snap) /\ sock'.last = sock.last
        /\ sock'.silent = (sock.silent \/ (~Announced(value, from)
                              /\ (snap.newer \/ sock.snap.newer \/ proto.age # "fresh")))
    BY <1>0 DEF Socks
  <2>2. /\ snap' = Before(snap) /\ UNCHANGED <<seenAge, subs, chan>>
        /\ snap'.value = snap.value /\ snap'.newer = FALSE
        /\ sock'.snap.value = sock.snap.value /\ sock'.snap.newer = FALSE
    BY <1>0, <2>1, BeforeShows
  <2>3. CASE Announced(value, from)
    <3>1. /\ "sock" \in subs["status"] => WakeUp("status")'
          /\ \A h \in Hubs : WakeUp(h) => WakeUp(h)'
      BY <2>3, AnnouncedWakes DEF Hubs
    <3> QED BY <2>1, <2>2, <3>1 DEF Answering, NoWakeUpIsLost, WakeUp, Hubs
  <2>4. CASE ~Announced(value, from)
    <3>1. UNCHANGED pub /\ proto.value = value /\ proto.from = from /\ proto.auth = TRUE
      BY <2>4 DEF Announced
    <3>2. ~snap.newer /\ proto.age = "fresh" => Resolve(snap)' = Resolve(snap)
      <4> SUFFICES ASSUME ~snap.newer, proto.age = "fresh" PROVE Resolve(snap)' = Resolve(snap)
        OBVIOUS
      <4>1. proto' = proto
        BY <3>1 DEF Protos
      <4>2. snap'.newer = snap.newer
        BY <1>0, <2>2 DEF Snapshots
      <4> QED BY <2>2, <4>1, <4>2, ResolveStays
    <3>3. /\ sock'.pc = "resolve" => \/ WakeUp("store")'
                                     \/ /\ sock'.snap.value = snap'.value
                                        /\ sock'.snap.newer = snap'.newer
      BY <2>1, <2>2, <3>1 DEF Answering, WakeUp
    <3>4. NoWakeUpIsLost'
      BY <2>1, <2>2, <2>4, <3>1, <3>2 DEF Answering, NoWakeUpIsLost
    <3> QED BY <2>1, <2>2, <3>3, <3>4 DEF Answering
  <2> QED BY <2>3, <2>4
<1>2. CASE InvalidatePreLeaseStatus
  <2> USE <1>2 DEF InvalidatePreLeaseStatus
  <2>1. CASE proto.auth
    <3>1. /\ "sock" \in subs["status"] => WakeUp("status")'
          /\ \A h \in Hubs : WakeUp(h) => WakeUp(h)'
      BY <2>1, AnnouncedWakes DEF Hubs
    <3> QED BY <3>1 DEF Answering, NoWakeUpIsLost, WakeUp, Hubs
  <2>2. CASE ~proto.auth
    <3>1. proto' = proto /\ UNCHANGED pub
      BY <2>2 DEF Protos
    <3>2. Resolve(snap)' = Resolve(snap)
      BY <3>1, ResolveStays
    <3> QED BY <3>1, <3>2 DEF Answering, NoWakeUpIsLost, WakeUp
  <2> QED BY <2>1, <2>2
<1>3. CASE Apply
  <2> USE <1>3 DEF Apply
  <2>1. CASE poller.value = snap.value
    <3>1. /\ sock'.pc = sock.pc /\ sock'.snap = sock.snap /\ sock'.last = sock.last
          /\ sock'.silent = (sock.silent \/ seenAge' # seenAge)
          /\ snap'.value = snap.value /\ snap'.newer = snap.newer
      BY <1>0, <2>1 DEF Socks, Snapshots
    <3>2. seenAge' = seenAge => Resolve(snap)' = Resolve(snap)
      BY <3>1, ResolveStays
    <3> QED BY <2>1, <3>1, <3>2 DEF Answering, NoWakeUpIsLost, WakeUp
  <2>2. CASE poller.value # snap.value
    <3>1. /\ "sock" \in subs["store"] => WakeUp("store")'
          /\ \A h \in Hubs : WakeUp(h) => WakeUp(h)'
      BY <2>2, AnnouncedWakes DEF Hubs
    <3> QED BY <2>2, <3>1 DEF Answering, NoWakeUpIsLost, WakeUp, Hubs
  <2> QED BY <2>1, <2>2
<1> QED BY <1>1, <1>2, <1>3

\* The steps of the socket: it answers what it resolved, and by then is woken up if that
\* is not the answer any more.
LEMMA SockAnswering ==
    ASSUME IInv, Answering, \/ SockSubscribes \/ SockReads \/ SockAnswers \/ SockRechecks
                            \/ SockCloses \/ \E hub \in Hubs : SockWakes(hub)
    PROVE  Answering'
<1> USE DEF IInv, Types
<1>0. sock \in Socks /\ snap \in Snapshots
  OBVIOUS
<1>1. CASE SockSubscribes
  <2>1. /\ \/ sock.pc = "closed" /\ sock'.pc = "status" /\ Subscribe("status", "sock")
           \/ sock.pc = "status" /\ sock'.pc = "read" /\ Subscribe("store", "sock")
    BY <1>0, <1>1 DEF SockSubscribes, Sock, Socks
  <2>2. \/ sock'.pc = "status" /\ "sock" \in subs'["status"]
        \/ sock'.pc = "read" /\ "sock" \in subs'["status"] /\ "sock" \in subs'["store"]
    BY <2>1, ZenonT(60) DEF Subscribe, Hubs, Clients, Answering
  <2> QED BY <2>2 DEF Answering, NoWakeUpIsLost
<1>2. CASE SockReads
  <2>1. sock.pc = "read" /\ sock'.pc = "resolve" /\ sock'.snap = snap /\ UNCHANGED <<subs, snap>>
    BY <1>0, <1>2 DEF SockReads, Socks, Quiet
  <2> QED BY <2>1 DEF Answering, NoWakeUpIsLost
<1>3. CASE SockAnswers
  <2>1. /\ sock.pc = "resolve" /\ sock'.pc = "wait" /\ sock'.last = Resolve(sock.snap)
        /\ UNCHANGED <<proto, seenAge, snap, subs, pub, chan>>
    BY <1>3 DEF SockAnswers, Quiet
  <2>2. Resolve(snap)' = Resolve(snap)
    BY <2>1, ResolveStays
  <2>3. WakeUp("store")' \/ sock'.last = Resolve(snap)'
    BY <2>1, <2>2, ResolveDepends DEF Answering, WakeUp
  <2> QED BY <2>1, <2>3 DEF Answering, NoWakeUpIsLost, WakeUp, Hubs
<1>4. CASE SockRechecks \/ \E hub \in Hubs : SockWakes(hub)
  <2>1. sock.pc = "wait" /\ sock'.pc = "read" /\ UNCHANGED subs
    BY <1>0, <1>4 DEF SockRechecks, SockWakes, Sock, Socks
  <2> QED BY <2>1 DEF Answering, NoWakeUpIsLost
<1>5. CASE SockCloses
  <2>1. sock'.pc \in {"gone", "left", "closed"}
    <3>1. \A pc \in {"gone", "left"} : Sock(pc) => sock'.pc = pc
      BY <1>0 DEF Sock, Socks
    <3>2. sock' = NoSock => sock'.pc = "closed"
      BY DEF NoSock
    <3> QED BY <1>5, <3>1, <3>2 DEF SockCloses
  <2> QED BY <2>1 DEF Answering, NoWakeUpIsLost
<1> QED BY <1>1, <1>2, <1>3, <1>4, <1>5

\* A step that changes neither the answer nor the wake-ups of the socket.
LEMMA OthersAnswer ==
    ASSUME Answering, UNCHANGED <<proto, seenAge, snap, sock>>,
           \A hub \in Hubs : "sock" \in subs[hub] => "sock" \in subs'[hub],
           \A hub \in Hubs : WakeUp(hub) => WakeUp(hub)'
    PROVE  Answering'
<1>1. Resolve(snap)' = Resolve(snap)
  BY ResolveStays
<1> QED BY <1>1 DEF Answering, NoWakeUpIsLost, WakeUp, Hubs

\* Every step keeps the status websocket informed.
LEMMA NextAnswering == IInv /\ Answering /\ [Next]_vars => Answering'
<1> SUFFICES ASSUME IInv, Answering, [Next]_vars PROVE Answering'
  OBVIOUS
<1> USE DEF IInv, Types
<1>1. CASE \/ \E value \in States, from \in {"poll", "tap"} : UpdateProtocolNative(value, from)
           \/ InvalidatePreLeaseStatus \/ Apply
  BY <1>1, PublicationsAnswer
<1>2. CASE SockSubscribes \/ SockRuns \/ SockCloses
  BY <1>2, SockAnswering DEF SockRuns
<1>3. CASE \E ofDisplay \in BOOLEAN : FramesAge(ofDisplay)
  <2>1. sock'.silent = TRUE /\ sock'.pc = sock.pc /\ sock'.snap = sock.snap
        /\ UNCHANGED <<snap, subs, chan, pub>>
    BY <1>3 DEF FramesAge, Socks
  <2> QED BY <2>1 DEF Answering, NoWakeUpIsLost, WakeUp
<1>4. CASE Pushes
  <2>1. PICK hub \in Hubs, client \in Clients : Push(hub, client)
    BY <1>4 DEF Pushes
  <2>2. UNCHANGED <<proto, seenAge, snap, sock, subs>>
    BY <2>1 DEF Push
  <2> QED BY <2>1, <2>2, PushKeepsWakeUp, OthersAnswer
<1>5. CASE \/ \E value \in States : ReceiveDisplayFrame(value)
           \/ EndLease \/ Poll \/ UNCHANGED vars
  <2>1. UNCHANGED <<proto, seenAge, snap, sock, subs, chan, pub>>
    BY <1>5 DEF ReceiveDisplayFrame, EndLease, Poll, vars
  <2> QED BY <2>1, OthersAnswer DEF WakeUp
<1>6. CASE DispOpens \/ DispSends \/ DispCloses
  <2>1. UNCHANGED <<proto, seenAge, snap, sock, pub>>
    BY <1>6 DEF DispOpens, DispSends, DispCloses, Quiet
  <2> DEFINE keeps == \A hub \in Hubs : /\ "sock" \in subs[hub] => "sock" \in subs'[hub]
                                       /\ chan'[hub]["sock"] = chan[hub]["sock"]
  <2>2. Subscribe("store", "disp") => keeps
    BY DEF Subscribe, Hubs
  <2>3. Unsubscribe("store", "disp") => keeps
    BY DEF Unsubscribe, Hubs, Clients
  <2>4. CASE DispOpens \/ DispCloses
    <3>1. UNCHANGED <<subs, chan>> => keeps
      OBVIOUS
    <3>2. keeps
      BY <1>6, <2>2, <2>3, <2>4, <3>1 DEF DispOpens, DispCloses
    <3> QED BY <2>1, <3>2, OthersAnswer DEF WakeUp
  <2>5. CASE DispSends
    <3>1. UNCHANGED subs /\ \A hub \in Hubs : chan'[hub]["sock"] = chan[hub]["sock"]
      BY <2>5 DEF DispSends, Hubs, Clients
    <3> QED BY <2>1, <3>1, OthersAnswer DEF WakeUp
  <2> QED BY <1>6, <2>4, <2>5
<1> QED BY <1>1, <1>2, <1>3, <1>4, <1>5, <1>6 DEF Next

\* A status websocket that waits, and has not sent what canonical status answers now, is
\* woken up, whatever the buffer and whenever the answer changed (handleStatusWebsocket
\* subscribes before its first answer; InvalidatePreLeaseStatus notifies).
THEOREM WakeUpsArrive == Spec => []NoWakeUpIsLost
<1>1. Init => Answering
  BY DEF Init, NoSock, Answering, NoWakeUpIsLost
<1>2. IInv /\ Answering /\ [Next]_vars => Answering'
  BY NextAnswering
<1>3. Answering => NoWakeUpIsLost
  BY DEF Answering
<1> QED BY <1>1, <1>2, <1>3, StatusInvariant, PTL DEF Spec
=============================================================================
