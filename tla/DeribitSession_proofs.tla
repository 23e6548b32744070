-------------------------- MODULE DeribitSession_proofs --------------------------
(***************************************************************************)
(* Proofs about DeribitSession, for any symbols, batches and number of     *)
(* faults: type correctness, and that no reply settles a request it does   *)
(* not answer, whichever of the two tasks numbered it and whenever its     *)
(* frame left, and that an open session receives its whole universe.       *)
(***************************************************************************)
EXTENDS DeribitSession, TLAPS

USE SessionAssumption

\* The numbers given out so far are never given again, nor made to stand for something else.
Advances ==
  /\ nextId' \in Nat /\ nextId <= nextId'
  /\ \A n \in 1..nextId : pending'[n] \in {pending[n], NoRequest}

\* Known, of what a step leads to.
KnownNext(n, method, channels) ==
  n \in 1..nextId' /\ pending'[n] \in {NoRequest, [method |-> method, channels |-> channels]}

LEMMA KnownLater ==
  ASSUME TypeOK, Advances, NEW n, NEW method, NEW channels, Known(n, method, channels)
  PROVE  KnownNext(n, method, channels)
<1>1. nextId \in Nat /\ n \in 1..nextId /\ n \in 1..nextId'
  BY DEF TypeOK, Advances, Known
<1>2. pending'[n] \in {NoRequest, [method |-> method, channels |-> channels]}
  BY <1>1 DEF Advances, Known
<1>3. QED
  BY <1>1, <1>2 DEF KnownNext

\* A number given: the table moves on, and the task's frame is known.
LEMMA NumberIsNew ==
  ASSUME TypeOK, NEW t \in Tasks, NEW method \in Methods, NEW channels \in SUBSET Symbols,
         NEW on \in Nat, on <= socket, Ask(t, on, method, channels)
  PROVE  /\ Advances
         /\ nextId' \in 0..MaxId
         /\ pending' \in [1..MaxId -> Requests \cup {NoRequest}]
         /\ frame' = [frame EXCEPT ![t] = FrameOf(nextId + 1, on, method, channels)]
         /\ FrameOf(nextId + 1, on, method, channels) \in Frames
         /\ KnownNext(nextId + 1, method, channels)
<1> DEFINE request == [method |-> method, channels |-> channels]
<1>1. /\ nextId \in Nat /\ nextId' = nextId + 1 /\ nextId + 1 \in 1..MaxId
      /\ pending' = [pending EXCEPT ![nextId + 1] = request]
      /\ frame' = [frame EXCEPT ![t] = FrameOf(nextId + 1, on, method, channels)]
  BY DEF TypeOK, Ask, Number
<1>2. request \in Requests
  BY DEF Requests
<1>3. FrameOf(nextId + 1, on, method, channels) \in Frames
  BY <1>1 DEF FrameOf, Frames
<1> HIDE DEF request
<1>4. pending' \in [1..MaxId -> Requests \cup {NoRequest}] /\ pending'[nextId + 1] = request
  BY <1>1, <1>2 DEF TypeOK
<1>5. Advances
  BY <1>1 DEF TypeOK, Advances
<1>6. KnownNext(nextId + 1, method, channels)
  BY <1>1, <1>4 DEF KnownNext, request
<1>7. QED
  BY <1>1, <1>3, <1>4, <1>5, <1>6

\* What stays true of the replies and the requests in flight: the inbox loses messages, or
\* gains one that is no reply or is the answer to a frame in flight.
Answers ==
  \A i \in DOMAIN inbox :
    inbox[i].kind = "reply" => Known(inbox[i].id, inbox[i].method, inbox[i].channels)

InFlight ==
  \A t \in Tasks :
    Sending(t) /\ frame[t].socket = socket
      => Known(frame[t].id, frame[t].method, frame[t].channels)

LEMMA AnswersKept ==
  ASSUME TypeOK, Answers, Advances, inbox' = inbox \/ inbox' = <<>> \/ (inbox # <<>> /\ inbox' = Tail(inbox))
  PROVE  Answers'
<1>1. SUFFICES ASSUME NEW i \in DOMAIN inbox', inbox'[i].kind = "reply"
               PROVE  KnownNext(inbox'[i].id, inbox'[i].method, inbox'[i].channels)
  BY DEF Answers, Known, KnownNext
<1>2. inbox \in Seq(Messages)
  BY DEF TypeOK
<1>3. PICK j \in DOMAIN inbox : inbox[j] = inbox'[i]
  <2>1. CASE inbox' = inbox
    BY <2>1
  <2>2. CASE inbox' = <<>>
    BY <2>2, <1>1
  <2>3. CASE inbox # <<>> /\ inbox' = Tail(inbox)
    <3>1. i + 1 \in DOMAIN inbox /\ inbox'[i] = inbox[i + 1]
      BY <1>1, <1>2, <2>3
    <3>2. QED
      BY <3>1
  <2>4. QED
    BY <2>1, <2>2, <2>3
<1>4. Known(inbox[j].id, inbox[j].method, inbox[j].channels)
  BY <1>1, <1>3 DEF Answers
<1>5. QED
  BY <1>3, <1>4, KnownLater

LEMMA AnswersGrow ==
  ASSUME TypeOK, Answers, Advances, NEW one \in Messages, inbox' = Append(inbox, one),
         one.kind = "reply" => Known(one.id, one.method, one.channels)
  PROVE  Answers' /\ inbox' \in Seq(Messages)
<1>1. inbox \in Seq(Messages) /\ inbox' \in Seq(Messages)
  BY DEF TypeOK
<1>2. SUFFICES ASSUME NEW i \in DOMAIN inbox', inbox'[i].kind = "reply"
               PROVE  KnownNext(inbox'[i].id, inbox'[i].method, inbox'[i].channels)
  BY <1>1 DEF Answers, Known, KnownNext
<1>3. inbox'[i] = one \/ (i \in DOMAIN inbox /\ inbox'[i] = inbox[i])
  BY <1>1, <1>2
<1>4. Known(inbox'[i].id, inbox'[i].method, inbox'[i].channels)
  BY <1>2, <1>3 DEF Answers
<1>5. QED
  BY <1>4, KnownLater

LEMMA InFlightKept ==
  ASSUME TypeOK, InFlight, Advances, socket' = socket,
         NEW t \in Tasks, frame' = frame \/ frame' = [frame EXCEPT ![t] = NoFrame]
  PROVE  InFlight'
<1>1. SUFFICES ASSUME NEW u \in Tasks, Sending(u)', frame'[u].socket = socket'
               PROVE  KnownNext(frame'[u].id, frame'[u].method, frame'[u].channels)
  BY DEF InFlight, Known, KnownNext
<1>2. frame'[u] = frame[u]
  BY <1>1 DEF TypeOK, Sending
<1>3. Known(frame[u].id, frame[u].method, frame[u].channels)
  BY <1>1, <1>2 DEF InFlight, Sending
<1>4. QED
  BY <1>2, <1>3, KnownLater

LEMMA InFlightGrows ==
  ASSUME TypeOK, InFlight, Advances, socket' = socket, NEW t \in Tasks, NEW one \in Frames,
         frame' = [frame EXCEPT ![t] = one], KnownNext(one.id, one.method, one.channels)
  PROVE  InFlight'
<1>1. SUFFICES ASSUME NEW u \in Tasks, Sending(u)', frame'[u].socket = socket'
               PROVE  KnownNext(frame'[u].id, frame'[u].method, frame'[u].channels)
  BY DEF InFlight, Known, KnownNext
<1>2. CASE u = t
  BY <1>2 DEF TypeOK
<1>3. CASE u # t
  <2>1. frame'[u] = frame[u]
    BY <1>3 DEF TypeOK
  <2>2. Known(frame[u].id, frame[u].method, frame[u].channels)
    BY <1>1, <2>1 DEF InFlight, Sending
  <2>3. QED
    BY <2>1, <2>2, KnownLater
<1>4. QED
  BY <1>2, <1>3

\* Asking on the live socket keeps the requests in flight known, and the types of what it
\* touches.
TableTypes ==
  /\ nextId \in 0..MaxId
  /\ pending \in [1..MaxId -> Requests \cup {NoRequest}]
  /\ frame \in [Tasks -> Frames \cup {NoFrame}]
  /\ \A t \in Tasks : frame[t].socket <= socket

LEMMA AskKeeps ==
  ASSUME TypeOK, InFlight, NEW t \in Tasks, NEW method \in Methods,
         NEW channels \in SUBSET Symbols, NEW on \in Nat, on <= socket,
         socket' = socket, Ask(t, on, method, channels)
  PROVE  Advances /\ InFlight' /\ TableTypes'
<1> DEFINE one == FrameOf(nextId + 1, on, method, channels)
<1>1. /\ Advances /\ nextId' \in 0..MaxId
      /\ pending' \in [1..MaxId -> Requests \cup {NoRequest}]
      /\ frame' = [frame EXCEPT ![t] = one] /\ one \in Frames
      /\ KnownNext(nextId + 1, method, channels)
  BY NumberIsNew
<1>2. one.id = nextId + 1 /\ one.method = method /\ one.channels = channels /\ one.socket = on
  BY DEF FrameOf
<1> HIDE DEF one
<1>3. KnownNext(one.id, one.method, one.channels)
  BY <1>1, <1>2
<1>4. InFlight'
  BY <1>1, <1>3, InFlightGrows
<1>5. frame' \in [Tasks -> Frames \cup {NoFrame}] /\ \A u \in Tasks : frame'[u].socket <= socket'
  BY <1>1, <1>2 DEF TypeOK
<1>6. QED
  BY <1>1, <1>4, <1>5 DEF TableTypes

LEMMA ReleaseKeeps ==
  ASSUME TypeOK, InFlight, NEW t \in Tasks, socket' = socket, UNCHANGED table,
         frame' = frame \/ frame' = [frame EXCEPT ![t] = NoFrame]
  PROVE  Advances /\ InFlight' /\ TableTypes'
<1>1. Advances
  BY DEF TypeOK, Advances, table
<1>2. InFlight'
  BY <1>1, InFlightKept
<1>3. NoFrame.socket = 0 /\ socket \in Nat
  BY DEF NoFrame, TypeOK
<1>4. frame' \in [Tasks -> Frames \cup {NoFrame}] /\ \A u \in Tasks : frame'[u].socket <= socket'
  BY <1>3 DEF TypeOK
<1>5. QED
  BY <1>1, <1>2, <1>4 DEF TableTypes, TypeOK, table

--------------------------------------------------------------------------------
(* What the operators the handlers share leave behind.                     *)

Loops == {"connecting", "greeting", "opening", "receiving", "leaving", "waiting", "ended",
          "failed", "crashed"}

\* The types of everything but the table and the frames.
OtherTypes ==
  /\ listed \in SUBSET Symbols /\ delisted \in SUBSET Symbols
  /\ subs \in SUBSET Symbols
  /\ link \in {"up", "half", "down"}
  /\ inbox \in Seq(Messages)
  /\ symbols \in SUBSET Symbols
  /\ closed \in BOOLEAN
  /\ socket \in Nat /\ connection \in {0, socket}
  /\ loop \in Loops
  /\ failures \in Nat
  /\ unasked \in SUBSET Symbols
  /\ poll \in {"idle", "asking", "applying"}
  /\ inventory \in SUBSET Symbols /\ born \in SUBSET Symbols /\ dead \in SUBSET Symbols

LEMMA TypesSplit == TypeOK <=> OtherTypes /\ TableTypes
  BY DEF TypeOK, OtherTypes, TableTypes, Loops

LEMMA InvSplit == RepliesInv <=> OtherTypes /\ TableTypes /\ Answers /\ InFlight
  BY TypesSplit DEF RepliesInv, Answers, InFlight

LEMMA InvNext ==
  ASSUME OtherTypes', TableTypes', Answers', InFlight'
  PROVE  RepliesInv'
<1>1. TypeOK'
  BY DEF TypeOK, OtherTypes, TableTypes, Loops
<1>2. QED
  BY <1>1 DEF RepliesInv, Answers, InFlight

LEMMA SentFrame ==
  ASSUME TypeOK, NEW t \in Tasks, Sending(t)
  PROVE  /\ frame[t] \in Frames /\ frame[t].id \in 1..MaxId
         /\ frame[t].socket \in Nat /\ frame[t].socket <= socket
         /\ frame[t].method \in Methods /\ frame[t].channels \in SUBSET Symbols
  BY DEF TypeOK, Sending, Frames

LEMMA DeliverKeeps ==
  ASSUME TypeOK, Answers, InFlight, Advances, NEW t \in Tasks, NEW error \in BOOLEAN,
         Sending(t), Reachable(t), Deliver(t, error)
  PROVE  Answers' /\ inbox' \in Seq(Messages) /\ subs' \in SUBSET Symbols
<1>1. /\ frame[t].id \in 1..MaxId
      /\ frame[t].method \in Methods /\ frame[t].channels \in SUBSET Symbols
  BY SentFrame
<1>2. CASE link = "half"
  <2>1. inbox' = inbox /\ subs' = subs
    BY <1>2 DEF Deliver
  <2>2. QED
    BY <2>1, AnswersKept DEF TypeOK
<1>3. CASE link = "up"
  <2> DEFINE one == Reply(t, error)
  <2>1. inbox' = Append(inbox, one) /\ subs' \in SUBSET Symbols
    BY <1>1, <1>3 DEF Deliver, Accepted, TypeOK
  <2>2. one.id = frame[t].id /\ one.method = frame[t].method /\ one.channels = frame[t].channels
    BY DEF Reply, WireId
  <2>3. one \in Messages
    BY <1>1 DEF Reply, WireId, Messages
  <2>4. Known(frame[t].id, frame[t].method, frame[t].channels)
    BY DEF InFlight, Reachable
  <2> HIDE DEF one
  <2>5. Known(one.id, one.method, one.channels)
    BY <2>2, <2>4
  <2>6. QED
    BY <2>1, <2>3, <2>5, AnswersGrow
<1>4. QED
  BY <1>2, <1>3 DEF Deliver

LEMMA SubscribeKeeps ==
  ASSUME TypeOK, InFlight, socket' = socket, NEW left \in SUBSET Symbols,
         Subscribe(left)
  PROVE  /\ Advances /\ InFlight' /\ TableTypes'
         /\ loop' \in Loops /\ failures' \in Nat /\ unasked' \in SUBSET Symbols
<1>1. "stream" \in Tasks /\ "subscribe" \in Methods /\ socket \in Nat /\ socket <= socket
  BY DEF Tasks, Methods, TypeOK
<1>2. CASE left = {}
  <2>1. /\ UNCHANGED table /\ frame' = [frame EXCEPT !["stream"] = NoFrame]
        /\ loop' = Relaying /\ failures' = 0 /\ unasked' = {}
    BY <1>2 DEF Subscribe
  <2>2. QED
    BY <1>1, <2>1, ReleaseKeeps DEF Relaying, Loops
<1>3. CASE left # {}
  <2>1. PICK batch \in SUBSET left :
          Ask("stream", socket, "subscribe", batch) /\ unasked' = left \ batch
    BY <1>3 DEF Subscribe, Batches
  <2>2. Advances /\ InFlight' /\ TableTypes'
    BY <1>1, <2>1, AskKeeps
  <2>3. loop' \in Loops /\ failures' \in Nat /\ unasked' \in SUBSET Symbols
    BY <1>3, <2>1 DEF Subscribe, Loops, TypeOK
  <2>4. QED
    BY <2>2, <2>3
<1>4. QED
  BY <1>2, <1>3

LEMMA ApplyKeeps ==
  ASSUME TypeOK, InFlight, socket' = socket, NEW births \in SUBSET Symbols,
         NEW deaths \in SUBSET Symbols, NEW on \in Nat, on <= socket,
         Apply(on, births, deaths)
  PROVE  /\ Advances /\ InFlight' /\ TableTypes'
         /\ poll' \in {"idle", "asking", "applying"}
         /\ born' \in SUBSET Symbols /\ dead' \in SUBSET Symbols
<1>1. "poll" \in Tasks /\ "subscribe" \in Methods /\ "unsubscribe" \in Methods
  BY DEF Tasks, Methods
<1>2. CASE births \cup deaths = {}
  <2>1. /\ UNCHANGED table /\ frame' = [frame EXCEPT !["poll"] = NoFrame]
        /\ poll' = "idle" /\ born' = {} /\ dead' = {}
    BY <1>2 DEF Apply
  <2>2. QED
    BY <1>1, <2>1, ReleaseKeeps
<1>3. CASE births # {}
  <2>1. PICK batch \in SUBSET births : Ask("poll", on, "subscribe", batch) /\ born' = births \ batch
    BY <1>3 DEF Apply, Batches
  <2>2. Advances /\ InFlight' /\ TableTypes'
    BY <1>1, <1>3, <2>1, AskKeeps
  <2>3. poll' = "applying" /\ dead' = deaths
    BY <1>3 DEF Apply
  <2>4. QED
    BY <2>1, <2>2, <2>3
<1>4. CASE births = {} /\ deaths # {}
  <2>1. PICK batch \in SUBSET deaths :
          Ask("poll", on, "unsubscribe", batch) /\ dead' = deaths \ batch
    BY <1>4 DEF Apply, Batches
  <2>2. Advances /\ InFlight' /\ TableTypes'
    BY <1>1, <1>4, <2>1, AskKeeps
  <2>3. poll' = "applying" /\ born' = {}
    BY <1>4 DEF Apply
  <2>4. QED
    BY <2>1, <2>2, <2>3
<1>5. QED
  BY <1>2, <1>3, <1>4

--------------------------------------------------------------------------------
(* The invariant, action by action.                                        *)

LEMMA SessionInitInv == Init => RepliesInv
<1> SUFFICES ASSUME Init PROVE RepliesInv
  OBVIOUS
<1>1. OtherTypes
  <2>1. InitialListing \in SUBSET Symbols /\ Own(InitialListing) \in SUBSET Symbols
    BY DEF Own
  <2>2. <<>> \in Seq(Messages)
    OBVIOUS
  <2>3. QED
    BY <2>1, <2>2 DEF Init, OtherTypes, Loops
<1>2. TableTypes
  BY DEF Init, TableTypes, Tasks, NoFrame
<1>3. Answers /\ InFlight
  BY DEF Init, Answers, InFlight, Sending
<1>4. QED
  BY <1>1, <1>2, <1>3, InvSplit

\* Actions that number nothing and receive nothing: at most a task gives up its frame.
LEMMA QuietKeeps ==
  ASSUME RepliesInv, NEW t \in Tasks, UNCHANGED <<table, inbox, socket>>,
         frame' = frame \/ frame' = [frame EXCEPT ![t] = NoFrame], OtherTypes'
  PROVE  RepliesInv'
<1>1. TypeOK /\ Answers /\ InFlight
  BY DEF RepliesInv, Answers, InFlight
<1>2. Advances /\ InFlight' /\ TableTypes'
  BY <1>1, ReleaseKeeps
<1>3. Answers'
  BY <1>1, <1>2, AnswersKept
<1>4. QED
  BY <1>2, <1>3, InvNext

LEMMA ConnectInv == RepliesInv /\ Connect => RepliesInv'
<1> SUFFICES ASSUME RepliesInv, Connect PROVE RepliesInv'
  OBVIOUS
<1>1. TypeOK
  BY DEF RepliesInv
<1> DEFINE empty == [i \in 1..MaxId |-> NoRequest]
           one == FrameOf(1, socket + 1, "heartbeat", {})
           request == [method |-> "heartbeat", channels |-> {}]
<1>2. /\ 0 < MaxId /\ nextId' = 0 + 1 /\ pending' = [empty EXCEPT ![0 + 1] = request]
      /\ frame' = [frame EXCEPT !["stream"] = FrameOf(0 + 1, socket + 1, "heartbeat", {})]
      /\ socket' = socket + 1 /\ inbox' = <<>> /\ socket \in Nat
  BY <1>1 DEF Connect, Number, TypeOK
<1>3. MaxId \in Nat /\ 0 + 1 = 1 /\ 1 \in 1..MaxId
  BY <1>2
<1>4. request \in Requests
  BY DEF Requests, Methods
<1>5. one \in Frames /\ one.id = 1 /\ one.method = "heartbeat" /\ one.channels = {}
      /\ one.socket = socket + 1
  BY <1>2, <1>3 DEF FrameOf, Frames, Methods
<1>6. frame' = [frame EXCEPT !["stream"] = one]
  BY <1>2, <1>3
<1> HIDE DEF one
<1>7. KnownNext(1, "heartbeat", {})
  BY <1>2, <1>3 DEF KnownNext
<1> HIDE DEF request
<1>8. pending' \in [1..MaxId -> Requests \cup {NoRequest}]
  BY <1>2, <1>3, <1>4
<1>9. /\ frame' \in [Tasks -> Frames \cup {NoFrame}]
      /\ \A t \in Tasks : frame'[t].socket <= socket'
  <2>1. frame \in [Tasks -> Frames \cup {NoFrame}] /\ \A t \in Tasks : frame[t].socket <= socket
    BY <1>1 DEF TypeOK
  <2>2. \A u \in Tasks : frame'[u] = one \/ (frame'[u] = frame[u] /\ frame[u].socket <= socket)
    BY <1>6, <2>1
  <2>3. \A u \in Tasks : frame[u].socket \in Nat
    <3>1. NoFrame.socket \in Nat /\ \A f \in Frames : f.socket \in Nat
      BY DEF Frames, NoFrame
    <3>2. QED
      BY <2>1, <3>1
  <2>4. \A u \in Tasks : frame'[u].socket <= socket'
    BY <1>2, <1>5, <2>2, <2>3
  <2>5. QED
    BY <1>5, <1>6, <2>1, <2>4
<1>10. TableTypes'
  BY <1>2, <1>3, <1>8, <1>9 DEF TableTypes
<1>11. OtherTypes'
  BY <1>1, <1>2 DEF Connect, venue, poller, TypeOK, OtherTypes, Loops
<1>12. Answers'
  BY <1>2 DEF Answers
<1>13. InFlight'
  <2>1. SUFFICES ASSUME NEW u \in Tasks, Sending(u)', frame'[u].socket = socket'
                 PROVE  KnownNext(frame'[u].id, frame'[u].method, frame'[u].channels)
    BY DEF InFlight, Known, KnownNext
  <2>2. u = "stream"
    <3>1. SUFFICES ASSUME u # "stream" PROVE FALSE
      OBVIOUS
    <3>2. frame'[u] = frame[u] /\ frame[u].socket <= socket
      BY <1>1, <1>6, <3>1 DEF TypeOK
    <3>3. QED
      BY <1>2, <2>1, <3>2
  <2>3. frame'[u] = one
    BY <1>1, <1>6, <2>2 DEF TypeOK
  <2>4. QED
    BY <1>5, <1>7, <2>3
<1>14. QED
  BY <1>10, <1>11, <1>12, <1>13, InvNext

LEMMA SentInv ==
  ASSUME RepliesInv, NEW error \in BOOLEAN, Sent(error)
  PROVE  RepliesInv'
<1>1. TypeOK /\ Answers /\ InFlight /\ "stream" \in Tasks
  BY DEF RepliesInv, Answers, InFlight, Tasks
<1>2. socket' = socket
  BY DEF Sent
<1>3. Advances /\ InFlight' /\ TableTypes' /\ loop' \in Loops /\ failures' \in Nat
      /\ unasked' \in SUBSET Symbols
  <2>1. CASE loop = "greeting"
    <3>1. Subscribe(symbols) /\ symbols \in SUBSET Symbols
      BY <1>1, <2>1 DEF Sent, TypeOK
    <3>2. QED
      BY <1>1, <1>2, <3>1, SubscribeKeeps
  <2>2. CASE loop = "opening"
    <3>1. Subscribe(unasked) /\ unasked \in SUBSET Symbols
      BY <1>1, <2>2 DEF Sent, TypeOK
    <3>2. QED
      BY <1>1, <1>2, <3>1, SubscribeKeeps
  <2>3. CASE loop \notin {"greeting", "opening"}
    <3>1. /\ UNCHANGED <<failures, unasked, table>> /\ loop' = Relaying
          /\ frame' = [frame EXCEPT !["stream"] = NoFrame]
      BY <2>3 DEF Sent
    <3>2. Advances /\ InFlight' /\ TableTypes'
      BY <1>1, <1>2, <3>1, ReleaseKeeps
    <3>3. QED
      BY <1>1, <3>1, <3>2 DEF Relaying, Loops, TypeOK
  <2>4. QED
    BY <2>1, <2>2, <2>3
<1>4. Answers' /\ inbox' \in Seq(Messages) /\ subs' \in SUBSET Symbols
  BY <1>1, <1>3, DeliverKeeps DEF Sent
<1>5. OtherTypes'
  BY <1>1, <1>3, <1>4 DEF Sent, venue, poller, TypeOK, OtherTypes
<1>6. QED
  BY <1>3, <1>4, <1>5, InvNext

LEMMA AppliedInv ==
  ASSUME RepliesInv, NEW error \in BOOLEAN, Applied(error)
  PROVE  RepliesInv'
<1>1. TypeOK /\ Answers /\ InFlight /\ "poll" \in Tasks
  BY DEF RepliesInv, Answers, InFlight, Tasks
<1>2. /\ frame["poll"].socket \in Nat /\ frame["poll"].socket <= socket
      /\ socket' = socket
  BY <1>1, SentFrame DEF Applied
<1>3. /\ Apply(frame["poll"].socket, born, dead)
      /\ born \in SUBSET Symbols /\ dead \in SUBSET Symbols
  BY <1>1 DEF Applied, TypeOK
<1>4. /\ Advances /\ InFlight' /\ TableTypes'
      /\ poll' \in {"idle", "asking", "applying"}
      /\ born' \in SUBSET Symbols /\ dead' \in SUBSET Symbols
  BY <1>1, <1>2, <1>3, ApplyKeeps
<1>5. Answers' /\ inbox' \in Seq(Messages) /\ subs' \in SUBSET Symbols
  BY <1>1, <1>4, DeliverKeeps DEF Applied
<1>6. OtherTypes'
  BY <1>1, <1>4, <1>5 DEF Applied, venue, stream, TypeOK, OtherTypes, Loops
<1>7. QED
  BY <1>4, <1>5, <1>6, InvNext

LEMMA InventoryAnsweredInv == RepliesInv /\ InventoryAnswered => RepliesInv'
<1> SUFFICES ASSUME RepliesInv, InventoryAnswered PROVE RepliesInv'
  OBVIOUS
<1>1. TypeOK /\ Answers /\ InFlight
  BY DEF RepliesInv, Answers, InFlight
<1>2. socket' = socket /\ inbox' = inbox /\ Own(inventory) \in SUBSET Symbols
  BY <1>1 DEF InventoryAnswered, TypeOK, Own
<1>3. /\ Advances /\ InFlight' /\ TableTypes'
      /\ poll' \in {"idle", "asking", "applying"}
      /\ born' \in SUBSET Symbols /\ dead' \in SUBSET Symbols
  <2>1. CASE connection = 0
    <3>1. Apply(0, {}, {}) /\ 0 <= socket
      BY <1>1, <2>1 DEF InventoryAnswered, TypeOK
    <3>2. QED
      BY <1>1, <1>2, <3>1, ApplyKeeps
  <2>2. CASE connection # 0
    <3>1. /\ Apply(connection, Own(inventory) \ symbols, symbols \ Own(inventory))
          /\ connection \in Nat /\ connection <= socket
          /\ Own(inventory) \ symbols \in SUBSET Symbols
          /\ symbols \ Own(inventory) \in SUBSET Symbols
      BY <1>1, <1>2, <2>2 DEF InventoryAnswered, TypeOK
    <3>2. QED
      BY <1>1, <1>2, <2>2, <3>1, ApplyKeeps
  <2>3. QED
    BY <2>1, <2>2
<1>4. Answers'
  BY <1>1, <1>2, <1>3, AnswersKept
<1>5. OtherTypes'
  BY <1>1, <1>2, <1>3 DEF InventoryAnswered, venue, stream, TypeOK, OtherTypes, Loops
<1>6. QED
  BY <1>3, <1>4, <1>5, InvNext

LEMMA ReceiveInv == RepliesInv /\ Receive => RepliesInv'
<1> SUFFICES ASSUME RepliesInv, Receive PROVE RepliesInv'
  OBVIOUS
<1>1. TypeOK /\ Answers /\ InFlight /\ "stream" \in Tasks
  BY DEF RepliesInv, Answers, InFlight, Tasks
<1>2. /\ inbox # <<>> /\ inbox' = Tail(inbox) /\ inbox \in Seq(Messages)
      /\ socket' = socket /\ loop = "receiving"
  BY <1>1 DEF Receive, Reading, TypeOK
<1>3. 1 \in DOMAIN inbox /\ Head(inbox) = inbox[1] /\ inbox' \in Seq(Messages)
  BY <1>2
<1>4. /\ Advances /\ InFlight' /\ TableTypes' /\ loop' \in Loops
      /\ connection' \in {0, socket'} /\ link' \in {"up", "half", "down"}
      /\ subs' \in SUBSET Symbols /\ unasked' \in SUBSET Symbols
  <2>1. CASE Head(inbox).kind = "test"
    <3>1. /\ Ask("stream", socket, "test", {})
          /\ UNCHANGED <<loop, connection, link, subs, unasked>>
      BY <2>1 DEF Receive
    <3>2. "test" \in Methods /\ {} \in SUBSET Symbols
      BY DEF Methods
    <3>3. socket \in Nat /\ socket <= socket
      BY <1>1, <1>2 DEF TypeOK
    <3>4. Advances /\ InFlight' /\ TableTypes'
      BY <1>1, <1>2, <3>1, <3>2, <3>3, AskKeeps
    <3>5. QED
      BY <1>1, <1>2, <3>1, <3>4 DEF TypeOK, Loops
  <2>2. CASE Head(inbox).kind = "reply"
    <3> DEFINE reply == Head(inbox)
    <3>1. reply.id \in 1..nextId
      BY <1>1, <1>3, <2>2 DEF Answers, Known
    <3>2. Settle(reply) /\ nextId' = nextId
      BY <2>2 DEF Receive
    <3>3. CASE pending[reply.id] = NoRequest
      <4>1. UNCHANGED <<pending, loop, connection, link, subs, unasked, frame>>
        BY <3>2, <3>3 DEF Settle
      <4>2. Advances /\ InFlight' /\ TableTypes'
        BY <1>1, <1>2, <3>2, <4>1, ReleaseKeeps DEF table
      <4>3. QED
        BY <1>1, <1>2, <4>1, <4>2 DEF TypeOK, Loops
    <3>4. CASE pending[reply.id] # NoRequest
      <4>1. pending' = [pending EXCEPT ![reply.id] = NoRequest]
        BY <3>2, <3>4 DEF Settle
      <4>2. frame' = frame \/ frame' = [frame EXCEPT !["stream"] = NoFrame]
        BY <3>2, <3>4 DEF Settle, Drop
      <4>3. /\ loop' \in Loops /\ connection' \in {0, socket'} /\ link' \in {"up", "half", "down"}
            /\ subs' \in SUBSET Symbols /\ unasked' \in SUBSET Symbols
        BY <1>1, <1>2, <3>2, <3>4 DEF Settle, Drop, TypeOK, Loops
      <4> HIDE DEF reply
      <4>4. Advances /\ pending' \in [1..MaxId -> Requests \cup {NoRequest}]
        BY <1>1, <3>1, <3>2, <4>1 DEF TypeOK, Advances
      <4>5. InFlight'
        BY <1>1, <1>2, <4>2, <4>4, InFlightKept
      <4>6. TableTypes'
        <5>1. NoFrame.socket = 0 /\ socket \in Nat
          BY <1>1 DEF NoFrame, TypeOK
        <5>2. /\ frame' \in [Tasks -> Frames \cup {NoFrame}]
              /\ \A u \in Tasks : frame'[u].socket <= socket'
          BY <1>1, <1>2, <4>2, <5>1 DEF TypeOK
        <5>3. QED
          BY <1>1, <3>2, <4>4, <5>2 DEF TableTypes, TypeOK
      <4>7. QED
        BY <4>3, <4>4, <4>5, <4>6
    <3>5. QED
      BY <3>3, <3>4
  <2>3. CASE Head(inbox).kind \notin {"test", "reply"}
    <3>1. UNCHANGED <<table, loop, connection, link, subs, unasked, frame>>
      BY <2>3 DEF Receive
    <3>2. Advances /\ InFlight' /\ TableTypes'
      BY <1>1, <1>2, <3>1, ReleaseKeeps
    <3>3. QED
      BY <1>1, <1>2, <3>1, <3>2 DEF TypeOK, Loops
  <2>4. QED
    BY <2>1, <2>2, <2>3
<1>5. Answers'
  BY <1>1, <1>2, <1>4, AnswersKept
<1>6. OtherTypes'
  BY <1>1, <1>2, <1>3, <1>4 DEF Receive, venue, poller, TypeOK, OtherTypes
<1>7. QED
  BY <1>4, <1>5, <1>6, InvNext

LEMMA ConnectFailsInv == RepliesInv /\ ConnectFails => RepliesInv'
<1> SUFFICES ASSUME RepliesInv, ConnectFails PROVE RepliesInv'
  OBVIOUS
<1>1. TypeOK /\ "stream" \in Tasks
  BY DEF RepliesInv, Tasks
<1>2. OtherTypes'
  BY <1>1 DEF ConnectFails, WaitOut, venue, poller, TypeOK, OtherTypes, Loops
<1>3. QED
  BY <1>1, <1>2, QuietKeeps DEF ConnectFails, table

LEMMA LeaveSessionInv == RepliesInv /\ LeaveSession => RepliesInv'
<1> SUFFICES ASSUME RepliesInv, LeaveSession PROVE RepliesInv'
  OBVIOUS
<1>1. TypeOK /\ "stream" \in Tasks
  BY DEF RepliesInv, Tasks
<1>2. loop' \in Loops /\ failures' \in Nat
  BY <1>1 DEF LeaveSession, WaitOut, TypeOK, Loops
<1>3. OtherTypes'
  BY <1>1, <1>2 DEF LeaveSession, Drop, venue, poller, TypeOK, OtherTypes
<1>4. UNCHANGED <<table, inbox, socket>> /\ frame' = [frame EXCEPT !["stream"] = NoFrame]
  BY DEF LeaveSession, Drop, table
<1>5. QED
  BY <1>1, <1>3, <1>4, QuietKeeps

LEMMA WakeInv == RepliesInv /\ Wake => RepliesInv'
<1> SUFFICES ASSUME RepliesInv, Wake PROVE RepliesInv'
  OBVIOUS
<1>1. TypeOK /\ "stream" \in Tasks
  BY DEF RepliesInv, Tasks
<1>2. OtherTypes'
  BY <1>1 DEF Wake, venue, poller, TypeOK, OtherTypes, Loops
<1>3. QED
  BY <1>1, <1>2, QuietKeeps DEF Wake

LEMMA AskInventoryInv == RepliesInv /\ AskInventory => RepliesInv'
<1> SUFFICES ASSUME RepliesInv, AskInventory PROVE RepliesInv'
  OBVIOUS
<1>1. TypeOK /\ "poll" \in Tasks
  BY DEF RepliesInv, Tasks
<1>2. OtherTypes'
  BY <1>1 DEF AskInventory, venue, stream, TypeOK, OtherTypes, Loops
<1>3. QED
  BY <1>1, <1>2, QuietKeeps DEF AskInventory

LEMMA InventoryFailsInv == RepliesInv /\ InventoryFails => RepliesInv'
<1> SUFFICES ASSUME RepliesInv, InventoryFails PROVE RepliesInv'
  OBVIOUS
<1>1. TypeOK /\ "poll" \in Tasks
  BY DEF RepliesInv, Tasks
<1>2. OtherTypes'
  BY <1>1 DEF InventoryFails, venue, stream, TypeOK, OtherTypes, Loops
<1>3. QED
  BY <1>1, <1>2, QuietKeeps DEF InventoryFails

LEMMA ApplyLostInv == RepliesInv /\ ApplyLost => RepliesInv'
<1> SUFFICES ASSUME RepliesInv, ApplyLost PROVE RepliesInv'
  OBVIOUS
<1>1. TypeOK /\ "poll" \in Tasks
  BY DEF RepliesInv, Tasks
<1>2. OtherTypes'
  BY <1>1 DEF ApplyLost, venue, stream, TypeOK, OtherTypes, Loops
<1>3. QED
  BY <1>1, <1>2, QuietKeeps DEF ApplyLost

LEMMA CloseInv == RepliesInv /\ Close => RepliesInv'
<1> SUFFICES ASSUME RepliesInv, Close PROVE RepliesInv'
  OBVIOUS
<1>1. TypeOK /\ "stream" \in Tasks
  BY DEF RepliesInv, Tasks
<1>2. OtherTypes'
  BY <1>1 DEF Close, venue, stream, poller, TypeOK, OtherTypes, Loops
<1>3. QED
  BY <1>1, <1>2, QuietKeeps DEF Close

LEMMA ListingInv ==
  ASSUME RepliesInv, NEW s \in Symbols, List(s) \/ Delist(s)
  PROVE  RepliesInv'
<1>1. TypeOK /\ "stream" \in Tasks
  BY DEF RepliesInv, Tasks
<1>2. OtherTypes'
  BY <1>1 DEF List, Delist, External, stream, poller, TypeOK, OtherTypes, Loops
<1>3. UNCHANGED <<table, inbox, socket, frame>>
  BY DEF List, Delist, External
<1>4. QED
  BY <1>1, <1>2, <1>3, QuietKeeps

LEMMA BreakInv ==
  ASSUME RepliesInv, NEW how \in {"half", "down"}, Break(how)
  PROVE  RepliesInv'
<1>1. TypeOK /\ "stream" \in Tasks
  BY DEF RepliesInv, Tasks
<1>2. OtherTypes'
  BY <1>1 DEF Break, External, venue, stream, poller, TypeOK, OtherTypes, Loops
<1>3. UNCHANGED <<table, inbox, socket, frame>>
  BY DEF Break, External
<1>4. QED
  BY <1>1, <1>2, <1>3, QuietKeeps

\* A ticker or a test request is no reply.
LEMMA PushInv ==
  ASSUME RepliesInv, NEW notice \in Messages, notice.kind # "reply", Push(notice)
  PROVE  RepliesInv'
<1>1. TypeOK /\ Answers /\ InFlight /\ "stream" \in Tasks
  BY DEF RepliesInv, Answers, InFlight, Tasks
<1>2. inbox' = Append(inbox, notice) /\ UNCHANGED <<table, socket, frame>>
  BY DEF Push, External
<1>3. Advances /\ InFlight' /\ TableTypes'
  BY <1>1, <1>2, ReleaseKeeps
<1>4. Answers' /\ inbox' \in Seq(Messages)
  BY <1>1, <1>2, <1>3, AnswersGrow
<1>5. OtherTypes'
  BY <1>1, <1>4 DEF Push, External, venue, stream, poller, TypeOK, OtherTypes, Loops
<1>6. QED
  BY <1>3, <1>4, <1>5, InvNext

LEMMA StillInv == RepliesInv /\ UNCHANGED vars => RepliesInv'
<1> SUFFICES ASSUME RepliesInv, UNCHANGED vars PROVE RepliesInv'
  OBVIOUS
<1>1. TypeOK /\ "stream" \in Tasks
  BY DEF RepliesInv, Tasks
<1>2. OtherTypes'
  BY <1>1 DEF vars, venue, stream, poller, TypeOK, OtherTypes, Loops
<1>3. QED
  BY <1>1, <1>2, QuietKeeps DEF vars

LEMMA SessionNextInv == RepliesInv /\ [Next]_vars => RepliesInv'
<1> SUFFICES ASSUME RepliesInv, [Next]_vars PROVE RepliesInv'
  OBVIOUS
<1>1. CASE StreamStep
  BY <1>1, ConnectInv, LeaveSessionInv, WakeInv, ReceiveInv DEF StreamStep
<1>2. CASE ConnectFails
  BY <1>2, ConnectFailsInv
<1>3. ASSUME NEW error \in BOOLEAN, Sent(error) \/ Applied(error) PROVE RepliesInv'
  BY <1>3, SentInv, AppliedInv
<1>4. CASE AskInventory \/ InventoryFails \/ InventoryAnswered \/ ApplyLost
  BY <1>4, AskInventoryInv, InventoryFailsInv, InventoryAnsweredInv, ApplyLostInv
<1>5. CASE Close
  BY <1>5, CloseInv
<1>6. ASSUME NEW s \in Symbols, List(s) \/ Delist(s) PROVE RepliesInv'
  BY <1>6, ListingInv
<1>7. ASSUME NEW s \in subs, Push(Notice("ticker", s)) PROVE RepliesInv'
  <2>1. s \in Symbols
    BY DEF RepliesInv, TypeOK
  <2>2. Notice("ticker", s) \in Messages /\ Notice("ticker", s).kind # "reply"
    BY <2>1 DEF Notice, Messages
  <2>3. QED
    BY <1>7, <2>2, PushInv
<1>8. CASE Push(Notice("test", "none"))
  <2>1. Notice("test", "none") \in Messages /\ Notice("test", "none").kind # "reply"
    BY DEF Notice, Messages
  <2>2. QED
    BY <1>8, <2>1, PushInv
<1>9. CASE Break("half") \/ Break("down")
  BY <1>9, BreakInv
<1>10. CASE UNCHANGED vars
  BY <1>10, StillInv
<1>11. QED
  BY <1>1, <1>2, <1>3, <1>4, <1>5, <1>6, <1>7, <1>8, <1>9, <1>10 DEF Next

--------------------------------------------------------------------------------
(* The theorems.                                                           *)

\* Every reply that came in, and every request the two tasks have still to send on the live
\* socket, carries a number this socket gave out to it (DeribitProvider._send, _settle).
THEOREM RepliesStand == Spec => []RepliesInv
<1>1. QED
  BY SessionInitInv, SessionNextInv, PTL DEF Spec

\* Every reachable state of the session has the types TypeOK gives: a frame in flight is of
\* a socket already opened, and the table only holds requests the provider makes.
THEOREM SessionTypes == Spec => []TypeOK
<1>1. RepliesInv => TypeOK
  BY DEF RepliesInv
<1>2. QED
  BY <1>1, RepliesStand, PTL

\* Whatever the order in which the frames of the stream and of discover() leave, through
\* any number of reconnections, a reply read off the socket pops the request it answers or
\* none (DeribitProvider._settle against _send's renumbering in _open_session).
THEOREM NoReplySettlesAnother == Spec => []SettledByItsOwnReply
<1>1. RepliesInv => SettledByItsOwnReply
  BY DEF RepliesInv, SettledByItsOwnReply, Known
<1>2. QED
  BY <1>1, RepliesStand, PTL

--------------------------------------------------------------------------------
(* The universe.  What keeps it subscribed is what is still owed of it: by *)
(* the opening, the batch it is sending and those it has left; by          *)
(* discover(), on the live socket, the births it is sending and has left.  *)

OwedByOpening == IF loop = "opening" THEN unasked \cup frame["stream"].channels ELSE {}

Births(t) == IF frame[t].method = "subscribe" THEN frame[t].channels ELSE {}

OwedByDiscover ==
  IF Sending("poll") /\ frame["poll"].socket = socket THEN born \cup Births("poll") ELSE {}

Coverage ==
  loop \in {"opening", "receiving"} /\ link = "up" /\ ~Refused
    => symbols \cap listed \subseteq subs \cup OwedByOpening \cup OwedByDiscover

\* The socket the stream holds is the one discover() is given, the opening only subscribes,
\* and no task unsubscribes a symbol of the universe.
Wiring ==
  /\ link # "down" => connection = socket /\ connection # 0
  /\ Sending("poll") => poll = "applying"
  /\ Sending("stream") => loop \in {"greeting", "opening", "receiving"}
  /\ loop = "opening" => frame["stream"].method = "subscribe"
  /\ frame["stream"].method # "unsubscribe"
  /\ dead \cap symbols = {}
  /\ frame["poll"].method = "unsubscribe" => frame["poll"].channels \cap symbols = {}

\* The universe and the inventory in flight hold what the venue listed at some time.
Listings == symbols \cup inventory \subseteq listed \cup delisted

\* A reply not yet read answers a request still pending, and no other that came in or may
\* still be sent on this socket has its number: a refusal is never dropped unread.
LiveIn(frames, on, t) == frames[t] # NoFrame /\ frames[t].socket = on

TicketsOf(box, frames, asked, on, last) ==
  /\ \A i \in DOMAIN box : box[i].error => box[i].kind = "reply"
  /\ \A i \in DOMAIN box :
       box[i].kind = "reply" => box[i].id \in 1..last /\ asked[box[i].id] # NoRequest
  /\ \A i, j \in DOMAIN box :
       box[i].kind = "reply" /\ box[j].kind = "reply" /\ box[i].id = box[j].id => i = j
  /\ \A t \in Tasks : LiveIn(frames, on, t) =>
       /\ frames[t].id \in 1..last /\ asked[frames[t].id] # NoRequest
       /\ \A i \in DOMAIN box : box[i].kind = "reply" => box[i].id # frames[t].id
  /\ \A t, u \in Tasks :
       LiveIn(frames, on, t) /\ LiveIn(frames, on, u) /\ frames[t].id = frames[u].id => t = u

Tickets == TicketsOf(inbox, frame, pending, socket, nextId)

\* The universe is covered by what is subscribed and what is owed, and a refusal that came
\* in is still to be read.
CoverageInv == Tickets /\ Wiring /\ Listings /\ Coverage

--------------------------------------------------------------------------------
(* The tickets.                                                            *)

\* A task gives its frame up.
LEMMA TicketsReleased ==
  ASSUME NEW box, NEW frames \in [Tasks -> Frames \cup {NoFrame}], NEW asked, NEW on, NEW last,
         NEW t \in Tasks, TicketsOf(box, frames, asked, on, last)
  PROVE  TicketsOf(box, [frames EXCEPT ![t] = NoFrame], asked, on, last)
<1> DEFINE after == [frames EXCEPT ![t] = NoFrame]
<1>1. \A u \in Tasks : LiveIn(after, on, u) => LiveIn(frames, on, u) /\ after[u] = frames[u]
  BY DEF LiveIn
<1> HIDE DEF after
<1>2. TicketsOf(box, after, asked, on, last)
  BY <1>1 DEF TicketsOf
<1>3. QED
  BY <1>2 DEF after

\* A frame is read off the socket, or all are forgotten.
LEMMA TicketsRead ==
  ASSUME NEW box \in Seq(Messages), NEW frames, NEW asked, NEW on, NEW last, box # <<>>,
         TicketsOf(box, frames, asked, on, last)
  PROVE  TicketsOf(Tail(box), frames, asked, on, last)
<1> DEFINE after == Tail(box)
<1>1. \A i \in DOMAIN after : i + 1 \in DOMAIN box /\ after[i] = box[i + 1]
  OBVIOUS
<1>2. DOMAIN after \subseteq Nat
  OBVIOUS
<1> HIDE DEF after
<1>3. /\ \A i \in DOMAIN after : after[i].error => after[i].kind = "reply"
      /\ \A i \in DOMAIN after :
           after[i].kind = "reply" => after[i].id \in 1..last /\ asked[after[i].id] # NoRequest
  BY <1>1 DEF TicketsOf
<1>4. \A i, j \in DOMAIN after :
        after[i].kind = "reply" /\ after[j].kind = "reply" /\ after[i].id = after[j].id => i = j
  <2>1. SUFFICES ASSUME NEW i \in DOMAIN after, NEW j \in DOMAIN after, after[i].kind = "reply",
                        after[j].kind = "reply", after[i].id = after[j].id
                 PROVE  i = j
    OBVIOUS
  <2>2. i + 1 = j + 1
    BY <1>1, <2>1 DEF TicketsOf
  <2>3. QED
    BY <1>2, <2>2
<1>5. \A t \in Tasks : LiveIn(frames, on, t) =>
        /\ frames[t].id \in 1..last /\ asked[frames[t].id] # NoRequest
        /\ \A i \in DOMAIN after : after[i].kind = "reply" => after[i].id # frames[t].id
  BY <1>1 DEF TicketsOf
<1>6. TicketsOf(after, frames, asked, on, last)
  BY <1>3, <1>4, <1>5 DEF TicketsOf
<1>7. QED
  BY <1>6 DEF after

\* A frame that is no reply comes in.
LEMMA TicketsPushed ==
  ASSUME NEW box \in Seq(Messages), NEW frames, NEW asked, NEW on, NEW last, NEW one \in Messages,
         one.kind # "reply", ~one.error, TicketsOf(box, frames, asked, on, last)
  PROVE  TicketsOf(Append(box, one), frames, asked, on, last)
<1> DEFINE after == Append(box, one)
<1>1. \A i \in DOMAIN after : after[i] = one \/ (i \in DOMAIN box /\ after[i] = box[i])
  OBVIOUS
<1> HIDE DEF after
<1>2. \A i \in DOMAIN after : after[i].kind = "reply" => i \in DOMAIN box /\ after[i] = box[i]
  BY <1>1
<1>3. \A i \in DOMAIN after : after[i].error => after[i].kind = "reply"
  BY <1>1 DEF TicketsOf
<1>4. TicketsOf(after, frames, asked, on, last)
  BY <1>2, <1>3 DEF TicketsOf
<1>5. QED
  BY <1>4 DEF after

\* A frame of the live socket is answered, and given up.
LEMMA TicketsAnswered ==
  ASSUME NEW box \in Seq(Messages), NEW frames \in [Tasks -> Frames \cup {NoFrame}], NEW asked,
         NEW on, NEW last, NEW t \in Tasks, LiveIn(frames, on, t), NEW one \in Messages,
         one.kind = "reply", one.id = frames[t].id, TicketsOf(box, frames, asked, on, last)
  PROVE  TicketsOf(Append(box, one), [frames EXCEPT ![t] = NoFrame], asked, on, last)
<1> DEFINE after == Append(box, one)
           left == [frames EXCEPT ![t] = NoFrame]
<1>1. \A i \in DOMAIN after :
        \/ after[i] = one /\ i = Len(box) + 1
        \/ i \in DOMAIN box /\ after[i] = box[i]
  OBVIOUS
<1>2. \A u \in Tasks : LiveIn(left, on, u) => LiveIn(frames, on, u) /\ left[u] = frames[u] /\ u # t
  BY DEF LiveIn
<1> HIDE DEF after, left
<1>3. frames[t].id \in 1..last /\ asked[frames[t].id] # NoRequest
      /\ \A i \in DOMAIN box : box[i].kind = "reply" => box[i].id # one.id
  BY DEF TicketsOf
<1>4. /\ \A i \in DOMAIN after : after[i].error => after[i].kind = "reply"
      /\ \A i \in DOMAIN after :
           after[i].kind = "reply" => after[i].id \in 1..last /\ asked[after[i].id] # NoRequest
  BY <1>1, <1>3 DEF TicketsOf
<1>5. \A i, j \in DOMAIN after :
        after[i].kind = "reply" /\ after[j].kind = "reply" /\ after[i].id = after[j].id => i = j
  <2>1. SUFFICES ASSUME NEW i \in DOMAIN after, NEW j \in DOMAIN after, after[i].kind = "reply",
                        after[j].kind = "reply", after[i].id = after[j].id
                 PROVE  i = j
    OBVIOUS
  <2>2. CASE after[i] = one /\ i = Len(box) + 1
    BY <1>1, <1>3, <2>1, <2>2
  <2>3. CASE i \in DOMAIN box /\ after[i] = box[i]
    BY <1>1, <1>3, <2>1, <2>3 DEF TicketsOf
  <2>4. QED
    BY <1>1, <2>2, <2>3
<1>6. \A u \in Tasks : LiveIn(left, on, u) =>
        /\ left[u].id \in 1..last /\ asked[left[u].id] # NoRequest
        /\ \A i \in DOMAIN after : after[i].kind = "reply" => after[i].id # left[u].id
  <2>1. SUFFICES ASSUME NEW u \in Tasks, LiveIn(left, on, u)
                 PROVE  /\ left[u].id \in 1..last /\ asked[left[u].id] # NoRequest
                        /\ \A i \in DOMAIN after : after[i].kind = "reply" => after[i].id # left[u].id
    OBVIOUS
  <2>2. LiveIn(frames, on, u) /\ left[u] = frames[u] /\ frames[u].id # frames[t].id
    BY <1>2, <2>1 DEF TicketsOf
  <2>3. QED
    BY <1>1, <2>2 DEF TicketsOf
<1>7. \A u, v \in Tasks :
        LiveIn(left, on, u) /\ LiveIn(left, on, v) /\ left[u].id = left[v].id => u = v
  BY <1>2 DEF TicketsOf
<1>8. TicketsOf(after, left, asked, on, last)
  BY <1>4, <1>5, <1>6, <1>7 DEF TicketsOf
<1>9. QED
  BY <1>8 DEF after, left

\* A task numbers a request.
LEMMA TicketsNumbered ==
  ASSUME NEW box, NEW frames \in [Tasks -> Frames \cup {NoFrame}],
         NEW asked \in [1..MaxId -> Requests \cup {NoRequest}], NEW on, NEW last \in 0..MaxId,
         last < MaxId, NEW t \in Tasks, NEW one \in Frames, one.id = last + 1,
         NEW request \in Requests, TicketsOf(box, frames, asked, on, last)
  PROVE  TicketsOf(box, [frames EXCEPT ![t] = one], [asked EXCEPT ![last + 1] = request], on,
                   last + 1)
<1> DEFINE left == [frames EXCEPT ![t] = one]
           held == [asked EXCEPT ![last + 1] = request]
<1>1. \A u \in Tasks : left[u] = IF u = t THEN one ELSE frames[u]
  OBVIOUS
<1>2. request # NoRequest
  BY DEF Requests, NoRequest, Methods
<1>3. last \in Nat /\ last + 1 \in 1..MaxId
  OBVIOUS
<1>4. /\ \A n \in 1..last : n \in 1..(last + 1) /\ n # last + 1 /\ held[n] = asked[n]
      /\ last + 1 \in 1..(last + 1) /\ held[last + 1] # NoRequest
  BY <1>2, <1>3
<1> HIDE DEF left, held
<1>5. \A i \in DOMAIN box : box[i].kind = "reply" =>
        /\ box[i].id \in 1..(last + 1) /\ held[box[i].id] # NoRequest
        /\ box[i].id # last + 1
  BY <1>4 DEF TicketsOf
<1>6. \A u \in Tasks : LiveIn(left, on, u) /\ u # t =>
        /\ LiveIn(frames, on, u) /\ left[u] = frames[u]
        /\ left[u].id \in 1..last /\ left[u].id # last + 1
  BY <1>1, <1>4 DEF LiveIn, TicketsOf
<1>7. \A u \in Tasks : LiveIn(left, on, u) =>
        /\ left[u].id \in 1..(last + 1) /\ held[left[u].id] # NoRequest
        /\ \A i \in DOMAIN box : box[i].kind = "reply" => box[i].id # left[u].id
  <2>1. SUFFICES ASSUME NEW u \in Tasks, LiveIn(left, on, u)
                 PROVE  /\ left[u].id \in 1..(last + 1) /\ held[left[u].id] # NoRequest
                        /\ \A i \in DOMAIN box : box[i].kind = "reply" => box[i].id # left[u].id
    OBVIOUS
  <2>2. CASE u = t
    BY <1>1, <1>4, <1>5, <2>2
  <2>3. CASE u # t
    BY <1>4, <1>6, <2>1, <2>3 DEF TicketsOf
  <2>4. QED
    BY <2>2, <2>3
<1>8. \A u, v \in Tasks :
        LiveIn(left, on, u) /\ LiveIn(left, on, v) /\ left[u].id = left[v].id => u = v
  BY <1>1, <1>6 DEF TicketsOf
<1>9. TicketsOf(box, left, held, on, last + 1)
  BY <1>5, <1>7, <1>8 DEF TicketsOf
<1>10. QED
  BY <1>9 DEF left, held

\* The reply at the head settles its request and is gone.
LEMMA TicketsSettled ==
  ASSUME NEW box \in Seq(Messages), NEW frames, NEW on, NEW last \in 0..MaxId,
         NEW asked \in [1..MaxId -> Requests \cup {NoRequest}], box # <<>>,
         box[1].kind = "reply", TicketsOf(box, frames, asked, on, last)
  PROVE  TicketsOf(Tail(box), frames, [asked EXCEPT ![box[1].id] = NoRequest], on, last)
<1> DEFINE after == Tail(box)
           n == box[1].id
           held == [asked EXCEPT ![n] = NoRequest]
<1>1. \A i \in DOMAIN after : i + 1 \in DOMAIN box /\ i + 1 # 1 /\ after[i] = box[i + 1]
  OBVIOUS
<1>2. 1 \in DOMAIN box /\ TicketsOf(after, frames, asked, on, last)
  BY TicketsRead
<1>3. \A m \in 1..last : m # n => held[m] = asked[m]
  OBVIOUS
<1> HIDE DEF after, held
<1>4. \A i \in DOMAIN after : after[i].kind = "reply" => after[i].id # n
  BY <1>1, <1>2 DEF TicketsOf
<1>5. \A t \in Tasks : LiveIn(frames, on, t) => frames[t].id # n
  BY <1>2 DEF TicketsOf
<1> HIDE DEF n
<1>6. TicketsOf(after, frames, held, on, last)
  BY <1>2, <1>3, <1>4, <1>5 DEF TicketsOf
<1>7. QED
  BY <1>6 DEF after, n, held

--------------------------------------------------------------------------------
(* What the operators the handlers share leave of the tickets, and owe of  *)
(* the universe.                                                           *)

LEMMA TicketsAsked ==
  ASSUME TypeOK, NEW t \in Tasks, NEW method \in Methods, NEW channels \in SUBSET Symbols,
         NEW on \in Nat, on <= socket, Ask(t, on, method, channels), NEW box,
         NEW frames \in {frame, [frame EXCEPT ![t] = NoFrame]},
         TicketsOf(box, frames, pending, socket, nextId)
  PROVE  TicketsOf(box, frame', pending', socket, nextId')
<1> DEFINE one == FrameOf(nextId + 1, on, method, channels)
           request == [method |-> method, channels |-> channels]
<1>1. nextId \in 0..MaxId /\ nextId < MaxId /\ nextId' = nextId + 1
      /\ pending' = [pending EXCEPT ![nextId + 1] = request] /\ frame' = [frame EXCEPT ![t] = one]
      /\ pending \in [1..MaxId -> Requests \cup {NoRequest}]
  BY DEF TypeOK, Ask, Number
<1>2. one \in Frames /\ one.id = nextId + 1 /\ request \in Requests
  BY <1>1 DEF FrameOf, Frames, Requests
<1> HIDE DEF one, request
<1>3. frames \in [Tasks -> Frames \cup {NoFrame}]
  BY DEF TypeOK
<1>4. frame' = [frames EXCEPT ![t] = one]
  BY <1>1 DEF TypeOK
<1>5. TicketsOf(box, [frames EXCEPT ![t] = one], [pending EXCEPT ![nextId + 1] = request], socket,
                nextId + 1)
  BY <1>1, <1>2, <1>3, TicketsNumbered
<1>6. QED
  BY <1>1, <1>4, <1>5

LEMMA SubscribeTickets ==
  ASSUME TypeOK, NEW left \in SUBSET Symbols, Subscribe(left), NEW box,
         TicketsOf(box, [frame EXCEPT !["stream"] = NoFrame], pending, socket, nextId)
  PROVE  TicketsOf(box, frame', pending', socket, nextId')
<1>1. "stream" \in Tasks /\ "subscribe" \in Methods /\ socket \in Nat /\ socket <= socket
  BY DEF Tasks, Methods, TypeOK
<1>2. CASE left = {}
  BY <1>2 DEF Subscribe, table
<1>3. CASE left # {}
  <2>1. PICK batch \in SUBSET left : Ask("stream", socket, "subscribe", batch)
    BY <1>3 DEF Subscribe, Batches
  <2>2. QED
    BY <1>1, <2>1, TicketsAsked
<1>4. QED
  BY <1>2, <1>3

LEMMA ApplyTickets ==
  ASSUME TypeOK, NEW births \in SUBSET Symbols, NEW deaths \in SUBSET Symbols,
         NEW on \in Nat, on <= socket, Apply(on, births, deaths), NEW box,
         TicketsOf(box, [frame EXCEPT !["poll"] = NoFrame], pending, socket, nextId)
  PROVE  TicketsOf(box, frame', pending', socket, nextId')
<1>1. "poll" \in Tasks /\ "subscribe" \in Methods /\ "unsubscribe" \in Methods
  BY DEF Tasks, Methods
<1>2. CASE births \cup deaths = {}
  BY <1>2 DEF Apply, table
<1>3. CASE births # {}
  <2>1. PICK batch \in SUBSET births : Ask("poll", on, "subscribe", batch)
    BY <1>3 DEF Apply, Batches
  <2>2. QED
    BY <1>1, <2>1, TicketsAsked
<1>4. CASE births = {} /\ deaths # {}
  <2>1. PICK batch \in SUBSET deaths : Ask("poll", on, "unsubscribe", batch)
    BY <1>4 DEF Apply, Batches
  <2>2. QED
    BY <1>1, <2>1, TicketsAsked
<1>5. QED
  BY <1>2, <1>3, <1>4

LEMMA DeliverTickets ==
  ASSUME TypeOK, Tickets, NEW t \in Tasks, NEW error \in BOOLEAN,
         Sending(t), Reachable(t), Deliver(t, error)
  PROVE  TicketsOf(inbox', [frame EXCEPT ![t] = NoFrame], pending, socket, nextId)
<1>1. TicketsOf(inbox, frame, pending, socket, nextId)
  BY DEF Tickets
<1>2. frame \in [Tasks -> Frames \cup {NoFrame}] /\ inbox \in Seq(Messages)
  BY DEF TypeOK
<1>3. CASE link = "half"
  BY <1>1, <1>2, <1>3, TicketsReleased DEF Deliver
<1>4. CASE link = "up"
  <2> DEFINE one == Reply(t, error)
  <2>1. inbox' = Append(inbox, one)
    BY <1>4 DEF Deliver
  <2>2. one \in Messages /\ one.kind = "reply" /\ one.id = frame[t].id
    BY SentFrame DEF Reply, WireId, Messages
  <2>3. LiveIn(frame, socket, t)
    BY DEF LiveIn, Sending, Reachable
  <2> HIDE DEF one
  <2>4. QED
    BY <1>1, <1>2, <2>1, <2>2, <2>3, TicketsAnswered
<1>5. QED
  BY <1>3, <1>4 DEF Deliver

\* A delivered frame does to the venue's side what its method says, or is seen refused.
LEMMA DeliverCovers ==
  ASSUME TypeOK, NEW t \in Tasks, NEW error \in BOOLEAN, Deliver(t, error), link = "up", ~Refused'
  PROVE  /\ ~Refused
         /\ frame[t].method # "unsubscribe" => subs \cup (Births(t) \cap listed) \subseteq subs'
         /\ frame[t].method = "unsubscribe" => subs \ frame[t].channels \subseteq subs'
<1> DEFINE one == Reply(t, error)
<1>1. inbox' = Append(inbox, one) /\ inbox \in Seq(Messages) /\ one.error = error
  BY DEF Deliver, Reply, TypeOK
<1>2. subs' = IF error THEN subs
              ELSE CASE frame[t].method = "subscribe"   -> subs \cup Accepted(t)
                     [] frame[t].method = "unsubscribe" -> subs \ frame[t].channels
                     [] OTHER -> subs
  BY DEF Deliver
<1> HIDE DEF one
<1>3. /\ \A i \in DOMAIN inbox : i \in DOMAIN inbox' /\ inbox'[i] = inbox[i]
      /\ Len(inbox) + 1 \in DOMAIN inbox' /\ inbox'[Len(inbox) + 1] = one
  BY <1>1
<1>4. ~Refused /\ ~error
  BY <1>1, <1>3 DEF Refused
<1>5. CASE frame[t].method = "subscribe"
  BY <1>2, <1>4, <1>5 DEF Births, Accepted
<1>6. CASE frame[t].method = "unsubscribe"
  BY <1>2, <1>4, <1>6
<1>7. CASE frame[t].method \notin {"subscribe", "unsubscribe"}
  BY <1>2, <1>4, <1>7 DEF Births
<1>8. QED
  BY <1>4, <1>5, <1>6, <1>7

LEMMA SubscribeCovers ==
  ASSUME TypeOK, NEW left \in SUBSET Symbols, Subscribe(left)
  PROVE  /\ left \subseteq OwedByOpening' /\ (Sending("stream")' => loop' = "opening")
         /\ loop' = "opening" => frame'["stream"].method = "subscribe"
         /\ frame'["stream"].method # "unsubscribe"
         /\ frame'["poll"] = frame["poll"]
<1>1. frame \in [Tasks -> Frames \cup {NoFrame}] /\ "stream" \in Tasks /\ "poll" \in Tasks
      /\ "stream" # "poll"
  BY DEF TypeOK, Tasks
<1>2. CASE left = {}
  <2>1. frame' = [frame EXCEPT !["stream"] = NoFrame] /\ loop' \in {"leaving", "receiving"}
    BY <1>2 DEF Subscribe, Relaying
  <2>2. frame'["stream"] = NoFrame /\ frame'["poll"] = frame["poll"]
    BY <1>1, <2>1
  <2>3. QED
    BY <1>2, <2>1, <2>2 DEF NoFrame, Sending
<1>3. CASE left # {}
  <2>1. PICK batch \in SUBSET left :
          Ask("stream", socket, "subscribe", batch) /\ unasked' = left \ batch
    BY <1>3 DEF Subscribe, Batches
  <2>2. loop' = "opening"
    BY <1>3 DEF Subscribe
  <2> DEFINE one == FrameOf(nextId + 1, socket, "subscribe", batch)
  <2>3. frame' = [frame EXCEPT !["stream"] = one]
    BY <2>1 DEF Ask, Number
  <2>4. one.method = "subscribe" /\ one.channels = batch
    BY DEF FrameOf
  <2> HIDE DEF one
  <2>5. frame'["stream"] = one /\ frame'["poll"] = frame["poll"]
    BY <1>1, <2>3
  <2>6. QED
    BY <2>1, <2>2, <2>4, <2>5 DEF OwedByOpening
<1>4. QED
  BY <1>2, <1>3

LEMMA ApplyCovers ==
  ASSUME TypeOK, NEW births \in SUBSET Symbols, NEW deaths \in SUBSET Symbols, NEW on \in Nat,
         Apply(on, births, deaths)
  PROVE  /\ on = socket' => births \subseteq OwedByDiscover'
         /\ Sending("poll")' => poll' = "applying"
         /\ dead' \subseteq deaths
         /\ frame'["poll"].method = "unsubscribe" => frame'["poll"].channels \subseteq deaths
         /\ frame'["stream"] = frame["stream"]
<1>1. frame \in [Tasks -> Frames \cup {NoFrame}] /\ "stream" \in Tasks /\ "poll" \in Tasks
      /\ "stream" # "poll"
  BY DEF TypeOK, Tasks
<1>2. CASE births \cup deaths = {}
  <2>1. frame' = [frame EXCEPT !["poll"] = NoFrame] /\ dead' = {}
    BY <1>2 DEF Apply
  <2>2. frame'["poll"] = NoFrame /\ frame'["stream"] = frame["stream"]
    BY <1>1, <2>1
  <2>3. QED
    BY <1>2, <2>1, <2>2 DEF NoFrame, Sending
<1>3. CASE births # {}
  <2>1. PICK batch \in SUBSET births : Ask("poll", on, "subscribe", batch) /\ born' = births \ batch
    BY <1>3 DEF Apply, Batches
  <2>2. poll' = "applying" /\ dead' = deaths
    BY <1>3 DEF Apply
  <2> DEFINE one == FrameOf(nextId + 1, on, "subscribe", batch)
  <2>3. frame' = [frame EXCEPT !["poll"] = one]
    BY <2>1 DEF Ask, Number
  <2>4. one.method = "subscribe" /\ one.channels = batch /\ one.socket = on /\ one # NoFrame
    BY DEF FrameOf, NoFrame
  <2> HIDE DEF one
  <2>5. frame'["poll"] = one /\ frame'["stream"] = frame["stream"]
    BY <1>1, <2>3
  <2>6. on = socket' => OwedByDiscover' = born' \cup batch
    BY <2>4, <2>5 DEF OwedByDiscover, Births, Sending
  <2>7. QED
    BY <2>1, <2>2, <2>4, <2>5, <2>6
<1>4. CASE births = {} /\ deaths # {}
  <2>1. PICK batch \in SUBSET deaths :
          Ask("poll", on, "unsubscribe", batch) /\ dead' = deaths \ batch
    BY <1>4 DEF Apply, Batches
  <2>2. poll' = "applying"
    BY <1>4 DEF Apply
  <2> DEFINE one == FrameOf(nextId + 1, on, "unsubscribe", batch)
  <2>3. frame' = [frame EXCEPT !["poll"] = one]
    BY <2>1 DEF Ask, Number
  <2>4. one.method = "unsubscribe" /\ one.channels = batch
    BY DEF FrameOf
  <2> HIDE DEF one
  <2>5. frame'["poll"] = one /\ frame'["stream"] = frame["stream"]
    BY <1>1, <2>3
  <2>6. QED
    BY <1>4, <2>1, <2>2, <2>4, <2>5
<1>5. QED
  BY <1>2, <1>3, <1>4

--------------------------------------------------------------------------------
(* Coverage, action by action.                                             *)

LEMMA CoverageInit == Init => CoverageInv
<1> SUFFICES ASSUME Init PROVE CoverageInv
  OBVIOUS
<1>1. Tickets
  BY DEF Init, Tickets, TicketsOf, LiveIn
<1>2. Wiring
  BY DEF Init, Wiring, Sending, NoFrame, Tasks
<1>3. Listings /\ Coverage
  BY DEF Init, Listings, Own, Coverage
<1>4. QED
  BY <1>1, <1>2, <1>3 DEF CoverageInv

LEMMA ConnectCovers == TypeOK /\ CoverageInv /\ Connect => CoverageInv'
<1> SUFFICES ASSUME TypeOK, CoverageInv, Connect PROVE CoverageInv'
  OBVIOUS
<1> DEFINE empty == [i \in 1..MaxId |-> NoRequest]
           one == FrameOf(1, socket + 1, "heartbeat", {})
           request == [method |-> "heartbeat", channels |-> {}]
<1>1. "stream" \in Tasks /\ "poll" \in Tasks /\ "stream" # "poll"
      /\ frame \in [Tasks -> Frames \cup {NoFrame}] /\ \A t \in Tasks : frame[t].socket <= socket
  BY DEF Tasks, TypeOK
<1>2. /\ 0 < MaxId /\ nextId' = 0 + 1 /\ pending' = [empty EXCEPT ![0 + 1] = request]
      /\ frame' = [frame EXCEPT !["stream"] = FrameOf(0 + 1, socket + 1, "heartbeat", {})]
      /\ socket' = socket + 1 /\ inbox' = <<>> /\ socket \in Nat
  BY DEF Connect, Number, TypeOK
<1>3. 0 + 1 = 1 /\ MaxId \in Nat /\ 1 \in 1..MaxId
  BY <1>2
<1>4. one.method = "heartbeat" /\ one.id = 1 /\ request # NoRequest
  BY DEF FrameOf, NoRequest
<1> HIDE DEF one, request
<1>5. frame'["stream"] = one /\ frame'["poll"] = frame["poll"]
  BY <1>1, <1>2, <1>3 DEF one
<1>6. Tickets'
  <2>1. pending'[1] # NoRequest
    BY <1>2, <1>3, <1>4
  <2>2. \A t \in Tasks : LiveIn(frame', socket', t) => t = "stream"
    BY <1>1, <1>2, <1>5 DEF LiveIn, Tasks
  <2>3. DOMAIN inbox' = {} /\ nextId' = 1 /\ 1 \in 1..nextId'
    BY <1>2
  <2>4. \A t \in Tasks : LiveIn(frame', socket', t) => frame'[t].id = 1
    BY <1>4, <1>5, <2>2
  <2>5. TicketsOf(inbox', frame', pending', socket', nextId')
    BY <2>1, <2>2, <2>3, <2>4 DEF TicketsOf
  <2>6. QED
    BY <2>5 DEF Tickets
<1>7. Wiring'
  <2>1. /\ loop' = "greeting" /\ connection' = socket' /\ connection' # 0
        /\ symbols' = symbols /\ poll' = poll /\ dead' = dead
    BY <1>2 DEF Connect, poller
  <2>2. QED
    BY <1>4, <1>5, <2>1 DEF CoverageInv, Wiring, Sending
<1>8. Listings' /\ Coverage'
  BY DEF Connect, venue, poller, CoverageInv, Listings, Coverage
<1>9. QED
  BY <1>6, <1>7, <1>8 DEF CoverageInv

LEMMA SentCovers ==
  ASSUME TypeOK, CoverageInv, NEW error \in BOOLEAN, Sent(error)
  PROVE  CoverageInv'
<1>1. /\ Sending("stream") /\ Reachable("stream") /\ Deliver("stream", error)
      /\ "stream" \in Tasks /\ "poll" \in Tasks /\ symbols \in SUBSET Symbols
      /\ unasked \in SUBSET Symbols /\ frame \in [Tasks -> Frames \cup {NoFrame}]
      /\ UNCHANGED <<venue, link, symbols, closed, connection, socket, poller>>
  BY DEF Sent, Tasks, TypeOK
<1>2. TicketsOf(inbox', [frame EXCEPT !["stream"] = NoFrame], pending, socket, nextId)
  BY <1>1, DeliverTickets DEF CoverageInv
<1> DEFINE Opened(left) ==
             /\ left \subseteq OwedByOpening' /\ (Sending("stream")' => loop' = "opening")
             /\ loop' = "opening" => frame'["stream"].method = "subscribe"
             /\ frame'["stream"].method # "unsubscribe"
             /\ frame'["poll"] = frame["poll"]
             /\ TicketsOf(inbox', frame', pending', socket, nextId')
<1>3. CASE loop = "greeting"
  <2>1. Subscribe(symbols)
    BY <1>3 DEF Sent
  <2>2. Opened(symbols)
    BY <1>1, <1>2, <2>1, SubscribeCovers, SubscribeTickets
  <2>3. Coverage'
    BY <1>1, <2>2 DEF Coverage
  <2>4. QED
    BY <1>1, <2>2, <2>3 DEF CoverageInv, Tickets, Wiring, Listings, venue, poller, Sending
<1>4. CASE loop = "opening"
  <2>1. Subscribe(unasked)
    BY <1>4 DEF Sent
  <2>2. Opened(unasked)
    BY <1>1, <1>2, <2>1, SubscribeCovers, SubscribeTickets
  <2>3. frame["stream"].method = "subscribe"
    BY <1>4 DEF CoverageInv, Wiring
  <2>4. OwedByDiscover' = OwedByDiscover
    BY <1>1, <2>2 DEF OwedByDiscover, Births, Sending, poller
  <2>5. Coverage'
    <3>1. SUFFICES ASSUME link = "up", ~Refused'
                   PROVE  symbols \cap listed \subseteq subs' \cup OwedByOpening' \cup OwedByDiscover
      BY <1>1, <2>4 DEF Coverage, venue
    <3>2. ~Refused /\ subs \cup (frame["stream"].channels \cap listed) \subseteq subs'
      BY <1>1, <2>3, <3>1, DeliverCovers DEF Births
    <3>3. symbols \cap listed \subseteq subs \cup (unasked \cup frame["stream"].channels) \cup OwedByDiscover
      BY <1>4, <3>1, <3>2 DEF CoverageInv, Coverage, OwedByOpening
    <3>4. QED
      BY <2>2, <3>2, <3>3
  <2>6. QED
    BY <1>1, <2>2, <2>5 DEF CoverageInv, Tickets, Wiring, Listings, venue, poller, Sending
<1>5. CASE loop \notin {"greeting", "opening"}
  <2>1. UNCHANGED table /\ loop' = Relaying /\ frame' = [frame EXCEPT !["stream"] = NoFrame]
    BY <1>5 DEF Sent
  <2>2. /\ frame'["stream"] = NoFrame /\ frame'["poll"] = frame["poll"]
        /\ loop' \in {"leaving", "receiving"}
    BY <1>1, <2>1 DEF Relaying, Tasks
  <2>3. OwedByDiscover' = OwedByDiscover
    BY <1>1, <2>2 DEF OwedByDiscover, Births, Sending, poller
  <2>4. loop = "receiving" \/ loop \in {"connecting", "leaving", "waiting", "ended", "failed", "crashed"}
    BY <1>5 DEF TypeOK
  <2>5. Coverage'
    <3>1. SUFFICES ASSUME loop' = "receiving", link = "up", ~Refused'
                   PROVE  symbols \cap listed \subseteq subs' \cup OwedByDiscover
      BY <1>1, <2>2, <2>3 DEF Coverage, venue
    <3>2. loop = "receiving"
      BY <1>1, <1>5 DEF CoverageInv, Wiring
    <3>3. ~Refused /\ subs \subseteq subs'
      BY <1>1, <3>1, DeliverCovers DEF CoverageInv, Wiring
    <3>4. symbols \cap listed \subseteq subs \cup OwedByDiscover
      BY <3>1, <3>2, <3>3 DEF CoverageInv, Coverage, OwedByOpening
    <3>5. QED
      BY <3>3, <3>4
  <2>6. Tickets'
    BY <1>1, <1>2, <2>1 DEF Tickets, table
  <2>7. QED
    BY <1>1, <2>2, <2>5, <2>6 DEF CoverageInv, Wiring, Listings, venue, poller, Sending, NoFrame
<1>6. QED
  BY <1>3, <1>4, <1>5

LEMMA AppliedCovers ==
  ASSUME TypeOK, CoverageInv, NEW error \in BOOLEAN, Applied(error)
  PROVE  CoverageInv'
<1> DEFINE on == frame["poll"].socket
<1>1. /\ Sending("poll") /\ Reachable("poll") /\ Deliver("poll", error)
      /\ "stream" \in Tasks /\ "poll" \in Tasks
      /\ born \in SUBSET Symbols /\ dead \in SUBSET Symbols
      /\ on = socket /\ socket \in Nat /\ on <= socket
      /\ Apply(on, born, dead)
      /\ UNCHANGED <<venue, link, symbols, closed, connection, socket, stream, inventory, polls>>
  BY DEF Applied, Reachable, Tasks, TypeOK
<1>2. TicketsOf(inbox', [frame EXCEPT !["poll"] = NoFrame], pending, socket, nextId)
  BY <1>1, DeliverTickets DEF CoverageInv
<1>3. TicketsOf(inbox', frame', pending', socket, nextId')
  BY <1>1, <1>2, ApplyTickets
<1>4. /\ born \subseteq OwedByDiscover'
      /\ Sending("poll")' => poll' = "applying"
      /\ dead' \subseteq dead
      /\ frame'["poll"].method = "unsubscribe" => frame'["poll"].channels \subseteq dead
      /\ frame'["stream"] = frame["stream"]
  <2>1. on = socket'
    BY <1>1
  <2>2. QED
    BY <1>1, <2>1, ApplyCovers
<1>5. OwedByOpening' = OwedByOpening
  BY <1>1, <1>4 DEF OwedByOpening, stream
<1>6. Coverage'
  <2>1. SUFFICES ASSUME loop \in {"opening", "receiving"}, link = "up", ~Refused'
                 PROVE  symbols \cap listed \subseteq subs' \cup OwedByOpening \cup OwedByDiscover'
    BY <1>1, <1>5 DEF Coverage, venue, stream
  <2>2. ~Refused
    BY <1>1, <2>1, DeliverCovers
  <2>3. symbols \cap listed \subseteq subs \cup OwedByOpening \cup (born \cup Births("poll"))
    BY <1>1, <2>1, <2>2 DEF CoverageInv, Coverage, OwedByDiscover
  <2>4. CASE frame["poll"].method # "unsubscribe"
    <3>1. subs \cup (Births("poll") \cap listed) \subseteq subs'
      BY <1>1, <2>1, <2>4, DeliverCovers
    <3>2. QED
      BY <1>4, <2>3, <3>1
  <2>5. CASE frame["poll"].method = "unsubscribe"
    <3>1. subs \ frame["poll"].channels \subseteq subs' /\ Births("poll") = {}
      BY <1>1, <2>1, <2>5, DeliverCovers DEF Births
    <3>2. frame["poll"].channels \cap symbols = {}
      BY <2>5 DEF CoverageInv, Wiring
    <3>3. QED
      BY <1>4, <2>3, <3>1, <3>2
  <2>6. QED
    BY <2>4, <2>5
<1>7. Wiring'
  BY <1>1, <1>4 DEF CoverageInv, Wiring, stream, Sending
<1>8. QED
  BY <1>1, <1>3, <1>6, <1>7 DEF CoverageInv, Tickets, Listings, venue

LEMMA InventoryAnsweredCovers == TypeOK /\ CoverageInv /\ InventoryAnswered => CoverageInv'
<1> SUFFICES ASSUME TypeOK, CoverageInv, InventoryAnswered PROVE CoverageInv'
  OBVIOUS
<1>1. /\ poll = "asking" /\ symbols' = Own(inventory) /\ Own(inventory) \in SUBSET Symbols
      /\ symbols \in SUBSET Symbols /\ socket \in Nat /\ connection \in {0, socket}
      /\ "stream" \in Tasks /\ "poll" \in Tasks /\ frame \in [Tasks -> Frames \cup {NoFrame}]
      /\ UNCHANGED <<venue, subs, link, inbox, closed, connection, socket, stream, inventory, polls>>
  BY DEF InventoryAnswered, Own, TypeOK, Tasks
<1> DEFINE births == IF connection = 0 THEN {} ELSE Own(inventory) \ symbols
           deaths == IF connection = 0 THEN {} ELSE symbols \ Own(inventory)
<1>2. Apply(connection, births, deaths)
  BY DEF InventoryAnswered
<1>3. births \in SUBSET Symbols /\ deaths \in SUBSET Symbols /\ connection \in Nat
      /\ connection <= socket
  BY <1>1
<1>4. connection # 0 => births = symbols' \ symbols
  BY <1>1
<1>5. deaths \cap symbols' = {}
  BY <1>1
<1> HIDE DEF births, deaths
<1>6. TicketsOf(inbox', frame', pending', socket, nextId')
  <2>1. TicketsOf(inbox, [frame EXCEPT !["poll"] = NoFrame], pending, socket, nextId)
    BY <1>1, TicketsReleased DEF CoverageInv, Tickets
  <2>2. QED
    BY <1>1, <1>2, <1>3, <2>1, ApplyTickets
<1>7. /\ connection = socket' => births \subseteq OwedByDiscover'
      /\ Sending("poll")' => poll' = "applying"
      /\ dead' \subseteq deaths
      /\ frame'["poll"].method = "unsubscribe" => frame'["poll"].channels \subseteq deaths
      /\ frame'["stream"] = frame["stream"]
  BY <1>2, <1>3, ApplyCovers
<1>8. OwedByOpening' = OwedByOpening
  BY <1>1, <1>7 DEF OwedByOpening, stream
<1>9. Coverage'
  <2>1. SUFFICES ASSUME loop \in {"opening", "receiving"}, link = "up", ~Refused
                 PROVE  symbols' \cap listed \subseteq subs \cup OwedByOpening \cup OwedByDiscover'
    BY <1>1, <1>8 DEF Coverage, venue, stream, Refused
  <2>2. connection = socket' /\ connection # 0
    BY <1>1, <2>1 DEF CoverageInv, Wiring
  <2>3. OwedByDiscover = {}
    BY <1>1 DEF CoverageInv, Wiring, OwedByDiscover
  <2>4. symbols \cap listed \subseteq subs \cup OwedByOpening
    BY <2>1, <2>3 DEF CoverageInv, Coverage
  <2>5. QED
    BY <1>4, <1>7, <2>2, <2>4
<1>10. Wiring'
  BY <1>1, <1>5, <1>7 DEF CoverageInv, Wiring, stream, Sending
<1>11. Listings'
  BY <1>1 DEF CoverageInv, Listings, Own, venue
<1>12. QED
  BY <1>1, <1>6, <1>9, <1>10, <1>11 DEF CoverageInv, Tickets

\* A reply read is of a request still pending: an error in it ends the stream.
LEMMA ReceiveCovers == TypeOK /\ CoverageInv /\ Receive => CoverageInv'
<1> SUFFICES ASSUME TypeOK, CoverageInv, Receive PROVE CoverageInv'
  OBVIOUS
<1>1. /\ inbox # <<>> /\ inbox' = Tail(inbox) /\ inbox \in Seq(Messages)
      /\ loop = "receiving" /\ frame["stream"] = NoFrame
      /\ "stream" \in Tasks /\ "poll" \in Tasks /\ "stream" # "poll"
      /\ frame \in [Tasks -> Frames \cup {NoFrame}]
      /\ UNCHANGED <<venue, symbols, closed, socket, failures, poller, faults>>
  BY DEF Receive, Reading, Sending, Tasks, TypeOK
<1>2. 1 \in DOMAIN inbox /\ Head(inbox) = inbox[1]
  BY <1>1
<1>3. TicketsOf(inbox, frame, pending, socket, nextId)
  BY DEF CoverageInv, Tickets
<1>4. TicketsOf(inbox', frame, pending, socket, nextId)
  BY <1>1, <1>3, TicketsRead
<1>5. ~Refused' /\ ~inbox[1].error => ~Refused
  <2>1. SUFFICES ASSUME Refused, ~inbox[1].error PROVE Refused'
    OBVIOUS
  <2>2. PICK i \in DOMAIN inbox : inbox[i].error
    BY <2>1 DEF Refused
  <2>3. i # 1
    BY <2>1, <2>2
  <2>4. i - 1 \in DOMAIN inbox' /\ inbox'[i - 1] = inbox[i]
    BY <1>1, <2>3
  <2>5. QED
    BY <2>2, <2>4 DEF Refused
<1>6. Listings'
  BY <1>1 DEF CoverageInv, Listings, venue, poller
<1>7. ASSUME UNCHANGED <<loop, connection, link, subs>>, frame'["poll"] = frame["poll"],
             frame'["stream"].method # "unsubscribe", ~inbox[1].error
      PROVE  Wiring' /\ Coverage'
  <2>1. OwedByDiscover' = OwedByDiscover /\ OwedByOpening' = OwedByOpening
    BY <1>1, <1>7 DEF OwedByDiscover, Births, OwedByOpening, Sending, poller
  <2>2. Coverage'
    BY <1>1, <1>5, <1>7, <2>1 DEF CoverageInv, Coverage, venue
  <2>3. Wiring'
    BY <1>1, <1>7 DEF CoverageInv, Wiring, Sending, poller
  <2>4. QED
    BY <2>2, <2>3
<1>8. CASE inbox[1].kind = "test"
  <2>1. Ask("stream", socket, "test", {}) /\ UNCHANGED <<loop, connection, link, subs, unasked>>
    BY <1>2, <1>8 DEF Receive
  <2>2. "test" \in Methods /\ socket \in Nat /\ socket <= socket /\ {} \in SUBSET Symbols
    BY DEF Methods, TypeOK
  <2>3. TicketsOf(inbox', frame', pending', socket, nextId')
    BY <1>1, <1>4, <2>1, <2>2, TicketsAsked
  <2>4. frame'["poll"] = frame["poll"] /\ frame'["stream"].method = "test"
    BY <1>1, <2>1 DEF Ask, Number, FrameOf
  <2>5. ~inbox[1].error
    BY <1>2, <1>3, <1>8 DEF TicketsOf
  <2>6. QED
    BY <1>1, <1>6, <1>7, <2>1, <2>3, <2>4, <2>5 DEF CoverageInv, Tickets
<1>9. CASE inbox[1].kind = "reply"
  <2> DEFINE reply == inbox[1]
  <2>1. Settle(reply) /\ nextId' = nextId
    BY <1>2, <1>9 DEF Receive
  <2>2. pending[reply.id] # NoRequest
    BY <1>2, <1>3, <1>9 DEF TicketsOf
  <2>3. pending' = [pending EXCEPT ![reply.id] = NoRequest]
    BY <2>1, <2>2 DEF Settle
  <2>4. TicketsOf(inbox', frame, pending', socket, nextId')
    BY <1>1, <1>3, <1>9, <2>1, <2>3, TicketsSettled DEF TypeOK
  <2>5. CASE reply.error
    <3>1. /\ loop' = "failed" /\ link' = "down" /\ frame' = [frame EXCEPT !["stream"] = NoFrame]
      BY <2>1, <2>2, <2>5 DEF Settle, Drop
    <3>2. frame'["stream"] = NoFrame /\ frame'["poll"] = frame["poll"] /\ frame' = frame
      BY <1>1, <3>1
    <3>3. Wiring' /\ Coverage'
      BY <1>1, <3>1, <3>2 DEF CoverageInv, Wiring, Coverage, Sending, NoFrame, poller
    <3>4. QED
      BY <1>1, <1>6, <2>4, <3>2, <3>3 DEF CoverageInv, Tickets
  <2>6. CASE ~reply.error
    <3>1. UNCHANGED <<loop, connection, link, subs, unasked, frame>>
      BY <2>1, <2>2, <2>6 DEF Settle
    <3>2. QED
      BY <1>1, <1>6, <1>7, <2>4, <2>6, <3>1 DEF CoverageInv, Tickets, NoFrame
  <2>7. QED
    BY <2>5, <2>6
<1>10. CASE inbox[1].kind \notin {"test", "reply"}
  <2>1. UNCHANGED <<table, loop, connection, link, subs, unasked, frame>>
    BY <1>2, <1>10 DEF Receive
  <2>2. ~inbox[1].error
    BY <1>2, <1>3, <1>10 DEF TicketsOf
  <2>3. QED
    BY <1>1, <1>4, <1>6, <1>7, <2>1, <2>2 DEF CoverageInv, Tickets, table, NoFrame
<1>11. QED
  BY <1>8, <1>9, <1>10

\* Actions that number nothing and receive nothing keep the tickets.
LEMMA QuietTickets ==
  ASSUME TypeOK, CoverageInv, NEW t \in Tasks, UNCHANGED <<table, inbox, socket>>,
         frame' = frame \/ frame' = [frame EXCEPT ![t] = NoFrame]
  PROVE  Tickets'
<1>1. frame \in [Tasks -> Frames \cup {NoFrame}] /\ TicketsOf(inbox, frame, pending, socket, nextId)
  BY DEF TypeOK, CoverageInv, Tickets
<1>2. TicketsOf(inbox, frame', pending, socket, nextId)
  BY <1>1, TicketsReleased
<1>3. QED
  BY <1>2 DEF Tickets, table

\* What leaves the socket down, or not passing frames, owes nothing.
LEMMA DownCovers == link' # "up" => Coverage'
  BY DEF Coverage

LEMMA StreamQuietCovers ==
  ASSUME TypeOK, CoverageInv, ConnectFails \/ LeaveSession \/ Wake
  PROVE  CoverageInv'
<1>1. /\ "stream" \in Tasks /\ "poll" \in Tasks /\ "stream" # "poll"
      /\ frame \in [Tasks -> Frames \cup {NoFrame}]
      /\ UNCHANGED <<table, inbox, socket, venue, symbols, poller>>
  BY DEF Tasks, TypeOK, ConnectFails, LeaveSession, Wake
<1>2. /\ frame' = frame \/ frame' = [frame EXCEPT !["stream"] = NoFrame]
      /\ loop' \notin {"greeting", "opening", "receiving"}
  BY DEF ConnectFails, LeaveSession, Wake, WaitOut, Drop
<1>3. Tickets'
  BY <1>1, <1>2, QuietTickets
<1>4. frame'["poll"] = frame["poll"]
  BY <1>1, <1>2
<1>5. frame'["stream"] = NoFrame
  <2>1. CASE ConnectFails \/ Wake
    BY <2>1 DEF ConnectFails, Wake, CoverageInv, Wiring, Sending
  <2>2. CASE LeaveSession
    BY <1>1, <2>2 DEF LeaveSession, Drop
  <2>3. QED
    BY <2>1, <2>2
<1>6. link' # "down" => link # "down" /\ connection' = connection
  BY DEF ConnectFails, LeaveSession, Wake, Drop
<1>7. Wiring'
  BY <1>1, <1>2, <1>4, <1>5, <1>6 DEF CoverageInv, Wiring, Sending, NoFrame, poller
<1>8. QED
  BY <1>1, <1>2, <1>3, <1>7 DEF CoverageInv, Listings, Coverage, venue, poller

LEMMA PollQuietCovers ==
  ASSUME TypeOK, CoverageInv, AskInventory \/ InventoryFails \/ ApplyLost
  PROVE  CoverageInv'
<1>1. /\ "stream" \in Tasks /\ "poll" \in Tasks /\ "stream" # "poll"
      /\ frame \in [Tasks -> Frames \cup {NoFrame}]
      /\ UNCHANGED <<table, inbox, socket, venue, symbols, subs, link, connection, stream>>
      /\ inventory' \in {listed, inventory}
  BY DEF Tasks, TypeOK, AskInventory, InventoryFails, ApplyLost
<1>2. frame' = frame \/ frame' = [frame EXCEPT !["poll"] = NoFrame]
  BY DEF AskInventory, InventoryFails, ApplyLost
<1>3. Tickets'
  BY <1>1, <1>2, QuietTickets
<1>4. frame'["stream"] = frame["stream"]
  BY <1>1, <1>2
<1>5. CASE AskInventory \/ InventoryFails
  <2>1. frame' = frame /\ dead' = dead /\ ~Sending("poll")
    BY <1>5 DEF AskInventory, InventoryFails, CoverageInv, Wiring
  <2>2. Wiring'
    BY <1>1, <2>1 DEF CoverageInv, Wiring, Sending, stream
  <2>3. OwedByOpening' = OwedByOpening /\ OwedByDiscover = {}
    BY <1>1, <2>1 DEF OwedByOpening, OwedByDiscover, stream
  <2>4. Coverage'
    BY <1>1, <2>3 DEF CoverageInv, Coverage, Refused, venue, stream
  <2>5. QED
    BY <1>1, <1>3, <2>2, <2>4 DEF CoverageInv, Listings, venue
<1>6. CASE ApplyLost
  <2>1. frame'["poll"] = NoFrame /\ dead' = {} /\ ~Reachable("poll") /\ inventory' = inventory
    BY <1>1, <1>6 DEF ApplyLost
  <2>2. Wiring'
    BY <1>1, <1>4, <2>1 DEF CoverageInv, Wiring, Sending, stream, NoFrame
  <2>3. OwedByOpening' = OwedByOpening /\ (link = "up" => OwedByDiscover = {})
    BY <1>1, <1>4, <2>1 DEF OwedByOpening, OwedByDiscover, Reachable, stream
  <2>4. Coverage'
    BY <1>1, <2>3 DEF CoverageInv, Coverage, Refused, venue, stream
  <2>5. QED
    BY <1>1, <1>3, <2>1, <2>2, <2>4 DEF CoverageInv, Listings, venue
<1>7. QED
  BY <1>5, <1>6

LEMMA SocketLostCovers ==
  ASSUME TypeOK, CoverageInv, NEW how \in {"half", "down"}, Close \/ Break(how)
  PROVE  CoverageInv'
<1>1. /\ "stream" \in Tasks
      /\ UNCHANGED <<table, inbox, socket, venue, symbols, stream, poller, frame>>
  BY DEF Tasks, Close, Break, External
<1>2. Tickets'
  BY <1>1, QuietTickets
<1>3. link' # "up" /\ (link' # "down" => link # "down" /\ connection' = connection)
  <2>1. CASE Close
    BY <2>1 DEF Close, CoverageInv, Wiring
  <2>2. CASE Break(how)
    BY <2>2 DEF Break, External
  <2>3. QED
    BY <2>1, <2>2
<1>4. Wiring'
  BY <1>1, <1>3 DEF CoverageInv, Wiring, Sending, stream, poller
<1>5. QED
  BY <1>1, <1>2, <1>3, <1>4, DownCovers DEF CoverageInv, Listings, venue, poller

LEMMA ListingCovers ==
  ASSUME TypeOK, CoverageInv, NEW s \in Symbols, List(s) \/ Delist(s)
  PROVE  CoverageInv'
<1>1. /\ "stream" \in Tasks /\ UNCHANGED <<table, link, inbox, socket, symbols, connection>>
      /\ UNCHANGED <<stream, poller, frame>>
  BY DEF Tasks, List, Delist, External
<1>2. Tickets' /\ Wiring'
  BY <1>1, QuietTickets DEF CoverageInv, Wiring, Sending, stream, poller
<1>3. OwedByOpening' = OwedByOpening /\ OwedByDiscover' = OwedByDiscover
  BY <1>1 DEF OwedByOpening, OwedByDiscover, Births, Sending, stream, poller
<1>4. symbols' \cap listed' \subseteq symbols \cap listed
      /\ \A c \in symbols' \cap listed' : c \in subs => c \in subs'
  BY <1>1 DEF List, Delist, CoverageInv, Listings
<1>5. Coverage'
  BY <1>1, <1>3, <1>4 DEF CoverageInv, Coverage, Refused, stream
<1>6. Listings'
  BY <1>1 DEF List, Delist, CoverageInv, Listings, poller
<1>7. QED
  BY <1>2, <1>5, <1>6 DEF CoverageInv

LEMMA PushCovers ==
  ASSUME TypeOK, CoverageInv, NEW notice \in Messages, notice.kind # "reply", ~notice.error,
         Push(notice)
  PROVE  CoverageInv'
<1>1. /\ inbox' = Append(inbox, notice) /\ inbox \in Seq(Messages)
      /\ UNCHANGED <<table, socket, frame, venue, subs, link, symbols, connection, stream, poller>>
  BY DEF Push, External, TypeOK
<1>2. Tickets'
  BY <1>1, TicketsPushed DEF CoverageInv, Tickets, table
<1>3. Refused => Refused'
  BY <1>1 DEF Refused
<1>4. OwedByOpening' = OwedByOpening /\ OwedByDiscover' = OwedByDiscover
  BY <1>1 DEF OwedByOpening, OwedByDiscover, Births, Sending, stream, poller
<1>5. Coverage'
  BY <1>1, <1>3, <1>4 DEF CoverageInv, Coverage, venue, stream
<1>6. QED
  BY <1>1, <1>2, <1>5 DEF CoverageInv, Wiring, Sending, Listings, venue, stream, poller

LEMMA StillCovers == TypeOK /\ CoverageInv /\ UNCHANGED vars => CoverageInv'
<1> SUFFICES ASSUME TypeOK, CoverageInv, UNCHANGED vars PROVE CoverageInv'
  OBVIOUS
<1>1. "stream" \in Tasks /\ UNCHANGED <<table, inbox, socket, frame, stream, poller, venue>>
      /\ UNCHANGED <<link, connection, symbols, subs>>
  BY DEF Tasks, vars, venue
<1>2. Tickets'
  BY <1>1, QuietTickets
<1>3. OwedByOpening' = OwedByOpening /\ OwedByDiscover' = OwedByDiscover
  BY <1>1 DEF OwedByOpening, OwedByDiscover, Births, Sending, stream, poller
<1>4. Coverage'
  BY <1>1, <1>3 DEF CoverageInv, Coverage, Refused, venue, stream
<1>5. QED
  BY <1>1, <1>2, <1>4 DEF CoverageInv, Wiring, Sending, Listings, venue, stream, poller

LEMMA CoverageNext == TypeOK /\ CoverageInv /\ [Next]_vars => CoverageInv'
<1> SUFFICES ASSUME TypeOK, CoverageInv, [Next]_vars PROVE CoverageInv'
  OBVIOUS
<1>1. CASE StreamStep \/ ConnectFails
  BY <1>1, ConnectCovers, StreamQuietCovers, ReceiveCovers DEF StreamStep
<1>2. ASSUME NEW error \in BOOLEAN, Sent(error) \/ Applied(error) PROVE CoverageInv'
  BY <1>2, SentCovers, AppliedCovers
<1>3. CASE AskInventory \/ InventoryFails \/ InventoryAnswered \/ ApplyLost
  BY <1>3, PollQuietCovers, InventoryAnsweredCovers
<1>4. CASE Close \/ Break("half") \/ Break("down")
  BY <1>4, SocketLostCovers
<1>5. ASSUME NEW s \in Symbols, List(s) \/ Delist(s) PROVE CoverageInv'
  BY <1>5, ListingCovers
<1>6. ASSUME NEW s \in subs, Push(Notice("ticker", s)) PROVE CoverageInv'
  <2>1. s \in Symbols
    BY DEF TypeOK
  <2>2. /\ Notice("ticker", s) \in Messages /\ Notice("ticker", s).kind # "reply"
        /\ ~Notice("ticker", s).error
    BY <2>1 DEF Notice, Messages
  <2>3. QED
    BY <1>6, <2>2, PushCovers
<1>7. CASE Push(Notice("test", "none"))
  <2>1. /\ Notice("test", "none") \in Messages /\ Notice("test", "none").kind # "reply"
        /\ ~Notice("test", "none").error
    BY DEF Notice, Messages
  <2>2. QED
    BY <1>7, <2>1, PushCovers
<1>8. CASE UNCHANGED vars
  BY <1>8, StillCovers
<1>9. QED
  BY <1>1, <1>2, <1>3, <1>4, <1>5, <1>6, <1>7, <1>8 DEF Next

\* Every reply not yet read is of a request still pending, and every symbol of the universe
\* the venue lists is subscribed or still owed a request that will leave on this socket.
THEOREM UniverseIsCovered == Spec => []CoverageInv
<1>1. QED
  BY CoverageInit, CoverageNext, SessionTypes, PTL DEF Spec

\* Whatever the connections, the reconnections and the rediscoveries did, in whatever order
\* their requests left, an open session with no rediscovery half applied and no refusal
\* unread receives every symbol of the universe that the venue still lists
\* (DeribitProvider._open_session against discover()).
THEOREM OpenSessionsAreSubscribed == Spec => []UniverseIsSubscribed
<1>1. CoverageInv => UniverseIsSubscribed
  BY DEF CoverageInv, Wiring, Coverage, OwedByOpening, OwedByDiscover, UniverseIsSubscribed
<1>2. QED
  BY <1>1, UniverseIsCovered, PTL
================================================================================
