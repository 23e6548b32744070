----------------------------- MODULE DeribitSession -----------------------------
(***************************************************************************)
(* The Deribit feed (adapters/deribit_ws.py, deribit_rest.py): the stream  *)
(* task that connects, subscribes, relays, backs off and reconnects, the   *)
(* rediscovery task that calls discover() beside it, close(), and the      *)
(* venue and the network at the other end (external).  A step is what runs *)
(* between two awaits: a request is numbered in one step and leaves, under *)
(* the send lock, in another.                                              *)
(***************************************************************************)
EXTENDS Integers, FiniteSets, Sequences

CONSTANTS
  Symbols,          \* what the venue may ever list
  Foreign,          \* the symbols _own() drops: another underlying, unparseable
  InitialListing,   \* what is listed when discover() is first answered
  BatchSize,        \* subscribe_batch_size
  FloatExponent,    \* largest n with float(2 ** n) finite: 1023 in Python
  MaxPolls,         \* bound on rediscoveries
  MaxFaults,        \* bound on what goes wrong at the venue or on the network, tests included
  MaxId,            \* bound on the requests of one socket
  MaxInbox          \* bound on the tickers and test requests queued unread

ASSUME SessionAssumption ==
  /\ Foreign \subseteq Symbols /\ IsFiniteSet(Symbols)
  /\ InitialListing \subseteq Symbols /\ ~ InitialListing \subseteq Foreign
  /\ BatchSize \in Nat \ {0} /\ FloatExponent \in Nat
  /\ MaxPolls \in Nat /\ MaxFaults \in Nat /\ MaxId \in Nat /\ MaxInbox \in Nat

VARIABLES
  listed, delisted,   \* the venue: what it lists, what it has stopped listing
  subs,               \* the venue: channels it sends on the live socket
  link,               \* the stream's socket: up, half (open, passing nothing) or down
  inbox,              \* frames received on it and not yet read
  symbols,            \* _symbols, by venue name
  closed,             \* _closed
  connection,         \* _connection: the number of a socket, or 0
  socket,             \* sockets opened so far; the stream holds the last
  loop,               \* where _stream() is
  failures,           \* its count of consecutive failed attempts
  unasked,            \* channels the opening has still to ask for
  poll,               \* where discover() is
  inventory,          \* what the REST call in flight will answer
  born, dead,         \* channels discover() has still to subscribe and unsubscribe
  nextId, pending,    \* _next_id and _pending
  frame,              \* per task, the request it has numbered and not yet sent
  polls, faults       \* spent bounds

venue == <<listed, delisted>>
stream == <<loop, failures, unasked>>
poller == <<poll, inventory, born, dead, polls>>
table == <<nextId, pending>>
vars == <<listed, delisted, subs, link, inbox, symbols, closed, connection, socket,
          stream, poller, table, frame, faults>>

Tasks == {"stream", "poll"}
NoFrame == [id |-> 0, socket |-> 0, method |-> "none", channels |-> {}]
NoRequest == [method |-> "none", channels |-> {}]
Finished == loop \in {"ended", "failed", "crashed"}

\* DeribitProvider._own: what is left of an inventory.
Own(names) == names \ Foreign

\* One batch of _request_channels, which of them first being a matter of sorting.
Batches(channels) ==
  {batch \in SUBSET channels :
     Cardinality(batch) = IF Cardinality(channels) < BatchSize
                            THEN Cardinality(channels) ELSE BatchSize}

Init ==
  /\ listed = InitialListing
  /\ delisted = {}
  /\ subs = {}
  /\ link = "down"
  /\ inbox = <<>>
  /\ symbols = Own(InitialListing)
  /\ closed = FALSE
  /\ connection = 0
  /\ socket = 0
  /\ loop = "connecting"
  /\ failures = 0
  /\ unasked = {}
  /\ poll = "idle"
  /\ inventory = {}
  /\ born = {}
  /\ dead = {}
  /\ nextId = 0
  /\ pending = [i \in 1..MaxId |-> NoRequest]
  /\ frame = [t \in Tasks |-> NoFrame]
  /\ polls = 0
  /\ faults = 0

--------------------------------------------------------------------------------
(* Sending: number, remember, wait for the lock, hand to the socket.       *)

FrameOf(n, on, method, channels) ==
  [id |-> n, socket |-> on, method |-> method, channels |-> channels]

\* _send() up to its lock, by task t on socket `on`, the table being at `base` with `held`.
Number(t, on, method, channels, base, held) ==
  /\ base < MaxId
  /\ nextId' = base + 1
  /\ pending' = [held EXCEPT ![base + 1] = [method |-> method, channels |-> channels]]
  /\ frame' = [frame EXCEPT ![t] = FrameOf(base + 1, on, method, channels)]

Ask(t, on, method, channels) == Number(t, on, method, channels, nextId, pending)

Sending(t) == frame[t] # NoFrame
Reachable(t) == frame[t].socket = socket /\ link # "down"

LatestId(t) == nextId

\* The id a frame carries: the one taken when the request was numbered.
WireId(t) == frame[t].id

\* The venue's answer to a request: it accepts the channels it lists and omits the rest.
Reply(t, error) ==
  [kind |-> "reply", id |-> WireId(t), error |-> error, symbol |-> "none",
   method |-> frame[t].method, channels |-> frame[t].channels]

Accepted(t) == frame[t].channels \cap listed

\* The frame of t reaches the venue, which acts on it and replies; it is lost on a
\* half-open socket.  A refusal is a fault of the venue's.
Deliver(t, error) ==
  \/ /\ link = "half"
     /\ ~error
     /\ UNCHANGED <<subs, inbox, faults>>
  \/ /\ link = "up"
     /\ faults' = IF error THEN faults + 1 ELSE faults
     /\ faults' <= MaxFaults
     /\ inbox' = Append(inbox, Reply(t, error))
     /\ subs' = IF error THEN subs
                ELSE CASE frame[t].method = "subscribe"   -> subs \cup Accepted(t)
                       [] frame[t].method = "unsubscribe" -> subs \ frame[t].channels
                       [] OTHER -> subs

--------------------------------------------------------------------------------
(* The stream task.                                                        *)

\* _backoff(): the doubling is computed in integers and multiplied into a float.
WaitOut(f) == loop' = IF f > FloatExponent + 1 THEN "crashed" ELSE "waiting"

\* The connector answers.  The socket is published, and the first request of
\* _open_session() numbered in a fresh table, before anything else runs.
Connect ==
  /\ loop = "connecting"
  /\ socket' = socket + 1
  /\ connection' = socket + 1
  /\ link' = "up"
  /\ inbox' = <<>>
  /\ subs' = {}
  /\ loop' = "greeting"
  /\ Number("stream", socket + 1, "heartbeat", {}, 0, [i \in 1..MaxId |-> NoRequest])
  /\ UNCHANGED <<venue, symbols, closed, failures, unasked, poller, faults>>

\* The connector raises.
ConnectFails ==
  /\ loop = "connecting"
  /\ faults < MaxFaults
  /\ faults' = faults + 1
  /\ failures' = failures + 1
  /\ WaitOut(failures + 1)
  /\ UNCHANGED <<venue, subs, link, inbox, symbols, closed, connection, socket, unasked,
                 poller, table, frame>>

\* `while not self._closed`, evaluated between two frames.
Relaying == IF closed THEN "leaving" ELSE "receiving"

\* The universe of _open_session(): what is left to ask of it, its next batch numbered, or
\* the session declared open.
Subscribe(left) ==
  IF left = {}
    THEN /\ loop' = Relaying
         /\ failures' = 0
         /\ unasked' = {}
         /\ frame' = [frame EXCEPT !["stream"] = NoFrame]
         /\ UNCHANGED table
  ELSE /\ \E batch \in Batches(left) :
            /\ Ask("stream", socket, "subscribe", batch)
            /\ unasked' = left \ batch
       /\ loop' = "opening"
       /\ UNCHANGED failures

\* The stream's request has left: the heartbeat opens the subscription, of the universe as
\* it is now, a batch goes on to the next, and the answer to a test goes back to reading.
Sent(error) ==
  /\ Sending("stream")
  /\ Reachable("stream")
  /\ Deliver("stream", error)
  /\ CASE loop = "greeting" -> Subscribe(symbols)
       [] loop = "opening"  -> Subscribe(unasked)
       [] OTHER -> /\ frame' = [frame EXCEPT !["stream"] = NoFrame]
                   /\ loop' = Relaying
                   /\ UNCHANGED <<failures, unasked, table>>
  /\ UNCHANGED <<venue, link, symbols, closed, connection, socket, poller>>

\* The session's frame is left: the socket is dropped and the loop goes to `onward`.
Drop ==
  /\ connection' = 0
  /\ link' = "down"
  /\ subs' = {}
  /\ unasked' = {}
  /\ frame' = [frame EXCEPT !["stream"] = NoFrame]

LeaveWhenTold ==
  /\ loop \in {"greeting", "opening", "receiving", "leaving"}
  /\ link = "down" \/ loop = "leaving"
  /\ Drop
  /\ IF closed
       THEN loop' = "ended" /\ UNCHANGED failures
       ELSE failures' = failures + 1 /\ WaitOut(failures + 1)
  /\ UNCHANGED <<venue, inbox, symbols, closed, socket, poller, table, faults>>

\* ConnectionLost out of a send or a receive, the silence timeout on a half-open socket, or
\* the closed flag seen between two frames.
LeaveSession ==
  /\ loop \in {"greeting", "opening", "receiving", "leaving"}
  /\ \/ link = "down"
     \/ loop = "leaving"
     \/ loop = "receiving" /\ ~Sending("stream") /\ link = "half" /\ inbox = <<>>
  /\ Drop
  /\ IF closed
       THEN loop' = "ended" /\ UNCHANGED failures
       ELSE failures' = failures + 1 /\ WaitOut(failures + 1)
  /\ UNCHANGED <<venue, inbox, symbols, closed, socket, poller, table, faults>>

\* The sleeper returns; the loop looks at the flag.
Wake ==
  /\ loop = "waiting"
  /\ loop' = IF closed THEN "ended" ELSE "connecting"
  /\ UNCHANGED <<venue, subs, link, inbox, symbols, closed, connection, socket, failures,
                 unasked, poller, table, frame, faults>>

Reading == loop = "receiving" /\ ~Sending("stream") /\ ~closed /\ inbox # <<>>

\* _settle(): a reply to a request still pending pops it; an error is not survived.
Settle(reply) ==
  IF pending[reply.id] = NoRequest
    THEN UNCHANGED <<pending, loop, connection, link, subs, unasked, frame>>
  ELSE /\ pending' = [pending EXCEPT ![reply.id] = NoRequest]
       /\ IF reply.error
            THEN loop' = "failed" /\ Drop
            ELSE UNCHANGED <<loop, connection, link, subs, unasked, frame>>

\* _receive() and _handle(): a ticker is yielded or ignored, a test answered, a reply settled.
Receive ==
  /\ Reading
  /\ inbox' = Tail(inbox)
  /\ CASE Head(inbox).kind = "test" ->
            /\ Ask("stream", socket, "test", {})
            /\ UNCHANGED <<loop, connection, link, subs, unasked>>
       [] Head(inbox).kind = "reply" -> Settle(Head(inbox)) /\ UNCHANGED nextId
       [] OTHER -> UNCHANGED <<table, loop, connection, link, subs, unasked, frame>>
  /\ UNCHANGED <<venue, symbols, closed, socket, failures, poller, faults>>

--------------------------------------------------------------------------------
(* The rediscovery task.                                                   *)

\* discover(): the inventory is asked for; the venue reads it here, the answer comes later.
AskInventory ==
  /\ poll = "idle"
  /\ polls < MaxPolls
  /\ polls' = polls + 1
  /\ poll' = "asking"
  /\ inventory' = listed
  /\ UNCHANGED <<venue, subs, link, inbox, symbols, closed, connection, socket, stream, born,
                 dead, table, frame, faults>>

\* The call fails, or lists nothing of ours: DiscoveryError, the universe kept.
InventoryFails ==
  /\ poll = "asking"
  /\ \/ Own(inventory) = {} /\ UNCHANGED faults
     \/ faults < MaxFaults /\ faults' = faults + 1
  /\ poll' = "idle"
  /\ UNCHANGED <<venue, subs, link, inbox, symbols, closed, connection, socket, stream,
                 inventory, born, dead, polls, table, frame>>

FirstBatchOnly(on, births, deaths) ==
  IF births \cup deaths = {} \/ poll = "applying"
    THEN /\ poll' = "idle"
         /\ frame' = [frame EXCEPT !["poll"] = NoFrame]
         /\ born' = {} /\ dead' = {}
         /\ UNCHANGED table
  ELSE /\ poll' = "applying"
       /\ \E batch \in Batches(births \cup deaths) : Ask("poll", on, "subscribe", batch)
       /\ born' = births /\ dead' = deaths

\* What discover() does next on socket `on`: the births in batches, then the deaths.
Apply(on, births, deaths) ==
  IF births \cup deaths = {}
    THEN /\ poll' = "idle"
         /\ frame' = [frame EXCEPT !["poll"] = NoFrame]
         /\ born' = {} /\ dead' = {}
         /\ UNCHANGED table
  ELSE /\ poll' = "applying"
       /\ IF births # {}
            THEN /\ \E batch \in Batches(births) :
                      Ask("poll", on, "subscribe", batch) /\ born' = births \ batch
                 /\ dead' = deaths
            ELSE /\ \E batch \in Batches(deaths) :
                      Ask("poll", on, "unsubscribe", batch) /\ dead' = deaths \ batch
                 /\ born' = {}

\* The answer: the universe is replaced, and the difference applied to the socket the stream
\* holds at this instant, if it holds one.
InventoryAnswered ==
  /\ poll = "asking"
  /\ Own(inventory) # {}
  /\ symbols' = Own(inventory)
  /\ IF connection = 0
       THEN Apply(0, {}, {})
       ELSE Apply(connection, Own(inventory) \ symbols, symbols \ Own(inventory))
  /\ UNCHANGED <<venue, subs, link, inbox, closed, connection, socket, stream, inventory,
                 polls, faults>>

\* A request of discover() has left.
Applied(error) ==
  /\ Sending("poll")
  /\ Reachable("poll")
  /\ Deliver("poll", error)
  /\ Apply(frame["poll"].socket, born, dead)
  /\ UNCHANGED <<venue, link, symbols, closed, connection, socket, stream, inventory, polls>>

\* ConnectionLost out of discover(): a failed poll, the universe already replaced.
ApplyLost ==
  /\ Sending("poll")
  /\ ~Reachable("poll")
  /\ poll' = "idle"
  /\ frame' = [frame EXCEPT !["poll"] = NoFrame]
  /\ born' = {}
  /\ dead' = {}
  /\ UNCHANGED <<venue, subs, link, inbox, symbols, closed, connection, socket, stream,
                 inventory, polls, table, faults>>

FlagOnly ==
  /\ ~closed
  /\ closed' = TRUE
  /\ connection' = 0
  /\ UNCHANGED <<venue, link, subs, inbox, symbols, socket, stream, poller, table, frame,
                 faults>>

\* close(): the flag, and the socket if the provider holds one.
Close ==
  /\ ~closed
  /\ closed' = TRUE
  /\ connection' = 0
  /\ link' = IF connection = 0 THEN link ELSE "down"
  /\ subs' = IF connection = 0 THEN subs ELSE {}
  /\ UNCHANGED <<venue, inbox, symbols, socket, stream, poller, table, frame, faults>>

--------------------------------------------------------------------------------
(* The venue and the network (external).                                   *)

External == <<symbols, closed, connection, socket, stream, poller, table, frame>>

List(s) ==
  /\ s \notin listed \cup delisted
  /\ listed' = listed \cup {s}
  /\ UNCHANGED <<delisted, subs, link, inbox, faults, External>>

\* A contract expires: no channel of it is left, and it is not listed again.
Delist(s) ==
  /\ s \in listed
  /\ listed' = listed \ {s}
  /\ delisted' = delisted \cup {s}
  /\ subs' = subs \ {s}
  /\ UNCHANGED <<link, inbox, faults, External>>

Notice(kind, s) ==
  [kind |-> kind, id |-> 0, error |-> FALSE, symbol |-> s, method |-> "none", channels |-> {}]

\* A ticker of a subscribed channel, or the venue's test_request.
Push(notice) ==
  /\ link = "up"
  /\ Len(inbox) < MaxInbox
  /\ inbox' = Append(inbox, notice)
  /\ faults' = IF notice.kind = "test" THEN faults + 1 ELSE faults
  /\ faults' <= MaxFaults
  /\ UNCHANGED <<venue, subs, link, External>>

\* The socket stops passing frames, or closes.
Break(how) ==
  /\ link = "up"
  /\ faults < MaxFaults
  /\ faults' = faults + 1
  /\ link' = how
  /\ subs' = {}
  /\ UNCHANGED <<venue, inbox, External>>

StreamStep == Connect \/ LeaveSession \/ Wake \/ Receive
Next ==
  \/ StreamStep
  \/ ConnectFails
  \/ \E error \in BOOLEAN : Sent(error) \/ Applied(error)
  \/ AskInventory \/ InventoryFails \/ InventoryAnswered \/ ApplyLost
  \/ Close
  \/ \E s \in Symbols : List(s) \/ Delist(s)
  \/ \E s \in subs : Push(Notice("ticker", s))
  \/ Push(Notice("test", "none"))
  \/ Break("half") \/ Break("down")

Spec == Init /\ [][Next]_vars

\* The tasks are scheduled, the connector, the sends, the sleeper and the REST call return;
\* nothing is owed by the venue's listings or by whoever closes.
Fairness ==
  /\ WF_vars(StreamStep) /\ WF_vars(Sent(FALSE)) /\ WF_vars(Applied(FALSE))
  /\ WF_vars(ApplyLost) /\ WF_vars(InventoryFails \/ InventoryAnswered)

FairSpec == Spec /\ Fairness

--------------------------------------------------------------------------------
(* Properties.                                                             *)

Methods == {"heartbeat", "subscribe", "unsubscribe", "test"}
Requests == [method : Methods, channels : SUBSET Symbols]
Frames == [id : 1..MaxId, socket : Nat, method : Methods, channels : SUBSET Symbols]
Messages ==
  [kind : {"reply", "ticker", "test"}, id : 0..MaxId, error : BOOLEAN,
   symbol : Symbols \cup {"none"}, method : Methods \cup {"none"}, channels : SUBSET Symbols]

\* Types.
TypeOK ==
  /\ listed \in SUBSET Symbols /\ delisted \in SUBSET Symbols
  /\ subs \in SUBSET Symbols
  /\ link \in {"up", "half", "down"}
  /\ inbox \in Seq(Messages)
  /\ symbols \in SUBSET Symbols
  /\ closed \in BOOLEAN
  /\ socket \in Nat /\ connection \in {0, socket}
  /\ loop \in {"connecting", "greeting", "opening", "receiving", "leaving", "waiting", "ended",
               "failed", "crashed"}
  /\ failures \in Nat
  /\ unasked \in SUBSET Symbols
  /\ poll \in {"idle", "asking", "applying"}
  /\ inventory \in SUBSET Symbols /\ born \in SUBSET Symbols /\ dead \in SUBSET Symbols
  /\ nextId \in 0..MaxId
  /\ pending \in [1..MaxId -> Requests \cup {NoRequest}]
  /\ frame \in [Tasks -> Frames \cup {NoFrame}]
  /\ \A t \in Tasks : frame[t].socket <= socket

Refused == \E i \in DOMAIN inbox : inbox[i].error

\* Whatever the connections, the reconnections and the rediscoveries did, in whatever order
\* their requests left: on an open session with no rediscovery half applied, every symbol of
\* the universe discover() answered that the venue still lists is subscribed.
UniverseIsSubscribed ==
  loop = "receiving" /\ link = "up" /\ poll # "applying" /\ ~Refused
    => symbols \cap listed \subseteq subs

\* A reply settles the request it answers, never another of this socket or of a dead one.
SettledByItsOwnReply ==
  \A i \in DOMAIN inbox :
    inbox[i].kind = "reply" /\ pending[inbox[i].id] # NoRequest
      => pending[inbox[i].id] = [method |-> inbox[i].method, channels |-> inbox[i].channels]

\* A number this socket has given out, still standing for that request or for none.
Known(n, method, channels) ==
  n \in 1..nextId /\ pending[n] \in {NoRequest, [method |-> method, channels |-> channels]}

\* The inductive invariant behind it: so does the number of every reply that came in, and
\* of every request still to leave on this socket.
RepliesInv ==
  /\ TypeOK
  /\ \A i \in DOMAIN inbox :
       inbox[i].kind = "reply" => Known(inbox[i].id, inbox[i].method, inbox[i].channels)
  /\ \A t \in Tasks :
       Sending(t) /\ frame[t].socket = socket
         => Known(frame[t].id, frame[t].method, frame[t].channels)

\* A socket that is lost, refused, or open and silent is replaced by one that passes frames,
\* unless the stream is over.
SessionRecovers == link # "up" ~> link = "up" \/ Finished

\* A closed provider ends its stream and holds no socket, even one whose connection was
\* being opened as it was closed.
CloseEndsTheStream == closed ~> [](Finished /\ connection = 0 /\ link = "down")

\* ConnectionLost is the failure the stream survives, however long the venue is down.
OutageIsSurvived == loop # "crashed"

================================================================================
