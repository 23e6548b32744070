------------------------------- MODULE Recording -------------------------------
(***************************************************************************)
(* A session written down and played back: RecordingProvider and its sink  *)
(* in front of a feed (adapters/recorder.py), the process killed at any    *)
(* instant, then open_recording() and RecordedProvider in a later process  *)
(* (adapters/recorded.py).  The chain at either end is the consumer of     *)
(* ingest_stream.py, reduced to its live set and its latest quotes.        *)
(***************************************************************************)
EXTENDS Integers, Sequences, SequencesExt

CONSTANTS
  Contracts,       \* what the feed may quote
  MaxLines,        \* bound on the lines of the file
  MaxTime          \* bound on the session's clock

ASSUME RecordingAssumption ==
  Contracts # {} /\ MaxLines \in Nat /\ MaxTime \in Nat

VARIABLES
  disk,        \* the lines of the file: whole ones, but perhaps for the last
  session,     \* where the recorded run is
  now,         \* its clock, the ts_local of what arrives
  held,        \* the update written and not yet taken by the loop, or <<>>
  live,        \* the live set of its chain
  latest,      \* its chain: the ts_local of each contract's quote, 0 if none
  consumed,    \* history: the updates its loop has taken
  moved,       \* history: a rediscovery answered another universe
  replay,      \* where the replayed run is
  line,        \* lines read of the file
  stopped,     \* RecordedProvider._closed
  clock,       \* the replay clock
  liveAgain, latestAgain, replayed   \* the replayed chain, and what it took

recorded == <<disk, session, now, held, live, latest, consumed, moved>>
playback == <<replay, line, stopped, clock, liveAgain, latestAgain, replayed>>
vars == <<recorded, playback>>

Header(universe) == [kind |-> "header", universe |-> universe]
Quote(c, at) == [kind |-> "quote", contract |-> c, at |-> at]
Torn == [kind |-> "torn"]

Init ==
  /\ disk = <<>>
  /\ session = "opening"
  /\ now = 1
  /\ held = <<>>
  /\ live = {}
  /\ latest = [c \in Contracts |-> 0]
  /\ consumed = <<>>
  /\ moved = FALSE
  /\ replay = "none"
  /\ line = 0
  /\ stopped = FALSE
  /\ clock = 0
  /\ liveAgain = {}
  /\ latestAgain = [c \in Contracts |-> 0]
  /\ replayed = <<>>

Room == Len(disk) < MaxLines

\* RecordingSink._write: one line, flushed.
Write(entry) == Room /\ disk' = Append(disk, entry)

--------------------------------------------------------------------------------
(* The recorded run.                                                       *)

\* set_live_instruments(): the observations of what is not live are forgotten.
Forget(quotes, universe) == [c \in Contracts |-> IF c \in universe THEN quotes[c] ELSE 0]

\* RecordingProvider.discover, asked by the loop before it streams: the answer is written
\* as a header and adopted.
Discover(universe) ==
  /\ session = "opening"
  /\ Write(Header(universe))
  /\ live' = universe
  /\ session' = "streaming"
  /\ UNCHANGED <<now, held, latest, consumed, moved, playback>>

\* The same, asked by the rediscovery poll: a header each time, in the middle of the file.
Rediscover(universe) ==
  /\ session = "streaming"
  /\ held = <<>>
  /\ Write(Header(universe))
  /\ live' = universe
  /\ latest' = Forget(latest, universe)
  /\ moved' = (moved \/ universe # live)
  /\ UNCHANGED <<session, now, held, consumed, playback>>

YieldedUnwritten(c) ==
  /\ session = "streaming"
  /\ held = <<>>
  /\ Room
  /\ held' = <<Quote(c, now)>>
  /\ UNCHANGED <<disk, session, now, live, latest, consumed, moved, playback>>

\* _record(): an update arrives and is written before it is yielded.
Tap(c) ==
  /\ session = "streaming"
  /\ held = <<>>
  /\ Write(Quote(c, now))
  /\ held' = <<Quote(c, now)>>
  /\ UNCHANGED <<session, now, live, latest, consumed, moved, playback>>

\* The loop folds the update it is handed into its chain.
Take ==
  /\ session = "streaming"
  /\ held # <<>>
  /\ LET q == held[1] IN
       /\ latest' = [latest EXCEPT ![q.contract] = q.at]
       /\ live' = live \cup {q.contract}
       /\ consumed' = Append(consumed, q)
  /\ held' = <<>>
  /\ UNCHANGED <<disk, session, now, moved, playback>>

Tick ==
  /\ session = "streaming"
  /\ now < MaxTime
  /\ now' = now + 1
  /\ UNCHANGED <<disk, session, held, live, latest, consumed, moved, playback>>

\* close(), or a kill between two steps: the file is left as it is.
Stop ==
  /\ session \in {"opening", "streaming"}
  /\ session' = "over"
  /\ UNCHANGED <<disk, now, held, live, latest, consumed, moved, playback>>

\* A kill inside a write: the line is cut, before the loop sees what it was.
KillWriting ==
  /\ session \in {"opening", "streaming"}
  /\ held = <<>>
  /\ Write(Torn)
  /\ session' = "over"
  /\ UNCHANGED <<now, held, live, latest, consumed, moved, playback>>

--------------------------------------------------------------------------------
(* The replayed run.                                                       *)

QuoteLines == {i \in DOMAIN disk : disk[i].kind = "quote"}
FirstQuote == CHOOSE i \in QuoteLines : \A j \in QuoteLines : i <= j

\* What open_recording() requires: a header, then a quote before any line it cannot read.
Readable ==
  /\ disk # <<>> /\ disk[1].kind = "header"
  /\ QuoteLines # {}

NoInventory == {}

\* _instruments(): the universe of the first header.
Inventory == disk[1].universe

\* open_recording(): the file is refused, or the clock is placed at its first quote and the
\* universe is its first header's.
Open ==
  /\ session = "over"
  /\ replay = "none"
  /\ IF Readable
       THEN /\ replay' = "streaming"
            /\ clock' = disk[FirstQuote].at
            /\ liveAgain' = Inventory
       ELSE /\ replay' = "refused"
            /\ UNCHANGED <<clock, liveAgain>>
  /\ UNCHANGED <<recorded, line, stopped, latestAgain, replayed>>

NotAQuote(entry) == entry.kind # "quote"

\* _decode(): what was cut in the middle is no JSON object.
Undecodable(entry) == entry.kind = "torn"

\* One line of RecordedProvider._stream, and the loop's use of what it yields.
ReadLine ==
  /\ replay = "streaming"
  /\ line < Len(disk)
  /\ line' = line + 1
  /\ LET next == disk[line + 1] IN
       \/ /\ Undecodable(next)
          /\ replay' = "failed"
          /\ UNCHANGED <<clock, liveAgain, latestAgain, replayed>>
       \/ /\ next.kind = "header" /\ ~Undecodable(next)
          /\ UNCHANGED <<replay, clock, liveAgain, latestAgain, replayed>>
       \/ /\ next.kind = "quote" /\ stopped
          /\ replay' = "ended"
          /\ UNCHANGED <<clock, liveAgain, latestAgain, replayed>>
       \/ /\ next.kind = "quote" /\ ~stopped
          /\ clock' = next.at
          /\ latestAgain' = [latestAgain EXCEPT ![next.contract] = next.at]
          /\ liveAgain' = liveAgain \cup {next.contract}
          /\ replayed' = Append(replayed, next)
          /\ UNCHANGED replay
  /\ UNCHANGED <<recorded, stopped>>

ReadEnd ==
  /\ replay = "streaming"
  /\ line = Len(disk)
  /\ replay' = "ended"
  /\ UNCHANGED <<recorded, line, stopped, clock, liveAgain, latestAgain, replayed>>

\* RecordedProvider.close(), by a run that has what it wanted.
StopReplay ==
  /\ replay = "streaming"
  /\ ~stopped
  /\ stopped' = TRUE
  /\ UNCHANGED <<recorded, replay, line, clock, liveAgain, latestAgain, replayed>>

Next ==
  \/ \E universe \in SUBSET Contracts \ {{}} : Discover(universe) \/ Rediscover(universe)
  \/ \E c \in Contracts : Tap(c)
  \/ Take \/ Tick \/ Stop \/ KillWriting
  \/ Open \/ ReadLine \/ ReadEnd \/ StopReplay

Spec == Init /\ [][Next]_vars

\* A replay reads on: no timer runs beside it and nothing in it waits for the network.
FairSpec == Spec /\ WF_vars(Open) /\ WF_vars(ReadLine \/ ReadEnd)

--------------------------------------------------------------------------------
(* Properties.                                                             *)

\* The quotes among the first n lines of a file, for every n.
QuotesAlong(lines) ==
  LET upTo[n \in 0..Len(lines)] ==
        IF n = 0 THEN <<>>
        ELSE IF lines[n].kind = "quote" THEN Append(upTo[n - 1], lines[n])
        ELSE upTo[n - 1]
  IN  upTo

Quotes == QuotesAlong(disk)[Len(disk)]

\* Nothing reaches the loop that the file does not hold, in the same order, and the file is
\* ahead of the loop by the one update it choked on or was killed before taking.
WrittenBeforeSeen ==
  /\ IsPrefix(consumed, Quotes)
  /\ Len(Quotes) <= Len(consumed) + 1

\* At every point of a replay the chain is the one the session had at that point: live set and
\* quotes, provided no rediscovery moved the universe, which a replay does not see.
ReplayedChainIsTheSessions ==
  replay # "none" /\ ~moved /\ Len(replayed) = Len(consumed) /\ replay # "refused"
    => replayed = consumed /\ latestAgain = latest /\ liveAgain = live

\* A session killed anywhere replays to its last whole line: an opened recording that is not
\* closed early is read through every update the file holds, torn tail or not.
EveryWholeLineReplays ==
  replay = "streaming" ~> stopped \/ (replay \in {"ended", "failed"} /\ replayed = Quotes)

================================================================================
