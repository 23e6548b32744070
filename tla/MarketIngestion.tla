---------------------------- MODULE MarketIngestion ----------------------------
(***************************************************************************)
(* One market's ingestion: the stream loop and the rediscovery poll        *)
(* (application/ingest_stream.py), the snapshot cycle both the stream and  *)
(* the heartbeat call (application/build_snapshot.py), and the timers that *)
(* drive them (entrypoints/pipeline.py).  All share one chain on one event *)
(* loop; only the provider's answers are awaited, so a step is what runs   *)
(* between two of those.                                                   *)
(***************************************************************************)
EXTENDS QuoteChain

CONSTANTS MaxTime      \* bound on the clock

VARIABLES
  now,         \* the clock
  phase,       \* where IngestStreamUseCase.run is
  ingestLive,  \* IngestStreamUseCase._live
  announced,   \* the set in the last ChainCompositionChanged published
  lastEmit,    \* BuildSnapshotUseCase._last_emit
  sequence,    \* BuildSnapshotUseCase._sequence
  nextBeat,    \* instant the heartbeat's sleep ends
  sent         \* history: the mids of the last snapshot, of contracts listed ever since

vars == <<chainVars, now, phase, ingestLive, announced, lastEmit, sequence, nextBeat, sent>>

Phases == {"discovering", "streaming", "ended", "failed"}
Running == phase # "failed"
Heartbeating == MaxQuiet # Never

Init ==
  /\ ChainInit
  /\ now = 0
  /\ phase = "discovering"
  /\ ingestLive = {}
  /\ announced = {}
  /\ lastEmit = Never
  /\ sequence = 0
  /\ nextBeat = Cadence
  /\ sent = [c \in Contracts |-> 0]

\* build() over a chain holding m, live and fwd: the timing first, then the stats
\* (whose ValueError nobody catches), then the coverage; only an emission moves the state.
Build(m, live, fwd) ==
  IF ~IsDue(Moved(m, baseline), lastEmit, now)
    THEN UNCHANGED <<baseline, lastEmit, sequence, sent, phase>>
  ELSE IF ~Constructible(m, live, fwd, now)
    THEN phase' = "failed" /\ UNCHANGED <<baseline, lastEmit, sequence, sent>>
  ELSE IF ~ShouldEmit(Covered(m, fwd, now), Moved(m, baseline), lastEmit, now)
    THEN UNCHANGED <<baseline, lastEmit, sequence, sent, phase>>
  ELSE /\ sequence' = sequence + 1
       /\ lastEmit' = now
       /\ baseline' = UsableMids(m)
       /\ sent' = [c \in Contracts |-> IF c \in Published(m, fwd, now) THEN m[c] ELSE 0]
       /\ UNCHANGED phase

\* The live set is replaced in the use case, then in the chain, then announced, and run()
\* goes to `onward`; a contract of another underlying is a ValueError out of the second.
Adopt(inventory, onward) ==
  /\ ingestLive' = inventory
  /\ IF inventory \cap Foreign = {}
       THEN /\ SetLive(inventory)
            /\ announced' = inventory
            /\ sent' = [c \in Contracts |-> IF c \in inventory THEN sent[c] ELSE 0]
            /\ phase' = onward
       ELSE /\ phase' = "failed"
            /\ UNCHANGED <<chainVars, announced, sent>>
  /\ UNCHANGED <<now, lastEmit, sequence, nextBeat>>

\* run(): its own discovery is answered.
Discover(inventory) == phase = "discovering" /\ Adopt(inventory, "streaming")

\* rediscover(): an answer that moved, adopted in the step that compares it.  It leaves
\* run() where it was, and may come before run's own answer or after the stream's end.
Rediscover(inventory) == Running /\ inventory # ingestLive /\ Adopt(inventory, phase)

AnnouncedBeforeBirth(c) == IF c \in ingestLive THEN announced ELSE ingestLive
AnnouncedWith(c) == IF c \in ingestLive THEN announced ELSE ingestLive \cup {c}

\* run(): one update, folded in, announced if its contract is new, and offered to build().
Apply(c, mid, hasForward) ==
  /\ phase = "streaming"
  /\ ApplyQuote(c, mid, hasForward)
  /\ ingestLive' = ingestLive \cup {c}
  /\ announced' = AnnouncedWith(c)
  /\ Build(mids', chainLive', forwards')
  /\ UNCHANGED <<now, nextBeat>>

\* An update of another underlying is a ValueError out of apply().
ApplyForeign ==
  /\ phase = "streaming"
  /\ Foreign # {}
  /\ phase' = "failed"
  /\ UNCHANGED <<chainVars, now, ingestLive, announced, lastEmit, sequence, nextBeat, sent>>

\* The discovery or the stream raises: the exception ends the pipeline's run.
ProviderFails ==
  /\ phase \in {"discovering", "streaming"}
  /\ phase' = "failed"
  /\ UNCHANGED <<chainVars, now, ingestLive, announced, lastEmit, sequence, nextBeat, sent>>

\* The provider has no more updates; the timers live on while another market streams.
StreamEnds ==
  /\ phase = "streaming"
  /\ phase' = "ended"
  /\ UNCHANGED <<chainVars, now, ingestLive, announced, lastEmit, sequence, nextBeat, sent>>

\* _heartbeat(): sleep a cadence, then offer the chain to build(), whatever run() does.
Heartbeat ==
  /\ Running
  /\ Heartbeating
  /\ now >= nextBeat
  /\ nextBeat' = now + Cadence
  /\ Build(mids, chainLive, forwards)
  /\ UNCHANGED <<mids, chainLive, forwards, now, ingestLive, announced>>

\* Time passes.  The loop is responsive: no tick leaves a heartbeat overdue.
Tick ==
  /\ Running
  /\ now < MaxTime
  /\ Heartbeating => now < nextBeat
  /\ now' = now + 1
  /\ UNCHANGED <<chainVars, phase, ingestLive, announced, lastEmit, sequence, nextBeat, sent>>

Next ==
  \/ \E inventory \in SUBSET Contracts : Discover(inventory) \/ Rediscover(inventory)
  \/ \E c \in Contracts, mid \in Mids, hasForward \in BOOLEAN : Apply(c, mid, hasForward)
  \/ ApplyForeign
  \/ ProviderFails
  \/ StreamEnds
  \/ Heartbeat
  \/ Tick

Spec == Init /\ [][Next]_vars

--------------------------------------------------------------------------------
(* Properties.                                                             *)

TypeOK ==
  /\ mids \in [Contracts -> Mids \cup {Unseen}]
  /\ chainLive \in SUBSET Contracts
  /\ forwards \in SUBSET Expiries
  /\ baseline \in [Contracts -> Mids \cup {0}]
  /\ now \in Nat
  /\ phase \in Phases
  /\ ingestLive \in SUBSET Contracts
  /\ announced \in SUBSET Contracts
  /\ lastEmit \in Nat \cup {Never}
  /\ sequence \in Nat
  /\ nextBeat \in Nat
  /\ sent \in [Contracts -> Mids \cup {0}]

\* The chain remembers nothing of what died: every observation is of a listed contract,
\* every baseline mid of an observed one, every forward of an expiry with listed
\* contracts.  Otherwise a relisted contract would move against a mid of its former life.
ChainForgetsTheDead ==
  /\ Observed \subseteq chainLive
  /\ {c \in Contracts : baseline[c] > 0} \subseteq Observed
  /\ forwards \subseteq {ExpiryOf[c] : c \in chainLive}

\* The two copies of the universe, the use case's and the chain's, and the one its
\* consumers hold agree however discoveries, polls and births mid-stream interleave.
OneUniverse == Running => ingestLive = chainLive /\ announced = chainLive

\* The figures of the chain satisfy the invariants of ChainStats at every instant, so no
\* build() ends the run: "True by construction in QuoteChain" (quote_chain.py).
StatsAlwaysConstructible == Constructible(mids, chainLive, forwards, now)

\* Stream and heartbeat share one cadence: two snapshots are never closer than it, and
\* their sequence numbers, from which their ids are made, are consecutive.
CadenceRespected ==
  [][ lastEmit' # lastEmit =>
        /\ lastEmit = Never \/ lastEmit' - lastEmit >= Cadence
        /\ sequence' = sequence + 1 ]_vars

\* While something can be published consumers wait less than a heartbeat and a cadence
\* for a snapshot: the poll "fires within one cadence of max_quiet_seconds" (pipeline.py).
BoundedSilence ==
  Heartbeating /\ Running /\ Published(mids, forwards, now) # {} =>
    lastEmit # Never /\ now - lastEmit < MaxQuiet + Cadence

\* No drift goes unseen: an update that finds the cadence over, and publishes nothing,
\* leaves no published contract materially away from the mid consumers hold, however
\* many small moves brought it there.
DriftIsSeen ==
  [][ \A c \in Contracts, mid \in Mids, hasForward \in BOOLEAN :
        Apply(c, mid, hasForward) /\ CadenceElapsed(lastEmit, now) /\ sequence' = sequence =>
          \A d \in Published(mids', forwards', now) :
            sent[d] > 0 => ~Material(sent[d], mids'[d]) ]_vars

\* Strengthenings that make the above inductive: what consumers hold of a contract is its
\* baseline mid, and the last heartbeat came too soon after the last emission to emit.
SentIsBaseline == \A c \in Contracts : sent[c] > 0 => baseline[c] = sent[c]

BeatOnTime ==
  /\ Heartbeating /\ Running => now <= nextBeat /\ nextBeat <= now + Cadence
  /\ Heartbeating /\ Running /\ Published(mids, forwards, now) # {} =>
       lastEmit # Never /\ nextBeat - lastEmit < MaxQuiet + Cadence
  /\ lastEmit = Never => sent = [c \in Contracts |-> 0]
  /\ lastEmit # Never => lastEmit <= now

IngestInv ==
  /\ TypeOK
  /\ ChainForgetsTheDead
  /\ OneUniverse
  /\ SentIsBaseline
  /\ BeatOnTime
================================================================================
