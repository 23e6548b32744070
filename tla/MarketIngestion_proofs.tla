------------------------ MODULE MarketIngestion_proofs ------------------------
(***************************************************************************)
(* Proofs about MarketIngestion for any contracts, mids, cadence, quiet    *)
(* bound and threshold: IngestInv is inductive, and the safety and action  *)
(* properties of the module follow from it.                                *)
(***************************************************************************)
EXTENDS MarketIngestion, FiniteSetTheorems, TLAPS

USE PolicyAssumption, ChainAssumption

LEMMA InitInv == Init => IngestInv
BY DEF Init, ChainInit, IngestInv, TypeOK, ChainForgetsTheDead, OneUniverse,
       SentIsBaseline, BeatOnTime, Observed, Expiries, Unseen, Never, Phases, Published,
       Heartbeating, Running

\* A chain that observes only what it lists has figures ChainStats accepts.
LEMMA StatsFit ==
  ASSUME NEW m \in [Contracts -> Mids \cup {Unseen}],
         NEW live \in SUBSET Contracts, NEW fwd, NEW t,
         {c \in Contracts : m[c] # Unseen} \subseteq live
  PROVE  Constructible(m, live, fwd, t)
<1> DEFINE seen == {c \in Contracts : m[c] # Unseen}
<1>1. IsFiniteSet(live)
  BY FS_Subset
<1>2. IsFiniteSet(seen) /\ Cardinality(seen) \in Nat /\ Cardinality(seen) <= Cardinality(live)
  BY <1>1, FS_Subset, FS_CardinalityType
<1>3. Published(m, fwd, t) \subseteq seen
  BY DEF Published, Unseen
<1>4. Cardinality(Published(m, fwd, t)) \in Nat
      /\ Cardinality(Published(m, fwd, t)) <= Cardinality(seen)
  BY <1>2, <1>3, FS_Subset, FS_CardinalityType
<1>5. Cardinality(live) \in Nat
  BY <1>1, FS_CardinalityType
<1> HIDE DEF seen
<1>6. QED
  BY <1>2, <1>4, <1>5 DEF Constructible, Covered, Known, Total, seen

\* Something is covered exactly when something is published.
LEMMA CoveredIsPublished ==
  ASSUME NEW m, NEW fwd, NEW t
  PROVE  Covered(m, fwd, t) > 0 <=> Published(m, fwd, t) # {}
<1>1. IsFiniteSet(Published(m, fwd, t))
  BY FS_Subset DEF Published
<1>2. QED
  BY <1>1, FS_CardinalityType, FS_EmptySet DEF Covered

\* What one build() leaves behind, on a chain that observes only what it lists.
LEMMA BuildEffect ==
  ASSUME TypeOK,
         NEW m \in [Contracts -> Mids \cup {Unseen}],
         NEW live \in SUBSET Contracts, NEW fwd,
         {c \in Contracts : m[c] # Unseen} \subseteq live,
         Build(m, live, fwd)
  PROVE  /\ phase' = phase
         /\ \/ /\ UNCHANGED <<baseline, lastEmit, sequence, sent>>
               /\ IsDue(Moved(m, baseline), lastEmit, now) => Published(m, fwd, now) = {}
            \/ /\ CadenceElapsed(lastEmit, now)
               /\ sequence' = sequence + 1
               /\ lastEmit' = now
               /\ baseline' = UsableMids(m)
               /\ sent' = [c \in Contracts |-> IF c \in Published(m, fwd, now) THEN m[c] ELSE 0]
<1>1. Constructible(m, live, fwd, now)
  BY StatsFit
<1>2. Covered(m, fwd, now) > 0 <=> Published(m, fwd, now) # {}
  BY CoveredIsPublished
<1>3. QED
  BY <1>1, <1>2 DEF Build, ShouldEmit, IsDue

\* Adopting an inventory keeps the invariant, whichever poll it answers.
LEMMA AdoptInv ==
  ASSUME IngestInv, NEW inventory \in SUBSET Contracts, NEW onward \in Phases,
         onward = "failed" <=> phase = "failed", Adopt(inventory, onward)
  PROVE  IngestInv'
<1> USE DEF IngestInv
<1>1. CASE inventory \cap Foreign # {}
  <2>1. /\ phase' = "failed" /\ ingestLive' = inventory
        /\ UNCHANGED <<chainVars, announced, sent, now, lastEmit, sequence, nextBeat>>
    BY <1>1 DEF Adopt
  <2>2. QED
    BY <2>1 DEF TypeOK, ChainForgetsTheDead, OneUniverse, SentIsBaseline, BeatOnTime, Running,
                chainVars, Observed, Published, Phases
<1>2. CASE inventory \cap Foreign = {}
  <2>1. /\ SetLive(inventory) /\ ingestLive' = inventory /\ announced' = inventory
        /\ sent' = [c \in Contracts |-> IF c \in inventory THEN sent[c] ELSE 0]
        /\ phase' = onward
        /\ UNCHANGED <<now, lastEmit, sequence, nextBeat>>
    BY <1>2 DEF Adopt
  <2>2. TypeOK'
    BY <2>1 DEF TypeOK, SetLive, Expiries
  <2>3. ChainForgetsTheDead'
    BY <2>1 DEF TypeOK, ChainForgetsTheDead, SetLive, Observed, Expiries, Unseen
  <2>4. OneUniverse'
    BY <2>1 DEF OneUniverse, SetLive
  <2>5. SentIsBaseline'
    <3> SUFFICES ASSUME NEW c \in Contracts, sent'[c] > 0
                 PROVE  baseline'[c] = sent'[c]
      BY DEF SentIsBaseline
    <3>1. c \in inventory /\ sent'[c] = sent[c]
      BY <2>1
    <3>2. QED
      BY <2>1, <3>1 DEF SentIsBaseline, SetLive, Observed
  <2>6. BeatOnTime'
    <3>1. Published(mids', forwards', now) \subseteq Published(mids, forwards, now)
      BY <2>1 DEF Published, SetLive, Unseen
    <3>2. lastEmit = Never => sent' = [c \in Contracts |-> 0]
      BY <2>1 DEF BeatOnTime
    <3>3. Running' <=> Running
      BY <2>1 DEF Running
    <3>4. QED
      BY <2>1, <3>1, <3>2, <3>3 DEF BeatOnTime, Heartbeating
  <2>7. QED
    BY <2>2, <2>3, <2>4, <2>5, <2>6
<1>3. QED
  BY <1>1, <1>2

\* An emission or a refusal keeps consumers' view, the baseline and the beat in step.
LEMMA BuildInv ==
  ASSUME IngestInv, Running,
         NEW m \in [Contracts -> Mids \cup {Unseen}],
         NEW live \in SUBSET Contracts, NEW fwd, NEW beat \in Nat,
         {c \in Contracts : m[c] # Unseen} \subseteq live,
         {c \in Contracts : mids[c] # Unseen} \subseteq {c \in Contracts : m[c] # Unseen},
         Heartbeating => now <= beat /\ beat <= now + Cadence,
         Build(m, live, fwd),
         mids' = m, forwards' = fwd, nextBeat' = beat, now' = now
  PROVE  /\ lastEmit' \in Nat \cup {Never}
         /\ sequence' \in Nat
         /\ baseline' \in [Contracts -> Mids \cup {0}]
         /\ sent' \in [Contracts -> Mids \cup {0}]
         /\ {c \in Contracts : baseline'[c] > 0} \subseteq {c \in Contracts : m[c] # Unseen}
         /\ SentIsBaseline'
         /\ BeatOnTime'
<1> USE DEF IngestInv
<1>1. /\ phase' = phase
      /\ \/ /\ UNCHANGED <<baseline, lastEmit, sequence, sent>>
            /\ IsDue(Moved(m, baseline), lastEmit, now) => Published(m, fwd, now) = {}
         \/ /\ CadenceElapsed(lastEmit, now)
            /\ sequence' = sequence + 1
            /\ lastEmit' = now
            /\ baseline' = UsableMids(m)
            /\ sent' = [c \in Contracts |-> IF c \in Published(m, fwd, now) THEN m[c] ELSE 0]
  BY BuildEffect
<1>2. CASE /\ UNCHANGED <<baseline, lastEmit, sequence, sent>>
           /\ IsDue(Moved(m, baseline), lastEmit, now) => Published(m, fwd, now) = {}
  <2>1. BeatOnTime'
    <3>1. ASSUME Heartbeating, Published(m, fwd, now) # {}
          PROVE  lastEmit # Never /\ beat - lastEmit < MaxQuiet + Cadence
      <4>1. ~IsDue(Moved(m, baseline), lastEmit, now)
        BY <1>2, <3>1
      <4>2. lastEmit # Never
        BY <4>1 DEF IsDue, CadenceElapsed
      <4>3. now - lastEmit < MaxQuiet
        BY <4>1, <4>2, <3>1 DEF IsDue, CadenceElapsed, Heartbeating, TypeOK, Never
      <4>4. QED
        BY <4>2, <4>3, <3>1 DEF TypeOK, Heartbeating, Never
    <3>2. QED
      BY <1>1, <1>2, <3>1 DEF BeatOnTime, Running
  <2>2. QED
    BY <1>2, <2>1 DEF TypeOK, ChainForgetsTheDead, Observed, SentIsBaseline
<1>3. CASE /\ sequence' = sequence + 1
           /\ lastEmit' = now
           /\ baseline' = UsableMids(m)
           /\ sent' = [c \in Contracts |-> IF c \in Published(m, fwd, now) THEN m[c] ELSE 0]
  <2>1. \A c \in Contracts : baseline'[c] = IF m[c] > 0 THEN m[c] ELSE 0
    BY <1>3 DEF UsableMids
  <2>2. /\ baseline' \in [Contracts -> Mids \cup {0}]
        /\ sent' \in [Contracts -> Mids \cup {0}]
    BY <1>3 DEF UsableMids, Published, Unseen
  <2>3. {c \in Contracts : baseline'[c] > 0} \subseteq {c \in Contracts : m[c] # Unseen}
    BY <2>1 DEF Unseen
  <2>4. SentIsBaseline'
    BY <1>3, <2>1 DEF SentIsBaseline, Published
  <2>5. BeatOnTime'
    BY <1>1, <1>3 DEF BeatOnTime, TypeOK, Heartbeating, Never
  <2>6. QED
    BY <1>3, <2>2, <2>3, <2>4, <2>5 DEF TypeOK
<1>4. QED
  BY <1>1, <1>2, <1>3

LEMMA ApplyInv ==
  ASSUME IngestInv, NEW c \in Contracts, NEW mid \in Mids, NEW hasForward \in BOOLEAN,
         Apply(c, mid, hasForward)
  PROVE  IngestInv'
<1> USE DEF IngestInv
<1>1. /\ mids' \in [Contracts -> Mids \cup {Unseen}]
      /\ chainLive' \in SUBSET Contracts
      /\ forwards' \in SUBSET Expiries
  BY DEF Apply, AnnouncedWith, ApplyQuote, TypeOK, Expiries
<1>2. {d \in Contracts : mids'[d] # Unseen} \subseteq chainLive'
  BY DEF Apply, AnnouncedWith, ApplyQuote, TypeOK, ChainForgetsTheDead, Observed
<1>3. {d \in Contracts : mids[d] # Unseen} \subseteq {d \in Contracts : mids'[d] # Unseen}
  BY DEF Apply, AnnouncedWith, ApplyQuote, TypeOK, Unseen
<1>4. Running /\ now' = now /\ nextBeat' = nextBeat
  BY DEF Apply, AnnouncedWith, Running
<1>5. Build(mids', chainLive', forwards')
  BY DEF Apply, AnnouncedWith
<1>6. phase' = phase
  BY <1>1, <1>2, <1>5, BuildEffect
<1>7. Heartbeating => now <= nextBeat /\ nextBeat <= now + Cadence
  BY <1>4 DEF BeatOnTime
<1>8. /\ lastEmit' \in Nat \cup {Never}
      /\ sequence' \in Nat
      /\ baseline' \in [Contracts -> Mids \cup {0}]
      /\ sent' \in [Contracts -> Mids \cup {0}]
      /\ {d \in Contracts : baseline'[d] > 0} \subseteq {d \in Contracts : mids'[d] # Unseen}
      /\ SentIsBaseline'
      /\ BeatOnTime'
  BY <1>1, <1>2, <1>3, <1>4, <1>5, <1>7, BuildInv DEF TypeOK
<1>9. TypeOK'
  BY <1>1, <1>4, <1>6, <1>8 DEF TypeOK, Apply, AnnouncedWith
<1>10. ChainForgetsTheDead'
  BY <1>2, <1>8 DEF ChainForgetsTheDead, Observed, Apply, AnnouncedWith, ApplyQuote
<1>11. OneUniverse'
  BY <1>4 DEF OneUniverse, Apply, AnnouncedWith, ApplyQuote
<1>12. QED
  BY <1>8, <1>9, <1>10, <1>11

LEMMA HeartbeatInv ==
  ASSUME IngestInv, Heartbeat
  PROVE  IngestInv'
<1> USE DEF IngestInv
<1>1. {d \in Contracts : mids[d] # Unseen} \subseteq chainLive
  BY DEF ChainForgetsTheDead, Observed
<1>2. Running /\ Build(mids, chainLive, forwards) /\ nextBeat' = now + Cadence
      /\ UNCHANGED <<mids, chainLive, forwards, now, ingestLive, announced>>
  BY DEF Heartbeat
<1>3. phase' = phase
  BY <1>1, <1>2, BuildEffect DEF TypeOK
<1>4. /\ lastEmit' \in Nat \cup {Never}
      /\ sequence' \in Nat
      /\ baseline' \in [Contracts -> Mids \cup {0}]
      /\ sent' \in [Contracts -> Mids \cup {0}]
      /\ {d \in Contracts : baseline'[d] > 0} \subseteq {d \in Contracts : mids[d] # Unseen}
      /\ SentIsBaseline'
      /\ BeatOnTime'
  <2>1. now + Cadence \in Nat /\ now <= now + Cadence
    BY DEF TypeOK
  <2>2. QED
    BY <1>1, <1>2, <2>1, BuildInv DEF TypeOK
<1>5. QED
  BY <1>2, <1>3, <1>4 DEF TypeOK, ChainForgetsTheDead, Observed, OneUniverse, Running

\* The steps that leave the chain, the policy's state and the clock alone.
LEMMA PhaseInv ==
  ASSUME IngestInv, ApplyForeign \/ ProviderFails \/ StreamEnds
  PROVE  IngestInv'
BY DEF IngestInv, ApplyForeign, ProviderFails, StreamEnds, TypeOK, ChainForgetsTheDead,
       OneUniverse, SentIsBaseline, BeatOnTime, Running, Phases, chainVars, Observed, Published

LEMMA TickInv ==
  ASSUME IngestInv, Tick
  PROVE  IngestInv'
<1> USE DEF IngestInv, Tick, chainVars
<1>1. TypeOK'
  BY DEF TypeOK
<1>2. ChainForgetsTheDead' /\ OneUniverse' /\ SentIsBaseline'
  BY DEF ChainForgetsTheDead, OneUniverse, SentIsBaseline, Observed, Running
<1>3. BeatOnTime'
  <2>1. Published(mids', forwards', now') \subseteq Published(mids, forwards, now)
    BY DEF Published, TypeOK
  <2>2. now' = now + 1 /\ (Heartbeating => now < nextBeat)
    OBVIOUS
  <2>3. QED
    BY <2>1, <2>2 DEF BeatOnTime, TypeOK, Running, Heartbeating
<1>4. QED
  BY <1>1, <1>2, <1>3

LEMMA NextInv == IngestInv /\ [Next]_vars => IngestInv'
<1> SUFFICES ASSUME IngestInv, [Next]_vars PROVE IngestInv'
  OBVIOUS
<1>1. ASSUME NEW inventory \in SUBSET Contracts, Discover(inventory)
      PROVE  IngestInv'
  BY <1>1, AdoptInv DEF Discover, Phases
<1>2. ASSUME NEW inventory \in SUBSET Contracts, Rediscover(inventory)
      PROVE  IngestInv'
  BY <1>2, AdoptInv DEF Rediscover, IngestInv, TypeOK
<1>3. ASSUME NEW c \in Contracts, NEW mid \in Mids, NEW hasForward \in BOOLEAN,
             Apply(c, mid, hasForward)
      PROVE  IngestInv'
  BY <1>3, ApplyInv
<1>4. CASE ApplyForeign \/ ProviderFails \/ StreamEnds
  BY <1>4, PhaseInv
<1>5. CASE Heartbeat
  BY <1>5, HeartbeatInv
<1>6. CASE Tick
  BY <1>6, TickInv
<1>7. CASE UNCHANGED vars
  BY <1>7 DEF vars, chainVars, IngestInv, TypeOK, ChainForgetsTheDead, OneUniverse,
             SentIsBaseline, BeatOnTime, Running, Observed, Published
<1>8. QED
  BY <1>1, <1>2, <1>3, <1>4, <1>5, <1>6, <1>7 DEF Next

\* The ingestion invariant holds in every state, for any market and policy.
THEOREM IngestInvariant == Spec => []IngestInv
<1>1. QED
  BY InitInv, NextInv, PTL DEF Spec

\* Type correctness.
THEOREM IngestTypes == Spec => []TypeOK
<1>1. IngestInv => TypeOK
  BY DEF IngestInv
<1>2. QED
  BY <1>1, IngestInvariant, PTL

\* A chain remembers nothing of a contract its venue has delisted.
THEOREM DeadAreForgotten == Spec => []ChainForgetsTheDead
<1>1. IngestInv => ChainForgetsTheDead
  BY DEF IngestInv
<1>2. QED
  BY <1>1, IngestInvariant, PTL

\* The use case, the chain and the consumers agree on the universe.
THEOREM UniversesAgree == Spec => []OneUniverse
<1>1. IngestInv => OneUniverse
  BY DEF IngestInv
<1>2. QED
  BY <1>1, IngestInvariant, PTL

\* No build() can fail on the figures of the chain.
THEOREM StatsNeverRefused == Spec => []StatsAlwaysConstructible
<1>1. IngestInv => StatsAlwaysConstructible
  BY StatsFit DEF IngestInv, TypeOK, ChainForgetsTheDead, Observed, StatsAlwaysConstructible
<1>2. QED
  BY <1>1, IngestInvariant, PTL

\* The silence of a market that can be published is bounded.
THEOREM SilenceIsBounded == Spec => []BoundedSilence
<1>1. IngestInv => BoundedSilence
  BY DEF IngestInv, TypeOK, BeatOnTime, BoundedSilence, Heartbeating, Never
<1>2. QED
  BY <1>1, IngestInvariant, PTL

\* An update that publishes nothing past the cadence leaves consumers within the threshold.
THEOREM NoSilentDrift == Spec => DriftIsSeen
<1>1. ASSUME IngestInv, NEW c \in Contracts, NEW mid \in Mids, NEW hasForward \in BOOLEAN,
             Apply(c, mid, hasForward), CadenceElapsed(lastEmit, now), sequence' = sequence,
             NEW d \in Published(mids', forwards', now), sent[d] > 0
      PROVE  ~Material(sent[d], mids'[d])
  <2>1. /\ mids' \in [Contracts -> Mids \cup {Unseen}]
        /\ chainLive' \in SUBSET Contracts
        /\ {e \in Contracts : mids'[e] # Unseen} \subseteq chainLive'
        /\ Build(mids', chainLive', forwards')
    BY <1>1 DEF Apply, AnnouncedWith, ApplyQuote, IngestInv, TypeOK, ChainForgetsTheDead, Observed
  <2>2. ~IsDue(Moved(mids', baseline), lastEmit, now)
    BY <1>1, <2>1, BuildEffect DEF IngestInv, TypeOK
  <2>3. ~Moved(mids', baseline)
    BY <1>1, <2>2 DEF IsDue
  <2>4. d \in Contracts /\ mids'[d] > 0 /\ baseline[d] = sent[d]
    BY <1>1 DEF Published, IngestInv, SentIsBaseline
  <2>5. QED
    BY <1>1, <2>3, <2>4 DEF Moved
<1>2. IngestInv /\ [Next]_vars =>
        [ \A c \in Contracts, mid \in Mids, hasForward \in BOOLEAN :
            Apply(c, mid, hasForward) /\ CadenceElapsed(lastEmit, now) /\ sequence' = sequence =>
              \A d \in Published(mids', forwards', now) :
                sent[d] > 0 => ~Material(sent[d], mids'[d]) ]_vars
  BY <1>1
<1>3. QED
  BY <1>2, IngestInvariant, PTL DEF Spec, DriftIsSeen
================================================================================
