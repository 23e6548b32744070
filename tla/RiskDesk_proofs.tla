---------------------------- MODULE RiskDesk_proofs ----------------------------
(***************************************************************************)
(* Proofs about the calibration cycle and the desk that reads it, for any  *)
(* expiries, tolerance, book, thresholds and clocks.  Of the producer:     *)
(* CycleInv is inductive, its memory is never torn, and a cycle is silent  *)
(* only before its tolerance has passed.  Of the desk: its cache only      *)
(* moves forward and a rejection outlives every republication.             *)
(***************************************************************************)
EXTENDS RiskDesk, TLAPS

USE CycleAssumption, DeskAssumption

--------------------------------------------------------------------------------
(* The producer: CalibrationCycle.                                         *)

LEMMA CycleInitInv == Init => CycleInv
BY DEF Init, CycleInv, CycleTypeOK, MemoryIsWhole, CyclesInOrder, NothingInvented,
       AheadByTolerance, NothingAhead, NoSnapshot, NoSurface, NoAnswer, Answers, Kinds, Unstamped

\* A reconciled instant is an instant, is no later than both clocks at once, and is after
\* ours by the tolerance at most.
LEMMA ReconcileBound ==
  ASSUME NEW exchange \in Nat, NEW local \in Nat
  PROVE  /\ Reconcile(exchange, local) \in Nat
         /\ exchange <= local => Reconcile(exchange, local) <= local
         /\ Reconcile(exchange, local) <= local + MaxSkew
BY DEF Reconcile

\* The shapes of records, and what tells the absent ones apart.
LEMMA SnapshotShape ==
  ASSUME NEW s \in Snapshot
  PROVE  /\ s # NoSnapshot /\ s.id \in Nat /\ s.id > 0 /\ s.ts \in Nat /\ s.local \in Nat
         /\ s.slices \in SUBSET Expiries
BY DEF Snapshot, NoSnapshot, Instants

LEMMA SnapshotMade ==
  ASSUME NEW local \in Nat, NEW ts \in Nat, NEW data \in Nat, NEW degraded \in BOOLEAN,
         NEW slices \in SUBSET Expiries, slices # {}
  PROVE  [id |-> local + 1, ts |-> ts, local |-> local,
          degraded |-> degraded, slices |-> slices, data |-> data] \in Snapshot
<1>1. local + 1 \in Nat \ {0}
  OBVIOUS
<1>2. QED
  BY <1>1 DEF Snapshot, Instants

LEMMA SurfaceShape ==
  ASSUME NEW s \in Surface
  PROVE  /\ s # NoSurface /\ s.src \in Nat /\ s.src > 0 /\ s.ts \in Nat
         /\ s.rows \in SUBSET Expiries /\ s.quoted \in SUBSET Expiries
         /\ s.rows # {}
BY DEF Surface, NoSurface, Instants

LEMMA RepublishKeeps ==
  ASSUME NEW s \in Surface
  PROVE  /\ Republished(s) \in Surface
         /\ Republished(s).src = s.src /\ Republished(s).ts = s.ts
         /\ Republished(s).rows = s.rows
BY DEF Republished, Surface, Statuses

LEMMA SurfaceOfSnapshot ==
  ASSUME NEW s \in Snapshot, NEW attempted \in SUBSET Expiries, NEW accepted,
         NEW rows \in SUBSET Expiries, rows # {}
  PROVE  /\ SurfaceOf(s, attempted, accepted, rows) \in Surface
         /\ SurfaceOf(s, attempted, accepted, rows).src = s.id
         /\ SurfaceOf(s, attempted, accepted, rows).ts = s.ts
         /\ SurfaceOf(s, attempted, accepted, rows).rows = rows
         /\ SurfaceOf(s, attempted, accepted, rows).quoted = attempted
BY DEF SurfaceOf, Status, Statuses, Snapshot, Surface

\* The numbers of a state, free of the records that hold them.
LEMMA Numbers ==
  ASSUME CycleTypeOK
  PROVE  /\ now \in Nat /\ lastId \in Nat /\ stamp \in Nat \cup {-1}
         /\ inbox.id \in Nat /\ task.id \in Nat /\ lastGood.src \in Nat /\ outbox.src \in Nat
         /\ inbox # NoSnapshot => inbox.ts \in Nat
         /\ task # NoSnapshot => task.ts \in Nat
         /\ \A e \in Expiries : warm[e] \in Nat
<1>1. inbox.id \in Nat /\ (inbox # NoSnapshot => inbox.ts \in Nat)
  BY SnapshotShape DEF CycleTypeOK, NoSnapshot
<1>2. task.id \in Nat /\ (task # NoSnapshot => task.ts \in Nat)
  BY SnapshotShape DEF CycleTypeOK, NoSnapshot
<1>3. lastGood.src \in Nat /\ outbox.src \in Nat
  BY SurfaceShape DEF CycleTypeOK, NoSurface
<1>4. QED
  BY <1>1, <1>2, <1>3 DEF CycleTypeOK, Unstamped

\* The memory after a cycle, published or not.
LEMMA RememberInv ==
  ASSUME CycleInv, task # NoSnapshot,
         NEW attempted \in SUBSET Expiries, NEW accepted \in SUBSET attempted,
         NEW rows \in SUBSET accepted, Remember(attempted, accepted, rows)
  PROVE  /\ warm' \in [Expiries -> Nat]
         /\ lastGood' \in Surface \cup {NoSurface}
         /\ MemoryIsWhole'
         /\ lastGood.src \in Nat /\ lastGood.src <= lastGood'.src
         /\ lastGood'.src \in Nat /\ lastGood'.src <= task.id
<1>1. task \in Snapshot /\ task.id > 0 /\ rows \in SUBSET Expiries
  BY SnapshotShape DEF CycleInv, CycleTypeOK
<1>2. /\ task.id \in Nat /\ lastGood.src \in Nat
      /\ \A e \in Expiries : warm[e] \in Nat
  BY Numbers DEF CycleInv
<1>3. lastGood.src < task.id
  BY DEF CycleInv, CyclesInOrder
<1>4. MemoryIsWhole
  BY DEF CycleInv
<1>5. CASE rows # {} /\ now >= task.ts
  <2> DEFINE surface == SurfaceOf(task, attempted, accepted, rows)
  <2>1. warm' = WarmAfter(task.id, attempted, accepted) /\ lastGood' = surface
    BY <1>5 DEF Remember
  <2>2. /\ surface \in Surface /\ surface # NoSurface
        /\ surface.src = task.id /\ surface.rows = rows /\ surface.quoted = attempted
    <3>1. /\ surface \in Surface
          /\ surface.src = task.id /\ surface.rows = rows /\ surface.quoted = attempted
      BY <1>1, <1>5, SurfaceOfSnapshot
    <3>2. surface # NoSurface
      BY <3>1, SurfaceShape
    <3>3. QED
      BY <3>1, <3>2
  <2> HIDE DEF surface
  <2>3. \A e \in Expiries : warm[e] <= task.id
    <3> SUFFICES ASSUME NEW e \in Expiries
                 PROVE  warm[e] <= task.id
      OBVIOUS
    <3>1. warm[e] <= lastGood.src
      BY <1>4 DEF MemoryIsWhole
    <3>2. warm[e] \in Nat /\ lastGood.src \in Nat /\ task.id \in Nat
      BY <1>2
    <3>3. QED
      BY <1>3, <3>1, <3>2
  <2>4. \A e \in Expiries :
          warm'[e] = IF e \in accepted THEN task.id ELSE IF e \in attempted THEN warm[e] ELSE 0
    BY <2>1 DEF WarmAfter
  <2>5. warm' \in [Expiries -> Nat]
    BY <1>2, <2>1 DEF WarmAfter
  <2>6. MemoryIsWhole'
    <3> SUFFICES ASSUME NEW e \in Expiries
                 PROVE  /\ warm'[e] <= task.id
                        /\ e \in rows => warm'[e] = task.id
                        /\ e \notin attempted => warm'[e] = 0
      BY <2>1, <2>2 DEF MemoryIsWhole
    <3>1. QED
      BY <1>2, <2>3, <2>4
  <2>7. QED
    BY <1>2, <1>3, <2>1, <2>2, <2>5, <2>6
<1>6. CASE ~(rows # {} /\ now >= task.ts)
  <2>1. UNCHANGED <<warm, lastGood>>
    BY <1>6 DEF Remember
  <2>2. warm' \in [Expiries -> Nat] /\ lastGood' \in Surface \cup {NoSurface}
    BY <2>1 DEF CycleInv, CycleTypeOK
  <2>3. MemoryIsWhole'
    BY <1>4, <2>1 DEF MemoryIsWhole
  <2>4. QED
    BY <1>2, <1>3, <2>1, <2>2, <2>3
<1>7. QED
  BY <1>5, <1>6

\* What a published cycle says keeps Risk's mailbox behind the memory.
LEMMA SayInv ==
  ASSUME CycleInv, task # NoSnapshot,
         NEW attempted \in SUBSET Expiries, NEW accepted \in SUBSET attempted,
         NEW rows \in SUBSET accepted,
         Remember(attempted, accepted, rows), Say(attempted, accepted, rows)
  PROVE  /\ answer' \in Answers
         /\ outbox' \in Surface \cup {NoSurface}
         /\ outbox'.src <= lastGood'.src
<1>1. task \in Snapshot /\ rows \in SUBSET Expiries
  BY DEF CycleInv, CycleTypeOK
<1>2. lastGood.src \in Nat /\ lastGood'.src \in Nat /\ lastGood.src <= lastGood'.src
  BY RememberInv
<1>3. /\ outbox.src \in Nat /\ task.id \in Nat /\ now \in Nat /\ task.ts \in Nat
      /\ outbox.src <= lastGood.src
  BY Numbers DEF CycleInv, CyclesInOrder
<1>4. answer' \in Answers
  <2>1. \E said \in SUBSET Kinds : answer' = [id |-> task.id, said |-> said]
    BY DEF Say, RefusalSays, Kinds
  <2>2. QED
    BY <1>3, <2>1 DEF Answers
<1>5. outbox' \in Surface \cup {NoSurface} /\ outbox'.src <= lastGood'.src
  <2>1. CASE rows = {} /\ lastGood # NoSurface
    <3>1. outbox' = Republished(lastGood) /\ lastGood \in Surface
      BY <2>1 DEF Say, RefusalSays, CycleInv, CycleTypeOK
    <3>2. outbox'.src = lastGood.src /\ outbox' \in Surface
      BY <3>1, RepublishKeeps
    <3>3. QED
      BY <1>2, <3>2
  <2>2. CASE rows # {} /\ ~(now < task.ts)
    <3>1. now >= task.ts
      BY <1>3, <2>2
    <3>2. outbox' = SurfaceOf(task, attempted, accepted, rows)
      BY <2>2 DEF Say, RefusalSays
    <3>3. lastGood' = SurfaceOf(task, attempted, accepted, rows)
      BY <2>2, <3>1 DEF Remember
    <3>4. outbox' \in Surface
      BY <1>1, <2>2, <3>2, SurfaceOfSnapshot
    <3>5. outbox'.src = lastGood'.src
      BY <3>2, <3>3
    <3>6. QED
      BY <1>2, <3>4, <3>5
  <2>3. CASE (rows = {} /\ lastGood = NoSurface) \/ (rows # {} /\ now < task.ts)
    <3>1. outbox' = outbox
      BY <2>3 DEF Say, RefusalSays
    <3>2. outbox' \in Surface \cup {NoSurface}
      BY <3>1 DEF CycleInv, CycleTypeOK
    <3>3. QED
      BY <1>2, <1>3, <3>1, <3>2
  <2>4. QED
    BY <2>1, <2>2, <2>3
<1>6. QED
  BY <1>4, <1>5

LEMMA FinishInv ==
  ASSUME CycleInv,
         NEW attempted \in SUBSET Expiries, NEW accepted \in SUBSET Expiries,
         NEW rows \in SUBSET Expiries,
         FinishFit(attempted, accepted, rows) \/ FinishUnheard(attempted, accepted, rows)
  PROVE  CycleInv'
<1>1. /\ task # NoSnapshot /\ accepted \in SUBSET attempted /\ rows \in SUBSET accepted
      /\ Remember(attempted, accepted, rows)
      /\ task' = NoSnapshot
      /\ UNCHANGED <<now, stamp, lastId, inbox>>
  BY DEF FinishFit, FinishUnheard
<1>2. /\ warm' \in [Expiries -> Nat]
      /\ lastGood' \in Surface \cup {NoSurface}
      /\ MemoryIsWhole'
      /\ lastGood.src \in Nat /\ lastGood.src <= lastGood'.src
      /\ lastGood'.src \in Nat /\ lastGood'.src <= task.id
  BY <1>1, RememberInv
<1>3. /\ answer' \in Answers
      /\ outbox' \in Surface \cup {NoSurface}
      /\ outbox'.src <= lastGood'.src
  <2>1. CASE FinishFit(attempted, accepted, rows)
    BY <1>1, <2>1, SayInv DEF FinishFit
  <2>2. CASE FinishUnheard(attempted, accepted, rows)
    <3>1. outbox.src \in Nat /\ outbox.src <= lastGood.src
      BY SurfaceShape DEF CycleInv, CycleTypeOK, CyclesInOrder, NoSurface
    <3>2. QED
      BY <1>2, <2>2, <3>1 DEF FinishUnheard, CycleInv, CycleTypeOK
  <2>3. QED
    BY <2>1, <2>2
<1>4. task.id \in Nat /\ task.id <= lastId /\ lastId \in Nat
      /\ (inbox # NoSnapshot => task.id < inbox.id)
      /\ (inbox # NoSnapshot => inbox.id \in Nat)
  BY <1>1, SnapshotShape DEF CycleInv, CycleTypeOK, CyclesInOrder, NothingInvented
<1>5. CycleTypeOK'
  BY <1>1, <1>2, <1>3 DEF CycleInv, CycleTypeOK
<1>6. CyclesInOrder'
  BY <1>1, <1>3 DEF CyclesInOrder
<1>7. NothingInvented'
  BY <1>1, <1>2, <1>4 DEF CycleInv, NothingInvented, NoSnapshot
<1>8. AheadByTolerance' /\ NothingAhead'
  BY <1>1 DEF CycleInv, AheadByTolerance, NothingAhead
<1>9. QED
  BY <1>2, <1>5, <1>6, <1>7, <1>8 DEF CycleInv

LEMMA PublishInv ==
  ASSUME CycleInv, NEW degraded \in BOOLEAN, NEW slices \in SUBSET Expiries,
         PublishSnapshot(degraded, slices)
  PROVE  CycleInv'
<1> USE DEF CycleInv
<1>1. stamp \in Nat /\ now \in Nat /\ lastId \in Nat /\ lastId <= now
  BY Numbers DEF PublishSnapshot, Unstamped
<1>2. /\ Reconcile(stamp, now) \in Nat
      /\ stamp <= now => Reconcile(stamp, now) <= now
      /\ Reconcile(stamp, now) <= now + MaxSkew
  BY <1>1, ReconcileBound
<1>3. /\ inbox' \in Snapshot /\ inbox'.id = now + 1 /\ inbox'.ts = Reconcile(stamp, now)
      /\ inbox'.local = now
  <2>1. /\ inbox' = [id |-> now + 1, ts |-> Reconcile(stamp, now), local |-> now,
                     degraded |-> degraded, slices |-> slices, data |-> stamp]
        /\ slices # {}
    BY DEF PublishSnapshot
  <2> DEFINE ts == Reconcile(stamp, now)
  <2>2. ts \in Nat
    BY <1>2
  <2> HIDE DEF ts
  <2>3. [id |-> now + 1, ts |-> ts, local |-> now,
         degraded |-> degraded, slices |-> slices, data |-> stamp] \in Snapshot
    BY <1>1, <2>1, <2>2, SnapshotMade
  <2>4. QED
    BY <2>1, <2>3 DEF ts
<1>4. CycleTypeOK'
  BY <1>1, <1>3 DEF PublishSnapshot, CycleTypeOK
<1>5. MemoryIsWhole'
  BY DEF PublishSnapshot, MemoryIsWhole
<1>6. task.id \in Nat /\ task.id <= lastId /\ lastGood.src \in Nat /\ lastGood.src <= lastId
  BY SnapshotShape, SurfaceShape DEF CycleTypeOK, NothingInvented, NoSnapshot, NoSurface
<1>7. CyclesInOrder'
  BY <1>1, <1>3, <1>6 DEF PublishSnapshot, CyclesInOrder
<1>8. NothingInvented'
  BY <1>1, <1>3, <1>6 DEF PublishSnapshot, NothingInvented
<1>9. AheadByTolerance' /\ NothingAhead'
  BY <1>1, <1>2, <1>3 DEF PublishSnapshot, AheadByTolerance, NothingAhead
<1>10. QED
  BY <1>4, <1>5, <1>7, <1>8, <1>9

LEMMA StartInv ==
  ASSUME CycleInv, StartFit
  PROVE  CycleInv'
<1> USE DEF CycleInv, StartFit
<1>1. inbox \in Snapshot /\ inbox.id \in Nat
  BY SnapshotShape DEF CycleTypeOK
<1>2. CycleTypeOK' /\ MemoryIsWhole'
  BY <1>1 DEF CycleTypeOK, MemoryIsWhole
<1>3. CyclesInOrder' /\ NothingInvented' /\ AheadByTolerance' /\ NothingAhead'
  BY <1>1 DEF CycleTypeOK, CyclesInOrder, NothingInvented, AheadByTolerance, NothingAhead,
              NoSnapshot
<1>4. QED
  BY <1>2, <1>3

LEMMA ClockOnly ==
  ASSUME NEW id \in Nat, NEW before \in Nat, NEW after \in Nat,
         id <= before + 1, before <= after
  PROVE  id <= after + 1
OBVIOUS

LEMMA ClockInv ==
  ASSUME CycleInv, Tick \/ \E s \in 0..(MaxTime + MaxAhead) : Quote(s)
  PROVE  CycleInv'
<1> USE DEF CycleInv
<1>1. /\ now' \in Nat /\ now <= now' /\ stamp' \in Nat \cup {Unstamped}
      /\ MaxAhead = 0 => stamp' <= now'
      /\ UNCHANGED <<lastId, inbox, task, warm, lastGood, answer, outbox>>
  BY DEF Tick, Quote, CycleTypeOK, NothingAhead, Unstamped
<1>2. CycleTypeOK' /\ MemoryIsWhole' /\ CyclesInOrder'
  BY <1>1 DEF CycleTypeOK, MemoryIsWhole, CyclesInOrder
<1>3. NothingInvented'
  <2>1. lastId' <= now' + 1
    BY <1>1, Numbers, ClockOnly DEF NothingInvented
  <2>2. QED
    BY <1>1, <2>1 DEF NothingInvented
<1>4. AheadByTolerance' /\ NothingAhead'
  <2>1. /\ inbox # NoSnapshot => inbox.ts \in Nat /\ inbox.local \in Nat
        /\ task # NoSnapshot => task.ts \in Nat /\ task.local \in Nat
    BY SnapshotShape DEF CycleTypeOK
  <2>2. AheadByTolerance'
    BY <1>1, <2>1 DEF CycleTypeOK, AheadByTolerance
  <2>3. NothingAhead'
    BY <1>1, <2>1 DEF CycleTypeOK, NothingAhead
  <2>4. QED
    BY <2>2, <2>3
<1>5. QED
  BY <1>2, <1>3, <1>4

LEMMA CycleNextInv == CycleInv /\ [CycleNext]_cycleVars => CycleInv'
<1> SUFFICES ASSUME CycleInv, [CycleNext]_cycleVars PROVE CycleInv'
  OBVIOUS
<1>1. CASE Tick \/ \E s \in 0..(MaxTime + MaxAhead) : Quote(s)
  BY <1>1, ClockInv
<1>2. ASSUME NEW degraded \in BOOLEAN, NEW slices \in SUBSET Expiries,
             PublishSnapshot(degraded, slices)
      PROVE  CycleInv'
  BY <1>2, PublishInv
<1>3. CASE StartFit
  BY <1>3, StartInv
<1>4. ASSUME NEW attempted \in SUBSET Expiries, NEW accepted \in SUBSET Expiries,
             NEW rows \in SUBSET Expiries,
             FinishFit(attempted, accepted, rows) \/ FinishUnheard(attempted, accepted, rows)
      PROVE  CycleInv'
  BY <1>4, FinishInv
<1>5. CASE UNCHANGED cycleVars
  BY <1>5 DEF cycleVars, CycleInv, CycleTypeOK, MemoryIsWhole, CyclesInOrder, NothingInvented,
              AheadByTolerance, NothingAhead
<1>6. QED
  BY <1>1, <1>2, <1>3, <1>4, <1>5 DEF CycleNext, Finish

\* The memory of a producer and the order of its cycles hold in every state.
THEOREM CycleInvariant == CycleSpec => []CycleInv
<1>1. QED
  BY CycleInitInv, CycleNextInv, PTL DEF CycleSpec

\* Type correctness.
THEOREM CycleTypes == CycleSpec => []CycleTypeOK
<1>1. CycleInv => CycleTypeOK
  BY DEF CycleInv
<1>2. QED
  BY <1>1, CycleInvariant, PTL

\* Warm starts and last good surface always belong to the same fits.
THEOREM MemoryNeverTorn == CycleSpec => []MemoryIsWhole
<1>1. CycleInv => MemoryIsWhole
  BY DEF CycleInv
<1>2. QED
  BY <1>1, CycleInvariant, PTL

\* Cycles stay in order from mailbox to mailbox.
THEOREM OrderKept == CycleSpec => []CyclesInOrder
<1>1. CycleInv => CyclesInOrder
  BY DEF CycleInv
<1>2. QED
  BY <1>1, CycleInvariant, PTL

\* What a cycle that says nothing was, and what it leaves behind.
LEMMA SilentCycle ==
  ASSUME CycleInv, NEW attempted \in SUBSET Expiries, NEW accepted \in SUBSET Expiries,
         NEW rows \in SUBSET Expiries, FinishFit(attempted, accepted, rows), answer'.said = {}
  PROVE  now < task.local + MaxSkew /\ UNCHANGED <<warm, lastGood, outbox>>
<1>1. /\ task # NoSnapshot
      /\ Say(attempted, accepted, rows) /\ Remember(attempted, accepted, rows)
  BY DEF FinishFit
<1>2. rows # {} /\ now < task.ts /\ UNCHANGED outbox
  BY <1>1 DEF Say, RefusalSays, Kinds
<1>3. /\ task \in Snapshot /\ task.ts \in Nat /\ task.local \in Nat /\ now \in Nat
      /\ task.ts <= task.local + MaxSkew
  BY <1>1, SnapshotShape DEF CycleInv, CycleTypeOK, AheadByTolerance
<1>4. now < task.local + MaxSkew /\ ~(now >= task.ts)
  BY <1>2, <1>3
<1>5. UNCHANGED <<warm, lastGood>>
  BY <1>1, <1>4 DEF Remember
<1>6. QED
  BY <1>2, <1>4, <1>5

\* However far the venue's clock runs ahead, the only cycles it silences are those whose fit
\* ends less than max_skew after their snapshot was taken, and they change nothing.
THEOREM OnlyFastFitsAreSilenced == CycleSpec => SilenceIsBounded
<1>1. CycleInv /\ [CycleNext]_cycleVars =>
        [ answer' # answer /\ answer'.said = {} =>
            /\ now < task.local + MaxSkew
            /\ UNCHANGED <<warm, lastGood, outbox>> ]_cycleVars
  <2> SUFFICES ASSUME CycleInv, CycleNext, answer' # answer, answer'.said = {}
               PROVE  now < task.local + MaxSkew /\ UNCHANGED <<warm, lastGood, outbox>>
    BY DEF cycleVars
  <2>1. PICK attempted, accepted, rows \in SUBSET Expiries : FinishFit(attempted, accepted, rows)
    BY DEF CycleNext, Finish, Tick, Quote, PublishSnapshot, StartFit, FinishUnheard
  <2>2. QED
    BY <2>1, SilentCycle
<1>2. QED
  BY <1>1, CycleInvariant, PTL DEF CycleSpec, SilenceIsBounded

LEMMA ContractInit == Init => Contract!Init
BY DEF Init, Contract!Init, NoSnapshot, NoSurface

\* A heard cycle answers, refuses, or raises when the venue may be ahead; an unheard one is
\* abandoned.
LEMMA ContractFinish ==
  ASSUME CycleInv,
         NEW attempted \in SUBSET Expiries, NEW accepted \in SUBSET Expiries,
         NEW rows \in SUBSET Expiries, FinishFit(attempted, accepted, rows)
  PROVE  Contract!Answer \/ Contract!Refuse \/ Contract!Raise
<1> USE DEF CycleInv
<1>1. /\ task # NoSnapshot /\ task' = NoSnapshot /\ UNCHANGED inbox
      /\ Remember(attempted, accepted, rows) /\ Say(attempted, accepted, rows)
  BY DEF FinishFit
<1>2. /\ task \in Snapshot /\ task.id > 0 /\ task.id \in Nat /\ task.ts \in Nat /\ task'.id = 0
      /\ now \in Nat
  BY <1>1, SnapshotShape DEF CycleTypeOK, NoSnapshot
<1>3. CASE rows # {} /\ now >= task.ts
  <2>1. ~(now < task.ts)
    BY <1>2, <1>3
  <2>2. /\ lastGood' = SurfaceOf(task, attempted, accepted, rows)
        /\ outbox' = SurfaceOf(task, attempted, accepted, rows)
    BY <1>1, <1>3, <2>1 DEF Remember, Say
  <2>3. /\ SurfaceOf(task, attempted, accepted, rows).src = task.id
        /\ SurfaceOf(task, attempted, accepted, rows).status # "STALE_REPUBLISH"
    BY DEF SurfaceOf, Status
  <2>4. QED
    BY <1>1, <1>2, <2>2, <2>3 DEF Contract!Answer
<1>4. CASE rows = {}
  <2>1. /\ lastGood' = lastGood
        /\ outbox' = IF lastGood = NoSurface THEN outbox ELSE Republished(lastGood)
    BY <1>1, <1>4 DEF Remember, Say
  <2>2. CASE lastGood = NoSurface
    BY <1>1, <1>2, <2>1, <2>2 DEF Contract!Refuse, NoSurface
  <2>3. CASE lastGood # NoSurface
    <3>1. lastGood \in Surface /\ lastGood.src # 0
      BY <2>3, SurfaceShape DEF CycleTypeOK
    <3>2. outbox' # NoSurface /\ outbox'.src = lastGood.src
      BY <2>1, <2>3, <3>1, RepublishKeeps, SurfaceShape
    <3>3. outbox'.status = "STALE_REPUBLISH"
      BY <2>1, <2>3, <3>1 DEF Republished, Surface
    <3>4. QED
      BY <1>1, <1>2, <2>1, <3>1, <3>2, <3>3 DEF Contract!Refuse
  <2>4. QED
    BY <2>2, <2>3
<1>5. CASE rows # {} /\ ~(now >= task.ts)
  <2>1. now < task.ts /\ ~(task.ts <= now)
    BY <1>2, <1>5
  <2>2. MaxAhead # 0
    BY <1>1, <2>1 DEF NothingAhead
  <2>3. lastGood' = lastGood /\ outbox' = outbox
    BY <1>1, <1>5, <2>1 DEF Remember, Say
  <2>4. QED
    BY <1>1, <1>2, <2>2, <2>3 DEF Contract!Raise
<1>6. QED
  BY <1>3, <1>4, <1>5

LEMMA ContractUnheard ==
  ASSUME CycleInv,
         NEW attempted \in SUBSET Expiries, NEW accepted \in SUBSET Expiries,
         NEW rows \in SUBSET Expiries, FinishUnheard(attempted, accepted, rows)
  PROVE  Contract!Abandon
<1> USE DEF CycleInv
<1>1. /\ MayCancel /\ task # NoSnapshot /\ task' = NoSnapshot /\ UNCHANGED <<inbox, outbox>>
      /\ Remember(attempted, accepted, rows)
  BY DEF FinishUnheard
<1>2. task.id # 0 /\ task'.id = 0
  BY <1>1, SnapshotShape DEF CycleTypeOK, NoSnapshot
<1>3. lastGood'.src \in {lastGood.src, task.id}
  BY <1>1 DEF Remember, SurfaceOf
<1>4. QED
  BY <1>1, <1>2, <1>3 DEF Contract!Abandon

LEMMA ContractNext ==
  ASSUME CycleInv, [CycleNext]_cycleVars
  PROVE  [Contract!Next]_Contract!vars
<1> USE DEF Contract!Next
<1>1. CASE UNCHANGED <<inbox, task, lastGood, outbox>>
  BY <1>1 DEF Contract!vars
<1>2. ASSUME NEW degraded \in BOOLEAN, NEW slices \in SUBSET Expiries,
             PublishSnapshot(degraded, slices)
      PROVE  Contract!Offer
  <2>1. /\ inbox'.id = now + 1 /\ lastId <= now /\ UNCHANGED <<task, lastGood, outbox>>
    BY <1>2 DEF PublishSnapshot
  <2>2. /\ now \in Nat /\ lastId \in Nat
        /\ inbox.id \in Nat /\ task.id \in Nat /\ lastGood.src \in Nat
    BY Numbers DEF CycleInv
  <2>3. inbox.id <= lastId /\ task.id <= lastId /\ lastGood.src <= lastId
    BY DEF CycleInv, NothingInvented
  <2>4. QED
    BY <2>1, <2>2, <2>3 DEF Contract!Offer
<1>3. CASE StartFit
  <2>1. inbox.id # 0 /\ inbox'.id = 0 /\ task.id = 0
    BY <1>3, SnapshotShape DEF StartFit, CycleInv, CycleTypeOK, NoSnapshot
  <2>2. Contract!Begin
    BY <1>3, <2>1 DEF StartFit, Contract!Begin
  <2>3. QED
    BY <2>2
<1>4. CASE Finish
  BY <1>4, ContractFinish DEF Finish
<1>5. CASE \E attempted, accepted, rows \in SUBSET Expiries :
             FinishUnheard(attempted, accepted, rows)
  BY <1>5, ContractUnheard
<1>6. CASE Tick \/ \E s \in 0..(MaxTime + MaxAhead) : Quote(s)
  BY <1>1, <1>6 DEF Tick, Quote
<1>7. CASE UNCHANGED cycleVars
  BY <1>1, <1>7 DEF cycleVars
<1>8. QED
  BY <1>2, <1>3, <1>4, <1>5, <1>6, <1>7 DEF CycleNext

\* The parametric producer keeps the contract of a producer, whatever is fitted, refused or
\* interrupted, as the neural one does (Training_proofs); with a venue never ahead of our
\* clock, it keeps it without ever raising.
THEOREM CalibrationKeepsContract == CycleSpec => KeepsContract
<1>1. CycleInv /\ [CycleNext]_cycleVars => [Contract!Next]_Contract!vars
  BY ContractNext
<1>2. QED
  BY <1>1, ContractInit, CycleInvariant, PTL DEF CycleSpec, KeepsContract, Contract!Spec

--------------------------------------------------------------------------------
(* The desk: RiskDesk, which adds its own steps to the producer's.          *)

LEMMA DeskInitInv == DeskInit => DeskInv
<1> SUFFICES ASSUME DeskInit PROVE DeskInv
  OBVIOUS
<1>1. CycleInv
  BY CycleInitInv DEF DeskInit
<1>2. TypeOK /\ SurfacesAgree /\ RejectedForGood
  BY <1>1 DEF DeskInit, Init, CycleInv, TypeOK, SurfacesAgree, RejectedForGood, SameInstant,
              Report, NoReport, NoSurface, Decisions
<1>3. QED
  BY <1>1, <1>2 DEF DeskInv

\* The numbers of the desk, free of the records that hold them.
LEMMA DeskNumbers ==
  ASSUME TypeOK
  PROVE  /\ now \in Nat /\ task.id \in Nat
         /\ cache.src \in Nat /\ lastGood.src \in Nat /\ outbox.src \in Nat
         /\ report.src \in Nat
         /\ cache # NoSurface => cache.ts \in Nat
         /\ outbox # NoSurface => outbox.ts \in Nat
         /\ lastGood # NoSurface => lastGood.ts \in Nat
<1>1. cache.src \in Nat /\ (cache # NoSurface => cache.ts \in Nat)
  BY SurfaceShape DEF TypeOK, NoSurface
<1>2. lastGood.src \in Nat /\ (lastGood # NoSurface => lastGood.ts \in Nat)
  BY SurfaceShape DEF TypeOK, CycleTypeOK, NoSurface
<1>3. outbox.src \in Nat /\ (outbox # NoSurface => outbox.ts \in Nat)
  BY SurfaceShape DEF TypeOK, CycleTypeOK, NoSurface
<1>4. report.src \in Nat
  BY DEF TypeOK, Report
<1>5. now \in Nat /\ task.id \in Nat
  BY Numbers DEF TypeOK
<1>6. QED
  BY <1>1, <1>2, <1>3, <1>4, <1>5

\* What a step of the producer may do to the two surfaces the desk compares: leave them,
\* offer the last good one again, or put the fit of a newer snapshot in both.
LEMMA CycleMoves ==
  ASSUME CycleInv, [CycleNext]_cycleVars
  PROVE  /\ now \in Nat /\ now' \in Nat /\ now <= now'
         /\ \/ UNCHANGED <<lastGood, outbox>>
            \/ /\ lastGood # NoSurface /\ UNCHANGED lastGood
               /\ outbox' # NoSurface
               /\ outbox'.src = lastGood.src /\ outbox'.ts = lastGood.ts
            \/ /\ lastGood' # NoSurface
               /\ lastGood'.src = task.id /\ lastGood.src < task.id
               /\ UNCHANGED outbox \/ outbox' = lastGood'
<1>1. now \in Nat /\ now' \in Nat /\ now <= now'
  <2>1. now \in Nat
    BY Numbers DEF CycleInv
  <2>2. now' = now \/ now' = now + 1
    BY DEF CycleNext, cycleVars, Tick, Quote, PublishSnapshot, StartFit, Finish, FinishFit,
           FinishUnheard
  <2>3. QED
    BY <2>1, <2>2
<1>2. ASSUME NEW attempted \in SUBSET Expiries, NEW accepted \in SUBSET Expiries,
             NEW rows \in SUBSET Expiries,
             \/ FinishFit(attempted, accepted, rows)
             \/ FinishUnheard(attempted, accepted, rows)
      PROVE  \/ UNCHANGED <<lastGood, outbox>>
             \/ /\ lastGood # NoSurface /\ UNCHANGED lastGood
                /\ outbox' # NoSurface
                /\ outbox'.src = lastGood.src /\ outbox'.ts = lastGood.ts
             \/ /\ lastGood' # NoSurface
                /\ lastGood'.src = task.id /\ lastGood.src < task.id
                /\ UNCHANGED outbox \/ outbox' = lastGood'
  <2>1. /\ task \in Snapshot /\ lastGood.src < task.id
        /\ lastGood \in Surface \cup {NoSurface}
        /\ Remember(attempted, accepted, rows)
        /\ UNCHANGED outbox \/ Say(attempted, accepted, rows)
    BY <1>2 DEF FinishFit, FinishUnheard, CycleInv, CycleTypeOK, CyclesInOrder
  <2>2. CASE rows # {} /\ now >= task.ts
    <3> DEFINE surface == SurfaceOf(task, attempted, accepted, rows)
    <3>1. surface \in Surface /\ surface.src = task.id
      BY <2>1, <2>2, SurfaceOfSnapshot
    <3>2. surface # NoSurface
      BY <3>1, SurfaceShape
    <3>3. lastGood' = surface
      BY <2>1, <2>2 DEF Remember
    <3>4. ~(now < task.ts)
      BY <1>1, <2>1, <2>2, SnapshotShape
    <3>5. UNCHANGED outbox \/ outbox' = surface
      BY <2>1, <2>2, <3>4 DEF Say
    <3>6. QED
      BY <2>1, <3>1, <3>2, <3>3, <3>5
  <2>3. CASE rows # {} /\ ~(now >= task.ts)
    <3>1. now < task.ts
      BY <1>1, <2>1, <2>3, SnapshotShape
    <3>2. UNCHANGED lastGood /\ UNCHANGED outbox
      BY <2>1, <2>3, <3>1 DEF Remember, Say
    <3>3. QED
      BY <3>2
  <2>4. CASE rows = {} /\ lastGood # NoSurface
    <3>1. lastGood \in Surface /\ UNCHANGED lastGood
      BY <2>1, <2>4 DEF Remember
    <3>2. UNCHANGED outbox \/ outbox' = Republished(lastGood)
      BY <2>1, <2>4 DEF Say
    <3>3. Republished(lastGood) \in Surface
          /\ Republished(lastGood).src = lastGood.src /\ Republished(lastGood).ts = lastGood.ts
      BY <3>1, RepublishKeeps
    <3>4. Republished(lastGood) # NoSurface
      BY <3>3, SurfaceShape
    <3>5. QED
      BY <2>4, <3>1, <3>2, <3>3, <3>4
  <2>5. CASE rows = {} /\ lastGood = NoSurface
    <3>1. UNCHANGED lastGood /\ UNCHANGED outbox
      BY <2>1, <2>5 DEF Remember, Say
    <3>2. QED
      BY <3>1
  <2>6. QED
    BY <2>2, <2>3, <2>4, <2>5
<1>3. CASE \/ Tick \/ \E s \in 0..(MaxTime + MaxAhead) : Quote(s)
           \/ \E degraded \in BOOLEAN, slices \in SUBSET Expiries :
                PublishSnapshot(degraded, slices)
           \/ StartFit \/ UNCHANGED cycleVars
  <2>1. UNCHANGED <<lastGood, outbox>>
    BY <1>3 DEF Tick, Quote, PublishSnapshot, StartFit, cycleVars
  <2>2. QED
    BY <1>1, <2>1
<1>4. CASE \/ Finish
           \/ \E attempted, accepted, rows \in SUBSET Expiries :
                FinishUnheard(attempted, accepted, rows)
  BY <1>1, <1>2, <1>4 DEF Finish
<1>5. QED
  BY <1>3, <1>4 DEF CycleNext

\* A step of the producer leaves the desk alone, and what it offers is no older than what
\* the desk holds.
LEMMA CycleKeepsDesk ==
  ASSUME DeskInv, [CycleNext]_cycleVars, UNCHANGED deskVars
  PROVE  DeskInv'
<1>1. CycleInv'
  BY CycleNextInv DEF DeskInv
<1>2. TypeOK'
  BY <1>1 DEF DeskInv, TypeOK, CycleInv, deskVars
<1>3. /\ now \in Nat /\ now' \in Nat /\ now <= now' /\ task.id \in Nat
      /\ cache.src \in Nat /\ lastGood.src \in Nat /\ outbox.src \in Nat
      /\ cache # NoSurface => cache.ts \in Nat
  BY DeskNumbers, CycleMoves DEF DeskInv
<1>4. SurfacesAgree /\ UNCHANGED cache
  BY DEF DeskInv, deskVars
<1>5. SurfacesAgree'
  <2>1. CASE UNCHANGED <<lastGood, outbox>>
    BY <1>4, <2>1 DEF SurfacesAgree, SameInstant
  <2>2. CASE /\ lastGood # NoSurface /\ UNCHANGED lastGood
             /\ outbox' # NoSurface
             /\ outbox'.src = lastGood.src /\ outbox'.ts = lastGood.ts
    BY <1>3, <1>4, <2>2 DEF SurfacesAgree, SameInstant
  <2>3. CASE /\ lastGood' # NoSurface
             /\ lastGood'.src = task.id /\ lastGood.src < task.id
             /\ UNCHANGED outbox \/ outbox' = lastGood'
    <3>1. cache.src <= lastGood.src /\ cache.src < task.id
      BY <1>3, <1>4, <2>3 DEF SurfacesAgree
    <3>2. outbox.src < task.id
      BY <1>3, <2>3 DEF DeskInv, CycleInv, CyclesInOrder
    <3>3. cache.src # task.id /\ outbox.src # task.id /\ cache.src <= task.id
      BY <1>3, <3>1, <3>2
    <3>4. QED
      BY <1>3, <1>4, <2>3, <3>3 DEF SurfacesAgree, SameInstant
  <2>4. QED
    BY <2>1, <2>2, <2>3, CycleMoves DEF DeskInv
<1>6. RejectedForGood'
  <2>1. Lines(cache)' = Lines(cache)
    BY <1>4 DEF Lines
  <2>2. ASSUME cache # NoSurface, now - cache.ts > Reject
        PROVE  now' - cache.ts > Reject
    BY <1>3, <2>2
  <2>3. QED
    BY <1>4, <2>1, <2>2 DEF DeskInv, RejectedForGood, deskVars
<1>7. QED
  BY <1>1, <1>2, <1>5, <1>6 DEF DeskInv

LEMMA ReportTyped ==
  ASSUME TypeOK, outbox # NoSurface
  PROVE  /\ ReportOn(outbox) \in Report
         /\ ReportOn(outbox).src = outbox.src
         /\ ReportOn(outbox).freshness = "REJECT" =>
              now - outbox.ts > Reject \/ Lines(outbox) = {}
<1>1. /\ outbox \in Surface /\ outbox.src \in Nat /\ outbox.ts \in Nat /\ now \in Nat
  BY SurfaceShape DEF TypeOK, CycleTypeOK
<1>2. outbox.data \in Nat
  BY <1>1 DEF Surface, Instants
<1>3. /\ Freshness(outbox.ts) \in Decisions
      /\ Freshness(outbox.ts) = "REJECT" => now - outbox.ts > Reject
  <2> DEFINE ts == outbox.ts
  <2>1. ts \in Nat
    BY <1>1
  <2> HIDE DEF ts
  <2>2. /\ Freshness(ts) \in Decisions
        /\ Freshness(ts) = "REJECT" => now - ts > Reject
    BY <1>1, <2>1 DEF Freshness, Decisions
  <2>3. QED
    BY <2>2 DEF ts
<1>4. Lines(outbox) \in SUBSET Book
  BY DEF Lines
<1>5. QED
  BY <1>1, <1>2, <1>3, <1>4 DEF ReportOn, Report, Decisions

\* A surface rejected once is rejected again.
LEMMA StillRejected ==
  ASSUME TypeOK, outbox # NoSurface, now - outbox.ts > Reject \/ Lines(outbox) = {}
  PROVE  ReportOn(outbox).freshness = "REJECT"
<1>1. now \in Nat /\ outbox.ts \in Nat
  BY DeskNumbers
<1> DEFINE ts == outbox.ts
<1>2. ts \in Nat
  BY <1>1
<1>3. ReportOn(outbox).freshness = "REJECT" \/ (Freshness(ts) # "REJECT" /\ Lines(outbox) # {})
  BY DEF ReportOn
<1>4. ts = outbox.ts
  OBVIOUS
<1> HIDE DEF ts
<1>5. now - ts > Reject => Freshness(ts) = "REJECT"
  BY <1>1, <1>2 DEF Freshness
<1>6. QED
  BY <1>3, <1>4, <1>5

LEMMA TakeKeepsDesk ==
  ASSUME DeskInv, TakeSurface
  PROVE  /\ DeskInv'
         /\ cache'.src >= cache.src
         /\ report.freshness = "REJECT" /\ report'.freshness # "REJECT" =>
              report'.src > report.src
<1>1. /\ now \in Nat /\ report.src \in Nat
      /\ cache.src \in Nat /\ lastGood.src \in Nat /\ outbox.src \in Nat
      /\ outbox # NoSurface
  BY DeskNumbers DEF DeskInv, TakeSurface
<1>2. /\ outbox' = NoSurface
      /\ UNCHANGED <<now, stamp, lastId, inbox, task, warm, lastGood, answer>>
  BY DEF TakeSurface
<1>3. SurfacesAgree /\ RejectedForGood /\ TypeOK /\ CycleInv
  BY DEF DeskInv
<1>4. CycleInv'
  BY <1>1, <1>2, <1>3 DEF CycleInv, CycleTypeOK, MemoryIsWhole, CyclesInOrder,
                          NothingInvented, AheadByTolerance, NothingAhead, NoSurface
<1>5. CASE Viewable(outbox)
  <2>1. cache' = outbox /\ report' = ReportOn(outbox) /\ UNCHANGED refused
    BY <1>5 DEF TakeSurface
  <2>2. /\ report' \in Report /\ report'.src = outbox.src
        /\ report'.freshness = "REJECT" => now - outbox.ts > Reject \/ Lines(outbox) = {}
    BY <1>1, <1>3, <2>1, ReportTyped
  <2>3. cache.src <= outbox.src
    BY <1>1, <1>3 DEF SurfacesAgree
  <2>4. outbox.src <= lastGood.src
    BY <1>3 DEF CycleInv, CyclesInOrder
  <2>5. TypeOK'
    BY <1>2, <1>3, <1>4, <2>1, <2>2 DEF TypeOK, CycleInv, CycleTypeOK
  <2>6. SurfacesAgree'
    BY <1>1, <1>2, <1>3, <2>1, <2>4 DEF SurfacesAgree, SameInstant
  <2>7. Lines(outbox)' = Lines(outbox') /\ Lines(cache)' = Lines(cache')
    BY DEF Lines
  <2>8. RejectedForGood'
    BY <1>2, <2>1, <2>2, <2>7 DEF RejectedForGood, Lines
  <2>9. ASSUME report.freshness = "REJECT", report'.freshness # "REJECT"
        PROVE  report'.src > report.src
    <3>1. report.src = cache.src
      BY <1>3 DEF RejectedForGood
    <3>2. ASSUME outbox.src = cache.src
          PROVE  FALSE
      <4>1. cache # NoSurface
        BY <1>1, <1>3, <3>2, SurfaceShape DEF TypeOK, CycleTypeOK, NoSurface
      <4>2. outbox.ts = cache.ts
        BY <1>1, <1>3, <3>2, <4>1 DEF SurfacesAgree, SameInstant
      <4>3. now - outbox.ts > Reject \/ Lines(outbox) = {}
        BY <1>3, <2>9, <4>1, <4>2 DEF RejectedForGood, Lines
      <4>4. ReportOn(outbox).freshness = "REJECT"
        BY <4>3, StillRejected, <1>1, <1>3
      <4>5. QED
        BY <2>1, <2>9, <4>4
    <3>3. QED
      BY <1>1, <2>2, <2>3, <3>1, <3>2
  <2>10. QED
    BY <1>1, <1>4, <2>1, <2>3, <2>5, <2>6, <2>8, <2>9 DEF DeskInv
<1>6. CASE ~Viewable(outbox)
  <2>1. UNCHANGED <<cache, report>> /\ refused' = outbox.src
    BY <1>6 DEF TakeSurface
  <2>2. TypeOK'
    BY <1>1, <1>3, <1>4, <2>1 DEF TypeOK, CycleInv
  <2>3. SurfacesAgree'
    BY <1>1, <1>2, <1>3, <2>1 DEF SurfacesAgree, SameInstant
  <2>4. RejectedForGood'
    BY <1>2, <1>3, <2>1 DEF RejectedForGood, Lines
  <2>5. QED
    BY <1>1, <1>4, <2>1, <2>2, <2>3, <2>4 DEF DeskInv
<1>7. QED
  BY <1>5, <1>6

LEMMA DeskNextInv == DeskInv /\ [Next]_vars => DeskInv'
<1> SUFFICES ASSUME DeskInv, [Next]_vars PROVE DeskInv'
  OBVIOUS
<1>1. CASE TakeSurface
  BY <1>1, TakeKeepsDesk
<1>2. CASE (CycleNext /\ UNCHANGED deskVars) \/ UNCHANGED vars
  <2>1. [CycleNext]_cycleVars /\ UNCHANGED deskVars
    BY <1>2 DEF vars
  <2>2. QED
    BY <2>1, CycleKeepsDesk
<1>3. QED
  BY <1>1, <1>2 DEF Next

\* The desk's invariant, in every behaviour.
THEOREM DeskInvariant == Spec => []DeskInv
BY DeskInitInv, DeskNextInv, PTL DEF Spec

\* Type correctness of the producer and the desk together.
THEOREM DeskTypes == Spec => []TypeOK
<1>1. DeskInv => TypeOK
  BY DEF DeskInv
<1>2. QED
  BY <1>1, DeskInvariant, PTL

\* The cache never returns to an older fit (surface_cache.py), whatever is refused, dropped
\* or republished.
THEOREM CacheNeverReturns == Spec => CacheMovesForward
<1>1. DeskInv /\ [Next]_vars => [cache'.src >= cache.src]_vars
  <2> SUFFICES ASSUME DeskInv, Next PROVE cache'.src >= cache.src
    BY DEF vars
  <2>1. CASE TakeSurface
    BY <2>1, TakeKeepsDesk
  <2>2. CASE CycleNext /\ UNCHANGED deskVars
    <3>1. cache.src \in Nat
      BY DeskNumbers DEF DeskInv
    <3>2. QED
      BY <2>2, <3>1 DEF deskVars
  <2>3. QED
    BY <2>1, <2>2 DEF Next
<1>2. QED
  BY <1>1, DeskInvariant, PTL DEF Spec, CacheMovesForward

\* ADR-006 and the freshness policy together: republishing a surface never revives a report
\* that was rejected (freshness_policy.py).
THEOREM RepublishingRevivesNothing == Spec => RecoveryNeedsNewSurface
<1>1. DeskInv /\ [Next]_vars =>
        [ report.freshness = "REJECT" /\ report'.freshness # "REJECT" =>
            report'.src > report.src ]_vars
  <2> SUFFICES ASSUME DeskInv, Next
               PROVE  report.freshness = "REJECT" /\ report'.freshness # "REJECT" =>
                        report'.src > report.src
    BY DEF vars
  <2>1. CASE TakeSurface
    BY <2>1, TakeKeepsDesk
  <2>2. CASE CycleNext /\ UNCHANGED deskVars
    BY <2>2 DEF deskVars
  <2>3. QED
    BY <2>1, <2>2 DEF Next
<1>2. QED
  BY <1>1, DeskInvariant, PTL DEF Spec, RecoveryNeedsNewSurface
================================================================================
