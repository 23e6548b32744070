----------------------------- MODULE Training_proofs -----------------------------
(***************************************************************************)
(* Proofs about Training for any cells, capacities, horizons and schedule: *)
(* the schedule and the networks kept are sound (WorkInv is inductive,     *)
(* whatever the buffer holds), the producer keeps ProducerContract, and    *)
(* the replay buffer stays bounded and never gives a step back what it is  *)
(* learning afresh.                                                        *)
(***************************************************************************)
EXTENDS Training, WellFoundedInduction, TLAPS

LEMMA WorkInitInv == Init => WorkInv
BY DEF Init, WorkInv, WorkTypeOK, ScheduleIsHonest, NothingBrokenIsKept, InOrder,
       NoSnapshot, NoJob, NoNet, NoSurface, Never, Kinds

\* The records are told from their sentinels by their identifiers.
LEMMA Sentinels ==
  ASSUME WorkTypeOK
  PROVE  /\ inbox.id \in Nat /\ (inbox # NoSnapshot <=> inbox.id # 0)
         /\ job.id \in Nat /\ (job = NoJob => job.id = 0)
         /\ net.src \in Nat /\ (net # NoNet <=> net.src # 0)
         /\ published.src \in Nat /\ (published # NoSurface <=> published.src # 0)
         /\ outbox.src \in Nat /\ (outbox # NoSurface <=> outbox.src # 0)
BY DEF WorkTypeOK, Snapshot, NoSnapshot, NoJob, Net, NoNet, Surface, NoSurface

\* A snapshot on its way in.
LEMMA PublishInv ==
  ASSUME WorkInv, NEW ts \in 0..(MaxTime + MaxAhead), NEW fresh \in Fresh,
         PublishSnapshot(ts, fresh)
  PROVE  WorkInv'
<1> USE TrainingAssumption DEF WorkInv, PublishSnapshot, memory
<1>1. fresh \in Seq(Observation)
  BY DEF Fresh
<1>2. now \in Nat /\ lastId \in Nat /\ ts \in Nat
  BY DEF WorkTypeOK
<1>3. inbox' \in Snapshot /\ inbox'.id = now + 1 /\ inbox'.ts = ts /\ inbox' # NoSnapshot
  BY <1>1, <1>2 DEF Snapshot, NoSnapshot
<1>4. WorkTypeOK'
  BY <1>2, <1>3 DEF WorkTypeOK
<1>5. ScheduleIsHonest' /\ NothingBrokenIsKept'
  BY DEF ScheduleIsHonest, NothingBrokenIsKept
<1>6. InOrder'
  BY <1>2, <1>3, Sentinels DEF InOrder
<1>7. QED
  BY <1>4, <1>5, <1>6

LEMMA TickInv == ASSUME WorkInv, Tick PROVE WorkInv'
<1> USE TrainingAssumption DEF WorkInv, Tick, memory
<1>1. WorkTypeOK'
  BY DEF WorkTypeOK
<1>2. ScheduleIsHonest' /\ NothingBrokenIsKept'
  BY DEF ScheduleIsHonest, NothingBrokenIsKept
<1>3. InOrder'
  BY Sentinels DEF InOrder, WorkTypeOK
<1>4. QED
  BY <1>1, <1>2, <1>3

\* Whatever the buffer holds, a step begins with a batch of one of two kinds, and restarts
\* only when one is due.
LEMMA BatchShape ==
  ASSUME NEW held, NEW samples, NEW batch \in Batches(held, samples)
  PROVE  /\ batch.trains \in BOOLEAN /\ batch.restarting \in BOOLEAN
         /\ batch.restarting => RestartDue
<1>1. CASE RestartDue
  <2>1. PICK weighty \in BOOLEAN :
          batch = [trains |-> weighty /\ Held(held) # {}, restarting |-> TRUE,
                   replayed |-> Held(held)]
    BY <1>1, SMT DEF Batches
  <2>2. QED
    BY <1>1, <2>1
<1>2. CASE ~RestartDue
  <2>1. batch.trains = TRUE /\ batch.restarting = FALSE
    BY <1>2, SMT DEF Batches
  <2>2. QED
    BY <1>2, <2>1
<1>3. QED
  BY <1>1, <1>2

LEMMA BeginShape ==
  ASSUME WorkTypeOK, Begin
  PROVE  /\ inbox # NoSnapshot /\ job = NoJob
         /\ inbox' = NoSnapshot
         /\ job'.id = inbox.id /\ job'.ts = inbox.ts /\ job'.at = now
         /\ job'.trains \in BOOLEAN /\ job'.restarting \in BOOLEAN
         /\ job'.restarting => RestartDue
         /\ UNCHANGED <<now, lastId, net, lastRestart, published, answer, outbox>>
<1> inbox # NoSnapshot /\ job = NoJob /\ inbox' = NoSnapshot
    /\ UNCHANGED <<now, lastId, net, lastRestart, published, answer, outbox>>
  BY Zenon DEF Begin
<1>1. CASE inbox.fresh = <<>>
  <2>1. job' = [id |-> inbox.id, ts |-> inbox.ts, at |-> now, trains |-> FALSE,
                restarting |-> FALSE, replayed |-> {}]
    BY <1>1, Zenon DEF Begin
  <2>2. QED
    BY <2>1
<1>2. CASE inbox.fresh # <<>>
  <2> DEFINE held == Prune(buffer, now)
             samples == Samples(inbox)
  <2>1. PICK batch \in Batches(held, samples) :
          job' = [id |-> inbox.id, ts |-> inbox.ts, at |-> now,
                  trains |-> batch.trains, restarting |-> batch.restarting,
                  replayed |-> batch.replayed]
    BY <1>2 DEF Begin
  <2>2. batch.trains \in BOOLEAN /\ batch.restarting \in BOOLEAN
        /\ (batch.restarting => RestartDue)
    BY BatchShape
  <2> HIDE DEF held, samples
  <2>3. QED
    BY <2>1, <2>2
<1>3. QED
  BY <1>1, <1>2

LEMMA BeginInv == ASSUME WorkInv, Begin PROVE WorkInv'
<1> USE TrainingAssumption DEF WorkInv
<1>1. /\ inbox # NoSnapshot /\ job = NoJob
      /\ inbox' = NoSnapshot
      /\ job'.id = inbox.id /\ job'.ts = inbox.ts /\ job'.at = now
      /\ job'.trains \in BOOLEAN /\ job'.restarting \in BOOLEAN
      /\ job'.restarting => RestartDue
      /\ UNCHANGED <<now, lastId, net, lastRestart, published, answer, outbox>>
  BY BeginShape
<1>2. inbox.id \in Nat \ {0} /\ inbox.ts \in Nat /\ now \in Nat
  BY <1>1 DEF WorkTypeOK, Snapshot
<1>3. inbox'.id = 0
  BY <1>1 DEF NoSnapshot
<1>4. WorkTypeOK'
  BY <1>1, <1>2 DEF WorkTypeOK
<1>5. ScheduleIsHonest'
  BY <1>1 DEF ScheduleIsHonest, RestartDue
<1>6. NothingBrokenIsKept'
  BY <1>1 DEF NothingBrokenIsKept
<1>7. InOrder'
  BY <1>1, <1>2, <1>3, Sentinels DEF InOrder, WorkTypeOK
<1>8. QED
  BY <1>4, <1>5, <1>6, <1>7

\* What a finished step leaves in the memory, heard or not.
LEMMA RememberShape ==
  ASSUME WorkInv, job # NoJob, NEW outcome \in Outcomes, Remember(outcome)
  PROVE  /\ net' \in Net \cup {NoNet}
         /\ lastRestart' \in Nat \cup {Never} /\ lastRestart' = net'.root
         /\ net' # NoNet => net'.usable
         /\ published' \in Surface \cup {NoSurface}
         /\ published' # NoSurface => published'.clean
         /\ published'.src \in Nat /\ net'.src \in Nat
         /\ published.src <= published'.src /\ published'.src <= net'.src
         /\ net'.src <= job.id
         /\ published' = published \/ Publishable(outcome)
<1> USE DEF WorkInv
<1>1. /\ job.id \in Nat \ {0} /\ job.ts \in Nat /\ job.at \in Nat
      /\ job.trains \in BOOLEAN /\ job.restarting \in BOOLEAN
  BY DEF WorkTypeOK
<1>2. net.src < job.id /\ published.src <= net.src /\ net.src \in Nat /\ published.src \in Nat
  BY Sentinels DEF InOrder, NothingBrokenIsKept
<1>3. net = NoNet <=> lastRestart = Never
  BY DEF WorkTypeOK, ScheduleIsHonest, Net, NoNet, Never
<1>4. net \in Net \cup {NoNet} /\ lastRestart \in Nat \cup {Never} /\ lastRestart = net.root
  BY DEF WorkTypeOK, ScheduleIsHonest
<1>5. published \in Surface \cup {NoSurface} /\ (published # NoSurface => published.clean)
      /\ (net # NoNet => net.usable)
  BY DEF WorkTypeOK, NothingBrokenIsKept
<1>6. CASE Kept(outcome)
  <2>1. net' = TrainedNet(outcome) /\ outcome \notin {"diverged", "overflowed"}
    BY <1>6 DEF Remember, Kept
  <2>2. lastRestart' = IF job.restarting \/ lastRestart = Never THEN job.at ELSE lastRestart
    BY <1>6 DEF Remember, RestartAfterStep
  <2>3. net'.src = job.id /\ net'.usable = TRUE
        /\ net'.root = IF job.restarting \/ net = NoNet THEN job.at ELSE net.root
    BY <2>1 DEF TrainedNet, Update
  <2>4. net'.root = lastRestart' /\ net'.root \in Nat
    BY <1>1, <1>3, <1>4, <2>2, <2>3 DEF Net, NoNet, Never
  <2>5. net' = [src |-> job.id,
                root |-> IF job.restarting \/ net = NoNet THEN job.at ELSE net.root,
                usable |-> outcome \notin {"diverged", "overflowed"}]
    BY <2>1, Zenon DEF TrainedNet, Update
  <2>6. net' \in Net
    <3> DEFINE root == IF job.restarting \/ net = NoNet THEN job.at ELSE net.root
               usable == outcome \notin {"diverged", "overflowed"}
    <3>1. root \in Nat /\ usable \in BOOLEAN
      BY <2>3, <2>4
    <3>2. net' = [src |-> job.id, root |-> root, usable |-> usable]
      BY <2>5
    <3> HIDE DEF root, usable
    <3>3. QED
      BY <1>1, <3>1, <3>2 DEF Net
  <2>7. CASE Publishable(outcome)
    <3>1. published' = SurfaceOf(outcome)
      BY <2>7 DEF Remember, PublishedAfter
    <3>2. published' = [src |-> job.id, ts |-> job.ts, stale |-> FALSE, clean |-> TRUE]
      BY <2>7, <3>1 DEF SurfaceOf, Publishable
    <3>3. published' \in Surface /\ published'.src = job.id /\ published'.clean
      BY <1>1, <3>2 DEF Surface
    <3>4. QED
      BY <1>1, <1>2, <2>3, <2>4, <2>6, <2>7, <3>3
  <2>8. CASE ~Publishable(outcome)
    <3>1. published' = published
      BY <2>8 DEF Remember, PublishedAfter
    <3>2. QED
      BY <1>1, <1>2, <1>5, <2>3, <2>4, <2>6, <3>1
  <2>9. QED
    BY <2>7, <2>8
<1>7. CASE ~Kept(outcome)
  <2>1. net' = net /\ lastRestart' = lastRestart
    BY <1>7 DEF Remember, RestartAfterStep
  <2>2. ~Publishable(outcome)
    BY <1>7 DEF Kept, Publishable
  <2>3. published' = published
    BY <2>2 DEF Remember, PublishedAfter
  <2>4. QED
    BY <1>1, <1>2, <1>4, <1>5, <2>1, <2>3
<1>8. QED
  BY <1>6, <1>7

\* What Risk is offered is published by then.
LEMMA SayShape ==
  ASSUME WorkInv, job # NoJob, NEW outcome \in Outcomes, Remember(outcome), Say(outcome)
  PROVE  /\ answer' \in [id : Nat, said : SUBSET Kinds]
         /\ outbox' \in Surface \cup {NoSurface}
         /\ outbox'.src <= published'.src
<1> USE DEF WorkInv
<1>1. job.id \in Nat \ {0} /\ job.ts \in Nat
  BY DEF WorkTypeOK
<1>2. outbox \in Surface \cup {NoSurface} /\ outbox.src \in Nat /\ outbox.src <= published.src
  BY Sentinels DEF WorkTypeOK, NothingBrokenIsKept
<1>3. published.src \in Nat /\ published'.src \in Nat /\ published.src <= published'.src
  BY Sentinels, RememberShape
<1>4. CASE Publishable(outcome)
  <2>1. outbox' = [src |-> job.id, ts |-> job.ts, stale |-> FALSE, clean |-> TRUE]
    BY <1>4 DEF Say, SurfaceOf, Publishable
  <2>2. published' = [src |-> job.id, ts |-> job.ts, stale |-> FALSE, clean |-> TRUE]
    BY <1>4 DEF Remember, PublishedAfter, SurfaceOf, Publishable
  <2>3. answer' = [id |-> job.id, said |-> {"SurfaceCalibrated"}]
    BY <1>4 DEF Say
  <2>4. QED
    BY <1>1, <2>1, <2>2, <2>3 DEF Surface, Kinds
<1>5. CASE ~Publishable(outcome) /\ Raises(outcome)
  <2>1. answer' = [id |-> job.id, said |-> {}] /\ outbox' = outbox
    BY <1>5 DEF Say
  <2>2. QED
    BY <1>1, <1>2, <1>3, <2>1
<1>6. CASE ~Publishable(outcome) /\ ~Raises(outcome)
  <2>1. answer' = [id |-> job.id,
                   said |-> IF published = NoSurface THEN {"CalibrationFailed"} ELSE Kinds]
    BY <1>6 DEF Say
  <2>2. outbox' = IF published = NoSurface THEN outbox ELSE [published EXCEPT !.stale = TRUE]
    BY <1>6 DEF Say
  <2>3. answer' \in [id : Nat, said : SUBSET Kinds]
    BY <1>1, <2>1 DEF Kinds
  <2>4. CASE published = NoSurface
    BY <1>2, <1>3, <2>2, <2>3, <2>4
  <2>5. CASE published # NoSurface
    <3>1. published \in Surface
      BY <2>5 DEF WorkTypeOK
    <3>2. outbox' \in Surface /\ outbox'.src = published.src
      BY <2>2, <2>5, <3>1 DEF Surface
    <3>3. QED
      BY <1>3, <2>3, <3>2
  <2>6. QED
    BY <2>4, <2>5
<1>7. QED
  BY <1>4, <1>5, <1>6

LEMMA FinishInv ==
  ASSUME WorkInv, NEW outcome \in Outcomes, FinishStep(outcome) \/ FinishUnheard(outcome)
  PROVE  WorkInv'
<1> USE DEF WorkInv
<1>1. /\ job # NoJob /\ job' = NoJob /\ Remember(outcome)
      /\ UNCHANGED <<now, lastId, inbox>>
      /\ Say(outcome) \/ UNCHANGED <<answer, outbox>>
  BY DEF FinishStep, FinishUnheard
<1>2. /\ net' \in Net \cup {NoNet}
      /\ lastRestart' \in Nat \cup {Never} /\ lastRestart' = net'.root
      /\ net' # NoNet => net'.usable
      /\ published' \in Surface \cup {NoSurface}
      /\ published' # NoSurface => published'.clean
      /\ published'.src \in Nat /\ net'.src \in Nat
      /\ published.src <= published'.src /\ published'.src <= net'.src
      /\ net'.src <= job.id
  BY <1>1, RememberShape
<1>3. /\ answer' \in [id : Nat, said : SUBSET Kinds]
      /\ outbox' \in Surface \cup {NoSurface}
      /\ outbox'.src <= published'.src
  <2>1. CASE Say(outcome)
    BY <1>1, <2>1, SayShape
  <2>2. CASE UNCHANGED <<answer, outbox>>
    BY <1>2, <2>2, Sentinels DEF WorkTypeOK, NothingBrokenIsKept
  <2>3. QED
    BY <1>1, <2>1, <2>2
<1>4. job'.id = 0
  BY <1>1 DEF NoJob
<1>5. WorkTypeOK'
  BY <1>1, <1>2, <1>3, <1>4 DEF WorkTypeOK
<1>6. ScheduleIsHonest'
  BY <1>1, <1>2 DEF ScheduleIsHonest
<1>7. NothingBrokenIsKept'
  BY <1>2, <1>3 DEF NothingBrokenIsKept
<1>8. InOrder'
  BY <1>1, <1>2, <1>4, Sentinels DEF InOrder, WorkTypeOK
<1>9. QED
  BY <1>5, <1>6, <1>7, <1>8

LEMMA WorkNextInv == ASSUME WorkInv, [Next]_vars PROVE WorkInv'
<1>1. CASE UNCHANGED vars
  BY <1>1 DEF vars, memory, WorkInv, WorkTypeOK, ScheduleIsHonest, NothingBrokenIsKept,
              InOrder
<1>2. CASE Tick
  BY <1>2, TickInv
<1>3. CASE \E ts \in 0..(MaxTime + MaxAhead), fresh \in Fresh : PublishSnapshot(ts, fresh)
  BY <1>3, PublishInv
<1>4. CASE Begin
  BY <1>4, BeginInv
<1>5. CASE \E outcome \in Outcomes : FinishStep(outcome) \/ FinishUnheard(outcome)
  BY <1>5, FinishInv
<1>6. QED
  BY <1>1, <1>2, <1>3, <1>4, <1>5 DEF Next

\* The inductive invariant: the types of everything but the buffer, the order of the
\* snapshots in flight, and the two properties below.
THEOREM WorkInvariant == Spec => []WorkInv
<1>1. QED
  BY WorkInitInv, WorkNextInv, PTL DEF Spec

\* Whatever fails, and whatever the buffer holds, the schedule is measured from the training
\* from scratch behind the network that is kept, and no restart is early.
THEOREM SoundSchedule == Spec => []ScheduleIsHonest
<1>1. WorkInv => ScheduleIsHonest
  BY DEF WorkInv
<1>2. QED
  BY <1>1, WorkInvariant, PTL

\* Nothing that diverged is trained further, and nothing Risk is offered failed the gate.
THEOREM SoundNetworks == Spec => []NothingBrokenIsKept
<1>1. WorkInv => NothingBrokenIsKept
  BY DEF WorkInv
<1>2. QED
  BY <1>1, WorkInvariant, PTL

LEMMA ContractInit == Init => Contract!Init
BY DEF Init, Contract!Init, NoSnapshot, NoJob, NoSurface

LEMMA ContractFinish ==
  ASSUME WorkInv, NEW outcome \in Outcomes, FinishStep(outcome)
  PROVE  Contract!Answer \/ Contract!Refuse \/ Contract!Raise
<1> USE DEF WorkInv
<1>1. /\ job # NoJob /\ job' = NoJob /\ UNCHANGED inbox
      /\ Remember(outcome) /\ Say(outcome)
  BY DEF FinishStep
<1>2. job.id \in Nat \ {0} /\ job'.id = 0
  BY <1>1 DEF WorkTypeOK, NoJob
<1>3. CASE ~Publishable(outcome) /\ Raises(outcome)
  <2>1. published' = published /\ outbox' = outbox
    BY <1>1, <1>3 DEF Remember, PublishedAfter, Say
  <2>2. QED
    BY <1>1, <1>2, <2>1 DEF Contract!Raise
<1>4. CASE Publishable(outcome)
  <2>1. published'.src = job.id /\ outbox'.src = job.id /\ outbox'.stale = FALSE
    BY <1>1, <1>4 DEF Remember, PublishedAfter, Say, SurfaceOf
  <2>2. QED
    BY <1>1, <1>2, <2>1 DEF Contract!Answer
<1>5. CASE ~Publishable(outcome) /\ ~Raises(outcome)
  <2>1. published' = published
    BY <1>1, <1>5 DEF Remember, PublishedAfter
  <2>2. outbox' = IF published = NoSurface THEN outbox ELSE [published EXCEPT !.stale = TRUE]
    BY <1>1, <1>5 DEF Say
  <2>3. CASE published = NoSurface
    BY <1>1, <1>2, <2>1, <2>2, <2>3 DEF Contract!Refuse, NoSurface
  <2>4. CASE published # NoSurface
    <3>1. published \in Surface /\ published.src # 0
      BY <2>4, Sentinels DEF WorkTypeOK
    <3>2. outbox'.src = published.src /\ outbox'.stale = TRUE
      BY <2>2, <2>4, <3>1 DEF Surface
    <3>3. QED
      BY <1>1, <1>2, <2>1, <3>1, <3>2 DEF Contract!Refuse
  <2>5. QED
    BY <2>3, <2>4
<1>6. QED
  BY <1>3, <1>4, <1>5

LEMMA ContractUnheard ==
  ASSUME WorkInv, NEW outcome \in Outcomes, FinishUnheard(outcome)
  PROVE  Contract!Abandon
<1> USE DEF WorkInv
<1>1. /\ MayCancel /\ job # NoJob /\ job' = NoJob /\ UNCHANGED <<inbox, outbox>>
      /\ Remember(outcome)
  BY DEF FinishUnheard
<1>2. job.id \in Nat \ {0} /\ job'.id = 0
  BY <1>1 DEF WorkTypeOK, NoJob
<1>3. published'.src \in {published.src, job.id}
  BY <1>1 DEF Remember, PublishedAfter, SurfaceOf
<1>4. QED
  BY <1>1, <1>2, <1>3 DEF Contract!Abandon

LEMMA ContractNext ==
  ASSUME WorkInv, [Next]_vars
  PROVE  [Contract!Next]_Contract!vars
<1> USE DEF Contract!Next
<1>1. CASE UNCHANGED vars
  BY <1>1 DEF vars, memory, Contract!vars
<1>2. CASE Tick
  BY <1>2 DEF Tick, memory, Contract!vars
<1>3. CASE \E ts \in 0..(MaxTime + MaxAhead), fresh \in Fresh : PublishSnapshot(ts, fresh)
  <2>1. PICK ts \in 0..(MaxTime + MaxAhead), fresh \in Fresh : PublishSnapshot(ts, fresh)
    BY <1>3
  <2>2. inbox'.id = now + 1 /\ lastId <= now
        /\ UNCHANGED <<job, published, outbox>>
    BY <2>1 DEF PublishSnapshot, memory
  <2>3. now \in Nat /\ inbox.id \in Nat /\ job.id \in Nat /\ published.src \in Nat
        /\ net.src \in Nat /\ lastId \in Nat
    BY Sentinels DEF WorkInv, WorkTypeOK
  <2>4. inbox.id <= lastId /\ job.id <= lastId /\ published.src <= lastId
    BY <2>3 DEF WorkInv, InOrder, NothingBrokenIsKept
  <2>5. Contract!Offer
    BY <2>2, <2>3, <2>4 DEF Contract!Offer
  <2>6. QED
    BY <2>5
<1>4. CASE Begin
  <2>1. /\ inbox # NoSnapshot /\ job = NoJob /\ inbox' = NoSnapshot
        /\ job'.id = inbox.id /\ UNCHANGED <<published, outbox>>
    BY <1>4, BeginShape DEF WorkInv
  <2>2. inbox.id # 0 /\ inbox'.id = 0 /\ job.id = 0
    BY <2>1, Sentinels DEF WorkInv, NoSnapshot, NoJob
  <2>3. Contract!Begin
    BY <2>1, <2>2 DEF Contract!Begin
  <2>4. QED
    BY <2>3
<1>5. CASE \E outcome \in Outcomes : FinishStep(outcome) \/ FinishUnheard(outcome)
  BY <1>5, ContractFinish, ContractUnheard
<1>6. QED
  BY <1>1, <1>2, <1>3, <1>4, <1>5 DEF Next

\* Whatever the learner, the gate and the schedule decide, whatever escapes the handler, with
\* any two clocks and whenever a run is cut short, the neural producer is a ProducerContract:
\* the same promise the SVI producer makes.
THEOREM TrainingKeepsContract == Spec => KeepsContract
<1>1. WorkInv /\ [Next]_vars => [Contract!Next]_Contract!vars
  BY ContractNext
<1>2. QED
  BY <1>1, ContractInit, WorkInvariant, PTL DEF Spec, KeepsContract, Contract!Spec

--------------------------------------------------------------------------------
(* Recursion along a sequence: extend() and prune() go one sample after    *)
(* another, and what they leave is known by induction on how many they did.*)

Below == {pair \in Nat \X Nat : pair[1] < pair[2]}

LEMMA BelowIsWellFounded == IsWellFoundedOn(Below, Nat)
BY NatLessThanWellFounded DEF OpToRel, Below

LEMMA SetInduction ==
  ASSUME NEW T, 0 \in T, \A n \in Nat : n \in T => n + 1 \in T
  PROVE  Nat \subseteq T
<1> DEFINE Out == Nat \ T
<1>1. SUFFICES ASSUME Out # {} PROVE FALSE
  OBVIOUS
<1>2. PICK x \in Out : \A y \in Out : <<y, x>> \notin Below
  BY <1>1, BelowIsWellFounded, WFMin, Zenon
<1>3. \A y \in Out : ~(y < x)
  BY <1>2 DEF Below
<1>4. x # 0 /\ x - 1 \in Nat /\ x - 1 < x
  OBVIOUS
<1>5. QED
  BY <1>3, <1>4

LEMMA PrefixInduction ==
  ASSUME NEW N \in Nat, NEW T, 0 \in T, \A n \in 1..N : n - 1 \in T => n \in T
  PROVE  N \in T
<1> DEFINE U == {n \in Nat : n <= N => n \in T}
<1>1. 0 \in U
  OBVIOUS
<1>2. ASSUME NEW n \in Nat, n \in U PROVE n + 1 \in U
  <2>1. CASE n + 1 <= N
    <3>1. n \in T /\ n + 1 \in 1..N /\ (n + 1) - 1 = n
      BY <1>2, <2>1
    <3>2. QED
      BY <3>1
  <2>2. CASE ~(n + 1 <= N)
    BY <2>2
  <2>3. QED
    BY <2>1, <2>2
<1> HIDE DEF U
<1>3. Nat \subseteq U
  BY <1>1, <1>2, SetInduction
<1>4. QED
  BY <1>3 DEF U

\* A step repeated along 1..N, on states of S, has its function of prefixes.
Along(g, N, base, step) == \A n \in 0..N : g[n] = IF n = 0 THEN base ELSE step[<<g[n - 1], n>>]

LEMMA PrefixRecursion ==
  ASSUME NEW S, NEW base \in S, NEW N \in Nat, NEW step \in [S \X (1..N) -> S]
  PROVE  \E g \in [0..N -> S] : Along(g, N, base, step)
<1> DEFINE T == {n \in 0..N : \E g \in [0..n -> S] : Along(g, n, base, step)}
<1>1. 0 \in T
  <2> DEFINE g == [n \in 0..0 |-> base]
  <2>1. g \in [0..0 -> S] /\ Along(g, 0, base, step)
    BY DEF Along
  <2>2. QED
    BY <2>1
<1>2. ASSUME NEW n \in 1..N, n - 1 \in T PROVE n \in T
  <2>1. PICK g \in [0..(n - 1) -> S] : Along(g, n - 1, base, step)
    BY <1>2
  <2> DEFINE h == [m \in 0..n |-> IF m = n THEN step[<<g[n - 1], n>>] ELSE g[m]]
  <2>2. n - 1 \in 0..(n - 1) /\ g[n - 1] \in S /\ step[<<g[n - 1], n>>] \in S
    OBVIOUS
  <2>3. h \in [0..n -> S]
    BY <2>2
  <2>4. ASSUME NEW m \in 0..n PROVE h[m] = IF m = 0 THEN base ELSE step[<<h[m - 1], m>>]
    <3>1. CASE m = n
      <4>1. n # 0 /\ h[n] = step[<<g[n - 1], n>>] /\ h[n - 1] = g[n - 1]
        OBVIOUS
      <4>2. QED
        BY <3>1, <4>1
    <3>2. CASE m # n
      <4>1. m \in 0..(n - 1) /\ h[m] = g[m] /\ (m # 0 => h[m - 1] = g[m - 1])
        BY <3>2
      <4>2. QED
        BY <2>1, <4>1 DEF Along
    <3>3. QED
      BY <3>1, <3>2
  <2> HIDE DEF h
  <2>5. h \in [0..n -> S] /\ Along(h, n, base, step)
    BY <2>3, <2>4 DEF Along
  <2>6. QED
    BY <2>5
<1> HIDE DEF T
<1>3. N \in T
  BY <1>1, <1>2, PrefixInduction
<1>4. QED
  BY <1>3 DEF T

\* extend() is the last of the buffers that add() makes of one another.
Inserting(g, held, samples) ==
  g = [n \in 0..Len(samples) |-> IF n = 0 THEN held ELSE Add(g[n - 1], samples[n])]

LEMMA ExtendRecursion ==
  ASSUME NEW S, NEW held \in S, NEW samples, Len(samples) \in Nat,
         \A b \in S, n \in 1..Len(samples) : Add(b, samples[n]) \in S
  PROVE  \E g : Inserting(g, held, samples) /\ Extend(held, samples) = g[Len(samples)]
<1> DEFINE N == Len(samples)
           step == [p \in S \X (1..N) |-> Add(p[1], samples[p[2]])]
<1>1. step \in [S \X (1..N) -> S]
  OBVIOUS
<1>2. \A b \in S, n \in 1..N : step[<<b, n>>] = Add(b, samples[n])
  OBVIOUS
<1> HIDE DEF step
<1>3. PICK g \in [0..N -> S] : Along(g, N, held, step)
  BY <1>1, PrefixRecursion
<1>4. \A n \in 0..N : g[n] = IF n = 0 THEN held ELSE Add(g[n - 1], samples[n])
  <2>1. SUFFICES ASSUME NEW n \in 0..N, n # 0 PROVE g[n] = Add(g[n - 1], samples[n])
    BY <1>3 DEF Along
  <2>2. n \in 1..N /\ g[n - 1] \in S
    BY <2>1
  <2>3. QED
    BY <1>2, <1>3, <2>1, <2>2 DEF Along
<1>5. Inserting(g, held, samples)
  BY <1>4 DEF Inserting
<1> DEFINE chosen == CHOOSE f : Inserting(f, held, samples)
<1>6. Inserting(chosen, held, samples)
  BY <1>5
<1>7. Extend(held, samples) = chosen[N]
  BY Zenon DEF Extend, Inserting
<1>8. QED
  BY <1>6, <1>7

\* prune() of a cell is the last of the lists its comprehension builds.
Keeping(g, held, at) ==
  g = [n \in 0..Len(held) |->
         IF n = 0 THEN <<>>
         ELSE IF at - held[n].at <= Horizon THEN Append(g[n - 1], held[n])
         ELSE g[n - 1]]

LEMMA RecentRecursion ==
  ASSUME NEW held \in Seq(Sample), NEW at
  PROVE  \E g : Keeping(g, held, at) /\ Recent(held, at) = g[Len(held)]
<1> DEFINE N == Len(held)
           S == Seq(Sample)
           step == [p \in S \X (1..N) |->
                      IF at - held[p[2]].at <= Horizon THEN Append(p[1], held[p[2]]) ELSE p[1]]
<1>1. \A n \in 1..N : held[n] \in Sample
  OBVIOUS
<1>2. \A b \in S, s \in Sample : Append(b, s) \in S
  OBVIOUS
<1>3. N \in Nat /\ <<>> \in S
  OBVIOUS
<1> HIDE DEF N, S
<1>4. step \in [S \X (1..N) -> S]
  BY <1>1, <1>2
<1>5. \A b \in S, n \in 1..N :
        step[<<b, n>>] = IF at - held[n].at <= Horizon THEN Append(b, held[n]) ELSE b
  OBVIOUS
<1> HIDE DEF step
<1>6. PICK g \in [0..N -> S] : Along(g, N, <<>>, step)
  BY <1>3, <1>4, PrefixRecursion
<1>7. \A n \in 0..N : g[n] =
        IF n = 0 THEN <<>>
        ELSE IF at - held[n].at <= Horizon THEN Append(g[n - 1], held[n])
        ELSE g[n - 1]
  <2>1. SUFFICES ASSUME NEW n \in 0..N, n # 0
                 PROVE  g[n] = IF at - held[n].at <= Horizon THEN Append(g[n - 1], held[n])
                               ELSE g[n - 1]
    BY <1>6 DEF Along
  <2>2. n \in 1..N /\ g[n - 1] \in S
    BY <1>3, <2>1
  <2>3. g[n] = step[<<g[n - 1], n>>]
    BY <1>6, <2>1 DEF Along
  <2>4. QED
    BY <1>5, <2>2, <2>3
<1>8. Keeping(g, held, at)
  BY <1>7 DEF Keeping, N
<1> DEFINE chosen == CHOOSE f : Keeping(f, held, at)
<1>9. Keeping(chosen, held, at)
  BY <1>8
<1>10. Recent(held, at) = chosen[N]
  BY Zenon DEF Recent, Keeping, N
<1>11. QED
  BY <1>9, <1>10 DEF N

--------------------------------------------------------------------------------
(* What the writes of the buffer do to a cell.                             *)

\* The oldest of a cell that is not empty is one of its places.
LEMMA OldestIsHeld ==
  ASSUME NEW held \in Seq(Sample), held # <<>>
  PROVE  Oldest(held) \in DOMAIN held
<1> DEFINE Before(i, j) == held[i].at < held[j].at \/ (held[i].at = held[j].at /\ i <= j)
           N == Len(held)
           T == {n \in 0..N : n = 0 \/ \E i \in 1..n : \A j \in 1..n : Before(i, j)}
<1>1. N \in Nat /\ N # 0 /\ DOMAIN held = 1..N /\ \A i \in 1..N : held[i].at \in Int
  <2>1. N \in Nat /\ N # 0 /\ DOMAIN held = 1..N /\ \A i \in 1..N : held[i] \in Sample
    OBVIOUS
  <2>2. \A s \in Sample : s.at \in Int
    BY DEF Sample
  <2>3. QED
    BY <2>1, <2>2
<1> HIDE DEF N
<1>2. 0 \in T
  BY <1>1
<1>3. ASSUME NEW n \in 1..N, n - 1 \in T PROVE n \in T
  <2>1. CASE n = 1
    BY <1>1, <2>1
  <2>2. CASE n # 1
    <3>1. PICK i \in 1..(n - 1) : \A j \in 1..(n - 1) : Before(i, j)
      BY <1>3, <2>2
    <3>2. CASE held[n].at < held[i].at
      <4>1. ASSUME NEW j \in 1..n PROVE Before(n, j)
        <5>1. CASE j = n
          BY <5>1
        <5>2. CASE j # n
          <6>1. j \in 1..(n - 1) /\ held[j].at \in Int /\ held[i].at \in Int /\ held[n].at \in Int
            BY <1>1, <3>1, <5>2
          <6>2. Before(i, j)
            BY <3>1, <6>1
          <6>3. held[n].at < held[j].at
            BY <3>2, <6>1, <6>2
          <6>4. QED
            BY <6>3
        <5>3. QED
          BY <5>1, <5>2
      <4>2. n \in 1..n
        OBVIOUS
      <4>3. QED
        BY <4>1, <4>2
    <3>3. CASE ~(held[n].at < held[i].at)
      <4>1. ASSUME NEW j \in 1..n PROVE Before(i, j)
        <5>1. CASE j = n
          <6>1. held[i].at \in Int /\ held[n].at \in Int /\ i <= n
            BY <1>1, <3>1
          <6>2. QED
            BY <3>3, <5>1, <6>1
        <5>2. CASE j # n
          BY <3>1, <5>2
        <5>3. QED
          BY <5>1, <5>2
      <4>2. i \in 1..n /\ n \in 0..N
        BY <1>1, <3>1
      <4>3. \A j \in 1..n : Before(i, j)
        BY <4>1
      <4> HIDE DEF Before
      <4>4. QED
        BY <4>2, <4>3
    <3>4. QED
      BY <3>2, <3>3
  <2>3. QED
    BY <2>1, <2>2
<1> HIDE DEF T
<1>4. N \in T
  BY <1>1, <1>2, <1>3, PrefixInduction
<1>5. \E i \in DOMAIN held : \A j \in DOMAIN held : Before(i, j)
  <2>1. \E i \in 1..N : \A j \in 1..N : Before(i, j)
    BY <1>1, <1>4 DEF T
  <2>2. QED
    BY <1>1, <2>1
<1>6. QED
  BY <1>5 DEF Oldest

LEMMA RemoveAtHolds ==
  ASSUME NEW held \in Seq(Sample), NEW i \in DOMAIN held
  PROVE  /\ RemoveAt(held, i) \in Seq(Sample) /\ Len(RemoveAt(held, i)) = Len(held) - 1
         /\ Range(RemoveAt(held, i)) \subseteq Range(held)
<1> DEFINE left == SubSeq(held, 1, i - 1)
           right == SubSeq(held, i + 1, Len(held))
<1>1. i \in 1..Len(held) /\ Len(held) \in Nat
  OBVIOUS
<1>2. left \in Seq(Sample) /\ Len(left) = i - 1 /\ \A k \in 1..Len(left) : left[k] = held[k]
  BY <1>1
<1>3. /\ right \in Seq(Sample) /\ Len(right) = Len(held) - i
      /\ \A k \in 1..Len(right) : right[k] = held[i + k]
  BY <1>1
<1> HIDE DEF left, right
<1> DEFINE rest == left \o right
<1>4. rest \in Seq(Sample) /\ Len(rest) = Len(held) - 1
  BY <1>1, <1>2, <1>3
<1>5. \A k \in 1..Len(rest) : \E m \in 1..Len(held) : rest[k] = held[m]
  <2>1. SUFFICES ASSUME NEW k \in 1..Len(rest) PROVE \E m \in 1..Len(held) : rest[k] = held[m]
    OBVIOUS
  <2>2. CASE k <= Len(left)
    <3>1. rest[k] = left[k] /\ k \in 1..Len(left)
      BY <1>1, <1>2, <1>3, <1>4, <2>2
    <3>2. k \in 1..Len(held)
      BY <1>1, <1>2, <3>1
    <3>3. QED
      BY <1>2, <3>1, <3>2
  <2>3. CASE ~(k <= Len(left))
    <3>1. rest[k] = right[k - Len(left)] /\ k - Len(left) \in 1..Len(right)
      BY <1>1, <1>2, <1>3, <1>4, <2>3
    <3>2. PICK m \in 1..Len(right) : rest[k] = right[m]
      BY <3>1
    <3>3. i + m \in 1..Len(held)
      BY <1>1, <1>3, <3>2
    <3>4. QED
      BY <1>3, <3>2, <3>3
  <2>4. QED
    BY <2>2, <2>3
<1>6. RemoveAt(held, i) = rest
  BY DEF RemoveAt, left, right
<1> HIDE DEF rest
<1>7. Range(rest) \subseteq Range(held)
  BY <1>4, <1>5 DEF Range
<1>8. QED
  BY <1>4, <1>6, <1>7

\* A buffer whose cells are bounded and hold samples of their own.
Bounded == {b \in [Cells -> Seq(Sample)] :
              \A c \in Cells : Len(b[c]) <= Capacity /\ \A s \in Range(b[c]) : s.cell = c}

\* add(): what a cell holds was in it before, or is the newcomer.
LEMMA AddHolds ==
  ASSUME NEW b \in Bounded, NEW one \in Sample
  PROVE  /\ Add(b, one) \in Bounded
         /\ \A c \in Cells : Range(Add(b, one)[c]) \subseteq Range(b[c]) \cup {one}
<1> DEFINE cell == one.cell
           held == b[cell]
           room == IF Len(held) >= Capacity THEN RemoveAt(held, Oldest(held)) ELSE held
           grown == Append(room, one)
<1>1. /\ cell \in Cells /\ held \in Seq(Sample) /\ Len(held) \in Nat /\ Len(held) <= Capacity
      /\ Capacity \in Nat \ {0} /\ b \in [Cells -> Seq(Sample)]
      /\ \A s \in Range(held) : s.cell = cell
  <2>1. cell \in Cells
    BY DEF Sample
  <2>2. /\ b \in [Cells -> Seq(Sample)]
        /\ \A c \in Cells : Len(b[c]) <= Capacity /\ \A s \in Range(b[c]) : s.cell = c
    BY DEF Bounded
  <2> HIDE DEF cell
  <2>3. QED
    BY <2>1, <2>2, BufferAssumption
<1>2. Add(b, one) = [b EXCEPT ![cell] = grown]
  BY DEF Add
<1>3. /\ room \in Seq(Sample) /\ Len(room) < Capacity /\ Range(room) \subseteq Range(held)
  <2>1. CASE Len(held) >= Capacity
    <3>1. held # <<>>
      BY <1>1, <2>1
    <3>2. Oldest(held) \in DOMAIN held
      BY <1>1, <3>1, OldestIsHeld
    <3> HIDE DEF held
    <3>3. room = RemoveAt(held, Oldest(held))
      BY <2>1
    <3>4. QED
      BY <1>1, <3>2, <3>3, RemoveAtHolds
  <2>2. CASE ~(Len(held) >= Capacity)
    BY <1>1, <2>2
  <2>3. QED
    BY <2>1, <2>2
<1> HIDE DEF room, held
<1>4. grown \in Seq(Sample) /\ Len(grown) <= Capacity
      /\ \A k \in 1..Len(grown) : grown[k] = one \/ (k \in 1..Len(room) /\ grown[k] = room[k])
  BY <1>1, <1>3
<1> HIDE DEF grown
<1>5. Range(grown) \subseteq Range(held) \cup {one}
  <2>1. DOMAIN grown = 1..Len(grown) /\ DOMAIN room = 1..Len(room)
    BY <1>3, <1>4
  <2>2. QED
    BY <1>3, <1>4, <2>1 DEF Range
<1> HIDE DEF cell
<1>6. Add(b, one) \in [Cells -> Seq(Sample)]
      /\ \A c \in Cells : Add(b, one)[c] = IF c = cell THEN grown ELSE b[c]
  BY <1>1, <1>2, <1>4
<1>7. \A c \in Cells : Range(Add(b, one)[c]) \subseteq Range(b[c]) \cup {one}
  BY <1>5, <1>6 DEF held
<1>8. one.cell = cell
  BY DEF cell
<1>9. \A c \in Cells : Len(Add(b, one)[c]) <= Capacity
                      /\ \A s \in Range(Add(b, one)[c]) : s.cell = c
  BY <1>1, <1>4, <1>5, <1>6, <1>8 DEF Bounded
<1>10. QED
  BY <1>6, <1>7, <1>9 DEF Bounded

\* extend(): what a cell holds was in it before, or is of what joined.
LEMMA ExtendHolds ==
  ASSUME NEW b \in Bounded, NEW samples \in Seq(Sample)
  PROVE  /\ Extend(b, samples) \in Bounded
         /\ \A c \in Cells : Range(Extend(b, samples)[c]) \subseteq Range(b[c]) \cup Range(samples)
<1> DEFINE N == Len(samples)
           S == {a \in Bounded : \A c \in Cells : Range(a[c]) \subseteq Range(b[c]) \cup Range(samples)}
<1>1. N \in Nat /\ \A n \in 1..N : samples[n] \in Sample /\ samples[n] \in Range(samples)
  BY DEF Range
<1>2. b \in S
  OBVIOUS
<1>3. \A a \in S, n \in 1..N : Add(a, samples[n]) \in S
  <2>1. SUFFICES ASSUME NEW a \in S, NEW n \in 1..N PROVE Add(a, samples[n]) \in S
    OBVIOUS
  <2>2. /\ Add(a, samples[n]) \in Bounded
        /\ \A c \in Cells : Range(Add(a, samples[n])[c]) \subseteq Range(a[c]) \cup {samples[n]}
    BY <1>1, AddHolds
  <2>3. QED
    BY <1>1, <2>2
<1> HIDE DEF S
<1>4. PICK g : Inserting(g, b, samples) /\ Extend(b, samples) = g[N]
  BY <1>1, <1>2, <1>3, ExtendRecursion
<1> DEFINE T == {n \in 0..N : g[n] \in S}
<1>5. 0 \in T
  BY <1>1, <1>2, <1>4 DEF Inserting
<1>6. ASSUME NEW n \in 1..N, n - 1 \in T PROVE n \in T
  <2>1. n \in 0..N /\ n # 0
    BY <1>1
  <2>2. g[n] = Add(g[n - 1], samples[n])
    BY <1>4, <2>1 DEF Inserting
  <2>3. QED
    BY <1>3, <1>6, <2>1, <2>2
<1> HIDE DEF T
<1>7. N \in T
  BY <1>1, <1>5, <1>6, PrefixInduction
<1>8. Extend(b, samples) \in S
  BY <1>4, <1>7 DEF T
<1>9. QED
  BY <1>8 DEF S

\* prune(): what a cell holds was in it before, and is within the horizon.
LEMMA RecentHolds ==
  ASSUME NEW held \in Seq(Sample), NEW at \in Int
  PROVE  /\ Recent(held, at) \in Seq(Sample) /\ Len(Recent(held, at)) <= Len(held)
         /\ \A s \in Range(Recent(held, at)) : s \in Range(held) /\ at - s.at <= Horizon
<1> DEFINE N == Len(held)
           Good(q, n) == /\ q \in Seq(Sample) /\ Len(q) <= n
                         /\ \A s \in Range(q) : s \in Range(held) /\ at - s.at <= Horizon
<1>1. N \in Nat /\ \A n \in 1..N : held[n] \in Sample /\ held[n] \in Range(held)
  BY DEF Range
<1>2. PICK g : Keeping(g, held, at) /\ Recent(held, at) = g[N]
  BY RecentRecursion
<1> DEFINE T == {n \in 0..N : Good(g[n], n)}
<1>3. 0 \in T
  BY <1>1, <1>2 DEF Keeping, Range
<1>4. ASSUME NEW n \in 1..N, n - 1 \in T PROVE n \in T
  <2>1. n \in 0..N /\ n # 0 /\ Good(g[n - 1], n - 1)
    BY <1>1, <1>4
  <2>2. g[n] = IF at - held[n].at <= Horizon THEN Append(g[n - 1], held[n]) ELSE g[n - 1]
    BY <1>2, <2>1 DEF Keeping
  <2>3. CASE at - held[n].at <= Horizon
    <3> DEFINE q == g[n - 1]
               r == Append(q, held[n])
    <3>1. g[n] = r /\ q \in Seq(Sample) /\ Len(q) \in Nat /\ Len(q) <= n - 1
      BY <2>1, <2>2, <2>3
    <3> HIDE DEF q
    <3>2. /\ r \in Seq(Sample) /\ Len(r) <= n
          /\ \A k \in 1..Len(r) : r[k] = held[n] \/ (k \in 1..Len(q) /\ r[k] = q[k])
      BY <1>1, <3>1
    <3> HIDE DEF r
    <3>3. \A s \in Range(r) : s = held[n] \/ s \in Range(q)
      BY <3>2 DEF Range
    <3>4. Good(r, n)
      BY <1>1, <2>1, <2>3, <3>2, <3>3 DEF q
    <3>5. QED
      BY <2>1, <3>1, <3>4
  <2>4. CASE ~(at - held[n].at <= Horizon)
    <3>1. g[n] = g[n - 1]
      BY <2>2, <2>4
    <3>2. Good(g[n], n)
      BY <2>1, <3>1
    <3>3. QED
      BY <2>1, <3>2
  <2>5. QED
    BY <2>3, <2>4
<1> HIDE DEF T
<1>5. N \in T
  BY <1>1, <1>3, <1>4, PrefixInduction
<1>6. Good(g[N], N)
  BY <1>5 DEF T
<1>7. QED
  BY <1>2, <1>6

LEMMA PruneHolds ==
  ASSUME NEW b \in Bounded, NEW at \in Int
  PROVE  /\ Prune(b, at) \in Bounded
         /\ \A c \in Cells : \A s \in Range(Prune(b, at)[c]) :
              s \in Range(b[c]) /\ at - s.at <= Horizon
<1>1. \A c \in Cells : b[c] \in Seq(Sample) /\ Len(b[c]) <= Capacity
                      /\ \A s \in Range(b[c]) : s.cell = c
  BY DEF Bounded
<1>2. \A c \in Cells : Prune(b, at)[c] = Recent(b[c], at)
  BY DEF Prune
<1>3. \A c \in Cells :
        /\ Recent(b[c], at) \in Seq(Sample) /\ Len(Recent(b[c], at)) <= Len(b[c])
        /\ \A s \in Range(Recent(b[c], at)) : s \in Range(b[c]) /\ at - s.at <= Horizon
  BY <1>1, RecentHolds
<1>4. Prune(b, at) \in [Cells -> Seq(Sample)]
  BY <1>2, <1>3 DEF Prune
<1>5. \A c \in Cells : Len(Prune(b, at)[c]) <= Capacity
  <2>1. SUFFICES ASSUME NEW c \in Cells PROVE Len(Recent(b[c], at)) <= Capacity
    BY <1>2
  <2>2. Len(Recent(b[c], at)) \in Nat /\ Len(b[c]) \in Nat /\ Capacity \in Nat
    BY <1>1, <1>3, BufferAssumption
  <2>3. QED
    BY <1>1, <1>3, <2>2
<1>6. QED
  BY <1>1, <1>2, <1>3, <1>4, <1>5 DEF Bounded

--------------------------------------------------------------------------------
(* The buffer, in the runs of the producer.                                *)

\* What is remembered was published before what is still to be learned from.
Remembered ==
  \A s \in Held(buffer) : s.src <= lastId /\ (inbox # NoSnapshot => s.src < inbox.id)

BufferInv ==
  /\ buffer \in Bounded /\ lastPrune \in Nat \cup {Never} /\ job \in Job \cup {NoJob}
  /\ Remembered /\ BufferBounded /\ ReplayIsHistory

LEMMA HeldAreSamples ==
  ASSUME NEW b \in Bounded
  PROVE  \A s \in Held(b) : s \in Sample /\ s.src \in Nat /\ s.at \in Int
<1>1. \A c \in Cells : b[c] \in Seq(Sample)
  BY DEF Bounded
<1>2. \A c \in Cells : \A s \in Range(b[c]) : s \in Sample
  BY <1>1 DEF Range
<1>3. \A s \in Sample : s.src \in Nat /\ s.at \in Int
  BY DEF Sample
<1>4. QED
  BY <1>2, <1>3 DEF Held

\* Whatever is drawn, what is replayed is of the buffer it is drawn from.
LEMMA BatchReplays ==
  ASSUME NEW held \in Bounded, NEW samples, NEW batch \in Batches(held, samples)
  PROVE  batch.replayed \subseteq Held(held)
<1>1. CASE RestartDue
  BY <1>1, SMT DEF Batches
<1>2. CASE ~RestartDue
  <2>1. PICK draw \in Draws(held, ReplaySize) :
          batch = [trains |-> TRUE, restarting |-> FALSE,
                   replayed |-> {held[place[1]][place[2]] : place \in draw}]
    BY <1>2 DEF Batches, DrawnFrom
  <2>2. draw \subseteq Places(held)
    BY DEF Draws
  <2>3. \A place \in Places(held) : held[place[1]][place[2]] \in Held(held)
    BY DEF Places, Held, Range
  <2>4. QED
    BY <2>1, <2>2, <2>3
<1>3. QED
  BY <1>1, <1>2

\* The points of a snapshot are samples of its own.
LEMMA SnapshotSamples ==
  ASSUME NEW snapshot \in Snapshot
  PROVE  /\ Samples(snapshot) \in Seq(Sample)
         /\ \A s \in Range(Samples(snapshot)) : s.src = snapshot.id
<1>1. snapshot.fresh \in Seq(Observation) /\ snapshot.ts \in Nat /\ snapshot.id \in Nat
  BY DEF Snapshot
<1>2. DOMAIN snapshot.fresh = 1..Len(snapshot.fresh) /\ Len(snapshot.fresh) \in Nat
  BY <1>1
<1>3. \A i \in DOMAIN snapshot.fresh :
        snapshot.fresh[i].cell \in Cells /\ snapshot.ts - snapshot.fresh[i].age \in Int
  <2>1. \A i \in DOMAIN snapshot.fresh : snapshot.fresh[i] \in Observation
    BY <1>1
  <2>2. \A o \in Observation : o.cell \in Cells /\ o.age \in Nat
    BY TrainingAssumption DEF Observation
  <2>3. QED
    BY <1>1, <2>1, <2>2
<1>4. \A i \in DOMAIN snapshot.fresh :
        [cell |-> snapshot.fresh[i].cell, at |-> snapshot.ts - snapshot.fresh[i].age,
         src |-> snapshot.id] \in Sample
  BY <1>1, <1>3 DEF Sample
<1>5. Samples(snapshot) \in [1..Len(snapshot.fresh) -> Sample]
  BY <1>2, <1>4 DEF Samples
<1>6. Samples(snapshot) \in Seq(Sample)
  BY <1>2, <1>5
<1>7. \A s \in Range(Samples(snapshot)) : s.src = snapshot.id
  <2>1. DOMAIN Samples(snapshot) = DOMAIN snapshot.fresh
        /\ \A i \in DOMAIN snapshot.fresh : Samples(snapshot)[i].src = snapshot.id
    BY DEF Samples
  <2>2. QED
    BY <2>1 DEF Range
<1>8. QED
  BY <1>6, <1>7

LEMMA BufferInit == Init => BufferInv
<1> SUFFICES ASSUME Init PROVE BufferInv
  OBVIOUS
<1>1. buffer = [c \in Cells |-> <<>>] /\ \A c \in Cells : buffer[c] = <<>>
  BY DEF Init, Empty
<1>2. \A c \in Cells : Range(buffer[c]) = {}
  BY <1>1 DEF Range
<1>3. buffer \in Bounded
  BY <1>1, <1>2, BufferAssumption DEF Bounded
<1>4. Remembered /\ BufferBounded
  BY <1>1, <1>2, BufferAssumption DEF Remembered, BufferBounded, Held
<1>5. lastPrune \in Nat \cup {Never} /\ job \in Job \cup {NoJob} /\ ReplayIsHistory
  BY DEF Init, ReplayIsHistory
<1>6. QED
  BY <1>3, <1>4, <1>5 DEF BufferInv

\* Everything but a step that begins leaves the buffer alone.
LEMMA BufferUntouched ==
  ASSUME WorkInv, BufferInv, UNCHANGED <<buffer, lastPrune>>, job' \in {job, NoJob},
         lastId <= lastId', lastId' \in Nat,
         \/ inbox' = inbox
         \/ inbox'.id \in Nat /\ lastId < inbox'.id
  PROVE  BufferInv'
<1>1. Remembered'
  <2>1. SUFFICES ASSUME NEW s \in Held(buffer)
                 PROVE  s.src <= lastId' /\ (inbox' # NoSnapshot => s.src < inbox'.id)
    BY DEF Remembered, Held
  <2>2. s.src \in Nat /\ s.src <= lastId /\ lastId \in Nat
        /\ (inbox # NoSnapshot => s.src < inbox.id)
    BY HeldAreSamples DEF BufferInv, Remembered, WorkInv, WorkTypeOK
  <2>3. s.src <= lastId'
    BY <2>2
  <2>4. CASE inbox' = inbox
    BY <2>2, <2>3, <2>4
  <2>5. CASE inbox'.id \in Nat /\ lastId < inbox'.id
    BY <2>2, <2>3, <2>5
  <2>6. QED
    BY <2>4, <2>5
<1>2. BufferBounded'
  BY DEF BufferInv, BufferBounded, Held
<1>3. ReplayIsHistory'
  BY DEF BufferInv, ReplayIsHistory
<1>4. QED
  BY <1>1, <1>2, <1>3 DEF BufferInv

\* A step that begins: what its prune left, and then what its own snapshot brought.
LEMMA BufferGrows ==
  ASSUME WorkInv, BufferInv, inbox # NoSnapshot, inbox' = NoSnapshot, lastId' = lastId,
         NEW held, held = Prune(buffer, now), NEW samples, samples = Samples(inbox),
         lastPrune' = now, buffer' = Extend(held, samples)
  PROVE  /\ held \in Bounded /\ buffer' \in Bounded
         /\ \A s \in Held(held) : s.src < inbox.id /\ now - s.at <= Horizon
         /\ Remembered' /\ BufferBounded'
<1>1. /\ inbox \in Snapshot /\ inbox.id \in Nat /\ now \in Nat /\ lastId \in Nat
      /\ inbox.id <= lastId
  BY DEF WorkInv, WorkTypeOK, InOrder, Snapshot
<1>2. samples \in Seq(Sample) /\ \A s \in Range(samples) : s.src = inbox.id
  BY <1>1, SnapshotSamples
<1>3. held \in Bounded
      /\ \A c \in Cells : \A s \in Range(held[c]) : s \in Range(buffer[c]) /\ now - s.at <= Horizon
  BY <1>1, PruneHolds DEF BufferInv
<1>4. buffer' \in Bounded
      /\ \A c \in Cells : Range(buffer'[c]) \subseteq Range(held[c]) \cup Range(samples)
  BY <1>2, <1>3, ExtendHolds
<1>5. \A s \in Held(held) : s \in Held(buffer) /\ now - s.at <= Horizon
  BY <1>3 DEF Held
<1>6. \A s \in Held(held) : s.src \in Nat /\ s.src < inbox.id
  BY <1>5, HeldAreSamples DEF BufferInv, Remembered
<1>7. \A c \in Cells : \A s \in Range(buffer'[c]) :
        /\ s.cell = c
        /\ \/ s \in Held(held)
           \/ s.src = inbox.id
  <2>1. \A c \in Cells : \A s \in Range(held[c]) : s \in Held(held)
    BY DEF Held
  <2>2. QED
    BY <1>2, <1>4, <2>1 DEF Bounded
<1>8. \A t \in Held(buffer') : t.src \in Nat /\ t.src <= inbox.id
  <2>1. \A t \in Held(buffer') : t \in Held(held) \/ t.src = inbox.id
    BY <1>7 DEF Held
  <2>2. QED
    BY <1>1, <1>6, <2>1
<1>9. Remembered'
  <2>1. \A t \in Held(buffer') : t.src <= lastId
    BY <1>1, <1>8
  <2>2. QED
    BY <2>1 DEF Remembered, Held
<1>10. BufferBounded'
  <2>1. \A c \in Cells : \A s \in Range(buffer'[c]) :
          s.cell = c /\ (now - s.at <= Horizon \/ \A t \in Held(buffer') : t.src <= s.src)
    BY <1>5, <1>7, <1>8
  <2>2. \A c \in Cells : Len(buffer'[c]) <= Capacity
    BY <1>4 DEF Bounded
  <2>3. QED
    BY <2>1, <2>2 DEF BufferBounded, Held
<1>11. QED
  BY <1>3, <1>4, <1>5, <1>6, <1>9, <1>10

LEMMA BeginBuffer ==
  ASSUME WorkInv, BufferInv, Begin
  PROVE  BufferInv'
<1>1. /\ inbox # NoSnapshot /\ job = NoJob /\ inbox' = NoSnapshot
      /\ UNCHANGED <<now, lastId, net, lastRestart, published, answer, outbox>>
      /\ inbox.id \in Nat \ {0} /\ inbox.ts \in Nat /\ now \in Nat /\ lastId \in Nat
      /\ job'.id = inbox.id
  BY BeginShape DEF WorkInv, WorkTypeOK, Snapshot
<1>2. CASE inbox.fresh = <<>>
  <2>1. /\ job' = [id |-> inbox.id, ts |-> inbox.ts, at |-> now, trains |-> FALSE,
                   restarting |-> FALSE, replayed |-> {}]
        /\ UNCHANGED <<buffer, lastPrune>>
    BY <1>2, Zenon DEF Begin
  <2>2. job' \in Job /\ ReplayIsHistory'
    BY <1>1, <2>1 DEF Job, ReplayIsHistory
  <2>3. Remembered'
    BY <1>1, <2>1 DEF BufferInv, Remembered, Held
  <2>4. BufferBounded'
    BY <2>1 DEF BufferInv, BufferBounded, Held
  <2>5. QED
    BY <2>1, <2>2, <2>3, <2>4 DEF BufferInv
<1>3. CASE inbox.fresh # <<>>
  <2> DEFINE held == Prune(buffer, now)
             samples == Samples(inbox)
  <2>1. lastPrune' = now /\ buffer' = Extend(held, samples)
    BY <1>3 DEF Begin
  <2>2. PICK batch \in Batches(held, samples) :
          job' = [id |-> inbox.id, ts |-> inbox.ts, at |-> now,
                  trains |-> batch.trains, restarting |-> batch.restarting,
                  replayed |-> batch.replayed]
    BY <1>3 DEF Begin
  <2> HIDE DEF held, samples
  <2>3. /\ held \in Bounded /\ buffer' \in Bounded
        /\ \A s \in Held(held) : s.src < inbox.id /\ now - s.at <= Horizon
        /\ Remembered' /\ BufferBounded'
    BY <1>1, <2>1, BufferGrows DEF held, samples
  <2>4. batch.trains \in BOOLEAN /\ batch.restarting \in BOOLEAN
    BY BatchShape
  <2>5. batch.replayed \subseteq Held(held)
    BY <2>3, BatchReplays
  <2>6. Held(held) \subseteq Sample
    BY <2>3, HeldAreSamples
  <2>7. job' \in Job
    BY <1>1, <2>2, <2>4, <2>5, <2>6 DEF Job
  <2>8. ReplayIsHistory'
    BY <2>2, <2>3, <2>5 DEF ReplayIsHistory
  <2>9. QED
    BY <1>1, <2>1, <2>3, <2>7, <2>8 DEF BufferInv
<1>4. QED
  BY <1>2, <1>3

LEMMA BufferNext ==
  ASSUME WorkInv, BufferInv, [Next]_vars
  PROVE  BufferInv'
<1>1. lastId \in Nat /\ now \in Nat /\ lastId <= lastId
  BY DEF WorkInv, WorkTypeOK
<1>2. CASE UNCHANGED vars \/ Tick
  BY <1>1, <1>2, BufferUntouched DEF vars, Tick, memory
<1>3. CASE \E ts \in 0..(MaxTime + MaxAhead), fresh \in Fresh : PublishSnapshot(ts, fresh)
  <2>1. PICK ts \in 0..(MaxTime + MaxAhead), fresh \in Fresh : PublishSnapshot(ts, fresh)
    BY <1>3
  <2>2. /\ lastId <= now /\ lastId' = now + 1 /\ inbox'.id = now + 1
        /\ UNCHANGED <<buffer, lastPrune, job>>
    BY <2>1 DEF PublishSnapshot, memory
  <2>3. lastId < inbox'.id /\ lastId <= lastId' /\ lastId' \in Nat
    BY <1>1, <2>2
  <2>4. QED
    BY <2>2, <2>3, BufferUntouched
<1>4. CASE Begin
  BY <1>4, BeginBuffer
<1>5. CASE \E outcome \in Outcomes : FinishStep(outcome) \/ FinishUnheard(outcome)
  <2>1. UNCHANGED <<buffer, lastPrune, lastId, inbox>> /\ job' = NoJob
    BY <1>5 DEF FinishStep, FinishUnheard
  <2>2. QED
    BY <1>1, <2>1, BufferUntouched
<1>6. QED
  BY <1>2, <1>3, <1>4, <1>5 DEF Next

\* The buffer, whatever add() evicted and prune() forgot: every cell is bounded and holds its
\* own, and all of it was published before what is still to be learned from.
THEOREM BufferInvariant == Spec => []BufferInv
<1>1. QED
  BY BufferInit, BufferNext, WorkInvariant, PTL DEF Spec

\* Every reachable state of the producer has the types TypeOK gives, the sequences that
\* add(), extend() and prune() rebuild one sample after another included.
THEOREM TrainingTypes == Spec => []TypeOK
<1>1. WorkInv /\ BufferInv => TypeOK
  BY DEF WorkInv, BufferInv, Bounded, TypeOK
<1>2. QED
  BY <1>1, WorkInvariant, BufferInvariant, PTL

\* No step is replayed a point of its own snapshot, or one the horizon had excluded by then,
\* on any path through prune, restart and draw (TrainOnSnapshot._build_batch).
THEOREM ReplayedIsHistory == Spec => []ReplayIsHistory
<1>1. BufferInv => ReplayIsHistory
  BY DEF BufferInv
<1>2. QED
  BY <1>1, BufferInvariant, PTL

\* No cell exceeds its capacity or holds another's sample, and what is older than the last
\* prune's horizon joined after that prune (ReplayBuffer).
THEOREM BufferStaysBounded == Spec => []BufferBounded
<1>1. BufferInv => BufferBounded
  BY DEF BufferInv
<1>2. QED
  BY <1>1, BufferInvariant, PTL
================================================================================
