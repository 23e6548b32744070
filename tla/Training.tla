-------------------------------- MODULE Training --------------------------------
(***************************************************************************)
(* The neural producer of one market                                       *)
(* (neural_surface/application/train_on_snapshot.py): a worker thread      *)
(* trains one network, snapshot after snapshot, on fresh observations and  *)
(* a draw from the replay buffer, or from scratch on the whole buffer when *)
(* a restart is due, against the memory of application/training_state.py.  *)
(*                                                                         *)
(* Data: a network is named by the cycle that last trained it and by the   *)
(* instant it was last trained from scratch; what a step makes of it is    *)
(* any of the outcomes the code tells apart.                               *)
(***************************************************************************)
EXTENDS ReplayBuffer

CONSTANTS
  ReplaySize,     \* replay_size
  RestartAfter,   \* restart_seconds, or Never
  Ages,           \* how old an observation of a snapshot may be
  MaxFresh,       \* bound on the observations of one snapshot
  MaxAhead,       \* how far a venue's clock may run ahead of ours
  MayCancel,      \* whether runs are cancelled and started again
  MaxTime         \* bound on the clock

Never == -1

\* TrainingSchedule.__post_init__
ASSUME TrainingAssumption ==
  /\ ReplaySize \in Nat
  /\ RestartAfter = Never \/ RestartAfter \in Nat \ {0}
  /\ Ages \subseteq Nat
  /\ MaxFresh \in Nat /\ MaxAhead \in Nat /\ MayCancel \in BOOLEAN /\ MaxTime \in Nat

VARIABLES
  now,           \* the engine's clock
  lastId,        \* rank of the last snapshot published, one per instant at most
  inbox,         \* mailbox of the runner: a snapshot, or NoSnapshot
  job,           \* the step on the worker thread, or NoJob
  buffer,        \* ReplayBuffer._cells
  lastPrune,     \* ReplayBuffer._last_prune, or Never
  net,           \* TrainingState._surface, or NoNet
  lastRestart,   \* TrainingState._last_restart, or Never
  published,     \* TrainingState._last_published, or NoSurface
  answer,        \* what the last cycle that was not cancelled published
  outbox         \* what Risk was last offered, or NoSurface

memory == <<buffer, lastPrune, net, lastRestart, published>>
vars == <<now, lastId, inbox, job, memory, answer, outbox>>

Observation == [cell : Cells, age : Ages]
Snapshot == [id : Nat \ {0}, ts : Nat, fresh : Seq(Observation)]
NoSnapshot == [id |-> 0]

\* trains: whether there is a batch at all; replayed: the history in it.
Job == [id : Nat \ {0}, ts : Nat, at : Nat, trains : BOOLEAN, restarting : BOOLEAN,
        replayed : SUBSET Sample]
NoJob == [id |-> 0]

\* root: the instant of its training from scratch; usable: it evaluates on the gate's mesh.
Net == [src : Nat \ {0}, root : Nat, usable : BOOLEAN]
NoNet == [src |-> 0, root |-> Never]

\* clean: it passed the gate (ghost).
Surface == [src : Nat \ {0}, ts : Nat, stale : BOOLEAN, clean : BOOLEAN]
NoSurface == [src |-> 0, stale |-> FALSE]

Kinds == {"CalibrationFailed", "SurfaceCalibrated"}

Init ==
  /\ now = 0
  /\ lastId = 0
  /\ inbox = NoSnapshot
  /\ job = NoJob
  /\ buffer = Empty
  /\ lastPrune = Never
  /\ net = NoNet
  /\ lastRestart = Never
  /\ published = NoSurface
  /\ answer = [id |-> 0, said |-> Kinds]
  /\ outbox = NoSurface

Tick ==
  /\ now < MaxTime
  /\ now' = now + 1
  /\ UNCHANGED <<lastId, inbox, job, memory, answer, outbox>>

\* A snapshot, whichever of its quotes admit a volatility, over whatever was waiting.
PublishSnapshot(ts, fresh) ==
  /\ lastId <= now
  /\ ts <= now + MaxAhead
  /\ lastId' = now + 1
  /\ inbox' = [id |-> now + 1, ts |-> ts, fresh |-> fresh]
  /\ UNCHANGED <<now, job, memory, answer, outbox>>

\* _observed_at(): the instant the venue touched the quote, from its published age.
Samples(snapshot) ==
  [i \in DOMAIN snapshot.fresh |->
     [cell |-> snapshot.fresh[i].cell, at |-> snapshot.ts - snapshot.fresh[i].age,
      src |-> snapshot.id]]

\* is_restart_due(): never before the first step that is kept.
RestartDue ==
  RestartAfter # Never /\ lastRestart # Never /\ now - lastRestart >= RestartAfter

ExtendedFirst(held, samples) == Extend(held, samples)

\* What the draw is made from: the buffer as it was before this snapshot joined it.
DrawnFrom(held, samples) == held

\* _build_batch(): the whole buffer on a restart, which fails if nothing in it carries a
\* weight, or the fresh points and a draw.
Batches(held, samples) ==
  IF RestartDue
    THEN {[trains |-> weighty /\ Held(held) # {}, restarting |-> TRUE,
           replayed |-> Held(held)] : weighty \in BOOLEAN}
    ELSE {[trains |-> TRUE, restarting |-> FALSE,
           replayed |-> {DrawnFrom(held, samples)[place[1]][place[2]] : place \in draw}] :
            draw \in Draws(DrawnFrom(held, samples), ReplaySize)}

\* handle() up to the learner: nothing to learn from leaves everything as it was; otherwise
\* prune, decide, draw, and only then remember the snapshot's own points.
Begin ==
  /\ job = NoJob
  /\ inbox # NoSnapshot
  /\ inbox' = NoSnapshot
  /\ IF inbox.fresh = <<>>
       THEN /\ job' = [id |-> inbox.id, ts |-> inbox.ts, at |-> now, trains |-> FALSE,
                       restarting |-> FALSE, replayed |-> {}]
            /\ UNCHANGED <<buffer, lastPrune>>
       ELSE LET held == Prune(buffer, now)
                samples == Samples(inbox)
            IN  /\ lastPrune' = now
                /\ buffer' = Extend(held, samples)
                /\ \E batch \in Batches(held, samples) :
                     job' = [id |-> inbox.id, ts |-> inbox.ts, at |-> now,
                             trains |-> batch.trains, restarting |-> batch.restarting,
                             replayed |-> batch.replayed]
  /\ UNCHANGED <<now, lastId, net, lastRestart, published, answer, outbox>>

(* "raised": the learner raised a NeuralSurfaceError; "diverged": the network does not *)
(* evaluate on the gate's mesh; "overflowed": it does, and the gate's own formula      *)
(* raises a plain ValueError; "gated": it shows too much arbitrage there;              *)
(* "unpublishable": it does not evaluate on the published axes.                        *)
Outcomes == {"raised", "diverged", "overflowed", "gated", "unpublishable", "clean"}

KeptWhatever(outcome) == job.trains /\ outcome # "raised"

\* The steps whose network is the state training continues from.
Kept(outcome) == job.trains /\ outcome \in {"gated", "unpublishable", "clean"}

\* The surface contract refuses one calibrated before the instant it describes.
Publishable(outcome) == job.trains /\ outcome = "clean" /\ now >= job.ts

\* The steps that leave handle() by an exception it does not catch.
Raises(outcome) ==
  job.trains /\ (outcome = "overflowed" \/ (outcome = "clean" /\ now < job.ts))

RestartedOnDecision(outcome) ==
  IF job.restarting \/ (Kept(outcome) /\ lastRestart = Never) THEN job.at ELSE lastRestart

\* restarted() and trained(): a restart moves the schedule once it is kept, and the first
\* step kept starts it.
RestartAfterStep(outcome) ==
  IF Kept(outcome) /\ (job.restarting \/ lastRestart = Never) THEN job.at ELSE lastRestart

\* update(): from scratch without a previous network, else from its weights.
Update(previous, outcome) ==
  [src |-> job.id, root |-> IF previous = NoNet THEN job.at ELSE previous.root,
   usable |-> outcome \notin {"diverged", "overflowed"}]

\* A restart is handed no previous network.
TrainedNet(outcome) == Update(IF job.restarting THEN NoNet ELSE net, outcome)

SurfaceOf(outcome) ==
  [src |-> job.id, ts |-> job.ts, stale |-> FALSE, clean |-> outcome \in {"unpublishable", "clean"}]

RemembersGated(outcome) ==
  IF Publishable(outcome) \/ (job.trains /\ outcome = "gated") THEN SurfaceOf(outcome)
  ELSE published

\* remember()
PublishedAfter(outcome) == IF Publishable(outcome) THEN SurfaceOf(outcome) ELSE published

Remember(outcome) ==
  /\ net' = IF Kept(outcome) THEN TrainedNet(outcome) ELSE net
  /\ lastRestart' = RestartAfterStep(outcome)
  /\ published' = PublishedAfter(outcome)

\* What the cycle says: its surface; nothing, the runner having counted the ValueError; or
\* a failure, and the last published surface behind it.
Say(outcome) ==
  IF Publishable(outcome) THEN
    /\ answer' = [id |-> job.id, said |-> {"SurfaceCalibrated"}]
    /\ outbox' = SurfaceOf(outcome)
  ELSE IF Raises(outcome) THEN
    /\ answer' = [id |-> job.id, said |-> {}]
    /\ UNCHANGED outbox
  ELSE
    /\ answer' = [id |-> job.id,
                  said |-> IF published = NoSurface THEN {"CalibrationFailed"} ELSE Kinds]
    /\ outbox' = IF published = NoSurface THEN outbox ELSE [published EXCEPT !.stale = TRUE]

\* handle() from the learner's answer on, and the publication of what it returns.
FinishStep(outcome) ==
  /\ job # NoJob
  /\ Remember(outcome)
  /\ Say(outcome)
  /\ job' = NoJob
  /\ UNCHANGED <<now, lastId, inbox, buffer, lastPrune>>

\* The run ends while the worker trains: shutdown() waits for it, nobody hears it.
FinishUnheard(outcome) ==
  /\ MayCancel
  /\ job # NoJob
  /\ Remember(outcome)
  /\ job' = NoJob
  /\ UNCHANGED <<now, lastId, inbox, buffer, lastPrune, answer, outbox>>

Fresh == UNION {[1..n -> Observation] : n \in 0..MaxFresh}

Next ==
  \/ Tick
  \/ \E ts \in 0..(MaxTime + MaxAhead), fresh \in Fresh : PublishSnapshot(ts, fresh)
  \/ Begin
  \/ \E outcome \in Outcomes : FinishStep(outcome) \/ FinishUnheard(outcome)

Spec == Init /\ [][Next]_vars

--------------------------------------------------------------------------------
(* Properties.                                                             *)

WorkTypeOK ==
  /\ now \in Nat
  /\ lastId \in Nat
  /\ inbox \in Snapshot \cup {NoSnapshot}
  /\ job.id \in Nat
  /\ job # NoJob =>
       /\ job.id # 0 /\ job.ts \in Nat /\ job.at \in Nat
       /\ job.trains \in BOOLEAN /\ job.restarting \in BOOLEAN
  /\ net \in Net \cup {NoNet}
  /\ lastRestart \in Nat \cup {Never}
  /\ published \in Surface \cup {NoSurface}
  /\ answer \in [id : Nat, said : SUBSET Kinds]
  /\ outbox \in Surface \cup {NoSurface}

TypeOK ==
  /\ WorkTypeOK
  /\ job \in Job \cup {NoJob}
  /\ buffer \in [Cells -> Seq(Sample)]
  /\ lastPrune \in Nat \cup {Never}

\* "No cell exceeds its capacity, and nothing older than the last prune's horizon is held"
\* (replay_buffer.py), but for what joined after that prune; and a sample lies in its cell.
BufferBounded ==
  \A c \in Cells :
    /\ Len(buffer[c]) <= Capacity
    /\ \A s \in Range(buffer[c]) :
         s.cell = c /\ (lastPrune - s.at <= Horizon \/ \A t \in Held(buffer) : t.src <= s.src)

\* A snapshot's own points are never replayed to the step they are fresh in, nor is anything
\* the horizon had excluded by then: they would train the network twice.
ReplayIsHistory ==
  job # NoJob => \A s \in job.replayed : s.src < job.id /\ job.at - s.at <= Horizon

\* The schedule is measured from the last training from scratch whose network was kept: a
\* restart that failed, diverged or found no batch is still due, and only such a training
\* moves it, no sooner than restart_seconds after the one before.
ScheduleIsHonest ==
  /\ lastRestart = net.root
  /\ job # NoJob /\ job.restarting => lastRestart # Never /\ job.at - lastRestart >= RestartAfter

\* A network that does not evaluate is never continued from, and nothing offered to Risk,
\* republications included, failed the gate or is newer than the training behind it.
NothingBrokenIsKept ==
  /\ net # NoNet => net.usable
  /\ published # NoSurface => published.clean
  /\ outbox.src <= published.src /\ published.src <= net.src

\* The neural producer reacts to snapshots, failures and interruptions as any producer does.
Contract ==
  INSTANCE ProducerContract WITH
    MayAbandon <- MayCancel, MayRaise <- TRUE, waiting <- inbox.id, working <- job.id,
    good <- published.src, offered <- outbox.src, stale <- outbox.stale
KeepsContract == Contract!Spec

\* What makes them inductive: what is newer was published later.
InOrder ==
  /\ lastId <= now + 1
  /\ inbox.id <= lastId /\ job.id <= lastId /\ net.src <= lastId
  /\ inbox # NoSnapshot => job.id < inbox.id /\ net.src < inbox.id
  /\ job # NoJob => net.src < job.id /\ job.at <= now

WorkInv == WorkTypeOK /\ ScheduleIsHonest /\ NothingBrokenIsKept /\ InOrder
================================================================================
