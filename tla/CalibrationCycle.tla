--------------------------- MODULE CalibrationCycle ---------------------------
(***************************************************************************)
(* One parametric producer on one market: snapshots stamped with a         *)
(* reconciled venue instant (market_data/application/acl.py) wait in a     *)
(* one-slot mailbox, a worker thread fits them one at a time               *)
(* (application/calibrate_on_snapshot.py) against the memory of earlier    *)
(* cycles (application/calibration_state.py), and what comes back is       *)
(* published to Risk's mailbox unless the run was cancelled meanwhile.     *)
(*                                                                         *)
(* Data: a slice is its expiry; which slices invert, fit and evaluate on   *)
(* the grid is any choice.  Fields marked (ghost) are bookkeeping for the  *)
(* properties and are read by no action.                                   *)
(***************************************************************************)
EXTENDS Integers

CONSTANTS
  Expiries,       \* listed expiry instants
  MaxSkew,        \* max_skew_seconds
  MaxAhead,       \* how far a venue's clock may run ahead of ours
  MayCancel,      \* whether runs are cancelled and started again
  MaxTime         \* bound on the clock

ASSUME CycleAssumption ==
  /\ Expiries \subseteq Nat \ {0}
  /\ MaxSkew \in Nat \ {0}
  /\ MaxAhead \in Nat
  /\ MayCancel \in BOOLEAN
  /\ MaxTime \in Nat

VARIABLES
  now,        \* the engine's clock
  stamp,      \* the freshest venue stamp the chain holds, or Unstamped
  lastId,     \* sequence of the last snapshot published, one per instant at most
  inbox,      \* mailbox of the calibration runner: a snapshot, or NoSnapshot
  task,       \* the snapshot on the worker thread, or NoSnapshot
  warm,       \* CalibrationState._warm_start: [expiry -> id of the snapshot fitted], or 0
  lastGood,   \* CalibrationState._last_good: a surface, or NoSurface
  answer,     \* what the last cycle that was not cancelled published
  outbox      \* mailbox of the risk runner: a surface, or NoSurface

cycleVars == <<now, stamp, lastId, inbox, task, warm, lastGood, answer, outbox>>

Unstamped == -1
Instants == Nat

Snapshot == [id : Nat \ {0}, ts : Instants, local : Instants, degraded : BOOLEAN,
             slices : (SUBSET Expiries) \ {{}}, data : Instants]      \* data (ghost)
NoSnapshot == [id |-> 0]

Statuses == {"OK", "DEGRADED", "STALE_REPUBLISH"}
Surface == [src : Nat \ {0}, ts : Instants, status : Statuses, rows : (SUBSET Expiries) \ {{}},
            quoted : SUBSET Expiries, slices : SUBSET Expiries, data : Instants]
                                               \* quoted, slices, data (ghost)
NoSurface == [src |-> 0]

Kinds == {"CalibrationFailed", "SurfaceCalibrated"}
Answers == [id : Nat, said : SUBSET Kinds]
NoAnswer == [id |-> 0, said |-> Kinds]

Init ==
  /\ now = 0
  /\ stamp = Unstamped
  /\ lastId = 0
  /\ inbox = NoSnapshot
  /\ task = NoSnapshot
  /\ warm = [e \in Expiries |-> 0]
  /\ lastGood = NoSurface
  /\ answer = NoAnswer
  /\ outbox = NoSurface

TrustsTheFuture(exchange, local) == IF local - exchange > MaxSkew THEN local ELSE exchange

\* reconcile_exchange_instant(): a venue clock too far from ours, either way, is not
\* evidence about anything.
Reconcile(exchange, local) ==
  IF exchange - local > MaxSkew \/ local - exchange > MaxSkew THEN local ELSE exchange

Tick ==
  /\ now < MaxTime
  /\ now' = now + 1
  /\ UNCHANGED <<stamp, lastId, inbox, task, warm, lastGood, answer, outbox>>

\* The freshest stamp moves: a quote arrives, late or from a fast clock, or the contract
\* that carried it dies.
Quote(s) ==
  /\ s # stamp
  /\ s <= now + MaxAhead
  /\ stamp' = s
  /\ UNCHANGED <<now, lastId, inbox, task, warm, lastGood, answer, outbox>>

\* to_market_snapshot() of an unexpired, non-empty view, put over whatever was waiting.
\* The heartbeat publishes without any new quote.
PublishSnapshot(degraded, slices) ==
  /\ stamp # Unstamped
  /\ lastId <= now
  /\ slices # {} /\ \A e \in slices : e > now
  /\ lastId' = now + 1
  /\ inbox' = [id |-> now + 1, ts |-> Reconcile(stamp, now), local |-> now,
               degraded |-> degraded, slices |-> slices, data |-> stamp]
  /\ UNCHANGED <<now, stamp, task, warm, lastGood, answer, outbox>>

Peek ==
  /\ task = NoSnapshot
  /\ inbox # NoSnapshot
  /\ task' = inbox
  /\ UNCHANGED <<now, stamp, lastId, inbox, warm, lastGood, answer, outbox>>

SkipsDegraded ==
  /\ task = NoSnapshot
  /\ inbox # NoSnapshot /\ ~inbox.degraded
  /\ task' = inbox
  /\ inbox' = NoSnapshot
  /\ UNCHANGED <<now, stamp, lastId, warm, lastGood, answer, outbox>>

\* The runner takes the snapshot and hands it to its producer's one worker.
StartFit ==
  /\ task = NoSnapshot
  /\ inbox # NoSnapshot
  /\ task' = inbox
  /\ inbox' = NoSnapshot
  /\ UNCHANGED <<now, stamp, lastId, warm, lastGood, answer, outbox>>

\* _status(), over the slices attempted and the ones accepted.
Status(snapshot, attempted, accepted) ==
  IF snapshot.degraded \/ accepted # attempted THEN "DEGRADED" ELSE "OK"

\* to_calibrated_surface(): the accepted slices that evaluate on the grid.
SurfaceOf(snapshot, attempted, accepted, rows) ==
  [src |-> snapshot.id, ts |-> snapshot.ts, status |-> Status(snapshot, attempted, accepted),
   rows |-> rows, quoted |-> attempted, slices |-> snapshot.slices, data |-> snapshot.data]

Restamped(surface) ==
  [surface EXCEPT !.status = "STALE_REPUBLISH", !.ts = now]

\* as_stale_republish()
Republished(surface) == [surface EXCEPT !.status = "STALE_REPUBLISH"]

NeverPruned(id, attempted, accepted) ==
  [e \in Expiries |-> IF e \in accepted THEN id ELSE warm[e]]

\* accept(): forget the expiries no longer quoted, remember the fits accepted.
WarmAfter(id, attempted, accepted) ==
  [e \in Expiries |-> IF e \in accepted THEN id ELSE IF e \in attempted THEN warm[e] ELSE 0]

KeepsFirst(attempted, accepted, rows) ==
  IF rows # {} /\ now >= task.ts
    THEN /\ warm' = WarmAfter(task.id, attempted, accepted)
         /\ lastGood' = IF lastGood = NoSurface THEN SurfaceOf(task, attempted, accepted, rows)
                        ELSE lastGood
    ELSE UNCHANGED <<warm, lastGood>>

AcceptsFirst(attempted, accepted, rows) ==
  /\ warm' = IF rows # {} THEN WarmAfter(task.id, attempted, accepted) ELSE warm
  /\ lastGood' = IF rows # {} /\ now >= task.ts THEN SurfaceOf(task, attempted, accepted, rows)
                 ELSE lastGood

\* The memory of the use case after a cycle.  It is only touched by a surface its contract
\* accepts: one calibrated before the instant it describes raises out of handle().
Remember(attempted, accepted, rows) ==
  IF rows # {} /\ now >= task.ts
    THEN /\ warm' = WarmAfter(task.id, attempted, accepted)
         /\ lastGood' = SurfaceOf(task, attempted, accepted, rows)
    ELSE UNCHANGED <<warm, lastGood>>

RefusalSays == IF lastGood = NoSurface THEN {"CalibrationFailed"} ELSE Kinds

\* What the cycle says: its surface; nothing, the runner having counted the ValueError;
\* or, with no row to publish, a failure and the previous surface behind it.
Say(attempted, accepted, rows) ==
  IF rows = {} THEN
    /\ answer' = [id |-> task.id, said |-> RefusalSays]
    /\ outbox' = IF lastGood = NoSurface THEN outbox ELSE Republished(lastGood)
  ELSE IF now < task.ts THEN
    /\ answer' = [id |-> task.id, said |-> {}]
    /\ UNCHANGED outbox
  ELSE
    /\ answer' = [id |-> task.id, said |-> {"SurfaceCalibrated"}]
    /\ outbox' = SurfaceOf(task, attempted, accepted, rows)

\* handle(): whichever slices invert are attempted, whichever fits pass are accepted,
\* whichever evaluate are rows; a CalibrationError accepts none.  Then the loop publishes.
FinishFit(attempted, accepted, rows) ==
  /\ task # NoSnapshot
  /\ rows \subseteq accepted /\ accepted \subseteq attempted /\ attempted \subseteq task.slices
  /\ Remember(attempted, accepted, rows)
  /\ Say(attempted, accepted, rows)
  /\ task' = NoSnapshot
  /\ UNCHANGED <<now, stamp, lastId, inbox>>

\* The run ends while the worker fits: nobody awaits the result, shutdown() still does,
\* and the next run starts from the memory it leaves.
FinishUnheard(attempted, accepted, rows) ==
  /\ MayCancel
  /\ task # NoSnapshot
  /\ rows \subseteq accepted /\ accepted \subseteq attempted /\ attempted \subseteq task.slices
  /\ Remember(attempted, accepted, rows)
  /\ task' = NoSnapshot
  /\ UNCHANGED <<now, stamp, lastId, inbox, answer, outbox>>

Finish ==
  \E attempted, accepted, rows \in SUBSET Expiries : FinishFit(attempted, accepted, rows)

CycleNext ==
  \/ Tick
  \/ \E s \in 0..(MaxTime + MaxAhead) : Quote(s)
  \/ \E degraded \in BOOLEAN, slices \in SUBSET Expiries : PublishSnapshot(degraded, slices)
  \/ StartFit
  \/ Finish
  \/ \E attempted, accepted, rows \in SUBSET Expiries : FinishUnheard(attempted, accepted, rows)

CycleSpec == Init /\ [][CycleNext]_cycleVars

--------------------------------------------------------------------------------
(* Properties.                                                             *)

CycleTypeOK ==
  /\ now \in Nat
  /\ stamp \in Nat \cup {Unstamped}
  /\ lastId \in Nat
  /\ inbox \in Snapshot \cup {NoSnapshot}
  /\ task \in Snapshot \cup {NoSnapshot}
  /\ warm \in [Expiries -> Nat]
  /\ lastGood \in Surface \cup {NoSurface}
  /\ answer \in Answers
  /\ outbox \in Surface \cup {NoSurface}

\* The two halves of the memory move together, whatever is refused, raised or cancelled:
\* every row of the last good surface warm-starts from that very fit, every other warm
\* start is of an expiry still quoted then, and none is newer than the surface.
MemoryIsWhole ==
  \A e \in Expiries :
    /\ lastGood = NoSurface => warm[e] = 0
    /\ warm[e] <= lastGood.src
    /\ lastGood # NoSurface /\ e \in lastGood.rows => warm[e] = lastGood.src
    /\ lastGood # NoSurface /\ e \notin lastGood.quoted => warm[e] = 0

\* A venue clock ahead of ours may cost a cycle its answer -- the surface contract compares
\* the two clocks (calibrated_surface.py:382) and raises -- but the tolerance bounds the
\* damage: every refusal speaks, so does every cycle that ends max_skew after its snapshot
\* was taken, and a cycle that says nothing leaves the memory and Risk's mailbox alone.
SilenceIsBounded ==
  [][ answer' # answer /\ answer'.said = {} =>
        /\ now < task.local + MaxSkew
        /\ UNCHANGED <<warm, lastGood, outbox>> ]_cycleVars

\* "Never an empty tuple" (calibrate_on_snapshot.py:146), which a venue ahead of us refutes.
NeverSilent == answer.said # {}

\* "OK only when the input was clean and every slice was published"
\* (calibrate_on_snapshot.py, _status).
OkMeansComplete ==
  outbox # NoSurface /\ outbox.status = "OK" => outbox.rows = outbox.slices

\* One worker keeps the cycles in order: what Risk is offered is never newer than the last
\* good surface, which is older than the snapshot being fitted, itself older than the one
\* waiting -- so no refusal can replace a surface by one fitted after it.
CyclesInOrder ==
  /\ outbox.src <= lastGood.src
  /\ task # NoSnapshot => lastGood.src < task.id
  /\ task # NoSnapshot /\ inbox # NoSnapshot => task.id < inbox.id

\* A waiting snapshot is answered, or a fresher one is in its place: nothing stalls.
EverySnapshotAnswered ==
  \A i \in 1..(MaxTime + 1) : (inbox.id = i) ~> (answer.id >= i)

\* The parametric producer reacts to snapshots, failures and interruptions as any producer
\* does (ADR-006).
Contract ==
  INSTANCE ProducerContract WITH
    MayAbandon <- MayCancel, MayRaise <- MaxAhead # 0,
    waiting <- inbox.id, working <- task.id, good <- lastGood.src, offered <- outbox.src,
    stale <- outbox # NoSurface /\ outbox.status = "STALE_REPUBLISH"
KeepsContract == Contract!Spec

\* What makes them inductive: nothing waits that was not published, nothing describes an
\* instant more than the tolerance after it was taken, nor, with a venue that is never
\* ahead, an instant to come.
NothingInvented ==
  /\ lastId <= now + 1
  /\ inbox.id <= lastId /\ task.id <= lastId /\ lastGood.src <= lastId
  /\ inbox # NoSnapshot => lastGood.src < inbox.id

AheadByTolerance ==
  /\ inbox # NoSnapshot => inbox.local <= now /\ inbox.ts <= inbox.local + MaxSkew
  /\ task # NoSnapshot => task.local <= now /\ task.ts <= task.local + MaxSkew

NothingAhead ==
  MaxAhead = 0 =>
    /\ stamp <= now
    /\ inbox # NoSnapshot => inbox.ts <= now
    /\ task # NoSnapshot => task.ts <= now

CycleInv ==
  /\ CycleTypeOK
  /\ MemoryIsWhole
  /\ CyclesInOrder
  /\ NothingInvented
  /\ AheadByTolerance
  /\ NothingAhead
================================================================================
