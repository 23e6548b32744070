-------------------------------- MODULE Pipeline --------------------------------
(***************************************************************************)
(* One Pipeline (entrypoints/pipeline.py) from run() to run(): the sources *)
(* that publish, the two runners behind each producer of each market, the  *)
(* one-worker pools of the fits (platform/executors.py), the stopping      *)
(* rules, and how a run ends -- drained, stopped, failed or cancelled.     *)
(*                                                                         *)
(* `queue` is the event loop's FIFO of tasks ready to run, and a step runs *)
(* one of them to its next await.  What the outside world resumes -- a     *)
(* source, a fit that ends -- may run between any two of them.  A mailbox  *)
(* is full or empty (ConflatingBus), and the two counters _settle compares *)
(* are whether they moved since it last read them, for they only grow.     *)
(*                                                                         *)
(* A fit that runs on a thread cannot be cancelled.  One whose handler was *)
(* is a stray: it keeps its producer's only worker until it ends, and what *)
(* it returns reaches nobody.  run() waits for it, in shutdown(), unless a *)
(* second cancellation cuts its finally short.                             *)
(***************************************************************************)
EXTENDS Integers, Sequences, SequencesExt

CONSTANTS
  Markets, Producers,
  Plans           \* the pipelines that may be built, and how run() is called on them

\* markets, producers: what is wired; timers: whether heartbeat_seconds or
\* rediscovery_seconds is set; goal: max_reports, 0 for None; duration: whether run() is
\* given duration_seconds.
ASSUME PipelineAssumption ==
  /\ IsFiniteSet(Markets) /\ IsFiniteSet(Producers)
  /\ Plans \subseteq [markets : SUBSET Markets, producers : SUBSET Producers,
                      timers : BOOLEAN, goal : Nat, duration : BOOLEAN]

VARIABLES
  plan,      \* what is run, again and again
  main,      \* where run() is
  ending,    \* how the last run ended, or "running"
  queue,     \* the tasks ready to run, in order
  feed,      \* _ingest() of each market
  ingested,  \* _ingest_all() is done
  timers,    \* the heartbeats and rediscoveries of the markets, "failed" once one raised
  orphans,   \* markets whose _ingest() of an earlier run still streams
  snap,      \* full mailboxes of the calibration runners
  surf,      \* full mailboxes of the risk runners
  fitAt,     \* where each calibration runner is
  riskAt,    \* where each risk runner is
  pool,      \* jobs of each producer's worker that a handler awaits, in order
  stray,     \* whether that worker still runs a job whose handler was cancelled
  busy,      \* _busy
  idle,      \* _idle.is_set()
  quiet,     \* (_published, _handled) has not moved since _settle read it
  hops,      \* sleeps left in the pass of _settle
  reports,   \* _reports_written, when there is a goal
  goalAt     \* where _wait_for_goal() is

loopVars == <<snap, surf, fitAt, riskAt, pool, stray, busy, idle, quiet, reports>>
sourceVars == <<feed, ingested, timers, orphans>>
runVars == <<main, ending, hops>>
vars == <<plan, runVars, queue, sourceVars, loopVars, goalAt>>

\* A consumer pair is one producer on one market; those of the pipeline are wired.
Pairs == Markets \X Producers
Wired == plan.markets \X plan.producers
Goal == plan.goal

Main == <<"main">>
Notice == <<"notice">>
Ingest == <<"ingest">>
GoalTask == <<"goal">>
Fit(c) == <<"fit", c>>
Risk(c) == <<"risk", c>>
Handles == {Main, Notice, Ingest, GoalTask} \cup {Fit(c) : c \in Pairs} \cup {Risk(c) : c \in Pairs}

(* "waiting": in asyncio.wait; "resumed": its future is set; "silencing": _settle   *)
(* awaits the cancelled sources; "silenced": they are gone; "hopping": its sleeps;  *)
(* "idling": in _idle.wait(); "idled": that wait is over; "cleaning": awaiting the  *)
(* cancelled tasks in the finally; "abandoning": the same, to be cancelled itself;  *)
(* "shutting": blocked in executors.shutdown(); "over": it returned, or raised.     *)
MainStates == {"waiting", "resumed", "silencing", "silenced", "hopping", "idling", "idled",
               "cleaning", "abandoning", "shutting", "over"}
Endings == {"running", "exhausted", "stopped", "elapsed", "failed", "cancelled"}
SourceStates == {"on", "ended", "failed", "off"}
RunnerStates == {"calling", "parked", "woken", "fitting", "ended"}

SETTLE_HOPS == 3

Init ==
  /\ plan \in Plans
  /\ main = "over"
  /\ ending = "stopped"
  /\ queue = <<>>
  /\ feed = [m \in Markets |-> "off"]
  /\ ingested = TRUE
  /\ timers = "off"
  /\ orphans = {}
  /\ snap = [c \in Pairs |-> FALSE]
  /\ surf = [c \in Pairs |-> FALSE]
  /\ fitAt = [c \in Pairs |-> "ended"]
  /\ riskAt = [c \in Pairs |-> "ended"]
  /\ pool = [p \in Producers |-> <<>>]
  /\ stray = [p \in Producers |-> FALSE]
  /\ busy = 0
  /\ idle = TRUE
  /\ quiet = TRUE
  /\ hops = 0
  /\ reports = 0
  /\ goalAt = "done"

\* run(): reset what a run counts, create every task.  The mailboxes keep what they hold,
\* and the workers what an abandoned run left on them.
StartRun ==
  /\ main = "over"
  /\ main' = "waiting"
  /\ ending' = "running"
  /\ feed' = [m \in Markets |-> IF m \in plan.markets THEN "on" ELSE "off"]
  /\ ingested' = FALSE
  /\ timers' = IF plan.timers THEN "on" ELSE "off"
  /\ fitAt' = [c \in Pairs |-> IF c \in Wired THEN "calling" ELSE "ended"]
  /\ riskAt' = fitAt'
  /\ goalAt' = "waiting"
  /\ reports' = 0
  /\ queue' = SetToSeq({Fit(c) : c \in Wired} \cup {Risk(c) : c \in Wired})
  /\ UNCHANGED <<plan, orphans, snap, surf, pool, stray, busy, idle, quiet, hops>>

(* --- the sources ------------------------------------------------------- *)

\* The finally cancels every task before it awaits anything: from there on no task of the
\* run goes on but to unwind.
Live == main \notin {"cleaning", "abandoning", "shutting", "over"}

\* shutdown() blocks the thread the event loop runs on.
LoopFree == main # "shutting"

\* asyncio.wait is told of a task that is done by a callback, which then wakes run().
Notified(q) == IF main = "waiting" THEN Append(q, Notice) ELSE q

Publishing(m) ==
  feed[m] = "on" \/ (m \in plan.markets /\ timers # "off") \/ m \in orphans

\* A snapshot of m, from its stream or its heartbeat, put in every mailbox of its topic.
Publish(m) ==
  LET woken == {c \in Wired : Live /\ c[1] = m /\ fitAt[c] = "parked"}
  IN  /\ LoopFree
      /\ Publishing(m)
      /\ snap' = [c \in Pairs |-> (c \in Wired /\ c[1] = m) \/ snap[c]]
      /\ fitAt' = [c \in Pairs |-> IF c \in woken THEN "woken" ELSE fitAt[c]]
      /\ queue' = queue \o SetToSeq({Fit(c) : c \in woken})
      /\ quiet' = FALSE
      /\ UNCHANGED <<plan, runVars, sourceVars, surf, riskAt, pool, stray, busy, idle,
                     reports, goalAt>>

\* A stream ends or raises.  The last end, or the first failure, is what _ingest_all()
\* waits for.
FeedStops(m, how) ==
  /\ feed[m] = "on"
  /\ how \in {"ended", "failed"}
  /\ feed' = [feed EXCEPT ![m] = how]
  /\ queue' = IF \/ \A n \in plan.markets : feed'[n] = "ended"
                 \/ how = "failed" /\ \A n \in plan.markets : feed[n] # "failed"
              THEN Append(queue, Ingest) ELSE queue
  /\ UNCHANGED <<plan, runVars, ingested, timers, orphans, loopVars, goalAt>>

\* A timer's task never returns: build() or rediscover() raised out of it, and the other
\* timers go on until run() wakes.
TimersFail ==
  /\ timers = "on"
  /\ timers' = "failed"
  /\ queue' = Notified(queue)
  /\ UNCHANGED <<plan, runVars, feed, ingested, orphans, loopVars, goalAt>>

OrphanStops(m) ==
  /\ LoopFree
  /\ m \in orphans
  /\ orphans' = orphans \ {m}
  /\ UNCHANGED <<plan, runVars, queue, feed, ingested, timers, loopVars, goalAt>>

(* --- the handlers ------------------------------------------------------ *)

CountsPublicationsOnly(published, handled) == quiet /\ published = 0

\* The counters against what _settle read, after so many publications and handlers.
QuietAfter(published, handled) == quiet /\ published = 0 /\ handled = 0

\* _idle.set() wakes run() if it waits on it.
IdleSet(q) == IF main = "idling" THEN Append(q, Main) ELSE q
MainAfterIdleSet == IF main = "idling" THEN "idled" ELSE main

Pop == Tail(queue)
Runs(handle) == queue # <<>> /\ Head(queue) = handle

\* A calibration runner runs: it parks on an empty mailbox, or takes the snapshot and
\* submits its fit to the producer's pool, tracked before the await.
FitStep(c) ==
  /\ Runs(Fit(c))
  /\ queue' = Pop
  /\ IF ~snap[c]
       THEN /\ fitAt' = [fitAt EXCEPT ![c] = "parked"]
            /\ UNCHANGED <<snap, pool, busy, idle>>
       ELSE /\ fitAt' = [fitAt EXCEPT ![c] = "fitting"]
            /\ snap' = [snap EXCEPT ![c] = FALSE]
            /\ pool' = [pool EXCEPT ![c[2]] = Append(@, c)]
            /\ busy' = busy + 1
            /\ idle' = FALSE
  /\ UNCHANGED <<plan, runVars, sourceVars, surf, riskAt, stray, quiet, reports, goalAt>>

NeverIdleAgain(left) == FALSE

\* _tracked()'s finally, `left` handlers being still in flight.
IdleAfter(left) == left = 0

\* The fit at the head of a pool ends, behind no stray, and its handler resumes: it publishes
\* a surface or a failure, or raises; is counted; and the runner takes the next snapshot, if
\* there is one.
FitEnds(p, outcome) ==
  /\ Live
  /\ pool[p] # <<>> /\ ~stray[p]
  /\ outcome \in {"surface", "failure", "raised"}
  /\ LET c == Head(pool[p])
         put == outcome = "surface"
         wakes == put /\ riskAt[c] = "parked"
         first == IF wakes THEN Append(queue, Risk(c)) ELSE queue
     IN  /\ fitAt[c] = "fitting"
         /\ surf' = [surf EXCEPT ![c] = @ \/ put]
         /\ riskAt' = IF wakes THEN [riskAt EXCEPT ![c] = "woken"] ELSE riskAt
         /\ quiet' = QuietAfter(IF outcome = "raised" THEN 0 ELSE 1, 1)
         /\ IF IdleAfter(busy - 1)
              THEN queue' = IdleSet(first) /\ main' = MainAfterIdleSet
              ELSE queue' = first /\ UNCHANGED main
         /\ snap' = [snap EXCEPT ![c] = FALSE]
         /\ fitAt' = [fitAt EXCEPT ![c] = IF snap[c] THEN "fitting" ELSE "parked"]
         /\ pool' = [pool EXCEPT ![p] = IF snap[c] THEN Append(Tail(@), c) ELSE Tail(@)]
         /\ busy' = IF snap[c] THEN busy ELSE busy - 1
         /\ idle' = (~snap[c] /\ IdleAfter(busy - 1))
  /\ UNCHANGED <<plan, ending, hops, sourceVars, stray, reports, goalAt>>

GoalMet == Goal # 0 /\ reports >= Goal

AlwaysWrites == TRUE
WritesReport == ~GoalMet

\* A risk runner runs: it parks, or takes the surface, caches it, writes a report unless
\* the goal is met or something raises, and parks.  Its handler never suspends, so the
\* flag it clears is as it was when it is done.
RiskStep(c, raises) ==
  /\ Runs(Risk(c))
  /\ riskAt' = [riskAt EXCEPT ![c] = "parked"]
  /\ surf' = [surf EXCEPT ![c] = FALSE]
  /\ quiet' = IF surf[c] THEN QuietAfter(0, 1) ELSE quiet
  /\ LET written == surf[c] /\ WritesReport /\ ~raises
         met == Goal # 0 /\ written /\ reports + 1 >= Goal
     IN  /\ reports' = IF written /\ Goal # 0 THEN reports + 1 ELSE reports
         /\ goalAt' = IF met THEN "woken" ELSE goalAt
         /\ queue' = IF met /\ goalAt = "waiting" THEN Append(Pop, GoalTask) ELSE Pop
  /\ UNCHANGED <<plan, runVars, sourceVars, snap, fitAt, pool, stray, busy, idle>>

(* --- how a run ends ---------------------------------------------------- *)

\* _ingest_all() returns, or raises what one stream raised -- and the others stream on, for
\* gather() does not cancel them.
IngestStep ==
  /\ Runs(Ingest)
  /\ ingested' = TRUE
  /\ queue' = Notified(Pop)
  /\ UNCHANGED <<plan, runVars, feed, timers, orphans, loopVars, goalAt>>

\* _wait_for_goal() returns.
GoalStep ==
  /\ Runs(GoalTask)
  /\ goalAt' = "done"
  /\ queue' = Notified(Pop)
  /\ UNCHANGED <<plan, runVars, sourceVars, loopVars>>

\* The callback of asyncio.wait: the first task done wakes run().
NoticeStep ==
  /\ Runs(Notice)
  /\ queue' = IF main = "waiting" THEN Append(Pop, Main) ELSE Pop
  /\ main' = IF main = "waiting" THEN "resumed" ELSE main
  /\ UNCHANGED <<plan, ending, hops, sourceVars, loopVars, goalAt>>

Failed ==
  timers = "failed" \/ (ingested /\ \E m \in Markets : feed[m] = "failed")

\* run() enters its finally, which cancels every task before it awaits them.  A gather()
\* that was told of a failure -- a pass before _ingest_all() is -- is done, and its children
\* are nobody's to cancel.
Finally(how) ==
  /\ main' = "cleaning"
  /\ ending' = how
  /\ queue' = <<>>
  /\ \E told \in {ingested, \E n \in Markets : feed[n] = "failed"} :
       orphans' = orphans \cup {m \in Markets : feed[m] = "on" /\ told}
  /\ feed' = [m \in Markets |-> "off"]
  /\ ingested' = TRUE
  /\ timers' = "off"
  /\ goalAt' = "done"

\* run() after its wait: a failure is raised, a stopping rule drains nothing, and the end
\* of every stream cancels the sources to settle.
Resume ==
  /\ Runs(Main)
  /\ main = "resumed"
  /\ \/ Failed /\ Finally("failed")
     \/ ~Failed /\ goalAt = "done" /\ Finally("stopped")
     \/ /\ ~Failed /\ goalAt # "done"
        /\ main' = "silencing"
        /\ timers' = "off"
        /\ queue' = Pop
        /\ UNCHANGED <<ending, feed, ingested, orphans, goalAt>>
  /\ UNCHANGED <<plan, hops, loopVars>>

\* The clock says duration_seconds have passed.
DurationElapses ==
  /\ plan.duration
  /\ main \in {"waiting", "resumed"}
  /\ Finally(IF Failed THEN "failed" ELSE "elapsed")
  /\ UNCHANGED <<plan, hops, loopVars>>

\* run()'s task is cancelled, wherever it awaits.  The gather() of the finally still waits
\* for every task before it raises, and what comes after it is skipped.
Interrupt ==
  /\ \/ Live /\ Finally("cancelled")
     \/ /\ main = "cleaning"
        /\ main' = "abandoning"
        /\ ending' = "cancelled"
        /\ UNCHANGED <<queue, sourceVars, goalAt>>
  /\ UNCHANGED <<plan, hops, loopVars>>

\* The sources have closed their providers.
Silenced ==
  /\ main = "silencing"
  /\ main' = "silenced"
  /\ queue' = Append(queue, Main)
  /\ UNCHANGED <<plan, ending, hops, sourceVars, loopVars, goalAt>>

\* A pass of _settle reads the counters and sleeps for the first time.
BeginPass ==
  /\ main' = "hopping"
  /\ hops' = SETTLE_HOPS
  /\ quiet' = TRUE
  /\ queue' = Append(Pop, Main)
  /\ UNCHANGED <<ending, sourceVars, goalAt>>

\* The pass is over with the handlers idle: nothing moved, or another one begins.
Judge ==
  IF quiet THEN Finally("exhausted") /\ UNCHANGED <<hops, quiet>> ELSE BeginPass

SettleStep ==
  /\ Runs(Main)
  /\ \/ main = "silenced" /\ BeginPass
     \/ /\ main = "hopping" /\ hops > 1
        /\ hops' = hops - 1
        /\ queue' = Append(Pop, Main)
        /\ UNCHANGED <<main, ending, quiet, sourceVars, goalAt>>
     \/ main = "hopping" /\ hops = 1 /\ idle /\ Judge
     \/ /\ main = "hopping" /\ hops = 1 /\ ~idle
        /\ main' = "idling"
        /\ queue' = Pop
        /\ UNCHANGED <<ending, hops, quiet, sourceVars, goalAt>>
     \/ main = "idled" /\ Judge
  /\ UNCHANGED <<plan, snap, surf, fitAt, riskAt, pool, stray, busy, idle, reports>>

(* --- the finally ------------------------------------------------------- *)

Unwinding == main \in {"cleaning", "abandoning"}

NothingUnwound == busy

\* What _tracked()'s finally leaves of _busy.
Unwound == busy - 1

\* The cancelled handler of a runner unwinds: it publishes nothing and is counted by its own
\* finally.  Its job is cancelled if it has not started, and runs on if it has.
Unwind(c) ==
  /\ Unwinding
  /\ fitAt[c] = "fitting"
  /\ fitAt' = [fitAt EXCEPT ![c] = "ended"]
  /\ \E i \in DOMAIN pool[c[2]] :
       /\ pool[c[2]][i] = c
       /\ pool' = [pool EXCEPT ![c[2]] = RemoveAt(@, i)]
       /\ stray' = [stray EXCEPT ![c[2]] = @ \/ i = 1]
  /\ quiet' = QuietAfter(0, 1)
  /\ busy' = Unwound
  /\ idle' = IdleAfter(Unwound)
  /\ UNCHANGED <<plan, runVars, queue, sourceVars, snap, surf, riskAt, reports, goalAt>>

\* Every task is done: run() goes on to take the pools down, or raises its cancellation.
Gathered ==
  /\ Unwinding
  /\ \A c \in Pairs : fitAt[c] # "fitting"
  /\ fitAt' = [c \in Pairs |-> "ended"]
  /\ riskAt' = [c \in Pairs |-> "ended"]
  /\ main' = IF main = "cleaning" THEN "shutting" ELSE "over"
  /\ UNCHANGED <<plan, ending, hops, queue, sourceVars, snap, surf, pool, stray, busy, idle,
                 quiet, reports, goalAt>>

\* A fit nobody awaits any more ends on its thread, whatever the loop is doing.
WorkerEnds(p) ==
  /\ stray[p]
  /\ stray' = [stray EXCEPT ![p] = FALSE]
  /\ UNCHANGED <<plan, runVars, queue, sourceVars, snap, surf, fitAt, riskAt, pool, busy, idle,
                 quiet, reports, goalAt>>

\* shutdown() returns, every worker having ended, and run() with it.
Return ==
  /\ main = "shutting"
  /\ \A p \in Producers : ~stray[p]
  /\ main' = "over"
  /\ UNCHANGED <<plan, ending, hops, queue, sourceVars, loopVars, goalAt>>

Next ==
  \/ StartRun
  \/ \E m \in Markets :
       \/ Publish(m) \/ OrphanStops(m)
       \/ \E how \in {"ended", "failed"} : FeedStops(m, how)
  \/ \E c \in Pairs : FitStep(c) \/ Unwind(c) \/ \E raises \in BOOLEAN : RiskStep(c, raises)
  \/ \E p \in Producers :
       WorkerEnds(p) \/ \E outcome \in {"surface", "failure", "raised"} : FitEnds(p, outcome)
  \/ TimersFail \/ IngestStep \/ GoalStep \/ NoticeStep \/ Resume \/ DurationElapses
  \/ Silenced \/ SettleStep \/ Gathered \/ Return \/ Interrupt

Spec == Init /\ [][Next]_vars

\* The loop runs what is ready, fits are bounded, providers close.  Nothing makes a stream
\* end, a run start or anybody cancel it.
LoopStep ==
  \/ \E c \in Pairs : FitStep(c) \/ \E raises \in BOOLEAN : RiskStep(c, raises)
  \/ IngestStep \/ GoalStep \/ NoticeStep \/ Resume \/ SettleStep

FairSpec ==
  /\ Spec
  /\ WF_vars(LoopStep) /\ WF_vars(Silenced) /\ WF_vars(Gathered) /\ WF_vars(Return)
  /\ \A c \in Pairs : WF_vars(Unwind(c))
  /\ \A p \in Producers :
       /\ WF_vars(\E outcome \in {"surface", "failure", "raised"} : FitEnds(p, outcome))
       /\ WF_vars(WorkerEnds(p))

--------------------------------------------------------------------------------
(* Properties.                                                             *)

TypeOK ==
  /\ plan \in Plans
  /\ main \in MainStates
  /\ ending \in Endings
  /\ queue \in Seq(Handles)
  /\ feed \in [Markets -> SourceStates]
  /\ timers \in {"on", "failed", "off"}
  /\ ingested \in BOOLEAN
  /\ orphans \in SUBSET Markets
  /\ snap \in [Pairs -> BOOLEAN]
  /\ surf \in [Pairs -> BOOLEAN]
  /\ fitAt \in [Pairs -> RunnerStates]
  /\ riskAt \in [Pairs -> RunnerStates]
  /\ pool \in [Producers -> Seq(Pairs)]
  /\ stray \in [Producers -> BOOLEAN]
  /\ busy \in Nat
  /\ idle \in BOOLEAN
  /\ quiet \in BOOLEAN
  /\ hops \in 0..SETTLE_HOPS
  /\ reports \in Nat
  /\ goalAt \in {"waiting", "woken", "done"}

\* A run with a goal writes that many reports and no more, whatever was already queued
\* behind the one that met it; and when it is the goal that ends it, no fewer.
GoalIsExact ==
  Goal # 0 =>
    /\ reports <= Goal
    /\ ending = "stopped" /\ main \in {"cleaning", "shutting"} => reports = Goal

\* Nothing is in flight: no snapshot or surface in a mailbox, no fit on a pool.
Drained ==
  /\ \A c \in Wired : ~snap[c] /\ ~surf[c] /\ fitAt[c] = "parked" /\ riskAt[c] = "parked"
  /\ \A p \in Producers : pool[p] = <<>>

\* A run that ends because its streams did loses nothing that was in flight (_settle: "the
\* events in flight reach the end of the chain").
SettledMeansDrained ==
  [][main # "cleaning" /\ main' = "cleaning" /\ ending' = "exhausted" => Drained]_vars

\* _settle waits for the handlers of its own run alone: while it does, one of them awaits a
\* fit that its pool holds -- however the runs before it ended, what they left counted in
\* _busy would be a handler that nobody resumes, and a wait without end.
SettleWaitsForItsOwn ==
  main = "idling" =>
    \E c \in Pairs : fitAt[c] = "fitting" /\ \E i \in DOMAIN pool[c[2]] : pool[c[2]][i] = c

\* Providers are silent once run() has returned: it cancels and awaits "the tasks first so
\* a provider's `finally` gets to close its connection" (pipeline.py, run).
EveryFeedSilenced == main = "over" => orphans = {}

\* A run whose streams have all ended ends, unless an earlier run's stream still feeds it:
\* the fixpoint of _settle is reached, and nobody waits for a flag nobody will raise.
ExhaustedRunEnds ==
  (orphans = {} /\ \A m \in plan.markets : feed[m] = "ended") ~> main = "over"
================================================================================
