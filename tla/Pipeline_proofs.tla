---------------------------- MODULE Pipeline_proofs ----------------------------
(***************************************************************************)
(* Proofs about Pipeline, for any markets, producers and plans: a goal is  *)
(* met exactly, a run that settles waits for no handler but its own, and   *)
(* one that its streams ended has drained, however many runs there were    *)
(* before and however each of them ended.                                  *)
(***************************************************************************)
EXTENDS Pipeline, FiniteSetTheorems, TLAPS

USE PipelineAssumption

--------------------------------------------------------------------------------
(* The queue.                                                              *)

In(h, q) == \E i \in DOMAIN q : q[i] = h

LEMMA PlanTypes ==
  ASSUME plan \in Plans
  PROVE  plan.markets \in SUBSET Markets /\ plan.producers \in SUBSET Producers /\ Goal \in Nat
  BY DEF Goal

LEMMA HandlesDiffer ==
  /\ \A h \in {Main, Notice, Ingest} : h \in Handles /\ h # GoalTask
  /\ GoalTask \in Handles
  /\ \A c \in Pairs : Fit(c) \in Handles /\ Risk(c) \in Handles
                      /\ Fit(c) # GoalTask /\ Risk(c) # GoalTask
<1>1. GoalTask[1] = "goal" /\ Main[1] = "main" /\ Notice[1] = "notice" /\ Ingest[1] = "ingest"
  BY DEF GoalTask, Main, Notice, Ingest
<1>2. \A c \in Pairs : Fit(c)[1] = "fit" /\ Risk(c)[1] = "risk"
  BY DEF Fit, Risk
<1>3. /\ \A h \in {Main, Notice, Ingest, GoalTask} : h \in Handles
      /\ \A c \in Pairs : Fit(c) \in Handles /\ Risk(c) \in Handles
  BY DEF Handles
<1>4. QED
  BY <1>1, <1>2, <1>3

LEMMA SeqOfSet ==
  ASSUME NEW S, IsFiniteSet(S)
  PROVE  SetToSeq(S) \in Seq(S)
<1> DEFINE n == Cardinality(S)
<1>1. n \in Nat /\ ExistsBijection(1..n, S)
  BY FS_CardinalityType
<1>2. \E f \in [1..n -> S] : IsInjective(f)
  BY <1>1, Zenon DEF ExistsBijection, Bijection, Injection
<1>3. SetToSeq(S) \in [1..n -> S]
  BY <1>2, Zenon DEF SetToSeq
<1>4. QED
  BY <1>1, <1>3

LEMMA PairsFinite == IsFiniteSet(Pairs)
  BY FS_Product DEF Pairs

LEMMA FitsFinite ==
  ASSUME NEW W \in SUBSET Pairs
  PROVE  IsFiniteSet({Fit(c) : c \in W})
<1> DEFINE F == {Fit(c) : c \in W}
           f == [c \in W |-> Fit(c)]
<1>1. IsFiniteSet(W)
  BY PairsFinite, FS_Subset
<1>2. f \in Surjection(W, F)
  BY DEF Surjection
<1> HIDE DEF f
<1>3. QED
  BY <1>1, <1>2, FS_Surjection

LEMMA RisksFinite ==
  ASSUME NEW W \in SUBSET Pairs
  PROVE  IsFiniteSet({Risk(c) : c \in W})
<1> DEFINE F == {Risk(c) : c \in W}
           f == [c \in W |-> Risk(c)]
<1>1. IsFiniteSet(W)
  BY PairsFinite, FS_Subset
<1>2. f \in Surjection(W, F)
  BY DEF Surjection
<1> HIDE DEF f
<1>3. QED
  BY <1>1, <1>2, FS_Surjection

\* A queue in which the goal's task waits only if it did.
Adds(q) == q \in Seq(Handles) /\ (In(GoalTask, q) => In(GoalTask, queue))

LEMMA AppendAdds ==
  ASSUME NEW q, Adds(q), NEW h \in Handles, h # GoalTask
  PROVE  Adds(Append(q, h))
<1>1. q \in Seq(Handles) /\ Append(q, h) \in Seq(Handles)
  BY DEF Adds
<1>2. ASSUME NEW i \in DOMAIN Append(q, h), Append(q, h)[i] = GoalTask
      PROVE  In(GoalTask, q)
  BY <1>1, <1>2 DEF In
<1>3. QED
  BY <1>1, <1>2 DEF Adds, In

LEMMA PopAdds ==
  ASSUME queue \in Seq(Handles), queue # <<>>
  PROVE  Adds(Pop)
<1>1. Pop \in Seq(Handles)
  BY DEF Pop
<1>2. ASSUME NEW i \in DOMAIN Pop, Pop[i] = GoalTask
      PROVE  In(GoalTask, queue)
  <2>1. i + 1 \in DOMAIN queue /\ queue[i + 1] = Pop[i]
    BY <1>2 DEF Pop
  <2>2. QED
    BY <1>2, <2>1 DEF In
<1>3. QED
  BY <1>1, <1>2 DEF Adds, In

LEMMA ConcatAdds ==
  ASSUME queue \in Seq(Handles), NEW r \in Seq(Handles \ {GoalTask})
  PROVE  Adds(queue \o r)
<1>1. queue \o r \in Seq(Handles)
  OBVIOUS
<1>2. ASSUME NEW i \in DOMAIN (queue \o r), (queue \o r)[i] = GoalTask
      PROVE  In(GoalTask, queue)
  <2>1. i \in DOMAIN queue
    BY <1>2
  <2>2. QED
    BY <1>2, <2>1 DEF In
<1>3. QED
  BY <1>1, <1>2 DEF Adds, In

LEMMA EmptyOnly ==
  ASSUME NEW s \in Seq({})
  PROVE  s = <<>>
<1>1. Len(s) = 0
  <2>1. SUFFICES ASSUME Len(s) # 0 PROVE FALSE
    OBVIOUS
  <2>2. Len(s) \in Nat /\ 1 \in 1..Len(s)
    BY <2>1
  <2>3. s[1] \in {}
    BY <2>2
  <2>4. QED
    BY <2>3
<1>2. QED
  BY <1>1

LEMMA SeqOfNothing ==
  ASSUME NEW S, S = {}
  PROVE  SetToSeq(S) = <<>>
<1>1. IsFiniteSet(S)
  BY FS_EmptySet
<1>2. SetToSeq(S) \in Seq({})
  BY <1>1, SeqOfSet
<1>3. QED
  BY <1>2, EmptyOnly

LEMMA Concatenated ==
  ASSUME NEW S, NEW a \in Seq(S), NEW b \in Seq(S)
  PROVE  /\ a \o b \in Seq(S) /\ Len(a \o b) = Len(a) + Len(b)
         /\ DOMAIN (a \o b) = 1..(Len(a) + Len(b))
         /\ \A j \in 1..(Len(a) + Len(b)) :
              (a \o b)[j] = IF j <= Len(a) THEN a[j] ELSE b[j - Len(a)]
  OBVIOUS

LEMMA RemovalType ==
  ASSUME NEW S, NEW s \in Seq(S), NEW i \in DOMAIN s
  PROVE  /\ RemoveAt(s, i) \in Seq(S)
         /\ DOMAIN RemoveAt(s, i) = 1..(Len(s) - 1)
         /\ \A j \in DOMAIN RemoveAt(s, i) :
              RemoveAt(s, i)[j] = IF j < i THEN s[j] ELSE s[j + 1]
<1> DEFINE n == Len(s)
           a == SubSeq(s, 1, i - 1)
           b == SubSeq(s, i + 1, n)
<1>1. n \in Nat /\ i \in 1..n /\ s \in [1..n -> S]
  OBVIOUS
<1>2. a \in Seq(S) /\ Len(a) = i - 1 /\ \A j \in 1..(i - 1) : a[j] = s[j]
  BY <1>1
<1>3. b \in Seq(S) /\ Len(b) = n - i /\ \A j \in 1..(n - i) : b[j] = s[i + j]
  BY <1>1
<1>4. RemoveAt(s, i) = a \o b
  BY DEF RemoveAt
<1> DEFINE ab == a \o b
<1> HIDE DEF a, b, n
<1>5. /\ ab \in Seq(S) /\ DOMAIN ab = 1..(n - 1)
      /\ \A j \in 1..(n - 1) : ab[j] = IF j <= i - 1 THEN a[j] ELSE b[j - (i - 1)]
  <2>1. Len(a) + Len(b) = n - 1 /\ Len(a) = i - 1
    BY <1>1, <1>2, <1>3
  <2>2. /\ ab \in Seq(S) /\ DOMAIN ab = 1..(Len(a) + Len(b))
        /\ \A j \in 1..(Len(a) + Len(b)) :
             ab[j] = IF j <= Len(a) THEN a[j] ELSE b[j - Len(a)]
    BY <1>2, <1>3, Concatenated, Zenon DEF ab
  <2>3. QED
    BY <2>1, <2>2
<1> HIDE DEF ab
<1>6. ASSUME NEW j \in 1..(n - 1) PROVE ab[j] = IF j < i THEN s[j] ELSE s[j + 1]
  <2>1. CASE j < i
    BY <1>1, <1>2, <1>5, <2>1
  <2>2. CASE ~(j < i)
    <3>1. j - (i - 1) \in 1..(n - i) /\ i + (j - (i - 1)) = j + 1 /\ ~(j <= i - 1)
      BY <1>1, <2>2
    <3>2. ab[j] = b[j - (i - 1)]
      BY <1>5, <3>1
    <3>3. b[j - (i - 1)] = s[j + 1]
      BY <1>3, <3>1
    <3>4. QED
      BY <2>2, <3>2, <3>3
  <2>3. QED
    BY <2>1, <2>2
<1>7. QED
  BY <1>4, <1>5, <1>6 DEF n, ab

--------------------------------------------------------------------------------
(* The inductive invariant.                                                *)

Types ==
  /\ plan \in Plans
  /\ main \in MainStates
  /\ queue \in Seq(Handles)
  /\ fitAt \in [Pairs -> RunnerStates]
  /\ pool \in [Producers -> Seq(Pairs)]
  /\ reports \in Nat

\* No more reports than the goal, and whatever says that the goal is met says so truly.
Met == Goal # 0 /\ reports = Goal

GoalTold ==
  /\ Goal # 0 => reports <= Goal
  /\ goalAt = "woken" \/ In(GoalTask, queue) => Met
  /\ goalAt = "done" /\ Live => Met
  /\ ending = "stopped" /\ main # "over" => Met

\* From the finally on nothing of the run goes on but its handlers, and then not even they.
Still ==
  /\ ~Live => queue = <<>> /\ timers = "off" /\ \A m \in Markets : feed[m] = "off"
  /\ main \in {"shutting", "over"} => \A c \in Pairs : fitAt[c] = "ended"

RunInv == Types /\ GoalTold /\ Still

Ended == {"cleaning", "abandoning", "shutting", "over"}

\* A step of a run that reports nothing and ends it by no goal.
LEMMA LiveKeeps ==
  ASSUME RunInv, Live, UNCHANGED <<plan, reports>>,
         goalAt' = goalAt, ending' = ending \/ ending' # "stopped",
         main' \in MainStates \ Ended, Adds(queue'),
         fitAt' \in [Pairs -> RunnerStates], pool' \in [Producers -> Seq(Pairs)]
  PROVE  RunInv'
<1>1. Types'
  BY DEF RunInv, Types, Adds
<1>2. In(GoalTask, queue)' => In(GoalTask, queue)
  BY DEF Adds, In
<1>3. Goal' = Goal /\ (Met' <=> Met)
  BY DEF Goal, Met
<1>4. GoalTold'
  BY <1>2, <1>3 DEF RunInv, GoalTold, Live
<1>5. Still'
  BY DEF Still, Live, Ended
<1>6. QED
  BY <1>1, <1>4, <1>5 DEF RunInv

\* A step of a run that is ending, or over, and reports nothing any more.
LEMMA EndKeeps ==
  ASSUME RunInv, ~Live, UNCHANGED <<plan, reports, goalAt, queue, timers>>,
         \A m \in Markets : feed'[m] = feed[m],
         main' \in Ended, main = "over" => main' = "over",
         ending' = ending \/ ending' # "stopped",
         fitAt' \in [Pairs -> RunnerStates], pool' \in [Producers -> Seq(Pairs)],
         main' \in {"shutting", "over"} => \A c \in Pairs : fitAt'[c] = "ended"
  PROVE  RunInv'
<1>1. Types'
  BY DEF RunInv, Types, MainStates, Ended
<1>2. Goal' = Goal /\ (Met' <=> Met) /\ ~In(GoalTask, queue)' /\ ~Live'
  BY DEF Goal, Met, In, RunInv, Still, Live, Ended
<1>3. GoalTold'
  BY <1>2 DEF RunInv, GoalTold
<1>4. Still'
  BY <1>2 DEF RunInv, Still
<1>5. QED
  BY <1>1, <1>3, <1>4 DEF RunInv

\* A run enters its finally, as stopped by its goal only if that is met.
LEMMA FinallyKeeps ==
  ASSUME RunInv, Live, NEW how, Finally(how), UNCHANGED <<plan, fitAt, pool, reports>>,
         how = "stopped" => Met
  PROVE  RunInv'
<1>1. /\ main' = "cleaning" /\ ending' = how /\ queue' = <<>> /\ timers' = "off"
      /\ feed' = [m \in Markets |-> "off"] /\ goalAt' = "done"
  BY Zenon DEF Finally
<1>2. Types'
  BY <1>1 DEF RunInv, Types, MainStates
<1>3. Goal' = Goal /\ (Met' <=> Met) /\ ~In(GoalTask, queue)' /\ ~Live'
  BY <1>1 DEF Goal, Met, In, Live
<1>4. GoalTold'
  BY <1>1, <1>3 DEF RunInv, GoalTold
<1>5. Still'
  BY <1>1 DEF Still
<1>6. QED
  BY <1>2, <1>4, <1>5 DEF RunInv

\* What any step but the risk's may do to the queue.
LEMMA QueueSteps ==
  ASSUME RunInv
  PROVE  /\ Adds(queue)
         /\ \A h \in {Main, Notice, Ingest} : Adds(Append(queue, h))
         /\ \A c \in Pairs : Adds(Append(queue, Risk(c)))
         /\ queue # <<>> => Adds(Pop) /\ \A h \in {Main, Notice, Ingest} : Adds(Append(Pop, h))
<1>1. Adds(queue)
  BY DEF RunInv, Types, Adds
<1>2. queue # <<>> => Adds(Pop)
  BY PopAdds DEF RunInv, Types
<1>3. QED
  BY <1>1, <1>2, AppendAdds, HandlesDiffer

--------------------------------------------------------------------------------
(* Action by action.                                                       *)

LEMMA PipelineInitInv == Init => RunInv
<1> SUFFICES ASSUME Init PROVE RunInv
  OBVIOUS
<1>1. Goal \in Nat
  BY PlanTypes DEF Init
<1>2. <<>> \in Seq(Handles) /\ <<>> \in Seq(Pairs) /\ ~ In(GoalTask, <<>>)
  BY DEF In
<1>3. Types
  BY <1>2 DEF Init, Types, MainStates, RunnerStates
<1>4. GoalTold
  BY <1>1, <1>2 DEF Init, GoalTold, Live
<1>5. Still
  BY DEF Init, Still
<1>6. QED
  BY <1>3, <1>4, <1>5 DEF RunInv

LEMMA StartRunInv == RunInv /\ StartRun => RunInv'
<1> SUFFICES ASSUME RunInv, StartRun PROVE RunInv'
  OBVIOUS
<1> DEFINE tasks == {Fit(c) : c \in Wired} \cup {Risk(c) : c \in Wired}
<1>1. plan \in Plans /\ Goal \in Nat /\ Wired \in SUBSET Pairs
  BY PlanTypes DEF RunInv, Types, Wired, Pairs
<1>2. IsFiniteSet(tasks)
  BY <1>1, FitsFinite, RisksFinite, FS_Union
<1>3. tasks \subseteq Handles \ {GoalTask}
  BY <1>1, HandlesDiffer
<1>4. queue' = SetToSeq(tasks)
  BY Zenon DEF StartRun
<1> HIDE DEF tasks
<1>5. queue' \in Seq(Handles \ {GoalTask})
  BY <1>2, <1>3, <1>4, SeqOfSet
<1>6. queue' \in Seq(Handles) /\ ~ In(GoalTask, queue')
  BY <1>5 DEF In
<1>7. fitAt' \in [Pairs -> RunnerStates]
  BY DEF StartRun, RunnerStates
<1>8. /\ plan' = plan /\ main' = "waiting" /\ ending' = "running" /\ goalAt' = "waiting"
      /\ reports' = 0 /\ pool' = pool
  BY DEF StartRun
<1>9. Types'
  BY <1>6, <1>7, <1>8 DEF RunInv, Types, MainStates
<1>10. GoalTold'
  <2>1. ~ In(GoalTask, queue)'
    BY <1>6 DEF In
  <2>2. Goal' \in Nat
    BY <1>1, <1>8 DEF Goal
  <2>3. QED
    BY <1>8, <2>1, <2>2 DEF GoalTold
<1>11. Still'
  BY <1>8 DEF Still, Live
<1>12. QED
  BY <1>9, <1>10, <1>11 DEF RunInv

\* Once a run has ended nothing publishes but a stream it orphaned, and it wakes nobody.
LEMMA OverKeeps ==
  ASSUME RunInv, UNCHANGED <<plan, main, ending, reports, goalAt, queue, timers, pool>>,
         \A m \in Markets : feed'[m] = feed[m],
         fitAt' \in [Pairs -> RunnerStates], \A c \in Pairs : fitAt'[c] = fitAt[c]
  PROVE  RunInv'
<1>1. Types'
  BY DEF RunInv, Types
<1>2. Goal' = Goal /\ (Met' <=> Met) /\ (In(GoalTask, queue)' <=> In(GoalTask, queue))
      /\ (Live' <=> Live)
  BY DEF Goal, Met, In, Live
<1>3. GoalTold'
  BY <1>2 DEF RunInv, GoalTold
<1>4. Still'
  BY <1>2 DEF RunInv, Still
<1>5. QED
  BY <1>1, <1>3, <1>4 DEF RunInv

LEMMA PublishInv ==
  ASSUME RunInv, NEW m \in Markets, Publish(m)
  PROVE  RunInv'
<1> DEFINE woken == {c \in Wired : Live /\ c[1] = m /\ fitAt[c] = "parked"}
           tasks == {Fit(c) : c \in woken}
<1>1. Wired \in SUBSET Pairs
  BY PlanTypes DEF RunInv, Types, Wired, Pairs
<1>2. woken \in SUBSET Pairs
  BY <1>1
<1>3. /\ queue' = queue \o SetToSeq(tasks)
      /\ fitAt' = [c \in Pairs |-> IF c \in woken THEN "woken" ELSE fitAt[c]]
      /\ UNCHANGED <<plan, main, ending, reports, goalAt, timers, feed, pool>>
  BY Zenon DEF Publish, runVars, sourceVars
<1>4. ~Live => woken = {}
  OBVIOUS
<1>5. IsFiniteSet(tasks) /\ tasks \subseteq Handles \ {GoalTask} /\ (woken = {} => tasks = {})
  <2>1. IsFiniteSet(tasks)
    BY <1>2, FitsFinite
  <2>2. QED
    BY <1>2, <2>1, HandlesDiffer
<1> HIDE DEF woken, tasks
<1>6. fitAt' \in [Pairs -> RunnerStates]
  BY <1>3 DEF RunInv, Types, RunnerStates
<1>7. CASE Live
  <2>1. SetToSeq(tasks) \in Seq(Handles \ {GoalTask})
    BY <1>5, SeqOfSet
  <2>2. Adds(queue')
    BY <1>3, <2>1, ConcatAdds DEF RunInv, Types
  <2>3. QED
    BY <1>3, <1>6, <1>7, <2>2, LiveKeeps DEF RunInv, Types, Live, Ended
<1>8. CASE ~Live
  <2>2. woken = {}
    BY <1>4, <1>8
  <2>3. queue' = queue
    <3>1. SetToSeq(tasks) = <<>>
      BY <1>5, <2>2, SeqOfNothing
    <3>2. queue' = queue \o <<>>
      BY <1>3, <3>1, Zenon
    <3>3. QED
      BY <3>2 DEF RunInv, Types
  <2>4. \A c \in Pairs : fitAt'[c] = fitAt[c]
    BY <1>3, <2>2
  <2>5. QED
    BY <1>3, <1>6, <2>3, <2>4, OverKeeps
<1>9. QED
  BY <1>7, <1>8

LEMMA OrphanStopsInv ==
  ASSUME RunInv, NEW m \in Markets, OrphanStops(m)
  PROVE  RunInv'
<1>1. UNCHANGED <<plan, main, ending, reports, goalAt, queue, timers, feed, fitAt, pool>>
  BY Zenon DEF OrphanStops, runVars, loopVars
<1>2. QED
  BY <1>1, OverKeeps DEF RunInv, Types

LEMMA PipelineStutterInv == RunInv /\ UNCHANGED vars => RunInv'
<1> SUFFICES ASSUME RunInv, UNCHANGED vars PROVE RunInv'
  OBVIOUS
<1>1. UNCHANGED <<plan, main, ending, reports, goalAt, queue, timers, feed, fitAt, pool>>
  BY Zenon DEF vars, runVars, sourceVars, loopVars
<1>2. QED
  BY <1>1, OverKeeps DEF RunInv, Types

\* A step that a handler, a stream or a timer takes is a step of a run that goes on.
LEMMA RunsLive ==
  ASSUME RunInv, NEW h, Runs(h)
  PROVE  Live /\ queue # <<>>
  BY DEF RunInv, Still, Runs

LEMMA FeedStopsInv ==
  ASSUME RunInv, NEW m \in Markets, NEW how, FeedStops(m, how)
  PROVE  RunInv'
<1>1. Live
  BY DEF RunInv, Still, FeedStops
<1>2. queue' \in {queue, Append(queue, Ingest)}
  BY DEF FeedStops
<1>3. Adds(queue')
  BY <1>2, QueueSteps
<1>4. UNCHANGED <<plan, main, ending, reports, goalAt, fitAt, pool>>
  BY Zenon DEF FeedStops, runVars, loopVars
<1>5. QED
  BY <1>1, <1>3, <1>4, LiveKeeps DEF RunInv, Types, Live, Ended

LEMMA TimersFailInv == RunInv /\ TimersFail => RunInv'
<1> SUFFICES ASSUME RunInv, TimersFail PROVE RunInv'
  OBVIOUS
<1>1. Live
  BY DEF RunInv, Still, TimersFail
<1>2. queue' \in {queue, Append(queue, Notice)}
  BY DEF TimersFail, Notified
<1>3. Adds(queue')
  BY <1>2, QueueSteps
<1>4. UNCHANGED <<plan, main, ending, reports, goalAt, fitAt, pool>>
  BY Zenon DEF TimersFail, runVars, loopVars
<1>5. QED
  BY <1>1, <1>3, <1>4, LiveKeeps DEF RunInv, Types, Live, Ended

LEMMA FitStepInv ==
  ASSUME RunInv, NEW c \in Pairs, FitStep(c)
  PROVE  RunInv'
<1>1. Live /\ queue # <<>>
  BY RunsLive DEF FitStep
<1>2. Adds(queue')
  BY <1>1, QueueSteps DEF FitStep
<1>3. fitAt' \in [Pairs -> RunnerStates]
  BY DEF FitStep, RunInv, Types, RunnerStates
<1>4. pool' \in [Producers -> Seq(Pairs)]
  <2>1. pool' = pool \/ pool' = [pool EXCEPT ![c[2]] = Append(@, c)]
    BY DEF FitStep
  <2>2. c[2] \in Producers /\ Append(pool[c[2]], c) \in Seq(Pairs)
    BY DEF RunInv, Types, Pairs
  <2>3. QED
    BY <2>1, <2>2 DEF RunInv, Types
<1>5. UNCHANGED <<plan, main, ending, reports, goalAt>>
  BY DEF FitStep, runVars
<1>6. QED
  BY <1>1, <1>2, <1>3, <1>4, <1>5, LiveKeeps DEF RunInv, Types, Live, Ended

LEMMA FitEndsInv ==
  ASSUME RunInv, NEW p \in Producers, NEW outcome, FitEnds(p, outcome)
  PROVE  RunInv'
<1> DEFINE c == Head(pool[p])
           first == IF outcome = "surface" /\ riskAt[c] = "parked"
                      THEN Append(queue, Risk(c)) ELSE queue
<1>1. Live /\ pool[p] # <<>>
  BY DEF FitEnds
<1>2. c \in Pairs /\ pool[p] \in Seq(Pairs) /\ Tail(pool[p]) \in Seq(Pairs)
      /\ Append(Tail(pool[p]), c) \in Seq(Pairs)
  BY <1>1 DEF RunInv, Types
<1>3. /\ queue' = first \/ queue' = IdleSet(first)
      /\ main' = main \/ main' = MainAfterIdleSet
      /\ fitAt' = [fitAt EXCEPT ![c] = IF snap[c] THEN "fitting" ELSE "parked"]
      /\ pool' = [pool EXCEPT ![p] = IF snap[c] THEN Append(Tail(@), c) ELSE Tail(@)]
      /\ UNCHANGED <<plan, ending, reports, goalAt>>
  BY Zenon DEF FitEnds
<1>4. Adds(first)
  BY <1>2, QueueSteps
<1> HIDE DEF c, first
<1>5. Adds(queue')
  <2>1. Adds(Append(first, Main))
    BY <1>4, AppendAdds, HandlesDiffer
  <2>2. QED
    BY <1>3, <1>4, <2>1 DEF IdleSet
<1>6. main' \in MainStates \ Ended
  BY <1>1, <1>3 DEF MainAfterIdleSet, RunInv, Types, MainStates, Live, Ended
<1>7. fitAt' \in [Pairs -> RunnerStates] /\ pool' \in [Producers -> Seq(Pairs)]
  BY <1>2, <1>3 DEF RunInv, Types, RunnerStates
<1>8. QED
  BY <1>1, <1>3, <1>5, <1>6, <1>7, LiveKeeps

\* The report that meets the goal is the last one written.
LEMMA RiskStepInv ==
  ASSUME RunInv, NEW c \in Pairs, NEW raises \in BOOLEAN, RiskStep(c, raises)
  PROVE  RunInv'
<1> DEFINE written == surf[c] /\ WritesReport /\ ~raises
           met == Goal # 0 /\ written /\ reports + 1 >= Goal
<1>1. Live /\ queue # <<>> /\ Goal \in Nat /\ reports \in Nat
  BY RunsLive, PlanTypes DEF RiskStep, RunInv, Types
<1>2. /\ reports' = IF written /\ Goal # 0 THEN reports + 1 ELSE reports
      /\ goalAt' = IF met THEN "woken" ELSE goalAt
      /\ queue' = IF met /\ goalAt = "waiting" THEN Append(Pop, GoalTask) ELSE Pop
      /\ UNCHANGED <<plan, main, ending, fitAt, pool, timers, feed>>
  BY Zenon DEF RiskStep, runVars, sourceVars
<1>3. written => Goal = 0 \/ reports < Goal
  BY <1>1 DEF WritesReport, GoalMet
<1> HIDE DEF written
<1>4. Adds(Pop)
  BY <1>1, QueueSteps
<1>5. CASE ~(written /\ Goal # 0)
  <2>1. reports' = reports /\ goalAt' = goalAt /\ queue' = Pop
    BY <1>2, <1>5
  <2>2. QED
    BY <1>1, <1>2, <1>4, <2>1, LiveKeeps DEF RunInv, Types, Live, Ended
<1>6. CASE written /\ Goal # 0
  <2>1. reports' = reports + 1 /\ reports < Goal /\ ~Met
    BY <1>1, <1>2, <1>3, <1>6 DEF Met
  <2>2. ~In(GoalTask, queue) /\ goalAt \notin {"woken", "done"} /\ ~(ending = "stopped")
    BY <1>1, <2>1 DEF RunInv, GoalTold, Live
  <2>3. Goal' = Goal
    BY <1>2 DEF Goal
  <2>4. queue' \in Seq(Handles)
    BY <1>2, <1>4, HandlesDiffer DEF Adds
  <2>5. Types'
    BY <1>1, <1>2, <2>1, <2>4 DEF RunInv, Types
  <2>6. CASE met
    <3>1. reports' = Goal
      BY <1>1, <2>1, <2>6
    <3>2. Met' /\ reports' <= Goal'
      BY <1>1, <1>6, <2>3, <3>1 DEF Met
    <3>3. GoalTold'
      BY <3>2 DEF GoalTold
    <3>4. QED
      BY <1>1, <1>2, <2>5, <3>3 DEF RunInv, Still, Live
  <2>7. CASE ~met
    <3>1. reports' < Goal /\ goalAt' = goalAt /\ queue' = Pop
      BY <1>1, <1>2, <1>6, <2>1, <2>7
    <3>2. ~In(GoalTask, queue)'
      BY <1>4, <2>2, <3>1 DEF Adds, In
    <3>3. reports' <= Goal'
      BY <1>1, <2>1, <2>3, <3>1
    <3>4. GoalTold'
      BY <1>2, <2>2, <3>1, <3>2, <3>3 DEF GoalTold
    <3>5. QED
      BY <1>1, <1>2, <2>5, <3>4 DEF RunInv, Still, Live
  <2>8. QED
    BY <2>6, <2>7
<1>7. QED
  BY <1>5, <1>6

LEMMA IngestStepInv == RunInv /\ IngestStep => RunInv'
<1> SUFFICES ASSUME RunInv, IngestStep PROVE RunInv'
  OBVIOUS
<1>1. Live /\ queue # <<>>
  BY RunsLive DEF IngestStep
<1>2. queue' \in {Pop, Append(Pop, Notice)}
  BY DEF IngestStep, Notified
<1>3. Adds(queue')
  BY <1>1, <1>2, QueueSteps
<1>4. UNCHANGED <<plan, main, ending, reports, goalAt, fitAt, pool>>
  BY Zenon DEF IngestStep, runVars, loopVars
<1>5. QED
  BY <1>1, <1>3, <1>4, LiveKeeps DEF RunInv, Types, Live, Ended

\* The goal's task only ran because the goal is met.
LEMMA GoalStepInv == RunInv /\ GoalStep => RunInv'
<1> SUFFICES ASSUME RunInv, GoalStep PROVE RunInv'
  OBVIOUS
<1>1. Live /\ queue # <<>> /\ Head(queue) = GoalTask
  BY RunsLive DEF GoalStep, Runs
<1>2. In(GoalTask, queue)
  BY <1>1 DEF In, RunInv, Types
<1>3. Met /\ Goal \in Nat
  BY <1>2, PlanTypes DEF RunInv, Types, GoalTold
<1>4. queue' \in {Pop, Append(Pop, Notice)}
  BY DEF GoalStep, Notified
<1>5. queue' \in Seq(Handles)
  BY <1>1, <1>4, QueueSteps DEF Adds
<1>6. UNCHANGED <<plan, main, ending, reports, fitAt, pool>>
  BY Zenon DEF GoalStep, runVars, loopVars
<1>7. Types'
  BY <1>5, <1>6 DEF RunInv, Types
<1>8. Met' /\ (Goal # 0 => reports <= Goal)'
  BY <1>3, <1>6 DEF Met, Goal
<1>9. GoalTold'
  BY <1>8 DEF GoalTold
<1>10. QED
  BY <1>1, <1>6, <1>7, <1>9 DEF RunInv, Still, Live

LEMMA NoticeStepInv == RunInv /\ NoticeStep => RunInv'
<1> SUFFICES ASSUME RunInv, NoticeStep PROVE RunInv'
  OBVIOUS
<1>1. Live /\ queue # <<>>
  BY RunsLive DEF NoticeStep
<1>2. queue' \in {Pop, Append(Pop, Main)}
  BY DEF NoticeStep
<1>3. Adds(queue')
  BY <1>1, <1>2, QueueSteps
<1>4. UNCHANGED <<plan, ending, reports, goalAt, fitAt, pool>>
  BY Zenon DEF NoticeStep, loopVars
<1>5. main' \in MainStates \ Ended
  BY <1>1 DEF NoticeStep, MainStates, RunInv, Types, Live, Ended
<1>6. QED
  BY <1>1, <1>3, <1>4, <1>5, LiveKeeps DEF RunInv, Types

LEMMA ResumeInv == RunInv /\ Resume => RunInv'
<1> SUFFICES ASSUME RunInv, Resume PROVE RunInv'
  OBVIOUS
<1>1. Live /\ queue # <<>> /\ Adds(Pop)
  BY RunsLive, QueueSteps DEF Resume
<1>2. UNCHANGED <<plan, reports, fitAt, pool>>
  BY Zenon DEF Resume, loopVars
<1>3. CASE Finally("failed")
  BY <1>1, <1>2, <1>3, FinallyKeeps
<1>4. CASE goalAt = "done" /\ Finally("stopped")
  BY <1>1, <1>2, <1>4, FinallyKeeps DEF RunInv, GoalTold
<1>5. CASE main' = "silencing" /\ queue' = Pop /\ UNCHANGED <<ending, goalAt>>
  BY <1>1, <1>2, <1>5, LiveKeeps DEF RunInv, Types, MainStates, Ended
<1>6. QED
  BY <1>3, <1>4, <1>5, Zenon DEF Resume

LEMMA CutShortInv == RunInv /\ (DurationElapses \/ Interrupt) => RunInv'
<1> SUFFICES ASSUME RunInv, DurationElapses \/ Interrupt PROVE RunInv'
  OBVIOUS
<1>1. UNCHANGED <<plan, reports, fitAt, pool>>
  BY Zenon DEF DurationElapses, Interrupt, loopVars
<1>2. CASE DurationElapses
  <2>1. Live /\ Finally(IF Failed THEN "failed" ELSE "elapsed")
    BY <1>2 DEF DurationElapses, Live
  <2>2. (IF Failed THEN "failed" ELSE "elapsed") # "stopped"
    OBVIOUS
  <2>3. QED
    BY <1>1, <2>1, <2>2, FinallyKeeps
<1>3. CASE Live /\ Finally("cancelled")
  BY <1>1, <1>3, FinallyKeeps
<1>4. CASE /\ main = "cleaning" /\ main' = "abandoning" /\ ending' = "cancelled"
           /\ UNCHANGED <<queue, sourceVars, goalAt>>
  BY <1>1, <1>4, EndKeeps DEF RunInv, Types, Live, Ended, sourceVars
<1>5. QED
  BY <1>2, <1>3, <1>4, Zenon DEF Interrupt

LEMMA SilencedInv == RunInv /\ Silenced => RunInv'
<1> SUFFICES ASSUME RunInv, Silenced PROVE RunInv'
  OBVIOUS
<1>1. Live /\ main' = "silenced" /\ queue' = Append(queue, Main)
  BY DEF Silenced, Live
<1>2. UNCHANGED <<plan, ending, reports, goalAt, fitAt, pool>>
  BY Zenon DEF Silenced, loopVars
<1>3. QED
  BY <1>1, <1>2, QueueSteps, LiveKeeps DEF RunInv, Types, MainStates, Ended

LEMMA SettleStepInv == RunInv /\ SettleStep => RunInv'
<1> SUFFICES ASSUME RunInv, SettleStep PROVE RunInv'
  OBVIOUS
<1>1. Live /\ queue # <<>>
  BY RunsLive DEF SettleStep
<1>2. UNCHANGED <<plan, reports, fitAt, pool>>
  BY Zenon DEF SettleStep
<1>3. CASE Finally("exhausted")
  BY <1>1, <1>2, <1>3, FinallyKeeps
<1>4. CASE /\ main' \in {"hopping", "idling"} /\ queue' \in {Pop, Append(Pop, Main)}
           /\ UNCHANGED <<ending, goalAt>>
  <2>1. Adds(queue')
    BY <1>1, <1>4, QueueSteps
  <2>2. QED
    BY <1>1, <1>2, <1>4, <2>1, LiveKeeps DEF RunInv, Types, MainStates, Ended
<1>5. QED
  BY <1>3, <1>4 DEF SettleStep, BeginPass, Judge

LEMMA UnwindInv ==
  ASSUME RunInv, NEW c \in Pairs, Unwind(c)
  PROVE  RunInv'
<1>1. PICK i \in DOMAIN pool[c[2]] : pool' = [pool EXCEPT ![c[2]] = RemoveAt(@, i)]
  BY Zenon DEF Unwind
<1>2. /\ main \in {"cleaning", "abandoning"} /\ fitAt' = [fitAt EXCEPT ![c] = "ended"]
      /\ UNCHANGED <<plan, main, ending, reports, goalAt, queue, timers, feed>>
  BY Zenon DEF Unwind, Unwinding, runVars, sourceVars
<1>3. pool[c[2]] \in Seq(Pairs) /\ c[2] \in Producers
  BY DEF RunInv, Types, Pairs
<1>4. RemoveAt(pool[c[2]], i) \in Seq(Pairs)
  BY <1>3, RemovalType
<1>5. pool' \in [Producers -> Seq(Pairs)] /\ fitAt' \in [Pairs -> RunnerStates]
  BY <1>1, <1>2, <1>3, <1>4 DEF RunInv, Types, RunnerStates
<1>6. QED
  BY <1>2, <1>5, EndKeeps DEF Live, Ended

LEMMA GatheredInv == RunInv /\ Gathered => RunInv'
<1> SUFFICES ASSUME RunInv, Gathered PROVE RunInv'
  OBVIOUS
<1>1. /\ main \in {"cleaning", "abandoning"} /\ main' \in {"shutting", "over"}
      /\ fitAt' = [c \in Pairs |-> "ended"]
      /\ UNCHANGED <<plan, ending, reports, goalAt, queue, timers, feed, pool>>
  BY Zenon DEF Gathered, Unwinding, sourceVars
<1>2. QED
  BY <1>1, EndKeeps DEF RunInv, Types, RunnerStates, Live, Ended

LEMMA WorkerEndsInv ==
  ASSUME RunInv, NEW p \in Producers, WorkerEnds(p)
  PROVE  RunInv'
<1>1. UNCHANGED <<plan, main, ending, reports, goalAt, queue, timers, feed, fitAt, pool>>
  BY Zenon DEF WorkerEnds, runVars, sourceVars
<1>2. QED
  BY <1>1, OverKeeps DEF RunInv, Types

LEMMA ReturnInv == RunInv /\ Return => RunInv'
<1> SUFFICES ASSUME RunInv, Return PROVE RunInv'
  OBVIOUS
<1>1. /\ main = "shutting" /\ main' = "over"
      /\ UNCHANGED <<plan, ending, reports, goalAt, queue, timers, feed, fitAt, pool>>
  BY Zenon DEF Return, sourceVars, loopVars
<1>2. QED
  BY <1>1, EndKeeps DEF RunInv, Types, Still, Live, Ended

LEMMA PipelineNextInv == RunInv /\ [Next]_vars => RunInv'
<1> SUFFICES ASSUME RunInv, [Next]_vars PROVE RunInv'
  OBVIOUS
<1>1. CASE StartRun
  BY <1>1, StartRunInv
<1>2. ASSUME NEW m \in Markets, Publish(m) \/ OrphanStops(m) PROVE RunInv'
  BY <1>2, PublishInv, OrphanStopsInv
<1>3. ASSUME NEW m \in Markets, NEW how \in {"ended", "failed"}, FeedStops(m, how) PROVE RunInv'
  BY <1>3, FeedStopsInv
<1>4. ASSUME NEW c \in Pairs, FitStep(c) \/ Unwind(c) PROVE RunInv'
  BY <1>4, FitStepInv, UnwindInv
<1>5. ASSUME NEW c \in Pairs, NEW raises \in BOOLEAN, RiskStep(c, raises) PROVE RunInv'
  BY <1>5, RiskStepInv
<1>6. ASSUME NEW p \in Producers, WorkerEnds(p) PROVE RunInv'
  BY <1>6, WorkerEndsInv
<1>7. ASSUME NEW p \in Producers, NEW outcome \in {"surface", "failure", "raised"},
             FitEnds(p, outcome)
      PROVE RunInv'
  BY <1>7, FitEndsInv
<1>8. CASE TimersFail \/ IngestStep \/ GoalStep \/ NoticeStep \/ Resume
  BY <1>8, TimersFailInv, IngestStepInv, GoalStepInv, NoticeStepInv, ResumeInv
<1>9. CASE DurationElapses \/ Interrupt \/ Silenced \/ SettleStep \/ Gathered \/ Return
  BY <1>9, CutShortInv, SilencedInv, SettleStepInv, GatheredInv, ReturnInv
<1>10. CASE UNCHANGED vars
  BY <1>10, PipelineStutterInv
<1>11. QED
  BY <1>1, <1>2, <1>3, <1>4, <1>5, <1>6, <1>7, <1>8, <1>9, <1>10 DEF Next

--------------------------------------------------------------------------------
(* The theorems.                                                           *)

\* In every behaviour of the pipeline, run after run: what says that the goal is met says
\* so truly, and from the finally of run() on nothing of the run goes on but the handlers
\* that unwind.
THEOREM PipelineInvariant == Spec => []RunInv
<1>1. QED
  BY PipelineInitInv, PipelineNextInv, PTL DEF Spec

\* A run writes its max_reports and no more, whatever surfaces were queued behind the one
\* that met the goal, and a run that a goal ended wrote no fewer (_report_handler,
\* _goal_met, _wait_for_goal).
THEOREM GoalsAreExact == Spec => []GoalIsExact
<1>1. RunInv => GoalIsExact
  BY DEF RunInv, GoalTold, GoalIsExact, Met
<1>2. QED
  BY <1>1, PipelineInvariant, PTL

--------------------------------------------------------------------------------
(* The order of the queue.                                                 *)

\* The tasks the loop never holds twice, and those of the runners.
Single(h) == h = Main \/ \E c \in Pairs : h = Fit(c)
Runner(h) == \E c \in Pairs : h = Fit(c) \/ h = Risk(c)

Once(q) == \A i, j \in DOMAIN q : i < j /\ Single(q[i]) => q[j] # q[i]

\* No runner waits behind run().
Behind(q) == \A i, j \in DOMAIN q : i < j /\ q[i] = Main => ~Runner(q[j])

LEMMA TailFacts ==
  ASSUME NEW q \in Seq(Handles), q # <<>>
  PROVE  /\ \A h : In(h, q) <=> h = Head(q) \/ In(h, Tail(q))
         /\ Once(q) => Once(Tail(q)) /\ (Single(Head(q)) => ~In(Head(q), Tail(q)))
         /\ Behind(q) =>
              /\ Behind(Tail(q))
              /\ Head(q) = Main => \A h : In(h, Tail(q)) => ~Runner(h)
<1> DEFINE r == Tail(q)
<1>1. /\ Len(q) \in Nat \ {0} /\ DOMAIN q = 1..Len(q) /\ Head(q) = q[1]
      /\ DOMAIN r = 1..(Len(q) - 1) /\ \A i \in DOMAIN r : r[i] = q[i + 1]
  OBVIOUS
<1> HIDE DEF r
<1>2. \A i \in DOMAIN r : i \in Nat /\ i + 1 \in DOMAIN q /\ 1 < i + 1
  BY <1>1
<1>3. \A h : In(h, q) <=> h = Head(q) \/ In(h, r)
  <2> SUFFICES ASSUME NEW h PROVE In(h, q) <=> h = Head(q) \/ In(h, r)
    OBVIOUS
  <2>1. h = Head(q) \/ In(h, r) => In(h, q)
    BY <1>1, <1>2 DEF In
  <2>2. ASSUME NEW i \in DOMAIN q, q[i] = h PROVE h = Head(q) \/ In(h, r)
    <3>1. i = 1 \/ (i - 1 \in DOMAIN r /\ r[i - 1] = q[i])
      BY <1>1
    <3>2. QED
      BY <1>1, <2>2, <3>1 DEF In
  <2>3. QED
    BY <2>1, <2>2 DEF In
<1>4. ASSUME Once(q) PROVE Once(r) /\ (Single(Head(q)) => ~In(Head(q), r))
  <2>1. Once(r)
    BY <1>1, <1>2, <1>4 DEF Once
  <2>2. \A i \in DOMAIN r : Single(q[1]) => q[i + 1] # q[1]
    BY <1>1, <1>2, <1>4 DEF Once
  <2>3. QED
    BY <1>1, <2>1, <2>2 DEF In
<1>5. ASSUME Behind(q)
      PROVE  Behind(r) /\ (Head(q) = Main => \A h : In(h, r) => ~Runner(h))
  <2>1. Behind(r)
    BY <1>1, <1>2, <1>5 DEF Behind
  <2>2. \A i \in DOMAIN r : q[1] = Main => ~Runner(q[i + 1])
    BY <1>1, <1>2, <1>5 DEF Behind
  <2>3. QED
    BY <1>1, <2>1, <2>2 DEF In
<1>6. QED
  BY <1>3, <1>4, <1>5 DEF r

LEMMA AppendFacts ==
  ASSUME NEW q \in Seq(Handles), NEW x \in Handles
  PROVE  /\ \A h : In(h, Append(q, x)) <=> In(h, q) \/ h = x
         /\ Once(q) /\ (Single(x) => ~In(x, q)) => Once(Append(q, x))
         /\ Behind(q) /\ (Runner(x) => ~In(Main, q)) => Behind(Append(q, x))
<1> DEFINE n == Len(q) + 1
           r == Append(q, x)
<1>1. /\ DOMAIN r = 1..n /\ DOMAIN q = 1..(n - 1) /\ n \in Nat \ {0} /\ r[n] = x
      /\ \A i \in DOMAIN q : r[i] = q[i]
  OBVIOUS
<1> HIDE DEF n, r
<1>2. \A h : In(h, r) <=> In(h, q) \/ h = x
  <2>1. \A i \in DOMAIN r : i \in DOMAIN q \/ i = n
    BY <1>1
  <2>2. DOMAIN q \subseteq DOMAIN r /\ n \in DOMAIN r
    BY <1>1
  <2>3. QED
    BY <1>1, <2>1, <2>2 DEF In
<1>3. \A i, j \in DOMAIN r : i < j => i \in DOMAIN q /\ (j \in DOMAIN q \/ j = n)
  BY <1>1
<1>4. Once(q) /\ (Single(x) => ~In(x, q)) => Once(r)
  BY <1>1, <1>3 DEF Once, In
<1>5. Behind(q) /\ (Runner(x) => ~In(Main, q)) => Behind(r)
  BY <1>1, <1>3 DEF Behind, In
<1>6. QED
  BY <1>2, <1>4, <1>5 DEF r

LEMMA ConcatFacts ==
  ASSUME NEW q \in Seq(Handles), NEW r \in Seq(Handles)
  PROVE  /\ \A h : In(h, q \o r) <=> In(h, q) \/ In(h, r)
         /\ Once(q) /\ Once(r) /\ (\A h : Single(h) /\ In(h, q) => ~In(h, r)) => Once(q \o r)
<1> DEFINE n == Len(q)
           m == Len(r)
           s == q \o r
<1>1. /\ n \in Nat /\ m \in Nat /\ DOMAIN q = 1..n /\ DOMAIN r = 1..m /\ DOMAIN s = 1..(n + m)
      /\ \A i \in 1..n : s[i] = q[i]
      /\ \A i \in 1..(n + m) : i > n => s[i] = r[i - n]
  OBVIOUS
<1> HIDE DEF n, m, s
<1>2. \A i \in DOMAIN s : \/ i \in DOMAIN q /\ s[i] = q[i]
                          \/ i - n \in DOMAIN r /\ s[i] = r[i - n]
  BY <1>1
<1>3. \A h : In(h, s) => In(h, q) \/ In(h, r)
  BY <1>2 DEF In
<1>4. \A h : In(h, q) => In(h, s)
  <2>1. \A i \in DOMAIN q : i \in DOMAIN s /\ s[i] = q[i]
    BY <1>1
  <2>2. QED
    BY <2>1 DEF In
<1>5. \A h : In(h, r) => In(h, s)
  <2>1. \A i \in DOMAIN r : i + n \in DOMAIN s /\ i + n > n /\ (i + n) - n = i
    BY <1>1
  <2>2. \A i \in DOMAIN r : i + n \in DOMAIN s /\ s[i + n] = r[i]
    BY <1>1, <2>1
  <2>3. QED
    BY <2>2 DEF In
<1>6. ASSUME Once(q), Once(r), \A h : Single(h) /\ In(h, q) => ~In(h, r),
             NEW i \in DOMAIN s, NEW j \in DOMAIN s, i < j, Single(s[i])
      PROVE  s[j] # s[i]
  <2>1. CASE j <= n
    <3>1. i \in DOMAIN q /\ j \in DOMAIN q /\ s[i] = q[i] /\ s[j] = q[j]
      BY <1>1, <1>6, <2>1
    <3>2. QED
      BY <1>6, <3>1 DEF Once
  <2>2. CASE i > n
    <3>1. i - n \in DOMAIN r /\ j - n \in DOMAIN r /\ i - n < j - n
          /\ s[i] = r[i - n] /\ s[j] = r[j - n]
      BY <1>1, <1>6, <2>2
    <3>2. QED
      BY <1>6, <3>1 DEF Once
  <2>3. CASE i <= n /\ j > n
    <3>1. i \in DOMAIN q /\ s[i] = q[i] /\ j - n \in DOMAIN r /\ s[j] = r[j - n]
      BY <1>1, <1>6, <2>3
    <3>2. In(s[i], q) /\ In(s[j], r)
      BY <3>1 DEF In
    <3>3. QED
      BY <1>6, <3>2
  <2>4. QED
    BY <1>1, <2>1, <2>2, <2>3
<1>7. QED
  BY <1>3, <1>4, <1>5, <1>6 DEF Once, s

\* SetToSeq lists every element, and each of them once.
LEMMA SetListed ==
  ASSUME NEW S \in SUBSET Handles, IsFiniteSet(S)
  PROVE  /\ SetToSeq(S) \in Seq(Handles)
         /\ \A h : In(h, SetToSeq(S)) <=> h \in S
         /\ Once(SetToSeq(S))
<1> DEFINE n == Cardinality(S)
           f == SetToSeq(S)
<1>1. n \in Nat /\ ExistsBijection(1..n, S)
  BY FS_CardinalityType
<1>2. \E g \in [1..n -> S] : IsInjective(g)
  BY <1>1, Zenon DEF ExistsBijection, Bijection, Injection
<1>3. f \in [1..n -> S] /\ IsInjective(f)
  BY <1>2, Zenon DEF SetToSeq
<1> HIDE DEF f
<1>4. f \in Injection(1..n, S)
  BY <1>3, Zenon DEF Injection
<1>5. Cardinality(1..n) = n /\ IsFiniteSet(1..n)
  BY <1>1, FS_Interval
<1>6. f \in Surjection(1..n, S)
  BY <1>4, <1>5, FS_Injection
<1>7. f \in Seq(Handles) /\ DOMAIN f = 1..n
  BY <1>1, <1>3
<1>8. \A h : In(h, f) <=> h \in S
  <2>1. \A h \in S : \E i \in 1..n : f[i] = h
    BY <1>6 DEF Surjection
  <2>2. QED
    BY <1>3, <1>7, <2>1 DEF In
<1>9. Once(f)
  BY <1>1, <1>3, <1>7 DEF Once, IsInjective
<1>10. QED
  BY <1>7, <1>8, <1>9 DEF f

LEMMA HandlesApart ==
  /\ Single(Main) /\ \A h \in {Notice, Ingest, GoalTask} : ~Single(h) /\ h # Main
  /\ \A h \in {Main, Notice, Ingest, GoalTask} : h \in Handles /\ ~Runner(h)
  /\ \A c \in Pairs : /\ Fit(c) \in Handles /\ Risk(c) \in Handles
                      /\ Single(Fit(c)) /\ ~Single(Risk(c))
                      /\ Fit(c) # Main /\ Risk(c) # Main
  /\ \A c, d \in Pairs : Fit(c) # Risk(d) /\ (Fit(c) = Fit(d) => c = d) /\ (Risk(c) = Risk(d) => c = d)
<1>1. GoalTask[1] = "goal" /\ Main[1] = "main" /\ Notice[1] = "notice" /\ Ingest[1] = "ingest"
  BY DEF GoalTask, Main, Notice, Ingest
<1>2. \A c \in Pairs : /\ Fit(c)[1] = "fit" /\ Risk(c)[1] = "risk"
                       /\ Fit(c)[2] = c /\ Risk(c)[2] = c
  BY DEF Fit, Risk
<1>3. \A h \in {Notice, Ingest, GoalTask} : ~Single(h) /\ h # Main
  BY <1>1, <1>2 DEF Single
<1>4. \A h \in {Main, Notice, Ingest, GoalTask} : h \in Handles /\ ~Runner(h)
  BY <1>1, <1>2 DEF Runner, Handles
<1>5. \A c \in Pairs : /\ Fit(c) \in Handles /\ Risk(c) \in Handles
                       /\ Single(Fit(c)) /\ ~Single(Risk(c))
                       /\ Fit(c) # Main /\ Risk(c) # Main
  BY <1>1, <1>2 DEF Single, Handles
<1>6. \A c, d \in Pairs : /\ Fit(c) # Risk(d)
                          /\ Fit(c) = Fit(d) => c = d
                          /\ Risk(c) = Risk(d) => c = d
  BY <1>2
<1>7. Single(Main)
  BY DEF Single
<1>8. QED
  BY <1>3, <1>4, <1>5, <1>6, <1>7

--------------------------------------------------------------------------------
(* Why a run that settles has drained: the inductive invariant.            *)

Fitting == {c \in Pairs : fitAt[c] = "fitting"}

\* A runner that has something to do is in the queue, and one that has parked has not.
Scheduled ==
  /\ \A c \in Pairs : In(Fit(c), queue) => fitAt[c] \in {"calling", "woken"}
  /\ \A c \in Wired :
       /\ fitAt[c] \in {"calling", "woken"} => In(Fit(c), queue)
       /\ riskAt[c] \in {"calling", "woken"} => In(Risk(c), queue)
       /\ fitAt[c] # "ended" /\ riskAt[c] \notin {"ended", "fitting"}
  /\ \A c \in Pairs :
       /\ fitAt[c] = "parked" => ~snap[c]
       /\ riskAt[c] = "parked" => ~surf[c]

\* The jobs of p's pool are the fits its runners await, each of them once.
Holds(p, jobs, fits) ==
  /\ \A i \in DOMAIN jobs : jobs[i][2] = p /\ jobs[i] \in fits
  /\ \A i, j \in DOMAIN jobs : i # j => jobs[i] # jobs[j]
  /\ \A c \in fits : c[2] = p => In(c, jobs)

\* The flag counts the fits that are awaited, from the start of a run to the start of the
\* next.
Pooled ==
  /\ \A p \in Producers : Holds(p, pool[p], Fitting)
  /\ busy = Cardinality(Fitting) /\ idle = (busy = 0)

\* run() is in the queue once, or not at all while it waits for somebody; while nothing has
\* moved since _settle read its counters, whatever is behind it wakes no runner; and if it
\* has to wait for a handler, there is one, and something moves before it goes on.
Settling ==
  /\ Once(queue)
  /\ main \in {"waiting", "silencing", "idling"} => ~In(Main, queue)
  /\ main = "hopping" /\ quiet => Behind(queue)
  /\ main = "idling" => ~idle
  /\ main = "idled" => ~quiet

DrainTypes ==
  /\ RunInv
  /\ riskAt \in [Pairs -> RunnerStates] /\ snap \in [Pairs -> BOOLEAN] /\ surf \in [Pairs -> BOOLEAN]
  /\ quiet \in BOOLEAN /\ busy \in Nat

DrainInv == DrainTypes /\ Pooled /\ (Live => Scheduled /\ Settling)

LEMMA FittingFinite == IsFiniteSet(Fitting) /\ Cardinality(Fitting) \in Nat
  BY PairsFinite, FS_Subset, FS_CardinalityType DEF Fitting

LEMMA HoldsAppend ==
  ASSUME NEW p, NEW jobs \in Seq(Pairs), NEW fits, Holds(p, jobs, fits),
         NEW c \in Pairs, c[2] = p, c \notin fits
  PROVE  Holds(p, Append(jobs, c), fits \cup {c})
<1> DEFINE more == Append(jobs, c)
           n == Len(jobs) + 1
<1>1. /\ DOMAIN more = 1..n /\ DOMAIN jobs = 1..(n - 1) /\ n \in Nat \ {0} /\ more[n] = c
      /\ \A i \in DOMAIN jobs : more[i] = jobs[i]
  OBVIOUS
<1> HIDE DEF more, n
<1>2. \A i \in DOMAIN more : i \in DOMAIN jobs \/ i = n
  BY <1>1
<1>3. \A i \in DOMAIN more : more[i][2] = p /\ more[i] \in fits \cup {c}
  BY <1>1, <1>2 DEF Holds
<1>4. \A i, j \in DOMAIN more : i # j => more[i] # more[j]
  BY <1>1, <1>2 DEF Holds
<1>5. \A d \in fits \cup {c} : d[2] = p => In(d, more)
  <2>1. n \in DOMAIN more /\ DOMAIN jobs \subseteq DOMAIN more
    BY <1>1
  <2>2. QED
    BY <1>1, <2>1 DEF Holds, In
<1>6. QED
  BY <1>3, <1>4, <1>5 DEF Holds, more

LEMMA HoldsRemove ==
  ASSUME NEW p, NEW jobs \in Seq(Pairs), NEW fits, Holds(p, jobs, fits), NEW i \in DOMAIN jobs
  PROVE  Holds(p, RemoveAt(jobs, i), fits \ {jobs[i]})
<1> DEFINE rest == RemoveAt(jobs, i)
           n == Len(jobs)
<1>1. /\ n \in Nat /\ DOMAIN jobs = 1..n /\ DOMAIN rest = 1..(n - 1)
      /\ \A j \in DOMAIN rest : rest[j] = IF j < i THEN jobs[j] ELSE jobs[j + 1]
  BY RemovalType
<1> HIDE DEF rest, n
<1>2. \A j \in DOMAIN rest : \E k \in DOMAIN jobs :
        k # i /\ rest[j] = jobs[k] /\ k = IF j < i THEN j ELSE j + 1
  BY <1>1
<1>3. \A j \in DOMAIN rest : rest[j][2] = p /\ rest[j] \in fits \ {jobs[i]}
  BY <1>2 DEF Holds
<1>4. ASSUME NEW j \in DOMAIN rest, NEW k \in DOMAIN rest, j # k PROVE rest[j] # rest[k]
  <2>1. PICK a \in DOMAIN jobs : rest[j] = jobs[a] /\ a = IF j < i THEN j ELSE j + 1
    BY <1>2
  <2>2. PICK b \in DOMAIN jobs : rest[k] = jobs[b] /\ b = IF k < i THEN k ELSE k + 1
    BY <1>2
  <2>3. a # b
    BY <1>1, <1>4, <2>1, <2>2
  <2>4. QED
    BY <2>1, <2>2, <2>3 DEF Holds
<1>5. ASSUME NEW d \in fits \ {jobs[i]}, d[2] = p PROVE In(d, rest)
  <2>1. PICK k \in DOMAIN jobs : jobs[k] = d
    BY <1>5 DEF Holds, In
  <2>2. k # i
    BY <2>1
  <2>3. CASE k < i
    <3>1. k \in DOMAIN rest /\ rest[k] = d
      BY <1>1, <2>1, <2>3
    <3>2. QED
      BY <3>1 DEF In
  <2>4. CASE k > i
    <3>1. k - 1 \in DOMAIN rest /\ ~(k - 1 < i) /\ (k - 1) + 1 = k
      BY <1>1, <2>4
    <3>2. rest[k - 1] = d
      BY <1>1, <2>1, <3>1
    <3>3. QED
      BY <3>1, <3>2 DEF In
  <2>5. QED
    BY <1>1, <2>2, <2>3, <2>4
<1>6. QED
  BY <1>3, <1>4, <1>5 DEF Holds, rest

LEMMA HoldsElsewhere ==
  ASSUME NEW p, NEW jobs, NEW fits, Holds(p, jobs, fits), NEW c, c[2] # p
  PROVE  Holds(p, jobs, fits \cup {c}) /\ Holds(p, jobs, fits \ {c})
  BY DEF Holds

LEMMA TailRemoves ==
  ASSUME NEW s \in Seq(Pairs), s # <<>>
  PROVE  1 \in DOMAIN s /\ s[1] = Head(s) /\ Tail(s) = RemoveAt(s, 1)
<1>1. 1 \in DOMAIN s /\ s[1] = Head(s) /\ Len(s) \in Nat \ {0}
  OBVIOUS
<1>2. /\ RemoveAt(s, 1) \in Seq(Pairs) /\ DOMAIN RemoveAt(s, 1) = 1..(Len(s) - 1)
      /\ \A j \in DOMAIN RemoveAt(s, 1) :
           RemoveAt(s, 1)[j] = IF j < 1 THEN s[j] ELSE s[j + 1]
  BY <1>1, RemovalType
<1> DEFINE r == RemoveAt(s, 1)
           t == Tail(s)
<1>3. t \in Seq(Pairs) /\ Len(t) = Len(s) - 1 /\ \A j \in 1..(Len(s) - 1) : t[j] = s[j + 1]
  BY <1>1
<1>4. r \in Seq(Pairs) /\ DOMAIN r = 1..(Len(s) - 1) /\ \A j \in 1..(Len(s) - 1) : r[j] = s[j + 1]
  BY <1>1, <1>2
<1> HIDE DEF r, t
<1>5. t = r
  BY <1>1, <1>3, <1>4
<1>6. QED
  BY <1>1, <1>5 DEF r, t

LEMMA PooledPrimed ==
  ASSUME \A p \in Producers : Holds(p, pool'[p], Fitting'),
         busy' = Cardinality(Fitting'), idle' = (busy' = 0)
  PROVE  Pooled'
<1>1. \A p \in Producers : Holds(p, pool[p], Fitting)' <=> Holds(p, pool'[p], Fitting')
  BY DEF Holds, In
<1>2. Cardinality(Fitting)' = Cardinality(Fitting')
  OBVIOUS
<1>3. QED
  BY <1>1, <1>2, Zenon DEF Pooled

\* A step that neither begins nor ends a fit.
LEMMA PooledKeeps ==
  ASSUME Pooled, UNCHANGED <<pool, busy, idle>>, Fitting' = Fitting
  PROVE  Pooled'
  BY PooledPrimed DEF Pooled

\* A step that leaves the runners alone.
LEMMA RunnersKeep ==
  ASSUME DrainInv, RunInv', Live,
         UNCHANGED <<plan, snap, surf, fitAt, riskAt, pool, busy, idle>>,
         quiet' \in BOOLEAN,
         \A h : Runner(h) => (In(h, queue') <=> In(h, queue)),
         Settling'
  PROVE  DrainInv'
<1>1. DrainTypes'
  BY DEF DrainInv, DrainTypes
<1>2. Wired' = Wired /\ Fitting' = Fitting
  BY DEF Wired, Fitting
<1>3. \A c \in Pairs : Runner(Fit(c)) /\ Runner(Risk(c))
  BY DEF Runner
<1>4. \A c \in Pairs : /\ In(Fit(c), queue)' <=> In(Fit(c), queue)
                       /\ In(Risk(c), queue)' <=> In(Risk(c), queue)
  BY <1>3 DEF In
<1>5. Wired \subseteq Pairs
  BY PlanTypes DEF DrainInv, DrainTypes, RunInv, Types, Wired, Pairs
<1>6. Scheduled'
  BY <1>2, <1>4, <1>5 DEF DrainInv, Scheduled
<1>7. Pooled'
  BY <1>2, PooledKeeps DEF DrainInv
<1>8. QED
  BY <1>1, <1>6, <1>7 DEF DrainInv

\* What is known of a queue after the task at its head has gone, and of one more appended.
LEMMA Dequeue ==
  ASSUME DrainInv, NEW h, Runs(h)
  PROVE  /\ queue \in Seq(Handles) /\ queue # <<>> /\ Pop \in Seq(Handles) /\ h = Head(queue)
         /\ Live
         /\ \A g : In(g, queue) <=> g = h \/ In(g, Pop)
         /\ Once(Pop) /\ (Single(h) => ~In(h, Pop))
         /\ main = "hopping" /\ quiet => Behind(Pop)
         /\ main = "hopping" /\ quiet /\ h = Main => \A g : In(g, Pop) => ~Runner(g)
<1>1. queue \in Seq(Handles) /\ queue # <<>> /\ Pop \in Seq(Handles) /\ h = Head(queue)
      /\ Live
  BY RunsLive DEF DrainInv, DrainTypes, RunInv, Types, Runs, Pop
<1>2. QED
  BY <1>1, TailFacts DEF DrainInv, Settling, Pop

\* A queue the loop took nothing from but a task that is no runner's, and to which at most
\* such a task was added.
LEMMA OtherTask ==
  ASSUME DrainInv, RunInv', Live, NEW q \in Seq(Handles), NEW x \in {Notice, Ingest, GoalTask},
         UNCHANGED <<plan, snap, surf, fitAt, riskAt, pool, busy, idle, main, quiet>>,
         Once(q), \A h : Runner(h) \/ h = Main => (In(h, q) <=> In(h, queue)),
         main = "hopping" /\ quiet => Behind(q),
         queue' = q \/ queue' = Append(q, x)
  PROVE  DrainInv'
<1>1. /\ \A h : In(h, Append(q, x)) <=> In(h, q) \/ h = x
      /\ Once(Append(q, x))
      /\ Behind(q) => Behind(Append(q, x))
  BY AppendFacts, HandlesApart
<1>2. /\ \A h : Runner(h) \/ h = Main => (In(h, queue') <=> In(h, queue))
      /\ Once(queue')
      /\ main = "hopping" /\ quiet => Behind(queue')
  BY <1>1, HandlesApart
<1>3. (In(Main, queue)' <=> In(Main, queue)) /\ (Once(queue)' <=> Once(queue'))
      /\ (Behind(queue)' <=> Behind(queue'))
  BY <1>2 DEF In, Once, Behind, Single, Runner
<1>4. Settling'
  BY <1>2, <1>3 DEF DrainInv, Settling
<1>5. QED
  BY <1>2, <1>4, RunnersKeep DEF DrainInv, DrainTypes

--------------------------------------------------------------------------------
(* Action by action.                                                       *)

\* A step after which no run goes on: the fits that are awaited are still counted.
LEMMA NoRun ==
  ASSUME DrainInv, RunInv', ~Live', snap' \in [Pairs -> BOOLEAN], quiet' \in BOOLEAN,
         riskAt' \in [Pairs -> RunnerStates], UNCHANGED <<surf, pool, busy, idle>>,
         \A c \in Pairs : fitAt'[c] = "fitting" <=> fitAt[c] = "fitting"
  PROVE  DrainInv'
<1>1. DrainTypes'
  BY DEF DrainInv, DrainTypes
<1>2. Fitting' = Fitting
  BY DEF Fitting
<1>3. Pooled'
  BY <1>2, PooledKeeps DEF DrainInv
<1>4. QED
  BY <1>1, <1>3 DEF DrainInv

\* run() enters its finally.
LEMMA FinallyDrain ==
  ASSUME DrainInv, RunInv', NEW how, Finally(how), UNCHANGED loopVars
  PROVE  DrainInv'
<1>1. ~Live'
  BY DEF Finally, Live
<1>2. UNCHANGED <<snap, surf, fitAt, riskAt, pool, busy, idle, quiet>>
  BY Zenon DEF loopVars
<1>3. QED
  BY <1>1, <1>2, NoRun DEF DrainInv, DrainTypes

LEMMA DrainInit == Init => DrainInv
<1> SUFFICES ASSUME Init PROVE DrainInv
  OBVIOUS
<1>1. RunInv
  BY PipelineInitInv
<1>2. /\ riskAt \in [Pairs -> RunnerStates] /\ snap \in [Pairs -> BOOLEAN]
      /\ surf \in [Pairs -> BOOLEAN] /\ quiet \in BOOLEAN /\ busy \in Nat
      /\ main = "over" /\ busy = 0 /\ idle = TRUE
  BY DEF Init, RunnerStates
<1>3. Fitting = {} /\ \A p \in Producers : DOMAIN pool[p] = {}
  BY DEF Init, Fitting
<1>4. Pooled
  BY <1>2, <1>3, FS_EmptySet DEF Pooled, Holds
<1>5. QED
  BY <1>1, <1>2, <1>4 DEF DrainInv, DrainTypes, Live

\* A step that moves nothing of the run.
LEMMA NothingMoves ==
  ASSUME DrainInv, RunInv',
         UNCHANGED <<plan, main, ending, queue, snap, surf, fitAt, riskAt, pool, busy, idle, quiet>>
  PROVE  DrainInv'
<1>1. CASE ~Live
  <2>1. ~Live'
    BY <1>1 DEF Live
  <2>2. QED
    BY <2>1, NoRun DEF DrainInv, DrainTypes
<1>2. CASE Live
  <2>1. Settling'
    BY <1>2 DEF DrainInv, Settling, Once, In, Behind, Single, Runner
  <2>2. QED
    BY <1>2, <2>1, RunnersKeep DEF DrainInv, DrainTypes
<1>3. QED
  BY <1>1, <1>2

LEMMA StutterDrain == DrainInv /\ UNCHANGED vars => DrainInv'
<1> SUFFICES ASSUME DrainInv, UNCHANGED vars PROVE DrainInv'
  OBVIOUS
<1>1. RunInv'
  BY PipelineStutterInv DEF DrainInv, DrainTypes
<1>2. UNCHANGED <<plan, main, ending, queue, snap, surf, fitAt, riskAt, pool, busy, idle, quiet>>
  BY Zenon DEF vars, runVars, loopVars
<1>3. QED
  BY <1>1, <1>2, NothingMoves

LEMMA ElsewhereDrain ==
  ASSUME DrainInv,
         \/ \E m \in Markets : OrphanStops(m)
         \/ \E p \in Producers : WorkerEnds(p)
  PROVE  DrainInv'
<1>1. RunInv'
  BY OrphanStopsInv, WorkerEndsInv DEF DrainInv, DrainTypes
<1>2. UNCHANGED <<plan, main, ending, queue, snap, surf, fitAt, riskAt, pool, busy, idle, quiet>>
  BY Zenon DEF OrphanStops, WorkerEnds, runVars, loopVars
<1>3. QED
  BY <1>1, <1>2, NothingMoves

\* A stream or a timer that stops puts one task in the queue, and it is no runner's.
LEMMA SourceStopsDrain ==
  ASSUME DrainInv,
         TimersFail \/ \E m \in Markets, how \in {"ended", "failed"} : FeedStops(m, how)
  PROVE  DrainInv'
<1>1. RunInv'
  BY TimersFailInv, FeedStopsInv DEF DrainInv, DrainTypes
<1>2. Live
  BY DEF DrainInv, DrainTypes, RunInv, Still, TimersFail, FeedStops
<1>3. queue' = queue \/ queue' = Append(queue, Notice) \/ queue' = Append(queue, Ingest)
  BY DEF TimersFail, FeedStops, Notified
<1>4. UNCHANGED <<plan, main, ending, snap, surf, fitAt, riskAt, pool, busy, idle, quiet>>
  BY Zenon DEF TimersFail, FeedStops, runVars, loopVars
<1>5. queue \in Seq(Handles) /\ Once(queue) /\ (main = "hopping" /\ quiet => Behind(queue))
  BY <1>2 DEF DrainInv, DrainTypes, RunInv, Types, Settling
<1>6. QED
  BY <1>1, <1>2, <1>3, <1>4, <1>5, OtherTask

\* _ingest_all() or _wait_for_goal() returns.
LEMMA WaiterDoneDrain ==
  ASSUME DrainInv, IngestStep \/ GoalStep
  PROVE  DrainInv'
<1>1. RunInv'
  BY IngestStepInv, GoalStepInv DEF DrainInv, DrainTypes
<1>2. PICK h \in {Ingest, GoalTask} : Runs(h)
  BY DEF IngestStep, GoalStep
<1>3. Live
  BY <1>2, Dequeue
<1>4. queue' = Pop \/ queue' = Append(Pop, Notice)
  BY DEF IngestStep, GoalStep, Notified
<1>5. UNCHANGED <<plan, main, ending, snap, surf, fitAt, riskAt, pool, busy, idle, quiet>>
  BY Zenon DEF IngestStep, GoalStep, runVars, loopVars
<1>6. ~Runner(h) /\ h # Main
  BY HandlesApart
<1>7. /\ Pop \in Seq(Handles) /\ Once(Pop) /\ (main = "hopping" /\ quiet => Behind(Pop))
      /\ \A g : Runner(g) \/ g = Main => (In(g, Pop) <=> In(g, queue))
  BY <1>2, <1>3, <1>6, Dequeue
<1>8. QED
  BY <1>1, <1>3, <1>4, <1>5, <1>7, OtherTask

\* Primed and unprimed readings of the queue's predicates.
LEMMA QueuePrimed ==
  /\ \A h : In(h, queue)' <=> In(h, queue')
  /\ Once(queue)' <=> Once(queue')
  /\ Behind(queue)' <=> Behind(queue')
  BY DEF In, Once, Behind, Single, Runner

LEMMA NoticeStepDrain == DrainInv /\ NoticeStep => DrainInv'
<1> SUFFICES ASSUME DrainInv, NoticeStep PROVE DrainInv'
  OBVIOUS
<1>1. RunInv' /\ Runs(Notice) /\ Live
  BY NoticeStepInv, Dequeue DEF DrainInv, DrainTypes, NoticeStep
<1>2. UNCHANGED <<plan, ending, snap, surf, fitAt, riskAt, pool, busy, idle, quiet>>
  BY Zenon DEF NoticeStep, loopVars
<1>3. /\ Pop \in Seq(Handles) /\ Once(Pop) /\ (main = "hopping" /\ quiet => Behind(Pop))
      /\ \A g : Runner(g) \/ g = Main => (In(g, Pop) <=> In(g, queue))
  BY <1>1, HandlesApart, Dequeue
<1>4. CASE main = "waiting"
  <2>1. queue' = Append(Pop, Main) /\ main' = "resumed"
    BY <1>4 DEF NoticeStep
  <2>2. ~In(Main, Pop)
    BY <1>1, <1>3, <1>4 DEF DrainInv, Settling
  <2>3. Once(queue') /\ \A h : Runner(h) => (In(h, queue') <=> In(h, queue))
    BY <1>3, <2>1, <2>2, AppendFacts, HandlesApart
  <2>4. Settling'
    BY <2>1, <2>3, QueuePrimed DEF Settling
  <2>5. QED
    BY <1>1, <1>2, <2>3, <2>4, RunnersKeep DEF DrainInv, DrainTypes
<1>5. CASE main # "waiting"
  <2>1. queue' = Pop /\ main' = main
    BY <1>5 DEF NoticeStep
  <2>2. Settling'
    BY <1>1, <1>2, <1>3, <2>1, QueuePrimed DEF DrainInv, Settling
  <2>3. QED
    BY <1>1, <1>2, <1>3, <2>1, <2>2, RunnersKeep DEF DrainInv, DrainTypes
<1>6. QED
  BY <1>4, <1>5

LEMMA ResumeDrain == DrainInv /\ Resume => DrainInv'
<1> SUFFICES ASSUME DrainInv, Resume PROVE DrainInv'
  OBVIOUS
<1>1. RunInv' /\ Runs(Main)
  BY ResumeInv DEF DrainInv, DrainTypes, Resume
<1>2. UNCHANGED <<plan, loopVars>>
  BY Zenon DEF Resume
<1>3. CASE Finally("failed") \/ Finally("stopped")
  BY <1>1, <1>2, <1>3, FinallyDrain
<1>4. CASE main' = "silencing" /\ queue' = Pop
  <2>1. /\ Live /\ Once(Pop) /\ ~In(Main, Pop)
        /\ \A g : Runner(g) => (In(g, Pop) <=> In(g, queue))
    BY <1>1, HandlesApart, Dequeue
  <2>2. Settling'
    BY <1>4, <2>1, QueuePrimed DEF Settling
  <2>3. UNCHANGED <<plan, snap, surf, fitAt, riskAt, pool, busy, idle, quiet>>
    BY <1>2, Zenon DEF loopVars
  <2>4. QED
    BY <1>1, <1>4, <2>1, <2>2, <2>3, RunnersKeep DEF DrainInv, DrainTypes
<1>5. QED
  BY <1>3, <1>4, Zenon DEF Resume

LEMMA CutShortDrain == DrainInv /\ (DurationElapses \/ Interrupt) => DrainInv'
<1> SUFFICES ASSUME DrainInv, DurationElapses \/ Interrupt PROVE DrainInv'
  OBVIOUS
<1>1. RunInv' /\ UNCHANGED loopVars
  BY CutShortInv, Zenon DEF DrainInv, DrainTypes, DurationElapses, Interrupt
<1>2. CASE \E how : Finally(how)
  BY <1>1, <1>2, FinallyDrain
<1>3. CASE main' = "abandoning"
  <2>1. UNCHANGED <<snap, surf, fitAt, riskAt, pool, busy, idle, quiet>> /\ ~Live'
    BY <1>1, <1>3 DEF loopVars, Live
  <2>2. QED
    BY <1>1, <2>1, NoRun DEF DrainInv, DrainTypes
<1>4. QED
  BY <1>2, <1>3, Zenon DEF DurationElapses, Interrupt

LEMMA SilencedDrain == DrainInv /\ Silenced => DrainInv'
<1> SUFFICES ASSUME DrainInv, Silenced PROVE DrainInv'
  OBVIOUS
<1>1. RunInv'
  BY SilencedInv DEF DrainInv, DrainTypes
<1>2. UNCHANGED <<plan, snap, surf, fitAt, riskAt, pool, busy, idle, quiet>>
      /\ queue' = Append(queue, Main) /\ main = "silencing" /\ main' = "silenced"
  BY Zenon DEF Silenced, loopVars
<1>3. Live /\ queue \in Seq(Handles) /\ Once(queue) /\ ~In(Main, queue)
  BY <1>2 DEF DrainInv, DrainTypes, RunInv, Types, Settling, Live
<1>4. Once(queue') /\ \A h : Runner(h) => (In(h, queue') <=> In(h, queue))
  BY <1>2, <1>3, AppendFacts, HandlesApart
<1>5. Settling'
  BY <1>2, <1>4, QueuePrimed DEF Settling
<1>6. QED
  BY <1>1, <1>2, <1>3, <1>4, <1>5, RunnersKeep DEF DrainInv, DrainTypes

LEMMA ClearedDrain ==
  ASSUME DrainInv, Gathered \/ Return
  PROVE  DrainInv'
<1>1. RunInv'
  BY GatheredInv, ReturnInv DEF DrainInv, DrainTypes
<1>2. main' \in {"shutting", "over"} /\ UNCHANGED <<snap, surf, pool, busy, idle, quiet>>
  BY Zenon DEF Gathered, Return, loopVars
<1>3. CASE Gathered
  <2>1. /\ fitAt' = [c \in Pairs |-> "ended"] /\ riskAt' = [c \in Pairs |-> "ended"]
        /\ \A c \in Pairs : fitAt[c] # "fitting"
    BY <1>3, Zenon DEF Gathered
  <2>2. riskAt' \in [Pairs -> RunnerStates]
    BY <2>1 DEF RunnerStates
  <2>3. \A c \in Pairs : fitAt'[c] = "fitting" <=> fitAt[c] = "fitting"
    BY <2>1
  <2>4. QED
    BY <1>1, <1>2, <2>2, <2>3, NoRun DEF DrainInv, DrainTypes, Live
<1>4. CASE Return
  <2>1. UNCHANGED <<fitAt, riskAt>>
    BY <1>4, Zenon DEF Return, loopVars
  <2>2. QED
    BY <1>1, <1>2, <2>1, NoRun DEF DrainInv, DrainTypes, Live
<1>5. QED
  BY <1>3, <1>4

\* A cancelled handler takes its job and its count with it.
LEMMA UnwindDrain ==
  ASSUME DrainInv, NEW c \in Pairs, Unwind(c)
  PROVE  DrainInv'
<1> DEFINE p == c[2]
<1>1. RunInv' /\ p \in Producers /\ c \in Fitting
  BY UnwindInv DEF DrainInv, DrainTypes, Pairs, Unwind, Fitting
<1>2. /\ main \in {"cleaning", "abandoning"} /\ fitAt' = [fitAt EXCEPT ![c] = "ended"]
      /\ quiet' = QuietAfter(0, 1) /\ busy' = Unwound /\ idle' = IdleAfter(Unwound)
      /\ UNCHANGED <<plan, main, snap, surf, riskAt>>
  BY Zenon DEF Unwind, Unwinding, runVars
<1>3. PICK i \in DOMAIN pool[p] : pool[p][i] = c /\ pool' = [pool EXCEPT ![p] = RemoveAt(@, i)]
  BY Zenon DEF Unwind
<1>4. /\ pool \in [Producers -> Seq(Pairs)] /\ pool[p] \in Seq(Pairs)
      /\ fitAt \in [Pairs -> RunnerStates] /\ busy = Cardinality(Fitting)
      /\ \A q \in Producers : Holds(q, pool[q], Fitting)
  BY <1>1 DEF DrainInv, DrainTypes, RunInv, Types, Pooled
<1>5. Fitting' = Fitting \ {c}
  BY <1>1, <1>2, <1>4 DEF Fitting
<1> HIDE DEF p
<1>6. ASSUME NEW q \in Producers PROVE Holds(q, pool'[q], Fitting')
  <2>1. CASE q = p
    <3>1. pool'[q] = RemoveAt(pool[p], i)
      BY <1>1, <1>3, <1>4, <2>1
    <3>2. QED
      BY <1>1, <1>3, <1>4, <1>5, <2>1, <3>1, HoldsRemove
  <2>2. CASE q # p
    <3>1. pool'[q] = pool[q] /\ c[2] # q
      BY <1>3, <1>4, <2>2 DEF p
    <3>2. QED
      BY <1>4, <1>5, <3>1, HoldsElsewhere
  <2>3. QED
    BY <2>1, <2>2
<1>7. busy' = Cardinality(Fitting') /\ busy' \in Nat /\ idle' = (busy' = 0)
  <2>1. Cardinality(Fitting \ {c}) = Cardinality(Fitting) - 1
    BY <1>1, FittingFinite, FS_RemoveElement
  <2>2. busy' = Cardinality(Fitting')
    BY <1>2, <1>4, <1>5, <2>1 DEF Unwound
  <2>3. IsFiniteSet(Fitting \ {c}) /\ Cardinality(Fitting \ {c}) \in Nat
    BY FittingFinite, FS_RemoveElement, FS_CardinalityType
  <2>4. QED
    BY <1>2, <1>5, <2>2, <2>3 DEF IdleAfter
<1>8. Pooled'
  BY <1>6, <1>7, PooledPrimed
<1>9. quiet' \in BOOLEAN
  BY <1>2 DEF QuietAfter
<1>10. DrainTypes'
  BY <1>1, <1>2, <1>7, <1>9 DEF DrainInv, DrainTypes
<1>11. ~Live'
  BY <1>2 DEF Live
<1>12. QED
  BY <1>8, <1>10, <1>11 DEF DrainInv

\* When nothing moved during a pass, no runner is behind run(), and no fit was going on.
LEMMA QuietIsDrained ==
  ASSUME DrainInv, Live, \A h : In(h, queue) => ~Runner(h), idle
  PROVE  Drained
<1>1. Wired \subseteq Pairs
  BY PlanTypes DEF DrainInv, DrainTypes, RunInv, Types, Wired, Pairs
<1>2. \A c \in Pairs : ~In(Fit(c), queue) /\ ~In(Risk(c), queue)
  BY DEF Runner
<1>3. Fitting = {}
  BY FittingFinite, FS_EmptySet DEF DrainInv, Pooled
<1>4. \A c \in Wired : fitAt[c] \in RunnerStates /\ riskAt[c] \in RunnerStates
  BY <1>1 DEF DrainInv, DrainTypes, RunInv, Types
<1>5. \A c \in Wired : fitAt[c] = "parked" /\ riskAt[c] = "parked"
  BY <1>1, <1>2, <1>3, <1>4 DEF DrainInv, Scheduled, Fitting, RunnerStates
<1>6. ASSUME NEW p \in Producers PROVE pool[p] = <<>>
  <2>1. pool[p] \in Seq(Pairs) /\ \A i \in DOMAIN pool[p] : FALSE
    BY <1>3 DEF DrainInv, DrainTypes, RunInv, Types, Pooled, Holds
  <2>2. Len(pool[p]) \in Nat /\ DOMAIN pool[p] = 1..Len(pool[p])
    BY <2>1
  <2>3. Len(pool[p]) = 0
    <3>1. Len(pool[p]) # 0 => 1 \in DOMAIN pool[p]
      BY <2>2
    <3>2. QED
      BY <2>1, <3>1
  <2>4. QED
    BY <2>1, <2>3
<1>7. QED
  BY <1>1, <1>5, <1>6 DEF DrainInv, Scheduled, Drained

LEMMA SettleStepDrain == DrainInv /\ SettleStep => DrainInv'
<1> SUFFICES ASSUME DrainInv, SettleStep PROVE DrainInv'
  OBVIOUS
<1>1. RunInv' /\ Runs(Main) /\ Live
  BY SettleStepInv, Dequeue DEF DrainInv, DrainTypes, SettleStep
<1>2. UNCHANGED <<plan, snap, surf, fitAt, riskAt, pool, busy, idle>>
  BY Zenon DEF SettleStep
<1>3. /\ Pop \in Seq(Handles) /\ Once(Pop) /\ ~In(Main, Pop)
      /\ \A g : In(g, queue) <=> g = Main \/ In(g, Pop)
      /\ main = "hopping" /\ quiet => \A g : In(g, Pop) => ~Runner(g)
  BY <1>1, HandlesApart, Dequeue
<1>4. Behind(Pop)
  BY <1>3 DEF Behind, In
<1>5. /\ Once(Append(Pop, Main)) /\ Behind(Append(Pop, Main))
      /\ \A g : Runner(g) => (In(g, Append(Pop, Main)) <=> In(g, queue)) /\ (In(g, Pop) <=> In(g, queue))
  BY <1>3, <1>4, AppendFacts, HandlesApart
<1>6. quiet' \in BOOLEAN
  BY DEF SettleStep, BeginPass, Judge, DrainInv, DrainTypes
<1>7. CASE main' = "hopping" /\ queue' = Append(Pop, Main)
  <2>1. Settling'
    BY <1>5, <1>7, QueuePrimed DEF Settling
  <2>2. QED
    BY <1>1, <1>2, <1>5, <1>6, <1>7, <2>1, RunnersKeep
<1>8. CASE main' = "idling" /\ queue' = Pop /\ ~idle
  <2>1. Settling'
    BY <1>2, <1>3, <1>8, QueuePrimed DEF Settling
  <2>2. QED
    BY <1>1, <1>2, <1>5, <1>6, <1>8, <2>1, RunnersKeep
<1>9. CASE Finally("exhausted") /\ UNCHANGED quiet
  <2>1. ~Live'
    BY <1>9 DEF Finally, Live
  <2>2. QED
    BY <1>1, <1>2, <1>6, <2>1, NoRun DEF DrainInv, DrainTypes
<1>10. QED
  BY <1>7, <1>8, <1>9 DEF SettleStep, BeginPass, Judge

\* The step that ends a run as exhausted finds nothing in flight: run() was at the head of a
\* queue that holds no runner, in a pass during which nothing moved.
LEMMA ExhaustedIsDrained ==
  ASSUME DrainInv, SettleStep, main' = "cleaning"
  PROVE  Drained
<1>1. Runs(Main) /\ Live /\ quiet /\ ((main = "hopping" /\ idle) \/ main = "idled")
  BY Dequeue DEF SettleStep, BeginPass, Judge, Live
<1>2. main = "hopping" /\ idle
  BY <1>1 DEF DrainInv, Settling
<1>3. \A g : In(g, queue) => ~Runner(g)
  BY <1>1, <1>2, HandlesApart, Dequeue
<1>4. QED
  BY <1>1, <1>2, <1>3, QuietIsDrained

LEMMA StartRunDrain == DrainInv /\ StartRun => DrainInv'
<1> SUFFICES ASSUME DrainInv, StartRun PROVE DrainInv'
  OBVIOUS
<1> DEFINE tasks == {Fit(c) : c \in Wired} \cup {Risk(c) : c \in Wired}
<1>1. RunInv' /\ Wired \subseteq Pairs
  BY StartRunInv, PlanTypes DEF DrainInv, DrainTypes, RunInv, Types, Wired, Pairs
<1>2. IsFiniteSet(tasks) /\ tasks \subseteq Handles
  BY <1>1, FitsFinite, RisksFinite, FS_Union, HandlesApart
<1>3. /\ queue' = SetToSeq(tasks) /\ main = "over" /\ main' = "waiting"
      /\ fitAt' = [c \in Pairs |-> IF c \in Wired THEN "calling" ELSE "ended"]
      /\ riskAt' = fitAt' /\ UNCHANGED <<plan, snap, surf, pool, busy, idle, quiet>>
  BY Zenon DEF StartRun
<1>4. \A c \in Pairs : /\ Fit(c) \in tasks => c \in Wired
                       /\ c \in Wired => Fit(c) \in tasks /\ Risk(c) \in tasks
  BY <1>1, HandlesApart
<1>5. Main \notin tasks
  BY <1>1, HandlesApart
<1> HIDE DEF tasks
<1>6. Once(queue') /\ \A h : In(h, queue') <=> h \in tasks
  BY <1>2, <1>3, SetListed
<1>7. DrainTypes'
  BY <1>1, <1>3 DEF DrainInv, DrainTypes, RunnerStates
<1>8. Scheduled'
  <2>1. Wired' = Wired
    BY <1>3 DEF Wired
  <2>2. QED
    BY <1>1, <1>3, <1>4, <1>6, <2>1, QueuePrimed DEF Scheduled
<1>9. Pooled'
  <2>1. Fitting' = {}
    BY <1>3 DEF Fitting
  <2>2. Fitting = {}
    BY <1>3 DEF DrainInv, DrainTypes, RunInv, Still, Fitting
  <2>3. QED
    BY <1>3, <2>1, <2>2, PooledKeeps DEF DrainInv
<1>10. Settling'
  BY <1>3, <1>5, <1>6, QueuePrimed DEF Settling
<1>11. QED
  BY <1>7, <1>8, <1>9, <1>10 DEF DrainInv

LEMMA PublishDrain ==
  ASSUME DrainInv, NEW m \in Markets, Publish(m)
  PROVE  DrainInv'
<1> DEFINE woken == {c \in Wired : Live /\ c[1] = m /\ fitAt[c] = "parked"}
           tasks == {Fit(c) : c \in woken}
<1>1. RunInv' /\ Wired \subseteq Pairs
  BY PublishInv, PlanTypes DEF DrainInv, DrainTypes, RunInv, Types, Wired, Pairs
<1>2. /\ queue' = queue \o SetToSeq(tasks)
      /\ snap' = [c \in Pairs |-> (c \in Wired /\ c[1] = m) \/ snap[c]]
      /\ fitAt' = [c \in Pairs |-> IF c \in woken THEN "woken" ELSE fitAt[c]]
      /\ quiet' = FALSE
      /\ UNCHANGED <<plan, main, ending, surf, riskAt, pool, busy, idle>>
  BY Zenon DEF Publish, runVars
<1>3. snap' \in [Pairs -> BOOLEAN]
  BY <1>2 DEF DrainInv, DrainTypes
<1>4. DrainTypes'
  BY <1>1, <1>2, <1>3 DEF DrainInv, DrainTypes
<1>5. \A c \in Pairs : fitAt'[c] = "fitting" <=> fitAt[c] = "fitting"
  BY <1>2
<1>6. CASE ~Live
  <2>1. ~Live'
    BY <1>2, <1>6 DEF Live
  <2>2. QED
    BY <1>1, <1>2, <1>3, <1>5, <2>1, NoRun DEF DrainInv, DrainTypes
<1>7. CASE Live
  <2>1. woken \subseteq Pairs /\ \A c \in woken : fitAt[c] = "parked"
    BY <1>1
  <2>2. IsFiniteSet(tasks) /\ tasks \subseteq Handles
    BY <2>1, FitsFinite, HandlesApart
  <2>3. \A c \in Pairs : c \in woken <=> Fit(c) \in tasks
    BY <2>1, HandlesApart
  <2>4. \A h \in tasks : h # Main /\ ~In(h, queue)
    BY <1>7, <2>1, HandlesApart DEF DrainInv, Scheduled
  <2>5. \A c \in Pairs : Risk(c) \notin tasks
    BY <2>1, HandlesApart
  <2>6. \A c \in Wired : c[1] = m /\ fitAt[c] = "parked" => c \in woken
    BY <1>7
  <2> HIDE DEF woken, tasks
  <2>7. /\ SetToSeq(tasks) \in Seq(Handles) /\ Once(SetToSeq(tasks))
        /\ \A h : In(h, SetToSeq(tasks)) <=> h \in tasks
    BY <2>2, SetListed
  <2>8. queue \in Seq(Handles) /\ Once(queue)
    BY <1>7 DEF DrainInv, DrainTypes, RunInv, Types, Settling
  <2>9. /\ Once(queue')
        /\ \A h : In(h, queue') <=> In(h, queue) \/ h \in tasks
    <3>1. \A h : Single(h) /\ In(h, queue) => ~In(h, SetToSeq(tasks))
      BY <2>4, <2>7
    <3>2. QED
      BY <1>2, <2>7, <2>8, <3>1, ConcatFacts
  <2>10. Wired' = Wired /\ Fitting' = Fitting
    BY <1>2, <2>1 DEF Wired, Fitting
  <2>11. Scheduled'
    <3>1. ASSUME NEW c \in Pairs, In(Fit(c), queue') PROVE fitAt'[c] \in {"calling", "woken"}
      BY <1>2, <1>7, <2>3, <2>9, <3>1 DEF DrainInv, Scheduled
    <3>2. ASSUME NEW c \in Wired
          PROVE  /\ fitAt'[c] \in {"calling", "woken"} => In(Fit(c), queue')
                 /\ riskAt'[c] \in {"calling", "woken"} => In(Risk(c), queue')
                 /\ fitAt'[c] # "ended" /\ riskAt'[c] \notin {"ended", "fitting"}
      BY <1>1, <1>2, <1>7, <2>3, <2>9 DEF DrainInv, Scheduled
    <3>3. ASSUME NEW c \in Pairs
          PROVE  /\ fitAt'[c] = "parked" => ~snap'[c]
                 /\ riskAt'[c] = "parked" => ~surf'[c]
      BY <1>2, <1>7, <2>6 DEF DrainInv, Scheduled
    <3>4. QED
      BY <2>10, <3>1, <3>2, <3>3, QueuePrimed DEF Scheduled
  <2>12. Pooled'
    BY <1>2, <2>10, PooledKeeps DEF DrainInv
  <2>13. Settling'
    BY <1>2, <1>7, <2>4, <2>9, QueuePrimed DEF DrainInv, Settling
  <2>14. QED
    BY <1>4, <2>11, <2>12, <2>13 DEF DrainInv
<1>8. QED
  BY <1>6, <1>7

LEMMA FitStepDrain ==
  ASSUME DrainInv, NEW c \in Pairs, FitStep(c)
  PROVE  DrainInv'
<1>1. RunInv' /\ Runs(Fit(c)) /\ Live
  BY FitStepInv, Dequeue DEF DrainInv, DrainTypes, FitStep
<1>2. /\ queue' = Pop
      /\ UNCHANGED <<plan, main, ending, surf, riskAt, quiet>>
  BY Zenon DEF FitStep, runVars
<1>3. /\ Once(Pop) /\ ~In(Fit(c), Pop) /\ (main = "hopping" /\ quiet => Behind(Pop))
      /\ \A g : In(g, queue) <=> g = Fit(c) \/ In(g, Pop)
  BY <1>1, HandlesApart, Dequeue
<1>4. fitAt[c] \in {"calling", "woken"} /\ c \notin Fitting
  BY <1>1, <1>3 DEF DrainInv, Scheduled, Fitting
<1>5. Wired' = Wired /\ Wired \subseteq Pairs
  BY <1>2, PlanTypes DEF Wired, DrainInv, DrainTypes, RunInv, Types, Pairs
<1>6. /\ snap \in [Pairs -> BOOLEAN] /\ fitAt \in [Pairs -> RunnerStates]
      /\ pool \in [Producers -> Seq(Pairs)] /\ c[2] \in Producers /\ busy \in Nat
  BY DEF DrainInv, DrainTypes, RunInv, Types, Pairs
<1>7. Settling'
  <2>1. idle' = idle \/ idle' = FALSE
    BY Zenon DEF FitStep
  <2>2. QED
    BY <1>1, <1>2, <1>3, <2>1, QueuePrimed DEF DrainInv, Settling
<1>9. /\ \E s \in {"parked", "fitting"} : fitAt' = [fitAt EXCEPT ![c] = s]
      /\ fitAt'[c] = "parked" => ~snap'[c]
      /\ \A d \in Pairs : d # c => snap'[d] = snap[d]
      /\ snap' \in [Pairs -> BOOLEAN] /\ busy' \in Nat
  <2>1. CASE ~snap[c]
    <3>1. fitAt' = [fitAt EXCEPT ![c] = "parked"] /\ snap' = snap /\ busy' = busy
      BY <2>1, Zenon DEF FitStep
    <3>2. QED
      BY <1>6, <2>1, <3>1
  <2>2. CASE snap[c]
    <3>1. /\ fitAt' = [fitAt EXCEPT ![c] = "fitting"] /\ snap' = [snap EXCEPT ![c] = FALSE]
          /\ busy' = busy + 1
      BY <2>2, Zenon DEF FitStep
    <3>2. QED
      BY <1>6, <3>1
  <2>3. QED
    BY <1>6, <2>1, <2>2
<1>10. DrainTypes'
  BY <1>1, <1>2, <1>9 DEF DrainInv, DrainTypes
<1>11. Scheduled'
  <2>1. \A d \in Pairs : d # c => fitAt'[d] = fitAt[d] /\ (In(Fit(d), queue') <=> In(Fit(d), queue))
    BY <1>2, <1>3, <1>6, <1>9, HandlesApart
  <2>2. \A d \in Pairs : In(Risk(d), queue') <=> In(Risk(d), queue)
    BY <1>2, <1>3, HandlesApart
  <2>3. fitAt'[c] \in {"parked", "fitting"} /\ ~In(Fit(c), queue')
    BY <1>2, <1>3, <1>6, <1>9
  <2>4. QED
    BY <1>1, <1>2, <1>5, <1>9, <2>1, <2>2, <2>3, QueuePrimed DEF DrainInv, Scheduled
<1>12. CASE ~snap[c]
  <2>1. fitAt' = [fitAt EXCEPT ![c] = "parked"] /\ UNCHANGED <<pool, busy, idle>>
    BY <1>12, Zenon DEF FitStep
  <2>2. Fitting' = Fitting
    BY <1>4, <1>6, <2>1 DEF Fitting
  <2>3. Pooled'
    BY <2>1, <2>2, PooledKeeps DEF DrainInv
  <2>4. QED
    BY <1>7, <1>10, <1>11, <2>3 DEF DrainInv
<1>13. CASE snap[c]
  <2>1. /\ fitAt' = [fitAt EXCEPT ![c] = "fitting"] /\ busy' = busy + 1 /\ idle' = FALSE
        /\ pool' = [pool EXCEPT ![c[2]] = Append(@, c)]
    BY <1>13, Zenon DEF FitStep
  <2>2. Fitting' = Fitting \cup {c}
    BY <1>6, <2>1 DEF Fitting
  <2>3. Cardinality(Fitting') = Cardinality(Fitting) + 1
    BY <1>4, <2>2, FittingFinite, FS_AddElement
  <2>4. Pooled'
    <3>1. ASSUME NEW p \in Producers PROVE Holds(p, pool'[p], Fitting')
      <4>1. Holds(p, pool[p], Fitting)
        BY DEF DrainInv, Pooled
      <4>2. CASE p # c[2]
        <5>1. pool'[p] = pool[p]
          BY <1>6, <2>1, <4>2
        <5>2. QED
          BY <2>2, <4>1, <4>2, <5>1, HoldsElsewhere
      <4>3. CASE p = c[2]
        <5>1. pool'[p] = Append(pool[p], c) /\ pool[p] \in Seq(Pairs)
          BY <1>6, <2>1, <4>3
        <5>2. QED
          BY <1>4, <2>2, <4>1, <4>3, <5>1, HoldsAppend
      <4>4. QED
        BY <4>2, <4>3
    <3>2. busy' = Cardinality(Fitting') /\ idle' = (busy' = 0)
      <4>1. busy' = Cardinality(Fitting') /\ busy' # 0 /\ idle' = FALSE
        BY <1>6, <2>1, <2>3 DEF DrainInv, Pooled
      <4>2. QED
        BY <4>1, Zenon
    <3>3. QED
      BY <3>1, <3>2, PooledPrimed
  <2>5. QED
    BY <1>7, <1>10, <1>11, <2>4 DEF DrainInv
<1>14. QED
  BY <1>6, <1>12, <1>13

\* A report moves nothing but its runner, unless it moved a counter as well.
LEMMA RiskStepDrain ==
  ASSUME DrainInv, NEW c \in Pairs, NEW raises \in BOOLEAN, RiskStep(c, raises)
  PROVE  DrainInv'
<1>1. RunInv' /\ Runs(Risk(c)) /\ Live
  BY RiskStepInv, Dequeue DEF DrainInv, DrainTypes, RiskStep
<1>2. /\ riskAt' = [riskAt EXCEPT ![c] = "parked"] /\ surf' = [surf EXCEPT ![c] = FALSE]
      /\ queue' = Pop \/ queue' = Append(Pop, GoalTask)
      /\ quiet' = quiet \/ quiet' = FALSE
      /\ UNCHANGED <<plan, main, ending, snap, fitAt, pool, busy, idle>>
  BY Zenon DEF RiskStep, runVars, QuietAfter
<1>3. /\ Pop \in Seq(Handles) /\ Once(Pop) /\ (main = "hopping" /\ quiet => Behind(Pop))
      /\ \A g : In(g, queue) <=> g = Risk(c) \/ In(g, Pop)
  BY <1>1, HandlesApart, Dequeue
<1>4. /\ Once(queue') /\ (main = "hopping" /\ quiet => Behind(queue'))
      /\ \A g : g # Risk(c) /\ g # GoalTask => (In(g, queue') <=> In(g, queue))
  <2>1. /\ \A g : g # Risk(c) => (In(g, Pop) <=> In(g, queue))
        /\ GoalTask \in Handles /\ ~Single(GoalTask) /\ ~Runner(GoalTask)
    BY <1>3, HandlesApart
  <2>2. CASE queue' = Pop
    BY <1>3, <2>1, <2>2
  <2>3. CASE queue' = Append(Pop, GoalTask)
    BY <1>3, <2>1, <2>3, AppendFacts
  <2>4. QED
    BY <1>2, <2>2, <2>3
<1>5. \A d \in Pairs : /\ In(Fit(d), queue') <=> In(Fit(d), queue)
                       /\ d # c => (In(Risk(d), queue') <=> In(Risk(d), queue))
  <2>1. \A d \in Pairs : Runner(Fit(d)) /\ Runner(Risk(d))
    BY DEF Runner
  <2>2. QED
    BY <1>4, <2>1, HandlesApart
<1>6. In(Main, queue') <=> In(Main, queue)
  BY <1>4, HandlesApart
<1>7. Wired' = Wired /\ Fitting' = Fitting /\ Wired \subseteq Pairs
  BY <1>2, PlanTypes DEF Wired, Fitting, DrainInv, DrainTypes, RunInv, Types, Pairs
<1>8. DrainTypes'
  BY <1>1, <1>2 DEF DrainInv, DrainTypes, RunnerStates
<1>9. Scheduled'
  <2>1. /\ riskAt'[c] = "parked" /\ surf'[c] = FALSE
        /\ \A d \in Pairs : d # c => riskAt'[d] = riskAt[d] /\ surf'[d] = surf[d]
    BY <1>2 DEF DrainInv, DrainTypes
  <2>2. QED
    BY <1>1, <1>2, <1>5, <1>7, <2>1, QueuePrimed DEF DrainInv, Scheduled
<1>10. Pooled'
  BY <1>2, <1>7, PooledKeeps DEF DrainInv
<1>11. Settling'
  BY <1>1, <1>2, <1>4, <1>6, QueuePrimed DEF DrainInv, Settling
<1>12. QED
  BY <1>8, <1>9, <1>10, <1>11 DEF DrainInv

\* The end of a fit always moves a counter, so a pass that sees nothing move saw none.
LEMMA FitEndsDrain ==
  ASSUME DrainInv, NEW p \in Producers, NEW outcome \in {"surface", "failure", "raised"},
         FitEnds(p, outcome)
  PROVE  DrainInv'
<1> DEFINE c == Head(pool[p])
           wakes == outcome = "surface" /\ riskAt[c] = "parked"
           first == IF wakes THEN Append(queue, Risk(c)) ELSE queue
<1>1. RunInv' /\ pool[p] # <<>>
  BY FitEndsInv DEF DrainInv, DrainTypes, FitEnds
<1>2. Live
  BY DEF FitEnds
<1>3. /\ pool[p] \in Seq(Pairs) /\ pool \in [Producers -> Seq(Pairs)] /\ busy \in Nat
      /\ fitAt \in [Pairs -> RunnerStates] /\ snap \in [Pairs -> BOOLEAN]
      /\ surf \in [Pairs -> BOOLEAN] /\ riskAt \in [Pairs -> RunnerStates]
      /\ queue \in Seq(Handles)
  BY DEF DrainInv, DrainTypes, RunInv, Types
<1>4. c \in Pairs /\ c = pool[p][1] /\ 1 \in DOMAIN pool[p] /\ c[2] = p /\ c \in Fitting
  <2>1. c = pool[p][1] /\ 1 \in DOMAIN pool[p] /\ c \in Pairs
    BY <1>1, <1>3
  <2>2. QED
    BY <2>1 DEF DrainInv, Pooled, Holds
<1>5. /\ surf' = [surf EXCEPT ![c] = @ \/ outcome = "surface"]
      /\ riskAt' = IF wakes THEN [riskAt EXCEPT ![c] = "woken"] ELSE riskAt
      /\ snap' = [snap EXCEPT ![c] = FALSE]
      /\ fitAt' = [fitAt EXCEPT ![c] = IF snap[c] THEN "fitting" ELSE "parked"]
      /\ pool' = [pool EXCEPT ![p] = IF snap[c] THEN Append(Tail(@), c) ELSE Tail(@)]
      /\ busy' = IF snap[c] THEN busy ELSE busy - 1
      /\ idle' = (~snap[c] /\ IdleAfter(busy - 1))
      /\ UNCHANGED <<plan, ending>>
  BY Zenon DEF FitEnds
<1>6. \/ main # "idling" /\ queue' = first /\ main' = main
      \/ main = "idling" /\ queue' = first /\ main' = main /\ ~IdleAfter(busy - 1)
      \/ main = "idling" /\ queue' = Append(first, Main) /\ main' = "idled"
  BY Zenon DEF FitEnds, IdleSet, MainAfterIdleSet
<1>7. quiet' = FALSE
  <2>1. quiet' = QuietAfter(IF outcome = "raised" THEN 0 ELSE 1, 1)
    BY Zenon DEF FitEnds
  <2>2. 1 # 0
    OBVIOUS
  <2>3. QED
    BY <2>1, <2>2, Zenon DEF QuietAfter
<1>8. /\ first \in Seq(Handles) /\ Once(first)
      /\ \A g : In(g, first) <=> In(g, queue) \/ (wakes /\ g = Risk(c))
  <2>1. Once(queue) /\ Risk(c) \in Handles /\ ~Single(Risk(c))
    BY <1>2, <1>4, HandlesApart DEF DrainInv, Settling
  <2>2. QED
    BY <1>3, <2>1, AppendFacts
<1> HIDE DEF c, wakes, first
<1>9. main = "idling" => ~In(Main, first)
  BY <1>2, <1>4, <1>8, HandlesApart DEF DrainInv, Settling
<1>10. /\ Once(queue')
       /\ \A g : g # Main => (In(g, queue') <=> In(g, first))
       /\ main' \in {"waiting", "silencing", "idling"} => main' = main /\ queue' = first
  <2>1. CASE queue' = first /\ main' = main
    BY <1>8, <2>1
  <2>2. CASE main = "idling" /\ queue' = Append(first, Main) /\ main' = "idled"
    <3>1. Main \in Handles /\ Single(Main)
      BY HandlesApart
    <3>2. /\ Once(Append(first, Main))
          /\ \A g : In(g, Append(first, Main)) <=> In(g, first) \/ g = Main
      BY <1>8, <1>9, <2>2, <3>1, AppendFacts
    <3>3. QED
      BY <2>2, <3>2
  <2>3. QED
    BY <1>6, <2>1, <2>2
<1>11. DrainTypes'
  <2>1. snap' \in [Pairs -> BOOLEAN] /\ surf' \in [Pairs -> BOOLEAN]
        /\ riskAt' \in [Pairs -> RunnerStates]
    BY <1>3, <1>4, <1>5 DEF RunnerStates
  <2>2. busy # 0
    <3>1. Fitting # {} /\ busy = Cardinality(Fitting)
      BY <1>2, <1>4 DEF DrainInv, Pooled
    <3>2. QED
      BY <3>1, FittingFinite, FS_EmptySet
  <2>3. busy' \in Nat
    BY <1>3, <1>5, <2>2
  <2>4. QED
    BY <1>1, <1>7, <2>1, <2>3 DEF DrainTypes
<1>12. Wired' = Wired /\ Wired \subseteq Pairs
  BY <1>5, PlanTypes DEF Wired, DrainInv, DrainTypes, RunInv, Types, Pairs
<1>13. Scheduled'
  <2>1. ~In(Fit(c), queue)
    BY <1>2, <1>4 DEF DrainInv, Scheduled, Fitting
  <2>2. \A d \in Pairs : /\ In(Fit(d), queue') <=> In(Fit(d), queue)
                         /\ In(Risk(d), queue') <=> In(Risk(d), queue) \/ (wakes /\ d = c)
    BY <1>4, <1>8, <1>10, HandlesApart
  <2>3. \A d \in Pairs : d # c => /\ fitAt'[d] = fitAt[d] /\ snap'[d] = snap[d]
                                  /\ riskAt'[d] = riskAt[d] /\ surf'[d] = surf[d]
    BY <1>3, <1>4, <1>5
  <2>4. fitAt'[c] \in {"fitting", "parked"} /\ ~snap'[c]
    BY <1>3, <1>4, <1>5
  <2>5. /\ wakes => riskAt'[c] = "woken"
        /\ ~wakes => riskAt'[c] = riskAt[c]
        /\ riskAt'[c] = "parked" => surf'[c] = surf[c]
    BY <1>3, <1>4, <1>5 DEF wakes
  <2>6. ASSUME NEW d \in Pairs, In(Fit(d), queue') PROVE fitAt'[d] \in {"calling", "woken"}
    BY <1>2, <2>1, <2>2, <2>3, <2>6 DEF DrainInv, Scheduled
  <2>7. ASSUME NEW d \in Wired
        PROVE  /\ fitAt'[d] \in {"calling", "woken"} => In(Fit(d), queue')
               /\ riskAt'[d] \in {"calling", "woken"} => In(Risk(d), queue')
               /\ fitAt'[d] # "ended" /\ riskAt'[d] \notin {"ended", "fitting"}
    BY <1>2, <1>12, <2>2, <2>3, <2>4, <2>5 DEF DrainInv, Scheduled
  <2>8. ASSUME NEW d \in Pairs
        PROVE  (fitAt'[d] = "parked" => ~snap'[d]) /\ (riskAt'[d] = "parked" => ~surf'[d])
    BY <1>2, <2>3, <2>4, <2>5 DEF DrainInv, Scheduled
  <2>9. QED
    BY <1>12, <2>6, <2>7, <2>8, QueuePrimed DEF Scheduled
<1>14. Pooled'
  <2> DEFINE rest == Tail(pool[p])
             fewer == Fitting \ {c}
  <2>1. \A q \in Producers : Holds(q, pool[q], Fitting)
    BY DEF DrainInv, Pooled
  <2>2. rest \in Seq(Pairs) /\ Holds(p, rest, fewer)
    <3>1. 1 \in DOMAIN pool[p] /\ pool[p][1] = c /\ rest = RemoveAt(pool[p], 1)
      BY <1>1, <1>3, <1>4, TailRemoves
    <3>2. Holds(p, RemoveAt(pool[p], 1), Fitting \ {pool[p][1]})
      BY <1>3, <2>1, <3>1, HoldsRemove
    <3>3. rest \in Seq(Pairs)
      BY <1>1, <1>3
    <3>4. QED
      BY <3>1, <3>2, <3>3
  <2>3. /\ pool'[p] = IF snap[c] THEN Append(rest, c) ELSE rest
        /\ \A q \in Producers : q # p => pool'[q] = pool[q]
    BY <1>3, <1>5
  <2>4. Fitting' = IF snap[c] THEN fewer \cup {c} ELSE fewer
    BY <1>3, <1>4, <1>5 DEF Fitting
  <2>5. Holds(p, Append(rest, c), fewer \cup {c})
    BY <1>4, <2>2, HoldsAppend
  <2>6. \A q \in Producers : q # p => Holds(q, pool[q], fewer) /\ Holds(q, pool[q], fewer \cup {c})
    BY <1>4, <2>1, HoldsElsewhere
  <2>7. Cardinality(fewer) = Cardinality(Fitting) - 1 /\ Fitting = fewer \cup {c}
    <3>1. Fitting = (Fitting \ {c}) \cup {c}
      BY <1>4
    <3>2. Cardinality(Fitting \ {c}) = Cardinality(Fitting) - 1
      <4>1. c \in Fitting /\ IsFiniteSet(Fitting)
        BY <1>4, FittingFinite
      <4>2. QED
        BY <4>1, FS_RemoveElement
    <3>3. QED
      BY <3>1, <3>2
  <2> HIDE DEF rest, fewer
  <2>8. \A q \in Producers : Holds(q, pool'[q], Fitting')
    BY <2>2, <2>3, <2>4, <2>5, <2>6
  <2>9. busy' = Cardinality(Fitting') /\ idle' = (busy' = 0)
    <3>1. busy = Cardinality(Fitting) /\ Cardinality(Fitting) # 0
      <4>1. Fitting # {}
        BY <1>4
      <4>2. QED
        BY <4>1, FittingFinite, FS_EmptySet DEF DrainInv, Pooled
    <3>2. QED
      BY <1>3, <1>5, <2>4, <2>7, <3>1 DEF IdleAfter
  <2>10. QED
    BY <2>8, <2>9, PooledPrimed
<1>15. Settling'
  <2>1. main' \in {"waiting", "silencing", "idling"} => ~In(Main, queue')
    BY <1>2, <1>4, <1>8, <1>10, HandlesApart DEF DrainInv, Settling
  <2>2. main' = "idling" => ~idle'
    BY <1>5, <1>6
  <2>3. QED
    BY <1>7, <1>10, <2>1, <2>2, QueuePrimed DEF Settling
<1>16. QED
  BY <1>11, <1>13, <1>14, <1>15 DEF DrainInv

LEMMA DrainNext == DrainInv /\ [Next]_vars => DrainInv'
<1> SUFFICES ASSUME DrainInv, [Next]_vars PROVE DrainInv'
  OBVIOUS
<1>1. CASE StartRun
  BY <1>1, StartRunDrain
<1>2. ASSUME NEW m \in Markets, Publish(m) \/ OrphanStops(m) PROVE DrainInv'
  BY <1>2, PublishDrain, ElsewhereDrain
<1>3. CASE TimersFail \/ \E m \in Markets, how \in {"ended", "failed"} : FeedStops(m, how)
  BY <1>3, SourceStopsDrain
<1>4. ASSUME NEW c \in Pairs, FitStep(c) \/ Unwind(c) PROVE DrainInv'
  BY <1>4, FitStepDrain, UnwindDrain
<1>5. ASSUME NEW c \in Pairs, NEW raises \in BOOLEAN, RiskStep(c, raises) PROVE DrainInv'
  BY <1>5, RiskStepDrain
<1>6. ASSUME NEW p \in Producers, NEW outcome \in {"surface", "failure", "raised"},
             FitEnds(p, outcome)
      PROVE DrainInv'
  BY <1>6, FitEndsDrain
<1>7. CASE Gathered \/ Return \/ \E p \in Producers : WorkerEnds(p)
  BY <1>7, ClearedDrain, ElsewhereDrain
<1>8. CASE IngestStep \/ GoalStep \/ NoticeStep \/ Resume
  BY <1>8, WaiterDoneDrain, NoticeStepDrain, ResumeDrain
<1>9. CASE DurationElapses \/ Interrupt \/ Silenced \/ SettleStep
  BY <1>9, CutShortDrain, SilencedDrain, SettleStepDrain
<1>10. CASE UNCHANGED vars
  BY <1>10, StutterDrain
<1>11. QED
  BY <1>1, <1>2, <1>3, <1>4, <1>5, <1>6, <1>7, <1>8, <1>9, <1>10 DEF Next

\* How a step may end a run as exhausted: only as the last of a pass of _settle.
LEMMA ExhaustedBySettling ==
  ASSUME [Next]_vars, main # "cleaning", main' = "cleaning", ending' = "exhausted"
  PROVE  SettleStep
<1>1. main' # main
  OBVIOUS
<1>2. ~UNCHANGED vars
  BY <1>1 DEF vars, runVars
<1>3. ~StartRun /\ ~Silenced /\ ~Gathered /\ ~Return /\ ~NoticeStep
  BY DEF StartRun, Silenced, Gathered, Return, NoticeStep
<1>4. ~TimersFail /\ ~IngestStep /\ ~GoalStep
  BY <1>1 DEF TimersFail, IngestStep, GoalStep, runVars
<1>5. \A m \in Markets : ~Publish(m) /\ ~OrphanStops(m) /\ \A how : ~FeedStops(m, how)
  BY <1>1 DEF Publish, OrphanStops, FeedStops, runVars
<1>6. \A c \in Pairs : ~FitStep(c) /\ ~Unwind(c) /\ \A raises : ~RiskStep(c, raises)
  BY <1>1 DEF FitStep, Unwind, RiskStep, runVars
<1>7. \A p \in Producers : ~WorkerEnds(p) /\ \A outcome : ~FitEnds(p, outcome)
  BY <1>1 DEF WorkerEnds, FitEnds, runVars, MainAfterIdleSet
<1>8. ~Resume /\ ~DurationElapses /\ ~Interrupt
  BY DEF Resume, DurationElapses, Interrupt, Finally
<1>9. QED
  BY <1>2, <1>3, <1>4, <1>5, <1>6, <1>7, <1>8 DEF Next

\* A run that ends because its streams did has drained: whatever was published reached the
\* end of the chain, or was replaced by what did (_settle).
THEOREM SettledRunsAreDrained == Spec => SettledMeansDrained
<1>1. DrainInv /\ [Next]_vars =>
        [main # "cleaning" /\ main' = "cleaning" /\ ending' = "exhausted" => Drained]_vars
  BY ExhaustedBySettling, ExhaustedIsDrained
<1>2. QED
  BY <1>1, DrainInit, DrainNext, PTL DEF Spec, SettledMeansDrained

\* Whatever ended the runs before -- a goal, a failure, a cancellation, a second one while
\* the first was unwinding -- a run that settles waits for a fit one of its own handlers
\* awaits and its pool holds (_tracked, _settle).
THEOREM SettlingRunsWaitForTheirOwn == Spec => []SettleWaitsForItsOwn
<1>1. DrainInv => SettleWaitsForItsOwn
  <2> SUFFICES ASSUME DrainInv, main = "idling" PROVE SettleWaitsForItsOwn
    BY DEF SettleWaitsForItsOwn
  <2>1. busy # 0 /\ busy = Cardinality(Fitting)
    BY DEF DrainInv, Settling, Pooled, Live
  <2>2. PICK c \in Fitting : TRUE
    BY <2>1, FS_EmptySet
  <2>3. c \in Pairs /\ c[2] \in Producers /\ fitAt[c] = "fitting"
    BY DEF Fitting, Pairs
  <2>4. In(c, pool[c[2]])
    BY <2>3 DEF DrainInv, Pooled, Holds
  <2>5. QED
    BY <2>3, <2>4 DEF SettleWaitsForItsOwn, In
<1>2. QED
  BY <1>1, DrainInit, DrainNext, PTL DEF Spec
================================================================================
