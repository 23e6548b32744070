----------------------------- MODULE ConflatingBus -----------------------------
(***************************************************************************)
(* The in-process conflating bus (platform/bus.py) and the runner loop     *)
(* that drains each mailbox (platform/runner.py), on one asyncio event     *)
(* loop: a step is at most what one task does between two awaits.          *)
(*                                                                         *)
(* A mailbox is a slot and an asyncio.Event used as a flag.  `put` fills   *)
(* the slot and raises the flag; raising it only SCHEDULES the parked      *)
(* receiver, and more events may be put, or the receiver cancelled, before *)
(* it runs.  Events of a topic are named by their rank, 0 being None.      *)
(***************************************************************************)
EXTENDS Integers

CONSTANTS Topics, Subscribers, TopicOf,
          MaxEvents    \* bound on the events published on one topic

ASSUME BusAssumption ==
  /\ TopicOf \in [Subscribers -> Topics]
  /\ MaxEvents \in Nat

VARIABLES
  latest,     \* [Topics -> Nat]: bus.published, tagged by topic
  slot,       \* _Mailbox._slot
  ready,      \* _Mailbox._ready.is_set()
  pc,         \* where the runner's task is
  held,       \* the event the runner's handler is working on
  seen,       \* the newest event the runner ever took
  dropped,    \* bus.dropped
  handled,    \* runner.handled
  failed,     \* runner.handler_failed
  abandoned   \* events whose handler was cancelled half-way

vars == <<latest, slot, ready, pc, held, seen, dropped, handled, failed, abandoned>>
counters == <<dropped, handled, failed, abandoned>>

(* "calling": about to enter receive(); "parked": suspended in ready.wait(); *)
(* "woken": its wait is over but the loop has not resumed it; "handling":    *)
(* inside `await handler(event)`; "cancelled": CancelledError ended it;      *)
(* "crashed": receive() raised RuntimeError, which nothing catches.          *)
RunnerStates == {"calling", "parked", "woken", "handling", "cancelled", "crashed"}

Init ==
  /\ latest = [t \in Topics |-> 0]
  /\ slot = [s \in Subscribers |-> 0]
  /\ ready = [s \in Subscribers |-> FALSE]
  /\ pc = [s \in Subscribers |-> "calling"]
  /\ held = [s \in Subscribers |-> 0]
  /\ seen = [s \in Subscribers |-> 0]
  /\ dropped = [s \in Subscribers |-> 0]
  /\ handled = [s \in Subscribers |-> 0]
  /\ failed = [s \in Subscribers |-> 0]
  /\ abandoned = [s \in Subscribers |-> 0]

Listening(t) == {s \in Subscribers : TopicOf[s] = t}

\* put() on every mailbox of a topic: a full slot counts a drop, the newest event takes
\* it, the flag goes up and whoever waits on it is scheduled.
Gap(t) == [s \in Subscribers |-> IF s \in Listening(t) THEN slot[s] - latest[t] ELSE dropped[s]]
Counted(t) ==
  [s \in Subscribers |->
     IF s \in Listening(t) /\ slot[s] # 0 THEN dropped[s] + 1 ELSE dropped[s]]
KeepsOldest(t) ==
  [s \in Subscribers |-> IF s \in Listening(t) /\ slot[s] = 0 THEN latest[t] + 1 ELSE slot[s]]
Filled(t) == [s \in Subscribers |-> IF s \in Listening(t) THEN latest[t] + 1 ELSE slot[s]]
NobodyScheduled(t) == pc
Scheduled(t) ==
  [s \in Subscribers |->
     IF s \in Listening(t) /\ pc[s] = "parked" THEN "woken" ELSE pc[s]]

\* publish(): count it, then put() into every mailbox of the topic, with no await.
Publish(t) ==
  /\ latest[t] < MaxEvents
  /\ latest' = [latest EXCEPT ![t] = @ + 1]
  /\ dropped' = Counted(t)
  /\ slot' = Filled(t)
  /\ ready' = [s \in Subscribers |-> ready[s] \/ s \in Listening(t)]
  /\ pc' = Scheduled(t)
  /\ UNCHANGED <<held, seen, handled, failed, abandoned>>

\* receive() finds the flag down and suspends.
Park(s) ==
  /\ pc[s] = "calling"
  /\ ~ready[s]
  /\ pc' = [pc EXCEPT ![s] = "parked"]
  /\ UNCHANGED <<latest, slot, ready, held, seen, counters>>

FlagLowered(s) == [ready EXCEPT ![s] = FALSE]
SlotLeftFull(s) == slot
SlotEmptied(s) == [slot EXCEPT ![s] = 0]

\* receive() past its await: lower the flag, empty the slot, hand the event over.
\* A raised flag over an empty slot raises instead, outside the runner's try.
Take(s) ==
  /\ pc[s] = "woken" \/ (pc[s] = "calling" /\ ready[s])
  /\ ready' = FlagLowered(s)
  /\ slot' = SlotEmptied(s)
  /\ IF slot[s] = 0
       THEN /\ pc' = [pc EXCEPT ![s] = "crashed"]
            /\ UNCHANGED <<held, seen>>
       ELSE /\ pc' = [pc EXCEPT ![s] = "handling"]
            /\ held' = [held EXCEPT ![s] = slot[s]]
            /\ seen' = [seen EXCEPT ![s] = slot[s]]
  /\ UNCHANGED <<latest, counters>>

\* The handler returned, or raised an Exception that the runner counts and swallows.
HandlerReturns(s) ==
  /\ pc[s] = "handling"
  /\ pc' = [pc EXCEPT ![s] = "calling"]
  /\ held' = [held EXCEPT ![s] = 0]
  /\ \/ handled' = [handled EXCEPT ![s] = @ + 1] /\ UNCHANGED failed
     \/ failed' = [failed EXCEPT ![s] = @ + 1] /\ UNCHANGED handled
  /\ UNCHANGED <<latest, slot, ready, seen, dropped, abandoned>>

\* task.cancel() reaches the runner before its first step, in ready.wait(), before or
\* after its wake-up was scheduled, or in the handler.
Cancel(s) ==
  /\ pc[s] \in {"calling", "parked", "woken", "handling"}
  /\ pc' = [pc EXCEPT ![s] = "cancelled"]
  /\ held' = [held EXCEPT ![s] = 0]
  /\ abandoned' = IF pc[s] = "handling" THEN [abandoned EXCEPT ![s] = @ + 1] ELSE abandoned
  /\ UNCHANGED <<latest, slot, ready, seen, dropped, handled, failed>>

\* A second Pipeline.run() drives the same runner, on the same mailbox, again.
Restart(s) ==
  /\ pc[s] = "cancelled"
  /\ pc' = [pc EXCEPT ![s] = "calling"]
  /\ UNCHANGED <<latest, slot, ready, held, seen, counters>>

Step(s) == Park(s) \/ Take(s) \/ HandlerReturns(s)

Next ==
  \/ \E t \in Topics : Publish(t)
  \/ \E s \in Subscribers : Step(s) \/ Cancel(s) \/ Restart(s)

Spec == Init /\ [][Next]_vars

\* asyncio runs every ready task, and a handler that is not cancelled ends: its fit
\* is a bounded optimisation.  Nothing says that anybody publishes, cancels or restarts.
FairSpec == Spec /\ \A s \in Subscribers : WF_vars(Step(s))

--------------------------------------------------------------------------------
(* Properties.                                                             *)

TypeOK ==
  /\ latest \in [Topics -> Nat]
  /\ slot \in [Subscribers -> Nat]
  /\ ready \in [Subscribers -> BOOLEAN]
  /\ pc \in [Subscribers -> RunnerStates]
  /\ held \in [Subscribers -> Nat]
  /\ seen \in [Subscribers -> Nat]
  /\ dropped \in [Subscribers -> Nat]
  /\ handled \in [Subscribers -> Nat]
  /\ failed \in [Subscribers -> Nat]
  /\ abandoned \in [Subscribers -> Nat]

\* The guard of receive() never fires: no runner dies of "mailbox flagged as ready
\* with an empty slot", whatever publications, cancellations and restarts interleave.
NeverCrashes == \A s \in Subscribers : pc[s] # "crashed"

\* No wake-up is lost: a suspended runner's mailbox is empty, and a scheduled one's
\* is not (bus.py, receive: "in that order").
NoLostWakeup ==
  \A s \in Subscribers :
    /\ pc[s] = "parked" => slot[s] = 0
    /\ pc[s] = "woken" => slot[s] # 0

\* Drops are not silent: every event published on a topic is, for each subscriber,
\* counted exactly once as dropped, handled, failed or abandoned, or is still held.
NothingUncounted ==
  \A s \in Subscribers :
    latest[TopicOf[s]] =
      dropped[s] + handled[s] + failed[s] + abandoned[s]
        + (IF slot[s] # 0 THEN 1 ELSE 0) + (IF held[s] # 0 THEN 1 ELSE 0)

\* The slot never holds an obsolete event: conflation bounds the lag by construction.
SlotIsNewest ==
  \A s \in Subscribers : slot[s] # 0 => slot[s] = latest[TopicOf[s]]

\* The inductive invariant behind them: the flag is up exactly when the slot is full,
\* and the runner holds an event exactly while its handler runs.
FlagMatchesSlot ==
  \A s \in Subscribers :
    /\ ready[s] <=> slot[s] # 0
    /\ held[s] # 0 <=> pc[s] = "handling"

BusInv ==
  TypeOK /\ NeverCrashes /\ NoLostWakeup /\ NothingUncounted /\ SlotIsNewest /\ FlagMatchesSlot

\* The bus implements the abstract one: what a runner takes is the newest event of
\* its topic, no event is taken twice, none goes back in time.
Abstract == INSTANCE LatestValue WITH owed <- slot
Conflates == Abstract!Spec

\* An event in a mailbox is taken by its runner unless that runner is cancelled.
Delivered ==
  \A s \in Subscribers : slot[s] # 0 ~> (slot[s] = 0 \/ pc[s] = "cancelled")
================================================================================
