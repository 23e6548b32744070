-------------------------- MODULE ConflatingBus_proofs --------------------------
(***************************************************************************)
(* Proofs about ConflatingBus for any topics, subscribers and bound: the   *)
(* mailbox protocol is sound (BusInv is inductive) and the bus implements  *)
(* LatestValue.                                                            *)
(***************************************************************************)
EXTENDS ConflatingBus, TLAPS

USE BusAssumption

LEMMA InitInv == Init => BusInv
BY DEF Init, BusInv, TypeOK, NeverCrashes, NoLostWakeup, NothingUncounted, SlotIsNewest,
       FlagMatchesSlot, RunnerStates

LEMMA PublishInv ==
  ASSUME BusInv, NEW t \in Topics, Publish(t)
  PROVE  BusInv'
<1> USE DEF BusInv, Publish, Listening, Counted, Filled, Scheduled
<1>1. TypeOK'
  BY DEF TypeOK, RunnerStates
<1>2. NeverCrashes'
  BY DEF TypeOK, NeverCrashes
<1>3. NoLostWakeup'
  BY DEF TypeOK, NoLostWakeup
<1>4. NothingUncounted'
  BY DEF TypeOK, NothingUncounted
<1>5. SlotIsNewest'
  BY DEF TypeOK, SlotIsNewest
<1>6. FlagMatchesSlot'
  <2> SUFFICES ASSUME NEW s \in Subscribers
               PROVE  /\ ready'[s] <=> slot'[s] # 0
                      /\ held'[s] # 0 <=> pc'[s] = "handling"
    BY DEF FlagMatchesSlot
  <2>1. /\ ready[s] <=> slot[s] # 0
        /\ held[s] # 0 <=> pc[s] = "handling"
    BY DEF FlagMatchesSlot
  <2>2. held'[s] # 0 <=> pc'[s] = "handling"
    BY <2>1 DEF TypeOK
  <2>3. CASE TopicOf[s] = t
    <3>1. slot'[s] = latest[t] + 1 /\ latest[t] \in Nat
      BY <2>3 DEF TypeOK
    <3>2. ready'[s]
      BY <2>3
    <3>3. QED
      BY <2>2, <3>1, <3>2
  <2>4. CASE TopicOf[s] # t
    <3>1. slot'[s] = slot[s]
      BY <2>4
    <3>2. ready'[s] <=> ready[s]
      BY <2>4
    <3>3. QED
      BY <2>1, <2>2, <3>1, <3>2
  <2>5. QED
    BY <2>3, <2>4
<1>7. QED
  BY <1>1, <1>2, <1>3, <1>4, <1>5, <1>6

LEMMA ParkInv ==
  ASSUME BusInv, NEW s \in Subscribers, Park(s)
  PROVE  BusInv'
BY DEF BusInv, Park, counters, TypeOK, RunnerStates, NeverCrashes, NoLostWakeup,
       NothingUncounted, SlotIsNewest, FlagMatchesSlot

LEMMA TakeInv ==
  ASSUME BusInv, NEW s \in Subscribers, Take(s)
  PROVE  BusInv'
<1>1. slot[s] # 0
  BY DEF BusInv, Take, FlagLowered, SlotEmptied, NoLostWakeup, FlagMatchesSlot
<1>2. /\ pc' = [pc EXCEPT ![s] = "handling"]
      /\ held' = [held EXCEPT ![s] = slot[s]]
      /\ seen' = [seen EXCEPT ![s] = slot[s]]
      /\ slot' = [slot EXCEPT ![s] = 0]
      /\ ready' = [ready EXCEPT ![s] = FALSE]
      /\ UNCHANGED <<latest, dropped, handled, failed, abandoned>>
  BY <1>1 DEF Take, FlagLowered, SlotEmptied, counters
<1>3. held[s] = 0
  BY DEF BusInv, Take, FlagLowered, SlotEmptied, FlagMatchesSlot
<1>4. QED
  BY <1>1, <1>2, <1>3
  DEF BusInv, TypeOK, RunnerStates, NeverCrashes, NoLostWakeup, NothingUncounted,
      SlotIsNewest, FlagMatchesSlot

LEMMA ReturnInv ==
  ASSUME BusInv, NEW s \in Subscribers, HandlerReturns(s)
  PROVE  BusInv'
<1>1. held[s] # 0
  BY DEF BusInv, HandlerReturns, FlagMatchesSlot
<1>2. TypeOK'
  BY DEF BusInv, HandlerReturns, TypeOK, RunnerStates
<1>3. NothingUncounted'
  BY <1>1 DEF BusInv, HandlerReturns, TypeOK, NothingUncounted
<1>4. NeverCrashes' /\ NoLostWakeup' /\ SlotIsNewest' /\ FlagMatchesSlot'
  BY DEF BusInv, HandlerReturns, TypeOK, NeverCrashes, NoLostWakeup, SlotIsNewest,
         FlagMatchesSlot
<1>5. QED
  BY <1>2, <1>3, <1>4 DEF BusInv

LEMMA CancelInv ==
  ASSUME BusInv, NEW s \in Subscribers, Cancel(s)
  PROVE  BusInv'
<1>1. held[s] # 0 <=> pc[s] = "handling"
  BY DEF BusInv, FlagMatchesSlot
<1>2. TypeOK'
  BY DEF BusInv, Cancel, TypeOK, RunnerStates
<1>3. NothingUncounted'
  BY <1>1 DEF BusInv, Cancel, TypeOK, NothingUncounted
<1>4. NeverCrashes' /\ NoLostWakeup' /\ SlotIsNewest' /\ FlagMatchesSlot'
  BY DEF BusInv, Cancel, TypeOK, NeverCrashes, NoLostWakeup, SlotIsNewest, FlagMatchesSlot
<1>5. QED
  BY <1>2, <1>3, <1>4 DEF BusInv

LEMMA RestartInv ==
  ASSUME BusInv, NEW s \in Subscribers, Restart(s)
  PROVE  BusInv'
BY DEF BusInv, Restart, counters, TypeOK, RunnerStates, NeverCrashes, NoLostWakeup,
       NothingUncounted, SlotIsNewest, FlagMatchesSlot

LEMMA NextInv == BusInv /\ [Next]_vars => BusInv'
<1>1. ASSUME BusInv, Next
      PROVE  BusInv'
  BY <1>1, PublishInv, ParkInv, TakeInv, ReturnInv, CancelInv, RestartInv DEF Next, Step
<1>2. ASSUME BusInv, UNCHANGED vars
      PROVE  BusInv'
  BY <1>2 DEF vars, BusInv, TypeOK, NeverCrashes, NoLostWakeup, NothingUncounted,
              SlotIsNewest, FlagMatchesSlot
<1>3. QED
  BY <1>1, <1>2

\* The mailbox protocol (bus.py, put and receive) and the runner's bookkeeping keep
\* their invariant in every state.
THEOREM BusInvariant == Spec => []BusInv
BY InitInv, NextInv, PTL DEF Spec

\* The guard at the end of receive() is dead code: no runner ever finds a raised flag
\* over an empty slot (bus.py, _Mailbox.receive).
THEOREM NoRunnerCrashes == Spec => []NeverCrashes
<1>1. BusInv => NeverCrashes
  BY DEF BusInv
<1>2. QED
  BY <1>1, BusInvariant, PTL

\* No runner sleeps on a full mailbox, and none is woken to an empty one (bus.py).
THEOREM WakeupsAreNotLost == Spec => []NoLostWakeup
<1>1. BusInv => NoLostWakeup
  BY DEF BusInv
<1>2. QED
  BY <1>1, BusInvariant, PTL

\* The drop, handled and failed counters account for every publication (bus.py,
\* runner.py).
THEOREM EveryEventIsCounted == Spec => []NothingUncounted
<1>1. BusInv => NothingUncounted
  BY DEF BusInv
<1>2. QED
  BY <1>1, BusInvariant, PTL

--------------------------------------------------------------------------------
LEMMA InitRefines == Init => Abstract!Init
BY DEF Init, Abstract!Init

LEMMA StepRefines == BusInv /\ [Next]_vars => [Abstract!Next]_(Abstract!vars)
<1> SUFFICES ASSUME BusInv, [Next]_vars
             PROVE  Abstract!Next \/ UNCHANGED Abstract!vars
  OBVIOUS
<1>1. ASSUME NEW t \in Topics, Publish(t)
      PROVE  Abstract!Publish(t)
  BY <1>1 DEF Publish, Listening, Counted, Filled, Scheduled, Abstract!Publish
<1>2. ASSUME NEW s \in Subscribers, Take(s)
      PROVE  Abstract!Receive(s)
  <2>1. slot[s] # 0
    BY <1>2 DEF BusInv, Take, FlagLowered, SlotEmptied, NoLostWakeup, FlagMatchesSlot
  <2>2. slot[s] = latest[TopicOf[s]]
    BY <2>1 DEF BusInv, SlotIsNewest
  <2>3. QED
    BY <1>2, <2>1, <2>2 DEF Take, FlagLowered, SlotEmptied, counters, Abstract!Receive
<1>3. ASSUME NEW s \in Subscribers,
             Park(s) \/ HandlerReturns(s) \/ Cancel(s) \/ Restart(s)
      PROVE  UNCHANGED Abstract!vars
  BY <1>3 DEF Park, HandlerReturns, Cancel, Restart, counters, Abstract!vars
<1>4. CASE UNCHANGED vars
  BY <1>4 DEF vars, Abstract!vars
<1>5. QED
  BY <1>1, <1>2, <1>3, <1>4 DEF Next, Step, Abstract!Next

\* The bus hands each subscriber the newest event of its topic and nothing else
\* (ADR-003): it implements LatestValue.
THEOREM BusImplementsLatestValue == Spec => Conflates
BY InitRefines, StepRefines, BusInvariant, PTL DEF Spec, Conflates, Abstract!Spec
================================================================================
