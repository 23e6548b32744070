------------------------------ MODULE LatestValue ------------------------------
(***************************************************************************)
(* What the event bus promises a subscriber (ADR-003), with no mailbox     *)
(* flag, no event loop and no runner in it: at most one event is owed to   *)
(* each subscriber, it is always the newest of its topic, and taking it    *)
(* empties the debt.  Events of a topic are named by their rank in it, so  *)
(* 0 is "no event".                                                        *)
(***************************************************************************)
EXTENDS Naturals

CONSTANTS Topics,        \* the topics of the bus
          Subscribers,   \* one per subscription, for the life of the process
          TopicOf        \* the topic each subscriber opened its mailbox on

VARIABLES latest,    \* [Topics -> Nat]: events published so far
          owed,      \* [Subscribers -> Nat]: the event waiting, 0 if none
          seen       \* [Subscribers -> Nat]: the newest event received

vars == <<latest, owed, seen>>

Init ==
  /\ latest = [t \in Topics |-> 0]
  /\ owed = [s \in Subscribers |-> 0]
  /\ seen = [s \in Subscribers |-> 0]

Publish(t) ==
  /\ latest' = [latest EXCEPT ![t] = @ + 1]
  /\ owed' = [s \in Subscribers |-> IF TopicOf[s] = t THEN latest[t] + 1 ELSE owed[s]]
  /\ UNCHANGED seen

\* The subscriber gets the newest event there is, whatever it missed.
Receive(s) ==
  /\ owed[s] # 0
  /\ seen' = [seen EXCEPT ![s] = latest[TopicOf[s]]]
  /\ owed' = [owed EXCEPT ![s] = 0]
  /\ UNCHANGED latest

Next ==
  \/ \E t \in Topics : Publish(t)
  \/ \E s \in Subscribers : Receive(s)

Spec == Init /\ [][Next]_vars
================================================================================
