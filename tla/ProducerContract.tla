--------------------------- MODULE ProducerContract ---------------------------
(***************************************************************************)
(* What the rest of the engine relies on in any producer of surfaces, with *)
(* no calibration, no training and no memory in it: snapshots are answered *)
(* one at a time and in order, each by its own surface or by a refusal     *)
(* that offers the last good one again (ADR-006).  "A comparison in which  *)
(* one of them reacted to failure differently would be measuring the       *)
(* plumbing" (neural_surface/application/train_on_snapshot.py).            *)
(*                                                                         *)
(* Snapshots are named by their rank, 0 being none.                        *)
(***************************************************************************)
EXTENDS Naturals

CONSTANTS
  MayAbandon,   \* whether a run may end while the producer works
  MayRaise      \* whether the producer may raise out of its handler

VARIABLES
  waiting,   \* the snapshot waiting for the producer
  working,   \* the one it works on
  good,      \* the snapshot its last good surface came from
  offered,   \* the one whose surface Risk was last offered
  stale      \* whether that was a republication

vars == <<waiting, working, good, offered, stale>>

Init == waiting = 0 /\ working = 0 /\ good = 0 /\ offered = 0 /\ stale = FALSE

\* A newer snapshot takes the place of the one waiting.
Offer ==
  /\ waiting' \in Nat /\ waiting' > waiting /\ waiting' > working /\ waiting' > good
  /\ UNCHANGED <<working, good, offered, stale>>

Begin ==
  /\ working = 0 /\ waiting # 0
  /\ working' = waiting
  /\ waiting' = 0
  /\ UNCHANGED <<good, offered, stale>>

Answer ==
  /\ working # 0
  /\ good' = working
  /\ offered' = working
  /\ stale' = FALSE
  /\ working' = 0
  /\ UNCHANGED waiting

Refuse ==
  /\ working # 0
  /\ IF good = 0 THEN UNCHANGED <<offered, stale>> ELSE offered' = good /\ stale' = TRUE
  /\ working' = 0
  /\ UNCHANGED <<waiting, good>>

\* It raises: the runner counts the exception, nothing is said and nothing has changed.
Raise ==
  /\ MayRaise
  /\ working # 0
  /\ working' = 0
  /\ UNCHANGED <<waiting, good, offered, stale>>

\* The run ends first: nobody hears the answer, the producer may still remember it.
Abandon ==
  /\ MayAbandon
  /\ working # 0
  /\ good' \in {good, working}
  /\ working' = 0
  /\ UNCHANGED <<waiting, offered, stale>>

Next == Offer \/ Begin \/ Answer \/ Refuse \/ Raise \/ Abandon

Spec == Init /\ [][Next]_vars
================================================================================
