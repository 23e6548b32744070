----------------------------- MODULE SnapshotPolicy -----------------------------
(***************************************************************************)
(* When a chain is worth publishing                                        *)
(* (market_data/domain/snapshot_policy.py).  Pure: every rule is a         *)
(* function of the last emission and one reading of the clock.             *)
(***************************************************************************)
EXTENDS Integers

CONSTANTS
  Cadence,        \* cadence_seconds: least spacing of two snapshots
  MaxQuiet,       \* max_quiet_seconds, or Never when there is no heartbeat
  MoveNum,        \* material_move_threshold, as the fraction MoveNum / MoveDen
  MoveDen

Never == -1       \* Python's None, for an instant that has not happened

\* SnapshotPolicyConfig.__post_init__
ASSUME PolicyAssumption ==
  /\ Cadence \in Nat \ {0}
  /\ MaxQuiet = Never \/ (MaxQuiet \in Nat /\ MaxQuiet >= Cadence)
  /\ MoveNum \in Nat /\ MoveDen \in Nat \ {0}

CadenceElapsed(lastEmit, now) == lastEmit = Never \/ now - lastEmit >= Cadence

NoHeartbeat(moved, lastEmit, now) ==
  CadenceElapsed(lastEmit, now) /\ (lastEmit = Never \/ moved)

\* The heartbeat outranks the movement test and never the cadence.
IsDue(moved, lastEmit, now) ==
  /\ CadenceElapsed(lastEmit, now)
  /\ \/ lastEmit = Never
     \/ MaxQuiet # Never /\ now - lastEmit >= MaxQuiet
     \/ moved

ShouldEmit(covered, moved, lastEmit, now) == covered > 0 /\ IsDue(moved, lastEmit, now)
================================================================================
