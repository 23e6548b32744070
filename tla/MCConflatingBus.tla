---------------------------- MODULE MCConflatingBus ----------------------------
(* TLC instances of ConflatingBus: the wiring of the subscriptions.        *)
EXTENDS ConflatingBus, TLC

CONSTANTS snapshots, surfaces, scipy, torch, risk

\* Two producers share the snapshot topic, one consumer reads the surfaces.
MCTopicOf == (scipy :> snapshots @@ torch :> snapshots @@ risk :> surfaces)
================================================================================
