------------------------------- MODULE MCPipeline -------------------------------
(* TLC instances of Pipeline: markets and producers are model values.      *)
EXTENDS Pipeline

CONSTANTS btc, eth, svi, mlp

\* One market of two producers, and a goal of two reports.
GoalPlan == [markets |-> {btc}, producers |-> {svi, mlp}, timers |-> FALSE, goal |-> 2,
             duration |-> FALSE]
\* Two markets on one worker, without a goal and under a duration.
SharedPlan == [markets |-> {btc, eth}, producers |-> {svi}, timers |-> FALSE, goal |-> 0,
               duration |-> TRUE]
\* One market whose heartbeat and rediscovery outlive its stream, and a goal.
TimedPlan == [markets |-> {eth}, producers |-> {mlp}, timers |-> TRUE, goal |-> 1,
              duration |-> TRUE]

AllPlans == {GoalPlan, SharedPlan, TimedPlan}
OnlyShared == {SharedPlan}
================================================================================
