-------------------------------- MODULE Fitting --------------------------------
(***************************************************************************)
(* Inside one calibration: the two calibrators that search -- SciPy's,     *)
(* slice by slice (adapters/scipy_calibrator.py), and JAX's, the whole     *)
(* surface at a time (adapters/jax_calibrator.py) -- each handed the warm  *)
(* starts earlier cycles left (application/calibration_state.py), and      *)
(* their answers judged by the acceptance rule.                            *)
(*                                                                         *)
(* Data: of five SVI parameters, the two that a slice with few quotes may  *)
(* not move (m and sigma) are kept, as a shape; where a search ends is any *)
(* choice the pinned coordinates leave.                                    *)
(***************************************************************************)
EXTENDS Naturals, FiniteSets

CONSTANTS
  Expiries,        \* listed expiries
  MaxSlices,       \* PadShape.max_slices
  MaxRmse,         \* Acceptance.max_rmse_vol_bp
  WorstRmse        \* bound on the errors considered

ASSUME FittingAssumption ==
  MaxSlices \in Nat \ {0} /\ MaxRmse \in Nat \ {0} /\ WorstRmse \in Nat \ {0}

VARIABLES
  kind,      \* the calibrator behind the port
  warm,      \* CalibrationState._warm_start: [expiry -> shape remembered], or None
  stage,     \* where the cycle is
  quoted,    \* the slices of the task
  thin,      \* those with fewer than min_quotes_for_free_shape quotes in use
  first,     \* [slice -> what its first search came to], or NoAttempt
  second,    \* [slice -> what its cold retry came to], or NoAttempt
  answer,    \* [slice -> its SliceResult]
  started,   \* history: the warm starts this cycle was handed
  rich       \* history: expiries whose memory descends from a fit free to move the shape

cycle == <<quoted, thin, first, second, answer, started>>
vars == <<kind, warm, stage, cycle, rich>>

None == "none"
Shapes == {"cold", "offset", "fitted"}   \* m and sigma of the heuristic, of a restart, of a search
Fit == [shape : Shapes, converged : BOOLEAN, edge : {"none", "level", "shape"},
        rmse : 1..WorstRmse]
Attempt == [shape : Shapes, healthy : BOOLEAN, rmse : 1..WorstRmse]
NoAttempt == [shape |-> None, healthy |-> FALSE, rmse |-> 0]
Nothing == [e \in Expiries |-> NoAttempt]

Init ==
  /\ kind \in {"scipy", "jax"}
  /\ warm = [e \in Expiries |-> None]
  /\ stage = "idle"
  /\ quoted = {} /\ thin = {}
  /\ first = Nothing /\ second = Nothing /\ answer = Nothing
  /\ started = warm
  /\ rich = {}

\* pad(): the surface must fit the rectangle the kernels were compiled for.
Padded(task, wide) == Cardinality(task) <= MaxSlices /\ ~wide

\* A task is drawn up and handed to calibrate(), which under JAX raises for one that is too
\* large, touching nothing.
Begin(task, few, wide) ==
  /\ stage = "idle"
  /\ task # {} /\ few \subseteq task
  /\ kind = "jax" => Padded(task, wide)
  /\ stage' = "first"
  /\ quoted' = task /\ thin' = few /\ started' = warm
  /\ first' = Nothing /\ second' = Nothing /\ answer' = Nothing
  /\ UNCHANGED <<kind, warm, rich>>

HasWarm == {e \in quoted : warm[e] # None}

\* _pinned_mask(), and the coordinates _run() leaves out of `searched`.
Pinned(e) == e \in thin

\* _at_bound(): a coordinate that was not searched did not finish at its bound.
AtBound(e, fit) == fit.edge = "level" \/ (fit.edge = "shape" /\ ~Pinned(e))

\* _healthy(), of what a search returns.
Read(e, fit) ==
  [shape |-> fit.shape, healthy |-> fit.converged /\ ~AtBound(e, fit), rmse |-> fit.rmse]

\* _adam_fit() and _lbfgs_fit(): a pinned shape is the start's, whatever the loop did to it.
Search(e, start) ==
  {Read(e, fit) : fit \in {f \in Fit : Pinned(e) => f.shape = start}}

\* _run(): what is not among the searched coordinates stays as in the template.
Run(e, start) ==
  LET Searched(shape) == IF Pinned(e) THEN start ELSE shape
  IN {Read(e, [fit EXCEPT !.shape = Searched(fit.shape)]) : fit \in Fit}

\* _cold_start(): m where the quotes are lowest, and a typical sigma.
Cold == "cold"

\* _warm_start(), and the start of a slice without one.
Best(e) == IF warm[e] = None THEN Cold ELSE warm[e]

OffsetAnyway(e) == {Cold, "offset"}

\* The starts of _cold_cycle(): a pinned coordinate is not searched and so not offset.
Restarts(e) == IF Pinned(e) THEN {Cold} ELSE {Cold, "offset"}

\* _cold_cycle(), of one slice: one of its restarts, the cheapest.
MultiStart(e) == UNION {Search(e, start) : start \in Restarts(e)}

\* _healthy()
Healthy(attempt) == attempt.healthy

LowerRmse(one, other) == IF one.rmse <= other.rmse THEN one ELSE other

\* _preferred() and _prefer(): health first, then the residual, then the first tried.
Preferred(one, other) ==
  IF Healthy(one) # Healthy(other) THEN IF Healthy(one) THEN one ELSE other
  ELSE LowerRmse(one, other)

\* Every way these searches may come out.
Attempts(results) ==
  {f \in [Expiries -> Attempt \cup {NoAttempt}] :
     \A e \in Expiries : f[e] \in (IF e \in DOMAIN results THEN results[e] ELSE {NoAttempt})}

--------------------------------------------------------------------------------
(* ScipyCalibrator._fit, over every slice of the task.                     *)

ScipyFirst ==
  /\ kind = "scipy" /\ stage = "first"
  /\ first' \in Attempts([e \in quoted |-> Run(e, Best(e))])
  /\ stage' = "second"
  /\ UNCHANGED <<kind, warm, quoted, thin, second, answer, started, rich>>

\* The slices whose warm start failed.
Failed == {e \in HasWarm : ~Healthy(first[e])}

ScipyRetry ==
  /\ kind = "scipy" /\ stage = "second"
  /\ second' \in Attempts([e \in Failed |-> Run(e, Cold)])
  /\ answer' = [e \in Expiries |->
                  IF e \in Failed THEN Preferred(first[e], second'[e]) ELSE first[e]]
  /\ stage' = "judged"
  /\ UNCHANGED <<kind, warm, quoted, thin, first, started, rich>>

--------------------------------------------------------------------------------
(* JaxCalibrator.calibrate: the compiled shape is the surface.             *)

\* _hot_cycle(): one search per slice, from its warm start or, if it has none, cold.
JaxHot ==
  /\ kind = "jax" /\ stage = "first" /\ HasWarm # {}
  /\ first' \in Attempts([e \in quoted |-> Search(e, Best(e))])
  /\ stage' = "second"
  /\ UNCHANGED <<kind, warm, quoted, thin, second, answer, started, rich>>

JaxAllHealthy ==
  /\ kind = "jax" /\ stage = "second"
  /\ \A e \in quoted : Healthy(first[e])
  /\ answer' = first
  /\ stage' = "judged"
  /\ UNCHANGED <<kind, warm, quoted, thin, first, second, started, rich>>

\* The best of both searches, for every slice.
ReSeated(e) == IF e \in quoted THEN Preferred(second'[e], first[e]) ELSE NoAttempt

\* A slice that fitted healthily keeps its answer; the others are re-decided.
Kept(e) ==
  IF e \in quoted /\ ~Healthy(first[e]) THEN Preferred(first[e], second'[e]) ELSE first[e]

\* _cold_cycle(), of the whole surface because one slice failed.
JaxRetry ==
  /\ kind = "jax" /\ stage = "second"
  /\ \E e \in quoted : ~Healthy(first[e])
  /\ second' \in Attempts([e \in quoted |-> MultiStart(e)])
  /\ answer' = [e \in Expiries |-> Kept(e)]
  /\ stage' = "judged"
  /\ UNCHANGED <<kind, warm, quoted, thin, first, started, rich>>

\* No history at all: the cold cycle decides alone.
JaxCold ==
  /\ kind = "jax" /\ stage = "first" /\ HasWarm = {}
  /\ second' \in Attempts([e \in quoted |-> MultiStart(e)])
  /\ answer' = second'
  /\ stage' = "judged"
  /\ UNCHANGED <<kind, warm, quoted, thin, first, started, rich>>

--------------------------------------------------------------------------------
(* CalibrateOnSnapshot.handle, on the answers.                             *)

\* Acceptance.accepts
Accepts(attempt) == Healthy(attempt) /\ attempt.rmse <= MaxRmse

Accepted == {e \in quoted : Accepts(answer[e])}

Remembered ==
  [e \in Expiries |-> IF e \in Accepted THEN answer[e].shape
                      ELSE IF e \in quoted THEN warm[e] ELSE None]

\* A surface goes out if one accepted slice evaluates on the grid; only then is the memory
\* touched.
Judge(published) ==
  /\ stage = "judged"
  /\ IF published /\ Accepted # {}
       THEN /\ warm' = Remembered
            /\ rich' = {e \in quoted : e \in rich \/ e \in Accepted \ thin}
       ELSE UNCHANGED <<warm, rich>>
  /\ stage' = "idle"
  /\ UNCHANGED <<kind, cycle>>

Next ==
  \/ \E task, few \in SUBSET Expiries, wide \in BOOLEAN : Begin(task, few, wide)
  \/ ScipyFirst \/ ScipyRetry
  \/ JaxHot \/ JaxAllHealthy \/ JaxRetry \/ JaxCold
  \/ \E published \in BOOLEAN : Judge(published)

Spec == Init /\ [][Next]_vars

--------------------------------------------------------------------------------
(* Properties.                                                             *)

\* "A calm expiry should not be re-seated on a different optimum because its neighbour
\* failed" (jax_calibrator.py): with either calibrator, a warm start that leads to a healthy
\* fit decides its slice.
CalmSliceKeepsItsOptimum ==
  stage = "judged" =>
    \A e \in quoted : started[e] # None /\ Healthy(first[e]) => answer[e] = first[e]

\* A slice too thin to identify m and sigma never fits them, over any sequence of cycles,
\* retries, restarts and neighbours ("pinning undone by the back door", jax_calibrator.py): a
\* remembered shape other than the heuristic's goes back to a cycle whose quotes could identify
\* it, through cycles that each accepted a fit of that expiry or kept its memory.
ShapeNeedsQuotes ==
  \A e \in Expiries : warm[e] \in {"offset", "fitted"} => e \in rich
================================================================================
