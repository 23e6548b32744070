------------------------------- MODULE QuoteRules -------------------------------
(***************************************************************************)
(* What market data says of one expiry's quotes, as functions of a slice:  *)
(* the static-arbitrage flags of domain/admissibility.py, the put-call     *)
(* parity forward of domain/forward.py, and the cross-check application/   *)
(* acl.py publishes over all the expiries of a snapshot.                   *)
(*                                                                         *)
(* A slice is [forward, calls, puts]: the venue's forward and the mids of  *)
(* each kind as a function of the strikes quoted.  Prices are integers and *)
(* a ratio is a pair <<numerator, denominator>>; the discount factor is    *)
(* the default of 1.                                                       *)
(***************************************************************************)
EXTENDS Integers, FiniteSets, Functions

\* _prices_by_strike(), in order: the strikes of one kind that no other lies between.
Neighbours(prices, low, high) ==
  /\ low \in DOMAIN prices /\ high \in DOMAIN prices /\ low < high
  /\ \A k \in DOMAIN prices : k <= low \/ high <= k

\* _breaks_monotonicity(): between neighbours, a call gains or a put loses with the strike.
BreaksMonotonicity(prices, rises) ==
  \E low, high \in DOMAIN prices :
    /\ Neighbours(prices, low, high)
    /\ IF rises THEN prices[low] > prices[high] ELSE prices[low] < prices[high]

EvenlySpaced(prices, tolerance) ==
  \E low, mid, high \in DOMAIN prices :
    /\ Neighbours(prices, low, mid) /\ Neighbours(prices, mid, high)
    /\ 2 * prices[mid] - prices[low] - prices[high] > 2 * tolerance

\* _breaks_convexity(): among three neighbours, the middle price is above the chord of the
\* outer two by more than the tolerance.
BreaksConvexity(prices, tolerance) ==
  \E low, mid, high \in DOMAIN prices :
    /\ Neighbours(prices, low, mid) /\ Neighbours(prices, mid, high)
    /\ (prices[mid] - tolerance) * (high - low)
         > (high - mid) * prices[low] + (mid - low) * prices[high]

FlagSlice(slice, tolerance) ==
  {f \in {"SLICE_MONOTONICITY", "SLICE_CONVEXITY"} :
     IF f = "SLICE_MONOTONICITY"
     THEN BreaksMonotonicity(slice.calls, FALSE) \/ BreaksMonotonicity(slice.puts, TRUE)
     ELSE BreaksConvexity(slice.calls, tolerance) \/ BreaksConvexity(slice.puts, tolerance)}

--------------------------------------------------------------------------------
(* The second route to the forward.                                        *)

NoForward == 0

\* The strikes quoted on both sides.
TwoSided(slice) == DOMAIN slice.calls \cap DOMAIN slice.puts

TwiceMean(values) == (2 * FoldFunction(+, 0, values)) \div Cardinality(DOMAIN values)

\* The value at a rank, once they are in order.
Ranked(values, rank) ==
  CHOOSE v \in {values[k] : k \in DOMAIN values} :
    /\ Cardinality({k \in DOMAIN values : values[k] < v}) < rank
    /\ rank <= Cardinality({k \in DOMAIN values : values[k] <= v})

\* statistics.median(), twice over: the middle value twice, or the two there are.
TwiceMedian(values) ==
  LET n == Cardinality(DOMAIN values)
  IN Ranked(values, (n + 1) \div 2) + Ranked(values, n \div 2 + 1)

\* The forward each strike implies, F = K + C - P.
Implied(slice) == [k \in TwoSided(slice) |-> k + slice.calls[k] - slice.puts[k]]

\* _parity_forward(), twice over: the median of those, unless no strike has both sides or the
\* median is no price.
TwiceParity(slice) ==
  IF TwoSided(slice) # {} /\ TwiceMedian(Implied(slice)) > 0 THEN TwiceMedian(Implied(slice))
  ELSE NoForward

\* crosscheck_error(): relative to the venue's forward.
CrosscheckError(primary, twice) ==
  <<IF 2 * primary > twice THEN 2 * primary - twice ELSE twice - 2 * primary, 2 * primary>>

AtLeast(one, other) == one[1] * other[2] >= other[1] * one[2]

\* forward_crosscheck_error(): the worst over the expiries that could be checked, or none.
ForwardCrosscheck(slices) ==
  LET errors == {CrosscheckError(s.forward, TwiceParity(s)) :
                   s \in {t \in slices : TwiceParity(t) # NoForward}}
  IN {e \in errors : \A other \in errors : AtLeast(e, other)}
================================================================================
