--------------------------------- MODULE Rules ---------------------------------
(***************************************************************************)
(* The pure rules against reference definitions.  An input of one of them  *)
(* is drawn once, and never changes: what is claimed is claimed of every   *)
(* input.                                                                  *)
(***************************************************************************)
EXTENDS SyntheticFeed, SurfaceComparison

CONSTANT Inputs

\* Mids, or any price, by strike.
IsCurve(prices) ==
  /\ IsFiniteSet(DOMAIN prices) /\ DOMAIN prices \subseteq Int
  /\ \A k \in DOMAIN prices : prices[k] \in Int

Positive == Nat \ {0}

\* An expiry's quotes, its venue's forward and the one most of them agree on.
IsVoiced(slice) ==
  /\ slice.forward \in Positive /\ slice.agreed \in Positive
  /\ IsCurve(slice.calls) /\ IsCurve(slice.puts)

\* The books of one expiry's contracts.
Side == Nat \cup {NoPrice}
IsChain(books) ==
  \A c \in DOMAIN books :
    /\ c \in [strike : Positive, kind : {"CALL", "PUT"}]
    /\ books[c] \in [bid : Side, ask : Side, age : Int, size : Nat]

IsFit(i) ==
  /\ i.forward \in Positive
  /\ \A e \in DOMAIN i.books :
       /\ IsChain(i.books[e])
       /\ \A c \in DOMAIN i.books[e] : i.vega[c.strike] \in Nat
  /\ i.weighting \in [scale : Positive, whole : Positive, flagged : Nat, unpaired : Nat]

\* What a feed's generator may draw: a relative spread, a jitter of the stamp and a size of
\* each side within their bounds, and what the quote is spoiled into.
Draws(config) == [spread : Positive, jitter : -config.jitter..config.jitter,
                  sizes : SizesDrawn(config) \X SizesDrawn(config), junk : JunkKinds \cup {Honest}]

IsSession(i) ==
  /\ i.session.forward \in Positive /\ i.session.timeOfDay \in 0..Day - 1 /\ i.start \in Nat
  /\ i.session.strikes \subseteq Positive /\ IsFiniteSet(i.session.strikes)
  /\ i.session.expiries \subseteq Int /\ IsFiniteSet(i.session.expiries)
  /\ i.session.jitter \in Int /\ i.session.cycles \in Int /\ i.session.interval \in Int
  /\ i.session.spread \in 1..39 /\ i.session.size \in Int
  /\ i.limits.spread \in Int /\ i.limits.age \in Int /\ i.limits.size \in Int
  /\ \A leg \in ToSet(Instruments(i.session, i.start)) : i.premium[leg] \in Positive
  /\ \A c \in 1..i.session.cycles : \A n \in DOMAIN Instruments(i.session, i.start) :
       i.draws[c][n] \in Draws(i.session)

IsAxis(nodes) ==
  /\ nodes \in Seq(Int) /\ nodes # <<>>
  /\ \A i, j \in DOMAIN nodes : i < j => nodes[i] < nodes[j]

\* A surface, and a position of the book.
Laws == [level : Int, slope : Int, term : Int, twist : Int, carry : Int,
         units : Positive, instant : Int]
Position == [expiry : Int, strike : Int]

\* The nodes a producer publishes on.
IsGrid(grid) == IsAxis(grid.ks) /\ IsAxis(grid.tenors) /\ grid.tenors[1] > 0

RuleInputs(i) ==
  CASE i.rule = "slice"      -> IsCurve(i.slice.calls) /\ IsCurve(i.slice.puts)
    [] i.rule = "crosscheck" -> \A s \in i.snapshot : IsVoiced(s)
    [] i.rule = "fit"        -> IsFit(i)
    [] i.rule = "feed"       -> IsSession(i)
    [] i.rule = "distance"   -> /\ i.law \in Laws /\ i.held \subseteq Position
                                /\ IsGrid(i.baseline) /\ IsGrid(i.challenger)
    [] OTHER                 -> /\ i.book \in Seq(Position)
                                /\ i.at \in Int \X Int

ASSUME RulesAssumption == \A i \in Inputs : RuleInputs(i)

VARIABLE input

RulesInit == input \in Inputs
RulesNext == UNCHANGED input
RulesSpec == RulesInit /\ [][RulesNext]_input

--------------------------------------------------------------------------------
\* The bounds an arbitrage-free slice keeps to, at any strikes: no call spread, put spread or
\* butterfly is sold for less than nothing.
Spread(prices, low, high) == prices[low] - prices[high]
Butterfly(prices, low, mid, high) ==
  (high - mid) * prices[low] + (mid - low) * prices[high] - (high - low) * prices[mid]

SliceArbitrage(slice) ==
  LET C == DOMAIN slice.calls
      P == DOMAIN slice.puts
  IN {f \in {"SLICE_MONOTONICITY", "SLICE_CONVEXITY"} :
        IF f = "SLICE_MONOTONICITY"
        THEN \/ \E a, b \in C : a < b /\ Spread(slice.calls, a, b) < 0
             \/ \E a, b \in P : a < b /\ Spread(slice.puts, a, b) > 0
        ELSE \/ \E a, b, c \in C : a < b /\ b < c /\ Butterfly(slice.calls, a, b, c) < 0
             \/ \E a, b, c \in P : a < b /\ b < c /\ Butterfly(slice.puts, a, b, c) < 0}

\* Thresholds an invented session's honest quotes keep, whatever is drawn, and its junk does
\* not.
TellJunkApart(i) ==
  LET widest == 20 * i.limits.spread
      Told(draw) == IF draw.junk = "WIDE_SPREAD" THEN JunkSpreadFactor * draw.spread > widest
                    ELSE draw.spread <= widest
  IN /\ \A c \in 1..i.session.cycles : \A n \in DOMAIN Instruments(i.session, i.start) : Told(i.draws[c][n])
     /\ i.session.spread <= widest /\ widest < MaxSpreadRel
     /\ 2 * i.session.jitter <= i.limits.age /\ i.limits.age < JunkStale
     /\ 0 < i.limits.size /\ 2 * i.limits.size <= i.session.size
     /\ i.session.strikes \subseteq i.limits.strikes

Leaves(i, cycle) == i.start + (cycle - 1) * i.session.interval

Stream(i) ==
  IF i.feed = "synthetic" THEN SyntheticStream(i.session, i.start, i.premium, i.draws)
  ELSE ConstantStream(i.session, i.start, i.premium, [c \in 1..i.session.cycles |-> Leaves(i, c)])

FeedBuilds(i) ==
  ConfigTaken(i.session)
    /\ IF i.feed = "synthetic" THEN SlicesBuild(i.session, i.start) ELSE ChainBuilds(i.session, i.start)

\* What was done to a quote, and what the engine makes of it when the last of its cycle is in.
Junk(i, update) ==
  IF i.feed = "synthetic" THEN i.draws[update.cycle][update.place].junk ELSE Honest
Book(i, update) ==
  [bid |-> update.observation.bid, ask |-> update.observation.ask, size |-> update.observation.size,
   age |-> Leaves(i, update.cycle) + i.session.jitter - update.observation.stamp]
Told(i, update) == QuotesFor([leg \in {update.leg} |-> Book(i, update)], i.limits)

\* The engine is told what is wrong, no more and no less.  The two flags a slice may carry,
\* computed on neighbours, are raised exactly when some two or three strikes of it, however
\* far apart, make an arbitrage (flag_slice).  And a quote of an invented session is published
\* clean if it is honest and under the flag of what was done to it if it is spoiled, or not at
\* all without a mid; none, its stamp's jitter included, is of a contract by then expired, and
\* the first snapshot rests on the nearest expiry's out-of-the-money leg (JunkKind, _build_slices).
FlagsTellWhatIsWrong ==
  /\ input.rule = "slice" => FlagSlice(input.slice, 0) = SliceArbitrage(input.slice)
  /\ input.rule = "feed" /\ FeedBuilds(input) /\ TellJunkApart(input) =>
       LET stream == Stream(input)
           opening == stream[1].leg
       IN /\ \A n \in DOMAIN stream :
               /\ {q.flags : q \in Told(input, stream[n])} =
                    IF Junk(input, stream[n]) = "ONE_SIDED" THEN {}
                    ELSE {{Junk(input, stream[n])} \ {Honest}}
               /\ input.feed = "synthetic" => stream[n].observation.stamp < stream[n].leg.expiry
               /\ opening.expiry <= stream[n].leg.expiry
          /\ opening.kind = (IF opening.strike >= input.session.forward THEN "CALL" ELSE "PUT")

MostAgree(slice) ==
  LET agreeing == {k \in TwoSided(slice) : Implied(slice)[k] = slice.agreed}
  IN TwoSided(slice) # {} => 2 * Cardinality(agreeing) > Cardinality(TwoSided(slice))

\* The published cross-check is the worst disagreement between the venue's forward and the one
\* most strikes agree on, whatever the others say: fewer than half of an expiry's strikes can
\* neither raise an alarm nor hide one, and an expiry without a two-sided strike is no opinion
\* (forward_crosscheck_error, forward_from_parity).
CrosscheckIgnoresAMinority ==
  input.rule = "crosscheck" /\ (\A s \in input.snapshot : MostAgree(s)) =>
    LET Off(s) == <<2 * (IF s.forward > s.agreed THEN s.forward - s.agreed ELSE s.agreed - s.forward),
                    2 * s.forward>>
        voiced == {s \in input.snapshot : TwoSided(s) # {}}
    IN ForwardCrosscheck(input.snapshot)
         = {Off(s) : s \in {t \in voiced : \A other \in voiced : AtLeast(Off(t), Off(other))}}

\* The expiries of one snapshot.
Snapshot(i) ==
  [e \in DOMAIN i.books |-> ToSliceData(SliceOf(i.forward, i.books[e], i.limits))]

\* The quotes of an expiry a producer should learn from.
Weighs(i, slice, q) ==
  /\ i.vega[q.strike] > 0
  /\ q.flags \cup slice.flags = {} \/ i.weighting.flagged > 0
  /\ \/ q.kind = (IF q.strike >= i.forward THEN "CALL" ELSE "PUT")
     \/ (\A r \in slice.quotes : r.strike = q.strike => r = q) /\ i.weighting.unpaired > 0
  /\ Invertible(q, i.forward)

Steering(weighed) ==
  {[strike |-> w.strike, kind |-> w.kind, weight |-> w.weight] : w \in {v \in weighed : v.weight[1] > 0}}

\* Two producers of a market learn from the same quotes, though each context translates the
\* snapshot with a copy of its own: of each strike the out-of-the-money leg, or the other when
\* the venue has no mid for that one, if a volatility reproduces it and neither a flag nor its
\* standing in nor its vega takes its weight away; and with the same weight, up to the scale of
\* a slice (to_calibration_task, to_training_samples).  No task drawn up is one SliceTask refuses.
SameQuotesForEveryProducer ==
  input.rule = "fit" =>
    LET slices == Snapshot(input)
        task == CalibrationTask(slices, input.vega, input.weighting)
        samples == TrainingSamples(slices, input.vega, input.weighting)
    IN \A e \in DOMAIN slices :
         LET parametric == IF e \in DOMAIN task THEN task[e] ELSE {}
             neural == {s \in samples : s.expiry = e}
             wanted == {q \in slices[e].quotes : Weighs(input, slices[e], q)}
         IN /\ Steering(parametric) = Steering(neural)
            /\ {<<w.strike, w.kind>> : w \in Steering(neural)} = {<<q.strike, q.kind>> : q \in wanted}
            /\ e \in DOMAIN task => TaskBuilds(task[e])

\* A law linear in the moneyness and in the tenor, sampled on a grid; the forward's logarithm
\* grows with the tenor, and so many units of time make one of tenor.
Law(law, k, tenor) ==
  law.level + law.slope * k + law.term * tenor + law.twist * k * tenor
Sampled(law, grid) ==
  LET T == grid.tenors
  IN [instant |-> law.instant, ks |-> grid.ks, tenors |-> T,
      expiries |-> [i \in DOMAIN T |-> law.instant + law.units * T[i]],
      forwards |-> [i \in DOMAIN T |-> law.carry * T[i]],
      variance |-> [i \in DOMAIN T |-> [j \in DOMAIN grid.ks |-> Law(law, grid.ks[j], T[i])]]]

\* Two producers that know the same surface on different grids are no distance apart, and value
\* a position alike: the gap is only measured where neither is read past its own nodes; up to the
\* last listed expiry of both, before the first of either included, a position has one tenor; and
\* a listed expiry, one between two of them and one between two of the other's all read the same
\* forward and smile (surface_distance, tenor_of, forward_at, value).
SameSurfaceSameNumbers ==
  input.rule = "distance" =>
    LET b == Sampled(input.law, input.baseline)
        c == Sampled(input.law, input.challenger)
        Dated(view, p) == Alive(view, p) /\ p.expiry <= Last(view.expiries)
        Reads(view, p) == Covers(view, Place(view, p)) /\ p.expiry <= Last(view.expiries)
        Same(x, y) == x[1] * y[2] = y[1] * x[2]
    IN /\ \A p \in Points(b, c) : SurfaceDistance(b, c)[p][1] = 0
       /\ \A p \in input.held :
            Dated(b, p) /\ Dated(c, p) => Same(TenorOf(b, p.expiry), TenorOf(c, p.expiry))
       /\ \A p \in input.held : Reads(b, p) /\ Reads(c, p) => Same(Revalue(b, p), Revalue(c, p))

\* Two reports are paired over exactly the positions both value, each occurrence once and in the
\* book's order, however many positions one of them has seen expire (pair_lines, compute).
PairsAreTheCommonBook ==
  input.rule = "pairs" =>
    LET book == input.book
        View(at) == [instant |-> at]
        b == ReportOn(View(input.at[1]), book, input.verdict[1])
        c == ReportOn(View(input.at[2]), book, input.verdict[2])
        common == Where(book, {n \in DOMAIN book : \A i \in 1..2 : book[n].expiry > input.at[i]})
    IN Compare(b, c) =
         IF Comparable(b, c) THEN [n \in DOMAIN common |-> <<common[n], common[n]>>]
         ELSE <<>>
================================================================================
