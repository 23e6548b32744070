--------------------------- MODULE SurfaceComparison ---------------------------
(***************************************************************************)
(* One book under two producers: how a surface is read between its nodes   *)
(* (risk/domain/interpolation.py), how far two surfaces are apart and how  *)
(* two reports are paired (risk/domain/comparison.py), and the comparison  *)
(* made of both (risk/application/compare_producers.py).                   *)
(*                                                                         *)
(* A view is [instant, expiries, tenors, forwards, ks, variance]: strictly *)
(* increasing axes, forwards and strikes as logarithms, and one row of     *)
(* total variance per tenor, in integers.  Volatility and price grow with  *)
(* total variance at a given tenor, so both are kept in total variance.  A *)
(* fraction is a pair <<numerator, positive denominator>>.  A position is  *)
(* [expiry, strike].                                                       *)
(***************************************************************************)
EXTENDS Integers, SequencesExt, Selection

\* A fraction at most another.
AtMost(a, b) == a[1] * b[2] <= b[1] * a[2]

\* _bracket(): the nodes around a value and how far between them it lies; beyond the ends,
\* the end itself.
Bracket(axis, value) ==
  LET last == Len(axis)
      far == Min({last} \cup {i \in 1..last : axis[i] * value[2] > value[1]})
  IN IF AtMost(value, <<axis[1], 1>>) THEN [near |-> 1, far |-> 1, part |-> <<0, 1>>]
     ELSE IF AtMost(<<axis[last], 1>>, value) THEN [near |-> last, far |-> last, part |-> <<0, 1>>]
     ELSE [near |-> far - 1, far |-> far,
           part |-> <<value[1] - axis[far - 1] * value[2], (axis[far] - axis[far - 1]) * value[2]>>]

\* A fraction of the way from one fraction to another of the same denominator.
Between(a, b, part) == <<(part[2] - part[1]) * a[1] + part[1] * b[1], part[2] * a[2]>>

\* bilinear_total_variance(): along the moneyness first, then between the two tenors.
TotalVariance(view, k, tenor) ==
  LET t == Bracket(view.tenors, tenor)
      m == Bracket(view.ks, k)
      Along(row) == Between(<<row[m.near], 1>>, <<row[m.far], 1>>, m.part)
  IN Between(Along(view.variance[t.near]), Along(view.variance[t.far]), t.part)

CoversMoneynessOnly(view, point) ==
  AtMost(<<view.ks[1], 1>>, point[1]) /\ AtMost(point[1], <<Last(view.ks), 1>>)

\* _covers(): inside the box of the nodes, edges included.
Covers(view, point) ==
  /\ AtMost(<<view.ks[1], 1>>, point[1]) /\ AtMost(point[1], <<Last(view.ks), 1>>)
  /\ AtMost(<<view.tenors[1], 1>>, point[2]) /\ AtMost(point[2], <<Last(view.tenors), 1>>)

Nodes(view) == {<<<<k, 1>>, <<t, 1>>>> : k \in ToSet(view.ks), t \in ToSet(view.tenors)}

\* The nodes of either that lie inside the other.
Points(baseline, challenger) ==
  {p \in Nodes(baseline) : Covers(challenger, p)} \cup
  {p \in Nodes(challenger) : Covers(baseline, p)}

\* surface_distance(): the gap at each of those points; without any there is no distance.
SurfaceDistance(baseline, challenger) ==
  [p \in Points(baseline, challenger) |->
     LET b == TotalVariance(baseline, p[1], p[2])
         c == TotalVariance(challenger, p[1], p[2])
     IN <<c[1] * b[2] - b[1] * c[2], b[2] * c[2]>>]

--------------------------------------------------------------------------------
(* A position on a surface.                                                *)

FlatBeforeTheFirst(view, expiry) ==
  LET last == Len(view.expiries)
      near == Cardinality({i \in 1..last : view.expiries[i] <= expiry})
  IN IF near = 0 THEN <<view.tenors[1], 1>>
     ELSE IF near = last THEN <<view.tenors[last], 1>>
     ELSE Between(<<view.tenors[near], 1>>, <<view.tenors[near + 1], 1>>,
                  <<expiry - view.expiries[near], view.expiries[near + 1] - view.expiries[near]>>)

\* tenor_of(): between two listed expiries, as far between their tenors as it is in time; before
\* the first, that share of its tenor; after the last, the last.
TenorOf(view, expiry) ==
  LET last == Len(view.expiries)
      near == Cardinality({i \in 1..last : view.expiries[i] <= expiry})
  IN IF near = 0
       THEN Between(<<0, 1>>, <<view.tenors[1], 1>>,
                    <<expiry - view.instant, view.expiries[1] - view.instant>>)
     ELSE IF near = last THEN <<view.tenors[last], 1>>
     ELSE Between(<<view.tenors[near], 1>>, <<view.tenors[near + 1], 1>>,
                  <<expiry - view.expiries[near], view.expiries[near + 1] - view.expiries[near]>>)

\* forward_at(), of logarithms: flat beyond the ends, and between two tenors a constant carry.
ForwardAt(view, tenor) ==
  LET t == Bracket(view.tenors, tenor)
  IN Between(<<view.forwards[t.near], 1>>, <<view.forwards[t.far], 1>>, t.part)

\* value(): where the position is on the surface, its log-moneyness and its tenor.
Place(view, position) ==
  LET tenor == TenorOf(view, position.expiry)
      forward == ForwardAt(view, tenor)
  IN <<<<position.strike * forward[2] - forward[1], forward[2]>>, tenor>>

\* _revalue(): the variance its price is made of.
Revalue(view, position) ==
  TotalVariance(view, Place(view, position)[1], Place(view, position)[2])

--------------------------------------------------------------------------------
(* The reports.                                                            *)

\* tenor_of() again: a position that expired by the snapshot's instant has no tenor.
Alive(view, position) == position.expiry > view.instant

\* _value(): the lines of a report, in the portfolio's order.
Value(view, book) == Where(book, {n \in DOMAIN book : Alive(view, book[n])})

\* compute(): too old, or with nothing left to value, is a refusal, and carries no line.
ReportOn(view, book, verdict) ==
  IF verdict = "REJECT" \/ Value(view, book) = <<>>
  THEN [verdict |-> "REJECT", lines |-> <<>>]
  ELSE [verdict |-> verdict, lines |-> Value(view, book)]

\* Zipped line by line.
OfOneRank(baseline, challenger) ==
  LET shorter == IF Len(baseline) <= Len(challenger) THEN baseline ELSE challenger
  IN SelectSeq([i \in 1..Len(shorter) |-> <<baseline[i], challenger[i]>>],
               LAMBDA pair : pair[1] = pair[2])

\* One turn of pair_lines(): each line of the baseline meets the first equal line left of the
\* challenger's, which is spent with all those before it; a line with no equal is dropped and
\* spends nothing.
Meet(acc, line) ==
  LET equal == {i \in DOMAIN acc.remaining : acc.remaining[i] = line} IN
  IF equal = {} THEN acc
  ELSE [pairs |-> Append(acc.pairs, <<line, acc.remaining[Min(equal)]>>),
        remaining |-> SubSeq(acc.remaining, Min(equal) + 1, Len(acc.remaining))]

\* pair_lines(): in the baseline's order.
PairLines(baseline, challenger) ==
  LET met[n \in 0..Len(baseline)] ==
        IF n = 0 THEN [pairs |-> <<>>, remaining |-> challenger] ELSE Meet(met[n - 1], baseline[n])
  IN met[Len(baseline)].pairs

\* ComparativeReport.comparable
Comparable(baseline, challenger) ==
  baseline.verdict # "REJECT" /\ challenger.verdict # "REJECT"

\* compute(): two refusals compare to nothing at all.
Compare(baseline, challenger) ==
  IF Comparable(baseline, challenger)
  THEN PairLines(baseline.lines, challenger.lines)
  ELSE <<>>
================================================================================
