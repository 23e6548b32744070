------------------------------ MODULE FittedQuotes ------------------------------
(***************************************************************************)
(* From the book of one expiry to what a producer learns from: the quotes  *)
(* a snapshot carries and their flags (market_data/domain/option_quote.py, *)
(* quote_chain.py, admissibility.py), and the two translations of it, the  *)
(* parametric one and the neural one, each context with a copy of its own  *)
(* (parametric_pricing/application/acl.py, neural_surface/application/     *)
(* acl.py).                                                                *)
(*                                                                         *)
(* A contract is [strike, kind] and its book [bid, ask, size, age], prices *)
(* in integers and NoPrice for a missing side.  A mid is kept twice over,  *)
(* a ratio as a pair, and the moneyness range as a range of strikes.  The  *)
(* volatility a price inverts to is left out, and its vega is an integer.  *)
(***************************************************************************)
EXTENDS QuoteRules

NoPrice == -1

\* QuoteObservation.mid, twice over.
TwiceMid(book) == IF book.bid = NoPrice \/ book.ask = NoPrice THEN NoPrice ELSE book.bid + book.ask

\* QuoteObservation.spread_rel: no spread without a mid to be relative to.
SpreadRel(book) ==
  IF TwiceMid(book) <= 0 THEN <<>> ELSE <<2 * (book.ask - book.bid), TwiceMid(book)>>

\* flag_quote(), without the divergence the chain never asks for: it passes no volatility of
\* ours.
FlagQuote(book, strike, limits) ==
  {f \in {"CROSSED", "WIDE_SPREAD", "STALE", "LOW_SIZE", "EXTREME_MONEYNESS"} :
     CASE f = "CROSSED"     -> book.bid # NoPrice /\ book.ask # NoPrice /\ book.bid > book.ask
       [] f = "WIDE_SPREAD" -> /\ SpreadRel(book) # <<>>
                               /\ SpreadRel(book)[1] > limits.spread * SpreadRel(book)[2]
       [] f = "STALE"       -> book.age > limits.age
       [] f = "LOW_SIZE"    -> book.size < limits.size
       [] OTHER             -> strike \notin limits.strikes}

\* _quotes_for(): the quotes with a usable mid; the spread of a crossed book is negative.
QuotesFor(books, limits) ==
  {[strike |-> c.strike, kind |-> c.kind, twice |-> TwiceMid(books[c]),
    spread |-> SpreadRel(books[c]), flags |-> FlagQuote(books[c], c.strike, limits)] :
     c \in {d \in DOMAIN books : TwiceMid(books[d]) > 0 /\ SpreadRel(books[d]) # <<>>}}

MidsOf(quotes, kind) ==
  [k \in {q.strike : q \in {r \in quotes : r.kind = kind}} |->
     (CHOOSE q \in quotes : q.kind = kind /\ q.strike = k).twice]

\* _build_slices(), of one expiry: its quotes, and the flags of the whole.
SliceOf(forward, books, limits) ==
  LET quotes == QuotesFor(books, limits)
  IN [forward |-> forward, quotes |-> quotes,
      flags |-> FlagSlice([calls |-> MidsOf(quotes, "CALL"), puts |-> MidsOf(quotes, "PUT")],
                          2 * limits.convexity)]

\* _to_slice_data(): published, a spread is not negative; the flag is what tells.
ToSliceData(slice) ==
  [slice EXCEPT !.quotes =
     {[q EXCEPT !.spread = IF @[1] < 0 THEN <<0, 1>> ELSE @] : q \in slice.quotes}]

\* implied_vol(): strictly between the intrinsic value and the ceiling there is exactly one.
Invertible(quote, forward) ==
  LET k == quote.strike
      floor == IF quote.kind = "CALL" THEN forward - k ELSE k - forward
      ceiling == IF quote.kind = "CALL" THEN forward ELSE k
  IN quote.twice > 2 * floor /\ quote.twice > 0 /\ quote.twice < 2 * ceiling

--------------------------------------------------------------------------------
(* The parametric translation.                                             *)

\* _out_of_the_money_quotes(): one quote per strike, the out-of-the-money leg, which at the
\* money is the call; without that leg the other stands in, unpaired.
OutOfTheMoney(slice) ==
  LET Wanted(k) == IF k >= slice.forward THEN "CALL" ELSE "PUT"
      preferred == {q \in slice.quotes : q.kind = Wanted(q.strike)}
      fallback == {q \in slice.quotes : \A p \in preferred : p.strike # q.strike}
  IN {[quote |-> q, paired |-> TRUE] : q \in preferred} \cup
     {[quote |-> q, paired |-> FALSE] : q \in fallback}

\* _weight(): vega, discounted by the spread, by a flag of the quote or of its slice and for
\* standing in.  The factors are out of `whole`.
Weight(one, slice, vega, weighting) ==
  <<vega[one.quote.strike] * weighting.scale * one.quote.spread[2]
      * (IF one.quote.flags \cup slice.flags # {} THEN weighting.flagged ELSE weighting.whole)
      * (IF one.paired THEN weighting.whole ELSE weighting.unpaired),
    weighting.scale * one.quote.spread[2] + one.quote.spread[1]>>

\* _to_slice_task(): what survives its inversion, with its weight; nothing at all, or nothing
\* that weighs, is no task.
SliceTask(slice, vega, weighting) ==
  LET fitted == {one \in OutOfTheMoney(slice) : Invertible(one.quote, slice.forward)}
      weights == [one \in fitted |-> Weight(one, slice, vega, weighting)]
  IN IF \E one \in fitted : weights[one][1] > 0
     THEN {[strike |-> one.quote.strike, kind |-> one.quote.kind, weight |-> weights[one]] : one \in fitted}
     ELSE {}

\* to_calibration_task(): the slices with something to fit, by expiry.
CalibrationTask(slices, vega, weighting) ==
  LET live == {e \in DOMAIN slices : SliceTask(slices[e], vega, weighting) # {}}
  IN [e \in live |-> SliceTask(slices[e], vega, weighting)]

\* SliceTask.__post_init__: strictly increasing in strike, and something that weighs.
TaskBuilds(task) ==
  /\ task # {}
  /\ \A a, b \in task : a.strike = b.strike => a = b
  /\ \E a \in task : a.weight[1] > 0

--------------------------------------------------------------------------------
(* The neural translation.                                                 *)

StrictlyAbove(slice) ==
  LET chosen == {q \in slice.quotes :
                   \/ q.kind = (IF q.strike > slice.forward THEN "CALL" ELSE "PUT")
                   \/ \A p \in slice.quotes : p.strike = q.strike => p = q}
  IN {[quote |-> q, paired |-> q.kind = (IF q.strike > slice.forward THEN "CALL" ELSE "PUT")] :
        q \in chosen}

\* _out_of_the_money_quotes(), of the neural context.
NeuralOutOfTheMoney(slice) ==
  LET Wanted(k) == IF k >= slice.forward THEN "CALL" ELSE "PUT"
      chosen == {q \in slice.quotes :
                   \/ q.kind = Wanted(q.strike)
                   \/ \A p \in slice.quotes : p.strike = q.strike => p = q}
  IN {[quote |-> q, paired |-> q.kind = Wanted(q.strike)] : q \in chosen}

\* _weight(), of the neural context.
NeuralWeight(one, slice, vega, weighting) ==
  LET flagged == one.quote.flags # {} \/ slice.flags # {}
      factor == (IF flagged THEN weighting.flagged ELSE weighting.whole)
                  * (IF one.paired THEN weighting.whole ELSE weighting.unpaired)
  IN <<vega[one.quote.strike] * factor * weighting.scale * one.quote.spread[2],
       weighting.scale * one.quote.spread[2] + one.quote.spread[1]>>

\* to_training_samples(): over all the slices at once, so a slice that weighs nothing stays in
\* beside one that does.
TrainingSamples(slices, vega, weighting) ==
  LET samples == UNION {
        {[expiry |-> e, strike |-> one.quote.strike, kind |-> one.quote.kind,
          weight |-> NeuralWeight(one, slices[e], vega, weighting)] :
           one \in {o \in NeuralOutOfTheMoney(slices[e]) : Invertible(o.quote, slices[e].forward)}} :
        e \in DOMAIN slices}
  IN IF \E s \in samples : s.weight[1] > 0 THEN samples ELSE {}
================================================================================
