----------------------------- MODULE SyntheticFeed -----------------------------
(***************************************************************************)
(* The two feeds that need no venue: the session SyntheticProvider invents *)
(* and spoils on purpose (market_data/adapters/synthetic.py), and the      *)
(* chain ConstantProvider repeats (adapters/constant.py).                  *)
(*                                                                         *)
(* Times are in quarters of an hour, prices in fortieths of the unit of a  *)
(* premium, a relative spread in twentieths.  What a leg is worth and what *)
(* the generator draws are given: a draw is any its range allows.          *)
(***************************************************************************)
EXTENDS FittedQuotes, SequencesExt

Day == 96
JunkKinds == {"CROSSED", "WIDE_SPREAD", "ONE_SIDED", "LOW_SIZE", "STALE"}
Honest == "none"

MaxSpreadRel == 38
JunkSpreadFactor == 25
JunkStale == 4

\* MarketConventions.expiry_instant(): an instant's date, at the venue's time of day.
ExpiryInstant(at, timeOfDay) == Day * (at \div Day) + timeOfDay

\* SyntheticConfig.__post_init__
ConfigTaken(config) ==
  /\ config.expiries # {} /\ \A offset \in config.expiries : offset > 0
  /\ Cardinality(config.strikes) >= 2
  /\ config.spread > 0 /\ config.size >= 0
  /\ config.jitter >= 0 /\ config.interval >= 0 /\ config.cycles >= 1

UnjitteredEnd(config, start) == start + (config.cycles - 1) * config.interval

\* session_seconds, from the start.
SessionEnd(config, start) == start + (config.cycles - 1) * config.interval + config.jitter

Instants(config, start) == {ExpiryInstant(start + offset, config.timeOfDay) : offset \in config.expiries}

\* _build_slices(): refused if the session would outlive an expiry, or two fall together.
SlicesBuild(config, start) ==
  /\ \A instant \in Instants(config, start) : instant > SessionEnd(config, start)
  /\ Cardinality(Instants(config, start)) = Cardinality(config.expiries)

\* _KINDS_OTM_FIRST
KindsOtmFirst(strike, forward) == IF strike >= forward THEN <<"CALL", "PUT">> ELSE <<"PUT", "CALL">>

\* sorted()
InOrder(S) ==
  CHOOSE s \in [1..Cardinality(S) -> S] : \A i, j \in DOMAIN s : i < j => s[i] < s[j]

\* The legs of a chain as its feed publishes them: by expiry, by strike, the one that is out
\* of the money first.
Instruments(config, start) ==
  LET ladder == InOrder(config.strikes)
      Rung(instant, strike) ==
        [n \in 1..2 |-> [expiry |-> instant, strike |-> strike,
                         kind |-> KindsOtmFirst(strike, config.forward)[n]]]
      Ladder(instant) == FlattenSeq([j \in DOMAIN ladder |-> Rung(instant, ladder[j])])
      instants == InOrder(Instants(config, start))
  IN FlattenSeq([i \in DOMAIN instants |-> Ladder(instants[i])])

\* A premium with the sides of a spread around it.
Around(premium, spread) == [bid |-> premium * (40 - spread), ask |-> premium * (40 + spread)]

\* _spoil(): every kind is one a QuoteObservation can hold.
Spoil(observation, kind, premium, spread) ==
  LET wide == Around(premium, Min({MaxSpreadRel, spread * JunkSpreadFactor}))
  IN CASE kind = "CROSSED"     -> [observation EXCEPT !.bid = observation.ask, !.ask = observation.bid]
       [] kind = "WIDE_SPREAD" -> [observation EXCEPT !.bid = wide.bid, !.ask = wide.ask]
       [] kind = "ONE_SIDED"   -> [observation EXCEPT !.bid = NoPrice]
       [] kind = "LOW_SIZE"    -> [observation EXCEPT !.size = 0]
       [] kind = "STALE"       -> [observation EXCEPT !.stamp = @ - JunkStale]
       [] OTHER                -> observation

\* The sizes SIZE_JITTER_REL lets a side wobble to: from half the configured one to one and a
\* half of it.
SizesDrawn(config) == {size \in Nat : config.size <= 2 * size /\ 2 * size <= 3 * config.size}

\* _update(): the venue's microstructure around one premium, `draw` being its spread, its
\* stamp's jitter, the sizes of its sides and what it is spoiled into.  Of the two sizes the
\* observation keeps the lesser: no rule looks at the other (evaluate).
Update(config, premium, at, draw) ==
  LET spread == Min({MaxSpreadRel, draw.spread})
      sides == Around(premium, spread)
      quoted == [bid |-> sides.bid, ask |-> sides.ask,
                 size |-> Min({draw.sizes[1], draw.sizes[2]}), stamp |-> at + draw.jitter]
  IN Spoil(quoted, draw.junk, premium, spread)

\* SyntheticProvider._stream(), whole: of each cycle, every leg in order, at the cycle's instant.
SyntheticStream(config, start, premium, draws) ==
  LET legs == Instruments(config, start)
  IN FlattenSeq([c \in 1..config.cycles |-> [i \in DOMAIN legs |->
       [leg |-> legs[i], cycle |-> c, place |-> i,
        observation |-> Update(config, premium[legs[i]], start + (c - 1) * config.interval,
                               draws[c][i])]]])

\* ConstantProvider's _chain(): priced once, so refused if it starts with an expired contract.
ChainBuilds(config, start) == \A instant \in Instants(config, start) : instant > start

\* ConstantProvider._stream() and _update(): the same sides each time, stamped when they leave.
ConstantStream(config, start, premium, leaves) ==
  LET legs == Instruments(config, start)
      Sides(leg) == Around(premium[leg], config.spread)
  IN FlattenSeq([c \in 1..config.cycles |-> [i \in DOMAIN legs |->
       [leg |-> legs[i], cycle |-> c, place |-> i,
        observation |-> [bid |-> Sides(legs[i]).bid, ask |-> Sides(legs[i]).ask,
                         size |-> config.size, stamp |-> leaves[c]]]]])
================================================================================
