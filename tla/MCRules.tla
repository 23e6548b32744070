-------------------------------- MODULE MCRules --------------------------------
(* Every input of a few shapes for the rules. *)
EXTENDS Rules

CONSTANTS
  Strikes4,        \* strikes of a slice, unevenly spaced
  TopPrice,        \* mids are 0..TopPrice
  MaxBook          \* length of the books

PricesOn(strikes) == UNION {[S -> 0..TopPrice] : S \in SUBSET strikes}
NoPrices == [k \in {} |-> 0]

Slices ==
  {[calls |-> p, puts |-> NoPrices] : p \in PricesOn(Strikes4)} \cup
  {[calls |-> NoPrices, puts |-> p] : p \in PricesOn(Strikes4)}

\* Quotes that agree on the forward, but for some strikes, off by some amount: a minority of
\* them, or not.
Voiced(venue, agreed, strikes, bad, off) ==
  [forward |-> venue, agreed |-> agreed,
   calls |-> [k \in strikes |-> 5 + agreed - k + (IF k \in bad THEN off ELSE 0)],
   puts |-> [k \in strikes |-> 5]]
Expiries ==
  {Voiced(v, f, S, B, d) :
     v \in {3, 4}, f \in {2, 3}, d \in {-4, 1, 9}, S \in {{1, 2, 4}, {1, 2, 4, 5}, {}},
     B \in {{}, {1}, {2}, {4}}}
Snapshots == {{s, t} : s, t \in Expiries}

\* Surfaces and grids, some with one node on an axis.
Surfaces == [level : {9}, slope : {-1, 0, 2}, term : {0, 1}, twist : {0, 1}, carry : {-1, 0},
             units : {2}, instant : {0}]
Grids == [ks : {<<0>>, <<-1, 1>>, <<-2, 0, 1>>, <<1, 2>>}, tenors : {<<1>>, <<1, 4>>, <<2, 3>>, <<2, 3, 6>>}]
Held == [expiry : 1..7, strike : -2..1]

\* Books of one expiry whose forward is 30, around prices without arbitrage.
Fair(c) == CASE c.strike = 30 -> 5
             [] c.strike = 20 -> IF c.kind = "CALL" THEN 12 ELSE 2
             [] OTHER -> IF c.kind = "CALL" THEN 2 ELSE 12
Quoted(c, how) ==
  [bid |-> CASE how = "crossed" -> Fair(c) + 1 [] how = "dear" -> 50 [] how = "one-sided" -> NoPrice
             [] OTHER -> Fair(c),
   ask |-> CASE how = "crossed" -> Fair(c) - 1 [] how = "dear" -> 50 [] how = "wide" -> Fair(c) + 9
             [] OTHER -> Fair(c),
   age |-> IF how = "stale" THEN 9 ELSE 0, size |-> 1]
Limits == [spread |-> 1, age |-> 5, size |-> 1, strikes |-> 15..45, convexity |-> 1]
Legs == {[strike |-> k, kind |-> kind] : k \in {20, 30}, kind \in {"CALL", "PUT"}}
Extra == [strike |-> 40, kind |-> "PUT"]
Hows == {"absent", "fair", "crossed", "wide", "stale", "one-sided", "dear"}
Standing(hows) == [c \in {d \in DOMAIN hows : hows[d] # "absent"} |-> Quoted(c, hows[c])]

\* Two expiries of one snapshot, of one venue's habits; the wing's vega may underflow.
OtherHows == {[c \in Legs |-> "stale"], [c \in Legs \cup {Extra} |-> "fair"]}
Fits ==
  {[rule |-> "fit", forward |-> 30, books |-> <<Standing(one), Standing(other)>>, limits |-> Limits,
    vega |-> [k \in {20, 30, 40} |-> IF k = 40 THEN wing ELSE 1],
    weighting |-> [scale |-> 2, whole |-> 2, flagged |-> flagged, unpaired |-> unpaired]] :
     one \in [Legs -> Hows], other \in OtherHows, wing \in {0, 1}, flagged \in {0, 1}, unpaired \in {0, 1}}

\* Sessions of an invented feed, under thresholds its honest quotes keep and its junk does not.
Sessions ==
  [forward : {30}, strikes : {{20, 30}}, expiries : {{40}, {40, 96}, {40, 96, 130}},
   timeOfDay : {32}, spread : {1, 2}, size : {2}, jitter : {0, 1}, cycles : {1, 2}, interval : {0, 1, 24}]
Starts == {0, 7, 8, 31, 64}
FeedLimits == [spread |-> 1, age |-> 3, size |-> 1, strikes |-> 15..45]
FeedInput(feed, session, start, draws) ==
  [rule |-> "feed", feed |-> feed, session |-> session, start |-> start, limits |-> FeedLimits,
   premium |-> [leg \in ToSet(Instruments(session, start)) |-> Fair(leg)], draws |-> draws]
DrawsOf(session, junk, spoiled, sway) ==
  [c \in 1..2 |-> [n \in 1..12 |->
     [spread |-> session.spread, jitter |-> sway * session.jitter,
      sizes |-> <<session.size + sway, session.size - sway>>,
      junk |-> IF <<c, n>> = spoiled THEN junk ELSE Honest]]]
Feeds ==
  {FeedInput("synthetic", s, t, DrawsOf(s, junk, spoiled, sway)) :
     s \in Sessions, t \in Starts, junk \in JunkKinds \cup {Honest}, spoiled \in (1..2) \X {1, 4},
     sway \in -1..1} \cup
  {FeedInput("constant", s, t, DrawsOf(s, Honest, <<1, 1>>, 0)) : s \in Sessions, t \in Starts}

Books == SeqOf([expiry : {1, 2}, strike : {1, 2}], MaxBook) \ {<<>>}
Verdicts == {"NORMAL", "DEGRADED", "REJECT"}

MCInputs ==
  [rule : {"slice"}, slice : Slices] \cup
  [rule : {"crosscheck"}, snapshot : Snapshots] \cup
  Fits \cup Feeds \cup
  [rule : {"distance"}, law : Surfaces, baseline : Grids, challenger : Grids, held : {Held}] \cup
  [rule : {"pairs"}, book : Books, at : (0..2) \X (0..2), verdict : Verdicts \X Verdicts]
================================================================================
