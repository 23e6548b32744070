------------------------------- MODULE MCStartup -------------------------------
(* Files around two that are right: one market with every kind of producer,   *)
(* two markets of which the book covers what it covers.                       *)
EXTENDS Startup

MkMarket(id, underlying, provider) ==
  [id |-> id, underlying |-> underlying, provider |-> provider,
   settings |-> [t \in {"synthetic", "deribit"} |-> IF t = provider THEN "good" ELSE "absent"],
   quiet |-> provider = "synthetic", rediscovery |-> provider = "deribit"]

Btc == MkMarket("m1", "btc", "synthetic")
Btc2 == MkMarket("m2", "btc", "constant")
Eth == MkMarket("m2", "eth", "deribit")

AllTables == [t \in FileTables |-> "good"]

Good ==
  [toml |-> TRUE, tables |-> AllTables, markets |-> <<Btc>>,
   names |-> <<"svi-scipy", "svi-jax", "mlp-torch">>, book |-> {"btc"},
   writer |-> "csv", output |-> TRUE, sink |-> "csv", sinkPath |-> TRUE]

TwoMarkets ==
  {[Good EXCEPT !.markets = ms, !.book = book, !.names = <<"flat-vol", "svi-scipy">>] :
     ms \in {<<Btc, Eth>>, <<Btc, Btc2>>, <<Btc, Btc>>},
     book \in {{"btc"}, {"btc", "eth"}, {"btc", "sol"}}}

OneOff ==
  {[Good EXCEPT !.toml = FALSE], [Good EXCEPT !.markets = <<>>], [Good EXCEPT !.names = <<>>],
   [Good EXCEPT !.names = <<"svi-scipy", "svi-scipy">>],
   [Good EXCEPT !.names = <<"svi-scipy", "nobody">>], [Good EXCEPT !.book = {"sol"}],
   [Good EXCEPT !.writer = "nobody"], [Good EXCEPT !.writer = "console", !.output = FALSE],
   [Good EXCEPT !.output = FALSE],
   [Good EXCEPT !.sink = "logging"], [Good EXCEPT !.sink = "null", !.sinkPath = FALSE],
   [Good EXCEPT !.markets[1].provider = "nobody", !.markets[1].settings["synthetic"] = "absent"],
   [Good EXCEPT !.markets[1].provider = ""],
   [Good EXCEPT !.markets[1].provider = "deribit"],
   [Good EXCEPT !.markets[1].settings["synthetic"] = "bad"],
   [Good EXCEPT !.markets = <<Eth>>, !.book = {"eth"}]}

OddTable ==
  {[Good EXCEPT !.tables[t] = odd] : t \in FileTables, odd \in {"absent", "bad"}}

MCFiles == {Good} \cup TwoMarkets \cup OneOff \cup OddTable

MCMarketFlags == {NoFlag, "m1", "m9"}
MCNamesFlags ==
  {NoFlag, <<>>, <<"svi-scipy">>, <<"svi-scipy", "svi-scipy">>, <<"svi-scipy", "svi-jax">>}
MCRecordings ==
  {[market |-> m, underlying |-> u] : m \in {"m1", "m2", "m9"}, u \in {"btc", "eth"}}
================================================================================
