CONSTANTS
  btc = btc
  eth = eth
  svi = svi
  mlp = mlp
  Markets = {btc, eth}
  Producers = {svi, mlp}
  Plans <- OnlyShared
SPECIFICATION Spec
INVARIANT EveryFeedSilenced
