CONSTANTS
  btc = btc
  eth = eth
  svi = svi
  mlp = mlp
  Markets = {btc, eth}
  Producers = {svi, mlp}
  Plans <- AllPlans
SPECIFICATION FairSpec
INVARIANTS GoalIsExact SettleWaitsForItsOwn
PROPERTIES SettledMeansDrained ExhaustedRunEnds
