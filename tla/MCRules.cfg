CONSTANTS
  Strikes4 = {1, 2, 4, 5}
  TopPrice = 4
  MaxBook = 4
  Inputs <- MCInputs
SPECIFICATION RulesSpec
INVARIANTS FlagsTellWhatIsWrong CrosscheckIgnoresAMinority SameSurfaceSameNumbers SameQuotesForEveryProducer PairsAreTheCommonBook
