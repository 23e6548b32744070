--------------------------- MODULE MCMarketIngestion ---------------------------
(* Two contracts of expiries inside and beyond the clock's bound, and one of    *)
(* another underlying.  With a threshold of one half, 4 -> 5 and 5 -> 6 are no  *)
(* material moves and 4 -> 6 is one: a drift takes two steps to matter.         *)
EXTENDS MarketIngestion, TLC

CONSTANTS near, far, alien

MCExpiryOf == near :> 3 @@ far :> 9 @@ alien :> 9
MCMids == {0, 4, 5, 6}
================================================================================
