---------------------------- MODULE MCBlockCache -----------------------------
EXTENDS BlockCache, TLC

CONSTANTS a, b, c, d
SmallSize == a :> 1 @@ b :> 2 @@ c :> 3 @@ d :> 5
==============================================================================
