--------------------------- MODULE MCStrategyDesk ---------------------------
\* Instance of StrategyDesk for TLC.
EXTENDS StrategyDesk, TLC
MCLiveForms ==
  {LiveOff} \cup [enabled : {TRUE}, mode : {"testnet", "mainnet"}, account : {TRUE}]
    \cup {[enabled |-> TRUE, mode |-> "testnet", account |-> FALSE]}
Interchangeable == Permutations(Recs) \cup Permutations(Desks)
=============================================================================
