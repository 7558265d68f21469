---------------------------- MODULE MCPoolTracker ----------------------------
(* Two wallets that know a transaction in common, and one of a stranger.   *)
EXTENDS PoolTracker

CONSTANTS a, b, f

TwoWallets == <<{a}, {a, b}>>
OneWallet  == <<{a}>>
=============================================================================
