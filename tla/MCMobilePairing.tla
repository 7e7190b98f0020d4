--------------------------- MODULE MCMobilePairing ---------------------------
(* MobilePairing for TLC: tokens, phones and requests are alike.            *)
EXTENDS MobilePairing, TLC

Symmetry == Permutations(Tokens) \cup Permutations(Phones) \cup Permutations(Requests)
=============================================================================
