---------------------------- MODULE MCScanRounds ----------------------------
(* ScanRounds on two networks and three round identities.                   *)
EXTENDS ScanRounds, TLC

Simmetria == Permutations(Giri) \union Permutations(Nets)
=============================================================================
