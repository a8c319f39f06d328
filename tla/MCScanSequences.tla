--------------------------- MODULE MCScanSequences ---------------------------
(* ScanSequences with two sequences, or one, and the rounds of others.      *)
EXTENDS ScanSequences, TLC

Simmetria == Permutations(Giri) \union Permutations(Sequenze)
=============================================================================
