--------------------------- MODULE MCOfflineGuard ---------------------------
(* OfflineGuard on a network of three hosts.                                *)
EXTENDS OfflineGuard, TLC

Simmetria == Permutations(Hosts)
=============================================================================
