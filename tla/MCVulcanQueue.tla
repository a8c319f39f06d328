---------------------------- MODULE MCVulcanQueue ----------------------------
(* VulcanQueue with two inventories, AD exports and one or two tokens.       *)
EXTENDS VulcanQueue, TLC

Simmetria == Permutations(Gettoni) \union Permutations(Ad)
=============================================================================
