----------------------------- MODULE MCVaultRekey -----------------------------
(* VaultRekey on hub.db and two tenants.                                     *)
EXTENDS VaultRekey, TLC

CONSTANTS hub, t1, t2

Simm == Permutations({t1, t2})
=============================================================================
