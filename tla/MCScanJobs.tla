----------------------------- MODULE MCScanJobs -----------------------------
(* ScanJobs with a job on one network, a job on all of them, an             *)
(* apparati_scelti job and a job that is not a scan.                        *)
EXTENDS ScanJobs, TLC

CONSTANTS jUna, jTutte, jApparati, jAltro

RetiMC == [j \in Jobs |-> IF j = jUna THEN {CHOOSE n \in Nets : TRUE}
                          ELSE IF j = jTutte THEN Nets ELSE {}]
ApparatiMC == Jobs \intersect {jApparati}

Simmetria == Permutations(Giri) \union Permutations(Esecuzioni)
=============================================================================
