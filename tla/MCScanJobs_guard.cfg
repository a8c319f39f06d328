CONSTANTS
    n1 = n1
    g1 = g1
    g2 = g2
    e1 = e1
    e2 = e2
    jUna = jUna
    jTutte = jTutte
    jApparati = jApparati
    jAltro = jAltro
    Nets = {n1}
    Giri = {g1, g2}
    NoGiro = NoGiro
    Jobs = {jUna, jTutte, jApparati}
    Reti <- RetiMC
    Apparati <- ApparatiMC
    Esecuzioni = {e1, e2}
    NoJob = NoJob
SPECIFICATION SafeSpec
SYMMETRY Simmetria
INVARIANTS
    GuardiaEsatta
