CONSTANTS
    n1 = n1
    n2 = n2
    g1 = g1
    g2 = g2
    e1 = e1
    jUna = jUna
    jTutte = jTutte
    jApparati = jApparati
    jAltro = jAltro
    Nets = {n1, n2}
    Giri = {g1, g2}
    NoGiro = NoGiro
    Jobs = {jUna, jTutte, jApparati}
    Reti <- RetiMC
    Apparati <- ApparatiMC
    Esecuzioni = {e1}
    NoJob = NoJob
SPECIFICATION Spec
INVARIANTS
    JobsInv
    LastRunVuolDireFine
    SaltaSoloAScadenza
PROPERTIES
    OgniJobFinisce
