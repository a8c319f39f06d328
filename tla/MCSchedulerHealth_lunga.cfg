CONSTANTS
    j1 = j1
    j2 = j2
    Job = {j1, j2}
    Tolleranza <- TolleranzaMC
    MinJob = 2
    Soglia = 2
    AllarmeOgni = 2
    RipetiDopo = 3
SPECIFICATION SafeSpec
INVARIANTS
    HealthInv
PROPERTIES
    SenzaRumore
