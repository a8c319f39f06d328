CONSTANTS
    j1 = j1
    j2 = j2
    Job = {j1, j2}
    Tolleranza <- TolleranzaMC
    MinJob = 2
    Soglia = 1
    AllarmeOgni = 1
    RipetiDopo = 2
SPECIFICATION Spec
INVARIANTS
    HealthInv
PROPERTIES
    SenzaRumore
    GuastoRipetuto
    IncidenteDetto
