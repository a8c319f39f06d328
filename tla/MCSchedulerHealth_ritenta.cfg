CONSTANTS
    j1 = j1
    j2 = j2
    Job = {j1, j2}
    Tolleranza <- TolleranzaMC
    MinJob = 2
    Soglia = 1
    AllarmeOgni = 1
    RipetiDopo = 2
SPECIFICATION SafeSpec
PROPERTIES
    SiRitenta
