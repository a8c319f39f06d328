CONSTANTS
    NOp = 3
    Host = {1, 2}
    Richieste = {"bootstrap", "upgrade"}
    PostiMax = 1
    TentativiMax = 1
SPECIFICATION SpecAuto
INVARIANTS
    AutoInv
    UnoAllaVolta
    CodaHaChiLaServe
    NotteSiArrende
PROPERTIES
    EsitoDefinitivo
    TuttiInFondo
