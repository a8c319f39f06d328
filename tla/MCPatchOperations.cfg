CONSTANTS
    NOp = 3
    Host = {1, 2}
    Richieste = {"bootstrap", "upgrade", "install", "uninstall", "probe"}
SPECIFICATION Spec
INVARIANTS
    TypeOK
    UnoAllaVolta
    CodaHaChiLaServe
PROPERTIES
    EsitoDefinitivo
