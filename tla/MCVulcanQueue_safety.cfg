CONSTANTS
    NInventari = 2
    Ad = {a1}
    Gettoni = {t1, t2}
    Nessuno = Nessuno
    MaxTentativi = 2
    MaxPerGiro = 2
SPECIFICATION SafeSpec
SYMMETRY Simmetria
INVARIANTS
    QueueInv
    SospesoTace
    EsitoVero
PROPERTIES
    ImplementaCassetta
