CONSTANTS
    NInventari = 2
    Ad = {a1}
    Gettoni = {t1}
    Nessuno = Nessuno
    MaxTentativi = 1
    MaxPerGiro = 2
SPECIFICATION SafeSpec
INVARIANTS
    SoloLaPiuNuova
