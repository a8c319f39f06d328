CONSTANTS
    Tentativo = {t1, t2, t3, t4}
    Password = {p1, p2}
    MaxProve = 2
    Finestra = 2
    Durata = 1
    Validita = 2
SPECIFICATION Spec
SYMMETRY Simmetrie
INVARIANTS
    LogonInv
    ManoRada
    RicercaRada
    BindContati
