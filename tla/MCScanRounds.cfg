CONSTANTS
    n1 = n1
    n2 = n2
    g1 = g1
    g2 = g2
    Nets = {n1, n2}
    Giri = {g1, g2}
    NoGiro = NoGiro
    NoRete = NoRete
SPECIFICATION Spec
INVARIANTS
    RoundsInv
PROPERTIES
    ImplementaUnGiroPerRete
    ImplementaGiriDiRete
    ReteRestituita
