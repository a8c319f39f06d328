CONSTANTS
    n1 = n1
    g1 = g1
    g2 = g2
    s1 = s1
    Nets = {n1}
    Giri = {g1, g2}
    NoGiro = NoGiro
    Sequenze = {s1}
    NFasi = 2
SPECIFICATION Spec
PROPERTIES
    AttesaConLimite
