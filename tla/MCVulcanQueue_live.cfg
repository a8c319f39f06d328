CONSTANTS
    NInventari = 1
    Ad = {a1}
    Gettoni = {t1}
    Nessuno = Nessuno
    MaxTentativi = 2
    MaxPerGiro = 1
SPECIFICATION Spec
PROPERTIES
    EsceDallaCoda
