CONSTANTS
    hub = hub
    t1 = t1
    t2 = t2
    Db = {hub, t1, t2}
    Hub = hub
SYMMETRY Simm
SPECIFICATION SpecRekey
INVARIANTS
    RekeyInv
    TuttoLeggibile
    NienteDiVecchio
