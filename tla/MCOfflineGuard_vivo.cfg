CONSTANTS
    h1 = h1
    h2 = h2
    h3 = h3
    Hosts = {h1, h2, h3}
    Pct = 50
    Min = 2
SPECIFICATION SpecGuard
PROPERTY
    TornatoVivoEsce
