\* What db-tenant.ts:2472-2476 says of the rows it recovers.  Each of the two is
\* violated: TLC names the first it meets, the other when that is taken out.
CONSTANTS
    NOp = 2
    Host = {1}
    Richieste = {"bootstrap", "upgrade", "install", "uninstall", "probe"}
SPECIFICATION Spec
PROPERTIES
    ApertaSenzaOrfane
    NessunoLiRiprende
