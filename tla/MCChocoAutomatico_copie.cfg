\* What the copies of the code do to the promises of the process.  Each of the
\* three is violated: TLC names the first it meets, the next one when that is
\* taken out of the list.
CONSTANTS
    NOp = 3
    Host = {1, 2}
    Richieste = {"bootstrap"}
    PostiMax = 1
    TentativiMax = 1
SPECIFICATION SafeSpecAuto
INVARIANTS
    PostiNelProcesso
    UnLucchettoPerHost
    LaPaginaNonAspetta
