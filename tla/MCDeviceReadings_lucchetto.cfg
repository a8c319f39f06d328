CONSTANTS
    arp = arp
    job = job
    tu = tu
    a1 = a1
    a2 = a2
    Apparato = {a1,a2}
    Giro = {arp, job}
    Job = job
    Domanda = {tu}
    Letture <- LettureMC
    Copia <- CopiaMC
    Nessuno = Nessuno
SPECIFICATION SafeSpec
PROPERTIES
    MaiSenzaLucchetto
