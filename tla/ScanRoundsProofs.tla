--------------------------- MODULE ScanRoundsProofs ---------------------------
(***************************************************************************)
(* ScanRounds for every set of networks and of rounds: the lock keeps the  *)
(* rounds of a network apart, lasts exactly as long as its round, survives *)
(* a hung one, warns once, and implements the promise of ADR 0006.         *)
(***************************************************************************)
EXTENDS ScanRounds, TLAPS

\* The steps in which an identity stays what it is to the lock, named apart so
\* that the case analysis of Next is done once.
Passi ==
    \/ \E n \in Nets : RifiutoPrendiRete(n)
    \/ \E n \in Nets, g \in Giri : SegnalaGiroLungo(n, g)
    \/ \E g \in Giri : Ambiente(g)

\* The moves of the body of a round, by their effect on its state.
Chiude(g) == \E x \in Esiti : Attivo(g) /\ Finisce(g, x)

\* A step of the specification, by what it does to the lock and the rounds.
LEMMA CasiDiNext ==
    ASSUME Next
    PROVE  \/ Passi
           \/ \E n \in Nets, g \in Giri : Avvii(n, g)
           \/ \E g \in Giri : Chiude(g) \/ InCoda(g)
           \/ \E g \in Giri : Rilascia(g) \/ DimenticaGiro(g)
           \/ Riavvio
<1>1. \A g \in Giri : CorpoDelGiro(g) => Chiude(g) \/ InCoda(g)
  BY DEF CorpoDelGiro, Chiude, InCoda, VedeLoStop, Completa, SalvaProfilo,
         Errore, SenzaEsito, Esiti, Attivo
<1>2. QED
  BY <1>1 DEF Next, Passi

-----------------------------------------------------------------------------
(* Type correctness                                                        *)

LEMMA TipoIniziale == Init => TypeOK
BY DEF Init, TypeOK, Stati, Esiti

LEMMA TipoPasso == TypeOK /\ [Next]_roundVars => TypeOK'
<1> SUFFICES ASSUME TypeOK, [Next]_roundVars PROVE TypeOK'
  OBVIOUS
<1> USE DEF TypeOK, Stati, Attivi, Esiti, lockVars, alarmVars
<1>1. CASE Passi
  BY <1>1 DEF Passi, RifiutoPrendiRete, SegnalaGiroLungo, Ambiente, FermaGiro,
     DiventaLungo, SiAppende, ScriviAllarme
<1>2. ASSUME NEW n \in Nets, NEW g \in Giri, Avvii(n, g) PROVE TypeOK'
  BY <1>2 DEF Avvii, DiscoverNetwork, AvviaProfilo, GiroSconosciuti, Parte
<1>3. ASSUME NEW g \in Giri, Chiude(g) PROVE TypeOK'
  BY <1>3 DEF Chiude, Finisce
<1>4. ASSUME NEW g \in Giri, InCoda(g) PROVE TypeOK'
  BY <1>4 DEF InCoda
<1>5. ASSUME NEW g \in Giri, Rilascia(g) PROVE TypeOK'
  BY <1>5 DEF Rilascia, Rilasciata
<1>6. ASSUME NEW g \in Giri, DimenticaGiro(g) PROVE TypeOK'
  BY <1>6 DEF DimenticaGiro
<1>7. CASE Riavvio
  BY <1>7 DEF Riavvio
<1>8. CASE UNCHANGED roundVars
  BY <1>8 DEF roundVars
<1>9. QED
  BY CasiDiNext, <1>1, <1>2, <1>3, <1>4, <1>5, <1>6, <1>7, <1>8

\* Every variable keeps its type, in every behaviour of the lock and of the
\* rounds (network-scan-lock.ts, discovery.ts).
THEOREM TypeCorrect == SafeSpec => []TypeOK
BY TipoIniziale, TipoPasso, PTL DEF SafeSpec

-----------------------------------------------------------------------------
(* The lock lasts as long as its round                                     *)

LEMMA LucchettoIniziale == Init => LucchettoFinoAllaFine
BY RoundsAssumption, ZenonT(60) DEF Init, LucchettoFinoAllaFine, Attivi

LEMMA LucchettoPasso ==
    TypeOK /\ LucchettoFinoAllaFine /\ [Next]_roundVars
      => LucchettoFinoAllaFine'
<1> SUFFICES ASSUME TypeOK, LucchettoFinoAllaFine, [Next]_roundVars
             PROVE LucchettoFinoAllaFine'
  OBVIOUS
<1> USE RoundsAssumption
    DEF TypeOK, LucchettoFinoAllaFine, Stati, Attivi, InCorso, Attivo
<1>1. CASE Passi
  BY <1>1 DEF Passi, RifiutoPrendiRete, SegnalaGiroLungo, Ambiente, FermaGiro,
     DiventaLungo, SiAppende, lockVars
<1>2. ASSUME NEW n \in Nets, NEW g \in Giri, Avvii(n, g)
      PROVE LucchettoFinoAllaFine'
  \* g held nothing before, and nobody held n.
  <2>1. \A m \in Nets : giri[m] # g
    BY <1>2 DEF Avvii, DiscoverNetwork, AvviaProfilo, GiroSconosciuti, Parte
  <2>2. \A h \in Giri : ~(rete[h] = n /\ stato[h] \in Attivi \union {"finito"})
    BY <1>2 DEF Avvii, DiscoverNetwork, AvviaProfilo, GiroSconosciuti, Parte
  <2>3. QED
    BY <1>2, <2>1, <2>2
       DEF Avvii, DiscoverNetwork, AvviaProfilo, GiroSconosciuti, Parte
<1>3. ASSUME NEW g \in Giri, Chiude(g) PROVE LucchettoFinoAllaFine'
  BY <1>3 DEF Chiude, Finisce
<1>4. ASSUME NEW g \in Giri, InCoda(g) PROVE LucchettoFinoAllaFine'
  BY <1>4 DEF InCoda
<1>5. ASSUME NEW g \in Giri, Rilascia(g) PROVE LucchettoFinoAllaFine'
  BY <1>5 DEF Rilascia, Rilasciata
<1>6. ASSUME NEW g \in Giri, DimenticaGiro(g) PROVE LucchettoFinoAllaFine'
  BY <1>6 DEF DimenticaGiro
<1>7. CASE Riavvio
  BY <1>7 DEF Riavvio
<1>8. CASE UNCHANGED roundVars
  BY <1>8 DEF roundVars
<1>9. QED
  BY CasiDiNext, <1>1, <1>2, <1>3, <1>4, <1>5, <1>6, <1>7, <1>8

\* A round holds its network from its start to its finally clause and nobody
\* else ever does (prendiRete and its release function).
THEOREM LucchettoCorretto == SafeSpec => []LucchettoFinoAllaFine
<1>1. Init => TypeOK /\ LucchettoFinoAllaFine
  BY TipoIniziale, LucchettoIniziale
<1>2. TypeOK /\ LucchettoFinoAllaFine /\ [Next]_roundVars
        => (TypeOK /\ LucchettoFinoAllaFine)'
  BY TipoPasso, LucchettoPasso
<1>3. QED
  BY <1>1, <1>2, PTL DEF SafeSpec

\* A round that is anywhere in its life has a network.
HaUnaRete == \A g \in Giri : stato[g] # "fuori" => rete[g] \in Nets

LEMMA HaUnaReteIniziale == Init => HaUnaRete
BY DEF Init, HaUnaRete

LEMMA HaUnaRetePasso == TypeOK /\ HaUnaRete /\ [Next]_roundVars => HaUnaRete'
<1> SUFFICES ASSUME TypeOK, HaUnaRete, [Next]_roundVars PROVE HaUnaRete'
  OBVIOUS
<1> USE DEF TypeOK, HaUnaRete, Stati, Attivi, InCorso, Attivo
<1>1. CASE Passi
  BY <1>1 DEF Passi, RifiutoPrendiRete, SegnalaGiroLungo, Ambiente, FermaGiro,
     DiventaLungo, SiAppende, lockVars
<1>2. ASSUME NEW n \in Nets, NEW g \in Giri, Avvii(n, g) PROVE HaUnaRete'
  BY <1>2 DEF Avvii, DiscoverNetwork, AvviaProfilo, GiroSconosciuti, Parte
<1>3. ASSUME NEW g \in Giri, Chiude(g) PROVE HaUnaRete'
  BY <1>3 DEF Chiude, Finisce
<1>4. ASSUME NEW g \in Giri, InCoda(g) PROVE HaUnaRete'
  BY <1>4 DEF InCoda
<1>5. ASSUME NEW g \in Giri, Rilascia(g) PROVE HaUnaRete'
  BY <1>5 DEF Rilascia
<1>6. ASSUME NEW g \in Giri, DimenticaGiro(g) PROVE HaUnaRete'
  BY <1>6 DEF DimenticaGiro
<1>7. CASE Riavvio
  BY <1>7 DEF Riavvio
<1>8. CASE UNCHANGED roundVars
  BY <1>8 DEF roundVars
<1>9. QED
  BY CasiDiNext, <1>1, <1>2, <1>3, <1>4, <1>5, <1>6, <1>7, <1>8

LEMMA UnoSolo ==
    TypeOK /\ HaUnaRete /\ LucchettoFinoAllaFine => UnGiroPerRete
BY DEF TypeOK, HaUnaRete, LucchettoFinoAllaFine, UnGiroPerRete, InCorso,
   Attivi, Stati

\* INV-1 of ADR 0006: two rounds never scan and write one network together.
THEOREM MutuaEsclusione == SafeSpec => []UnGiroPerRete
<1>1. Init => TypeOK /\ HaUnaRete
  BY TipoIniziale, HaUnaReteIniziale
<1>2. TypeOK /\ HaUnaRete /\ [Next]_roundVars => (TypeOK /\ HaUnaRete)'
  BY TipoPasso, HaUnaRetePasso
<1>3. QED
  BY <1>1, <1>2, LucchettoCorretto, UnoSolo, PTL DEF SafeSpec

-----------------------------------------------------------------------------
(* One alarm line per round                                                *)

\* Why one line is enough: until its round closes, a written line is known by
\* the flag that stops a second one.
RigaSegnata ==
    \A g \in Giri :
        /\ righe[g] \in {0, 1}
        /\ righe[g] = 1 /\ stato[g] # "chiuso" => g \in allarmati
        /\ stato[g] = "fuori" => righe[g] = 0

LEMMA RigaIniziale == Init => RigaSegnata
BY DEF Init, RigaSegnata

LEMMA RigaPasso ==
    TypeOK /\ LucchettoFinoAllaFine /\ RigaSegnata /\ [Next]_roundVars
      => RigaSegnata'
<1> SUFFICES ASSUME TypeOK, LucchettoFinoAllaFine, RigaSegnata, [Next]_roundVars
             PROVE RigaSegnata'
  OBVIOUS
<1> USE RoundsAssumption DEF TypeOK, RigaSegnata, Stati, Attivi, InCorso, Attivo
<1>1. ASSUME NEW g \in Giri, stato[g] \in Attivi \union {"finito"},
             ScriviAllarme(g), UNCHANGED stato
      PROVE RigaSegnata'
  BY <1>1 DEF ScriviAllarme, alarmVars
<1>2. \A n \in Nets :
        giri[n] # NoGiro => /\ giri[n] \in Giri
                            /\ stato[giri[n]] \in Attivi \union {"finito"}
  BY DEF LucchettoFinoAllaFine
<1>3. CASE Passi
  <2>1. CASE UNCHANGED <<stato, allarmati, righe>>
    BY <2>1
  <2>2. ASSUME NEW n \in Nets, RifiutoPrendiRete(n) PROVE RigaSegnata'
    BY <1>1, <1>2, <2>1, <2>2 DEF RifiutoPrendiRete, lockVars, alarmVars
  <2>3. ASSUME NEW n \in Nets, NEW g \in Giri, SegnalaGiroLungo(n, g)
        PROVE RigaSegnata'
    BY <1>1, <1>2, <2>1, <2>3 DEF SegnalaGiroLungo, lockVars, alarmVars
  <2>4. ASSUME NEW g \in Giri, Ambiente(g) PROVE RigaSegnata'
    BY <2>1, <2>4 DEF Ambiente, FermaGiro, DiventaLungo, SiAppende, lockVars,
       alarmVars
  <2>5. QED
    BY <1>3, <2>2, <2>3, <2>4 DEF Passi
<1>4. ASSUME NEW n \in Nets, NEW g \in Giri, Avvii(n, g) PROVE RigaSegnata'
  BY <1>4 DEF Avvii, DiscoverNetwork, AvviaProfilo, GiroSconosciuti, Parte,
     alarmVars
<1>5. ASSUME NEW g \in Giri, Chiude(g) PROVE RigaSegnata'
  BY <1>5 DEF Chiude, Finisce, alarmVars
<1>6. ASSUME NEW g \in Giri, InCoda(g) PROVE RigaSegnata'
  BY <1>6 DEF InCoda, alarmVars
<1>7. ASSUME NEW g \in Giri, Rilascia(g) PROVE RigaSegnata'
  BY <1>7 DEF Rilascia
<1>8. ASSUME NEW g \in Giri, DimenticaGiro(g) PROVE RigaSegnata'
  BY <1>8 DEF DimenticaGiro
<1>9. CASE Riavvio
  BY <1>9 DEF Riavvio
<1>10. CASE UNCHANGED roundVars
  BY <1>10 DEF roundVars
<1>11. QED
  BY CasiDiNext, <1>3, <1>4, <1>5, <1>6, <1>7, <1>8, <1>9, <1>10

\* scriviAllarme writes one line per round, however many refused starts and
\* jobs that stop waiting call it.
THEOREM AllarmeUnaVolta == SafeSpec => []UnaRigaPerGiro
<1>1. Init => TypeOK /\ LucchettoFinoAllaFine /\ RigaSegnata
  BY TipoIniziale, LucchettoIniziale, RigaIniziale
<1>2. TypeOK /\ LucchettoFinoAllaFine /\ RigaSegnata /\ [Next]_roundVars
        => (TypeOK /\ LucchettoFinoAllaFine /\ RigaSegnata)'
  BY TipoPasso, LucchettoPasso, RigaPasso
<1>3. TypeOK /\ RigaSegnata => UnaRigaPerGiro
  BY DEF TypeOK, RigaSegnata, UnaRigaPerGiro
<1>4. QED
  BY <1>1, <1>2, <1>3, PTL DEF SafeSpec

-----------------------------------------------------------------------------
(* A hung round                                                            *)

\* A hung round is still in its body: nothing but a restart takes it out.
AppesoInCorso == \A g \in appesi : InCorso(g)

LEMMA AppesoPasso ==
    TypeOK /\ AppesoInCorso /\ [Next]_roundVars => AppesoInCorso'
<1> SUFFICES ASSUME TypeOK, AppesoInCorso, [Next]_roundVars PROVE AppesoInCorso'
  OBVIOUS
<1> USE DEF TypeOK, AppesoInCorso, Stati, Attivi, InCorso, Attivo
<1>1. CASE Passi
  BY <1>1 DEF Passi, RifiutoPrendiRete, SegnalaGiroLungo, Ambiente, FermaGiro,
     DiventaLungo, SiAppende, lockVars
<1>2. ASSUME NEW n \in Nets, NEW g \in Giri, Avvii(n, g) PROVE AppesoInCorso'
  BY <1>2 DEF Avvii, DiscoverNetwork, AvviaProfilo, GiroSconosciuti, Parte
<1>3. ASSUME NEW g \in Giri, Chiude(g) PROVE AppesoInCorso'
  BY <1>3 DEF Chiude, Finisce
<1>4. ASSUME NEW g \in Giri, InCoda(g) PROVE AppesoInCorso'
  BY <1>4 DEF InCoda
<1>5. ASSUME NEW g \in Giri, Rilascia(g) PROVE AppesoInCorso'
  BY <1>5 DEF Rilascia
<1>6. ASSUME NEW g \in Giri, DimenticaGiro(g) PROVE AppesoInCorso'
  BY <1>6 DEF DimenticaGiro
<1>7. CASE Riavvio
  BY <1>7 DEF Riavvio
<1>8. CASE UNCHANGED roundVars
  BY <1>8 DEF roundVars
<1>9. QED
  BY CasiDiNext, <1>1, <1>2, <1>3, <1>4, <1>5, <1>6, <1>7, <1>8

\* The inductive core of the lock: types, the exact table and the single alarm.
THEOREM InvarianteDeiGiri == SafeSpec => []RoundsInv
BY TypeCorrect, LucchettoCorretto, AllarmeUnaVolta, PTL DEF RoundsInv

\* The network of a hung round changes hands only when the process restarts:
\* no alarm, refused start or release of another round frees it.
THEOREM AppesoNonLibera == SafeSpec => AppesoTieneLaRete
<1> DEFINE Resta ==
      \A n \in Nets :
          giri[n] \in appesi /\ giri'[n] # giri[n] =>
              \A g \in Giri : stato'[g] = "fuori"
<1>1. Init => TypeOK /\ AppesoInCorso
  BY TipoIniziale DEF Init, AppesoInCorso
<1>2. TypeOK /\ AppesoInCorso /\ [Next]_roundVars
        => (TypeOK /\ AppesoInCorso)'
  BY TipoPasso, AppesoPasso
<1>3. TypeOK /\ AppesoInCorso /\ [Next]_roundVars => [Resta]_roundVars
  <2> SUFFICES ASSUME TypeOK, AppesoInCorso, [Next]_roundVars PROVE Resta
    OBVIOUS
  <2> USE RoundsAssumption
      DEF TypeOK, AppesoInCorso, Stati, Attivi, InCorso, Attivo
  <2>1. CASE UNCHANGED giri
    BY <2>1
  <2>2. ASSUME NEW n \in Nets, NEW g \in Giri, Avvii(n, g) PROVE Resta
    BY <2>2 DEF Avvii, DiscoverNetwork, AvviaProfilo, GiroSconosciuti, Parte
  <2>3. ASSUME NEW g \in Giri, Rilascia(g) PROVE Resta
    BY <2>3 DEF Rilascia, Rilasciata
  <2>4. CASE Riavvio
    BY <2>4 DEF Riavvio
  <2>5. Passi \/ UNCHANGED roundVars => UNCHANGED giri
    BY DEF Passi, RifiutoPrendiRete, SegnalaGiroLungo, Ambiente, FermaGiro,
       DiventaLungo, SiAppende, lockVars, roundVars
  <2>6. \A g \in Giri : Chiude(g) \/ InCoda(g) \/ DimenticaGiro(g)
                          => UNCHANGED giri
    BY DEF Chiude, Finisce, InCoda,
       DimenticaGiro
  <2>7. QED
    BY CasiDiNext, <2>1, <2>2, <2>3, <2>4, <2>5, <2>6
<1>4. QED
  BY <1>1, <1>2, <1>3, PTL DEF SafeSpec, AppesoTieneLaRete

-----------------------------------------------------------------------------
(* The lock implements the promise of ADR 0006                             *)

LEMMA RaffinaPasso ==
    ASSUME TypeOK, HaUnaRete, LucchettoFinoAllaFine, LucchettoFinoAllaFine',
           [Next]_roundVars
    PROVE  [Astratto!Next]_ScriveOra
<1> USE DEF TypeOK, Stati, Attivi, InCorso, Attivo, ScriveOra
<1>1. CASE UNCHANGED <<stato, rete>>
  BY <1>1
<1>2. ASSUME NEW n \in Nets, NEW g \in Giri, Avvii(n, g) PROVE Astratto!Entra(n, g)
  <2>1. /\ giri[n] = NoGiro
        /\ stato[g] = "fuori"
        /\ rete' = [rete EXCEPT ![g] = n]
        /\ stato' \in {[stato EXCEPT ![g] = "sonda"], [stato EXCEPT ![g] = "profilo"]}
    BY <1>2 DEF Avvii, DiscoverNetwork, AvviaProfilo, GiroSconosciuti, Parte
  <2>2. \A h \in Giri : ~(InCorso(h) /\ rete[h] = n)
    BY <2>1, RoundsAssumption DEF LucchettoFinoAllaFine
  <2>3. \A m \in Nets : ScriveOra'[m] = IF m = n THEN {g} ELSE ScriveOra[m]
    BY <2>1, <2>2
  <2>4. QED
    BY <2>1, <2>2, <2>3 DEF Astratto!Entra
<1>3. ASSUME NEW g \in Giri, Chiude(g)
      PROVE \E n \in Nets : Astratto!Esce(n, g)
  <2>1. PICK n \in Nets : InCorso(g) /\ n = rete[g]
    BY <1>3 DEF Chiude, HaUnaRete
  <2>2. stato' = [stato EXCEPT ![g] = "finito"] /\ rete' = rete
    BY <1>3 DEF Chiude, Finisce
  <2>3. Astratto!Esce(n, g)
    BY <2>1, <2>2 DEF Astratto!Esce
  <2>4. QED
    BY <2>3
<1>4. ASSUME NEW g \in Giri, InCoda(g) PROVE UNCHANGED ScriveOra
  BY <1>4 DEF InCoda
<1>5. ASSUME NEW g \in Giri, Rilascia(g) \/ DimenticaGiro(g)
      PROVE UNCHANGED ScriveOra
  BY <1>5 DEF Rilascia, DimenticaGiro
<1>6. CASE Riavvio
  BY <1>6 DEF Riavvio, Astratto!Next, Astratto!Crollo
<1>7. Passi \/ UNCHANGED roundVars => UNCHANGED <<stato, rete>>
  BY DEF Passi, RifiutoPrendiRete, SegnalaGiroLungo, Ambiente, FermaGiro,
     DiventaLungo, SiAppende, lockVars, roundVars
<1>8. QED
  <2>1. ASSUME NEW g \in Giri, Chiude(g) PROVE Astratto!Next
    BY <1>3, <2>1 DEF Astratto!Next
  <2>2. ASSUME NEW n \in Nets, NEW g \in Giri, Avvii(n, g) PROVE Astratto!Next
    BY <1>2, <2>2 DEF Astratto!Next
  <2>3. QED
    BY CasiDiNext, <1>1, <1>4, <1>5, <1>6, <1>7, <2>1, <2>2

\* The rounds of the code, read as «who writes which network», behave as
\* OneRoundPerNetwork: every start enters a network nobody writes.
THEOREM Raffinamento == SafeSpec => ImplementaUnGiroPerRete
<1>1. Init => Astratto!Init
  BY DEF Init, Astratto!Init, ScriveOra, InCorso, Attivi
<1>2. Init => TypeOK /\ HaUnaRete /\ LucchettoFinoAllaFine
  BY TipoIniziale, HaUnaReteIniziale, LucchettoIniziale
<1>3. TypeOK /\ HaUnaRete /\ LucchettoFinoAllaFine /\ [Next]_roundVars
        => (TypeOK /\ HaUnaRete /\ LucchettoFinoAllaFine)'
  BY TipoPasso, HaUnaRetePasso, LucchettoPasso
<1>4. TypeOK /\ HaUnaRete /\ LucchettoFinoAllaFine
        /\ LucchettoFinoAllaFine' /\ [Next]_roundVars
        => [Astratto!Next]_ScriveOra
  BY RaffinaPasso
<1>5. QED
  BY <1>1, <1>2, <1>3, <1>4, PTL
     DEF SafeSpec, ImplementaUnGiroPerRete, Astratto!Spec
-----------------------------------------------------------------------------
(* ScanRounds implements NetworkRounds: what ScanJobs and ScanSequences    *)
(* take for granted of a round is what the code of a round does.           *)

\* The end of a body, with the outcome it may have.
ChiudeCon(g, x) ==
    /\ Attivo(g)
    /\ x # "nessuno"
    /\ x = "fermato" => g \in segnali
    /\ Finisce(g, x)

LEMMA EsitoDelCorpo ==
    ASSUME NEW g \in Giri, CorpoDelGiro(g)
    PROVE  InCoda(g) \/ \E x \in Esiti : ChiudeCon(g, x)
BY DEF CorpoDelGiro, InCoda, ChiudeCon, VedeLoStop, Completa, SalvaProfilo,
   Errore, SenzaEsito, Esiti, Attivo

\* Next, with the outcome of a body that ends.
LEMMA CasiConEsito ==
    ASSUME Next
    PROVE  \/ Passi
           \/ \E n \in Nets, g \in Giri : Avvii(n, g)
           \/ \E g \in Giri : InCoda(g) \/ \E x \in Esiti : ChiudeCon(g, x)
           \/ \E g \in Giri : Rilascia(g) \/ DimenticaGiro(g)
           \/ Riavvio
BY EsitoDelCorpo DEF Next, Passi

-----------------------------------------------------------------------------
(* What the outcome of a body means until its finally clause               *)

\* A body that is over has an outcome, and «fermato» is said only by a round
\* whose stop was asked; the signal outlives the body.
EsitoFondato ==
    \A g \in Giri :
        /\ stato[g] \in {"finito", "chiuso"} => esito[g] # "nessuno"
        /\ stato[g] = "finito" /\ esito[g] = "fermato" => g \in segnali

LEMMA EsitoIniziale == Init => EsitoFondato
BY DEF Init, EsitoFondato

LEMMA EsitoPasso ==
    TypeOK /\ EsitoFondato /\ [Next]_roundVars => EsitoFondato'
<1> SUFFICES ASSUME TypeOK, EsitoFondato, [Next]_roundVars PROVE EsitoFondato'
  OBVIOUS
<1> USE DEF TypeOK, EsitoFondato, Stati, Attivi, Esiti, InCorso, Attivo
<1>1. CASE Passi
  BY <1>1 DEF Passi, RifiutoPrendiRete, SegnalaGiroLungo, Ambiente, FermaGiro,
     DiventaLungo, SiAppende, lockVars
<1>2. ASSUME NEW n \in Nets, NEW g \in Giri, Avvii(n, g) PROVE EsitoFondato'
  BY <1>2 DEF Avvii, DiscoverNetwork, AvviaProfilo, GiroSconosciuti, Parte
<1>3. ASSUME NEW g \in Giri, NEW x \in Esiti, ChiudeCon(g, x)
      PROVE EsitoFondato'
  BY <1>3 DEF ChiudeCon, Finisce
<1>4. ASSUME NEW g \in Giri, InCoda(g) PROVE EsitoFondato'
  BY <1>4 DEF InCoda
<1>5. ASSUME NEW g \in Giri, Rilascia(g) PROVE EsitoFondato'
  BY <1>5 DEF Rilascia
<1>6. ASSUME NEW g \in Giri, DimenticaGiro(g) PROVE EsitoFondato'
  BY <1>6 DEF DimenticaGiro
<1>7. CASE Riavvio
  BY <1>7 DEF Riavvio
<1>8. CASE UNCHANGED roundVars
  BY <1>8 DEF roundVars
<1>9. QED
  BY CasiConEsito, <1>1, <1>2, <1>3, <1>4, <1>5, <1>6, <1>7, <1>8

-----------------------------------------------------------------------------
(* Each step of the code is a step of NetworkRounds, or none               *)

\* The invariant under which the steps map.
Inv ==
    /\ TypeOK
    /\ HaUnaRete
    /\ LucchettoFinoAllaFine
    /\ AppesoInCorso
    /\ EsitoFondato

\* The state that NetworkRounds sees.
VistaDeiChiamanti == <<giri, EsitoDiDone, segnali, appesi, allarmati>>

\* A round in its body holds a network.
LEMMA InCorsoAperto ==
    ASSUME Inv, NEW g \in Giri, stato[g] \in Attivi \union {"finito"}
    PROVE  Chiamanti!Aperto(g)
<1>1. rete[g] \in Nets
  BY DEF Inv, HaUnaRete, Attivi
<1>2. giri[rete[g]] = g
  BY <1>1 DEF Inv, LucchettoFinoAllaFine
<1>3. QED
  BY <1>1, <1>2 DEF Chiamanti!Aperto

LEMMA AvvioApre ==
    ASSUME Inv, NEW n \in Nets, NEW g \in Giri, Avvii(n, g)
    PROVE  Chiamanti!Apre(n, g)
<1>1. /\ giri[n] = NoGiro
      /\ stato[g] = "fuori"
      /\ giri' = [giri EXCEPT ![n] = g]
      /\ stato' \in {[stato EXCEPT ![g] = "sonda"], [stato EXCEPT ![g] = "profilo"]}
      /\ UNCHANGED <<esito, segnali, appesi, allarmati>>
  BY DEF Avvii, DiscoverNetwork, AvviaProfilo, GiroSconosciuti, Parte, alarmVars
<1>2. ~Chiamanti!Aperto(g)
  BY <1>1 DEF Inv, LucchettoFinoAllaFine, Attivi, Chiamanti!Aperto
<1>3. ~Chiamanti!Chiuso(g)
  BY <1>1 DEF EsitoDiDone, Chiamanti!Chiuso
<1>4. EsitoDiDone' = EsitoDiDone
  BY <1>1 DEF EsitoDiDone, Inv, TypeOK
<1>5. QED
  BY <1>1, <1>2, <1>3, <1>4 DEF Chiamanti!Apre

LEMMA CorpoTace ==
    ASSUME Inv, NEW g \in Giri,
           InCoda(g) \/ \E x \in Esiti : ChiudeCon(g, x)
    PROVE  UNCHANGED VistaDeiChiamanti
<1>1. UNCHANGED <<giri, segnali, appesi, allarmati>>
  BY DEF InCoda, ChiudeCon, Finisce, alarmVars
<1>2. \A h \in Giri : EsitoDiDone'[h] = EsitoDiDone[h]
  BY DEF InCoda, ChiudeCon, Finisce,
     EsitoDiDone, Inv, TypeOK, Attivo, InCorso, Attivi
<1>3. EsitoDiDone' = EsitoDiDone
  BY <1>2 DEF EsitoDiDone
<1>4. QED
  BY <1>1, <1>3 DEF VistaDeiChiamanti

LEMMA RilascioChiude ==
    ASSUME Inv, NEW g \in Giri, Rilascia(g)
    PROVE  \E x \in Chiamanti!Esiti \ {"nessuno"} : Chiamanti!Chiude(g, x)
<1>1. Chiamanti!Aperto(g)
  BY InCorsoAperto DEF Rilascia
<1>2. g \notin appesi
  BY DEF Inv, AppesoInCorso, InCorso, Attivi, Rilascia
<1>3. /\ esito[g] \in Chiamanti!Esiti \ {"nessuno"}
      /\ esito[g] = "fermato" => g \in segnali
  BY DEF Rilascia, Inv, TypeOK, EsitoFondato, Esiti, Chiamanti!Esiti
<1>4. giri' = [n \in Nets |-> IF giri[n] = g THEN NoGiro ELSE giri[n]]
  <2>1. \A n \in Nets : giri[n] = g => n = rete[g]
    BY DEF Inv, LucchettoFinoAllaFine
  <2>2. QED
    BY <2>1 DEF Rilascia, Rilasciata
<1>5. EsitoDiDone' = [EsitoDiDone EXCEPT ![g] = esito[g]]
  BY DEF Rilascia, EsitoDiDone, Inv, TypeOK
<1>6. Chiamanti!Chiude(g, esito[g])
  BY <1>1, <1>2, <1>3, <1>4, <1>5 DEF Chiamanti!Chiude, Rilascia
<1>7. QED
  BY <1>3, <1>6

LEMMA DimenticaDimentica ==
    ASSUME Inv, NEW g \in Giri, DimenticaGiro(g)
    PROVE  Chiamanti!Dimentica(g)
<1>1. EsitoDiDone[g] # "nessuno"
  BY DEF DimenticaGiro, EsitoDiDone, Inv, EsitoFondato
<1>2. EsitoDiDone' = [EsitoDiDone EXCEPT ![g] = "nessuno"]
  BY DEF DimenticaGiro, EsitoDiDone, Inv, TypeOK
<1>3. QED
  BY <1>1, <1>2 DEF Chiamanti!Dimentica, Chiamanti!Chiuso, DimenticaGiro

\* The alarm, by whoever writes it, is about a round that holds a network.
LEMMA AllarmeAvvisa ==
    ASSUME Inv, NEW n \in Nets, giri[n] # NoGiro,
           ScriviAllarme(giri[n]) \/ UNCHANGED alarmVars,
           UNCHANGED <<giri, stato, esito, segnali, appesi>>
    PROVE  \/ UNCHANGED VistaDeiChiamanti
           \/ \E g \in Giri : Chiamanti!Avvisa(g)
<1>1. EsitoDiDone' = EsitoDiDone
  BY DEF EsitoDiDone
<1>2. CASE UNCHANGED alarmVars
  BY <1>1, <1>2 DEF VistaDeiChiamanti, alarmVars
<1>3. CASE ScriviAllarme(giri[n])
  <2>1. giri[n] \in Giri /\ Chiamanti!Aperto(giri[n])
    BY DEF Inv, TypeOK, Chiamanti!Aperto
  <2>2. allarmati' = allarmati \union {giri[n]}
    BY <1>3 DEF ScriviAllarme, alarmVars
  <2>3. Chiamanti!Avvisa(giri[n])
    BY <1>1, <2>1, <2>2 DEF Chiamanti!Avvisa
  <2>4. QED
    BY <2>1, <2>3
<1>4. QED
  BY <1>2, <1>3

LEMMA PassiMappati ==
    ASSUME Inv, Passi
    PROVE  [Chiamanti!RoundsNext]_VistaDeiChiamanti
<1>1. ASSUME NEW n \in Nets, RifiutoPrendiRete(n)
      PROVE [Chiamanti!RoundsNext]_VistaDeiChiamanti
  BY <1>1, AllarmeAvvisa DEF RifiutoPrendiRete, lockVars, Chiamanti!RoundsNext
<1>2. ASSUME NEW n \in Nets, NEW g \in Giri, SegnalaGiroLungo(n, g)
      PROVE [Chiamanti!RoundsNext]_VistaDeiChiamanti
  <2>1. CASE giri[n] = g
    BY <1>2, <2>1, AllarmeAvvisa, RoundsAssumption
       DEF SegnalaGiroLungo, lockVars, Chiamanti!RoundsNext
  <2>2. CASE giri[n] # g
    BY <1>2, <2>2
       DEF SegnalaGiroLungo, lockVars, alarmVars, VistaDeiChiamanti, EsitoDiDone
  <2>3. QED
    BY <2>1, <2>2
<1>3. ASSUME NEW g \in Giri, FermaGiro(g)
      PROVE [Chiamanti!RoundsNext]_VistaDeiChiamanti
  <2>1. Chiamanti!Aperto(g)
    BY <1>3, InCorsoAperto DEF FermaGiro, InCorso
  <2>2. Chiamanti!Segnala(g)
    BY <1>3, <2>1 DEF FermaGiro, Chiamanti!Segnala, EsitoDiDone, alarmVars
  <2>3. QED
    BY <2>2 DEF Chiamanti!RoundsNext
<1>4. ASSUME NEW g \in Giri, SiAppende(g)
      PROVE [Chiamanti!RoundsNext]_VistaDeiChiamanti
  <2>1. Chiamanti!Aperto(g)
    BY <1>4, InCorsoAperto DEF SiAppende, InCorso
  <2>2. Chiamanti!Appende(g)
    BY <1>4, <2>1 DEF SiAppende, Chiamanti!Appende, EsitoDiDone, lockVars, alarmVars
  <2>3. QED
    BY <2>2 DEF Chiamanti!RoundsNext
<1>5. ASSUME NEW g \in Giri, DiventaLungo(g)
      PROVE UNCHANGED VistaDeiChiamanti
  BY <1>5 DEF DiventaLungo, lockVars, alarmVars, VistaDeiChiamanti, EsitoDiDone
<1>6. QED
  BY <1>1, <1>2, <1>3, <1>4, <1>5 DEF Passi, Ambiente

LEMMA RiavvioCrolla ==
    ASSUME Riavvio
    PROVE  Chiamanti!Crollo
<1>1. EsitoDiDone' = [g \in Giri |-> "nessuno"]
  BY DEF Riavvio, EsitoDiDone
<1>2. QED
  BY <1>1 DEF Riavvio, Chiamanti!Crollo

LEMMA PassoMappato ==
    ASSUME Inv, [Next]_roundVars
    PROVE  [Chiamanti!RoundsNext]_VistaDeiChiamanti
<1>1. CASE Passi
  BY <1>1, PassiMappati
<1>2. ASSUME NEW n \in Nets, NEW g \in Giri, Avvii(n, g)
      PROVE Chiamanti!RoundsNext
  BY <1>2, AvvioApre DEF Chiamanti!RoundsNext
<1>3. ASSUME NEW g \in Giri, InCoda(g) \/ \E x \in Esiti : ChiudeCon(g, x)
      PROVE UNCHANGED VistaDeiChiamanti
  BY <1>3, CorpoTace
<1>4. ASSUME NEW g \in Giri, Rilascia(g)
      PROVE Chiamanti!RoundsNext
  BY <1>4, RilascioChiude DEF Chiamanti!RoundsNext
<1>5. ASSUME NEW g \in Giri, DimenticaGiro(g)
      PROVE Chiamanti!RoundsNext
  BY <1>5, DimenticaDimentica DEF Chiamanti!RoundsNext
<1>6. CASE Riavvio
  BY <1>6, RiavvioCrolla DEF Chiamanti!RoundsNext
<1>7. CASE UNCHANGED roundVars
  BY <1>7 DEF roundVars, VistaDeiChiamanti, EsitoDiDone
<1>8. QED
  BY CasiConEsito, <1>1, <1>2, <1>3, <1>4, <1>5, <1>6, <1>7

\* A job or a sequence that awaits `done` of a round (jobs.ts, sequenze.ts) sees
\* an outcome exactly when its network is free again, and «fermato» only after a
\* stop: the rounds of the code behave as NetworkRounds.
THEOREM RaffinamentoDeiChiamanti == SafeSpec => ImplementaGiriDiRete
<1>1. Init => Chiamanti!RoundsInit
  BY DEF Init, Chiamanti!RoundsInit, EsitoDiDone
<1>2. Init => Inv
  BY TipoIniziale, HaUnaReteIniziale, LucchettoIniziale, EsitoIniziale
     DEF Init, Inv, AppesoInCorso
<1>3. Inv /\ [Next]_roundVars => Inv'
  BY TipoPasso, HaUnaRetePasso, LucchettoPasso, AppesoPasso, EsitoPasso DEF Inv
<1>4. Inv /\ [Next]_roundVars => [Chiamanti!RoundsNext]_VistaDeiChiamanti
  BY PassoMappato
<1>5. QED
  BY <1>1, <1>2, <1>3, <1>4, PTL
     DEF SafeSpec, ImplementaGiriDiRete, Chiamanti!RoundsSpec,
         Chiamanti!roundVars, VistaDeiChiamanti
=============================================================================
