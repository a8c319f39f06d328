----------------------------- MODULE OutageProofs -----------------------------
(*****************************************************************************)
(* What the appliance says is down.  OfflineGuard, for every set of hosts and *)
(* every threshold: who is seen alive is not turned off, a round decides     *)
(* inside its perimeter only, a fall is applied to who was missed twice, and *)
(* nobody is held for ever; whether a pass is over the threshold (Trattiene) *)
(* is left as it is, so the theorems hold whatever the threshold says.       *)
(* SchedulerHealth, for every set of jobs and every interval: the row and    *)
(* what was received agree but for a refused notice or a crash between a     *)
(* notice and its record, and no repetition comes early; what a job's age    *)
(* says of the verdict (Fermi, Cardinality) is not looked into: the round is *)
(* right whatever verdict it is given.                                       *)
(*****************************************************************************)
EXTENDS OfflineGuard, SchedulerHealth, TLAPS

\* The ways in which a round ends, and everything else.
FineDelGiro == PassaggioOffline \/ PassaggioInterrotto \/ Finisce

NelGiro ==
    \/ \E P \in SUBSET Hosts : Comincia(P)
    \/ \E h \in Hosts : Risponde(h) \/ Scrive(h) \/ ScritturaFallita(h)

FuoriDalGiro ==
    \/ \E h \in Hosts : BattitoVivo(h) \/ BattitoMuto(h)
    \/ Secondo
    \/ CambiaModo

LEMMA CasiDiNext ==
    ASSUME NextGuard
    PROVE  FineDelGiro \/ NelGiro \/ FuoriDalGiro
BY DEF NextGuard, FineDelGiro, NelGiro, FuoriDalGiro

\* Facts on the decision of the pass, whatever the threshold.
LEMMA Decisione ==
    /\ Candidati \subseteq scansione.perimetro
    /\ Candidati \intersect recenti = {}
    /\ DaApplicare \subseteq Candidati
    /\ Trattiene => DaApplicare = Candidati \intersect sospesi
    /\ ~Trattiene => DaApplicare = Candidati
BY DEF Candidati, DaApplicare

-----------------------------------------------------------------------------
(* Type correctness                                                        *)

LEMMA TipoIniziale == InitGuard => TypeOKGuard
BY DEF InitGuard, TypeOKGuard, Stati, NessunaScansione

LEMMA TipoPasso == TypeOKGuard /\ [NextGuard]_varsGuard => TypeOKGuard'
<1> SUFFICES ASSUME TypeOKGuard, [NextGuard]_varsGuard PROVE TypeOKGuard'
  OBVIOUS
<1> USE DEF TypeOKGuard, Stati, NessunaScansione
<1>1. CASE PassaggioOffline
  <2>1. stato' \in [Hosts -> Stati]
    BY <1>1 DEF PassaggioOffline, MandaOffline
  <2>2. sospesi' \subseteq Hosts /\ persi' \subseteq Hosts
    BY <1>1, Decisione DEF PassaggioOffline, NuovoInSospeso
  <2>3. silenzi' \in [Hosts -> 0..2]
    BY <1>1 DEF PassaggioOffline
  <2>4. QED
    BY <1>1, <2>1, <2>2, <2>3 DEF PassaggioOffline
<1>2. CASE PassaggioInterrotto
  BY <1>2 DEF PassaggioInterrotto, MandaOffline
<1>3. CASE Finisce
  BY <1>3 DEF Finisce
<1>4. ASSUME NEW P \in SUBSET Hosts, Comincia(P) PROVE TypeOKGuard'
  BY <1>4 DEF Comincia
<1>5. ASSUME NEW h \in Hosts, Risponde(h) PROVE TypeOKGuard'
  <2>1. scansione' = [scansione EXCEPT !.vivi = @ \union {h}, !.daScrivere = @ \union {h}]
    BY <1>5 DEF Risponde
  <2>2. /\ scansione' = [pc |-> scansione.pc, perimetro |-> scansione.perimetro,
                    vivi |-> scansione.vivi \union {h},
                    daScrivere |-> scansione.daScrivere \union {h}]
        /\ h \in scansione.perimetro
    BY <1>5, <2>1 DEF Risponde
  <2>3. /\ scansione'.daScrivere \subseteq scansione'.vivi
        /\ scansione'.vivi \subseteq scansione'.perimetro
    BY <2>2
  <2>4. QED
    BY <1>5, <2>2, <2>3 DEF Risponde
<1>6. ASSUME NEW h \in Hosts, Scrive(h) PROVE TypeOKGuard'
  BY <1>6 DEF Scrive, VistoVivo
<1>7. ASSUME NEW h \in Hosts, ScritturaFallita(h) PROVE TypeOKGuard'
  BY <1>7 DEF ScritturaFallita
<1>8. ASSUME NEW h \in Hosts, BattitoVivo(h) PROVE TypeOKGuard'
  BY <1>8 DEF BattitoVivo, VistoVivo
<1>9. CASE FuoriDalGiro /\ ~\E h \in Hosts : BattitoVivo(h)
  BY <1>9 DEF FuoriDalGiro, BattitoMuto, Secondo, CambiaModo
<1>10. CASE UNCHANGED varsGuard
  BY <1>10 DEF varsGuard
<1>11. QED
  BY CasiDiNext, <1>1, <1>2, <1>3, <1>4, <1>5, <1>6, <1>7, <1>8, <1>9, <1>10
     DEF FineDelGiro, NelGiro, FuoriDalGiro

\* Every variable keeps its type, and an answer that is not written yet is one
\* of a host of the perimeter that answered (discovery.ts, offline-guard.ts).
THEOREM TypeCorrect == SpecGuard => []TypeOKGuard
BY TipoIniziale, TipoPasso, PTL DEF SpecGuard

-----------------------------------------------------------------------------
(* The end of a round                                                      *)

\* Only an ending of a round is a Passa; it turns off at most DaApplicare.
LEMMA SoloLaFinePassa ==
    ASSUME TypeOKGuard, [NextGuard]_varsGuard, Passa
    PROVE  /\ FineDelGiro
           /\ Spenti \subseteq DaApplicare
           /\ sospesi' \in {sospesi, NuovoInSospeso}
<1> USE DEF Passa
<1>1. FineDelGiro
  <2>1. NelGiro => scansione'.pc = "giro"
    BY DEF NelGiro, Comincia, Risponde, Scrive, ScritturaFallita, TypeOKGuard
  <2>2. FuoriDalGiro \/ UNCHANGED varsGuard => scansione' = scansione
    BY DEF FuoriDalGiro, BattitoVivo, BattitoMuto, Secondo, CambiaModo, varsGuard
  <2>3. QED
    BY <2>1, <2>2, CasiDiNext
<1>2. Spenti \subseteq DaApplicare
  BY <1>1 DEF FineDelGiro, PassaggioOffline, PassaggioInterrotto, Finisce,
     MandaOffline, Spenti
<1>3. sospesi' \in {sospesi, NuovoInSospeso}
  BY <1>1 DEF FineDelGiro, PassaggioOffline, PassaggioInterrotto, Finisce
<1>4. QED
  BY <1>1, <1>2, <1>3

\* The end of a round turns off nobody who was seen alive since it began, also
\* by the check of the known hosts, which takes no lock (WHERE_OFFLINE, T3-20).
THEOREM VistoNonSpento == SpecGuard => VistoDopoNonSiSpegne
<1>1. TypeOKGuard /\ [NextGuard]_varsGuard
        => [Passa => Spenti \intersect recenti = {}]_varsGuard
  BY SoloLaFinePassa, Decisione
<1>2. QED
  BY <1>1, TypeCorrect, PTL DEF SpecGuard, VistoDopoNonSiSpegne

\* A round leaves status and pending mark of every host outside of its
\* perimeter alone (decidiPassaggioOffline, revision 3b).
THEOREM PerimetroRispettato == SpecGuard => FuoriPerimetroIntatto
<1> DEFINE Dentro ==
      Passa => /\ Spenti \subseteq scansione.perimetro
               /\ sospesi' \ scansione.perimetro = sospesi \ scansione.perimetro
<1>1. TypeOKGuard /\ [NextGuard]_varsGuard => [Dentro]_varsGuard
  <2> SUFFICES ASSUME TypeOKGuard, [NextGuard]_varsGuard, Passa
               PROVE  /\ Spenti \subseteq scansione.perimetro
                      /\ sospesi' \ scansione.perimetro = sospesi \ scansione.perimetro
    OBVIOUS
  <2>1. Spenti \subseteq scansione.perimetro
    BY SoloLaFinePassa, Decisione
  <2>2. NuovoInSospeso \ scansione.perimetro = sospesi \ scansione.perimetro
    BY Decisione DEF NuovoInSospeso
  <2>3. QED
    BY <2>1, <2>2, SoloLaFinePassa
<1>2. QED
  BY <1>1, TypeCorrect, PTL DEF SpecGuard, FuoriPerimetroIntatto

-----------------------------------------------------------------------------
(* The second silence                                                      *)

\* What the pending set remembers: only hosts that the last pass that looked at
\* them missed, and all those that were missed once and are still on.
Memoria ==
    /\ sospesi \subseteq persi
    /\ \A h \in Hosts : silenzi[h] = 1 /\ stato[h] # "offline" => h \in sospesi

\* Stated together, because each needs the other at the second silence.
InvSilenzi == TypeOKGuard /\ Memoria /\ DueSilenziSpengono

LEMMA SilenziIniziali == InitGuard => InvSilenzi
BY TipoIniziale DEF InitGuard, InvSilenzi, Memoria, DueSilenziSpengono

LEMMA SilenziPasso == InvSilenzi /\ [NextGuard]_varsGuard => InvSilenzi'
<1> SUFFICES ASSUME InvSilenzi, [NextGuard]_varsGuard
             PROVE Memoria' /\ DueSilenziSpengono'
  BY TipoPasso DEF InvSilenzi
<1> USE DEF InvSilenzi, TypeOKGuard, Memoria, DueSilenziSpengono, Stati
<1>1. CASE PassaggioOffline
  <2>1. sospesi' \subseteq persi'
    BY <1>1, Decisione DEF PassaggioOffline, NuovoInSospeso
  <2>2. ASSUME NEW h \in Hosts, h \notin scansione.perimetro
        PROVE  /\ silenzi'[h] = silenzi[h]
               /\ stato'[h] = stato[h]
               /\ h \in sospesi' <=> h \in sospesi
    BY <1>1, <2>2, Decisione DEF PassaggioOffline, NuovoInSospeso, MandaOffline
  <2>3. ASSUME NEW h \in Hosts, h \in scansione.perimetro, h \notin Candidati
        PROVE  silenzi'[h] = 0
    BY <1>1, <2>3 DEF PassaggioOffline
  \* A first silence is held back or turned off at once.
  <2>4. ASSUME NEW h \in Hosts, h \in Candidati
        PROVE  stato'[h] = "offline" \/ (h \in sospesi' /\ silenzi'[h] = 1)
    <3>1. CASE h \in DaApplicare
      BY <1>1, <3>1 DEF PassaggioOffline, MandaOffline
    <3>2. CASE h \notin DaApplicare
      <4>1. Trattiene /\ h \notin sospesi
        BY <2>4, <3>2, Decisione
      <4>2. stato[h] # "offline"
        BY <2>4 DEF Candidati
      <4>3. silenzi[h] = 0
        BY <4>1, <4>2
      <4>4. h \in scansione.perimetro
        BY <2>4, Decisione
      <4>5. QED
        BY <1>1, <2>4, <4>1, <4>3, <4>4 DEF PassaggioOffline, NuovoInSospeso
    <3>3. QED
      BY <3>1, <3>2
  <2>5. QED
    BY <2>1, <2>2, <2>3, <2>4
<1>2. CASE PassaggioInterrotto
  BY <1>2 DEF PassaggioInterrotto, MandaOffline
<1>3. CASE Finisce
  BY <1>3 DEF Finisce
<1>4. CASE NelGiro
  <2>1. ASSUME NEW h \in Hosts, Scrive(h)
        PROVE  Memoria' /\ DueSilenziSpengono'
    BY <2>1 DEF Scrive, VistoVivo
  <2>2. ASSUME UNCHANGED <<stato, sospesi, persi, silenzi>>
        PROVE  Memoria' /\ DueSilenziSpengono'
    BY <2>2
  <2>3. QED
    BY <1>4, <2>1, <2>2 DEF NelGiro, Comincia, Risponde, ScritturaFallita
<1>5. CASE FuoriDalGiro
  BY <1>5 DEF FuoriDalGiro, BattitoVivo, BattitoMuto, Secondo, CambiaModo, VistoVivo
<1>6. CASE UNCHANGED varsGuard
  BY <1>6 DEF varsGuard
<1>7. QED
  BY CasiDiNext, <1>1, <1>2, <1>3, <1>4, <1>5, <1>6 DEF FineDelGiro

\* The threshold delays, and never forgives: a host missed by two passes that
\* looked at it, and seen by nobody in between, is off, whatever the threshold,
\* the mode, other rounds and other hosts did.
THEOREM SecondoSilenzio == SpecGuard => []DueSilenziSpengono
<1>1. InvSilenzi => DueSilenziSpengono
  BY DEF InvSilenzi
<1>2. QED
  BY <1>1, SilenziIniziali, SilenziPasso, PTL DEF SpecGuard

\* A fall over the threshold turns off only hosts that the pass before, of those
\* that looked at them, missed as well (ADR 0006, decision 5).
THEOREM CaloConfermato == SpecGuard => CaloSpentoSoloConfermato
<1>1. InvSilenzi /\ [NextGuard]_varsGuard
        => [Passa /\ Trattiene => Spenti \subseteq persi]_varsGuard
  BY SoloLaFinePassa, Decisione DEF InvSilenzi, Memoria
<1>2. QED
  BY <1>1, SilenziIniziali, SilenziPasso, PTL DEF SpecGuard, CaloSpentoSoloConfermato

-----------------------------------------------------------------------------
(* SchedulerHealth                                                           *)

\* The facts that do not talk about jobs.
DelGiro ==
    /\ ChiRiceveSa
    /\ giro.pc # "fermo" => ~scatto
    /\ giro.pc = "salva" /\ giro.accettato =>
          saputo = [verdetto |-> giro.verdetto, eta |-> 0]
    /\ giro.pc = "salva" /\ ~giro.accettato /\ taciuto = "niente" /\ ~perduto =>
          saputo.verdetto = DellaRiga
    /\ giro.pc # "fermo" /\ giro.motivo = "ripetizione" => riga.avviso = RipetiDopo
    /\ riga.avviso # Mai /\ ~perduto /\ ~(giro.pc = "salva" /\ giro.accettato) =>
          saputo.eta = riga.avviso

\* The facts that talk about jobs, and the types of the rest.
DeiJob ==
    /\ eta \in [Job -> Nat] /\ \A j \in Job : eta[j] <= Tolleranza[j] + 1
    /\ attivo \in [Job -> BOOLEAN]
    /\ serie \in [Job -> 0..Soglia]
    /\ allarme \in [Job -> 0..AllarmeOgni]
    /\ perso \in BOOLEAN
    /\ AllarmeDiUnaSerie

TipiDelGiro ==
    /\ acceso \in BOOLEAN /\ scatto \in BOOLEAN
    /\ riga \in [verdetto : Verdetti \union {"assente"}, avviso : 0..Mai]
    /\ giro \in [pc : {"fermo", "invia", "salva"}, verdetto : Verdetti,
                 motivo : {"nessuna", "transizione", "ripetizione", "rientro"},
                 accettato : BOOLEAN]
    /\ saputo \in [verdetto : Verdetti, eta : 0..RipetiDopo]
    /\ taciuto \in Verdetti \union {"niente"}
    /\ perduto \in BOOLEAN

LEMMA TipiDaParti == TypeOK /\ AllarmeDiUnaSerie <=> DeiJob /\ TipiDelGiro
BY DEF TypeOK, DeiJob, TipiDelGiro

LEMMA JobFermi == ASSUME DeiJob, UNCHANGED delJob PROVE DeiJob'
BY DEF DeiJob, AllarmeDiUnaSerie, delJob

LEMMA InvDaParti == HealthInv <=> TypeOK /\ AllarmeDiUnaSerie /\ DelGiro
BY DEF HealthInv, DelGiro

LEMMA Vecchiaia ==
    ASSUME NEW n \in Nat, NEW limite \in Nat, n <= limite
    PROVE  /\ Invecchia(n, limite) \in 0..limite
           /\ n <= Invecchia(n, limite)
BY DEF Invecchia

LEMMA VerdettoGiusto == Verdetto \in Verdetti
BY DEF Verdetto, Verdetti, Guasti

LEMMA Inizio == Init => HealthInv
<1> SUFFICES ASSUME Init PROVE HealthInv
  OBVIOUS
<1>1. /\ riga = [verdetto |-> "assente", avviso |-> RipetiDopo + 1]
      /\ giro = [pc |-> "fermo", verdetto |-> "ok", motivo |-> "nessuna", accettato |-> FALSE]
      /\ saputo = [verdetto |-> "ok", eta |-> RipetiDopo]
  BY DEF Init, Fermo, Mai
<1>2. TypeOK /\ AllarmeDiUnaSerie
  <2>1. DeiJob
    <3>1. /\ eta \in [Job -> Nat] /\ \A j \in Job : eta[j] <= Tolleranza[j] + 1
          /\ serie \in [Job -> 0..Soglia] /\ allarme \in [Job -> 0..AllarmeOgni]
      BY HealthAssumption DEF Init
    <3>2. attivo \in [Job -> BOOLEAN] /\ perso \in BOOLEAN
      BY DEF Init
    <3>3. AllarmeDiUnaSerie
      BY HealthAssumption DEF Init, AllarmeDiUnaSerie
    <3> QED
      BY <3>1, <3>2, <3>3 DEF DeiJob
  <2>2. TipiDelGiro
    <3>1. riga \in [verdetto : Verdetti \union {"assente"}, avviso : 0..Mai]
      BY <1>1, HealthAssumption DEF Verdetti, Guasti, Mai
    <3>2. giro \in [pc : {"fermo", "invia", "salva"}, verdetto : Verdetti,
                    motivo : {"nessuna", "transizione", "ripetizione", "rientro"},
                    accettato : BOOLEAN]
      BY <1>1 DEF Verdetti, Guasti
    <3>3. saputo \in [verdetto : Verdetti, eta : 0..RipetiDopo]
      BY <1>1, HealthAssumption DEF Verdetti, Guasti
    <3>4. /\ acceso \in BOOLEAN /\ scatto \in BOOLEAN
          /\ taciuto \in Verdetti \union {"niente"} /\ perduto \in BOOLEAN
      BY DEF Init
    <3> QED
      BY <3>1, <3>2, <3>3, <3>4 DEF TipiDelGiro
  <2> QED
    BY <2>1, <2>2, TipiDaParti
<1>3. DelGiro
  BY <1>1, HealthAssumption DEF Init, DelGiro, ChiRiceveSa, DellaRiga, Mai
<1> QED
  BY <1>2, <1>3, InvDaParti

-----------------------------------------------------------------------------
(* The steps of the jobs                                                   *)

DiUnJob == \E j \in Job : Riesce(j) \/ Fallisce(j) \/ EseguiOra(j) \/ Abilita(j)

LEMMA PassoDeiJob ==
    ASSUME HealthInv, DiUnJob \/ PerdeIlContesto
    PROVE  HealthInv'
<1>1. UNCHANGED <<acceso, scatto, riga, giro, detto>>
  BY DEF DiUnJob, PerdeIlContesto, Riesce, Fallisce, EseguiOra, Abilita
<1>2. DelGiro'
  BY <1>1, InvDaParti DEF DelGiro, ChiRiceveSa, DellaRiga, detto
<1>3. /\ eta' \in [Job -> Nat] /\ \A j \in Job : eta'[j] <= Tolleranza[j] + 1
      /\ attivo' \in [Job -> BOOLEAN]
      /\ serie' \in [Job -> 0..Soglia]
      /\ allarme' \in [Job -> 0..AllarmeOgni]
      /\ perso' \in BOOLEAN
      /\ AllarmeDiUnaSerie'
  <2> USE HealthAssumption DEF HealthInv, TypeOK, AllarmeDiUnaSerie
  <2>1. ASSUME NEW j \in Job, Riesce(j) PROVE <1>3!:
    BY <2>1 DEF Riesce
  <2>2. ASSUME NEW j \in Job, Fallisce(j) PROVE <1>3!:
    BY <2>2 DEF Fallisce, Invecchia
  <2>3. ASSUME NEW j \in Job, EseguiOra(j) PROVE <1>3!:
    BY <2>3 DEF EseguiOra
  <2>4. ASSUME NEW j \in Job, Abilita(j) PROVE <1>3!:
    BY <2>4 DEF Abilita
  <2>5. CASE PerdeIlContesto
    BY <2>5 DEF PerdeIlContesto
  <2> QED
    BY <2>1, <2>2, <2>3, <2>4, <2>5 DEF DiUnJob
<1>4. TypeOK'
  BY <1>1, <1>3 DEF HealthInv, TypeOK, detto
<1> QED
  BY <1>2, <1>3, <1>4, InvDaParti DEF HealthInv, DelGiro

-----------------------------------------------------------------------------
(* The steps of the round                                                  *)

LEMMA PassoScatta == ASSUME HealthInv, Scatta PROVE HealthInv'
<1> USE HealthAssumption DEF HealthInv, TypeOK, Mai
<1>1. /\ eta' \in [Job -> Nat] /\ \A j \in Job : eta'[j] <= Tolleranza[j] + 1
      /\ allarme' \in [Job -> 0..AllarmeOgni]
      /\ \A j \in Job : allarme[j] <= allarme'[j]
  BY DEF Scatta, Invecchia
<1>2. AllarmeDiUnaSerie'
  BY <1>1 DEF AllarmeDiUnaSerie, Scatta
<1>3. /\ riga' = [verdetto |-> riga.verdetto,
                  avviso |-> IF riga.avviso = Mai THEN Mai
                             ELSE Invecchia(riga.avviso, RipetiDopo)]
      /\ saputo' = [verdetto |-> saputo.verdetto, eta |-> Invecchia(saputo.eta, RipetiDopo)]
      /\ giro' = giro /\ giro.pc = "fermo"
      /\ scatto' = TRUE
      /\ UNCHANGED <<attivo, serie, perso, acceso, taciuto, perduto>>
  BY DEF Scatta
<1>4. /\ riga'.avviso \in 0..Mai
      /\ saputo'.eta \in 0..RipetiDopo
      /\ riga'.avviso # Mai <=> riga.avviso # Mai
      /\ riga'.avviso # Mai => saputo'.eta <= riga'.avviso
      /\ riga.avviso # Mai /\ saputo.eta = riga.avviso => saputo'.eta = riga'.avviso
  BY <1>3 DEF Invecchia, ChiRiceveSa
<1>5. ChiRiceveSa'
  BY <1>3, <1>4 DEF ChiRiceveSa, DellaRiga
<1>6. TypeOK'
  BY <1>1, <1>3, <1>4
<1> QED
  BY <1>2, <1>3, <1>4, <1>5, <1>6

LEMMA TipiDiValuta ==
    ASSUME TypeOK, AllarmeDiUnaSerie, Valuta
    PROVE  TypeOK' /\ AllarmeDiUnaSerie'
<1> DEFINE d == Decidi(riga, Verdetto)
<1>1. DeiJob /\ TipiDelGiro
  BY TipiDaParti
<1>2. /\ d \in {"nessuna", "transizione", "ripetizione", "rientro"}
      /\ Verdetto \in Verdetti
  BY VerdettoGiusto DEF Decidi
<1>3. DeiJob'
  BY <1>1, JobFermi DEF Valuta
<1>4. /\ giro' \in {giro, [pc |-> "invia", verdetto |-> Verdetto, motivo |-> d,
                         accettato |-> FALSE]}
      /\ riga' \in {riga, [riga EXCEPT !.verdetto = Verdetto]}
      /\ scatto' = FALSE /\ UNCHANGED <<acceso, detto>>
  BY DEF Valuta
<1>5. TipiDelGiro'
  <2> HIDE DEF d
  <2>1. giro' \in [pc : {"fermo", "invia", "salva"}, verdetto : Verdetti,
                      motivo : {"nessuna", "transizione", "ripetizione", "rientro"},
                      accettato : BOOLEAN]
    <3>1. [pc |-> "invia", verdetto |-> Verdetto, motivo |-> d, accettato |-> FALSE] \in
             [pc : {"fermo", "invia", "salva"}, verdetto : Verdetti,
              motivo : {"nessuna", "transizione", "ripetizione", "rientro"},
              accettato : BOOLEAN]
      BY <1>2
    <3> QED
      BY <1>1, <1>4, <3>1 DEF TipiDelGiro
  <2>2. riga' \in [verdetto : Verdetti \union {"assente"}, avviso : 0..Mai]
    BY <1>1, <1>2, <1>4 DEF TipiDelGiro
  <2> QED
    BY <1>1, <1>4, <2>1, <2>2 DEF TipiDelGiro, detto
<1> QED
  BY <1>3, <1>5 DEF TypeOK, DeiJob, TipiDelGiro

LEMMA TipiDiRiavvio ==
    ASSUME TypeOK, AllarmeDiUnaSerie, Riavvio
    PROVE  TypeOK' /\ AllarmeDiUnaSerie'
<1>1. DeiJob /\ TipiDelGiro
  BY TipiDaParti
<1>2. DeiJob'
  <2>1. /\ eta' \in [Job -> Nat] /\ \A j \in Job : eta'[j] <= Tolleranza[j] + 1
        /\ serie' \in [Job -> 0..Soglia] /\ allarme' \in [Job -> 0..AllarmeOgni]
    BY <1>1, HealthAssumption DEF Riavvio, DeiJob
  <2>2. attivo' \in [Job -> BOOLEAN] /\ perso' \in BOOLEAN
    BY <1>1 DEF Riavvio, DeiJob
  <2>3. AllarmeDiUnaSerie'
    BY HealthAssumption DEF Riavvio, AllarmeDiUnaSerie
  <2> QED
    BY <2>1, <2>2, <2>3 DEF DeiJob
<1>3. TipiDelGiro'
  <2>1. giro' \in [pc : {"fermo", "invia", "salva"}, verdetto : Verdetti,
                   motivo : {"nessuna", "transizione", "ripetizione", "rientro"},
                   accettato : BOOLEAN]
    BY DEF Riavvio, Fermo, Verdetti, Guasti
  <2>2. scatto' \in BOOLEAN /\ perduto' \in BOOLEAN
    BY DEF Riavvio
  <2>3. UNCHANGED <<acceso, riga, saputo, taciuto>>
    BY DEF Riavvio
  <2> QED
    BY <1>1, <2>1, <2>2, <2>3 DEF TipiDelGiro
<1> QED
  BY <1>2, <1>3 DEF TypeOK, DeiJob, TipiDelGiro

LEMMA PassoValuta == ASSUME HealthInv, Valuta PROVE HealthInv'
<1> USE HealthAssumption DEF HealthInv, TypeOK, Mai, Verdetti, Guasti
<1> DEFINE d == Decidi(riga, Verdetto)
<1>1. /\ d \in {"nessuna", "transizione", "ripetizione", "rientro"}
      /\ d = "ripetizione" => riga.avviso = RipetiDopo
      /\ d = "nessuna" => Verdetto = DellaRiga
  BY VerdettoGiusto DEF Decidi, DellaRiga
<1>2. UNCHANGED <<delJob, acceso, detto>> /\ ~scatto' /\ giro.pc = "fermo"
  BY DEF Valuta
<1>3. CASE acceso /\ d # "nessuna"
  <2>1. /\ giro' = [pc |-> "invia", verdetto |-> Verdetto, motivo |-> d, accettato |-> FALSE]
        /\ riga' = riga
    BY <1>3 DEF Valuta
  <2>2. TypeOK' /\ AllarmeDiUnaSerie'
    BY TipiDiValuta
  <2>3. DelGiro'
    BY <1>1, <1>2, <2>1 DEF DelGiro, ChiRiceveSa, DellaRiga, detto
  <2> QED
    BY <2>2, <2>3, InvDaParti DEF DelGiro
<1>4. CASE acceso /\ d = "nessuna"
  <2>1. /\ giro' = giro
        /\ riga' = [verdetto |-> Verdetto, avviso |-> riga.avviso]
    BY <1>4 DEF Valuta
  <2>2. TypeOK' /\ AllarmeDiUnaSerie'
    BY TipiDiValuta
  <2>3. DellaRiga' = DellaRiga
    BY <1>1, <1>4, <2>1, VerdettoGiusto DEF DellaRiga
  <2>4. DelGiro'
    BY <1>2, <2>1, <2>3 DEF DelGiro, ChiRiceveSa, detto
  <2> QED
    BY <2>2, <2>4, InvDaParti DEF DelGiro
<1>5. CASE ~acceso
  <2>1. giro' = giro /\ riga' = riga
    BY <1>5 DEF Valuta
  <2>2. TypeOK' /\ AllarmeDiUnaSerie'
    BY TipiDiValuta
  <2>3. DelGiro'
    BY <1>2, <2>1 DEF DelGiro, ChiRiceveSa, DellaRiga, detto
  <2> QED
    BY <2>2, <2>3, InvDaParti DEF DelGiro
<1> QED
  BY <1>3, <1>4, <1>5

LEMMA PassoSpedisce ==
    ASSUME HealthInv, NEW ok \in BOOLEAN, Spedisce(ok) PROVE HealthInv'
<1> USE HealthAssumption DEF HealthInv, TypeOK, Mai, Verdetti, Guasti
<1>1. /\ giro.pc = "invia"
      /\ giro' = [pc |-> "salva", verdetto |-> giro.verdetto, motivo |-> giro.motivo,
                  accettato |-> ok]
      /\ saputo' = IF ok THEN [verdetto |-> giro.verdetto, eta |-> 0] ELSE saputo
      /\ UNCHANGED <<delJob, acceso, scatto, riga, taciuto, perduto>>
  BY DEF Spedisce
<1>2. TypeOK' /\ AllarmeDiUnaSerie'
  BY <1>1 DEF AllarmeDiUnaSerie, delJob
<1>3. ChiRiceveSa'
  BY <1>1 DEF ChiRiceveSa, DellaRiga
<1>4. CASE ok
  BY <1>1, <1>2, <1>3, <1>4 DEF DellaRiga
<1>5. CASE ~ok
  BY <1>1, <1>2, <1>3, <1>5 DEF DellaRiga, ChiRiceveSa
<1> QED
  BY <1>4, <1>5

LEMMA PassoSalva == ASSUME HealthInv, Salva PROVE HealthInv'
<1> USE HealthAssumption DEF HealthInv, TypeOK, Mai, Verdetti, Guasti
<1>1. /\ giro.pc = "salva"
      /\ riga' = [verdetto |-> giro.verdetto,
                  avviso |-> IF giro.accettato THEN 0 ELSE riga.avviso]
      /\ giro' = Fermo
      /\ taciuto' = IF giro.accettato THEN "niente" ELSE giro.verdetto
      /\ perduto' = (perduto /\ ~giro.accettato)
      /\ UNCHANGED <<delJob, acceso, scatto, saputo>>
  BY DEF Salva
<1>2. CASE giro.accettato
  <2>1. riga' = [verdetto |-> giro.verdetto, avviso |-> 0] /\ ~perduto'
        /\ saputo' = [verdetto |-> giro.verdetto, eta |-> 0] /\ taciuto' = "niente"
    BY <1>1, <1>2
  <2> QED
    BY <1>1, <2>1 DEF Fermo, ChiRiceveSa, DellaRiga, AllarmeDiUnaSerie, delJob
<1>3. CASE ~giro.accettato
  <2>1. riga' = [verdetto |-> giro.verdetto, avviso |-> riga.avviso]
        /\ perduto' = perduto /\ taciuto' = giro.verdetto /\ taciuto' # "niente"
    BY <1>1, <1>3
  <2> QED
    BY <1>1, <1>3, <2>1 DEF Fermo, ChiRiceveSa, DellaRiga, AllarmeDiUnaSerie, delJob
<1> QED
  BY <1>2, <1>3

LEMMA PassoRiavvio == ASSUME HealthInv, Riavvio PROVE HealthInv'
<1> USE HealthAssumption DEF HealthInv, TypeOK, Mai, Verdetti, Guasti
<1>1. /\ giro' = Fermo /\ ~scatto'
      /\ perduto' = (perduto \/ (giro.pc = "salva" /\ giro.accettato))
      /\ UNCHANGED <<eta, attivo, acceso, riga, saputo, taciuto>>
      /\ serie' = [j \in Job |-> 0]
      /\ allarme' = [j \in Job |-> AllarmeOgni]
      /\ perso' = FALSE
  BY DEF Riavvio
<1>2. TypeOK' /\ AllarmeDiUnaSerie'
  BY TipiDiRiavvio
<1>3. ChiRiceveSa'
  BY <1>1 DEF ChiRiceveSa, DellaRiga, Fermo
<1> QED
  BY <1>1, <1>2, <1>3 DEF Fermo

LEMMA Passo == HealthInv /\ [Next]_vars => HealthInv'
<1> SUFFICES ASSUME HealthInv, [Next]_vars PROVE HealthInv'
  OBVIOUS
<1>1. CASE AccendeOSpegne
  BY <1>1 DEF AccendeOSpegne, HealthInv, TypeOK, ChiRiceveSa, DellaRiga,
              AllarmeDiUnaSerie, delJob, detto
<1>2. CASE UNCHANGED vars
  BY <1>2 DEF vars, HealthInv, TypeOK, ChiRiceveSa, DellaRiga, AllarmeDiUnaSerie, detto
<1> QED
  BY <1>1, <1>2, PassoDeiJob, PassoScatta, PassoValuta, PassoSpedisce, PassoSalva,
     PassoRiavvio DEF Next, DiUnJob

-----------------------------------------------------------------------------
(* The theorems                                                            *)

\* The row, the round and what was received agree in every reachable state.
THEOREM InvarianteDellaSalute == SafeSpec => []HealthInv
BY Inizio, Passo, PTL DEF SafeSpec

\* Who receives the notices knows what the row says.
THEOREM ChiRiceveSaSempre == SafeSpec => []ChiRiceveSa
<1>1. HealthInv => ChiRiceveSa
  BY DEF HealthInv
<1> QED
  BY <1>1, InvarianteDellaSalute, PTL

\* No repetition comes before its time, but after a crash that swallowed a record.
THEOREM NessunRumore == SafeSpec => SenzaRumore
<1>1. ASSUME HealthInv
      PROVE  \A ok \in BOOLEAN :
                Spedisce(ok) /\ ok /\ giro.motivo = "ripetizione" =>
                    saputo.eta = RipetiDopo \/ perduto
  BY <1>1, HealthAssumption DEF HealthInv, Spedisce, Mai
<1> QED
  BY <1>1, InvarianteDellaSalute, PTL DEF SafeSpec, SenzaRumore
=============================================================================
