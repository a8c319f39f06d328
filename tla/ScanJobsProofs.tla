---------------------------- MODULE ScanJobsProofs ----------------------------
(***************************************************************************)
(* Proofs about ScanJobs, for any jobs, networks, executions and rounds:   *)
(* the invariant of the executions, what last_run means, and who may skip  *)
(* a network.                                                              *)
(***************************************************************************)
EXTENDS ScanJobs, TLAPS

\* One execution.
Esecuzione ==
    [pc : Passi, job : Jobs \union {NoJob}, cron : BOOLEAN,
     daFare : SUBSET Nets, rimandate : SUBSET Nets, attendi : BOOLEAN,
     rete : Nets \union {NoGiro}, giro : Giri \union {NoGiro},
     occupante : Giri \union {NoGiro}, atteso : Giri \union {NoGiro},
     scaduto : BOOLEAN, fatte : SUBSET Nets,
     saltate : SUBSET Nets, errori : SUBSET Nets, scadute : SUBSET Nets,
     aperti : SUBSET Giri,
     esito : {"nessuno", "eseguito", "saltato", "fallito"},
     timbro : BOOLEAN]

SuRete == {"avvia", "rilegge", "attende", "segue"}

\* The five places a network of the job can be in are a partition of its networks.
Partizione(r) ==
    /\ r.job \in DiScansione
    /\ r.daFare \union r.rimandate \union r.fatte \union r.saltate \union r.errori = Reti[r.job]
    /\ r.daFare \intersect r.rimandate = {}
    /\ (r.daFare \union r.rimandate) \intersect (r.fatte \union r.saltate \union r.errori) = {}
    /\ r.fatte \intersect (r.saltate \union r.errori) = {}
    /\ r.saltate \intersect r.errori = {}

\* The network in hand is of the first pass or, when that is over, of the second,
\* and the wait for it is only of the second pass of the cron; who waits for a
\* round knows which.
Turno(r) ==
    /\ r.rete \in IF r.daFare # {} THEN r.daFare ELSE r.rimandate
    /\ r.attendi <=> r.cron /\ r.daFare = {}
    /\ r.pc \in {"rilegge", "attende"} => r.attendi /\ r.occupante # NoGiro
    /\ r.pc = "segue" => r.giro # NoGiro

\* What is known when runJob has settled.
Esito(r) ==
    r.job \in DiScansione =>
        /\ r.esito = "eseguito" => r.errori = {} /\ r.fatte # {}
        /\ r.esito = "eseguito" \/ r.errori # {} =>
              /\ r.fatte \union r.saltate \union r.errori = Reti[r.job]
              /\ r.fatte \intersect r.saltate = {}
              /\ r.fatte \intersect r.errori = {}
              /\ r.saltate \intersect r.errori = {}

\* What is right of one execution, whatever the rounds do.
Giusta(r) ==
    /\ r.pc \in SuRete \union {"sceglie"} => Partizione(r)
    /\ r.pc \in SuRete => Turno(r)
    /\ r.pc = "lavora" => r.job \notin DiScansione
    /\ r.pc \notin Spente => r.job \in Jobs
    /\ r.pc = "chiude" => Esito(r)
    /\ r.cron => r.saltate \subseteq r.scadute
    /\ r.errori = {} => r.aperti \subseteq (IF r.pc = "segue" THEN {r.giro} ELSE {})
    /\ r.timbro => r.pc = "finita"
    /\ r.timbro /\ r.job \in DiScansione => r.aperti = {} /\ r.fatte # {}

\* The rounds an execution has started and that are in aperti have no outcome yet.
SenzaEsito(r) == \A g \in r.aperti : ~Chiuso(g)

\* The inductive invariant.
IInv ==
    /\ TypeOK
    /\ GuardiaEsatta
    /\ \A e \in Esecuzioni : Giusta(ex[e]) /\ SenzaEsito(ex[e])

-----------------------------------------------------------------------------
(* The networks of a pass                                                  *)

LEMMA CampiTolta ==
    ASSUME NEW r \in Esecuzione
    PROVE  /\ Tolta(r) \in Esecuzione
           /\ Tolta(r).pc = "sceglie" /\ Tolta(r).job = r.job /\ Tolta(r).cron = r.cron
           /\ Tolta(r).daFare = r.daFare \ {r.rete}
           /\ Tolta(r).rimandate = r.rimandate \ {r.rete}
           /\ Tolta(r).fatte = r.fatte /\ Tolta(r).saltate = r.saltate
           /\ Tolta(r).errori = r.errori /\ Tolta(r).scadute = r.scadute
           /\ Tolta(r).aperti = r.aperti /\ Tolta(r).timbro = r.timbro
           /\ Tolta(r).giro = NoGiro
BY DEF Tolta, Esecuzione, Passi

LEMMA CampiFatta ==
    ASSUME NEW r \in Esecuzione, r.rete \in Nets
    PROVE  /\ Fatta(r) \in Esecuzione
           /\ Fatta(r).pc = "sceglie" /\ Fatta(r).job = r.job /\ Fatta(r).cron = r.cron
           /\ Fatta(r).daFare = r.daFare \ {r.rete}
           /\ Fatta(r).rimandate = r.rimandate \ {r.rete}
           /\ Fatta(r).fatte = r.fatte \union {r.rete} /\ Fatta(r).saltate = r.saltate
           /\ Fatta(r).errori = r.errori /\ Fatta(r).scadute = r.scadute
           /\ Fatta(r).aperti = r.aperti /\ Fatta(r).timbro = r.timbro
<1> DEFINE t == Tolta(r)
<1>1. Fatta(r) = [t EXCEPT !.fatte = @ \union {r.rete}]
  BY DEF Fatta
<1>2. t \in Esecuzione
  BY CampiTolta
<1> HIDE DEF t
<1>3. /\ Fatta(r) \in Esecuzione
      /\ Fatta(r).pc = t.pc /\ Fatta(r).job = t.job /\ Fatta(r).cron = t.cron
      /\ Fatta(r).daFare = t.daFare /\ Fatta(r).rimandate = t.rimandate
      /\ Fatta(r).fatte = t.fatte \union {r.rete} /\ Fatta(r).saltate = t.saltate
      /\ Fatta(r).errori = t.errori /\ Fatta(r).scadute = t.scadute
      /\ Fatta(r).aperti = t.aperti /\ Fatta(r).timbro = t.timbro
  BY <1>1, <1>2 DEF Esecuzione
<1> QED
  BY <1>3, CampiTolta DEF t

LEMMA CampiFallita ==
    ASSUME NEW r \in Esecuzione, r.rete \in Nets
    PROVE  /\ Fallita(r) \in Esecuzione
           /\ Fallita(r).pc = "sceglie" /\ Fallita(r).job = r.job /\ Fallita(r).cron = r.cron
           /\ Fallita(r).daFare = r.daFare \ {r.rete}
           /\ Fallita(r).rimandate = r.rimandate \ {r.rete}
           /\ Fallita(r).fatte = r.fatte /\ Fallita(r).saltate = r.saltate
           /\ Fallita(r).errori = r.errori \union {r.rete} /\ Fallita(r).scadute = r.scadute
           /\ Fallita(r).aperti = r.aperti /\ Fallita(r).timbro = r.timbro
<1> DEFINE t == Tolta(r)
<1>1. Fallita(r) = [t EXCEPT !.errori = @ \union {r.rete}]
  BY DEF Fallita
<1>2. t \in Esecuzione
  BY CampiTolta
<1> HIDE DEF t
<1>3. /\ Fallita(r) \in Esecuzione
      /\ Fallita(r).pc = t.pc /\ Fallita(r).job = t.job /\ Fallita(r).cron = t.cron
      /\ Fallita(r).daFare = t.daFare /\ Fallita(r).rimandate = t.rimandate
      /\ Fallita(r).fatte = t.fatte /\ Fallita(r).saltate = t.saltate
      /\ Fallita(r).errori = t.errori \union {r.rete} /\ Fallita(r).scadute = t.scadute
      /\ Fallita(r).aperti = t.aperti /\ Fallita(r).timbro = t.timbro
  BY <1>1, <1>2 DEF Esecuzione
<1> QED
  BY <1>3, CampiTolta DEF t

\* A busy network is put off or skipped.
LEMMA CampiOccupata ==
    ASSUME NEW r \in Esecuzione, r.rete \in Nets
    PROVE  /\ Occupata(r) \in Esecuzione
           /\ Occupata(r).pc = "sceglie" /\ Occupata(r).job = r.job /\ Occupata(r).cron = r.cron
           /\ Occupata(r).daFare = r.daFare \ {r.rete}
           /\ Occupata(r).fatte = r.fatte /\ Occupata(r).errori = r.errori
           /\ Occupata(r).scadute = r.scadute
           /\ Occupata(r).aperti = r.aperti /\ Occupata(r).timbro = r.timbro
           /\ IF r.rete \in r.daFare /\ r.cron
                THEN /\ Occupata(r).rimandate = r.rimandate \union {r.rete}
                     /\ Occupata(r).saltate = r.saltate
                ELSE /\ Occupata(r).rimandate = r.rimandate \ {r.rete}
                     /\ Occupata(r).saltate = r.saltate \union {r.rete}
<1> DEFINE t == Tolta(r)
<1>2. t \in Esecuzione
  BY CampiTolta
<1>3. CASE r.rete \in r.daFare /\ r.cron
  <2>1. Occupata(r) = [t EXCEPT !.rimandate = @ \union {r.rete}]
    BY <1>3 DEF Occupata
  <2> HIDE DEF t
  <2>2. /\ Occupata(r) \in Esecuzione
        /\ Occupata(r).pc = t.pc /\ Occupata(r).job = t.job /\ Occupata(r).cron = t.cron
        /\ Occupata(r).daFare = t.daFare /\ Occupata(r).rimandate = t.rimandate \union {r.rete}
        /\ Occupata(r).fatte = t.fatte /\ Occupata(r).saltate = t.saltate
        /\ Occupata(r).errori = t.errori /\ Occupata(r).scadute = t.scadute
        /\ Occupata(r).aperti = t.aperti /\ Occupata(r).timbro = t.timbro
    BY <2>1, <1>2 DEF Esecuzione
  <2> QED
    BY <2>2, <1>3, CampiTolta DEF t
<1>4. CASE ~(r.rete \in r.daFare /\ r.cron)
  <2>1. Occupata(r) = [t EXCEPT !.saltate = @ \union {r.rete}]
    BY <1>4 DEF Occupata
  <2> HIDE DEF t
  <2>2. /\ Occupata(r) \in Esecuzione
        /\ Occupata(r).pc = t.pc /\ Occupata(r).job = t.job /\ Occupata(r).cron = t.cron
        /\ Occupata(r).daFare = t.daFare /\ Occupata(r).rimandate = t.rimandate
        /\ Occupata(r).fatte = t.fatte /\ Occupata(r).saltate = t.saltate \union {r.rete}
        /\ Occupata(r).errori = t.errori /\ Occupata(r).scadute = t.scadute
        /\ Occupata(r).aperti = t.aperti /\ Occupata(r).timbro = t.timbro
    BY <2>1, <1>2 DEF Esecuzione
  <2> QED
    BY <2>2, <1>4, CampiTolta DEF t
<1> QED
  BY <1>3, <1>4

LEMMA ReteInMano ==
    ASSUME NEW r \in Esecuzione, Giusta(r), r.pc \in SuRete
    PROVE  r.rete \in Nets /\ r.rete \in r.daFare \union r.rimandate
<1>1. Turno(r) /\ r.daFare \subseteq Nets /\ r.rimandate \subseteq Nets
  BY DEF Giusta, Esecuzione
<1> QED
  BY <1>1 DEF Turno

\* The outcome of a network keeps the pass right.
LEMMA GiustaFatta ==
    ASSUME NEW r \in Esecuzione, Giusta(r), r.pc \in SuRete,
           r.pc = "segue" => r.giro \notin r.aperti
    PROVE  Giusta(Fatta(r))
<1> DEFINE t == Fatta(r)
<1>1. r.rete \in Nets /\ r.rete \in r.daFare \union r.rimandate /\ Partizione(r)
  BY ReteInMano DEF Giusta
<1>2. /\ t.pc = "sceglie" /\ t.job = r.job /\ t.cron = r.cron
      /\ t.daFare = r.daFare \ {r.rete} /\ t.rimandate = r.rimandate \ {r.rete}
      /\ t.fatte = r.fatte \union {r.rete} /\ t.saltate = r.saltate
      /\ t.errori = r.errori /\ t.scadute = r.scadute
      /\ t.aperti = r.aperti /\ t.timbro = r.timbro
  BY <1>1, CampiFatta
<1> HIDE DEF t
<1>3. Partizione(t)
  BY <1>1, <1>2 DEF Partizione
<1>4. r.errori = {} => r.aperti = {}
  BY DEF Giusta
<1>5. /\ r.cron => r.saltate \subseteq r.scadute
      /\ ~r.timbro /\ r.job \in Jobs
  BY DEF Giusta, SuRete, Spente, Esecuzione
<1> QED
  BY <1>2, <1>3, <1>4, <1>5 DEF Giusta, SuRete, t

LEMMA GiustaFallita ==
    ASSUME NEW r \in Esecuzione, Giusta(r), r.pc \in SuRete
    PROVE  Giusta(Fallita(r))
<1> DEFINE t == Fallita(r)
<1>1. r.rete \in Nets /\ r.rete \in r.daFare \union r.rimandate /\ Partizione(r)
  BY ReteInMano DEF Giusta
<1>2. /\ t.pc = "sceglie" /\ t.job = r.job /\ t.cron = r.cron
      /\ t.daFare = r.daFare \ {r.rete} /\ t.rimandate = r.rimandate \ {r.rete}
      /\ t.fatte = r.fatte /\ t.saltate = r.saltate
      /\ t.errori = r.errori \union {r.rete} /\ t.scadute = r.scadute
      /\ t.aperti = r.aperti /\ t.timbro = r.timbro
  BY <1>1, CampiFallita
<1> HIDE DEF t
<1>3. Partizione(t) /\ t.errori # {}
  BY <1>1, <1>2 DEF Partizione
<1>4. /\ r.cron => r.saltate \subseteq r.scadute
      /\ ~r.timbro /\ r.job \in Jobs
  BY DEF Giusta, SuRete, Spente, Esecuzione
<1> QED
  BY <1>2, <1>3, <1>4 DEF Giusta, SuRete, t

\* Skipped by «Esegui ora», put off by the cron, or skipped by the cron at the
\* longest wait (in c): the network is then among the expired ones.
LEMMA GiustaOccupata ==
    ASSUME NEW r \in Esecuzione, Giusta(r), r.pc \in SuRete \ {"segue"},
           NEW c \in SUBSET Nets, r.scadute \subseteq c,
           r.cron /\ r.rete \notin r.daFare => r.rete \in c,
           NEW t \in Esecuzione,
           t = [Occupata(r) EXCEPT !.scadute = c]
    PROVE  Giusta(t)
<1>1. r.rete \in Nets /\ r.rete \in r.daFare \union r.rimandate /\ Partizione(r)
  BY ReteInMano DEF Giusta
<1> DEFINE o == Occupata(r)
<1>2. /\ o \in Esecuzione
      /\ o.pc = "sceglie" /\ o.job = r.job /\ o.cron = r.cron
      /\ o.daFare = r.daFare \ {r.rete}
      /\ o.fatte = r.fatte /\ o.errori = r.errori
      /\ o.aperti = r.aperti /\ o.timbro = r.timbro
      /\ IF r.rete \in r.daFare /\ r.cron
           THEN o.rimandate = r.rimandate \union {r.rete} /\ o.saltate = r.saltate
           ELSE o.rimandate = r.rimandate \ {r.rete} /\ o.saltate = r.saltate \union {r.rete}
  BY <1>1, CampiOccupata
<1> HIDE DEF o
<1>3. /\ t.pc = o.pc /\ t.job = o.job /\ t.cron = o.cron
      /\ t.daFare = o.daFare /\ t.rimandate = o.rimandate
      /\ t.fatte = o.fatte /\ t.saltate = o.saltate /\ t.errori = o.errori
      /\ t.aperti = o.aperti /\ t.timbro = o.timbro /\ t.scadute = c
  BY <1>2 DEF Esecuzione, o
<1>4. Partizione(t)
  BY <1>1, <1>2, <1>3 DEF Partizione
<1>5. /\ r.errori = {} => r.aperti = {}
      /\ r.cron => r.saltate \subseteq r.scadute
      /\ ~r.timbro /\ r.job \in Jobs
  BY DEF Giusta, SuRete, Spente, Esecuzione
<1>6. t.cron => t.saltate \subseteq t.scadute
  BY <1>2, <1>3, <1>5
<1> QED
  BY <1>2, <1>3, <1>4, <1>5, <1>6 DEF Giusta, SuRete

-----------------------------------------------------------------------------
(* The steps of one execution                                              *)

LEMMA TipoDelleEsecuzioni == TypeOK <=> /\ RoundsTypeOK
                                        /\ runningJobs \subseteq Jobs
                                        /\ pausa \in BOOLEAN
                                        /\ ex \in [Esecuzioni -> Esecuzione]
BY DEF TypeOK, Esecuzione

\* An execution that the guard covers.
Coperta(r) == r.pc \notin Spente /\ Guardata(r.job, r.cron)

\* GuardiaEsatta, execution by execution, for any keys and any executions.
EsattaPer(chiavi, x) ==
    /\ \A j : j \in chiavi <=> \E e \in Esecuzioni : Coperta(x[e]) /\ x[e].job = j
    /\ \A e, f \in Esecuzioni : Coperta(x[e]) /\ Coperta(x[f]) /\ x[e].job = x[f].job => e = f

LEMMA Esatta == GuardiaEsatta <=> EsattaPer(runningJobs, ex)
<1> DEFINE S == {e \in Esecuzioni : Coperta(ex[e])}
<1>1. GuardiaEsatta <=>
        /\ runningJobs = {ex[e].job : e \in S}
        /\ \A e, f \in S : ex[e].job = ex[f].job => e = f
  BY DEF GuardiaEsatta, Coperta
<1>2. (\A j : j \in runningJobs <=> \E e \in Esecuzioni : Coperta(ex[e]) /\ ex[e].job = j)
        <=> runningJobs = {ex[e].job : e \in S}
  OBVIOUS
<1> QED
  BY <1>1, <1>2 DEF EsattaPer

LEMMA EsattaPoi == GuardiaEsatta' <=> EsattaPer(runningJobs', ex')
<1> DEFINE S == {e \in Esecuzioni : Coperta(ex'[e])}
<1>1. GuardiaEsatta' <=>
        /\ runningJobs' = {ex'[e].job : e \in S}
        /\ \A e, f \in S : ex'[e].job = ex'[f].job => e = f
  BY DEF GuardiaEsatta, Coperta
<1>2. (\A j : j \in runningJobs' <=> \E e \in Esecuzioni : Coperta(ex'[e]) /\ ex'[e].job = j)
        <=> runningJobs' = {ex'[e].job : e \in S}
  OBVIOUS
<1> QED
  BY <1>1, <1>2 DEF EsattaPer

\* A step of an execution that goes on, and that leaves the outcomes alone.
LEMMA UnPasso ==
    ASSUME IInv, NEW e \in Esecuzioni, NEW r \in Esecuzione,
           Aggiorna(e, r), Giusta(r), SenzaEsito(r),
           RoundsTypeOK', esito' = esito,
           UNCHANGED <<runningJobs, pausa>>,
           r.job = ex[e].job, r.cron = ex[e].cron,
           r.pc \notin Spente, ex[e].pc \notin Spente
    PROVE  IInv'
<1>1. ex \in [Esecuzioni -> Esecuzione] /\ runningJobs \subseteq Jobs /\ pausa \in BOOLEAN
  BY TipoDelleEsecuzioni DEF IInv
<1>2. /\ ex' \in [Esecuzioni -> Esecuzione] /\ ex'[e] = r
      /\ \A f \in Esecuzioni \ {e} : ex'[f] = ex[f]
  BY <1>1 DEF Aggiorna
<1>3. TypeOK'
  BY <1>1, <1>2 DEF TypeOK, Esecuzione
<1>4. \A f \in Esecuzioni : Giusta(ex'[f])
  BY <1>2 DEF IInv
<1>5. \A f \in Esecuzioni : SenzaEsito(ex[f])'
  BY <1>2 DEF IInv, SenzaEsito, Chiuso
<1>6. runningJobs' = runningJobs
  OBVIOUS
<1>7. \A f \in Esecuzioni :
        ex'[f].job = ex[f].job /\ (Coperta(ex'[f]) <=> Coperta(ex[f]))
  <2> TAKE f \in Esecuzioni
  <2>1. CASE f = e
    BY <2>1, <1>2 DEF Coperta, Guardata
  <2>2. CASE f # e
    BY <2>2, <1>2
  <2> QED
    BY <2>1, <2>2
<1>8. GuardiaEsatta'
  <2> DEFINE C(f) == Coperta(ex[f])
             D(f) == Coperta(ex'[f])
  <2>1. /\ \A j : j \in runningJobs <=> \E f \in Esecuzioni : C(f) /\ ex[f].job = j
        /\ \A f, h \in Esecuzioni : C(f) /\ C(h) /\ ex[f].job = ex[h].job => f = h
    BY Esatta DEF IInv, EsattaPer
  <2>2. \A f \in Esecuzioni : ex'[f].job = ex[f].job /\ (D(f) <=> C(f))
    BY <1>7
  <2> HIDE DEF C, D
  <2>3. /\ \A j : j \in runningJobs <=> \E f \in Esecuzioni : D(f) /\ ex'[f].job = j
        /\ \A f, h \in Esecuzioni : D(f) /\ D(h) /\ ex'[f].job = ex'[h].job => f = h
    BY <2>1, <2>2
  <2>4. EsattaPer(runningJobs', ex')
    BY <2>3, <1>6 DEF EsattaPer, D
  <2> QED
    BY <2>4, EsattaPoi
<1> QED
  BY <1>3, <1>4, <1>5, <1>8 DEF IInv

\* What is known of an execution before a step of its own.
LEMMA Contesto ==
    ASSUME IInv, NEW e \in Esecuzioni
    PROVE  /\ ex[e] \in Esecuzione /\ Giusta(ex[e]) /\ SenzaEsito(ex[e])
           /\ RoundsTypeOK
BY TipoDelleEsecuzioni DEF IInv

\* The steps of the rounds that give no outcome.
LEMMA GiriSenzaEsito ==
    ASSUME RoundsTypeOK,
           \/ UNCHANGED roundVars
           \/ \E g \in Giri : \/ Avvisa(g) \/ Segnala(g) \/ Appende(g)
                              \/ \E n \in Nets : Apre(n, g)
    PROVE  RoundsTypeOK' /\ esito' = esito
BY DEF RoundsTypeOK, roundVars, Avvisa, Segnala, Appende, Apre

\* Everything the guard and the rounds see of an execution stays.
LEMMA PassoScegli ==
    ASSUME IInv, NEW e \in Esecuzioni, NEW n \in Nets, ScegliRete(e, n)
    PROVE  IInv'
<1> DEFINE q == ex[e]
           a == q.cron /\ q.daFare = {}
           r == [q EXCEPT !.pc = "avvia", !.rete = n, !.attendi = a]
<1>1. /\ q \in Esecuzione /\ Giusta(q) /\ SenzaEsito(q) /\ RoundsTypeOK
      /\ q.pc = "sceglie" /\ Aggiorna(e, r)
      /\ n \in IF q.daFare # {} THEN q.daFare ELSE q.rimandate
      /\ UNCHANGED <<roundVars, runningJobs, pausa>>
  BY Contesto DEF ScegliRete
<1>2. RoundsTypeOK' /\ esito' = esito
  BY <1>1, GiriSenzaEsito
<1>9. a \in BOOLEAN
  OBVIOUS
<1> HIDE DEF q, a
<1>3. /\ r \in Esecuzione
      /\ r.pc = "avvia" /\ r.rete = n /\ r.attendi = a
      /\ r.job = q.job /\ r.cron = q.cron /\ r.daFare = q.daFare
      /\ r.rimandate = q.rimandate /\ r.fatte = q.fatte /\ r.saltate = q.saltate
      /\ r.errori = q.errori /\ r.scadute = q.scadute /\ r.aperti = q.aperti
      /\ r.timbro = q.timbro
  BY <1>1, <1>9 DEF Esecuzione, Passi
<1> HIDE DEF r
<1>4. Partizione(q)
  BY <1>1 DEF Giusta
<1>5. Partizione(r) /\ Turno(r)
  BY <1>1, <1>3, <1>4 DEF Partizione, Turno, a
<1>6. Giusta(r) /\ SenzaEsito(r)
  BY <1>1, <1>3, <1>5 DEF Giusta, SuRete, Spente, SenzaEsito
<1>7. /\ r.job = ex[e].job /\ r.cron = ex[e].cron
      /\ r.pc \notin Spente /\ ex[e].pc \notin Spente
  BY <1>1, <1>3 DEF q, Spente
<1>8. Aggiorna(e, r) /\ UNCHANGED <<runningJobs, pausa>>
  BY <1>1
<1> QED
  BY <1>2, <1>3, <1>6, <1>7, <1>8, UnPasso

LEMMA PassoRetiFinite ==
    ASSUME IInv, NEW e \in Esecuzioni, RetiFinite(e)
    PROVE  IInv'
<1> DEFINE q == ex[e]
           x == IF q.errori # {} THEN "fallito"
                ELSE IF q.saltate = Reti[q.job] THEN "saltato"
                ELSE "eseguito"
           r == [q EXCEPT !.pc = "chiude", !.esito = x]
<1>1. /\ q \in Esecuzione /\ Giusta(q) /\ SenzaEsito(q) /\ RoundsTypeOK
      /\ q.pc = "sceglie" /\ Aggiorna(e, r) /\ q.daFare = {} /\ q.rimandate = {}
      /\ UNCHANGED <<roundVars, runningJobs, pausa>>
  BY Contesto DEF RetiFinite
<1>2. RoundsTypeOK' /\ esito' = esito
  BY <1>1, GiriSenzaEsito
<1>9. x \in {"fallito", "saltato", "eseguito"}
  OBVIOUS
<1> HIDE DEF q, x
<1>3. /\ r \in Esecuzione
      /\ r.pc = "chiude" /\ r.esito = x
      /\ r.job = q.job /\ r.cron = q.cron /\ r.fatte = q.fatte /\ r.saltate = q.saltate
      /\ r.errori = q.errori /\ r.scadute = q.scadute /\ r.aperti = q.aperti
      /\ r.timbro = q.timbro
  BY <1>1, <1>9, ZenonT(60) DEF Esecuzione, Passi
<1> HIDE DEF r
<1>4. Partizione(q)
  BY <1>1 DEF Giusta
<1>5. Esito(r)
  BY <1>1, <1>3, <1>4 DEF Partizione, Esito, x
<1>6. Giusta(r) /\ SenzaEsito(r)
  BY <1>1, <1>3, <1>5 DEF Giusta, SuRete, Spente, SenzaEsito
<1>7. /\ r.job = ex[e].job /\ r.cron = ex[e].cron
      /\ r.pc \notin Spente /\ ex[e].pc \notin Spente
  BY <1>1, <1>3 DEF q, Spente
<1>8. Aggiorna(e, r) /\ UNCHANGED <<runningJobs, pausa>>
  BY <1>1
<1> QED
  BY <1>2, <1>3, <1>6, <1>7, <1>8, UnPasso

\* An execution goes from one wait to another for the network in hand.
LEMMA DaUnAttesaAllAltra ==
    ASSUME IInv, NEW e \in Esecuzioni, NEW r \in Esecuzione,
           ex[e].pc \in SuRete, r.pc \in SuRete,
           r.pc \in {"rilegge", "attende"} => ex[e].attendi /\ r.occupante # NoGiro,
           r.pc = ex[e].pc \/ ex[e].pc # "segue", r.pc = "segue" => ex[e].pc = "segue",
           r.giro = ex[e].giro,
           r.job = ex[e].job, r.cron = ex[e].cron, r.daFare = ex[e].daFare,
           r.rimandate = ex[e].rimandate, r.attendi = ex[e].attendi,
           r.rete = ex[e].rete, r.fatte = ex[e].fatte, r.saltate = ex[e].saltate,
           r.errori = ex[e].errori, r.scadute = ex[e].scadute,
           r.aperti = ex[e].aperti, r.timbro = ex[e].timbro,
           Aggiorna(e, r), RoundsTypeOK', esito' = esito,
           UNCHANGED <<runningJobs, pausa>>
    PROVE  IInv'
<1>1. ex[e] \in Esecuzione /\ Giusta(ex[e]) /\ SenzaEsito(ex[e])
  BY Contesto
<1>2. Partizione(ex[e]) /\ Turno(ex[e])
  BY <1>1 DEF Giusta
<1>3. Partizione(r)
  BY <1>2 DEF Partizione
<1>4. Turno(r)
  BY <1>2 DEF Turno
<1>5. Giusta(r)
  BY <1>1, <1>3, <1>4 DEF Giusta, SuRete, Spente
<1>6. SenzaEsito(r)
  BY <1>1 DEF SenzaEsito
<1>7. r.pc \notin Spente /\ ex[e].pc \notin Spente
  BY DEF SuRete, Spente
<1> QED
  BY <1>5, <1>6, <1>7, UnPasso

\* The network in hand gets its outcome, or is put off.
LEMMA DecisaLaRete ==
    ASSUME IInv, NEW e \in Esecuzioni, NEW r \in Esecuzione,
           ex[e].pc \in SuRete, Giusta(r), r.pc = "sceglie",
           r.job = ex[e].job, r.cron = ex[e].cron, r.aperti = ex[e].aperti,
           Aggiorna(e, r), RoundsTypeOK', esito' = esito,
           UNCHANGED <<runningJobs, pausa>>
    PROVE  IInv'
<1>1. SenzaEsito(r)
  BY Contesto DEF SenzaEsito
<1>2. r.pc \notin Spente /\ ex[e].pc \notin Spente
  BY DEF SuRete, Spente
<1> QED
  BY <1>1, <1>2, UnPasso

LEMMA PassoAvvia ==
    ASSUME IInv, NEW e \in Esecuzioni, NEW g \in Giri, AvviaGiro(e, g)
    PROVE  IInv'
<1> DEFINE q == ex[e]
           r == [q EXCEPT !.pc = "segue", !.giro = g, !.scaduto = FALSE,
                          !.aperti = @ \union {g}]
<1>1. /\ q \in Esecuzione /\ Giusta(q) /\ SenzaEsito(q) /\ RoundsTypeOK
      /\ q.pc = "avvia" /\ Aggiorna(e, r) /\ Apre(q.rete, g)
      /\ UNCHANGED <<runningJobs, pausa>>
  BY Contesto DEF AvviaGiro
<1>2. q.rete \in Nets /\ Partizione(q) /\ Turno(q)
  BY <1>1, ReteInMano DEF Giusta, SuRete
<1>3. RoundsTypeOK' /\ esito' = esito
  BY <1>1, <1>2, GiriSenzaEsito
<1> HIDE DEF q
<1>4. /\ r \in Esecuzione
      /\ r.pc = "segue" /\ r.giro = g /\ r.aperti = q.aperti \union {g}
      /\ r.job = q.job /\ r.cron = q.cron /\ r.daFare = q.daFare
      /\ r.rimandate = q.rimandate /\ r.rete = q.rete /\ r.attendi = q.attendi
      /\ r.fatte = q.fatte /\ r.saltate = q.saltate
      /\ r.errori = q.errori /\ r.scadute = q.scadute /\ r.timbro = q.timbro
  BY <1>1 DEF Esecuzione, Passi
<1> HIDE DEF r
<1>5. Partizione(r)
  BY <1>2, <1>4 DEF Partizione
<1>6. Turno(r)
  BY <1>2, <1>4, NetworkRoundsAssumption DEF Turno
<1>7. Giusta(r)
  BY <1>1, <1>4, <1>5, <1>6 DEF Giusta, SuRete, Spente
<1>8. SenzaEsito(r)
  BY <1>1, <1>4 DEF SenzaEsito, Apre
<1>9. /\ r.job = ex[e].job /\ r.cron = ex[e].cron
      /\ r.pc \notin Spente /\ ex[e].pc \notin Spente
  BY <1>1, <1>4 DEF q, Spente
<1>10. Aggiorna(e, r) /\ UNCHANGED <<runningJobs, pausa>>
  BY <1>1
<1> QED
  BY <1>3, <1>4, <1>7, <1>8, <1>9, <1>10, UnPasso

\* The start fails, or the network is not there any more.
LEMMA PassoSenzaGiro ==
    ASSUME IInv, NEW e \in Esecuzioni, AvvioFallito(e) \/ ReteSparita(e)
    PROVE  IInv'
<1> DEFINE q == ex[e]
<1>1. /\ q \in Esecuzione /\ Giusta(q) /\ RoundsTypeOK
      /\ q.pc = "avvia" /\ (Aggiorna(e, Fallita(q)) \/ Aggiorna(e, Fatta(q)))
      /\ UNCHANGED <<roundVars, runningJobs, pausa>>
  BY Contesto DEF AvvioFallito, ReteSparita
<1>2. q.rete \in Nets /\ q.pc \in SuRete
  BY <1>1, ReteInMano DEF SuRete
<1>3. RoundsTypeOK' /\ esito' = esito
  BY <1>1, GiriSenzaEsito
<1> HIDE DEF q
<1>4. CASE Aggiorna(e, Fallita(q))
  BY <1>1, <1>2, <1>3, <1>4, CampiFallita, GiustaFallita, DecisaLaRete DEF q
<1>5. CASE Aggiorna(e, Fatta(q))
  BY <1>1, <1>2, <1>3, <1>5, CampiFatta, GiustaFatta, DecisaLaRete DEF q
<1> QED
  BY <1>1, <1>4, <1>5

\* The network is busy: the execution waits for it, puts it off or skips it.
LEMMA PassoOccupata ==
    ASSUME IInv, NEW e \in Esecuzioni, ReteOccupata(e)
    PROVE  IInv'
<1> DEFINE q == ex[e]
           h == giri[q.rete]
           r == [q EXCEPT !.pc = "rilegge", !.occupante = h]
<1>1. /\ q \in Esecuzione /\ Giusta(q) /\ RoundsTypeOK
      /\ q.pc = "avvia" /\ h # NoGiro /\ (Avvisa(h) \/ UNCHANGED roundVars)
      /\ Aggiorna(e, IF q.attendi THEN r ELSE Occupata(q))
      /\ UNCHANGED <<runningJobs, pausa>>
  BY Contesto DEF ReteOccupata
<1>2. q.rete \in Nets /\ q.pc \in SuRete /\ Turno(q)
  BY <1>1, ReteInMano DEF Giusta, SuRete
<1>3. h \in Giri
  BY <1>1, <1>2 DEF RoundsTypeOK
<1>4. RoundsTypeOK' /\ esito' = esito
  BY <1>1, <1>3, GiriSenzaEsito
<1> HIDE DEF q, h
<1>5. CASE q.attendi
  <2>1. /\ r \in Esecuzione /\ r.pc = "rilegge" /\ r.occupante = h
        /\ r.giro = q.giro /\ r.job = q.job /\ r.cron = q.cron /\ r.daFare = q.daFare
        /\ r.rimandate = q.rimandate /\ r.attendi = q.attendi
        /\ r.rete = q.rete /\ r.fatte = q.fatte /\ r.saltate = q.saltate
        /\ r.errori = q.errori /\ r.scadute = q.scadute
        /\ r.aperti = q.aperti /\ r.timbro = q.timbro
    BY <1>1, <1>3 DEF Esecuzione, Passi
  <2>2. Aggiorna(e, r)
    BY <1>1, <1>5
  <2> HIDE DEF r
  <2>3. /\ r.pc \in SuRete /\ (r.pc = q.pc \/ q.pc # "segue") /\ r.pc # "segue"
    BY <1>1, <2>1 DEF SuRete
  <2> QED
    BY <1>1, <1>2, <1>4, <1>5, <2>1, <2>2, <2>3, DaUnAttesaAllAltra DEF q
<1>6. CASE ~q.attendi
  <2> DEFINE o == Occupata(q)
  <2>1. /\ o \in Esecuzione /\ o.pc = "sceglie" /\ o.job = q.job /\ o.cron = q.cron
        /\ o.scadute = q.scadute /\ o.aperti = q.aperti
    BY <1>1, <1>2, CampiOccupata
  <2>2. Aggiorna(e, o)
    BY <1>1, <1>6
  <2> HIDE DEF o
  <2>3. o = [o EXCEPT !.scadute = q.scadute]
    BY <2>1 DEF Esecuzione
  <2>4. q.cron => q.rete \in q.daFare
    BY <1>2, <1>6 DEF Turno
  <2>5. q.pc \in SuRete \ {"segue"} /\ q.scadute \in SUBSET Nets
    BY <1>1, <1>2 DEF Esecuzione
  <2>6. Giusta(o)
    BY <1>1, <2>1, <2>3, <2>4, <2>5, GiustaOccupata DEF o
  <2> QED
    BY <1>1, <1>2, <1>4, <2>1, <2>2, <2>6, DecisaLaRete DEF q
<1> QED
  BY <1>5, <1>6

\* The lock is read again, the holder releases the network, the clock passes.
LEMMA PassoAttesa ==
    ASSUME IInv, NEW e \in Esecuzioni, Riprende(e) \/ Svegliato(e) \/ Scade(e)
    PROVE  IInv'
<1> DEFINE q == ex[e]
           h == giri[q.rete]
           Va(r) == /\ r \in Esecuzione /\ r.pc \in SuRete
                    /\ r.pc \in {"rilegge", "attende"} => q.attendi /\ r.occupante # NoGiro
                    /\ r.pc = q.pc \/ q.pc # "segue"
                    /\ r.pc = "segue" => q.pc = "segue"
                    /\ r.giro = q.giro /\ r.job = q.job /\ r.cron = q.cron
                    /\ r.daFare = q.daFare /\ r.rimandate = q.rimandate
                    /\ r.attendi = q.attendi
                    /\ r.rete = q.rete /\ r.fatte = q.fatte /\ r.saltate = q.saltate
                    /\ r.errori = q.errori /\ r.scadute = q.scadute
                    /\ r.aperti = q.aperti /\ r.timbro = q.timbro
<1>1. /\ q \in Esecuzione /\ Giusta(q) /\ RoundsTypeOK /\ q.pc \in SuRete
      /\ UNCHANGED <<roundVars, runningJobs, pausa>>
  BY Contesto DEF Riprende, Svegliato, Scade, SuRete
<1>2. q.rete \in Nets /\ Turno(q)
  BY <1>1, ReteInMano DEF Giusta
<1>3. h \in Giri \union {NoGiro}
  BY <1>1, <1>2 DEF RoundsTypeOK
<1>4. RoundsTypeOK' /\ esito' = esito
  BY <1>1, GiriSenzaEsito
<1>5. q.pc \in {"rilegge", "attende"} => q.attendi /\ q.occupante # NoGiro
  BY <1>2 DEF Turno
<1>6. PICK r : Aggiorna(e, r) /\
         \/ q.pc = "rilegge" /\ r = [q EXCEPT !.pc = "avvia", !.occupante = NoGiro]
         \/ q.pc = "rilegge" /\ r = [q EXCEPT !.pc = "attende", !.atteso = h]
         \/ q.pc = "attende" /\ r = [q EXCEPT !.pc = "avvia", !.occupante = NoGiro,
                                              !.atteso = NoGiro]
         \/ r = [q EXCEPT !.scaduto = TRUE]
  BY DEF Riprende, Svegliato, Scade
<1> HIDE DEF q, h
<1>7. Va(r)
  <2>1. CASE q.pc = "rilegge" /\ r = [q EXCEPT !.pc = "avvia", !.occupante = NoGiro]
    BY <1>1, <2>1 DEF Esecuzione, Passi, SuRete
  <2>2. CASE q.pc = "rilegge" /\ r = [q EXCEPT !.pc = "attende", !.atteso = h]
    BY <1>1, <1>3, <1>5, <2>2 DEF Esecuzione, Passi, SuRete
  <2>3. CASE q.pc = "attende" /\ r = [q EXCEPT !.pc = "avvia", !.occupante = NoGiro,
                                               !.atteso = NoGiro]
    BY <1>1, <2>3 DEF Esecuzione, Passi, SuRete
  <2>4. CASE r = [q EXCEPT !.scaduto = TRUE]
    BY <1>1, <1>5, <2>4 DEF Esecuzione, Passi, SuRete
  <2> QED
    BY <1>6, <2>1, <2>2, <2>3, <2>4
<1> QED
  BY <1>1, <1>4, <1>6, <1>7, DaUnAttesaAllAltra DEF q

\* The longest wait has passed: the network is skipped, and it is among the
\* expired ones.
LEMMA PassoSmette ==
    ASSUME IInv, NEW e \in Esecuzioni, SmetteDiAspettare(e)
    PROVE  IInv'
<1> DEFINE q == ex[e]
           o == Occupata(q)
           c == q.scadute \union {q.rete}
           t == [o EXCEPT !.scadute = @ \union {q.rete}]
<1>1. /\ q \in Esecuzione /\ Giusta(q) /\ RoundsTypeOK
      /\ q.pc \in SuRete \ {"segue"}
      /\ SegnalaGiroLungo(q.rete, q.occupante)
      /\ Aggiorna(e, t)
      /\ UNCHANGED <<runningJobs, pausa>>
  BY Contesto DEF SmetteDiAspettare, SuRete
<1>2. q.rete \in Nets
  BY <1>1, ReteInMano
<1>3. RoundsTypeOK' /\ esito' = esito
  <2>1. CASE giri[q.rete] = q.occupante
    <3>1. Avvisa(q.occupante)
      BY <1>1, <2>1 DEF SegnalaGiroLungo
    <3>2. q.occupante # NoGiro
      BY DEF SmetteDiAspettare, Giusta, SuRete, Turno, IInv
    <3>3. q.occupante \in Giri
      BY <1>1, <3>2 DEF Esecuzione
    <3> QED
      BY <1>1, <3>1, <3>3, GiriSenzaEsito
  <2>2. CASE giri[q.rete] # q.occupante
    BY <1>1, <2>2, GiriSenzaEsito DEF SegnalaGiroLungo
  <2> QED
    BY <2>1, <2>2
<1>4. /\ o \in Esecuzione /\ o.pc = "sceglie" /\ o.job = q.job /\ o.cron = q.cron
      /\ o.scadute = q.scadute /\ o.aperti = q.aperti
  BY <1>1, <1>2, CampiOccupata
<1>5. c \in SUBSET Nets /\ q.scadute \subseteq c /\ q.rete \in c
  BY <1>1, <1>2 DEF Esecuzione
<1> HIDE DEF q, o
<1>6. /\ t = [o EXCEPT !.scadute = c] /\ t \in Esecuzione
      /\ t.pc = "sceglie" /\ t.job = q.job /\ t.cron = q.cron /\ t.aperti = q.aperti
  BY <1>4, <1>5 DEF Esecuzione
<1> HIDE DEF t, c
<1>7. Giusta(t)
  BY <1>1, <1>5, <1>6, GiustaOccupata DEF o
<1>8. q.pc \in SuRete
  BY <1>1
<1> QED
  BY <1>1, <1>3, <1>6, <1>7, <1>8, DecisaLaRete DEF q

\* `done` of the round in hand has settled: the round is not an open one.
LEMMA PassoChiuso ==
    ASSUME IInv, NEW e \in Esecuzioni, GiroChiuso(e)
    PROVE  IInv'
<1> DEFINE q == ex[e]
<1>1. /\ q \in Esecuzione /\ Giusta(q) /\ SenzaEsito(q) /\ RoundsTypeOK
      /\ q.pc = "segue" /\ Chiuso(q.giro)
      /\ Aggiorna(e, Fallita(q)) \/ Aggiorna(e, Fatta(q))
      /\ UNCHANGED <<roundVars, runningJobs, pausa>>
  BY Contesto DEF GiroChiuso
<1>2. q.rete \in Nets /\ q.pc \in SuRete
  BY <1>1, ReteInMano DEF SuRete
<1>3. RoundsTypeOK' /\ esito' = esito
  BY <1>1, GiriSenzaEsito
<1>4. q.giro \notin q.aperti
  BY <1>1 DEF SenzaEsito
<1> HIDE DEF q
<1>5. CASE Aggiorna(e, Fallita(q))
  BY <1>1, <1>2, <1>3, <1>5, CampiFallita, GiustaFallita, DecisaLaRete DEF q
<1>6. CASE Aggiorna(e, Fatta(q))
  BY <1>1, <1>2, <1>3, <1>4, <1>6, CampiFatta, GiustaFatta, DecisaLaRete DEF q
<1> QED
  BY <1>1, <1>5, <1>6

\* The job leaves its own round behind: the network counts as failed.
LEMMA PassoLascia ==
    ASSUME IInv, NEW e \in Esecuzioni, LasciaGiro(e)
    PROVE  IInv'
<1> DEFINE q == ex[e]
<1>1. /\ q \in Esecuzione /\ Giusta(q) /\ RoundsTypeOK
      /\ q.pc = "segue" /\ SegnalaGiroLungo(q.rete, q.giro)
      /\ Aggiorna(e, Fallita(q))
      /\ UNCHANGED <<runningJobs, pausa>>
  BY Contesto DEF LasciaGiro
<1>2. q.rete \in Nets /\ q.pc \in SuRete
  BY <1>1, ReteInMano DEF SuRete
<1>3. q.giro \in Giri
  BY <1>1, <1>2 DEF Giusta, Turno, Esecuzione
<1>4. RoundsTypeOK' /\ esito' = esito
  BY <1>1, <1>3, GiriSenzaEsito DEF SegnalaGiroLungo
<1> HIDE DEF q
<1> QED
  BY <1>1, <1>2, <1>4, CampiFallita, GiustaFallita, DecisaLaRete DEF q

LEMMA PassoLavora ==
    ASSUME IInv, NEW e \in Esecuzioni, NEW x \in {"eseguito", "fallito", "saltato"},
           Lavora(e, x)
    PROVE  IInv'
<1> DEFINE q == ex[e]
           r == [q EXCEPT !.pc = "chiude", !.esito = x]
<1>1. /\ q \in Esecuzione /\ Giusta(q) /\ SenzaEsito(q) /\ RoundsTypeOK
      /\ q.pc = "lavora" /\ Aggiorna(e, r)
      /\ UNCHANGED <<roundVars, runningJobs, pausa>>
  BY Contesto DEF Lavora
<1>2. RoundsTypeOK' /\ esito' = esito
  BY <1>1, GiriSenzaEsito
<1> HIDE DEF q
<1>3. /\ r \in Esecuzione /\ r.pc = "chiude"
      /\ r.job = q.job /\ r.cron = q.cron /\ r.fatte = q.fatte /\ r.saltate = q.saltate
      /\ r.errori = q.errori /\ r.scadute = q.scadute /\ r.aperti = q.aperti
      /\ r.timbro = q.timbro
  BY <1>1, ZenonT(60) DEF Esecuzione, Passi
<1> HIDE DEF r
<1>4. Giusta(r) /\ SenzaEsito(r)
  BY <1>1, <1>3 DEF Giusta, SuRete, Spente, SenzaEsito, Esito
<1>5. /\ r.job = ex[e].job /\ r.cron = ex[e].cron
      /\ r.pc \notin Spente /\ ex[e].pc \notin Spente
  BY <1>1, <1>3 DEF q, Spente
<1>6. Aggiorna(e, r) /\ UNCHANGED <<runningJobs, pausa>>
  BY <1>1
<1> QED
  BY <1>2, <1>3, <1>4, <1>5, <1>6, UnPasso

-----------------------------------------------------------------------------
(* The first and the last step of an execution                             *)

\* A new execution: nothing done, nothing started, nothing written.
LEMMA Nuova ==
    ASSUME NEW j \in Jobs, NEW cron \in BOOLEAN, pausa \in BOOLEAN,
           NEW r, r = Partenza(j, cron) \/ r = SenzaPartire(j, cron)
    PROVE  /\ r \in Esecuzione /\ Giusta(r) /\ r.aperti = {}
           /\ r.job = j /\ r.cron = cron /\ r.pc \notin Spente
<1> DEFINE una == \E n \in Nets : Reti[j] = {n}
           b == [Vuota EXCEPT !.job = j, !.cron = cron]
           d == IF una THEN {} ELSE Reti[j]
           m == IF una THEN Reti[j] ELSE {}
<1>1. d \in SUBSET Nets /\ m \in SUBSET Nets /\ d \union m = Reti[j] /\ d \intersect m = {}
  BY JobsAssumption
<1>2. Vuota \in Esecuzione
  BY DEF Vuota, Esecuzione, Passi
<1>3. /\ b \in Esecuzione /\ b.job = j /\ b.cron = cron
      /\ b.daFare = {} /\ b.rimandate = {} /\ b.fatte = {} /\ b.saltate = {}
      /\ b.errori = {} /\ b.scadute = {} /\ b.aperti = {} /\ b.timbro = FALSE
      /\ b.esito = "nessuno"
  BY DEF Vuota, Esecuzione, Passi
<1>4. \/ r = [b EXCEPT !.pc = "chiude", !.esito = "saltato"]
      \/ r = [b EXCEPT !.pc = "chiude", !.esito = "fallito"]
      \/ j \notin DiScansione /\ r = [b EXCEPT !.pc = "lavora"]
      \/ j \in DiScansione /\ r = [b EXCEPT !.pc = "sceglie", !.daFare = d, !.rimandate = m]
  <2>1. CASE r = SenzaPartire(j, cron)
    BY <2>1 DEF SenzaPartire, Vuota
  <2>2. CASE r = Partenza(j, cron)
    BY <2>2 DEF Partenza
  <2> QED
    BY <2>1, <2>2
<1> HIDE DEF b, d, m
<1>5. CASE \/ r = [b EXCEPT !.pc = "chiude", !.esito = "saltato"]
           \/ r = [b EXCEPT !.pc = "chiude", !.esito = "fallito"]
  <2>1. /\ r \in Esecuzione /\ r.pc = "chiude" /\ r.job = j /\ r.cron = cron
        /\ r.saltate = {} /\ r.errori = {} /\ r.scadute = {} /\ r.aperti = {}
        /\ r.timbro = FALSE /\ r.esito \in {"saltato", "fallito"}
    BY <1>3, <1>5, ZenonT(60) DEF Esecuzione, Passi
  <2> QED
    BY <2>1 DEF Giusta, SuRete, Spente, Esito
<1>6. CASE j \notin DiScansione /\ r = [b EXCEPT !.pc = "lavora"]
  <2>1. /\ r \in Esecuzione /\ r.pc = "lavora" /\ r.job = j /\ r.cron = cron
        /\ r.saltate = {} /\ r.errori = {} /\ r.scadute = {} /\ r.aperti = {}
        /\ r.timbro = FALSE
    BY <1>3, <1>6 DEF Esecuzione, Passi
  <2> QED
    BY <2>1, <1>6 DEF Giusta, SuRete, Spente
<1>7. CASE /\ j \in DiScansione
           /\ r = [b EXCEPT !.pc = "sceglie", !.daFare = d, !.rimandate = m]
  <2>1. /\ r \in Esecuzione /\ r.pc = "sceglie" /\ r.job = j /\ r.cron = cron
        /\ r.daFare = d /\ r.rimandate = m /\ r.fatte = {}
        /\ r.saltate = {} /\ r.errori = {} /\ r.scadute = {} /\ r.aperti = {}
        /\ r.timbro = FALSE
    BY <1>1, <1>3, <1>7 DEF Esecuzione, Passi
  <2>2. Partizione(r)
    BY <1>1, <1>7, <2>1 DEF Partizione
  <2> QED
    BY <2>1, <2>2 DEF Giusta, SuRete, Spente
<1> QED
  BY <1>4, <1>5, <1>6, <1>7

\* A step that starts or ends an execution leaves the rounds alone.
LEMMA EntraOEsce ==
    ASSUME IInv, NEW e \in Esecuzioni, NEW r \in Esecuzione,
           Aggiorna(e, r), Giusta(r), SenzaEsito(r),
           UNCHANGED <<roundVars, pausa>>,
           runningJobs' \subseteq Jobs,
           \A j : j \in runningJobs' <=>
                    \/ Coperta(r) /\ r.job = j
                    \/ \E f \in Esecuzioni \ {e} : Coperta(ex[f]) /\ ex[f].job = j,
           Coperta(r) => \A f \in Esecuzioni \ {e} : Coperta(ex[f]) => ex[f].job # r.job
    PROVE  IInv'
<1>1. ex \in [Esecuzioni -> Esecuzione] /\ pausa \in BOOLEAN /\ RoundsTypeOK
  BY TipoDelleEsecuzioni DEF IInv
<1>2. /\ ex' \in [Esecuzioni -> Esecuzione] /\ ex'[e] = r
      /\ \A f \in Esecuzioni \ {e} : ex'[f] = ex[f]
  BY <1>1 DEF Aggiorna
<1>3. RoundsTypeOK' /\ esito' = esito
  BY <1>1, GiriSenzaEsito
<1>4. TypeOK'
  BY <1>1, <1>2, <1>3 DEF TypeOK, Esecuzione
<1>5. \A f \in Esecuzioni : Giusta(ex'[f])
  BY <1>2 DEF IInv
<1>6. \A f \in Esecuzioni : SenzaEsito(ex[f])'
  BY <1>2, <1>3 DEF IInv, SenzaEsito, Chiuso
<1>7. GuardiaEsatta'
  <2>1. \A f, h \in Esecuzioni :
           Coperta(ex[f]) /\ Coperta(ex[h]) /\ ex[f].job = ex[h].job => f = h
    BY Esatta DEF IInv, EsattaPer
  <2>2. \A j : j \in runningJobs' <=> \E f \in Esecuzioni : Coperta(ex'[f]) /\ ex'[f].job = j
    BY <1>2
  <2>3. \A f, h \in Esecuzioni :
           Coperta(ex'[f]) /\ Coperta(ex'[h]) /\ ex'[f].job = ex'[h].job => f = h
    BY <1>2, <2>1
  <2>4. EsattaPer(runningJobs', ex')
    BY <2>2, <2>3 DEF EsattaPer
  <2> QED
    BY <2>4, EsattaPoi
<1> QED
  BY <1>4, <1>5, <1>6, <1>7 DEF IInv

LEMMA PassoInizia ==
    ASSUME IInv, NEW e \in Esecuzioni, NEW j \in Jobs, NEW cron \in BOOLEAN,
           Inizia(e, j, cron)
    PROVE  IInv'
<1>1. PICK r : Aggiorna(e, r) /\ (r = Partenza(j, cron) \/ r = SenzaPartire(j, cron))
  BY DEF Inizia
<1>2. pausa \in BOOLEAN /\ runningJobs \subseteq Jobs
  BY DEF IInv, TypeOK
<1>3. /\ r \in Esecuzione /\ Giusta(r) /\ r.aperti = {}
      /\ r.job = j /\ r.cron = cron /\ r.pc \notin Spente
  BY <1>1, <1>2, Nuova
<1>4. SenzaEsito(r)
  BY <1>3 DEF SenzaEsito
<1>5. Coperta(r) <=> Guardata(j, cron)
  BY <1>3 DEF Coperta
<1>6. ~Coperta(ex[e])
  BY DEF Coperta, Inizia
<1>7. \A k : k \in runningJobs <=>
               \E f \in Esecuzioni \ {e} : Coperta(ex[f]) /\ ex[f].job = k
  BY <1>6, Esatta DEF IInv, EsattaPer
<1>8. /\ Guardata(j, cron) => j \notin runningJobs
      /\ runningJobs' = IF Guardata(j, cron) THEN runningJobs \union {j} ELSE runningJobs
      /\ UNCHANGED <<roundVars, pausa>>
  BY DEF Inizia
<1>9. \A k : k \in runningJobs' <=> \/ Coperta(r) /\ r.job = k
                                    \/ k \in runningJobs
  BY <1>3, <1>5, <1>8
<1>10. Coperta(r) => \A f \in Esecuzioni \ {e} : Coperta(ex[f]) => ex[f].job # r.job
  BY <1>3, <1>5, <1>7, <1>8
<1>11. /\ runningJobs' \subseteq Jobs
       /\ \A k : k \in runningJobs' <=>
                    \/ Coperta(r) /\ r.job = k
                    \/ \E f \in Esecuzioni \ {e} : Coperta(ex[f]) /\ ex[f].job = k
  BY <1>2, <1>7, <1>8, <1>9
<1> QED
  BY <1>1, <1>3, <1>4, <1>8, <1>10, <1>11, EntraOEsce

\* runJob has settled: the key goes, and last_run is written or not.
LEMMA PassoChiudi ==
    ASSUME IInv, NEW e \in Esecuzioni, Chiudi(e)
    PROVE  IInv'
<1> DEFINE q == ex[e]
           t == Timbra(q)
           r == [q EXCEPT !.pc = "finita", !.timbro = t]
<1>1. /\ q \in Esecuzione /\ Giusta(q) /\ SenzaEsito(q)
      /\ q.pc = "chiude" /\ Aggiorna(e, r)
      /\ runningJobs' = IF Guardata(q.job, q.cron) THEN runningJobs \ {q.job} ELSE runningJobs
      /\ UNCHANGED <<roundVars, pausa>>
  BY Contesto DEF Chiudi
<1>2. t \in BOOLEAN
  BY DEF Timbra
<1>3. /\ Coperta(q) <=> Guardata(q.job, q.cron)
      /\ q.job \in Jobs /\ Esito(q)
  BY <1>1 DEF Coperta, Spente, Giusta
<1>4. /\ t /\ q.job \in DiScansione => q.esito = "eseguito"
  BY DEF Timbra
<1>5. /\ \A k : k \in runningJobs <=> \E f \in Esecuzioni : Coperta(ex[f]) /\ ex[f].job = k
      /\ \A f, h \in Esecuzioni :
            Coperta(ex[f]) /\ Coperta(ex[h]) /\ ex[f].job = ex[h].job => f = h
  BY Esatta DEF IInv, EsattaPer
<1>6. \A k : k \in runningJobs' <=>
               \E f \in Esecuzioni \ {e} : Coperta(ex[f]) /\ ex[f].job = k
  BY <1>1, <1>3, <1>5
<1>7. runningJobs' \subseteq Jobs
  BY <1>1 DEF IInv, TypeOK
<1> HIDE DEF q, t
<1>8. /\ r \in Esecuzione /\ r.pc = "finita" /\ r.timbro = t
      /\ r.job = q.job /\ r.cron = q.cron /\ r.fatte = q.fatte /\ r.saltate = q.saltate
      /\ r.errori = q.errori /\ r.scadute = q.scadute /\ r.aperti = q.aperti
  BY <1>1, <1>2 DEF Esecuzione, Passi
<1> HIDE DEF r
<1>9. t /\ r.job \in DiScansione => r.aperti = {} /\ r.fatte # {}
  BY <1>1, <1>3, <1>4, <1>8 DEF Esito, Giusta
<1>10. Giusta(r) /\ SenzaEsito(r)
  BY <1>1, <1>8, <1>9 DEF Giusta, SuRete, Spente, SenzaEsito
<1>11. ~Coperta(r)
  BY <1>8 DEF Coperta, Spente
<1>12. Aggiorna(e, r) /\ UNCHANGED <<roundVars, pausa>>
  BY <1>1
<1> QED
  BY <1>6, <1>7, <1>8, <1>10, <1>11, <1>12, EntraOEsce

LEMMA PassoArchivia ==
    ASSUME IInv, NEW e \in Esecuzioni, Archivia(e)
    PROVE  IInv'
<1>1. /\ Vuota \in Esecuzione /\ Vuota.pc = "libera" /\ Vuota.aperti = {}
      /\ Vuota.cron = FALSE /\ Vuota.timbro = FALSE
  BY DEF Vuota, Esecuzione, Passi
<1>2. Giusta(Vuota) /\ SenzaEsito(Vuota) /\ ~Coperta(Vuota)
  BY <1>1 DEF Giusta, SuRete, Spente, SenzaEsito, Coperta
<1>3. ~Coperta(ex[e])
  BY DEF Archivia, Coperta, Spente
<1>4. \A k : k \in runningJobs <=>
               \E f \in Esecuzioni \ {e} : Coperta(ex[f]) /\ ex[f].job = k
  BY <1>3, Esatta DEF IInv, EsattaPer
<1>5. runningJobs \subseteq Jobs
  BY DEF IInv, TypeOK
<1> QED
  BY <1>1, <1>2, <1>4, <1>5, EntraOEsce DEF Archivia

-----------------------------------------------------------------------------
(* The steps of everybody else                                             *)

\* The guard looks at the executions only through these fields.
LEMMA GuardiaSiTiene ==
    ASSUME GuardiaEsatta, UNCHANGED runningJobs,
           \A f \in Esecuzioni : ex'[f].job = ex[f].job /\ (Coperta(ex'[f]) <=> Coperta(ex[f]))
    PROVE  GuardiaEsatta'
<1> DEFINE C(f) == Coperta(ex[f])
           D(f) == Coperta(ex'[f])
<1>1. /\ \A j : j \in runningJobs <=> \E f \in Esecuzioni : C(f) /\ ex[f].job = j
      /\ \A f, h \in Esecuzioni : C(f) /\ C(h) /\ ex[f].job = ex[h].job => f = h
  BY Esatta DEF EsattaPer
<1>2. \A f \in Esecuzioni : ex'[f].job = ex[f].job /\ (D(f) <=> C(f))
  OBVIOUS
<1> HIDE DEF C, D
<1>3. /\ \A j : j \in runningJobs <=> \E f \in Esecuzioni : D(f) /\ ex'[f].job = j
      /\ \A f, h \in Esecuzioni : D(f) /\ D(h) /\ ex'[f].job = ex'[h].job => f = h
  BY <1>1, <1>2
<1>4. EsattaPer(runningJobs', ex')
  BY <1>3 DEF EsattaPer, D
<1> QED
  BY <1>4, EsattaPoi

\* A round ends: it leaves the open rounds of whoever started it.
LEMMA PassoFinisce ==
    ASSUME IInv, NEW g \in Giri, GiroFinisce(g)
    PROVE  IInv'
<1>1. PICK x \in Esiti \ {"nessuno"} : Chiude(g, x)
  BY DEF GiroFinisce
<1>2. /\ ex \in [Esecuzioni -> Esecuzione] /\ RoundsTypeOK
      /\ UNCHANGED <<runningJobs, pausa>>
      /\ \A f \in Esecuzioni : ex'[f] = [ex[f] EXCEPT !.aperti = @ \ {g}]
      /\ ex' = [f \in Esecuzioni |-> [ex[f] EXCEPT !.aperti = @ \ {g}]]
  BY TipoDelleEsecuzioni DEF IInv, GiroFinisce
<1>3. RoundsTypeOK' /\ esito' = [esito EXCEPT ![g] = x] /\ esito \in [Giri -> Esiti]
  BY <1>1, <1>2 DEF RoundsTypeOK, Chiude
<1>4. ASSUME NEW f \in Esecuzioni
      PROVE  /\ ex'[f] \in Esecuzione /\ Giusta(ex'[f]) /\ SenzaEsito(ex[f])'
             /\ ex'[f].job = ex[f].job /\ (Coperta(ex'[f]) <=> Coperta(ex[f]))
  <2> DEFINE q == ex[f]
             r == ex'[f]
  <2>1. /\ q \in Esecuzione /\ Giusta(q) /\ SenzaEsito(q)
        /\ r = [q EXCEPT !.aperti = @ \ {g}]
    BY <1>2, Contesto
  <2> HIDE DEF q, r
  <2>2. /\ r \in Esecuzione /\ r.aperti = q.aperti \ {g} /\ r.pc = q.pc
        /\ r.giro = q.giro /\ r.job = q.job /\ r.cron = q.cron
        /\ r.daFare = q.daFare /\ r.rimandate = q.rimandate /\ r.attendi = q.attendi
        /\ r.rete = q.rete /\ r.fatte = q.fatte /\ r.saltate = q.saltate
        /\ r.errori = q.errori /\ r.scadute = q.scadute
        /\ r.occupante = q.occupante /\ r.timbro = q.timbro /\ r.esito = q.esito
    BY <2>1 DEF Esecuzione
  <2>3. Partizione(q) => Partizione(r)
    BY <2>2 DEF Partizione
  <2>4. (Turno(q) => Turno(r)) /\ (Esito(q) => Esito(r))
    BY <2>2 DEF Turno, Esito
  <2>5. Giusta(r)
    BY <2>1, <2>2, <2>3, <2>4 DEF Giusta
  <2>6. \A h \in r.aperti : h \in Giri /\ h # g /\ esito[h] = "nessuno"
    BY <2>1, <2>2 DEF SenzaEsito, Chiuso, Esecuzione
  <2>7. \A h \in r.aperti : esito'[h] = "nessuno"
    BY <1>3, <2>6
  <2>8. SenzaEsito(ex[f])'
    BY <2>7 DEF SenzaEsito, Chiuso, r
  <2>9. Coperta(r) <=> Coperta(q)
    BY <2>2 DEF Coperta
  <2> QED
    BY <2>2, <2>5, <2>8, <2>9 DEF q, r
<1>5. TypeOK'
  BY <1>2, <1>3, <1>4, TipoDelleEsecuzioni, ZenonT(60) DEF IInv, TypeOK, Esecuzione
<1>6. GuardiaEsatta'
  BY <1>2, <1>4, GuardiaSiTiene DEF IInv
<1> QED
  BY <1>4, <1>5, <1>6 DEF IInv

\* Rounds of other callers, stops, hangs, forgotten ids, and the vault.
LEMMA PassoAltri ==
    ASSUME IInv, Altri \/ CambiaPausa \/ UNCHANGED vars
    PROVE  IInv'
<1>1. /\ ex' = ex /\ runningJobs' = runningJobs
      /\ pausa' \in BOOLEAN
      /\ RoundsTypeOK /\ esito \in [Giri -> Esiti]
  BY DEF IInv, TypeOK, Altri, CambiaPausa, jobVars, vars, RoundsTypeOK
<1>2. RoundsTypeOK' /\ (\A h \in Giri : ~Chiuso(h) => esito'[h] = "nessuno")
  <2>1. CASE \/ UNCHANGED roundVars
             \/ \E g \in Giri : \/ Segnala(g) \/ Appende(g)
                                \/ \E n \in Nets : Apre(n, g)
    BY <1>1, <2>1, GiriSenzaEsito DEF Chiuso
  <2>2. ASSUME NEW g \in Giri, Dimentica(g)
        PROVE  RoundsTypeOK' /\ (\A h \in Giri : ~Chiuso(h) => esito'[h] = "nessuno")
    BY <1>1, <2>2 DEF Dimentica, RoundsTypeOK, Chiuso, Esiti
  <2> QED
    BY <2>1, <2>2 DEF Altri, CambiaPausa, vars
<1>3. TypeOK'
  BY <1>1, <1>2 DEF IInv, TypeOK
<1>4. GuardiaEsatta'
  BY <1>1, GuardiaSiTiene DEF IInv
<1>5. ASSUME NEW f \in Esecuzioni PROVE Giusta(ex[f])' /\ SenzaEsito(ex[f])'
  <2>1. ex[f].aperti \subseteq Giri /\ Giusta(ex[f]) /\ SenzaEsito(ex[f])
    BY Contesto DEF Esecuzione
  <2>2. \A h \in ex[f].aperti : esito'[h] = "nessuno"
    BY <1>2, <2>1 DEF SenzaEsito
  <2> QED
    BY <1>1, <2>1, <2>2 DEF SenzaEsito, Chiuso
<1> QED
  BY <1>3, <1>4, <1>5 DEF IInv

LEMMA VuoteGiuste ==
    /\ Vuota \in Esecuzione /\ Giusta(Vuota) /\ Vuota.aperti = {} /\ ~Coperta(Vuota)
<1>1. /\ Vuota \in Esecuzione /\ Vuota.pc = "libera" /\ Vuota.aperti = {}
      /\ Vuota.cron = FALSE /\ Vuota.timbro = FALSE
  BY DEF Vuota, Esecuzione, Passi
<1> QED
  BY <1>1 DEF Giusta, SuRete, Spente, Coperta

\* The restart forgets rounds, keys and executions together.
LEMMA PassoRiavvio ==
    ASSUME IInv, Riavvio
    PROVE  IInv'
<1>1. \A f \in Esecuzioni : ex'[f] = Vuota
  BY DEF Riavvio
<1>2. RoundsTypeOK' /\ runningJobs' = {}
  BY DEF Riavvio, Crollo, RoundsTypeOK, Esiti
<1>3. TypeOK'
  BY <1>2, VuoteGiuste DEF IInv, TypeOK, Riavvio, Esecuzione
<1>4. EsattaPer(runningJobs', ex')
  BY <1>1, <1>2, VuoteGiuste DEF EsattaPer
<1>5. \A f \in Esecuzioni : Giusta(ex'[f]) /\ SenzaEsito(ex[f])'
  BY <1>1, VuoteGiuste DEF SenzaEsito
<1> QED
  BY <1>3, <1>4, <1>5, EsattaPoi DEF IInv

-----------------------------------------------------------------------------
(* The invariant and what it says                                          *)

LEMMA InizioIInv == Init => IInv
<1> SUFFICES ASSUME Init PROVE IInv
  OBVIOUS
<1>1. \A f \in Esecuzioni : ex[f] = Vuota
  BY DEF Init
<1>2. TypeOK
  <2>1. RoundsTypeOK
    BY DEF Init, RoundsInit, RoundsTypeOK, Esiti
  <2>2. ex \in [Esecuzioni -> Esecuzione]
    BY VuoteGiuste DEF Init
  <2>3. runningJobs \subseteq Jobs /\ pausa \in BOOLEAN
    BY DEF Init
  <2> QED
    BY <2>1, <2>2, <2>3, TipoDelleEsecuzioni
<1>3. EsattaPer(runningJobs, ex)
  BY <1>1, VuoteGiuste DEF EsattaPer, Init
<1>4. \A f \in Esecuzioni : Giusta(ex[f]) /\ SenzaEsito(ex[f])
  BY <1>1, VuoteGiuste DEF SenzaEsito
<1> QED
  BY <1>2, <1>3, <1>4, Esatta DEF IInv

LEMMA PassoIInv == IInv /\ [Next]_vars => IInv'
<1> SUFFICES ASSUME IInv, [Next]_vars PROVE IInv'
  OBVIOUS
<1>1. ASSUME NEW e \in Esecuzioni, NEW j \in Jobs, NEW cron \in BOOLEAN,
             Inizia(e, j, cron)
      PROVE  IInv'
  BY <1>1, PassoInizia
<1>2. ASSUME NEW e \in Esecuzioni, PassoSuReti(e) PROVE IInv'
  BY <1>2, PassoScegli, PassoRetiFinite, PassoAvvia, PassoOccupata, PassoSenzaGiro,
     PassoAttesa, PassoSmette, PassoChiuso, PassoLascia DEF PassoSuReti
<1>3. ASSUME NEW e \in Esecuzioni, Passo(e) PROVE IInv'
  BY <1>2, <1>3, PassoLavora, PassoChiudi, PassoArchivia DEF Passo
<1>4. ASSUME NEW e \in Esecuzioni, Scade(e) PROVE IInv'
  BY <1>4, PassoAttesa
<1>5. ASSUME NEW g \in Giri, GiroFinisce(g) PROVE IInv'
  BY <1>5, PassoFinisce
<1>6. CASE Altri \/ CambiaPausa \/ UNCHANGED vars
  BY <1>6, PassoAltri
<1>7. CASE Riavvio
  BY <1>7, PassoRiavvio
<1> QED
  BY <1>1, <1>3, <1>4, <1>5, <1>6, <1>7 DEF Next

\* The invariant of the executions holds in every state the scheduler can reach,
\* for any jobs, networks, executions and rounds (scheduler.ts, jobs.ts).
THEOREM EsecuzioniGiuste == SafeSpec => []IInv
<1> QED
  BY InizioIInv, PassoIInv, PTL DEF SafeSpec

\* The guard is exact, and a pass gives each network of its job one outcome, for
\* any number of jobs and of executions (scheduler.ts:199-234, jobs.ts:642-687).
THEOREM JobsInvariante == SafeSpec => []JobsInv
<1>1. IInv => JobsInv
  <2> SUFFICES ASSUME IInv PROVE JobsInv
    OBVIOUS
  <2>1. \A e \in Esecuzioni : ex[e].pc = "chiude" => Esito(ex[e])
    BY DEF IInv, Giusta
  <2>2. OgniReteContata
    BY <2>1 DEF OgniReteContata, Esito
  <2> QED
    BY <2>2 DEF IInv, JobsInv
<1> QED
  BY <1>1, EsecuzioniGiuste, PTL

\* last_run of a scan job means the end of its rounds: no open round, and a
\* network done, whenever it is written (jobs.ts:642-687, scheduler.ts:212-217).
THEOREM LastRunInvariante == SafeSpec => []LastRunVuolDireFine
<1>1. IInv => LastRunVuolDireFine
  BY DEF IInv, Giusta, LastRunVuolDireFine
<1> QED
  BY <1>1, EsecuzioniGiuste, PTL

\* The cron skips a network only after the longest wait (jobs.ts:606-615).
THEOREM SaltoInvariante == SafeSpec => []SaltaSoloAScadenza
<1>1. IInv => SaltaSoloAScadenza
  BY DEF IInv, Giusta, SaltaSoloAScadenza
<1> QED
  BY <1>1, EsecuzioniGiuste, PTL
=============================================================================
