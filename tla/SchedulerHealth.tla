---------------------------- MODULE SchedulerHealth ----------------------------
(***************************************************************************)
(* Who notices that the scheduler has stopped, for one tenant: the jobs    *)
(* that write last_run and the series of failures kept in memory           *)
(* (cron/scheduler.ts, health/job-failure-tracker.ts), the verdict on the  *)
(* table (health/scheduler-freshness.ts), and the half-hourly round that   *)
(* tells it to somebody and saves what it told                             *)
(* (health/scheduler-health-notify.ts, with the decision and the row it    *)
(* shares with the health of the appliance and of Wazuh).                  *)
(*                                                                         *)
(* Time is counted in rounds, and kept as ages: an age stops growing when  *)
(* nothing asks how much older it is.  A dispatch ends before the next     *)
(* round.  The channels are the environment.                               *)
(***************************************************************************)
EXTENDS Naturals, FiniteSets

CONSTANTS
    Job,
    Tolleranza,   \* Tolleranza[j]: three intervals of j and a quarter of an hour
    MinJob,       \* OUTAGE_MIN_JOBS
    Soglia,       \* ALARM_CONSECUTIVE_FAILURES
    AllarmeOgni,  \* ALARM_REPEAT_MINUTES
    RipetiDopo    \* REPEAT_AFTER_HOURS

ASSUME HealthAssumption ==
    /\ IsFiniteSet(Job)
    /\ Tolleranza \in [Job -> Nat]
    /\ MinJob \in Nat /\ Soglia \in Nat \ {0}
    /\ AllarmeOgni \in Nat \ {0} /\ RipetiDopo \in Nat \ {0}

VARIABLES
    eta,      \* age of last_run, or of created_at; over the tolerance: too old
    attivo,   \* scheduled_jobs.enabled
    serie,    \* consecutive failures of each job, up to Soglia
    allarme,  \* age of its last alarm; AllarmeOgni: old enough, or none
    perso,    \* the process has lost the tenant context
    acceso,   \* notify_enabled
    scatto,   \* a round is due
    riga,     \* the row «scheduler» of appliance_health_state
    giro,     \* the running round
    saputo,   \* history: the last verdict that a channel accepted, and its age
    taciuto,  \* history: the verdict of a notice that no channel accepted
    perduto   \* history: a crash has swallowed the record of a notice accepted

vars == <<eta, attivo, serie, allarme, perso, acceso, scatto, riga, giro,
          saputo, taciuto, perduto>>
delJob == <<eta, attivo, serie, allarme, perso>>
detto == <<saputo, taciuto, perduto>>

Guasti   == {"degraded", "fail"}
Verdetti == Guasti \union {"ok"}
Mai      == RipetiDopo + 1      \* last_notified_at is NULL

Fermo == [pc |-> "fermo", verdetto |-> "ok", motivo |-> "nessuna", accettato |-> FALSE]

Init ==
    /\ eta = [j \in Job |-> 0]
    /\ attivo \in [Job -> BOOLEAN]
    /\ serie = [j \in Job |-> 0]
    /\ allarme = [j \in Job |-> AllarmeOgni]
    /\ perso = FALSE
    /\ acceso \in BOOLEAN
    /\ scatto = FALSE
    /\ riga = [verdetto |-> "assente", avviso |-> Mai]
    /\ giro = Fermo
    /\ saputo = [verdetto |-> "ok", eta |-> RipetiDopo]
    /\ taciuto = "niente"
    /\ perduto = FALSE

Invecchia(n, limite) == IF n < limite THEN n + 1 ELSE n

-----------------------------------------------------------------------------
(* The jobs                                                                *)

\* eseguiJobProgrammato, «eseguito».
Riesce(j) ==
    /\ attivo[j] /\ ~perso
    /\ eta' = [eta EXCEPT ![j] = 0]
    /\ serie' = [serie EXCEPT ![j] = 0]
    /\ allarme' = [allarme EXCEPT ![j] = AllarmeOgni]
    /\ UNCHANGED <<attivo, perso, acceso, scatto, riga, giro, detto>>

\* Mutant: a failure is a run.
FallisceTimbrando(j) ==
    LET n == Invecchia(serie[j], Soglia) IN
    /\ attivo[j]
    /\ eta' = [eta EXCEPT ![j] = 0]
    /\ serie' = [serie EXCEPT ![j] = n]
    /\ allarme' = IF n = Soglia /\ allarme[j] = AllarmeOgni
                    THEN [allarme EXCEPT ![j] = 0] ELSE allarme
    /\ UNCHANGED <<attivo, perso, acceso, scatto, riga, giro, detto>>

\* «fallito»: the job throws, or the context is not the one of its tenant and it
\* does not start (assertTenantContext); with the alarm of escalateIfSerial.
Fallisce(j) ==
    LET n == Invecchia(serie[j], Soglia) IN
    /\ attivo[j]
    /\ serie' = [serie EXCEPT ![j] = n]
    /\ allarme' = IF n = Soglia /\ allarme[j] = AllarmeOgni
                    THEN [allarme EXCEPT ![j] = 0] ELSE allarme
    /\ UNCHANGED <<eta, attivo, perso, acceso, scatto, riga, giro, detto>>

\* «Esegui ora», gone well: the series is not told.
EseguiOra(j) ==
    /\ ~perso
    /\ eta' = [eta EXCEPT ![j] = 0]
    /\ UNCHANGED <<attivo, serie, allarme, perso, acceso, scatto, riga, giro, detto>>

\* A job is switched on or off; its last_run stays.
Abilita(j) ==
    /\ attivo' = [attivo EXCEPT ![j] = ~@]
    /\ UNCHANGED <<eta, serie, allarme, perso, acceso, scatto, riga, giro, detto>>

\* A second instance of db-tenant: until the restart nobody finds the context.
PerdeIlContesto ==
    /\ ~perso
    /\ perso' = TRUE
    /\ UNCHANGED <<eta, attivo, serie, allarme, acceso, scatto, riga, giro, detto>>

-----------------------------------------------------------------------------
(* The verdict and the decision                                            *)

Attivi == {j \in Job : attivo[j]}
Fermi  == {j \in Attivi : eta[j] > Tolleranza[j]}     \* findStaleJobs

Verdetto ==
    IF Fermi = {} THEN "ok"
    ELSE IF Fermi = Attivi /\ Cardinality(Attivi) >= MinJob THEN "fail"
    ELSE "degraded"

\* Mutant: what was told once is not repeated.
DecidiUnaVolta(r, v) ==
    IF v = "ok"
      THEN IF r.verdetto \in Guasti THEN "rientro" ELSE "nessuna"
    ELSE IF r.verdetto # v \/ r.avviso = Mai THEN "transizione"
    ELSE "nessuna"

\* Mutant: the age of the last notice is not looked at.
DecidiOgniGiro(r, v) ==
    IF v = "ok"
      THEN IF r.verdetto \in Guasti THEN "rientro" ELSE "nessuna"
    ELSE IF r.verdetto # v \/ r.avviso = Mai THEN "transizione"
    ELSE "ripetizione"

\* decideNotification.
Decidi(r, v) ==
    IF v = "ok"
      THEN IF r.verdetto \in Guasti THEN "rientro" ELSE "nessuna"
    ELSE IF r.verdetto # v \/ r.avviso = Mai THEN "transizione"
    ELSE IF r.avviso = RipetiDopo THEN "ripetizione"
    ELSE "nessuna"

-----------------------------------------------------------------------------
(* The round                                                               *)

\* Half an hour passes.
Scatta ==
    /\ ~scatto /\ giro.pc = "fermo"
    /\ scatto' = TRUE
    /\ eta' = [j \in Job |-> Invecchia(eta[j], Tolleranza[j] + 1)]
    /\ allarme' = [j \in Job |-> Invecchia(allarme[j], AllarmeOgni)]
    /\ riga' = IF riga.avviso = Mai THEN riga
               ELSE [riga EXCEPT !.avviso = Invecchia(@, RipetiDopo)]
    /\ saputo' = [saputo EXCEPT !.eta = Invecchia(@, RipetiDopo)]
    /\ UNCHANGED <<attivo, serie, perso, acceso, giro, taciuto, perduto>>

\* The verdict of this round, and whether it is worth a notice; if it is not, it
\* is saved at once.
Valuta ==
    LET d == Decidi(riga, Verdetto) IN
    /\ scatto /\ giro.pc = "fermo"
    /\ scatto' = FALSE
    /\ giro' = IF acceso /\ d # "nessuna"
                 THEN [pc |-> "invia", verdetto |-> Verdetto, motivo |-> d, accettato |-> FALSE]
                 ELSE giro
    /\ riga' = IF acceso /\ d = "nessuna" THEN [riga EXCEPT !.verdetto = Verdetto] ELSE riga
    /\ UNCHANGED <<delJob, acceso, detto>>

\* The channels answer: ok if one at least has accepted.
Spedisce(ok) ==
    /\ giro.pc = "invia"
    /\ ok => acceso
    /\ giro' = [giro EXCEPT !.pc = "salva", !.accettato = ok]
    /\ saputo' = IF ok THEN [verdetto |-> giro.verdetto, eta |-> 0] ELSE saputo
    /\ UNCHANGED <<delJob, acceso, scatto, riga, taciuto, perduto>>

\* Mutant: the notice is recorded whether it was accepted or not.
SalvaSempreDetto ==
    /\ giro.pc = "salva"
    /\ riga' = [verdetto |-> giro.verdetto, avviso |-> 0]
    /\ giro' = Fermo
    /\ taciuto' = IF giro.accettato THEN "niente" ELSE giro.verdetto
    /\ perduto' = (perduto /\ ~giro.accettato)
    /\ UNCHANGED <<delJob, acceso, scatto, saputo>>

\* The verdict is saved in any case, the time of the notice if it was accepted.
Salva ==
    /\ giro.pc = "salva"
    /\ riga' = [verdetto |-> giro.verdetto,
                avviso |-> IF giro.accettato THEN 0 ELSE riga.avviso]
    /\ giro' = Fermo
    /\ taciuto' = IF giro.accettato THEN "niente" ELSE giro.verdetto
    /\ perduto' = (perduto /\ ~giro.accettato)
    /\ UNCHANGED <<delJob, acceso, scatto, saputo>>

AccendeOSpegne ==
    /\ acceso' = ~acceso
    /\ UNCHANGED <<delJob, scatto, riga, giro, detto>>

\* The memory is empty; a notice just accepted is not recorded.
Riavvio ==
    /\ serie' = [j \in Job |-> 0]
    /\ allarme' = [j \in Job |-> AllarmeOgni]
    /\ perso' = FALSE
    /\ scatto' = FALSE
    /\ giro' = Fermo
    /\ perduto' = (perduto \/ (giro.pc = "salva" /\ giro.accettato))
    /\ UNCHANGED <<eta, attivo, acceso, riga, saputo, taciuto>>

-----------------------------------------------------------------------------
Next ==
    \/ \E j \in Job : Riesce(j) \/ Fallisce(j) \/ EseguiOra(j) \/ Abilita(j)
    \/ PerdeIlContesto
    \/ Scatta
    \/ Valuta
    \/ \E ok \in BOOLEAN : Spedisce(ok)
    \/ Salva
    \/ AccendeOSpegne
    \/ Riavvio

SafeSpec == Init /\ [][Next]_vars

\* The clock goes on, restarts do not fall on every round, and the channels, if
\* they are tried for ever, accept for ever.
Fairness ==
    /\ WF_vars(Scatta)
    /\ SF_vars(Valuta)
    /\ SF_vars(Spedisce(TRUE))
    /\ SF_vars(Salva)

Spec == SafeSpec /\ Fairness

-----------------------------------------------------------------------------
(* Properties                                                              *)

TypeOK ==
    /\ eta \in [Job -> Nat] /\ \A j \in Job : eta[j] <= Tolleranza[j] + 1
    /\ attivo \in [Job -> BOOLEAN]
    /\ serie \in [Job -> 0..Soglia]
    /\ allarme \in [Job -> 0..AllarmeOgni]
    /\ perso \in BOOLEAN /\ acceso \in BOOLEAN /\ scatto \in BOOLEAN
    /\ riga \in [verdetto : Verdetti \union {"assente"}, avviso : 0..Mai]
    /\ giro \in [pc : {"fermo", "invia", "salva"}, verdetto : Verdetti,
                 motivo : {"nessuna", "transizione", "ripetizione", "rientro"},
                 accettato : BOOLEAN]
    /\ saputo \in [verdetto : Verdetti, eta : 0..RipetiDopo]
    /\ taciuto \in Verdetti \union {"niente"}
    /\ perduto \in BOOLEAN

\* What the row says of a verdict: nothing yet is no fault.
DellaRiga == IF riga.verdetto = "assente" THEN "ok" ELSE riga.verdetto

\* Who receives the notices knows the verdict of the row, unless a notice was
\* refused by every channel or its record was swallowed by a crash; and the row
\* never claims a notice more recent than the last one accepted.
ChiRiceveSa ==
    /\ taciuto = "niente" /\ ~perduto /\ giro.pc # "salva" => saputo.verdetto = DellaRiga
    /\ riga.avviso # Mai => saputo.eta <= riga.avviso

\* A series that has rung its alarm is a whole series: the memory of an alarm does
\* not outlive the success that ends it.
AllarmeDiUnaSerie ==
    \A j \in Job : allarme[j] < AllarmeOgni => serie[j] = Soglia

\* The inductive invariant.
HealthInv ==
    /\ TypeOK
    /\ ChiRiceveSa
    /\ AllarmeDiUnaSerie
    /\ giro.pc # "fermo" => ~scatto
    /\ giro.pc = "salva" /\ giro.accettato =>
          saputo = [verdetto |-> giro.verdetto, eta |-> 0]
    /\ giro.pc = "salva" /\ ~giro.accettato /\ taciuto = "niente" /\ ~perduto =>
          saputo.verdetto = DellaRiga
    /\ giro.pc # "fermo" /\ giro.motivo = "ripetizione" => riga.avviso = RipetiDopo
    /\ riga.avviso # Mai /\ ~perduto /\ ~(giro.pc = "salva" /\ giro.accettato) =>
          saputo.eta = riga.avviso

\* The same fault is repeated no sooner than RipetiDopo after the last notice that
\* somebody received, whatever happened between the two; a crash between a notice
\* and its record is the only way to hear it twice.
SenzaRumore ==
    [][\A ok \in BOOLEAN :
         Spedisce(ok) /\ ok /\ giro.motivo = "ripetizione" =>
            saputo.eta = RipetiDopo \/ perduto]_vars

\* A fault that lasts is told, and goes on being told, also when some notices are
\* refused, the process restarts, or other verdicts were told before.
GuastoRipetuto ==
    \A v \in Guasti :
        <>[](acceso /\ Verdetto = v) => []<>(saputo = [verdetto |-> v, eta |-> 0])

\* The incident of 2026-09-02: the context is lost, nobody restarts, every job
\* fails: it is told that all the jobs are stopped (adr/0002).
IncidenteDetto ==
    <>[](perso /\ acceso /\ \A j \in Job : attivo[j]) => <>(saputo.verdetto = "fail")

\* scheduler-health-notify.ts:176: a notice that no channel has accepted «si
\* ritenta al giro successivo».  Refuted by the return to normal, and by a fault
\* that comes back within RipetiDopo of an older notice.
SiRitenta ==
    [][Valuta /\ acceso /\ taciuto \in Verdetti /\ Verdetto = taciuto => giro'.pc = "invia"]_vars
=============================================================================
