------------------------------- MODULE ScanJobs -------------------------------
(***************************************************************************)
(* The jobs of the scheduler and their «Esegui ora» (cron/scheduler.ts and *)
(* cron/jobs.ts): the running-jobs guard, the wait for a busy network, the *)
(* wait for the job's own round, the pass over all the networks, and what  *)
(* is written when the job is over.  The rounds are those of NetworkRounds.*)
(*                                                                         *)
(* An execution is a slot of the finite set Esecuzioni, reused when it is  *)
(* over; its `aperti` are the rounds it started that are still open.       *)
(* Networks of a job are taken in any order (the code takes them in the    *)
(* order of the database).                                                 *)
(***************************************************************************)
EXTENDS NetworkRounds

CONSTANTS
    Jobs,         \* job ids of a tenant
    Reti,         \* Reti[j]: networks of a scan job; {} for the other types
    Apparati,     \* the jobs of type apparati_scelti
    Esecuzioni,   \* execution slots
    NoJob

ASSUME JobsAssumption ==
    /\ Reti \in [Jobs -> SUBSET Nets]
    /\ Apparati \subseteq {j \in Jobs : Reti[j] = {}}
    /\ NoJob \notin Jobs

VARIABLES
    runningJobs,  \* keys of the executions the guard covers
    ex,           \* the executions
    pausa         \* the vault is locked (motivoPausaVault)

jobVars == <<runningJobs, ex, pausa>>
vars == <<roundVars, jobVars>>

DiScansione == {j \in Jobs : Reti[j] # {}}

\* Where an execution is: "sceglie": the loop of suOgniRete takes its next
\* network; "avvia", "rilegge", "attende", "segue": giroCompleto before a start,
\* after a refused one, asleep on the holder's release, asleep on its own
\* `done`; "lavora": a job that is not a scan; "chiude": runJob has settled;
\* "finita": the slot keeps the execution that is over; "libera": unused.
Passi  == {"libera", "sceglie", "avvia", "rilegge", "attende", "segue",
           "lavora", "chiude", "finita"}
Spente == {"libera", "finita"}

Vuota ==
    [pc |-> "libera", job |-> NoJob, cron |-> FALSE, daFare |-> {},
     rimandate |-> {}, attendi |-> FALSE, rete |-> NoGiro, giro |-> NoGiro,
     occupante |-> NoGiro, atteso |-> NoGiro, scaduto |-> FALSE,
     fatte |-> {}, saltate |-> {}, errori |-> {}, scadute |-> {},
     aperti |-> {}, esito |-> "nessuno", timbro |-> FALSE]

\* The running-jobs guard covers the ticks of the cron and apparati_scelti.
Guardata(j, cron) == cron \/ j \in Apparati

Init ==
    /\ RoundsInit
    /\ runningJobs = {}
    /\ ex = [e \in Esecuzioni |-> Vuota]
    /\ pausa = FALSE

Aggiorna(e, r) == ex' = [ex EXCEPT ![e] = r]

-----------------------------------------------------------------------------
(* Starting: eseguiJobProgrammato (cron) and eseguiJobOra                  *)

\* One network: that network, waiting for it only if the cron asked.  All the
\* networks: first those that are free, then, for the cron, the busy ones.
Partenza(j, cron) ==
    LET base == [Vuota EXCEPT !.job = j, !.cron = cron]
        una  == \E n \in Nets : Reti[j] = {n}
    IN  IF pausa
          THEN [base EXCEPT !.pc = "chiude", !.esito = "saltato"]
        ELSE IF j \notin DiScansione
          THEN [base EXCEPT !.pc = "lavora"]
        ELSE [base EXCEPT !.pc = "sceglie",
                          !.daFare = IF una THEN {} ELSE Reti[j],
                          !.rimandate = IF una THEN Reti[j] ELSE {}]

\* The job is not in the database of its tenant any more, or the tenant context
\* is another one (assertTenantContext): it fails before it does anything.
SenzaPartire(j, cron) ==
    [Vuota EXCEPT !.job = j, !.cron = cron, !.pc = "chiude", !.esito = "fallito"]

\* Refused («gia_in_esecuzione», «in_corso») when the guard holds the key.
Inizia(e, j, cron) ==
    /\ ex[e].pc \in Spente
    /\ Guardata(j, cron) => j \notin runningJobs
    /\ runningJobs' = IF Guardata(j, cron) THEN runningJobs \union {j} ELSE runningJobs
    /\ \/ Aggiorna(e, Partenza(j, cron))
       \/ Aggiorna(e, SenzaPartire(j, cron))
    /\ UNCHANGED <<roundVars, pausa>>

-----------------------------------------------------------------------------
(* suOgniRete: one network after the other                                 *)

\* The network of r leaves the queue it was taken from.
Tolta(r) == [r EXCEPT !.pc = "sceglie", !.daFare = @ \ {r.rete},
                      !.rimandate = @ \ {r.rete}, !.giro = NoGiro,
                      !.occupante = NoGiro, !.atteso = NoGiro,
                      !.scaduto = FALSE]

Fatta(r)   == [Tolta(r) EXCEPT !.fatte = @ \union {r.rete}]
Fallita(r) == [Tolta(r) EXCEPT !.errori = @ \union {r.rete}]

\* Busy: in the first pass of the cron it is put off, otherwise it is skipped.
Occupata(r) ==
    IF r.rete \in r.daFare /\ r.cron
      THEN [Tolta(r) EXCEPT !.rimandate = @ \union {r.rete}]
      ELSE [Tolta(r) EXCEPT !.saltate = @ \union {r.rete}]

\* Mutant: the networks put off are tried again without waiting.
ScegliReteSenzaAttesa(e, n) ==
    /\ ex[e].pc = "sceglie"
    /\ n \in IF ex[e].daFare # {} THEN ex[e].daFare ELSE ex[e].rimandate
    /\ Aggiorna(e, [ex[e] EXCEPT !.pc = "avvia", !.rete = n, !.attendi = FALSE])
    /\ UNCHANGED <<roundVars, runningJobs, pausa>>

ScegliRete(e, n) ==
    /\ ex[e].pc = "sceglie"
    /\ n \in IF ex[e].daFare # {} THEN ex[e].daFare ELSE ex[e].rimandate
    /\ Aggiorna(e, [ex[e] EXCEPT !.pc = "avvia", !.rete = n,
                                 !.attendi = ex[e].cron /\ ex[e].daFare = {}])
    /\ UNCHANGED <<roundVars, runningJobs, pausa>>

\* Mutant: the networks put off are never come back to.
RetiFinitePrima(e) ==
    /\ ex[e].pc = "sceglie"
    /\ ex[e].daFare = {}
    /\ Aggiorna(e, [ex[e] EXCEPT
          !.pc = "chiude",
          !.esito = IF ex[e].errori # {} THEN "fallito"
                    ELSE IF ex[e].saltate = Reti[ex[e].job] THEN "saltato"
                    ELSE "eseguito"])
    /\ UNCHANGED <<roundVars, runningJobs, pausa>>

\* The loops are over: failed if a network failed, skipped if all were.
RetiFinite(e) ==
    /\ ex[e].pc = "sceglie"
    /\ ex[e].daFare = {} /\ ex[e].rimandate = {}
    /\ Aggiorna(e, [ex[e] EXCEPT
          !.pc = "chiude",
          !.esito = IF ex[e].errori # {} THEN "fallito"
                    ELSE IF ex[e].saltate = Reti[ex[e].job] THEN "saltato"
                    ELSE "eseguito"])
    /\ UNCHANGED <<roundVars, runningJobs, pausa>>

-----------------------------------------------------------------------------
(* giroCompleto: one round, from its start to its end                      *)

AvviaGiro(e, g) ==
    /\ ex[e].pc = "avvia"
    /\ Apre(ex[e].rete, g)
    /\ Aggiorna(e, [ex[e] EXCEPT !.pc = "segue", !.giro = g, !.scaduto = FALSE,
                                 !.aperti = @ \union {g}])
    /\ UNCHANGED <<runningJobs, pausa>>

\* Mutant: the wait is on the network, not on the round that holds it.
RiprendeSullaRete(e) ==
    /\ ex[e].pc = "rilegge"
    /\ ~ex[e].scaduto
    /\ Aggiorna(e, [ex[e] EXCEPT !.pc = "attende", !.atteso = ex[e].rete])
    /\ UNCHANGED <<roundVars, runningJobs, pausa>>

\* prendiRete refuses (and may write the alarm of the round it finds).
ReteOccupata(e) ==
    LET h == giri[ex[e].rete] IN
    /\ ex[e].pc = "avvia"
    /\ h # NoGiro
    /\ Avvisa(h) \/ UNCHANGED roundVars
    /\ Aggiorna(e, IF ex[e].attendi
                     THEN [ex[e] EXCEPT !.pc = "rilegge", !.occupante = h]
                     ELSE Occupata(ex[e]))
    /\ UNCHANGED <<runningJobs, pausa>>

\* The start throws for a reason of its own (no network, no address).
AvvioFallito(e) ==
    /\ ex[e].pc = "avvia"
    /\ Aggiorna(e, Fallita(ex[e]))
    /\ UNCHANGED <<roundVars, runningJobs, pausa>>

\* runSnmpScan, runNmapScan: the network was deleted, there is nothing to do.
ReteSparita(e) ==
    /\ ex[e].pc = "avvia"
    /\ Aggiorna(e, Fatta(ex[e]))
    /\ UNCHANGED <<roundVars, runningJobs, pausa>>

\* After the refusal: the lock is read again, and the wait is on whoever holds
\* the network now; the deadline is the one of the first attempt.
Riprende(e) ==
    LET h == giri[ex[e].rete] IN
    /\ ex[e].pc = "rilegge"
    /\ ~ex[e].scaduto
    /\ Aggiorna(e, IF h = NoGiro
                     THEN [ex[e] EXCEPT !.pc = "avvia", !.occupante = NoGiro]
                     ELSE [ex[e] EXCEPT !.pc = "attende", !.atteso = h])
    /\ UNCHANGED <<roundVars, runningJobs, pausa>>

\* Mutant: every attempt starts the wait anew.
RiprendeDaCapo(e) ==
    /\ ex[e].pc = "attende"
    /\ giri[ex[e].rete] # ex[e].atteso
    /\ Aggiorna(e, [ex[e] EXCEPT !.pc = "avvia", !.scaduto = FALSE,
                                 !.occupante = NoGiro, !.atteso = NoGiro])
    /\ UNCHANGED <<roundVars, runningJobs, pausa>>

\* The awaited round has released the network: it is tried again.
Svegliato(e) ==
    /\ ex[e].pc = "attende"
    /\ giri[ex[e].rete] # ex[e].atteso
    /\ Aggiorna(e, [ex[e] EXCEPT !.pc = "avvia", !.occupante = NoGiro,
                                 !.atteso = NoGiro])
    /\ UNCHANGED <<roundVars, runningJobs, pausa>>

\* segnalaGiroLungo: only if the round still holds the network.
SegnalaGiroLungo(n, g) ==
    IF giri[n] = g THEN Avvisa(g) ELSE UNCHANGED roundVars

\* The deadline, seen on reading the clock or by the timer: alarm and skip.
SmetteDiAspettare(e) ==
    /\ ex[e].scaduto
    /\ \/ ex[e].pc = "rilegge"
       \/ ex[e].pc = "attende" /\ giri[ex[e].rete] = ex[e].atteso
    /\ SegnalaGiroLungo(ex[e].rete, ex[e].occupante)
    /\ Aggiorna(e, [Occupata(ex[e]) EXCEPT !.scadute = @ \union {ex[e].rete}])
    /\ UNCHANGED <<runningJobs, pausa>>

\* `done` has settled: a stop by hand is not a failure.
GiroChiuso(e) ==
    LET x == esito[ex[e].giro] IN
    /\ ex[e].pc = "segue"
    /\ Chiuso(ex[e].giro)
    /\ Aggiorna(e, IF x = "failed" THEN Fallita(ex[e]) ELSE Fatta(ex[e]))
    /\ UNCHANGED <<roundVars, runningJobs, pausa>>

\* Mutant: the job counts a round it no longer awaits as done.
LasciaGiroComeFatto(e) ==
    /\ ex[e].pc = "segue"
    /\ ex[e].scaduto
    /\ ~Chiuso(ex[e].giro)
    /\ SegnalaGiroLungo(ex[e].rete, ex[e].giro)
    /\ Aggiorna(e, Fatta(ex[e]))
    /\ UNCHANGED <<runningJobs, pausa>>

\* The job's own round is not closed after the longest wait: alarm, the job
\* fails on this network, the round goes on and keeps it.
LasciaGiro(e) ==
    /\ ex[e].pc = "segue"
    /\ ex[e].scaduto
    /\ ~Chiuso(ex[e].giro)
    /\ SegnalaGiroLungo(ex[e].rete, ex[e].giro)
    /\ Aggiorna(e, Fallita(ex[e]))
    /\ UNCHANGED <<runningJobs, pausa>>

\* The longest wait (attesaMassimaMs) passes.
Scade(e) ==
    /\ ex[e].pc \in {"avvia", "rilegge", "attende", "segue"}
    /\ ~ex[e].scaduto
    /\ Aggiorna(e, [ex[e] EXCEPT !.scaduto = TRUE])
    /\ UNCHANGED <<roundVars, runningJobs, pausa>>

-----------------------------------------------------------------------------
(* The end of an execution                                                 *)

\* A job that is not a scan settles; apparati_scelti may have had nothing to
\* try, which is «saltato».
Lavora(e, x) ==
    /\ ex[e].pc = "lavora"
    /\ x \in {"eseguito", "fallito"}
             \union (IF ex[e].job \in Apparati THEN {"saltato"} ELSE {})
    /\ Aggiorna(e, [ex[e] EXCEPT !.pc = "chiude", !.esito = x])
    /\ UNCHANGED <<roundVars, runningJobs, pausa>>

\* last_run: on «eseguito» only, except that «Esegui ora» of a job that is
\* neither a scan nor apparati_scelti does not look at the outcome.
Timbra(r) ==
    IF r.cron \/ r.job \in DiScansione \union Apparati
      THEN r.esito = "eseguito"
      ELSE r.esito # "fallito"

\* Mutant: a job that ends by throwing leaves its key.
ChiudiLasciaChiave(e) ==
    /\ ex[e].pc = "chiude"
    /\ runningJobs' = IF Guardata(ex[e].job, ex[e].cron) /\ ex[e].esito # "fallito"
                        THEN runningJobs \ {ex[e].job} ELSE runningJobs
    /\ Aggiorna(e, [ex[e] EXCEPT !.pc = "finita", !.timbro = Timbra(ex[e])])
    /\ UNCHANGED <<roundVars, pausa>>

Chiudi(e) ==
    /\ ex[e].pc = "chiude"
    /\ runningJobs' = IF Guardata(ex[e].job, ex[e].cron)
                        THEN runningJobs \ {ex[e].job} ELSE runningJobs
    /\ Aggiorna(e, [ex[e] EXCEPT !.pc = "finita", !.timbro = Timbra(ex[e])])
    /\ UNCHANGED <<roundVars, pausa>>

\* The slot is reused (bookkeeping of the model).
Archivia(e) ==
    /\ ex[e].pc = "finita"
    /\ Aggiorna(e, Vuota)
    /\ UNCHANGED <<roundVars, runningJobs, pausa>>

-----------------------------------------------------------------------------
(* Everybody else                                                          *)

\* Ids that an execution may still read.
Riferiti == UNION {{ex[e].giro, ex[e].occupante, ex[e].atteso} : e \in Esecuzioni}

Altri ==
    /\ \/ \E n \in Nets, g \in Giri : g \notin Riferiti /\ Apre(n, g)
       \/ \E g \in Giri : Segnala(g) \/ Appende(g)
       \/ \E g \in Giri : g \notin Riferiti /\ Dimentica(g)
    /\ UNCHANGED jobVars

GiroFinisce(g) ==
    /\ \E x \in Esiti \ {"nessuno"} : Chiude(g, x)
    /\ ex' = [e \in Esecuzioni |-> [ex[e] EXCEPT !.aperti = @ \ {g}]]
    /\ UNCHANGED <<runningJobs, pausa>>

\* The vault is locked, or unlocked.
CambiaPausa ==
    /\ pausa' = ~pausa
    /\ UNCHANGED <<roundVars, runningJobs, ex>>

Riavvio ==
    /\ Crollo
    /\ runningJobs' = {}
    /\ ex' = [e \in Esecuzioni |-> Vuota]
    /\ UNCHANGED pausa

-----------------------------------------------------------------------------
PassoSuReti(e) ==
    \/ \E n \in Nets : ScegliRete(e, n)
    \/ RetiFinite(e)
    \/ \E g \in Giri : g \notin Riferiti /\ AvviaGiro(e, g)
    \/ ReteOccupata(e)
    \/ AvvioFallito(e)
    \/ ReteSparita(e)
    \/ Riprende(e)
    \/ Svegliato(e)
    \/ SmetteDiAspettare(e)
    \/ GiroChiuso(e)
    \/ LasciaGiro(e)

Passo(e) ==
    \/ PassoSuReti(e)
    \/ \E x \in {"eseguito", "fallito", "saltato"} : Lavora(e, x)
    \/ Chiudi(e)
    \/ Archivia(e)

Next ==
    \/ \E e \in Esecuzioni, j \in Jobs, cron \in BOOLEAN : Inizia(e, j, cron)
    \/ \E e \in Esecuzioni : Passo(e) \/ Scade(e)
    \/ \E g \in Giri : GiroFinisce(g)
    \/ Altri
    \/ CambiaPausa
    \/ Riavvio

SafeSpec == Init /\ [][Next]_vars

\* The clock runs and what is ready in the event loop is run.  Rounds may hang,
\* users may never ask anything, the vault may stay locked.
Fairness ==
    /\ \A e \in Esecuzioni : WF_vars(Passo(e)) /\ WF_vars(Scade(e))
    /\ \A g \in Giri : WF_vars(g \notin Riferiti /\ Dimentica(g) /\ UNCHANGED jobVars)

Spec == SafeSpec /\ Fairness
-----------------------------------------------------------------------------
(* Properties                                                              *)

\* Type invariant.
TypeOK ==
    /\ RoundsTypeOK
    /\ runningJobs \subseteq Jobs
    /\ pausa \in BOOLEAN
    /\ ex \in [Esecuzioni ->
         [pc : Passi, job : Jobs \union {NoJob}, cron : BOOLEAN,
          daFare : SUBSET Nets, rimandate : SUBSET Nets, attendi : BOOLEAN,
          rete : Nets \union {NoGiro}, giro : Giri \union {NoGiro},
          occupante : Giri \union {NoGiro}, atteso : Giri \union {NoGiro},
          scaduto : BOOLEAN, fatte : SUBSET Nets,
          saltate : SUBSET Nets, errori : SUBSET Nets, scadute : SUBSET Nets,
          aperti : SUBSET Giri,
          esito : {"nessuno", "eseguito", "saltato", "fallito"},
          timbro : BOOLEAN]]

\* last_run of a scan job means the END of its rounds: when it is written no
\* round the execution started is still open, and a network at least was done.
LastRunVuolDireFine ==
    \A e \in Esecuzioni :
        ex[e].timbro /\ ex[e].job \in DiScansione =>
            /\ ex[e].aperti = {}
            /\ ex[e].fatte # {}

\* A pass accounts for every network of its job, each with one outcome: one
\* that fails or hangs does not hide the others.
OgniReteContata ==
    \A e \in Esecuzioni :
        LET r == ex[e]
            arrivataInFondo == r.esito = "eseguito" \/ r.errori # {}
        IN
        r.pc = "chiude" /\ r.job \in DiScansione /\ arrivataInFondo =>
            /\ r.fatte \union r.saltate \union r.errori = Reti[r.job]
            /\ r.fatte \intersect r.saltate = {}
            /\ r.fatte \intersect r.errori = {}
            /\ r.saltate \intersect r.errori = {}

\* The cron gives a busy network up only after the longest wait: two jobs at
\* the same minute do not make the same one lose its turn every time.
SaltaSoloAScadenza ==
    \A e \in Esecuzioni : ex[e].cron => ex[e].saltate \subseteq ex[e].scadute

\* The guard is exact: a job never runs twice under it, and no execution leaves
\* its key behind, which would stop the job until the next restart.
GuardiaEsatta ==
    LET Sotto == {e \in Esecuzioni :
                    ex[e].pc \notin Spente /\ Guardata(ex[e].job, ex[e].cron)}
    IN  /\ runningJobs = {ex[e].job : e \in Sotto}
        /\ \A e, f \in Sotto : ex[e].job = ex[f].job => e = f

\* The executions, their keys and their counts agree: the type invariant, the exact
\* guard (scheduler.ts:199-234) and a pass in which each network has one outcome
\* (jobs.ts:642-687).
JobsInv == TypeOK /\ GuardiaEsatta /\ OgniReteContata

\* «saltato»: who calls runJob does not write last_run (jobs.ts:165-169).
IlSaltatoNonTimbra ==
    \A e \in Esecuzioni : ex[e].timbro => ex[e].esito # "saltato"

\* Every execution ends, also when the rounds it waits for, or its own, hang.
OgniJobFinisce ==
    \A e \in Esecuzioni : ex[e].pc \notin Spente ~> ex[e].pc \in Spente
=============================================================================
