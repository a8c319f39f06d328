------------------------------ MODULE VulcanQueue ------------------------------
(***************************************************************************)
(* The outbox towards the hub DA-Vul-can: the table vulcan_coda            *)
(* (vulcan/coda.ts), the round that sends it, the ping, the heartbeat and  *)
(* the suspension of a token (vulcan/giro.ts), the jobs that run one at a  *)
(* time (vulcan/job.ts) and the AD export that enters the queue from       *)
(* outside of them (vulcan/accoda-ad.ts).  The hub and the network are the *)
(* environment: any answer, answers lost, crashes at any await.            *)
(*                                                                         *)
(* A row is named by its body, which the table keeps unique.  Times are    *)
(* kept as what the code asks of them: `attesa` (prossimo_tentativo is in  *)
(* the future) and `presa` (preso_fino is).  Jobs wait in a file of their  *)
(* own: here one starts, whichever it is, when none is running.            *)
(***************************************************************************)
EXTENDS Naturals, Sequences, FiniteSets

CONSTANTS
    NInventari,   \* bound: inventories queued in a behaviour
    Ad,           \* the AD Health exports
    Gettoni,      \* the tokens that DA-Link may write
    Nessuno,      \* no token, no row
    MaxTentativi, \* MAX_TENTATIVI
    MaxPerGiro    \* MAX_PER_GIRO

ASSUME QueueAssumption ==
    /\ NInventari \in Nat
    /\ Nessuno \notin Gettoni \union Ad \union (1..NInventari)
    /\ Ad \intersect (1..NInventari) = {}
    /\ MaxTentativi \in Nat \ {0}
    /\ MaxPerGiro \in Nat \ {0}

VARIABLES
    coda,        \* vulcan_coda
    sospeso,     \* vulcan_stato.sospeso_gettone
    gettone,     \* VULCAN_TOKEN in oggetto.env
    ping,        \* the token this process needs no ping for (memory and ping_esito)
    passi,       \* steps left to the job that is running
    giro,        \* the step that is at an await
    foto,        \* inventories queued so far; each is newer than the ones before
    ricevuti,    \* history: bodies the hub has received
    confermati,  \* history: bodies whose answer came back
    rifiutati,   \* history: bodies the hub has refused
    orfane       \* history: rows taken by a round that died

vars == <<coda, sospeso, gettone, ping, passi, giro, foto,
          ricevuti, confermati, rifiutati, orfane>>
storia == <<ricevuti, confermati, rifiutati, orfane>>

Inventari == 1..NInventari
Corpi     == Inventari \union Ad
Stati     == {"assente", "in_attesa", "inviato", "scartato", "fallito", "superato"}
Uscite    == {"inviato", "scartato", "superato"}

\* A row that is out of the queue has no body and is never read for sending.
Fuori(x) == [stato |-> x, corpo |-> FALSE, tentativi |-> 0,
             attesa |-> FALSE, presa |-> FALSE]
Nuova    == [stato |-> "in_attesa", corpo |-> TRUE, tentativi |-> 0,
             attesa |-> FALSE, presa |-> FALSE]

Riposo == [pc |-> "fuori", token |-> Nessuno, inVolo |-> Nessuno,
           restanti |-> {}, arrivato |-> FALSE]

Init ==
    /\ coda = [c \in Corpi |-> Fuori("assente")]
    /\ sospeso = Nessuno
    /\ gettone \in Gettoni \union {Nessuno}
    /\ ping = Nessuno
    /\ passi = <<>>
    /\ giro = Riposo
    /\ foto = 0
    /\ ricevuti = {}
    /\ confermati = {}
    /\ rifiutati = {}
    /\ orfane = {}

-----------------------------------------------------------------------------
(* Entering the queue                                                      *)

\* Mutant: a new body makes every waiting row old, the AD exports too.
AccodataSuTutte(c) ==
    IF coda[c].stato \in Stati \ {"assente", "scartato"} THEN coda
    ELSE [b \in Corpi |->
            IF b = c THEN Nuova
            ELSE IF c \in Inventari /\ coda[b].stato = "in_attesa" THEN Fuori("superato")
            ELSE coda[b]]

\* Mutant: a row that was refused comes back without its body.
AccodataSenzaCorpo(c) ==
    IF coda[c].stato \in Stati \ {"assente", "scartato"} THEN coda
    ELSE [b \in Corpi |->
            IF b = c THEN [Nuova EXCEPT !.corpo = coda[c].stato = "assente"]
            ELSE IF c \in Inventari /\ b \in Inventari /\ coda[b].stato = "in_attesa"
                   THEN Fuori("superato")
            ELSE coda[b]]

\* accoda: a body already there is not queued again, unless it was refused; a
\* new inventory makes the ones in wait old.
Accodata(c) ==
    IF coda[c].stato \in Stati \ {"assente", "scartato"} THEN coda
    ELSE [b \in Corpi |->
            IF b = c THEN Nuova
            ELSE IF c \in Inventari /\ b \in Inventari /\ coda[b].stato = "in_attesa"
                   THEN Fuori("superato")
            ELSE coda[b]]

\* accodaAdHealthSeAcceso, at the end of an AD run: between two awaits of
\* whatever the jobs are doing.
AccodaAd(c) ==
    /\ gettone # Nessuno
    /\ coda' = Accodata(c)
    /\ UNCHANGED <<sospeso, gettone, ping, passi, giro, foto, storia>>

-----------------------------------------------------------------------------
(* The jobs                                                                *)

Programmi == {<<"giro">>, <<"inventario">>, <<"battito">>,
              <<"inventario", "battito">>,
              <<"inventario", "rimetti", "giro", "battito">>}

\* A tick, or «Invia ora»: nothing starts without a token.
Comincia(p) ==
    /\ passi = <<>>
    /\ gettone # Nessuno
    /\ passi' = p
    /\ UNCHANGED <<coda, sospeso, gettone, ping, giro, foto, storia>>

Passo(x) == passi # <<>> /\ Head(passi) = x /\ giro.pc = "fuori"
FinePasso == passi' = Tail(passi) /\ giro' = Riposo

\* accodaInventario: the new inventory, then the rows V that left the queue
\* more than 90 days ago are deleted.
AccodaInventario(V) ==
    /\ Passo("inventario")
    /\ gettone # Nessuno
    /\ foto < NInventari
    /\ foto' = foto + 1
    /\ coda' = [c \in Corpi |-> IF c \in V THEN Fuori("assente")
                                ELSE Accodata(foto + 1)[c]]
    /\ ricevuti' = ricevuti \ V
    /\ confermati' = confermati \ V
    /\ rifiutati' = rifiutati \ V
    /\ orfane' = {c \in orfane : coda'[c].presa}
    /\ FinePasso
    /\ UNCHANGED <<sospeso, gettone, ping>>

\* No token any more, no inventory built, or a queue that does not take it: at
\* most a row born scartato, without a body, that nothing ever moves.
InventarioNonAccodato ==
    /\ Passo("inventario")
    /\ FinePasso
    /\ UNCHANGED <<coda, sospeso, gettone, ping, foto, storia>>

\* rimettiFalliti
RimettiFalliti ==
    /\ Passo("rimetti")
    /\ coda' = [c \in Corpi |-> IF coda[c].stato = "fallito"
                                  THEN [Nuova EXCEPT !.corpo = coda[c].corpo]
                                  ELSE coda[c]]
    /\ FinePasso
    /\ UNCHANGED <<sospeso, gettone, ping, foto, storia>>

-----------------------------------------------------------------------------
(* prepara: the suspension and the ping                                    *)

\* apri and the first lines of prepara: no token, no tenant, a database that
\* does not open, or the suspension of this very token end the step.
NonParte ==
    /\ \E x \in {"giro", "battito", "rimetti"} : Passo(x)
    /\ FinePasso
    /\ UNCHANGED <<coda, sospeso, gettone, ping, foto, storia>>

\* The rows a round may take.
Scadute == {c \in Corpi : coda[c].stato = "in_attesa" /\ ~coda[c].attesa /\ ~coda[c].presa}

\* prendiProssimi: as many as fit, all taken in one transaction; then the first
\* one is sent.  Any order: that of prossimo_tentativo is not kept here.
PrendiProssimi(t, S) ==
    /\ S \subseteq Scadute
    /\ Cardinality(S) = MaxPerGiro \/ (S = Scadute /\ Cardinality(S) < MaxPerGiro)
    /\ IF S = {} THEN FinePasso /\ UNCHANGED <<coda, orfane>>
       ELSE /\ coda' = [c \in Corpi |-> IF c \in S THEN [coda[c] EXCEPT !.presa = TRUE]
                                        ELSE coda[c]]
            /\ \E c \in S : giro' = [Riposo EXCEPT !.pc = "volo", !.token = t,
                                        !.inVolo = c, !.restanti = S \ {c}]
            /\ UNCHANGED <<passi, orfane>>

\* After prepara: the round takes its rows, the heartbeat is sent.
Procede(t) ==
    IF Head(passi) = "giro" THEN \E S \in SUBSET Scadute : PrendiProssimi(t, S)
    ELSE /\ giro' = [Riposo EXCEPT !.pc = "battito", !.token = t]
         /\ UNCHANGED <<coda, passi, orfane>>

\* Mutant: any suspension is taken off, that of the present token too.
ParteComunque(proseguito) ==
    /\ Passo("giro") \/ Passo("battito")
    /\ gettone # Nessuno
    /\ sospeso' = sospeso
    /\ LET noto == IF sospeso # Nessuno THEN Nessuno ELSE ping IN
       /\ ping' = noto
       /\ IF proseguito THEN noto = gettone /\ Procede(gettone)
          ELSE /\ giro' = [Riposo EXCEPT !.pc = "ping", !.token = gettone]
               /\ UNCHANGED <<coda, passi, orfane>>
    /\ UNCHANGED <<gettone, foto, ricevuti, confermati, rifiutati>>

\* The suspension of another token is taken off.  A token found good is not
\* asked again for 24 hours, if no ping failed since.
Parte(proseguito) ==
    /\ Passo("giro") \/ Passo("battito")
    /\ gettone # Nessuno
    /\ sospeso # gettone
    /\ sospeso' = Nessuno
    /\ LET noto == IF sospeso # Nessuno THEN Nessuno ELSE ping IN
       /\ ping' = noto
       /\ IF proseguito THEN noto = gettone /\ Procede(gettone)
          ELSE /\ giro' = [Riposo EXCEPT !.pc = "ping", !.token = gettone]
               /\ UNCHANGED <<coda, passi, orfane>>
    /\ UNCHANGED <<gettone, foto, ricevuti, confermati, rifiutati>>

\* 200 with the right client; or 503, the hub is off: the rows will say so.
PingProsegue(buono) ==
    /\ giro.pc = "ping"
    /\ ping' = IF buono THEN giro.token ELSE Nessuno
    /\ Procede(giro.token)
    /\ UNCHANGED <<sospeso, gettone, foto, ricevuti, confermati, rifiutati>>

\* Any other answer, or none: written in ping_esito, so the next step asks again.
PingErrore ==
    /\ giro.pc = "ping"
    /\ ping' = Nessuno
    /\ FinePasso
    /\ UNCHANGED <<coda, sospeso, gettone, foto, storia>>

\* sospendi: the token the step began with.
Sospendi == sospeso' = giro.token /\ ping' = Nessuno

\* 401, 403, 409 or the data of another client, to the ping or the heartbeat.
PingOBattitoSospende ==
    /\ giro.pc \in {"ping", "battito"}
    /\ Sospendi
    /\ FinePasso
    /\ UNCHANGED <<coda, gettone, foto, storia>>

BattitoFinisce ==
    /\ giro.pc = "battito"
    /\ FinePasso
    /\ UNCHANGED <<coda, sospeso, gettone, ping, foto, storia>>

-----------------------------------------------------------------------------
(* giroCoda: one row in flight at a time                                   *)

InVolo == giro.inVolo

\* rilascia, for rows taken and not sent.
Rilasciate(C, R) ==
    [c \in Corpi |-> IF c \in R THEN [C[c] EXCEPT !.presa = FALSE] ELSE C[c]]

\* With the row in flight written in C: the next one; or, past eight minutes
\* from the start of the round, the rest goes back.
Prossima(C) ==
    \/ /\ giro.restanti = {}
       /\ coda' = C
       /\ FinePasso
    \/ /\ giro.restanti # {}
       /\ coda' = Rilasciate(C, giro.restanti)
       /\ FinePasso
    \/ \E c \in giro.restanti :
          /\ coda' = C
          /\ giro' = [giro EXCEPT !.inVolo = c, !.restanti = @ \ {c}, !.arrivato = FALSE]
          /\ UNCHANGED passi

HubRiceve ==
    /\ giro.pc = "volo"
    /\ ~giro.arrivato
    /\ giro' = [giro EXCEPT !.arrivato = TRUE]
    /\ ricevuti' = ricevuti \union {InVolo}
    /\ UNCHANGED <<coda, sospeso, gettone, ping, passi, foto, confermati, rifiutati, orfane>>

\* Mutant: a try that goes wrong is not counted.
DopoRitentoSenzaConto(r) == [r EXCEPT !.attesa = TRUE, !.presa = FALSE]

\* Mutant: a row is given up one try too late.
DopoRitentoUnoInPiu(r) ==
    IF r.tentativi + 1 > MaxTentativi
      THEN [r EXCEPT !.stato = "fallito", !.presa = FALSE]
      ELSE [r EXCEPT !.tentativi = @ + 1, !.attesa = TRUE, !.presa = FALSE]

\* segnaRitento: backoff, and «fallito» at the last try.
DopoRitento(r) ==
    IF r.tentativi + 1 >= MaxTentativi
      THEN [r EXCEPT !.stato = "fallito", !.tentativi = MaxTentativi, !.presa = FALSE]
      ELSE [r EXCEPT !.tentativi = @ + 1, !.attesa = TRUE, !.presa = FALSE]

\* Mutant: only 201 counts as received, 200 (the hub had it already) is tried again.
RispostaInviatoSolo201 ==
    /\ giro.pc = "volo" /\ giro.arrivato
    /\ \E doppione \in BOOLEAN :
          Prossima([coda EXCEPT ![InVolo] = IF doppione THEN DopoRitento(@)
                                            ELSE Fuori("inviato")])
    /\ confermati' = confermati \union {InVolo}
    /\ UNCHANGED <<sospeso, gettone, ping, foto, ricevuti, rifiutati, orfane>>

\* 200, 201: segnaInviato.
RispostaInviato ==
    /\ giro.pc = "volo" /\ giro.arrivato
    /\ Prossima(IF coda[InVolo].stato \in {"in_attesa", "superato"}
                  THEN [coda EXCEPT ![InVolo] = Fuori("inviato")] ELSE coda)
    /\ confermati' = confermati \union {InVolo}
    /\ UNCHANGED <<sospeso, gettone, ping, foto, ricevuti, rifiutati, orfane>>

\* 5xx, 408, 429, time out, broken connection: the hub may have received it.
RispostaRitenta ==
    /\ giro.pc = "volo"
    /\ Prossima(IF coda[InVolo].stato = "in_attesa"
                  THEN [coda EXCEPT ![InVolo] = DopoRitento(@)] ELSE coda)
    /\ UNCHANGED <<sospeso, gettone, ping, foto, storia>>

\* The other 4xx and 3xx: segnaScartato.
RispostaScarta ==
    /\ giro.pc = "volo" /\ ~giro.arrivato
    /\ Prossima(IF coda[InVolo].stato = "in_attesa"
                  THEN [coda EXCEPT ![InVolo] = Fuori("scartato")] ELSE coda)
    /\ rifiutati' = rifiutati \union {InVolo}
    /\ UNCHANGED <<sospeso, gettone, ping, foto, ricevuti, confermati, orfane>>

\* Mutant: only the row that was refused goes back.
SospendeRilasciaUna ==
    /\ giro.pc = "volo" /\ ~giro.arrivato
    /\ coda' = Rilasciate(coda, {InVolo})
    /\ Sospendi
    /\ FinePasso
    /\ UNCHANGED <<gettone, foto, storia>>

\* 401, 403, 409: this row and the rest go back, no try is counted.
RispostaSospende ==
    /\ giro.pc = "volo" /\ ~giro.arrivato
    /\ coda' = Rilasciate(coda, {InVolo} \union giro.restanti)
    /\ Sospendi
    /\ FinePasso
    /\ UNCHANGED <<gettone, foto, storia>>

Risposta == RispostaInviato \/ RispostaRitenta \/ RispostaScarta \/ RispostaSospende

-----------------------------------------------------------------------------
(* The clock, the token, the process                                       *)

Presa(c) == coda[c].presa
DelGiro  == (giro.restanti \union {giro.inVolo}) \ {Nessuno}

\* The backoff of c is over.
FineAttesa(c) ==
    /\ coda[c].attesa
    /\ coda' = [coda EXCEPT ![c].attesa = FALSE]
    /\ UNCHANGED <<sospeso, gettone, ping, passi, giro, foto, storia>>

\* Ten minutes since c was taken: a running round is over by then (it sends
\* nothing after the eighth minute, and a send lasts one at most).
FinePresa(c) ==
    /\ coda[c].presa
    /\ c \notin DelGiro
    /\ coda' = [coda EXCEPT ![c].presa = FALSE]
    /\ orfane' = orfane \ {c}
    /\ UNCHANGED <<sospeso, gettone, ping, passi, giro, foto,
                   ricevuti, confermati, rifiutati>>

CambiaGettone(t) ==
    /\ t # gettone
    /\ gettone' = t
    /\ UNCHANGED <<coda, sospeso, ping, passi, giro, foto, storia>>

\* The process restarts: what was in memory is lost, the tables stay.
Crollo ==
    /\ passi' = <<>>
    /\ giro' = Riposo
    /\ ping' = Nessuno
    /\ orfane' = orfane \union {c \in DelGiro : coda[c].presa}
    /\ UNCHANGED <<coda, sospeso, gettone, foto, ricevuti, confermati, rifiutati>>

-----------------------------------------------------------------------------
PassoDelLavoro ==
    \/ \E V \in SUBSET {c \in Corpi : coda[c].stato \in Uscite} : AccodaInventario(V)
    \/ InventarioNonAccodato
    \/ RimettiFalliti
    \/ NonParte
    \/ \E b \in BOOLEAN : Parte(b) \/ PingProsegue(b)
    \/ PingErrore
    \/ PingOBattitoSospende
    \/ BattitoFinisce
    \/ Risposta

Next ==
    \/ \E p \in Programmi : Comincia(p)
    \/ PassoDelLavoro
    \/ HubRiceve
    \/ \E c \in Ad : AccodaAd(c)
    \/ \E c \in Corpi : FineAttesa(c) \/ FinePresa(c)
    \/ \E t \in Gettoni \union {Nessuno} : CambiaGettone(t)
    \/ Crollo

SafeSpec == Init /\ [][Next]_vars

\* A step of a job that leaves c in flight.
ParteConLaRiga(c) ==
    /\ PassoDelLavoro
    /\ giro'.pc = "volo" /\ giro'.inVolo = c
    /\ giro.inVolo # c

\* The timers tick and the file serves them in order; a call to the hub has a
\* time-out; the row left behind is the oldest of the next round; the hub, and
\* the opening of the database, are not down for ever.
Fairness ==
    /\ WF_vars(PassoDelLavoro)
    /\ SF_vars(Comincia(<<"giro">>))
    /\ SF_vars(\E b \in BOOLEAN : Parte(b) /\ Head(passi) = "giro")
    /\ SF_vars(\E b \in BOOLEAN : PingProsegue(b) /\ Head(passi) = "giro")
    /\ \A c \in Corpi :
          /\ WF_vars(FineAttesa(c)) /\ WF_vars(FinePresa(c))
          /\ SF_vars(ParteConLaRiga(c))

Spec == SafeSpec /\ Fairness
-----------------------------------------------------------------------------
(* Properties                                                              *)

\* Type invariant; a row in wait still has a try left.
TypeOK ==
    /\ coda \in [Corpi -> [stato : Stati, corpo : BOOLEAN, tentativi : 0..MaxTentativi,
                           attesa : BOOLEAN, presa : BOOLEAN]]
    /\ \A c \in Corpi : coda[c].stato = "in_attesa" => coda[c].tentativi < MaxTentativi
    /\ sospeso \in Gettoni \union {Nessuno}
    /\ gettone \in Gettoni \union {Nessuno}
    /\ ping \in Gettoni \union {Nessuno}
    /\ passi \in Seq({"giro", "battito", "inventario", "rimetti"})
    /\ giro \in [pc : {"fuori", "ping", "volo", "battito"},
                 token : Gettoni \union {Nessuno}, inVolo : Corpi \union {Nessuno},
                 restanti : SUBSET Corpi, arrivato : BOOLEAN]
    /\ foto \in 0..NInventari
    /\ ricevuti \subseteq Corpi
    /\ confermati \subseteq Corpi
    /\ rifiutati \subseteq Corpi
    /\ orfane \subseteq Corpi

\* A row keeps its body as long as somebody may still have to send it, and not
\* a moment more: the data of the customer do not stay on the disk.
CorpoFincheServe ==
    \A c \in Corpi : coda[c].corpo <=> coda[c].stato \in {"in_attesa", "fallito"}

\* A row is taken only by the round that is running or by one that died: no
\* ending of a round leaves its rows out of the queue for ten minutes.
PreseDelGiro == {c \in Corpi : Presa(c)} \subseteq DelGiro \union orfane

\* Rows, bodies and takings agree: the type invariant, a body exactly while the row may
\* still go, a taking only of a live round or of one that died (coda.ts:126-192).
QueueInv == TypeOK /\ CorpoFincheServe /\ PreseDelGiro

\* While its token is suspended nobody calls the hub, and a new token starts
\* the flow again by itself.
SospesoTace == giro.pc # "fuori" => sospeso # giro.token

\* What the table says of an AD export is what happened to it: sent means that
\* the hub has it, refused that the hub refused it, and a newer body never
\* makes it old.
EsitoVero ==
    \A c \in Ad :
        /\ coda[c].stato = "inviato" => c \in ricevuti
        /\ coda[c].stato = "scartato" => c \in rifiutati
        /\ coda[c].stato # "superato"

\* The code keeps the promise of Outbox: through takings, pings, suspensions, restarts
\* and lost answers a row changes only by a step of the outbox, so that one whose
\* answer came back is never sent again, and the hub receives only rows in wait.
Cassetta == INSTANCE Outbox
    WITH Export   <- Ad,
         stato    <- [c \in Corpi |-> coda[c].stato],
         arrivati <- ricevuti
ImplementaCassetta == Cassetta!Spec

\* coda.ts:7-8: «Una fotografia dell'inventario nuova rende `superato` quella
\* ancora in attesa: si invia solo la più nuova».  Refuted by rimettiFalliti.
SoloLaPiuNuova == giro.pc = "volo" /\ InVolo \in Inventari => InVolo = foto

\* A row leaves the wait, unless its flow is off or suspended: sent, refused,
\* made old, or failed after the last try, as long as the process does not
\* restart for ever and the token stays.
EsceDallaCoda ==
    <>[][~Crollo /\ gettone' = gettone]_vars =>
        \A c \in Corpi :
            coda[c].stato = "in_attesa" ~>
                \/ coda[c].stato # "in_attesa"
                \/ gettone \in {Nessuno, sospeso}
=============================================================================
