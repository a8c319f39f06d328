----------------------------- MODULE DeviceReadings -----------------------------
(***************************************************************************)
(* Who reads a network device, and when: the ARP round (cron/jobs.ts       *)
(* runArpPoll), the job of the chosen devices (apparati-scelti/giro.ts)    *)
(* and «Interroga» (api/devices/[id]/query), under one lock per device     *)
(* (devices/lucchetto-apparato.ts) and, for the VLANs, under the lock of   *)
(* the reading itself (topology/letture/cadenza.ts).                       *)
(*                                                                         *)
(* A round gives a device a limited time, then frees it and goes on: the   *)
(* body of the reading is not stopped, hangs in the background and goes on *)
(* to its next reading when the one in hand returns, if it ever does.      *)
(* What a reading writes is left out; how long the hour of the cadence is, *)
(* too: whoever comes to the VLANs finds them due.                         *)
(***************************************************************************)
EXTENDS Naturals

CONSTANTS
    Apparato,  \* the devices
    Giro,      \* the readers that go round the devices
    Job,       \* the one of them that records outcomes: apparati_scelti
    Domanda,   \* the readers of one device: «Interroga»
    Letture,   \* Letture[r]: what r reads of a device
    Copia,     \* Copia[r]: the copy of the code r runs in, of the scheduler or of the routes
    Nessuno

Lettore == Giro \union Domanda
Tipo    == {"info", "porte", "vlan"}

ASSUME ReadingsAssumption ==
    /\ Nessuno \notin Apparato
    /\ Job \in Giro /\ Giro \intersect Domanda = {}
    /\ Letture \in [Lettore -> SUBSET Tipo \ {{}}]
    /\ DOMAIN Copia = Lettore

VARIABLES
    occupati,  \* the Set of the lock: the devices being read
    presa,     \* the Set of the VLAN reading, one in each copy: <<copy, device>>
    vivo,      \* the body a reader waits for: its device, and the reading in hand
    lette,     \* the readings that body has finished well
    appesi,    \* the bodies nobody waits for any more
    giro,      \* a round: whether it goes on, and the devices left
    righe      \* the outcomes of the running round of the job, until the table has them

vars == <<occupati, presa, vivo, lette, appesi, giro, righe>>

Niente == [su |-> Nessuno, fase |-> "fermo"]
Riga(stato, l) == [stato |-> stato, lette |-> l]
Vuota == Riga("niente", {})

Init ==
    /\ occupati = {} /\ presa = {} /\ appesi = {}
    /\ vivo = [r \in Lettore |-> Niente]
    /\ lette = [r \in Lettore |-> {}]
    /\ giro = [r \in Giro |-> [attivo |-> FALSE, resto |-> {}]]
    /\ righe = [d \in Apparato |-> Vuota]

-----------------------------------------------------------------------------
(* The body of a reading                                                   *)

Prima(s) ==
    IF "info" \in s THEN "info"
    ELSE IF "porte" \in s THEN "porte"
    ELSE IF "vlan" \in s THEN "vlan" ELSE "finito"

\* What r reads after l.
Dopo(r, l) ==
    Prima(Letture[r] \intersect
            IF l = "info" THEN {"porte", "vlan"} ELSE IF l = "porte" THEN {"vlan"} ELSE {})

\* conCadenza: the VLANs of a device already being read in this copy are skipped.
Inizia(r, d, l) == IF l = "vlan" /\ <<Copia[r], d>> \in presa THEN "finito" ELSE l

\* The Set of the VLANs after r has left l and begun n on d.
PresaDopo(r, d, l, n) ==
    (presa \ (IF l = "vlan" THEN {<<Copia[r], d>>} ELSE {}))
    \union (IF n = "vlan" THEN {<<Copia[r], d>>} ELSE {})

\* r takes the device and starts its body: conLucchettoApparato, when it is free.
Legge(r, d) ==
    LET n == Inizia(r, d, Prima(Letture[r])) IN
    /\ d \notin occupati /\ vivo[r] = Niente
    /\ occupati' = occupati \union {d}
    /\ vivo' = [vivo EXCEPT ![r] = [su |-> d, fase |-> n]]
    /\ lette' = [lette EXCEPT ![r] = {}]
    /\ presa' = PresaDopo(r, d, "fermo", n)

\* The reading in hand ends, well or not, and the next one begins.
Avanza(r, bene) ==
    LET d == vivo[r].su
        l == vivo[r].fase
        n == Inizia(r, d, Dopo(r, l)) IN
    /\ l \in Tipo
    /\ vivo' = [vivo EXCEPT ![r] = [su |-> d, fase |-> n]]
    /\ lette' = IF bene THEN [lette EXCEPT ![r] = @ \union {l}] ELSE lette
    /\ presa' = PresaDopo(r, d, l, n)
    /\ UNCHANGED <<occupati, appesi, giro, righe>>

\* Mutant: the row of a round is the object the body goes on writing to.
AvanzaAppesoNellaRiga(b, altro) ==
    LET n == Inizia(b.di, b.su, Dopo(b.di, b.fase)) IN
    /\ b \in appesi
    /\ altro => b.fase # "vlan"
    /\ appesi' = (IF altro THEN appesi ELSE appesi \ {b})
                 \union (IF n = "finito" THEN {} ELSE {[b EXCEPT !.fase = n]})
    /\ presa' = PresaDopo(b.di, b.su, b.fase, n)
    /\ righe' = IF b.di = Job /\ righe[b.su].stato = "letta"
                  THEN [righe EXCEPT ![b.su].lette = @ \union {b.fase}] ELSE righe
    /\ UNCHANGED <<occupati, vivo, lette, giro>>

\* The same for a body that hangs: what it finishes is told to nobody.  Two bodies
\* alike count as one; altro: the other one stays.
AvanzaAppeso(b, altro) ==
    LET n == Inizia(b.di, b.su, Dopo(b.di, b.fase)) IN
    /\ b \in appesi
    /\ altro => b.fase # "vlan"
    /\ appesi' = (IF altro THEN appesi ELSE appesi \ {b})
                 \union (IF n = "finito" THEN {} ELSE {[b EXCEPT !.fase = n]})
    /\ presa' = PresaDopo(b.di, b.su, b.fase, n)
    /\ UNCHANGED <<occupati, vivo, lette, giro, righe>>

\* The body has come to its end: the device is free, and a round goes on with the
\* next; the job records what was read.
Esce(r) ==
    LET d == vivo[r].su IN
    /\ vivo[r].fase = "finito"
    /\ occupati' = occupati \ {d}
    /\ vivo' = [vivo EXCEPT ![r] = Niente]
    /\ lette' = [lette EXCEPT ![r] = {}]
    /\ righe' = IF r = Job THEN [righe EXCEPT ![d] = Riga("letta", lette[r])] ELSE righe
    /\ UNCHANGED <<presa, appesi, giro>>

-----------------------------------------------------------------------------
(* The readers                                                             *)

\* runApparatiScelti and runArpPoll: the devices to read are chosen at the start,
\* the job records the others as excluded.
Comincia(r) ==
    /\ ~giro[r].attivo
    /\ \E inclusi \in SUBSET Apparato :
          /\ giro' = [giro EXCEPT ![r] = [attivo |-> TRUE, resto |-> inclusi]]
          /\ righe' = IF r = Job
                        THEN [d \in Apparato |->
                                IF d \in inclusi THEN Vuota ELSE Riga("esclusa", {})]
                        ELSE righe
    /\ UNCHANGED <<occupati, presa, vivo, lette, appesi>>

Prende(r, d) ==
    /\ giro[r].attivo /\ d \in giro[r].resto
    /\ Legge(r, d)
    /\ giro' = [giro EXCEPT ![r].resto = @ \ {d}]
    /\ UNCHANGED <<appesi, righe>>

\* A device that somebody is reading is not waited for.
Salta(r, d) ==
    /\ giro[r].attivo /\ vivo[r] = Niente /\ d \in giro[r].resto
    /\ d \in occupati
    /\ giro' = [giro EXCEPT ![r].resto = @ \ {d}]
    /\ righe' = IF r = Job THEN [righe EXCEPT ![d] = Riga("saltata", {})] ELSE righe
    /\ UNCHANGED <<occupati, presa, vivo, lette, appesi>>

\* Mutant: with the device, the reading too is given up as ended.
ScadeLasciandoTutto(r) ==
    LET d == vivo[r].su IN
    /\ vivo[r].fase \in Tipo
    /\ occupati' = occupati \ {d}
    /\ presa' = presa \ {<<Copia[r], d>>}
    /\ vivo' = [vivo EXCEPT ![r] = Niente]
    /\ appesi' = appesi \union {[di |-> r, su |-> d, fase |-> vivo[r].fase]}
    /\ lette' = [lette EXCEPT ![r] = {}]
    /\ righe' = IF r = Job THEN [righe EXCEPT ![d] = Riga("letta", lette[r])] ELSE righe
    /\ UNCHANGED giro

\* Mutant: no limit.
MaiScade(r) == FALSE /\ UNCHANGED vars

\* entroTempoApparato: the time of the device is over.
Scade(r) ==
    LET d == vivo[r].su IN
    /\ vivo[r].fase \in Tipo
    /\ occupati' = occupati \ {d}
    /\ vivo' = [vivo EXCEPT ![r] = Niente]
    /\ appesi' = appesi \union {[di |-> r, su |-> d, fase |-> vivo[r].fase]}
    /\ lette' = [lette EXCEPT ![r] = {}]
    /\ righe' = IF r = Job THEN [righe EXCEPT ![d] = Riga("letta", lette[r])] ELSE righe
    /\ UNCHANGED <<presa, giro>>

\* The end of a round; the job writes its rows in the table.
Termina(r) ==
    /\ giro[r].attivo /\ giro[r].resto = {} /\ vivo[r] = Niente
    /\ giro' = [giro EXCEPT ![r].attivo = FALSE]
    /\ righe' = IF r = Job THEN [d \in Apparato |-> Vuota] ELSE righe
    /\ UNCHANGED <<occupati, presa, vivo, lette, appesi>>

\* POST /api/devices/[id]/query: 409 if the device is being read, else the reading
\* starts in the background, with no limit of time.
Interroga(r, d) ==
    /\ Legge(r, d)
    /\ UNCHANGED <<appesi, giro, righe>>

\* The process restarts: everything was in its memory.
Riavvio ==
    /\ occupati' = {} /\ presa' = {} /\ appesi' = {}
    /\ vivo' = [r \in Lettore |-> Niente]
    /\ lette' = [r \in Lettore |-> {}]
    /\ giro' = [r \in Giro |-> [attivo |-> FALSE, resto |-> {}]]
    /\ righe' = [d \in Apparato |-> Vuota]

-----------------------------------------------------------------------------
Next ==
    \/ \E r \in Giro :
          \/ Comincia(r) \/ Scade(r) \/ Termina(r)
          \/ \E d \in Apparato : Prende(r, d) \/ Salta(r, d)
    \/ \E r \in Domanda, d \in Apparato : Interroga(r, d)
    \/ \E r \in Lettore : Esce(r) \/ \E bene \in BOOLEAN : Avanza(r, bene)
    \/ \E b \in appesi, altro \in BOOLEAN : AvanzaAppeso(b, altro)
    \/ Riavvio

SafeSpec == Init /\ [][Next]_vars

\* The process works and its timers ring; nothing says that a reading returns.
Fairness ==
    /\ \A r \in Giro :
          /\ WF_vars(\E d \in Apparato : Prende(r, d) \/ Salta(r, d))
          /\ WF_vars(Scade(r) \/ Esce(r))
          /\ WF_vars(Termina(r))

Spec == SafeSpec /\ Fairness

-----------------------------------------------------------------------------
(* Properties                                                              *)

TypeOK ==
    /\ occupati \in SUBSET Apparato
    /\ presa \subseteq {Copia[r] : r \in Lettore} \X Apparato
    /\ vivo \in [Lettore -> [su : Apparato, fase : Tipo \union {"finito"}] \union {Niente}]
    /\ lette \in [Lettore -> SUBSET Tipo]
    /\ appesi \subseteq [di : Giro, su : Apparato, fase : Tipo]
    /\ giro \in [Giro -> [attivo : BOOLEAN, resto : SUBSET Apparato]]
    /\ righe \in [Apparato -> [stato : {"niente", "esclusa", "saltata", "letta"},
                               lette : SUBSET Tipo]]

\* The lock: a device is in the Set when one reader, and one only, waits for a body
\* on it.
UnSoloVivo ==
    /\ occupati = {vivo[r].su : r \in {x \in Lettore : vivo[x] # Niente}}
    /\ \A r, s \in Lettore : vivo[r] # Niente /\ vivo[r].su = vivo[s].su => r = s

\* The VLANs of a device are read by one body at a time in each copy of the code,
\* whoever waits for it or not, and the Set says which: the lock of the reading
\* outlives the lock of the device (topology/letture/cadenza.ts:39).
AlleVlan(x) == x.fase = "vlan"
UnaVlanPerCopia ==
    /\ \A q \in Lettore, d \in Apparato :
          <<Copia[q], d>> \in presa <=>
              \/ \E r \in Lettore : Copia[r] = Copia[q] /\ AlleVlan(vivo[r]) /\ vivo[r].su = d
              \/ \E b \in appesi : Copia[b.di] = Copia[q] /\ AlleVlan(b) /\ b.su = d
    /\ \A b \in appesi : AlleVlan(b) =>
          /\ \A c \in appesi : AlleVlan(c) /\ Copia[c.di] = Copia[b.di] /\ c.su = b.su => c = b
          /\ \A r \in Lettore : AlleVlan(vivo[r]) /\ Copia[r] = Copia[b.di] => vivo[r].su # b.su

\* A row of the job is right: every device that has been passed has one, and it says
\* read only what that round chose to read.
RigheGiuste ==
    giro[Job].attivo =>
        /\ \A d \in Apparato :
              righe[d] = Vuota <=> d \in giro[Job].resto \/ d = vivo[Job].su
        /\ \A d \in Apparato : righe[d].lette \subseteq Letture[Job]

\* The inductive invariant.
ReadingsInv ==
    /\ TypeOK
    /\ UnSoloVivo
    /\ UnaVlanPerCopia
    /\ RigheGiuste
    /\ \A r \in Lettore :
          lette[r] \subseteq Letture[r] /\ vivo[r].fase \in Letture[r] \union {"fermo", "finito"}
    /\ \A r \in Giro : vivo[r] # Niente => giro[r].attivo /\ vivo[r].su \notin giro[r].resto

\* The outcome of a device is a photograph: a reading left hanging does not change it,
\* until the next round (apparati-scelti/giro.ts:174).
Fotografia ==
    [][\A d \in Apparato :
         righe[d] # Vuota /\ giro[Job].attivo /\ giro'[Job].attivo => righe'[d] = righe[d]]_vars

\* No device keeps a round for ever, even if it never answers.
GiroFinisce == \A r \in Giro : giro[r].attivo ~> ~giro[r].attivo

\* A device taken by a round is given back, even if its reading never returns.
TornaLibero ==
    \A r \in Giro, d \in Apparato : vivo[r].su = d ~> vivo[r].su # d

\* devices/lucchetto-apparato.ts:2 and cron/jobs.ts:1419: «mai due letture insieme»; what hangs is
\* only «la lettura rimasta appesa» (:59).  Refuted: a body that hangs begins its
\* next reading, on a device that may be somebody else's by then.
MaiSenzaLucchetto ==
    [][\A b \in appesi' \ appesi : vivo[b.di] = [su |-> b.su, fase |-> b.fase]]_vars

\* topology/letture/cadenza.ts:3: «un lucchetto per apparato nel processo».  Refuted
\* by the two copies of the code, of the scheduler and of the routes.
UnaVlanNelProcesso ==
    \A b \in appesi, r \in Lettore : AlleVlan(b) /\ AlleVlan(vivo[r]) => vivo[r].su # b.su
=============================================================================
