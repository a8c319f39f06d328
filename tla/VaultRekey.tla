------------------------------- MODULE VaultRekey -------------------------------
(***************************************************************************)
(* The re-encryption of an appliance (vault/ricifra.ts, scripts/da-vault.ts *)
(* ricifra): from the installation key to the data key of the slots, or     *)
(* back, one database at a time, by a process of its own while the          *)
(* application may be running (lib/crypto.ts, vault/stato.ts,               *)
(* vault/appliance.ts), and with a crash of either at any step.             *)
(*                                                                          *)
(* Of a database only the keys of its encrypted values are kept, and the    *)
(* keys of what its free pages still hold: an overwritten value stays there *)
(* until VACUUM.  The secrets of the login, on the installation key for     *)
(* ever, are left out.  The switch and the order of the commands are the    *)
(* operator's, who follows docs/adr/0034.                                   *)
(***************************************************************************)
EXTENDS Naturals, FiniteSets

CONSTANTS
    Db,      \* the database files
    Hub      \* hub.db

ASSUME RekeyAssumption == IsFiniteSet(Db) /\ Hub \in Db

VARIABLES
    esiste,    \* the files that are there
    chiavi,    \* chiavi[d]: the keys of the values of d
    pagine,    \* pagine[d]: the keys of the old values in its free pages
    guasto,    \* the databases that the check of the re-encryption refuses
    acceso,    \* DA_VAULT_LOCALE=1 in the file of the appliance
    app,       \* the service: stopped, switch off, vault locked, vault open
    letto,     \* a row read, with its encrypted value, to be written back
    cli,       \* the process of the re-encryption
    fatto,     \* history: the direction of the last applied run, if it ended
    riportato  \* history: since that run began, a value read before it came back

varsRekey == <<esiste, chiavi, pagine, guasto, acceso, app, letto, cli, fatto, riportato>>
dati == <<esiste, chiavi, pagine>>
storia == <<fatto, riportato>>

Chiave == {"installazione", "dati"}

\* [vecchia, nuova] of ricifra().
Vecchia(inversa) == IF inversa THEN "dati" ELSE "installazione"
Nuova(inversa)   == IF inversa THEN "installazione" ELSE "dati"

NienteLetto == [db |-> Hub, chiave |-> "nessuna"]
Fermo == [passo |-> "fermo", inversa |-> FALSE, applica |-> FALSE,
          lista |-> {}, resto |-> {}, db |-> Hub]

InitRekey ==
    /\ esiste \in {f \in SUBSET Db : Hub \in f}
    /\ chiavi \in [Db -> SUBSET {"installazione"}]
    /\ \A d \in Db \ esiste : chiavi[d] = {}
    /\ pagine = chiavi
    /\ guasto \in SUBSET esiste
    /\ acceso = FALSE
    /\ app = "ferma"
    /\ letto = NienteLetto
    /\ cli = Fermo
    /\ fatto = "mai"
    /\ riportato = FALSE

-----------------------------------------------------------------------------
(* The application                                                         *)

\* encrypt(): the key it writes with; none if the vault is locked.
Cifra ==
    IF app = "aperta" THEN {"dati"}
    ELSE IF app = "spenta" THEN {"installazione"} ELSE {}

\* decrypt(): the keys it tries.
Decifra ==
    IF app = "aperta" THEN Chiave ELSE {"installazione"}

\* The value of key k takes the place, in d, of one of key c (of the last one, if
\* sola), or is a new one.
Mette(d, k) ==
    \/ /\ chiavi' = [chiavi EXCEPT ![d] = @ \union {k}]
       /\ UNCHANGED pagine
    \/ \E c \in chiavi[d], sola \in BOOLEAN :
          /\ chiavi' = [chiavi EXCEPT ![d] = (IF sola THEN @ \ {c} ELSE @) \union {k}]
          /\ pagine' = [pagine EXCEPT ![d] = @ \union {c}]

\* The service starts with the switch of the file; not while an inverse run goes on.
Avvia ==
    /\ app = "ferma"
    /\ cli.passo # "fermo" => ~cli.inversa
    /\ app' \in IF acceso THEN {"aperta", "bloccata"} ELSE {"spenta"}
    /\ fatto' = IF acceso /\ fatto # "avanti" THEN "niente" ELSE fatto
    /\ UNCHANGED <<dati, guasto, acceso, letto, cli, riportato>>

\* sbloccaConPassphrase.
Sblocca ==
    /\ app = "bloccata"
    /\ app' = "aperta"
    /\ UNCHANGED <<dati, guasto, acceso, letto, cli, storia>>

\* A stop or a crash: what it had read is forgotten.
Ferma ==
    /\ app # "ferma"
    /\ app' = "ferma"
    /\ letto' = NienteLetto
    /\ UNCHANGED <<dati, guasto, acceso, cli, storia>>

CreaTenant(d) ==
    /\ app # "ferma" /\ d \notin esiste
    /\ esiste' = esiste \union {d}
    /\ UNCHANGED <<chiavi, pagine, guasto, acceso, app, letto, cli, storia>>

\* A secret typed in a page.
Scrive(d) ==
    /\ app # "ferma" /\ d \in esiste
    /\ \E k \in Cifra : Mette(d, k)
    /\ UNCHANGED <<esiste, guasto, acceso, app, letto, cli, storia>>

\* A row read to be written back with the secret it has: the page left it empty.
Legge(d) ==
    /\ app # "ferma" /\ d \in esiste /\ letto = NienteLetto
    /\ \E k \in chiavi[d] : letto' = [db |-> d, chiave |-> k]
    /\ UNCHANGED <<dati, guasto, acceso, app, cli, storia>>

Riscrive ==
    /\ letto # NienteLetto
    /\ Mette(letto.db, letto.chiave)
    /\ letto' = NienteLetto
    /\ riportato' = (riportato \/ letto.chiave \notin Cifra)
    /\ UNCHANGED <<esiste, guasto, acceso, app, cli, fatto>>

-----------------------------------------------------------------------------
(* The operator                                                            *)

Accende ==
    /\ app = "ferma" /\ ~acceso
    /\ acceso' = TRUE
    /\ UNCHANGED <<dati, guasto, app, letto, cli, storia>>

\* The switch is turned off if the vault was never used, or after an inverse run
\* that has ended, with the service still stopped.
Spegne ==
    /\ app = "ferma" /\ acceso /\ cli.passo = "fermo"
    /\ fatto \in {"mai", "indietro"}
    /\ acceso' = FALSE
    /\ UNCHANGED <<dati, guasto, app, letto, cli, storia>>

-----------------------------------------------------------------------------
(* The re-encryption                                                       *)

\* Mutant: the tenants are not listed.
SoloHub == {Hub}

\* fileDaRicifrare: hub.db and the databases of the tenants.
FileDaRicifrare == esiste

\* Mutant: what is to be applied is applied at once.
LanciaSenzaProva(inversa, applica) ==
    /\ cli.passo = "fermo" /\ acceso
    /\ inversa => app = "ferma"
    /\ cli' = [passo |-> IF applica THEN "applica" ELSE "prova", inversa |-> inversa,
               applica |-> applica, lista |-> FileDaRicifrare, resto |-> FileDaRicifrare,
               db |-> Hub]
    /\ IF applica THEN fatto' = "niente" /\ riportato' = FALSE ELSE UNCHANGED storia
    /\ UNCHANGED <<dati, guasto, acceso, app, letto>>

\* ricifra() and the command: the switch is on, and the dry run comes first.
Lancia(inversa, applica) ==
    /\ cli.passo = "fermo" /\ acceso
    /\ inversa => app = "ferma"
    /\ cli' = [passo |-> "prova", inversa |-> inversa, applica |-> applica,
               lista |-> FileDaRicifrare, resto |-> FileDaRicifrare, db |-> Hub]
    /\ UNCHANGED <<dati, guasto, acceso, app, letto, storia>>

\* The dry run of one database; after the last one, if it is to be applied, the
\* databases are taken again from the first.
Prova(d) ==
    /\ cli.passo = "prova" /\ d \in cli.resto \ guasto
    /\ IF cli.resto # {d}
         THEN /\ cli' = [cli EXCEPT !.resto = @ \ {d}]
              /\ UNCHANGED storia
       ELSE IF cli.applica
         THEN /\ cli' = [cli EXCEPT !.passo = "applica", !.resto = cli.lista]
              /\ fatto' = "niente"
              /\ riportato' = FALSE
       ELSE /\ cli' = Fermo
            /\ UNCHANGED storia
    /\ UNCHANGED <<dati, guasto, acceso, app, letto>>

\* d is done: the next one, or the end of the run.
Finito(d) ==
    IF cli.resto = {d}
      THEN /\ cli' = Fermo
           /\ fatto' = IF cli.inversa THEN "indietro" ELSE "avanti"
      ELSE /\ cli' = [cli EXCEPT !.passo = "applica", !.resto = @ \ {d}]
           /\ UNCHANGED fatto

\* Mutant: only the databases that have something to re-encrypt, as before the review.
ApplicaSeServe(d) ==
    LET v == Vecchia(cli.inversa) IN
    /\ cli.passo = "applica" /\ d \in cli.resto \ guasto
    /\ IF v \in chiavi[d]
         THEN /\ chiavi' = [chiavi EXCEPT ![d] = (@ \ {v}) \union {Nuova(cli.inversa)}]
              /\ pagine' = [pagine EXCEPT ![d] = @ \union {v}]
              /\ cli' = [cli EXCEPT !.passo = "pulisce", !.db = d]
              /\ UNCHANGED fatto
       ELSE UNCHANGED <<chiavi, pagine>> /\ Finito(d)
    /\ UNCHANGED <<esiste, guasto, acceso, app, letto, riportato>>

\* The transaction of one database, verified and committed.
Applica(d) ==
    LET v == Vecchia(cli.inversa) IN
    /\ cli.passo = "applica" /\ d \in cli.resto \ guasto
    /\ IF v \in chiavi[d]
         THEN /\ chiavi' = [chiavi EXCEPT ![d] = (@ \ {v}) \union {Nuova(cli.inversa)}]
              /\ pagine' = [pagine EXCEPT ![d] = @ \union {v}]
       ELSE UNCHANGED <<chiavi, pagine>>
    /\ cli' = [cli EXCEPT !.passo = "pulisce", !.db = d]
    /\ UNCHANGED <<esiste, guasto, acceso, app, letto, storia>>

\* wal_checkpoint and VACUUM, also where there was nothing to re-encrypt.  Assumed:
\* both wal_checkpoint(TRUNCATE) (ricifra.ts:192-194) complete.  When a reader outlasts
\* busy_timeout they report busy without throwing, and old pages stay in the file.
Pulisce ==
    /\ cli.passo = "pulisce"
    /\ pagine' = [pagine EXCEPT ![cli.db] = {}]
    /\ Finito(cli.db)
    /\ UNCHANGED <<esiste, chiavi, guasto, acceso, app, letto, riportato>>

\* A check that fails, a database busy for too long, a full disk, a crash: the
\* open transaction is rolled back, the committed ones stay.
SiInterrompe ==
    /\ cli.passo # "fermo"
    /\ cli' = Fermo
    /\ UNCHANGED <<dati, guasto, acceso, app, letto, storia>>

-----------------------------------------------------------------------------
NextRekey ==
    \/ Avvia \/ Sblocca \/ Ferma
    \/ \E d \in Db : CreaTenant(d) \/ Scrive(d) \/ Legge(d) \/ Prova(d) \/ Applica(d)
    \/ Riscrive
    \/ Accende \/ Spegne
    \/ \E inversa, applica \in BOOLEAN : Lancia(inversa, applica)
    \/ Pulisce \/ SiInterrompe

SpecRekey == InitRekey /\ [][NextRekey]_varsRekey

-----------------------------------------------------------------------------
(* Properties                                                              *)

TypeOKRekey ==
    /\ esiste \in SUBSET Db /\ Hub \in esiste
    /\ chiavi \in [Db -> SUBSET Chiave]
    /\ pagine \in [Db -> SUBSET Chiave]
    /\ guasto \in SUBSET Db
    /\ acceso \in BOOLEAN
    /\ app \in {"ferma", "spenta", "bloccata", "aperta"}
    /\ letto \in [db : Db, chiave : Chiave \union {"nessuna"}]
    /\ cli \in [passo : {"fermo", "prova", "applica", "pulisce"}, inversa : BOOLEAN,
                applica : BOOLEAN, lista : SUBSET Db, resto : SUBSET Db, db : Db]
    /\ fatto \in {"mai", "niente", "avanti", "indietro"}
    /\ riportato \in BOOLEAN

\* No value and no free page of d has key k.
Pulito(d, k) == k \notin chiavi[d] \union pagine[d]

\* A file that is not there holds nothing.
VuotoSeManca == \A d \in Db \ esiste : chiavi[d] = {} /\ pagine[d] = {}

\* Every value can be read by the application that runs: whatever the crashes in
\* the middle of a run, and with the switch turned off again after an inverse one
\* (docs/adr/0034: «dopo un crash ogni valore resta leggibile»).
TuttoLeggibile ==
    app \in {"aperta", "spenta"} => \A d \in esiste : chiavi[d] \subseteq Decifra

\* After an applied run that has ended, no value of the old key is left in any
\* database, nor in its free pages, and none comes back: neither from a database
\* made in the meantime, nor from the crash of a run before it, nor from a vault
\* that is locked.  Only a row read before its re-encryption and written after it
\* brings the old key back (vault/ricifra.ts:22).
NienteDiVecchio ==
    fatto \in {"avanti", "indietro"} /\ ~riportato =>
        \A d \in esiste : Pulito(d, Vecchia(fatto = "indietro"))

\* While a run is applied: the databases already done, and those made since, have
\* nothing of the old key; the one being cleaned has it in its pages at most.
FattiFinQui ==
    cli.passo \in {"applica", "pulisce"} /\ ~riportato =>
        /\ \A d \in esiste \ cli.resto : Pulito(d, Vecchia(cli.inversa))
        /\ cli.passo = "pulisce" => Vecchia(cli.inversa) \notin chiavi[cli.db]

\* During the dry run: nothing old in the databases made since, nor on its way there.
NuoviPuliti ==
    cli.passo = "prova" =>
        \A d \in esiste \ cli.lista :
            /\ Pulito(d, Vecchia(cli.inversa))
            /\ letto.db = d => letto.chiave # Vecchia(cli.inversa)

\* Nothing is written unless the dry run has passed on every database.
TuttoONiente == cli.passo \in {"applica", "pulisce"} => cli.lista \intersect guasto = {}

\* The inductive invariant.
RekeyInv ==
    /\ TypeOKRekey
    /\ VuotoSeManca
    /\ NienteDiVecchio
    /\ NuoviPuliti
    /\ FattiFinQui
    /\ TuttoONiente
    /\ letto.db \in esiste
    /\ letto.chiave = "nessuna" => letto = NienteLetto
    /\ app = "ferma" => letto = NienteLetto
    /\ app = "spenta" => ~acceso
    /\ app \in {"bloccata", "aperta"} => acceso
    /\ cli.passo # "fermo" => acceso /\ (cli.inversa => app = "ferma")
    /\ cli.passo = "prova" => (cli.lista \ cli.resto) \intersect guasto = {}
    /\ cli.passo = "pulisce" => cli.db \in cli.resto
    /\ cli.passo \in {"applica", "pulisce"} => fatto = "niente" /\ (cli.inversa => ~riportato)
    /\ ~acceso => fatto \in {"mai", "indietro"}
    /\ fatto = "indietro" => app \in {"ferma", "spenta"} /\ ~riportato
    /\ fatto = "mai" => app \in {"ferma", "spenta"} /\ ~riportato
    /\ fatto \in {"mai", "indietro"} => \A d \in esiste : Pulito(d, "dati")
    /\ fatto \in {"mai", "indietro"} => letto.chiave # "dati"
=============================================================================
