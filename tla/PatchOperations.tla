---------------------------- MODULE PatchOperations ----------------------------
(***************************************************************************)
(* The operations of Patch Management on the Windows hosts: the table      *)
(* patch_operations, the coroutines of patch/executor.ts that carry each   *)
(* row (the wait for the host, the WinRM command, the outcome), the cancel *)
(* route, and the tenant database that can be closed under them: by a      *)
(* restart, or by the pool of tenants when it is full (db-tenant.ts).      *)
(* The commands and the pools are the environment.                         *)
(*                                                                         *)
(* The process loads the modules twice, server.ts once and the routes once *)
(* (devices/lucchetto-apparato.ts:12-14), and the pool of tenants is a       *)
(* variable of its module: each copy has its own connection to the same    *)
(* file, opens it and closes it by itself, and each opening recovers the   *)
(* rows, those of the other copy too.  The admin works in the routes; the  *)
(* server's copy carries the nightly round (ChocoAutomatico).              *)
(*                                                                         *)
(* The outcome reboot_pending is kept as success: no query tells them      *)
(* apart.  A row that goes to running and fails at once, for want of       *)
(* credentials, is a command that fails.                                   *)
(***************************************************************************)
EXTENDS Naturals, FiniteSets

CONSTANTS
    NOp,       \* bound: rows created in a behaviour
    Host,      \* the hosts, in the order of their ids
    Richieste  \* the actions that an admin asks for

ASSUME PatchAssumption ==
    /\ NOp \in Nat
    /\ Host \subseteq Nat /\ IsFiniteSet(Host)
    /\ Richieste \subseteq {"bootstrap", "upgrade", "install", "uninstall", "probe"}

VARIABLES
    righe,   \* patch_operations, and the coroutine of each row
    ultima,  \* the last id given
    aperto   \* the copies that have the tenant database open

vars == <<righe, ultima, aperto>>

Copie    == {"server", "rotte"}             \* the two copies of the modules
Op       == 1..NOp
Aspetta  == {"bootstrap", "upgrade"}        \* the actions that wait for the host
Occupa   == Aspetta \union {"install"}      \* those they wait for
Azioni   == Occupa \union {"uninstall", "probe"}
Finali   == {"success", "failed", "cancelled"}

\* `recente`: a row running for less than ten minutes, or over for less than
\* ten seconds.  `copia`: the copy of the code its coroutine runs in.  `lavoro`:
\* where its coroutine is.  `presa`: the connection it holds is still open.
Assente == [stato |-> "assente", azione |-> "probe", host |-> 0, auto |-> FALSE,
            manca |-> FALSE, recente |-> FALSE, copia |-> "rotte",
            lavoro |-> "nessuno", presa |-> FALSE]

Init ==
    /\ righe = [o \in Op |-> Assente]
    /\ ultima = 0
    /\ aperto = [k \in Copie |-> FALSE]

-----------------------------------------------------------------------------
(* Opening and closing the database                                        *)

\* Mutant: whatever was running is failed.
RecuperaTutto(R) ==
    [o \in Op |-> IF R[o].stato \in {"queued", "running"}
                    THEN [R[o] EXCEPT !.stato = "failed", !.recente = TRUE] ELSE R[o]]

\* Mutant: a row that never started is not older than ten minutes.
RecuperaLeAvviate(R) ==
    [o \in Op |-> IF R[o].stato = "running" /\ ~R[o].recente
                    THEN [R[o] EXCEPT !.stato = "failed", !.recente = TRUE] ELSE R[o]]

\* getTenantDb: the recovery, at every opening, whichever copy opens.
Recupera(R) ==
    [o \in Op |-> IF R[o].stato = "queued" \/ (R[o].stato = "running" /\ ~R[o].recente)
                    THEN [R[o] EXCEPT !.stato = "failed", !.recente = TRUE] ELSE R[o]]

\* The rows as whoever asks copy k for the database finds them.
Aperte(k) == IF aperto[k] THEN righe ELSE Recupera(righe)

Apri(k) ==
    /\ ~aperto[k]
    /\ righe' = Aperte(k)
    /\ aperto' = [aperto EXCEPT ![k] = TRUE]
    /\ UNCHANGED ultima

\* The pool of copy k is full: its connection is closed under the coroutines that
\* hold it; those of the other copy keep theirs.
Sfratto(k) ==
    /\ aperto[k]
    /\ righe' = [o \in Op |-> IF righe[o].copia = k THEN [righe[o] EXCEPT !.presa = FALSE]
                                                   ELSE righe[o]]
    /\ aperto' = [aperto EXCEPT ![k] = FALSE]
    /\ UNCHANGED ultima

Crollo ==
    /\ righe' = [o \in Op |-> [righe[o] EXCEPT !.lavoro = "nessuno", !.presa = FALSE]]
    /\ aperto' = [k \in Copie |-> FALSE]
    /\ UNCHANGED ultima

-----------------------------------------------------------------------------
(* The rows                                                                *)

\* waitForHostFree: nobody is running on the host of o, or has just finished.
Libero(R, o) ==
    \A x \in Op \ {o} :
        ~ /\ R[x].host = R[o].host
          /\ R[x].azione \in Occupa
          /\ \/ R[x].stato = "running"
             \/ R[x].stato \in {"success", "failed"} /\ R[x].recente

\* The row is not read again: whatever it says, it goes to running.
Partita(R, o) ==
    [R EXCEPT ![o].stato = "running", ![o].recente = TRUE, ![o].lavoro = "comando"]

\* createOperation in copy k and, in the same turn of the event loop, the start:
\* at once for what does not wait; for the others if the host is free.
Nata(R, o, h, a, auto, k) ==
    LET N == [R EXCEPT ![o] = [Assente EXCEPT !.stato = "queued", !.azione = a, !.host = h,
                !.auto = auto, !.copia = k, !.lavoro = "attende", !.presa = TRUE]]
    IN  IF a \notin Aspetta \/ Libero(N, o) THEN Partita(N, o) ELSE N

\* A request of the admin.
Crea(h, a) ==
    /\ ultima < NOp
    /\ ultima' = ultima + 1
    /\ righe' = Nata(Aperte("rotte"), ultima + 1, h, a, FALSE, "rotte")
    /\ aperto' = [aperto EXCEPT !["rotte"] = TRUE]

\* Mutant: the coroutine asks for the database again at every step.
VivaComunque(o, dove) == righe[o].lavoro = dove /\ aperto[righe[o].copia]

\* The coroutine of o can go on: it keeps the connection it began with.
Viva(o, dove) == righe[o].lavoro = dove /\ righe[o].presa

\* A poll of o finds the host free.
Parte(o) ==
    /\ Viva(o, "attende")
    /\ Libero(righe, o)
    /\ righe' = Partita(righe, o)
    /\ UNCHANGED <<ultima, aperto>>

\* The row of o is over, and so is its coroutine.
Chiusa(R, o, esito, manca) ==
    [R EXCEPT ![o].stato = esito, ![o].manca = manca, ![o].recente = TRUE,
              ![o].lavoro = "nessuno", ![o].presa = FALSE]

\* Five minutes of polls are over.
ScadeAttesa(o) ==
    /\ Viva(o, "attende")
    /\ righe' = Chiusa(righe, o, "failed", FALSE)
    /\ UNCHANGED <<ultima, aperto>>

\* The command of o is over.  After an upgrade that went well the host is
\* probed, as long as there is room for the row of the probe (bound NOp).
FineComando(o, esito, manca) ==
    /\ Viva(o, "comando")
    /\ manca => righe[o].azione = "probe" /\ esito = "success"
    /\ LET C == Chiusa(righe, o, esito, manca)
           sonda == righe[o].azione = "upgrade" /\ esito = "success" /\ ultima < NOp
       IN  IF sonda
             THEN /\ ultima' = ultima + 1
                  /\ righe' = Nata(C, ultima + 1, righe[o].host, "probe", FALSE, righe[o].copia)
             ELSE /\ righe' = C
                  /\ UNCHANGED ultima
    /\ UNCHANGED aperto

\* The connection was closed: the next access of the coroutine throws, and so does
\* the write of the error.  The row stays as it is.
Muore(o) ==
    /\ righe[o].lavoro # "nessuno" /\ ~righe[o].presa
    /\ righe' = [righe EXCEPT ![o].lavoro = "nessuno"]
    /\ UNCHANGED <<ultima, aperto>>

\* Mutant: what is running is cancelled too.
AnnullaTutto(o) ==
    /\ aperto["rotte"]
    /\ righe[o].stato \in {"queued", "running"}
    /\ righe' = [righe EXCEPT ![o].stato = "cancelled"]
    /\ UNCHANGED <<ultima, aperto>>

\* The cancel route, whichever copy carries the row.
Annulla(o) ==
    /\ aperto["rotte"]
    /\ righe[o].stato = "queued"
    /\ righe' = [righe EXCEPT ![o].stato = "cancelled"]
    /\ UNCHANGED <<ultima, aperto>>

\* Ten seconds since the end of o; ten minutes since its start: no WinRM command
\* lasts that long (two minutes), an install over SSH does.
Passa(o) ==
    /\ righe[o].recente
    /\ \/ righe[o].stato \in Finali
       \/ righe[o].lavoro # "comando"
       \/ righe[o].azione = "install"
    /\ righe' = [righe EXCEPT ![o].recente = FALSE]
    /\ UNCHANGED <<ultima, aperto>>

-----------------------------------------------------------------------------
Fine(o) == \E manca \in BOOLEAN, esito \in {"success", "failed"} : FineComando(o, esito, manca)

Next ==
    \/ \E k \in Copie : Apri(k) \/ Sfratto(k)
    \/ Crollo
    \/ \E h \in Host, a \in Richieste : Crea(h, a)
    \/ \E o \in Op :
          Parte(o) \/ ScadeAttesa(o) \/ Fine(o) \/ Muore(o) \/ Annulla(o) \/ Passa(o)

Spec == Init /\ [][Next]_vars

-----------------------------------------------------------------------------
(* Properties                                                              *)

\* Type invariant; a coroutine that can go on and the row it writes agree, but for
\* the row cancelled under a wait and the one that the opening of the other copy
\* recovered: a wait, or an install older than ten minutes.
TypeOK ==
    /\ righe \in [Op -> [stato : {"assente", "queued", "running"} \union Finali,
                         azione : Azioni, host : Host \union {0}, auto : BOOLEAN,
                         manca : BOOLEAN, recente : BOOLEAN, copia : Copie,
                         lavoro : {"nessuno", "attende", "comando"}, presa : BOOLEAN]]
    /\ ultima \in 0..NOp
    /\ aperto \in [Copie -> BOOLEAN]
    /\ \A o \in Op :
          /\ righe[o].presa => aperto[righe[o].copia]
          /\ Viva(o, "attende") => righe[o].stato \in {"queued", "cancelled", "failed"}
          /\ Viva(o, "comando") =>
                righe[o].stato \in IF righe[o].azione = "install" THEN {"running", "failed"}
                                                                ELSE {"running"}

\* Two operations that wait for their host never have a command in flight on it
\* together, in whichever copy they run, whatever was closed, recovered under a
\* live coroutine or cancelled in the meantime.
UnoAllaVolta ==
    \A o, x \in Op :
        /\ o # x
        /\ righe[o].host = righe[x].host
        /\ righe[o].azione \in Aspetta /\ righe[x].azione \in Aspetta
        => ~(righe[o].lavoro = "comando" /\ righe[x].lavoro = "comando")

\* While the copy that created a queued row has the database open, somebody will
\* start the row or fail it: an eviction and a new opening of either copy leave no
\* row to wait for nobody.
CodaHaChiLaServe ==
    \A o \in Op : righe[o].stato = "queued" /\ aperto[righe[o].copia] => Viva(o, "attende")

\* What went well never changes, nor does what failed once no coroutine holds the
\* row: the recoveries of the two copies rewrite no outcome, and a coroutine that
\* lost its connection writes none.
EsitoDefinitivo ==
    [][\A o \in Op :
          righe[o].stato = "success" \/ (righe[o].stato = "failed" /\ ~righe[o].presa)
            => righe'[o].stato = righe[o].stato]_vars

\* cancel/route.ts:4: «Cancella una operation in stato `queued`», and the page
\* is told so.  Refuted by Parte, which does not read the row again.
AnnullataNonParte ==
    [][\A o \in Op : righe[o].stato = "cancelled" => righe'[o].stato = "cancelled"]_vars

\* db-tenant.ts:2472-2476: rows queued or running at the opening of the database
\* belong to a process that is gone: «Marchiamoli failed con messaggio chiaro».
\* Refuted by a restart within ten minutes of the start.
ApertaSenzaOrfane ==
    [][\A k \in Copie : ~aperto[k] /\ aperto'[k] =>
         \A o \in Op : righe'[o].stato \in {"queued", "running"} => righe'[o].lavoro # "nessuno"]_vars

\* db-tenant.ts:2472-2476, of the rows that an opening fails: «la Promise
\* `doBootstrap` è morta con il process e nessuno li riprenderà».  Refuted by the
\* opening of the other copy, while the coroutine of the row is alive: it goes on
\* and writes running over failed.
NessunoLiRiprende ==
    [][\A o \in Op : righe[o].stato = "failed" => righe'[o].stato = "failed"]_vars
=============================================================================
