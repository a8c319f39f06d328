---------------------------- MODULE ChocoAutomatico ----------------------------
(***************************************************************************)
(* Chocolatey installed by itself on the Windows hosts                     *)
(* (patch/choco-automatico.ts): the nightly round and the one that follows *)
(* the saving of a credential choose the hosts, lock each of them, and     *)
(* bootstrap them a few at a time: a host without a seat waits, and a seat *)
(* that is left goes straight to the first who waits.  The bootstraps are  *)
(* those of PatchOperations, with the rows of the admin around them.       *)
(*                                                                         *)
(* The night runs in the copy of server.ts, the credentials' rounds in the *)
(* copy of the routes, and inCorso, attive, inAttesa are variables of the  *)
(* module: each copy has its own locks, seats and queue, and knows of the  *)
(* other only what the table says.                                         *)
(*                                                                         *)
(* The row of a bootstrap is written in the same turn in which its host    *)
(* sits down; a round that finds the module or its switch off does nothing *)
(* and is left out.                                                        *)
(***************************************************************************)
EXTENDS PatchOperations, Sequences

CONSTANTS
    PostiMax,     \* INSTALLAZIONI_PARALLELE_MAX
    TentativiMax  \* TENTATIVI_NOTTURNI_MAX

ASSUME ChocoAssumption == PostiMax \in Nat \ {0} /\ TentativiMax \in Nat \ {0}

VARIABLES
    inCorso,   \* of each copy: the hosts that its rounds have taken
    attive,    \* its seats taken
    inAttesa   \* its hosts that wait for a seat

memoria == <<inCorso, attive, inAttesa>>
tutte   == <<righe, ultima, aperto, inCorso, attive, inAttesa>>

Ognuna(v) == [k \in Copie |-> v]

InitAuto == Init /\ inCorso = Ognuna({}) /\ attive = Ognuna(0) /\ inAttesa = Ognuna(<<>>)

-----------------------------------------------------------------------------
(* What the history says of a host                                         *)

\* The last probe or bootstrap that went well.
Riuscite(R, h) == {o \in Op : /\ R[o].host = h /\ R[o].stato = "success"
                              /\ R[o].azione \in {"probe", "bootstrap"}}
Installato(R, h) ==
    \E o \in Riuscite(R, h) : ~R[o].manca /\ \A x \in Riuscite(R, h) : x <= o

Occupato(R, h) ==
    \E o \in Op : /\ R[o].host = h
                  /\ R[o].stato \in {"queued", "running"}
                  /\ R[o].azione # "probe"

\* Automatic bootstraps failed since the last one of an admin.
Falliti(R, h) ==
    LET B == {o \in Op : R[o].host = h /\ R[o].azione = "bootstrap" /\ R[o].stato # "assente"}
    IN  Cardinality({o \in B : /\ R[o].auto /\ R[o].stato = "failed"
                               /\ \A x \in B : ~R[x].auto => x < o})

-----------------------------------------------------------------------------
(* A round                                                                 *)

\* Mutant: only the history tells whether somebody is at work on a host.
CandidatiSenzaLucchetto(R, H, k) ==
    {h \in H : /\ ~Installato(R, h)
               /\ ~Occupato(R, h)
               /\ k = "server" => Falliti(R, h) < TentativiMax}

\* The night (the server's copy) gives up on a host that failed too often.
Candidati(R, H, k) ==
    {h \in H : /\ ~Installato(R, h)
               /\ ~Occupato(R, h)
               /\ h \notin inCorso[k]
               /\ k = "server" => Falliti(R, h) < TentativiMax}

\* Room for the rows of those who wait (bound NOp).
Spazio == NOp - ultima - Len(inAttesa["server"]) - Len(inAttesa["rotte"])

\* The hosts of C in the order of their ids.
InOrdine(C) ==
    {s \in [1..Cardinality(C) -> C] : \A i, j \in 1..Cardinality(C) : i < j => s[i] < s[j]}

\* installaChocoSuHostDb on the hosts H, in copy k: all of them are locked at
\* once, the first ones sit down, the others wait.
Giro(k, H) ==
    LET R      == Aperte(k)
        C      == Candidati(R, H, k)
        liberi == PostiMax - attive[k]
        seduti == IF Cardinality(C) < liberi THEN Cardinality(C) ELSE liberi
    IN  /\ C # {} /\ Cardinality(C) <= Spazio
        /\ inCorso' = [inCorso EXCEPT ![k] = @ \union C]
        /\ attive' = [attive EXCEPT ![k] = @ + seduti]
        /\ ultima' = ultima + seduti
        /\ aperto' = [aperto EXCEPT ![k] = TRUE]
        /\ \E scelti \in InOrdine(C) :
              /\ inAttesa' = [inAttesa EXCEPT ![k] =
                                @ \o [i \in 1..(Cardinality(C) - seduti) |-> scelti[seduti + i]]]
              /\ righe' = [o \in Op |->
                    IF o \in (ultima + 1)..(ultima + seduti)
                      THEN Nata(R, o, scelti[o - ultima], "bootstrap", TRUE, k)[o]
                      ELSE R[o]]

\* How the coroutine of an automatic bootstrap may end: as in PatchOperations.
DopoLaFine(o) ==
    CASE Viva(o, "attende") -> {Chiusa(righe, o, "failed", FALSE)}
      [] Viva(o, "comando") -> {Chiusa(righe, o, x, FALSE) : x \in {"success", "failed"}}
      [] OTHER              -> {[righe EXCEPT ![o].lavoro = "nessuno"]}

\* The seat of copy k goes to the first who waits there, whose row is written in
\* the database that the copy has open, or opens for it; if nobody waits it is free.
Siede(k, R) ==
    LET A == IF aperto[k] THEN R ELSE Recupera(R) IN
    IF inAttesa[k] = <<>>
      THEN /\ attive' = [attive EXCEPT ![k] = @ - 1]
           /\ righe' = R
           /\ UNCHANGED <<inAttesa, ultima, aperto>>
      ELSE /\ righe' = Nata(A, ultima + 1, Head(inAttesa[k]), "bootstrap", TRUE, k)
           /\ ultima' = ultima + 1
           /\ aperto' = [aperto EXCEPT ![k] = TRUE]
           /\ inAttesa' = [inAttesa EXCEPT ![k] = Tail(@)]
           /\ UNCHANGED attive

\* Mutant: the seat is given back only by a bootstrap that does not throw.
FineSenzaFinally(o) ==
    LET k == righe[o].copia IN
    /\ righe[o].auto /\ righe[o].lavoro # "nessuno"
    /\ ultima < NOp \/ inAttesa[k] = <<>>
    /\ inCorso' = [inCorso EXCEPT ![k] = @ \ {righe[o].host}]
    /\ \E R \in DopoLaFine(o) :
          IF righe[o].presa THEN Siede(k, R)
          ELSE righe' = R /\ UNCHANGED <<attive, inAttesa, ultima, aperto>>

\* The end of a bootstrap, whatever it is: the host is unlocked, the seat is left.
FineAutomatico(o) ==
    LET k == righe[o].copia IN
    /\ righe[o].auto /\ righe[o].lavoro # "nessuno"
    /\ ultima < NOp \/ inAttesa[k] = <<>>
    /\ inCorso' = [inCorso EXCEPT ![k] = @ \ {righe[o].host}]
    /\ \E R \in DopoLaFine(o) : Siede(k, R)

-----------------------------------------------------------------------------
DelleRighe ==
    \/ \E k \in Copie : Apri(k) \/ Sfratto(k)
    \/ Spazio > 0 /\ \E h \in Host, a \in Richieste : Crea(h, a)
    \/ \E o \in Op :
          \/ Parte(o) \/ Annulla(o) \/ Passa(o)
          \/ ~righe[o].auto /\ (ScadeAttesa(o) \/ Muore(o))
          \/ /\ ~righe[o].auto
             /\ righe[o].azione = "upgrade" => Spazio > 0   \* its probe needs a row
             /\ Fine(o)

NextAuto ==
    \/ DelleRighe /\ UNCHANGED memoria
    \/ Crollo /\ inCorso' = Ognuna({}) /\ attive' = Ognuna(0) /\ inAttesa' = Ognuna(<<>>)
    \/ \E k \in Copie, H \in SUBSET Host \ {{}} : Giro(k, H)
    \/ \E o \in Op : FineAutomatico(o)

SafeSpecAuto == InitAuto /\ [][NextAuto]_tutte

\* The polls go on every three seconds and are five minutes at most, a command
\* has a time-out, and the thrown error of a coroutine arrives.
FairnessAuto == \A o \in Op : WF_tutte(FineAutomatico(o))

SpecAuto == SafeSpecAuto /\ FairnessAuto
-----------------------------------------------------------------------------
(* Properties                                                              *)

\* The bootstraps that hold a seat of copy k.
Seduti(k) == {o \in Op : righe[o].auto /\ righe[o].copia = k /\ righe[o].lavoro # "nessuno"}

\* Type invariant.
TypeOKAuto ==
    /\ TypeOK
    /\ inCorso \in [Copie -> SUBSET Host]
    /\ attive \in [Copie -> 0..PostiMax]
    /\ inAttesa \in [Copie -> Seq(Host)]

\* In each copy every seat taken has its bootstrap, the limit holds, and nobody
\* waits while a seat is free: no ending loses a seat or gives it twice.
PostiGiusti ==
    \A k \in Copie :
        /\ attive[k] = Cardinality(Seduti(k))
        /\ inAttesa[k] # <<>> => attive[k] = PostiMax

\* In each copy a host is locked exactly while it waits for a seat or has its
\* bootstrap, and it is in one of the two at most, once.
LucchettoPerHost ==
    \A k \in Copie :
        LET chi == {inAttesa[k][i] : i \in 1..Len(inAttesa[k])}
        IN  /\ inCorso[k] = chi \union {righe[o].host : o \in Seduti(k)}
            /\ Cardinality(inCorso[k]) = Len(inAttesa[k]) + Cardinality(Seduti(k))

\* Rows, seats, queue and locks of each copy agree: the type invariant, the seats
\* and the locks (choco-automatico.ts:141-218).
AutoInv == TypeOKAuto /\ PostiGiusti /\ LucchettoPerHost

\* choco-automatico.ts:24-26: «di notte al massimo `TENTATIVI_NOTTURNI_MAX` tentativi
\* automatici falliti».  The night does not fail on a host more often than that
\* after the last bootstrap of an admin, though it counts when it takes the host and
\* fails long after, and rows are recovered, cancelled and lost in between.
NotteSiArrende ==
    \A h \in Host :
        LET B == {o \in Op : righe[o].host = h /\ righe[o].azione = "bootstrap"}
            F == {o \in B : /\ righe[o].auto /\ righe[o].copia = "server"
                            /\ righe[o].stato = "failed"
                            /\ \A x \in B : ~righe[x].auto => x < o}
        IN  Cardinality(F) <= TentativiMax

\* Every host that a round of either copy took comes to its end.
TuttiInFondo == \A k \in Copie, h \in Host : h \in inCorso[k] ~> h \notin inCorso[k]

\* choco-automatico.ts:18-21: «già installato (...) → non si tocca» and «mai due
\* operazioni insieme sullo stesso host».  Refuted by the wait for a seat, and
\* then for the host: the history is read before.
RegoleAllaPartenza ==
    [][\A o \in Op :
         righe'[o].auto /\ righe[o].stato # "running" /\ righe'[o].stato = "running" =>
            LET h == righe'[o].host IN
            /\ ~Installato(righe, h)
            /\ \A x \in Op \ {o} :
                  righe[x].host = h /\ righe[x].stato = "running" => righe[x].azione = "probe"]_tutte

\* choco-automatico.ts:22-23 and :44: at most INSTALLAZIONI_PARALLELE_MAX installs
\* together «in tutto il processo».  Refuted by a night and a credentials' round:
\* each copy of the module counts its own.
PostiNelProcesso == attive["server"] + attive["rotte"] <= PostiMax

\* choco-automatico.ts:20-21: a host is left alone «se questo processo ci sta già
\* lavorando».  Refuted by a host that waits for a seat in one copy, with no row
\* yet to tell the other.
UnLucchettoPerHost == inCorso["server"] \intersect inCorso["rotte"] = {}

\* db-tenant.ts:2472-2477: the opening of the database fails what nobody carries,
\* «così la UI sblocca».  Refuted when the copy of a queued row is evicted while
\* the other has the database open: until somebody opens it again the page shows
\* a row that nobody will start.
LaPaginaNonAspetta ==
    aperto["rotte"] => \A o \in Op : righe[o].stato = "queued" => Viva(o, "attende")
=============================================================================
