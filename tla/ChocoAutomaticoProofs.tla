------------------------- MODULE ChocoAutomaticoProofs -------------------------
(***************************************************************************)
(* PatchOperations and ChocoAutomatico for every set of hosts, every bound *)
(* on the rows and every number of seats: commands that wait for their     *)
(* host go one at a time, a row in the queue has who serves it, outcomes   *)
(* are final; seats and locks are those of the bootstraps that exist; the  *)
(* night gives up.                                                         *)
(*                                                                         *)
(* Several steps write more than one row (the end of an upgrade and its    *)
(* probe, a round that opens the database and seats many), so the facts on *)
(* the rows are stated of a table R, of the last id u and of the copies a  *)
(* that have the database open, and each lemma says what one writing does  *)
(* to them.  Seats, queue and locks are stated of one copy k: a step of    *)
(* the other one leaves them as they are.                                  *)
(***************************************************************************)
EXTENDS ChocoAutomatico, FiniteSetTheorems, SequenceTheorems, TLAPS

Riga == [stato : {"assente", "queued", "running"} \union Finali,
         azione : Azioni, host : Host \union {0}, auto : BOOLEAN,
         manca : BOOLEAN, recente : BOOLEAN, copia : Copie,
         lavoro : {"nessuno", "attende", "comando"}, presa : BOOLEAN]

\* A row that was never written.
Vuota(r) ==
    r.stato = "assente" /\ r.lavoro = "nessuno" /\ ~r.auto /\ ~r.presa /\ ~r.recente

\* What a coroutine can say of its row: if it holds its connection it waits or it
\* is at the command, as the row says, unless the other copy recovered the row (a
\* wait, or an old install) or the admin cancelled it; a command of less than ten
\* minutes (all but an install) is seen as running and recent even when the
\* connection is gone, so that no recovery takes its host from it.
RigaSana(r, a) ==
    /\ r.presa => a[r.copia] /\ r.lavoro # "nessuno"
    /\ r.presa /\ r.lavoro = "attende" => r.stato \in {"queued", "cancelled", "failed"}
    /\ r.presa /\ r.lavoro = "comando" =>
          r.stato = "running" \/ (r.stato = "failed" /\ r.azione = "install")
    /\ r.lavoro = "comando" /\ r.azione # "install" => r.stato = "running" /\ r.recente
    /\ a[r.copia] /\ r.stato = "queued" => r.presa /\ r.lavoro = "attende"

\* Two commands that wait for the same host.
Insieme(r, s) ==
    /\ r.host = s.host
    /\ r.azione \in Aspetta /\ s.azione \in Aspetta
    /\ r.lavoro = "comando" /\ s.lavoro = "comando"

Sane(R, u, a) ==
    /\ R \in [Op -> Riga]
    /\ u \in 0..NOp
    /\ a \in [Copie -> BOOLEAN]
    /\ \A o \in Op : o > u => Vuota(R[o])
    /\ \A o \in Op : RigaSana(R[o], a)
    /\ \A o, x \in Op : o # x => ~Insieme(R[o], R[x])

\* A row that is over, with no coroutine that could write it: those of R are over
\* in T, with the same outcome.
Conclusa(r) == r.stato = "success" \/ (r.stato = "failed" /\ ~r.presa)

Tenuti(R, T) ==
    \A o \in Op : Conclusa(R[o]) => T[o].stato = R[o].stato /\ Conclusa(T[o])

\* The inductive invariant of the rows, and what it says of the properties.
RigheSane == Sane(righe, ultima, aperto)

\* A row with a seat of copy k: an automatic bootstrap somewhere between its birth
\* and its end.
Seduto(k, r) == r.auto /\ r.copia = k /\ r.lavoro # "nessuno"
Seggi(k, R)  == {o \in Op : Seduto(k, R[o])}

\* They are the same in the two tables, on the same hosts.
StessiPosti(k, R, T) ==
    \A o \in Op : /\ Seduto(k, T[o]) <=> Seduto(k, R[o])
                  /\ Seduto(k, R[o]) => T[o].host = R[o].host
Fermi(R, T) == \A k \in Copie : StessiPosti(k, R, T)

LEMMA GliStessi ==
    ASSUME NEW k, NEW R, NEW T, StessiPosti(k, R, T) PROVE Seggi(k, T) = Seggi(k, R)
BY DEF StessiPosti, Seggi

LEMMA PostiTransitivi ==
    ASSUME NEW R, NEW S, NEW T, Fermi(R, S), Fermi(S, T) PROVE Fermi(R, T)
BY DEF Fermi, StessiPosti

LEMMA EsitiTransitivi ==
    ASSUME NEW R, NEW S, NEW T, Tenuti(R, S), Tenuti(S, T) PROVE Tenuti(R, T)
BY DEF Tenuti

LEMMA DiCosaParlano ==
    RigheSane => TypeOK /\ UnoAllaVolta /\ CodaHaChiLaServe
<1> SUFFICES ASSUME RigheSane PROVE TypeOK /\ UnoAllaVolta /\ CodaHaChiLaServe
  OBVIOUS
<1>1. righe \in [Op -> Riga] /\ ultima \in 0..NOp /\ aperto \in [Copie -> BOOLEAN]
  BY DEF RigheSane, Sane
<1>2. ASSUME NEW o \in Op
      PROVE  /\ righe[o].presa => aperto[righe[o].copia]
             /\ Viva(o, "attende") => righe[o].stato \in {"queued", "cancelled", "failed"}
             /\ Viva(o, "comando") =>
                   righe[o].stato \in IF righe[o].azione = "install" THEN {"running", "failed"}
                                                                   ELSE {"running"}
             /\ righe[o].stato = "queued" /\ aperto[righe[o].copia] => Viva(o, "attende")
  BY DEF RigheSane, Sane, RigaSana, Viva
<1>3. UnoAllaVolta
  BY DEF RigheSane, Sane, Insieme, UnoAllaVolta
<1> QED
  BY <1>1, <1>2, <1>3 DEF TypeOK, Riga, CodaHaChiLaServe

-----------------------------------------------------------------------------
(* One writing at a time                                                   *)

LEMMA AssenteSana == Assente \in Riga /\ Vuota(Assente) /\ \A a : RigaSana(Assente, a)
BY DEF Assente, Vuota, Riga, RigaSana, Azioni, Occupa, Aspetta, Finali, Copie

\* One row is written, and no command begins.
LEMMA UnaRiga ==
    ASSUME NEW R, NEW u, NEW a, Sane(R, u, a), NEW o \in Op, ~Vuota(R[o]),
           NEW r \in Riga, RigaSana(r, a), r.host = R[o].host, r.azione = R[o].azione,
           r.lavoro = "comando" => R[o].lavoro = "comando",
           NEW T, T = [R EXCEPT ![o] = r]
    PROVE  Sane(T, u, a)
<1>1. T \in [Op -> Riga] /\ T[o] = r /\ \A x \in Op \ {o} : T[x] = R[x]
  BY DEF Sane
<1>2. \A x, y \in Op : x # y => ~Insieme(T[x], T[y])
  BY <1>1 DEF Sane, Insieme
<1>3. \A x \in Op : RigaSana(T[x], a)
  BY <1>1 DEF Sane
<1>4. \A x \in Op : x > u => Vuota(T[x])
  BY <1>1 DEF Sane
<1> QED
  BY <1>1, <1>2, <1>3, <1>4 DEF Sane

\* getTenantDb in copy k: what it does to one row, and to them all.  The rows of
\* the other copy may still have a coroutine that holds its connection.
LEMMA RecuperoSano ==
    ASSUME NEW R, NEW u, NEW a, Sane(R, u, a), NEW k \in Copie, ~a[k],
           NEW b, b = [a EXCEPT ![k] = TRUE], NEW T, T = Recupera(R)
    PROVE  /\ Sane(T, u, b)
           /\ Tenuti(R, T)
           /\ Fermi(R, T)
<1>0. /\ b \in [Copie -> BOOLEAN] /\ b[k]
      /\ \A j \in Copie \ {k} : b[j] = a[j]
  BY DEF Sane
<1>1. ASSUME NEW o \in Op
      PROVE  /\ T[o] \in Riga
             /\ RigaSana(T[o], b)
             /\ T[o].lavoro = R[o].lavoro /\ T[o].auto = R[o].auto /\ T[o].copia = R[o].copia
             /\ T[o].host = R[o].host /\ T[o].azione = R[o].azione
             /\ Conclusa(R[o]) => T[o].stato = R[o].stato /\ Conclusa(T[o])
             /\ Vuota(R[o]) => Vuota(T[o])
  <2>1. R[o] \in Riga /\ RigaSana(R[o], a) /\ R[o].copia \in Copie
    BY DEF Sane, Riga
  <2>2. CASE R[o].stato = "queued" \/ (R[o].stato = "running" /\ ~R[o].recente)
    <3>1. T[o] = [R[o] EXCEPT !.stato = "failed", !.recente = TRUE]
      BY <2>2 DEF Recupera
    <3>2. T[o] \in Riga
      BY <2>1, <3>1 DEF Riga, Finali
    <3>3. /\ T[o].stato = "failed" /\ T[o].lavoro = R[o].lavoro /\ T[o].copia = R[o].copia
          /\ T[o].azione = R[o].azione /\ T[o].host = R[o].host
          /\ T[o].presa = R[o].presa /\ T[o].auto = R[o].auto
      BY <2>1, <3>1 DEF Riga
    <3>4. ~Vuota(R[o]) /\ ~Conclusa(R[o])
      BY <2>2 DEF Vuota, Conclusa
    <3>5. ~(R[o].lavoro = "comando" /\ R[o].azione # "install")
      BY <2>1, <2>2 DEF RigaSana
    <3>6. R[o].presa => a[R[o].copia] /\ R[o].copia # k /\ R[o].lavoro # "nessuno"
      BY <2>1 DEF RigaSana
    <3>7. R[o].presa => b[R[o].copia]
      BY <1>0, <2>1, <3>6
    <3> QED
      BY <3>2, <3>3, <3>4, <3>5, <3>6, <3>7 DEF RigaSana
  <2>3. CASE ~(R[o].stato = "queued" \/ (R[o].stato = "running" /\ ~R[o].recente))
    <3>1. T[o] = R[o]
      BY <2>3 DEF Recupera
    <3>2. a[R[o].copia] => b[R[o].copia]
      BY <1>0, <2>1
    <3>3. RigaSana(R[o], b)
      BY <2>1, <2>3, <3>2 DEF RigaSana
    <3> QED
      BY <2>1, <3>1, <3>3
  <2> QED
    BY <2>2, <2>3
<1>2. T \in [Op -> Riga]
  BY <1>1 DEF Recupera
<1>3. ASSUME NEW o \in Op, NEW x \in Op, o # x PROVE ~Insieme(T[o], T[x])
  BY <1>1, <1>3 DEF Sane, Insieme
<1>4. Sane(T, u, b) /\ Tenuti(R, T)
  BY <1>0, <1>1, <1>2, <1>3 DEF Sane, Tenuti
<1>5. Fermi(R, T)
  BY <1>1 DEF Fermi, StessiPosti, Seduto
<1> QED
  BY <1>4, <1>5

\* Who asks copy k for the database, whether it is open there or not.
LEMMA ApertaSana ==
    ASSUME NEW R, NEW u, NEW a, Sane(R, u, a), NEW k \in Copie,
           NEW b, b = [a EXCEPT ![k] = TRUE],
           NEW T, T = IF a[k] THEN R ELSE Recupera(R)
    PROVE  /\ Sane(T, u, b)
           /\ Tenuti(R, T)
           /\ Fermi(R, T)
<1>1. CASE a[k]
  <2>1. b = a /\ T = R
    BY <1>1 DEF Sane
  <2> QED
    BY <2>1 DEF Tenuti, Fermi, StessiPosti
<1>2. CASE ~a[k]
  <2>1. T = Recupera(R)
    BY <1>2
  <2> QED
    BY <1>2, <2>1, RecuperoSano
<1> QED
  BY <1>1, <1>2

\* A row that has just been written, beside the rows of R: it waits, or it began
\* at once because it does not wait or because nobody runs on its host.
Nascita(R, r) ==
    /\ r \in Riga /\ r.presa
    /\ \/ r.lavoro = "attende" /\ r.stato = "queued"
       \/ /\ r.lavoro = "comando" /\ r.stato = "running" /\ r.recente
          /\ \/ r.azione \notin Aspetta
             \/ \A x \in Op : ~ /\ R[x].host = r.host
                                /\ R[x].azione \in Occupa
                                /\ R[x].stato = "running"

\* The rows of the ids after u, up to v, are written in copy k: of different hosts,
\* if they are more than one.
Scritte(k, R, T, u, v) ==
    /\ T \in [Op -> Riga]
    /\ u <= v
    /\ \A o \in Op : ~(u < o /\ o <= v) => T[o] = R[o]
    /\ \A o \in Op : u < o /\ o <= v => Nascita(R, T[o]) /\ T[o].copia = k
    /\ \A o, x \in Op : o # x /\ u < o /\ o <= v /\ u < x /\ x <= v => T[o].host # T[x].host

LEMMA RigheNuove ==
    ASSUME NEW R, NEW u, NEW a, Sane(R, u, a), NEW k \in Copie, a[k],
           NEW v \in 0..NOp, NEW T, Scritte(k, R, T, u, v)
    PROVE  Sane(T, v, a) /\ Tenuti(R, T)
<1> USE PatchAssumption DEF Scritte
<1>1. u \in 0..NOp /\ R \in [Op -> Riga] /\ a \in [Copie -> BOOLEAN]
  BY DEF Sane
<1>2. \A o \in Op : o > v => Vuota(T[o])
  BY <1>1 DEF Sane, Op
<1>3. ASSUME NEW o \in Op PROVE RigaSana(T[o], a)
  <2>1. CASE u < o /\ o <= v
    BY <2>1 DEF Nascita, RigaSana
  <2>2. CASE ~(u < o /\ o <= v)
    BY <2>2 DEF Sane
  <2> QED
    BY <2>1, <2>2
\* A new command and an old one on the same host: the new one looked.
<1>4. ASSUME NEW o \in Op, NEW x \in Op, u < o, o <= v, ~(u < x /\ x <= v)
      PROVE  ~Insieme(T[o], T[x])
  <2>1. Nascita(R, T[o]) /\ T[x] = R[x] /\ RigaSana(R[x], a)
    BY <1>4 DEF Sane
  <2> SUFFICES ASSUME Insieme(T[o], T[x]) PROVE FALSE
    OBVIOUS
  <2>2. R[x].host = T[o].host /\ R[x].azione \in Aspetta /\ R[x].lavoro = "comando"
        /\ T[o].azione \in Aspetta /\ T[o].lavoro = "comando"
    BY <2>1 DEF Insieme
  <2>3. R[x].stato = "running" /\ R[x].azione \in Occupa
    BY <2>1, <2>2 DEF RigaSana, Aspetta, Occupa
  <2> QED
    BY <2>1, <2>2, <2>3 DEF Nascita
<1>5. ASSUME NEW o \in Op, NEW x \in Op, o # x PROVE ~Insieme(T[o], T[x])
  <2>1. CASE (u < o /\ o <= v) /\ (u < x /\ x <= v)
    BY <1>5, <2>1 DEF Insieme
  <2>2. CASE (u < o /\ o <= v) /\ ~(u < x /\ x <= v)
    BY <1>4, <2>2
  <2>3. CASE ~(u < o /\ o <= v) /\ (u < x /\ x <= v)
    <3>1. ~Insieme(T[x], T[o])
      BY <1>4, <2>3
    <3> QED
      BY <3>1 DEF Insieme
  <2>4. CASE ~(u < o /\ o <= v) /\ ~(u < x /\ x <= v)
    BY <1>5, <2>4 DEF Sane
  <2> QED
    BY <2>1, <2>2, <2>3, <2>4
<1>6. Tenuti(R, T)
  <2> SUFFICES ASSUME NEW o \in Op, Conclusa(R[o])
               PROVE  T[o].stato = R[o].stato /\ Conclusa(T[o])
    BY DEF Tenuti
  <2>1. ~Vuota(R[o])
    BY DEF Vuota, Conclusa
  <2>2. ~(o > u)
    BY <2>1 DEF Sane
  <2> QED
    BY <2>2, <1>1 DEF Op
<1> QED
  BY <1>1, <1>2, <1>3, <1>5, <1>6 DEF Sane

\* What Nata writes: one row, new, as it was asked.
Ospite == Host \union {0}
Nuova(k, R, T, o, h, auto) ==
    /\ T \in [Op -> Riga]
    /\ \A y \in Op \ {o} : T[y] = R[y]
    /\ Nascita(R, T[o])
    /\ T[o].host = h /\ T[o].auto = auto /\ T[o].copia = k

LEMMA CheCosaNasce ==
    ASSUME NEW R \in [Op -> Riga], NEW o \in Op, NEW h \in Ospite, NEW x \in Azioni,
           NEW auto \in BOOLEAN, NEW k \in Copie, Vuota(R[o]),
           NEW T, T = Nata(R, o, h, x, auto, k)
    PROVE  Nuova(k, R, T, o, h, auto)
<1> DEFINE n == [Assente EXCEPT !.stato = "queued", !.azione = x, !.host = h,
                   !.auto = auto, !.copia = k, !.lavoro = "attende", !.presa = TRUE]
           N == [R EXCEPT ![o] = n]
<1>1. /\ n \in Riga /\ n.stato = "queued" /\ n.lavoro = "attende" /\ n.presa
      /\ n.host = h /\ n.auto = auto /\ n.azione = x /\ n.copia = k
  BY DEF Assente, Riga, Finali, Ospite
<1> HIDE DEF n
<1>2. N \in [Op -> Riga] /\ N[o] = n /\ \A y \in Op \ {o} : N[y] = R[y]
  BY <1>1
<1>3. T = IF x \notin Aspetta \/ Libero(N, o) THEN Partita(N, o) ELSE N
  BY DEF Nata, n
<1> HIDE DEF N
<1>4. CASE x \notin Aspetta \/ Libero(N, o)
  <2>1. T = [N EXCEPT ![o] = [n EXCEPT !.stato = "running", !.recente = TRUE,
                                       !.lavoro = "comando"]]
    BY <1>2, <1>3, <1>4 DEF Partita
  <2>2. T[o] = [n EXCEPT !.stato = "running", !.recente = TRUE, !.lavoro = "comando"]
        /\ \A y \in Op \ {o} : T[y] = R[y]
    BY <1>2, <2>1
  <2>3. /\ T[o] \in Riga /\ T[o].stato = "running" /\ T[o].lavoro = "comando"
        /\ T[o].presa /\ T[o].recente
        /\ T[o].host = h /\ T[o].auto = auto /\ T[o].azione = x /\ T[o].copia = k
    <3>1. T[o] \in Riga
      BY <1>1, <2>2, ZenonT(60) DEF Riga
    <3>2. T[o].stato = "running" /\ T[o].lavoro = "comando" /\ T[o].recente
      BY <1>1, <2>2 DEF Riga
    <3>3. /\ T[o].presa = n.presa /\ T[o].host = n.host /\ T[o].auto = n.auto
          /\ T[o].azione = n.azione /\ T[o].copia = n.copia
      BY <1>1, <2>2, ZenonT(60) DEF Riga
    <3> QED
      BY <1>1, <3>1, <3>2, <3>3
  <2>4. T \in [Op -> Riga]
    BY <1>2, <2>1, <2>2, <2>3
  <2>5. ASSUME Libero(N, o), NEW y \in Op,
               R[y].host = h, R[y].azione \in Occupa, R[y].stato = "running"
        PROVE  FALSE
    <3>1. y # o
      BY <2>5 DEF Vuota
    <3> QED
      BY <2>5, <3>1, <1>1, <1>2 DEF Libero
  <2>6. Nascita(R, T[o])
    BY <1>4, <2>3, <2>5 DEF Nascita
  <2> QED
    BY <2>2, <2>3, <2>4, <2>6 DEF Nuova
<1>5. CASE ~(x \notin Aspetta \/ Libero(N, o))
  BY <1>1, <1>2, <1>3, <1>5 DEF Nascita, Nuova
<1> QED
  BY <1>4, <1>5

\* From R to T the coroutine of o ends; the row o is born on the host h,
\* in copy k.
Finita(R, T, o) ==
    /\ Tenuti(R, T)
    /\ T[o].lavoro = "nessuno" /\ T[o].auto = R[o].auto
    /\ \A x \in Op \ {o} : T[x] = R[x]
Aggiunta(k, R, T, o, h, auto) ==
    /\ Tenuti(R, T)
    /\ o \in Op /\ Vuota(R[o])
    /\ T[o].host = h /\ T[o].auto = auto /\ T[o].copia = k /\ T[o].lavoro # "nessuno"
    /\ \A y \in Op \ {o} : T[y] = R[y]

\* One new row.
LEMMA NasceUna ==
    ASSUME NEW R, NEW u, NEW a, Sane(R, u, a), u < NOp, NEW h \in Ospite,
           NEW x \in Azioni, NEW auto \in BOOLEAN, NEW k \in Copie, a[k],
           NEW T, T = Nata(R, u + 1, h, x, auto, k)
    PROVE  Sane(T, u + 1, a) /\ Aggiunta(k, R, T, u + 1, h, auto)
<1> USE PatchAssumption
<1>1. u + 1 \in Op /\ u + 1 \in 0..NOp /\ u \in Nat /\ R \in [Op -> Riga]
  BY DEF Sane, Op
<1>2. Vuota(R[u + 1])
  BY <1>1 DEF Sane
<1>3. Nuova(k, R, T, u + 1, h, auto)
  BY <1>1, <1>2, CheCosaNasce
<1>4. \A y \in Op : u < y /\ y <= u + 1 <=> y = u + 1
  BY <1>1 DEF Op
<1>7. u <= u + 1
  BY <1>1
<1>5. Scritte(k, R, T, u, u + 1)
  BY <1>3, <1>4, <1>7 DEF Scritte, Nuova
<1>8. Sane(T, u + 1, a) /\ Tenuti(R, T)
  BY <1>1, <1>5, RigheNuove
<1>6. T[u + 1].lavoro # "nessuno"
  BY <1>3 DEF Nascita, Nuova
<1> QED
  BY <1>1, <1>2, <1>3, <1>6, <1>8 DEF Aggiunta, Nuova

\* Partita of a row that holds the database and waits, its host free.
LEMMA ParteSana ==
    ASSUME NEW R, NEW u, NEW a, Sane(R, u, a), NEW o \in Op,
           R[o].lavoro = "attende", R[o].presa, Libero(R, o)
    PROVE  Sane(Partita(R, o), u, a) /\ Tenuti(R, Partita(R, o)) /\ Fermi(R, Partita(R, o))
<1> DEFINE r == [R[o] EXCEPT !.stato = "running", !.recente = TRUE, !.lavoro = "comando"]
           T == Partita(R, o)
<1>1. R \in [Op -> Riga] /\ R[o] \in Riga /\ RigaSana(R[o], a) /\ u \in 0..NOp /\ a \in [Copie -> BOOLEAN]
  BY DEF Sane
<1>2. /\ r \in Riga /\ r.stato = "running" /\ r.recente /\ r.lavoro = "comando" /\ r.presa
      /\ r.host = R[o].host /\ r.azione = R[o].azione /\ r.auto = R[o].auto
      /\ r.copia = R[o].copia
  BY <1>1 DEF Riga
<1>3. T = [R EXCEPT ![o] = r]
  BY <1>1 DEF Partita
<1> HIDE DEF r, T
<1>4. T \in [Op -> Riga] /\ T[o] = r /\ \A x \in Op \ {o} : T[x] = R[x]
  BY <1>1, <1>2, <1>3
<1>5. ~Vuota(R[o]) /\ ~Conclusa(R[o]) /\ a[R[o].copia]
  BY <1>1 DEF RigaSana, Vuota, Conclusa
<1>6. \A x \in Op : x > u => Vuota(T[x])
  BY <1>4, <1>5 DEF Sane
<1>7. \A x \in Op : RigaSana(T[x], a)
  <2>1. RigaSana(r, a)
    BY <1>2, <1>5 DEF RigaSana
  <2> QED
    BY <2>1, <1>4 DEF Sane
<1>8. ASSUME NEW x \in Op, x # o PROVE ~Insieme(r, R[x])
  <2> SUFFICES ASSUME Insieme(r, R[x]) PROVE FALSE
    OBVIOUS
  <2>1. R[x].host = R[o].host /\ R[x].azione \in Aspetta /\ R[x].lavoro = "comando"
    BY <1>2 DEF Insieme
  <2>2. RigaSana(R[x], a)
    BY DEF Sane
  <2>3. R[x].stato = "running" /\ R[x].azione \in Occupa
    BY <2>1, <2>2 DEF RigaSana, Aspetta, Occupa
  <2> QED
    BY <1>8, <2>1, <2>3 DEF Libero
<1>9. ASSUME NEW x \in Op, NEW y \in Op, x # y PROVE ~Insieme(T[x], T[y])
  <2>1. CASE x = o
    BY <1>4, <1>8, <1>9, <2>1
  <2>2. CASE y = o
    <3>1. ~Insieme(T[y], T[x])
      BY <1>4, <1>8, <1>9, <2>2
    <3> QED
      BY <3>1 DEF Insieme
  <2>3. CASE x # o /\ y # o
    BY <1>4, <1>9, <2>3 DEF Sane
  <2> QED
    BY <2>1, <2>2, <2>3
<1>10. Sane(T, u, a)
  BY <1>1, <1>4, <1>6, <1>7, <1>9 DEF Sane
<1>11. Tenuti(R, T)
  BY <1>4, <1>5 DEF Tenuti
<1>12. \A x \in Op : /\ T[x].auto = R[x].auto /\ T[x].host = R[x].host
                     /\ T[x].copia = R[x].copia
                     /\ T[x].lavoro # "nessuno" <=> R[x].lavoro # "nessuno"
  BY <1>2, <1>4
<1>13. ASSUME NEW k \in Copie, NEW x \in Op
       PROVE  /\ Seduto(k, T[x]) <=> Seduto(k, R[x])
              /\ Seduto(k, R[x]) => T[x].host = R[x].host
  BY <1>12 DEF Seduto
<1>14. Fermi(R, T)
  BY <1>13 DEF Fermi, StessiPosti
<1> QED
  BY <1>10, <1>11, <1>14 DEF T

\* The end of a coroutine that holds its connection.
LEMMA ChiusaSana ==
    ASSUME NEW R, NEW u, NEW a, Sane(R, u, a), NEW o \in Op, R[o].presa,
           NEW esito \in {"success", "failed"}, NEW manca \in BOOLEAN,
           NEW T, T = Chiusa(R, o, esito, manca)
    PROVE  Sane(T, u, a) /\ Finita(R, T, o)
<1> DEFINE r == [R[o] EXCEPT !.stato = esito, !.manca = manca, !.recente = TRUE,
                             !.lavoro = "nessuno", !.presa = FALSE]
<1>1. R \in [Op -> Riga] /\ R[o] \in Riga /\ RigaSana(R[o], a)
  BY DEF Sane
<1>2. /\ r \in Riga /\ r.stato = esito /\ r.lavoro = "nessuno" /\ ~r.presa
      /\ r.host = R[o].host /\ r.azione = R[o].azione /\ r.auto = R[o].auto
  BY <1>1 DEF Riga, Finali
<1>3. T = [R EXCEPT ![o] = r]
  BY <1>1 DEF Chiusa
<1> HIDE DEF r
<1>4. T[o] = r /\ \A x \in Op \ {o} : T[x] = R[x]
  BY <1>1, <1>3
<1>5. ~Vuota(R[o]) /\ ~Conclusa(R[o])
  <2>1. R[o].lavoro \in {"attende", "comando"}
    BY <1>1 DEF RigaSana, Riga
  <2> QED
    BY <1>1, <2>1 DEF RigaSana, Vuota, Conclusa
<1>6. RigaSana(r, a)
  BY <1>2 DEF RigaSana
<1>7. Sane(T, u, a)
  BY <1>2, <1>3, <1>5, <1>6, UnaRiga
<1>8. Tenuti(R, T)
  BY <1>4, <1>5 DEF Tenuti
<1> QED
  BY <1>2, <1>4, <1>7, <1>8 DEF Finita

\* The end of a coroutine whose connection was closed: nothing is written.
LEMMA MorteSana ==
    ASSUME NEW R, NEW u, NEW a, Sane(R, u, a), NEW o \in Op, ~R[o].presa, R[o].lavoro # "nessuno",
           NEW T, T = [R EXCEPT ![o].lavoro = "nessuno"]
    PROVE  Sane(T, u, a) /\ Finita(R, T, o)
<1> DEFINE r == [R[o] EXCEPT !.lavoro = "nessuno"]
<1>1. R \in [Op -> Riga] /\ R[o] \in Riga /\ RigaSana(R[o], a)
  BY DEF Sane
<1>2. /\ r \in Riga /\ r.stato = R[o].stato /\ r.lavoro = "nessuno" /\ r.presa = R[o].presa
      /\ r.host = R[o].host /\ r.azione = R[o].azione /\ r.auto = R[o].auto
      /\ r.copia = R[o].copia
  BY <1>1 DEF Riga
<1>3. T = [R EXCEPT ![o] = r]
  BY <1>1
<1> HIDE DEF r
<1>4. T[o] = r /\ \A x \in Op \ {o} : T[x] = R[x]
  BY <1>1, <1>3
<1>5. ~Vuota(R[o])
  BY DEF Vuota
<1>6. RigaSana(r, a)
  BY <1>1, <1>2 DEF RigaSana
<1>7. Sane(T, u, a)
  BY <1>2, <1>3, <1>5, <1>6, UnaRiga
<1>8. Tenuti(R, T)
  BY <1>2, <1>4 DEF Tenuti, Conclusa
<1> QED
  BY <1>2, <1>4, <1>7, <1>8 DEF Finita

-----------------------------------------------------------------------------
(* The steps of PatchOperations                                            *)

\* What a step does to the rows, whoever takes it.
Avanza == RigheSane' /\ Tenuti(righe, righe')

\* The rows as they are found by whoever asks copy k for the database.
LEMMA AperteSane ==
    ASSUME RigheSane, NEW k \in Copie
    PROVE  /\ Sane(Aperte(k), ultima, [aperto EXCEPT ![k] = TRUE])
           /\ Tenuti(righe, Aperte(k))
           /\ Fermi(righe, Aperte(k))
<1> DEFINE b == [aperto EXCEPT ![k] = TRUE]
           T == Aperte(k)
<1>1. Sane(righe, ultima, aperto) /\ T = IF aperto[k] THEN righe ELSE Recupera(righe)
  BY DEF RigheSane, Aperte
<1>2. b = [aperto EXCEPT ![k] = TRUE]
  OBVIOUS
<1> HIDE DEF b, T
<1>3. Sane(T, ultima, b) /\ Tenuti(righe, T) /\ Fermi(righe, T)
  BY <1>1, <1>2, ApertaSana
<1> QED
  BY <1>3 DEF b, T

LEMMA PassoApri ==
    ASSUME RigheSane, NEW k \in Copie, Apri(k) PROVE Avanza /\ Fermi(righe, righe')
BY AperteSane DEF Apri, Avanza, RigheSane

\* The connection of copy k is closed under its coroutines; the process dies.
LEMMA PassoSfratto ==
    ASSUME RigheSane, NEW k \in Copie, Sfratto(k) PROVE Avanza /\ Fermi(righe, righe')
<1>0. /\ righe \in [Op -> Riga] /\ aperto' \in [Copie -> BOOLEAN] /\ ~aperto'[k]
      /\ \A j \in Copie \ {k} : aperto'[j] = aperto[j]
  BY DEF RigheSane, Sane, Sfratto
<1>1. ASSUME NEW o \in Op
      PROVE  /\ righe'[o] \in Riga
             /\ righe'[o].presa => righe[o].presa /\ righe[o].copia # k
             /\ righe[o].copia # k => righe'[o].presa = righe[o].presa
             /\ righe'[o].stato = righe[o].stato /\ righe'[o].recente = righe[o].recente
             /\ righe'[o].lavoro = righe[o].lavoro /\ righe'[o].azione = righe[o].azione
             /\ righe'[o].host = righe[o].host /\ righe'[o].auto = righe[o].auto
             /\ righe'[o].copia = righe[o].copia
             /\ Vuota(righe[o]) => Vuota(righe'[o])
  <2>1. righe[o] \in Riga
    BY <1>0
  <2>2. CASE righe[o].copia = k
    <3>1. righe'[o] = [righe[o] EXCEPT !.presa = FALSE]
      BY <2>2 DEF Sfratto
    <3> QED
      BY <2>1, <2>2, <3>1 DEF Riga, Vuota
  <2>3. CASE righe[o].copia # k
    <3>1. righe'[o] = righe[o]
      BY <2>3 DEF Sfratto
    <3> QED
      BY <2>1, <2>3, <3>1
  <2> QED
    BY <2>2, <2>3
<1>2. righe' \in [Op -> Riga] /\ ultima' = ultima
  BY <1>1 DEF Sfratto
<1>3. ASSUME NEW o \in Op PROVE RigaSana(righe'[o], aperto')
  <2>1. RigaSana(righe[o], aperto) /\ righe[o].copia \in Copie
    BY <1>0 DEF RigheSane, Sane, Riga
  <2>2. CASE righe[o].copia = k
    BY <1>0, <1>1, <2>1, <2>2 DEF RigaSana
  <2>3. CASE righe[o].copia # k
    BY <1>0, <1>1, <2>1, <2>3 DEF RigaSana
  <2> QED
    BY <2>2, <2>3
<1>4. ASSUME NEW o \in Op, NEW x \in Op, o # x PROVE ~Insieme(righe'[o], righe'[x])
  BY <1>1, <1>4 DEF RigheSane, Sane, Insieme
<1>5. RigheSane'
  BY <1>0, <1>1, <1>2, <1>3, <1>4 DEF RigheSane, Sane
<1> QED
  BY <1>1, <1>5 DEF Avanza, Tenuti, Conclusa, Fermi, StessiPosti, Seduto

LEMMA PassoCrollo ==
    RigheSane /\ Crollo => Avanza /\ \A k \in Copie, o \in Op : ~Seduto(k, righe'[o])
<1> SUFFICES ASSUME RigheSane, Crollo
             PROVE  Avanza /\ \A k \in Copie, o \in Op : ~Seduto(k, righe'[o])
  OBVIOUS
<1>1. ASSUME NEW o \in Op
      PROVE  /\ righe'[o] \in Riga /\ ~righe'[o].presa /\ righe'[o].lavoro = "nessuno"
             /\ righe'[o].stato = righe[o].stato
             /\ Vuota(righe[o]) => Vuota(righe'[o])
  <2>1. righe \in [Op -> Riga] /\ righe[o] \in Riga
    BY DEF RigheSane, Sane
  <2>2. righe'[o] = [righe[o] EXCEPT !.lavoro = "nessuno", !.presa = FALSE]
    BY DEF Crollo
  <2> QED
    BY <2>1, <2>2 DEF Riga, Vuota
<1>2. /\ righe' \in [Op -> Riga] /\ aperto' \in [Copie -> BOOLEAN] /\ ultima' = ultima
      /\ \A k \in Copie : ~aperto'[k]
  BY <1>1 DEF Crollo
<1>3. \A o \in Op : RigaSana(righe'[o], aperto')
  BY <1>1, <1>2 DEF RigaSana, Riga
<1>4. \A o, x \in Op : o # x => ~Insieme(righe'[o], righe'[x])
  BY <1>1 DEF Insieme
<1>5. RigheSane'
  BY <1>1, <1>2, <1>3, <1>4 DEF RigheSane, Sane
<1> QED
  BY <1>1, <1>5 DEF Avanza, Tenuti, Conclusa, Seduto

LEMMA PassoCrea ==
    ASSUME RigheSane, NEW h \in Host, NEW x \in Richieste, Crea(h, x)
    PROVE  Avanza /\ Fermi(righe, righe')
<1>1. x \in Azioni /\ ultima < NOp /\ "rotte" \in Copie
  BY PatchAssumption DEF Azioni, Occupa, Aspetta, Crea, Copie
<1> DEFINE A == Aperte("rotte")
           b == [aperto EXCEPT !["rotte"] = TRUE]
<1>2. Sane(A, ultima, b) /\ Tenuti(righe, A) /\ Fermi(righe, A)
  BY <1>1, AperteSane
<1>3. /\ righe' = Nata(A, ultima + 1, h, x, FALSE, "rotte") /\ h \in Ospite
      /\ FALSE \in BOOLEAN /\ aperto' = b /\ ultima' = ultima + 1 /\ b["rotte"]
  BY <1>1 DEF Crea, Ospite, RigheSane, Sane
<1> HIDE DEF A, b
<1>4. Sane(righe', ultima + 1, b) /\ Aggiunta("rotte", A, righe', ultima + 1, h, FALSE)
  BY <1>1, <1>2, <1>3, NasceUna
<1>5. Tenuti(A, righe') /\ Fermi(A, righe')
  BY <1>4 DEF Aggiunta, Fermi, StessiPosti, Seduto, Vuota
<1> DEFINE S == righe
           T == righe'
<1>6. Tenuti(S, A) /\ Fermi(S, A) /\ Tenuti(A, T) /\ Fermi(A, T)
  BY <1>2, <1>5
<1> HIDE DEF S, T
<1>7. Tenuti(S, T) /\ Fermi(S, T)
  BY <1>6, PostiTransitivi, EsitiTransitivi
<1> QED
  BY <1>3, <1>4, <1>7 DEF Avanza, RigheSane, S, T

LEMMA PassoParte ==
    ASSUME RigheSane, NEW o \in Op, Parte(o)
    PROVE  Avanza /\ Fermi(righe, righe')
BY ParteSana DEF RigheSane, Parte, Viva, Avanza

\* A coroutine of the admin ends: its row takes no seat and leaves none.
LEMMA NonSedeva ==
    ASSUME NEW R, NEW T, NEW o \in Op, ~R[o].auto, Finita(R, T, o)
    PROVE  Fermi(R, T)
BY DEF Finita, Fermi, StessiPosti, Seduto

LEMMA NonSiSiede ==
    ASSUME NEW k, NEW R, NEW T, NEW o \in Op, NEW h, Aggiunta(k, R, T, o, h, FALSE)
    PROVE  Fermi(R, T)
BY DEF Aggiunta, Fermi, StessiPosti, Seduto, Vuota

LEMMA PassoScade ==
    ASSUME RigheSane, NEW o \in Op, ScadeAttesa(o)
    PROVE  Avanza /\ (~righe[o].auto => Fermi(righe, righe'))
<1>2. Sane(righe, ultima, aperto) /\ righe[o].presa
      /\ righe' = Chiusa(righe, o, "failed", FALSE)
  BY DEF RigheSane, ScadeAttesa, Viva
<1>1. Sane(righe', ultima, aperto) /\ Finita(righe, righe', o)
  BY <1>2, ChiusaSana
<1> QED
  BY <1>1, NonSedeva DEF ScadeAttesa, Avanza, RigheSane, Finita

LEMMA PassoMuore ==
    ASSUME RigheSane, NEW o \in Op, Muore(o)
    PROVE  Avanza /\ (~righe[o].auto => Fermi(righe, righe'))
<1>2. Sane(righe, ultima, aperto) /\ ~righe[o].presa /\ righe[o].lavoro # "nessuno"
      /\ righe' = [righe EXCEPT ![o].lavoro = "nessuno"]
  BY DEF RigheSane, Muore
<1>1. Sane(righe', ultima, aperto) /\ Finita(righe, righe', o)
  BY <1>2, MorteSana
<1> QED
  BY <1>1, NonSedeva DEF Muore, Avanza, RigheSane, Finita

\* The end of a command, and the probe that follows an upgrade.
LEMMA PassoFine ==
    ASSUME RigheSane, NEW o \in Op, Fine(o)
    PROVE  Avanza /\ (~righe[o].auto => Fermi(righe, righe'))
<1> PICK manca \in BOOLEAN, esito \in {"success", "failed"} : FineComando(o, esito, manca)
  BY DEF Fine
<1> DEFINE C == Chiusa(righe, o, esito, manca)
           k == righe[o].copia
<1>1. /\ righe[o].presa /\ righe[o].lavoro = "comando" /\ aperto[k] /\ k \in Copie
      /\ righe[o] \in Riga /\ Sane(righe, ultima, aperto)
  BY DEF FineComando, Viva, RigheSane, Sane, RigaSana, Riga
<1>2. Sane(C, ultima, aperto) /\ Finita(righe, C, o)
  BY <1>1, ChiusaSana
<1>3. \/ righe' = C /\ ultima' = ultima
      \/ /\ ultima < NOp /\ ultima' = ultima + 1
         /\ righe' = Nata(C, ultima + 1, righe[o].host, "probe", FALSE, k)
  BY DEF FineComando
<1> HIDE DEF C, k
<1>4. (~righe[o].auto => Fermi(righe, C)) /\ Tenuti(righe, C)
  BY <1>2, NonSedeva DEF Finita
<1>5. CASE righe' = C /\ ultima' = ultima
  BY <1>2, <1>4, <1>5 DEF FineComando, Avanza, RigheSane
<1>6. ASSUME ultima < NOp, ultima' = ultima + 1,
             righe' = Nata(C, ultima + 1, righe[o].host, "probe", FALSE, k)
      PROVE  Avanza /\ (~righe[o].auto => Fermi(righe, righe'))
  <2>1. righe[o].host \in Ospite /\ "probe" \in Azioni /\ FALSE \in BOOLEAN
    BY <1>1 DEF Riga, Azioni, Ospite
  <2>2. /\ Sane(righe', ultima + 1, aperto)
        /\ Aggiunta(k, C, righe', ultima + 1, righe[o].host, FALSE)
    BY <1>1, <1>2, <1>6, <2>1, NasceUna
  <2>3. Tenuti(C, righe') /\ ultima + 1 \in Op
    BY <2>2 DEF Aggiunta
  <2>4. Fermi(C, righe')
    BY <2>2, <2>3, NonSiSiede
  <2> DEFINE S == righe
             T == righe'
  <2>5. Tenuti(S, C) /\ Tenuti(C, T) /\ Fermi(C, T) /\ (~righe[o].auto => Fermi(S, C))
    BY <1>4, <2>3, <2>4
  <2> HIDE DEF S, T
  <2>6. Tenuti(S, T) /\ (~righe[o].auto => Fermi(S, T))
    BY <2>5, PostiTransitivi, EsitiTransitivi
  <2> QED
    BY <1>6, <2>2, <2>6 DEF FineComando, Avanza, RigheSane, S, T
<1> QED
  BY <1>3, <1>5, <1>6

LEMMA PassoAnnulla ==
    ASSUME RigheSane, NEW o \in Op, Annulla(o)
    PROVE  Avanza /\ Fermi(righe, righe')
<1> DEFINE r == [righe[o] EXCEPT !.stato = "cancelled"]
<1>1. righe \in [Op -> Riga] /\ righe[o] \in Riga /\ RigaSana(righe[o], aperto)
      /\ righe[o].stato = "queued"
  BY DEF RigheSane, Sane, Annulla
<1>2. /\ r \in Riga /\ r.stato = "cancelled" /\ r.lavoro = righe[o].lavoro
      /\ r.presa = righe[o].presa /\ r.copia = righe[o].copia
      /\ r.host = righe[o].host /\ r.azione = righe[o].azione /\ r.auto = righe[o].auto
  BY <1>1 DEF Riga, Finali
<1>3. righe' = [righe EXCEPT ![o] = r]
  BY <1>1 DEF Annulla
<1> HIDE DEF r
<1>4. righe'[o] = r /\ \A x \in Op \ {o} : righe'[x] = righe[x]
  BY <1>1, <1>3
<1>5. RigaSana(r, aperto)
  BY <1>1, <1>2 DEF RigaSana
<1>8. Sane(righe, ultima, aperto) /\ ~Vuota(righe[o])
  BY <1>1 DEF RigheSane, Vuota
<1>6. Sane(righe', ultima, aperto)
  BY <1>2, <1>3, <1>5, <1>8, UnaRiga
<1>7. Tenuti(righe, righe') /\ Fermi(righe, righe')
  BY <1>1, <1>2, <1>4 DEF Tenuti, Conclusa, Fermi, StessiPosti, Seduto
<1> QED
  BY <1>6, <1>7 DEF Avanza, RigheSane, Annulla

LEMMA PassoPassa ==
    ASSUME RigheSane, NEW o \in Op, Passa(o)
    PROVE  Avanza /\ Fermi(righe, righe')
<1> DEFINE r == [righe[o] EXCEPT !.recente = FALSE]
<1>1. righe \in [Op -> Riga] /\ righe[o] \in Riga /\ RigaSana(righe[o], aperto) /\ righe[o].recente
  BY DEF RigheSane, Sane, Passa
<1>2. /\ r \in Riga /\ r.stato = righe[o].stato /\ r.lavoro = righe[o].lavoro
      /\ r.presa = righe[o].presa /\ r.copia = righe[o].copia
      /\ r.host = righe[o].host /\ r.azione = righe[o].azione /\ r.auto = righe[o].auto
  BY <1>1 DEF Riga
<1>3. righe' = [righe EXCEPT ![o] = r]
  BY <1>1 DEF Passa
<1> HIDE DEF r
<1>4. righe'[o] = r /\ \A x \in Op \ {o} : righe'[x] = righe[x]
  BY <1>1, <1>3
<1>5. RigaSana(r, aperto)
  BY <1>1, <1>2 DEF RigaSana, Passa, Finali
<1>8. Sane(righe, ultima, aperto) /\ ~Vuota(righe[o])
  BY <1>1 DEF RigheSane, Vuota
<1>6. Sane(righe', ultima, aperto)
  BY <1>2, <1>3, <1>5, <1>8, UnaRiga
<1>7. Tenuti(righe, righe') /\ Fermi(righe, righe')
  BY <1>2, <1>4 DEF Tenuti, Conclusa, Fermi, StessiPosti, Seduto
<1> QED
  BY <1>6, <1>7 DEF Avanza, RigheSane, Passa

\* Every step of PatchOperations but the restart, and the end of a coroutine.
LEMMA PassoRighe ==
    RigheSane /\ [Next]_vars => Avanza
<1> SUFFICES ASSUME RigheSane, [Next]_vars PROVE Avanza
  OBVIOUS
<1>1. ASSUME NEW h \in Host, NEW x \in Richieste, Crea(h, x) PROVE Avanza
  BY <1>1, PassoCrea
<1>2. ASSUME NEW o \in Op,
             Parte(o) \/ ScadeAttesa(o) \/ Fine(o) \/ Muore(o) \/ Annulla(o) \/ Passa(o)
      PROVE  Avanza
  BY <1>2, PassoParte, PassoScade, PassoFine, PassoMuore, PassoAnnulla, PassoPassa
<1>3. CASE UNCHANGED vars
  BY <1>3 DEF vars, Avanza, RigheSane, Tenuti
<1>4. ASSUME NEW k \in Copie, Apri(k) \/ Sfratto(k) PROVE Avanza
  BY <1>4, PassoApri, PassoSfratto
<1> QED
  BY <1>1, <1>2, <1>3, <1>4, PassoCrollo DEF Next

LEMMA RigheIniziali == Init => RigheSane
<1> SUFFICES ASSUME Init PROVE RigheSane
  OBVIOUS
<1>1. \A o \in Op : righe[o] = Assente
  BY DEF Init
<1>2. righe \in [Op -> Riga]
  BY AssenteSana DEF Init
<1>3. \A o \in Op : RigaSana(righe[o], aperto) /\ Vuota(righe[o])
  BY <1>1, AssenteSana
<1>4. \A o, x \in Op : ~Insieme(righe[o], righe[x])
  BY <1>3 DEF Insieme, Vuota
<1>5. ultima \in 0..NOp
  BY PatchAssumption DEF Init
<1>6. aperto \in [Copie -> BOOLEAN]
  BY DEF Init
<1> QED
  BY <1>2, <1>3, <1>4, <1>5, <1>6 DEF RigheSane, Sane

\* The rows of Patch Management by themselves, whatever an admin asks for and
\* whichever copy opens the database or closes it: one command at a time on a host
\* of those that wait for it, and a queued row whose copy has the database open has
\* a live coroutine; a row recovered under a live coroutine is a wait or an install.
THEOREM RigheSempreSane == Spec => []RigheSane
BY RigheIniziali, PassoRighe, PTL DEF Spec, Avanza

-----------------------------------------------------------------------------
(* The rows under the automatic installs                                   *)

\* How the coroutine of o may end: the row is closed, or left as it is.
LEMMA FineDellaRiga ==
    ASSUME RigheSane, NEW o \in Op, righe[o].lavoro # "nessuno", NEW R \in DopoLaFine(o)
    PROVE  Sane(R, ultima, aperto) /\ Finita(righe, R, o)
<1>1. Sane(righe, ultima, aperto) /\ righe[o] \in Riga
  BY DEF RigheSane, Sane
<1>2. CASE righe[o].presa
  <2>1. righe[o].lavoro = "attende" \/ righe[o].lavoro = "comando"
    BY <1>1 DEF Riga
  <2>2. \E x \in {"success", "failed"} : R = Chiusa(righe, o, x, FALSE)
    BY <1>2, <2>1 DEF DopoLaFine, Viva
  <2> QED
    BY <1>1, <1>2, <2>2, ChiusaSana
<1>3. CASE ~righe[o].presa
  <2>1. R = [righe EXCEPT ![o].lavoro = "nessuno"]
    BY <1>3 DEF DopoLaFine, Viva
  <2> QED
    BY <1>1, <1>3, <2>1, MorteSana
<1> QED
  BY <1>2, <1>3

LEMMA PassoDelleRighe ==
    RigheSane /\ DelleRighe => Avanza /\ Fermi(righe, righe')
<1> SUFFICES ASSUME RigheSane, DelleRighe PROVE Avanza /\ Fermi(righe, righe')
  OBVIOUS
<1>1. ASSUME NEW h \in Host, NEW x \in Richieste, Crea(h, x)
      PROVE  Avanza /\ Fermi(righe, righe')
  BY <1>1, PassoCrea
<1>2. ASSUME NEW o \in Op, Parte(o) \/ Annulla(o) \/ Passa(o)
      PROVE  Avanza /\ Fermi(righe, righe')
  BY <1>2, PassoParte, PassoAnnulla, PassoPassa
<1>3. ASSUME NEW o \in Op, ~righe[o].auto, ScadeAttesa(o) \/ Muore(o) \/ Fine(o)
      PROVE  Avanza /\ Fermi(righe, righe')
  BY <1>3, PassoScade, PassoMuore, PassoFine
<1>4. ASSUME NEW k \in Copie, Apri(k) \/ Sfratto(k)
      PROVE  Avanza /\ Fermi(righe, righe')
  BY <1>4, PassoApri, PassoSfratto
<1> QED
  BY <1>1, <1>2, <1>3, <1>4 DEF DelleRighe

\* The hosts of a round, in order, are all of them and each once.
Elenco(C, n, s) ==
    /\ n \in Nat
    /\ s \in [1..n -> C]
    /\ \A i, j \in 1..n : s[i] = s[j] => i = j
    /\ \A h \in C : \E i \in 1..n : s[i] = h

LEMMA OrdineCompleto ==
    ASSUME NEW C, C \subseteq Host, NEW s \in InOrdine(C)
    PROVE  Elenco(C, Cardinality(C), s)
<1> USE PatchAssumption
<1> DEFINE n == Cardinality(C)
<1>1. IsFiniteSet(C)
  BY FS_Subset
<1>2. n \in Nat
  BY <1>1, FS_CardinalityType
<1>3. IsFiniteSet(1..n) /\ Cardinality(1..n) = n
  BY <1>2, FS_Interval
<1>4. s \in [1..n -> C] /\ \A i, j \in 1..n : i < j => s[i] < s[j]
  BY DEF InOrdine
<1>5. ASSUME NEW i \in 1..n, NEW j \in 1..n, s[i] = s[j] PROVE i = j
  <2>1. s[i] \in Nat /\ s[j] \in Nat
    BY <1>4
  <2>2. ~(i < j) /\ ~(j < i)
    BY <1>4, <1>5, <2>1
  <2> QED
    BY <1>2, <2>2
<1>6. s \in Injection(1..n, C)
  BY <1>4, <1>5 DEF Injection, IsInjective
<1>7. s \in Surjection(1..n, C)
  BY <1>1, <1>3, <1>6, FS_Injection
<1> QED
  BY <1>2, <1>4, <1>5, <1>7 DEF Surjection, Elenco

\* From R to T the rows after u, up to v, are bootstraps born on the hosts s[1],
\* s[2], ..., in copy k, which has the database open.
Sedute(k, a, R, T, u, v, s) ==
    /\ Sane(T, v, a)
    /\ Tenuti(R, T)
    /\ \A o \in Op : ~(u < o /\ o <= v) => T[o] = R[o]
    /\ \A o \in Op : u < o /\ o <= v => Vuota(R[o]) /\ Seduto(k, T[o]) /\ T[o].host = s[o - u]

\* The row o, in R not yet written, is r: a bootstrap that sits down on the host h.
Siedono(k, R, r, o, h) ==
    r \in Riga /\ Nascita(R, r) /\ Vuota(R[o]) /\ Seduto(k, r) /\ r.host = h

LEMMA UnaDiTante ==
    ASSUME NEW R, NEW u, NEW a, Sane(R, u, a), NEW h \in Host, NEW o \in Op, u < o,
           NEW k \in Copie, NEW T, T = Nata(R, o, h, "bootstrap", TRUE, k)
    PROVE  Siedono(k, R, T[o], o, h)
<1>1. R \in [Op -> Riga] /\ Vuota(R[o])
  BY PatchAssumption DEF Sane, Op
<1>2. h \in Ospite /\ "bootstrap" \in Azioni /\ TRUE \in BOOLEAN
  BY DEF Azioni, Occupa, Aspetta, Ospite
<1>3. Nuova(k, R, T, o, h, TRUE)
  BY <1>1, <1>2, CheCosaNasce
<1>4. Seduto(k, T[o])
  BY <1>3 DEF Nascita, Seduto, Nuova
<1> QED
  BY <1>1, <1>3, <1>4 DEF Nuova, Siedono

LEMMA TutteSedute ==
    ASSUME NEW R, NEW u, NEW a, Sane(R, u, a), NEW k \in Copie, a[k], NEW n \in Nat,
           NEW s \in [1..n -> Host],
           \A i, j \in 1..n : s[i] = s[j] => i = j,
           NEW v \in 0..NOp, u <= v, v - u <= n, NEW T \in [Op -> Riga],
           \A o \in Op : ~(u < o /\ o <= v) => T[o] = R[o],
           \A o \in Op : u < o /\ o <= v => Siedono(k, R, T[o], o, s[o - u])
    PROVE  Sedute(k, a, R, T, u, v, s)
<1> USE PatchAssumption DEF Siedono
<1>1. u \in 0..NOp /\ u \in Nat /\ v \in Nat
  BY DEF Sane
<1>2. ASSUME NEW o \in Op, NEW x \in Op, o # x, u < o, o <= v, u < x, x <= v
      PROVE  T[o].host # T[x].host
  <2>1. /\ o - u \in 1..n /\ x - u \in 1..n /\ o - u # x - u
        /\ T[o].host = s[o - u] /\ T[x].host = s[x - u]
    BY <1>1, <1>2 DEF Op
  <2> QED
    BY <2>1
<1>3. \A o \in Op : u < o /\ o <= v => Nascita(R, T[o]) /\ T[o].copia = k
  BY DEF Seduto
<1>4. \A o, x \in Op : o # x /\ u < o /\ o <= v /\ u < x /\ x <= v => T[o].host # T[x].host
  BY <1>2
<1>5. Scritte(k, R, T, u, v)
  BY <1>3, <1>4 DEF Scritte
<1>6. Sane(T, v, a) /\ Tenuti(R, T)
  BY <1>5, RigheNuove
<1> QED
  BY <1>6 DEF Sedute

LEMMA NasconoTutte ==
    ASSUME NEW R, NEW u, NEW a, Sane(R, u, a), NEW k \in Copie, a[k], NEW n \in Nat,
           NEW s \in [1..n -> Host],
           \A i, j \in 1..n : s[i] = s[j] => i = j,
           NEW v \in 0..NOp, u <= v, v - u <= n,
           NEW T, T = [o \in Op |-> IF o \in (u + 1)..v
                                      THEN Nata(R, o, s[o - u], "bootstrap", TRUE, k)[o] ELSE R[o]]
    PROVE  Sedute(k, a, R, T, u, v, s)
<1> USE PatchAssumption
<1>1. u \in 0..NOp /\ u \in Nat /\ v \in Nat /\ R \in [Op -> Riga]
  BY DEF Sane
<1>2. ASSUME NEW o \in Op, u < o, o <= v
      PROVE  Siedono(k, R, T[o], o, s[o - u])
  <2>1. o - u \in 1..n /\ o \in (u + 1)..v /\ s[o - u] \in Host
    BY <1>1, <1>2 DEF Op
  <2>2. ASSUME NEW h \in Host, NEW N, N = Nata(R, o, h, "bootstrap", TRUE, k)
        PROVE  Siedono(k, R, N[o], o, h)
    BY <1>2, <2>2, UnaDiTante
  <2>3. T[o] = Nata(R, o, s[o - u], "bootstrap", TRUE, k)[o]
    BY <2>1
  <2> QED
    BY <2>1, <2>2, <2>3
<1>3. ASSUME NEW o \in Op, ~(u < o /\ o <= v) PROVE T[o] = R[o]
  <2>1. o \notin (u + 1)..v
    BY <1>1, <1>3 DEF Op
  <2> QED
    BY <2>1
<1>4. T \in [Op -> Riga]
  <2>1. \A o \in Op : T[o] \in Riga
    BY <1>1, <1>2, <1>3 DEF Siedono
  <2> QED
    BY <2>1
<1>5. \A o \in Op : ~(u < o /\ o <= v) => T[o] = R[o]
  BY <1>3
<1>6. \A o \in Op : u < o /\ o <= v => Siedono(k, R, T[o], o, s[o - u])
  BY <1>2
<1> QED
  BY <1>4, <1>5, <1>6, TutteSedute

-----------------------------------------------------------------------------
(* Seats and locks                                                         *)

Chi(Q)       == {Q[i] : i \in 1..Len(Q)}
Ospiti(k, R) == {R[o].host : o \in Seggi(k, R)}

\* No host is twice in copy k, in the seats of R or in the queue Q.
Distinti(k, R, Q) ==
    /\ \A o, x \in Op :
          Seduto(k, R[o]) /\ Seduto(k, R[x]) /\ R[o].host = R[x].host => o = x
    /\ \A i, j \in 1..Len(Q) : Q[i] = Q[j] => i = j
    /\ \A i \in 1..Len(Q), o \in Op : Seduto(k, R[o]) => Q[i] # R[o].host

\* The locks C of copy k are those of who waits and of who sits there.
Lucchetti(k, R, C, Q) ==
    /\ C \subseteq Host
    /\ Q \in Seq(Host)
    /\ C = Chi(Q) \union Ospiti(k, R)
    /\ Distinti(k, R, Q)
    /\ Cardinality(C) = Len(Q) + Cardinality(Seggi(k, R))

Posti(k, n, R, Q) ==
    /\ n = Cardinality(Seggi(k, R))
    /\ n <= PostiMax
    /\ Q # <<>> => n = PostiMax

\* The inductive invariant of the automatic installs, and the properties.
AutoSano ==
    /\ RigheSane
    /\ inCorso \in [Copie -> SUBSET Host]
    /\ attive \in [Copie -> Nat]
    /\ inAttesa \in [Copie -> Seq(Host)]
    /\ \A k \in Copie : /\ Lucchetti(k, righe, inCorso[k], inAttesa[k])
                        /\ Posti(k, attive[k], righe, inAttesa[k])

LEMMA SedutiContati ==
    ASSUME NEW k, NEW R PROVE IsFiniteSet(Seggi(k, R)) /\ Cardinality(Seggi(k, R)) \in Nat
<1>1. IsFiniteSet(Op)
  BY PatchAssumption, FS_Interval DEF Op
<1>2. IsFiniteSet(Seggi(k, R))
  BY <1>1, FS_Subset DEF Seggi
<1> QED
  BY <1>2, FS_CardinalityType

LEMMA DiCheParlaAuto ==
    AutoSano => AutoInv /\ UnoAllaVolta /\ CodaHaChiLaServe
<1> SUFFICES ASSUME AutoSano PROVE AutoInv /\ UnoAllaVolta /\ CodaHaChiLaServe
  OBVIOUS
<1>1. TypeOK /\ UnoAllaVolta /\ CodaHaChiLaServe
  BY DiCosaParlano DEF AutoSano
<1>2. \A k \in Copie : Seggi(k, righe) = Seduti(k)
  BY DEF Seggi, Seduto, Seduti
<1>3. \A k \in Copie : attive[k] \in 0..PostiMax
  BY ChocoAssumption DEF AutoSano, Posti
<1>4. TypeOKAuto
  BY <1>1, <1>3 DEF AutoSano, TypeOKAuto
<1>5. PostiGiusti
  BY <1>2 DEF AutoSano, Posti, PostiGiusti
<1>6. LucchettoPerHost
  BY <1>2 DEF AutoSano, Lucchetti, Chi, Ospiti, LucchettoPerHost
<1> QED
  BY <1>1, <1>4, <1>5, <1>6 DEF AutoInv

\* What leaves the seats as they are leaves the locks as they are.
LEMMA LucchettiStessi ==
    ASSUME NEW k, NEW R, NEW C, NEW Q, Lucchetti(k, R, C, Q), NEW T, StessiPosti(k, R, T)
    PROVE  Lucchetti(k, T, C, Q) /\ Seggi(k, T) = Seggi(k, R)
<1>1. Seggi(k, T) = Seggi(k, R)
  BY GliStessi
<1>2. Distinti(k, T, Q)
  BY DEF Lucchetti, Distinti, StessiPosti
<1>3. Ospiti(k, T) = Ospiti(k, R)
  BY <1>1 DEF Ospiti, Seggi, StessiPosti
<1> QED
  BY <1>1, <1>2, <1>3 DEF Lucchetti

\* Who sits in o leaves.
LEMMA LucchettiFine ==
    ASSUME NEW k, NEW R, NEW C, NEW Q, Lucchetti(k, R, C, Q), NEW o \in Op, Seduto(k, R[o]),
           NEW T, Finita(R, T, o)
    PROVE  /\ Lucchetti(k, T, C \ {R[o].host}, Q)
           /\ Cardinality(Seggi(k, T)) = Cardinality(Seggi(k, R)) - 1
<1>1. Seggi(k, T) = Seggi(k, R) \ {o} /\ o \in Seggi(k, R)
  BY DEF Finita, Seggi, Seduto
<1>2. /\ Cardinality(Seggi(k, T)) = Cardinality(Seggi(k, R)) - 1
      /\ Cardinality(Seggi(k, R)) \in Nat
  BY <1>1, SedutiContati, FS_RemoveElement
<1>3. \A x \in Op : Seduto(k, T[x]) => Seduto(k, R[x]) /\ x # o /\ T[x].host = R[x].host
  BY DEF Finita, Seduto
<1>4. Distinti(k, T, Q)
  BY <1>3 DEF Lucchetti, Distinti
<1>5. R[o].host \in C /\ R[o].host \notin Chi(Q)
  BY <1>1 DEF Lucchetti, Distinti, Chi, Ospiti
<1>6. Ospiti(k, T) = Ospiti(k, R) \ {R[o].host}
  <2>1. ASSUME NEW x \in Op, Seduto(k, R[x]), x # o
        PROVE  Seduto(k, T[x]) /\ T[x].host = R[x].host /\ R[x].host # R[o].host
    BY <2>1 DEF Finita, Lucchetti, Distinti
  <2> QED
    BY <1>3, <2>1 DEF Ospiti, Seggi
<1>7. C \ {R[o].host} = Chi(Q) \union Ospiti(k, T)
  BY <1>5, <1>6 DEF Lucchetti
<1>8. IsFiniteSet(C)
  BY PatchAssumption, FS_Subset DEF Lucchetti
<1>9. Cardinality(C \ {R[o].host}) = Cardinality(C) - 1
  BY <1>5, <1>8, FS_RemoveElement
<1>10. Len(Q) \in Nat
  BY LenProperties DEF Lucchetti
<1>11. Cardinality(C \ {R[o].host}) = Len(Q) + Cardinality(Seggi(k, T))
  BY <1>2, <1>9, <1>10 DEF Lucchetti
<1> QED
  BY <1>2, <1>4, <1>7, <1>11 DEF Lucchetti

\* The first who waits sits down, in a new row.
LEMMA LucchettiSiede ==
    ASSUME NEW k, NEW R, NEW C, NEW Q, Lucchetti(k, R, C, Q), Q # <<>>,
           NEW o, NEW T, Aggiunta(k, R, T, o, Head(Q), TRUE)
    PROVE  /\ Lucchetti(k, T, C, Tail(Q))
           /\ Cardinality(Seggi(k, T)) = Cardinality(Seggi(k, R)) + 1
<1> DEFINE h == Head(Q)
           P == Tail(Q)
<1>1. Q \in Seq(Host) /\ Len(Q) \in Nat /\ Len(Q) # 0
  BY LenProperties, EmptySeq DEF Lucchetti
<1>2. /\ P \in Seq(Host) /\ Len(P) = Len(Q) - 1
      /\ \A i \in 1..Len(P) : P[i] = Q[i + 1]
      /\ Head(Q) = Q[1]
  BY <1>1, HeadTailProperties
<1> HIDE DEF P
<1>3. 1 \in 1..Len(Q) /\ h = Q[1] /\ \A i \in 1..Len(P) : i + 1 \in 1..Len(Q) /\ i + 1 # 1
  BY <1>1, <1>2
<1> HIDE DEF h
<1>4. /\ o \in Op /\ Seduto(k, T[o]) /\ T[o].host = h /\ ~Seduto(k, R[o])
      /\ \A y \in Op \ {o} : T[y] = R[y]
  BY DEF Aggiunta, Seduto, Vuota, h
<1>5. Seggi(k, T) = Seggi(k, R) \union {o} /\ o \notin Seggi(k, R)
  BY <1>4 DEF Seggi
<1>6. /\ Cardinality(Seggi(k, T)) = Cardinality(Seggi(k, R)) + 1
      /\ Cardinality(Seggi(k, R)) \in Nat
  BY <1>5, SedutiContati, FS_AddElement
<1>7. \A i, j \in 1..Len(P) : P[i] = P[j] => i = j
  <2> SUFFICES ASSUME NEW i \in 1..Len(P), NEW j \in 1..Len(P), P[i] = P[j]
               PROVE  i = j
    OBVIOUS
  <2>1. i + 1 = j + 1
    BY <1>2, <1>3 DEF Lucchetti, Distinti
  <2> QED
    BY <1>1, <1>2, <2>1
<1>8. \A i \in 1..Len(P) : P[i] # h
  BY <1>2, <1>3 DEF Lucchetti, Distinti
<1>9. \A y \in Op : Seduto(k, R[y]) => R[y].host # h
  BY <1>3 DEF Lucchetti, Distinti
<1>10. \A i \in 1..Len(P), y \in Op : Seduto(k, R[y]) => P[i] # R[y].host
  BY <1>2, <1>3 DEF Lucchetti, Distinti
<1>11. Distinti(k, T, P)
  BY <1>4, <1>7, <1>8, <1>9, <1>10 DEF Lucchetti, Distinti
<1>12. Chi(Q) = Chi(P) \union {h}
  <2>1. ASSUME NEW i \in 1..Len(Q), i # 1 PROVE i - 1 \in 1..Len(P) /\ P[i - 1] = Q[i]
    BY <1>1, <1>2, <2>1
  <2>2. \A x : x \in Chi(Q) => x \in Chi(P) \union {h}
    BY <1>3, <2>1 DEF Chi
  <2>3. \A x : x \in Chi(P) \union {h} => x \in Chi(Q)
    BY <1>2, <1>3 DEF Chi
  <2> QED
    BY <2>2, <2>3
<1>13. Ospiti(k, T) = Ospiti(k, R) \union {h}
  BY <1>4, <1>5 DEF Ospiti, Seggi
<1>14. C = Chi(P) \union Ospiti(k, T)
  BY <1>12, <1>13 DEF Lucchetti
<1>15. Cardinality(C) = Len(P) + Cardinality(Seggi(k, T))
  BY <1>1, <1>2, <1>6 DEF Lucchetti
<1> QED
  BY <1>2, <1>6, <1>11, <1>14, <1>15 DEF Lucchetti, P

\* A round: of the hosts s[1], ..., s[n], which are C, m sit down and the others wait.
InCoda(s, m, n) == [i \in 1..(n - m) |-> s[m + i]]

Scelti(C, D, n, s) ==
    C \subseteq Host /\ C \cap D = {} /\ n = Cardinality(C) /\ s \in InOrdine(C)

LEMMA LucchettiGiro ==
    ASSUME NEW k, NEW R, NEW D, NEW Q, Lucchetti(k, R, D, Q), NEW C, NEW n, NEW s,
           Scelti(C, D, n, s),
           NEW u \in 0..NOp, NEW v \in 0..NOp, u <= v, v - u <= n,
           NEW a, NEW T, Sedute(k, a, R, T, u, v, s)
    PROVE  /\ Lucchetti(k, T, D \union C, Q \o InCoda(s, v - u, n))
           /\ Cardinality(Seggi(k, T)) = Cardinality(Seggi(k, R)) + (v - u)
<1> USE PatchAssumption DEF Scelti
<1> DEFINE m == v - u
           W == InCoda(s, m, n)
           P == Q \o W
<1>1. /\ n \in Nat /\ s \in [1..n -> C]
      /\ \A i, j \in 1..n : s[i] = s[j] => i = j
      /\ \A h \in C : \E i \in 1..n : s[i] = h
  <2>1. Elenco(C, Cardinality(C), s)
    BY OrdineCompleto
  <2> QED
    BY <2>1 DEF Elenco
<1>2. m \in Nat /\ m <= n /\ n - m \in Nat /\ u \in Nat /\ v \in Nat /\ v = u + m
  BY <1>1
<1> HIDE DEF m
<1>3. /\ W \in Seq(Host) /\ Len(W) = n - m
      /\ \A i \in 1..(n - m) : m + i \in 1..n /\ W[i] = s[m + i]
  <2>1. \A i \in 1..(n - m) : m + i \in 1..n
    BY <1>1, <1>2
  <2>2. \A i \in 1..(n - m) : s[m + i] \in Host
    BY <1>1, <2>1
  <2> QED
    BY <1>2, <2>1, <2>2 DEF InCoda
<1> HIDE DEF W
<1>4. Q \in Seq(Host) /\ Len(Q) \in Nat
  BY LenProperties DEF Lucchetti
<1>5. /\ P \in Seq(Host) /\ Len(P) = Len(Q) + (n - m)
      /\ \A i \in 1..Len(P) : P[i] = IF i <= Len(Q) THEN Q[i] ELSE W[i - Len(Q)]
  <2>1. W \in Seq(Host) /\ Q \in Seq(Host) /\ Len(W) = n - m
    BY <1>3, <1>4
  <2> QED
    BY <2>1, ConcatProperties
<1> HIDE DEF P
\* Who is in the new queue: who was there, and the last ones of C.
<1>6. ASSUME NEW i \in 1..Len(P), i <= Len(Q)
      PROVE  i \in 1..Len(Q) /\ P[i] = Q[i] /\ P[i] \in D
  <2>1. i \in 1..Len(Q) /\ P[i] = Q[i]
    BY <1>4, <1>5, <1>6
  <2> QED
    BY <2>1 DEF Lucchetti, Chi
<1>7. ASSUME NEW i \in 1..Len(P), ~(i <= Len(Q))
      PROVE  m + (i - Len(Q)) \in 1..n /\ P[i] = s[m + (i - Len(Q))] /\ P[i] \in C
  <2>1. i - Len(Q) \in 1..(n - m)
    BY <1>2, <1>4, <1>5, <1>7
  <2> QED
    BY <1>1, <1>3, <1>5, <1>7, <2>1
\* Who sits: who sat, and the first ones of C.
<1>8. ASSUME NEW o \in Op, u < o, o <= v
      PROVE  /\ o - u \in 1..n /\ o - u <= m /\ T[o].host = s[o - u] /\ T[o].host \in C
             /\ Seduto(k, T[o]) /\ ~Seduto(k, R[o])
  <2>1. o - u \in 1..n /\ o - u <= m
    BY <1>1, <1>2, <1>8 DEF Op
  <2> QED
    BY <1>1, <1>8, <2>1 DEF Sedute, Seduto, Vuota
<1>9. ASSUME NEW o \in Op, ~(u < o /\ o <= v)
      PROVE  T[o] = R[o] /\ (Seduto(k, R[o]) => R[o].host \in D)
  BY <1>9 DEF Sedute, Lucchetti, Ospiti, Seggi
<1>10. ASSUME NEW o \in Op, NEW x \in Op, Seduto(k, T[o]), Seduto(k, T[x]), T[o].host = T[x].host
       PROVE  o = x
  <2>1. CASE (u < o /\ o <= v) /\ (u < x /\ x <= v)
    <3>1. o - u = x - u
      BY <1>1, <1>8, <1>10, <2>1
    <3> QED
      BY <1>2, <3>1 DEF Op
  <2>2. CASE ~(u < o /\ o <= v) /\ ~(u < x /\ x <= v)
    BY <1>9, <1>10, <2>2 DEF Lucchetti, Distinti
  <2>3. CASE (u < o /\ o <= v) /\ ~(u < x /\ x <= v)
    BY <1>8, <1>9, <1>10, <2>3
  <2>4. CASE ~(u < o /\ o <= v) /\ (u < x /\ x <= v)
    BY <1>8, <1>9, <1>10, <2>4
  <2> QED
    BY <2>1, <2>2, <2>3, <2>4
<1>11. ASSUME NEW i \in 1..Len(P), NEW j \in 1..Len(P), P[i] = P[j]
       PROVE  i = j
  <2>1. CASE i <= Len(Q) /\ j <= Len(Q)
    BY <1>6, <1>11, <2>1 DEF Lucchetti, Distinti
  <2>2. CASE ~(i <= Len(Q)) /\ ~(j <= Len(Q))
    <3>1. m + (i - Len(Q)) = m + (j - Len(Q))
      BY <1>1, <1>7, <1>11, <2>2
    <3> QED
      BY <1>2, <1>4, <3>1
  <2>3. CASE i <= Len(Q) /\ ~(j <= Len(Q))
    BY <1>6, <1>7, <1>11, <2>3
  <2>4. CASE ~(i <= Len(Q)) /\ j <= Len(Q)
    BY <1>6, <1>7, <1>11, <2>4
  <2> QED
    BY <2>1, <2>2, <2>3, <2>4
<1>12. ASSUME NEW i \in 1..Len(P), NEW o \in Op, Seduto(k, T[o]), P[i] = T[o].host
       PROVE  FALSE
  <2>1. CASE i <= Len(Q) /\ (u < o /\ o <= v)
    BY <1>6, <1>8, <1>12, <2>1
  <2>2. CASE ~(i <= Len(Q)) /\ ~(u < o /\ o <= v)
    BY <1>7, <1>9, <1>12, <2>2
  <2>3. CASE i <= Len(Q) /\ ~(u < o /\ o <= v)
    BY <1>6, <1>9, <1>12, <2>3 DEF Lucchetti, Distinti
  <2>4. CASE ~(i <= Len(Q)) /\ (u < o /\ o <= v)
    <3>1. m + (i - Len(Q)) = o - u /\ o - u <= m
      BY <1>1, <1>7, <1>8, <1>12, <2>4
    <3> QED
      BY <1>2, <1>4, <2>4, <3>1 DEF Op
  <2> QED
    BY <2>1, <2>2, <2>3, <2>4
<1>13. Distinti(k, T, P)
  BY <1>10, <1>11, <1>12 DEF Distinti
\* The locks are those, and no other.
<1>14. D \union C \subseteq Host
  BY DEF Lucchetti
<1>15. \A x : x \in D \union C => x \in Chi(P) \union Ospiti(k, T)
  <2>1. ASSUME NEW i \in 1..Len(Q) PROVE Q[i] \in Chi(P)
    <3>1. i \in 1..Len(P) /\ P[i] = Q[i]
      BY <1>2, <1>4, <1>5
    <3> QED
      BY <3>1 DEF Chi
  <2>2. ASSUME NEW o \in Op, Seduto(k, R[o]) PROVE R[o].host \in Ospiti(k, T)
    <3>1. T[o] = R[o]
      BY <1>8, <1>9, <2>2
    <3> QED
      BY <2>2, <3>1 DEF Ospiti, Seggi
  <2>3. ASSUME NEW i \in 1..n, i <= m PROVE s[i] \in Ospiti(k, T)
    <3>1. u + i \in Op /\ u < u + i /\ u + i <= v /\ (u + i) - u = i
      BY <1>2, <2>3 DEF Op
    <3> QED
      BY <1>8, <3>1 DEF Ospiti, Seggi
  <2>4. ASSUME NEW i \in 1..n, ~(i <= m) PROVE s[i] \in Chi(P)
    <3>1. /\ Len(Q) + (i - m) \in 1..Len(P) /\ ~(Len(Q) + (i - m) <= Len(Q))
          /\ m + ((Len(Q) + (i - m)) - Len(Q)) = i
      BY <1>1, <1>2, <1>4, <1>5, <2>4
    <3>2. P[Len(Q) + (i - m)] = s[i]
      BY <1>7, <3>1
    <3> QED
      BY <3>1, <3>2 DEF Chi
  <2>5. \A x \in D : x \in Chi(P) \union Ospiti(k, T)
    BY <2>1, <2>2 DEF Lucchetti, Chi, Ospiti, Seggi
  <2>6. \A x \in C : x \in Chi(P) \union Ospiti(k, T)
    BY <1>1, <2>3, <2>4
  <2> QED
    BY <2>5, <2>6
<1>16. \A x : x \in Chi(P) \union Ospiti(k, T) => x \in D \union C
  <2>1. \A i \in 1..Len(P) : P[i] \in D \union C
    BY <1>6, <1>7
  <2>2. \A o \in Op : Seduto(k, T[o]) => T[o].host \in D \union C
    BY <1>8, <1>9
  <2> QED
    BY <2>1, <2>2 DEF Chi, Ospiti, Seggi
<1>17. D \union C = Chi(P) \union Ospiti(k, T)
  BY <1>15, <1>16
\* And they are as many.
<1>18. Cardinality(D \union C) = Cardinality(D) + n
  <2>1. IsFiniteSet(D) /\ IsFiniteSet(C) /\ D \cap C = {}
    BY FS_Subset DEF Lucchetti
  <2>2. Cardinality(D \union C) = Cardinality(D) + Cardinality(C) - Cardinality(D \cap C)
    BY <2>1, FS_Union
  <2>3. Cardinality(D \cap C) = 0 /\ Cardinality(D) \in Nat
    BY <2>1, FS_EmptySet, FS_CardinalityType
  <2> QED
    BY <1>1, <2>2, <2>3
<1>19. /\ Cardinality(Seggi(k, T)) = Cardinality(Seggi(k, R)) + m
       /\ Cardinality(Seggi(k, R)) \in Nat
  <2> DEFINE N == (u + 1)..v
  <2>1. N \subseteq Op /\ \A o \in Op : o \in N <=> u < o /\ o <= v
    BY <1>2 DEF Op
  <2>2. IsFiniteSet(N) /\ Cardinality(N) = m
    BY <1>2, FS_Interval
  <2> HIDE DEF N
  <2>3. Seggi(k, T) = Seggi(k, R) \union N /\ Seggi(k, R) \cap N = {}
    BY <1>8, <1>9, <2>1 DEF Seggi
  <2>4. Cardinality(Seggi(k, T)) = Cardinality(Seggi(k, R)) + Cardinality(N) - Cardinality(Seggi(k, R) \cap N)
    BY <2>2, <2>3, SedutiContati, FS_Union
  <2>5. Cardinality(Seggi(k, R) \cap N) = 0 /\ Cardinality(Seggi(k, R)) \in Nat
    BY <2>3, SedutiContati, FS_EmptySet
  <2> QED
    BY <1>2, <2>2, <2>4, <2>5
<1>20. Cardinality(D \union C) = Len(P) + Cardinality(Seggi(k, T))
  <2>1. Cardinality(D) = Len(Q) + Cardinality(Seggi(k, R))
    BY DEF Lucchetti
  <2> QED
    BY <1>1, <1>2, <1>4, <1>5, <1>18, <1>19, <2>1
<1>21. Lucchetti(k, T, D \union C, P)
  BY <1>5, <1>13, <1>14, <1>17, <1>20 DEF Lucchetti
<1> QED
  BY <1>19, <1>21 DEF P, W, m

-----------------------------------------------------------------------------
(* The steps of the automatic installs                                     *)

\* The properties of a step.
AvanzaAuto == AutoSano' /\ Tenuti(righe, righe')

\* What a copy has in memory agrees with the rows.
Concorda(k, R, C, n, Q) == Lucchetti(k, R, C, Q) /\ Posti(k, n, R, Q)

\* A step that touches no seat of copy k.
LEMMA ConcordaAncora ==
    ASSUME NEW k, NEW R, NEW C, NEW n, NEW Q, Concorda(k, R, C, n, Q),
           NEW T, StessiPosti(k, R, T)
    PROVE  Concorda(k, T, C, n, Q)
<1>1. Lucchetti(k, T, C, Q) /\ Seggi(k, T) = Seggi(k, R)
  BY LucchettiStessi DEF Concorda
<1> QED
  BY <1>1 DEF Concorda, Posti

LEMMA PassoStessi ==
    ASSUME AutoSano, Avanza, Fermi(righe, righe'), UNCHANGED memoria
    PROVE  AvanzaAuto
<1>1. inCorso' = inCorso /\ attive' = attive /\ inAttesa' = inAttesa
  BY DEF memoria
<1>2. ASSUME NEW k \in Copie PROVE Concorda(k, righe', inCorso[k], attive[k], inAttesa[k])
  <2>1. Concorda(k, righe, inCorso[k], attive[k], inAttesa[k]) /\ StessiPosti(k, righe, righe')
    BY DEF AutoSano, Concorda, Fermi
  <2> DEFINE S == righe
             T == righe'
  <2>2. Concorda(k, S, inCorso[k], attive[k], inAttesa[k]) /\ StessiPosti(k, S, T)
    BY <2>1
  <2> HIDE DEF S, T
  <2>3. Concorda(k, T, inCorso[k], attive[k], inAttesa[k])
    BY <2>2, ConcordaAncora
  <2> QED
    BY <2>3 DEF T
<1> QED
  BY <1>1, <1>2 DEF AvanzaAuto, Avanza, AutoSano, Concorda

\* Nobody sits, nobody waits, no host is locked.
LEMMA NessunoSiede ==
    ASSUME NEW k, NEW R, \A o \in Op : ~Seduto(k, R[o])
    PROVE  Concorda(k, R, {}, 0, <<>>)
<1>1. Seggi(k, R) = {} /\ Cardinality(Seggi(k, R)) = 0
  BY FS_EmptySet DEF Seggi
<1>2. <<>> \in Seq(Host) /\ Len(<<>>) = 0
  BY EmptySeq
<1>3. Chi(<<>>) = {} /\ Ospiti(k, R) = {} /\ Distinti(k, R, <<>>)
  BY <1>1, <1>2 DEF Chi, Ospiti, Distinti
<1>4. Lucchetti(k, R, {}, <<>>)
  BY <1>1, <1>2, <1>3, FS_EmptySet DEF Lucchetti
<1>5. Posti(k, 0, R, <<>>)
  BY <1>1, ChocoAssumption DEF Posti
<1> QED
  BY <1>4, <1>5 DEF Concorda

\* The process dies.
LEMMA PassoCrolloAuto ==
    ASSUME AutoSano, Crollo,
           inCorso' = Ognuna({}), attive' = Ognuna(0), inAttesa' = Ognuna(<<>>)
    PROVE  AvanzaAuto
<1>1. Avanza /\ \A k \in Copie, o \in Op : ~Seduto(k, righe'[o])
  BY PassoCrollo DEF AutoSano
<1>2. ASSUME NEW k \in Copie
      PROVE  /\ inCorso'[k] = {} /\ attive'[k] = 0 /\ inAttesa'[k] = <<>>
             /\ Concorda(k, righe', {}, 0, <<>>)
  BY <1>1, NessunoSiede DEF Ognuna
<1>3. /\ inCorso' \in [Copie -> SUBSET Host] /\ attive' \in [Copie -> Nat]
      /\ inAttesa' \in [Copie -> Seq(Host)]
  BY EmptySeq DEF Ognuna
<1> QED
  BY <1>1, <1>2, <1>3 DEF AvanzaAuto, Avanza, AutoSano, Concorda

\* A step of copy k: its memory agrees with the new rows, and the rows with a seat
\* of the other copy are as they were.
LEMMA UnaCopia ==
    ASSUME AutoSano, RigheSane', NEW k \in Copie,
           NEW C \in SUBSET Host, inCorso' = [inCorso EXCEPT ![k] = C],
           NEW n \in Nat, attive' = [attive EXCEPT ![k] = n],
           NEW Q \in Seq(Host), inAttesa' = [inAttesa EXCEPT ![k] = Q],
           Concorda(k, righe', C, n, Q),
           \A j \in Copie \ {k} : StessiPosti(j, righe, righe')
    PROVE  AutoSano'
<1>1. /\ inCorso' \in [Copie -> SUBSET Host] /\ attive' \in [Copie -> Nat]
      /\ inAttesa' \in [Copie -> Seq(Host)]
      /\ inCorso'[k] = C /\ attive'[k] = n /\ inAttesa'[k] = Q
      /\ \A j \in Copie \ {k} : /\ inCorso'[j] = inCorso[j] /\ attive'[j] = attive[j]
                                /\ inAttesa'[j] = inAttesa[j]
  BY DEF AutoSano
<1>2. ASSUME NEW j \in Copie \ {k} PROVE Concorda(j, righe', inCorso'[j], attive'[j], inAttesa'[j])
  <2> DEFINE S == righe
             T == righe'
  <2>1. Concorda(j, S, inCorso[j], attive[j], inAttesa[j]) /\ StessiPosti(j, S, T)
    BY DEF AutoSano, Concorda
  <2> HIDE DEF S, T
  <2>2. Concorda(j, T, inCorso[j], attive[j], inAttesa[j])
    BY <2>1, ConcordaAncora
  <2> QED
    BY <1>1, <2>2 DEF T
<1>3. \A j \in Copie : Concorda(j, righe', inCorso'[j], attive'[j], inAttesa'[j])
  BY <1>1, <1>2
<1> QED
  BY <1>1, <1>3 DEF AutoSano, Concorda

\* A round.
LEMMA PassoGiro ==
    ASSUME AutoSano, NEW k \in Copie, NEW H \in SUBSET Host, Giro(k, H)
    PROVE  AvanzaAuto
<1> DEFINE R == Aperte(k)
           C == Candidati(R, H, k)
           n == Cardinality(C)
           p == attive[k]
           D == inCorso[k]
           Q == inAttesa[k]
           b == [aperto EXCEPT ![k] = TRUE]
           liberi == PostiMax - p
           m == IF n < liberi THEN n ELSE liberi
<1> USE PatchAssumption, ChocoAssumption
<1>1. C \subseteq Host /\ C \cap D = {}
  BY DEF Candidati
<1>2. Sane(R, ultima, b) /\ Tenuti(righe, R) /\ Fermi(righe, R) /\ b[k]
  BY AperteSane DEF AutoSano, RigheSane, Sane
<1>3. PICK s \in InOrdine(C) :
        /\ inAttesa' = [inAttesa EXCEPT ![k] = Q \o [i \in 1..(n - m) |-> s[m + i]]]
        /\ righe' = [o \in Op |-> IF o \in (ultima + 1)..(ultima + m)
                                    THEN Nata(R, o, s[o - ultima], "bootstrap", TRUE, k)[o]
                                    ELSE R[o]]
  BY DEF Giro
<1>4. /\ inCorso' = [inCorso EXCEPT ![k] = D \union C]
      /\ attive' = [attive EXCEPT ![k] = p + m]
      /\ ultima' = ultima + m /\ aperto' = b /\ n <= Spazio
  BY DEF Giro
<1>5. Concorda(k, righe, D, p, Q) /\ Q \in Seq(Host) /\ p \in Nat /\ ultima \in 0..NOp
  BY DEF AutoSano, RigheSane, Sane, Concorda
<1> HIDE DEF R, C, p, D, Q, b
<1>6. n <= NOp - ultima
  <2> DEFINE q1 == Len(inAttesa["server"])
             q2 == Len(inAttesa["rotte"])
  <2>1. inAttesa["server"] \in Seq(Host) /\ inAttesa["rotte"] \in Seq(Host)
    BY DEF AutoSano, Copie
  <2>2. q1 \in Nat /\ q2 \in Nat
    BY <2>1, LenProperties
  <2>3. n \in Nat
    BY <1>1, FS_Subset, FS_CardinalityType
  <2>4. n <= NOp - ultima - q1 - q2
    BY <1>4 DEF Spazio
  <2> HIDE DEF q1, q2, n
  <2> QED
    BY <1>5, <2>2, <2>3, <2>4
<1>7. Elenco(C, n, s) /\ n = Cardinality(C)
  BY <1>1, OrdineCompleto
<1> HIDE DEF n
<1>8. /\ n \in Nat /\ s \in [1..n -> C] /\ s \in [1..n -> Host]
      /\ \A i, j \in 1..n : s[i] = s[j] => i = j
  BY <1>1, <1>7 DEF Elenco
<1>9. p <= PostiMax
  BY <1>5 DEF Concorda, Posti
<1>10. m \in Nat /\ m <= n /\ m <= liberi /\ (m < n => m = liberi)
  BY <1>5, <1>8, <1>9
<1>11. /\ ultima + m \in 0..NOp /\ ultima <= ultima + m /\ (ultima + m) - ultima = m
       /\ (ultima + m) - ultima <= n
  BY <1>5, <1>6, <1>8, <1>10
<1> HIDE DEF m
<1>12. Sedute(k, b, R, righe', ultima, ultima + m, s)
  BY <1>2, <1>3, <1>8, <1>11, NasconoTutte
\* In copy k: who was there, and the hosts of the round.
<1> DEFINE v == ultima + m
           S == righe
           T == righe'
<1>13. /\ Concorda(k, S, D, p, Q) /\ StessiPosti(k, S, R)
       /\ Scelti(C, D, n, s) /\ ultima \in 0..NOp /\ v \in 0..NOp /\ ultima <= v
       /\ v - ultima <= n /\ Sedute(k, b, R, T, ultima, v, s) /\ v - ultima = m
  BY <1>1, <1>2, <1>3, <1>5, <1>7, <1>11, <1>12 DEF Scelti, Fermi
<1> HIDE DEF v, S, T
<1>14. Concorda(k, R, D, p, Q)
  BY <1>13, ConcordaAncora
<1>15. Lucchetti(k, R, D, Q) /\ Posti(k, p, R, Q)
  BY <1>14 DEF Concorda
<1>16. /\ Lucchetti(k, T, D \union C, Q \o InCoda(s, v - ultima, n))
       /\ Cardinality(Seggi(k, T)) = Cardinality(Seggi(k, R)) + (v - ultima)
  <2>1. /\ Lucchetti(k, R, D, Q) /\ Scelti(C, D, n, s)
        /\ ultima \in 0..NOp /\ v \in 0..NOp /\ ultima <= v /\ v - ultima <= n
        /\ Sedute(k, b, R, T, ultima, v, s)
    BY <1>13, <1>15
  <2> HIDE DEF liberi
  <2> QED
    BY ONLY <2>1, LucchettiGiro, SMTT(60)
<1> DEFINE P == Q \o InCoda(s, m, n)
<1>17. Lucchetti(k, T, D \union C, P) /\ Cardinality(Seggi(k, T)) = p + m
  BY <1>13, <1>15, <1>16 DEF Posti
<1>18. ASSUME P # <<>> PROVE p + m = PostiMax
  <2>1. CASE Q # <<>>
    <3>1. p = PostiMax
      BY <1>15, <2>1 DEF Posti
    <3> QED
      BY <1>5, <1>8, <1>10, <3>1
  <2>2. CASE Q = <<>>
    <3>1. m < n
      <4> SUFFICES ASSUME ~(m < n) PROVE FALSE
        OBVIOUS
      <4>1. n - m = 0
        BY <1>8, <1>10
      <4>2. InCoda(s, m, n) = <<>>
        BY <4>1 DEF InCoda
      <4> QED
        BY <1>18, <2>2, <4>2
    <3> QED
      BY <1>5, <1>8, <1>9, <1>10, <3>1
  <2> QED
    BY <2>1, <2>2
<1>19. inAttesa' = [inAttesa EXCEPT ![k] = P]
  BY <1>3 DEF InCoda
<1> HIDE DEF P
<1>20. p + m \in Nat /\ p + m <= PostiMax
  BY <1>5, <1>8, <1>9, <1>10
<1>21. Posti(k, p + m, T, P)
  BY <1>17, <1>18, <1>20 DEF Posti
<1>22. Concorda(k, T, D \union C, p + m, P) /\ P \in Seq(Host) /\ D \union C \in SUBSET Host
  BY <1>17, <1>21 DEF Concorda, Lucchetti
\* The other copy sees no seat move: the new rows are of copy k.
<1>23. ASSUME NEW j \in Copie \ {k} PROVE StessiPosti(j, S, T)
  <2>1. StessiPosti(j, S, R)
    BY <1>2 DEF Fermi, S
  <2>2. ASSUME NEW o \in Op PROVE Seduto(j, T[o]) <=> Seduto(j, R[o])
    BY <1>13 DEF Sedute, Seduto, Vuota
  <2>3. ASSUME NEW o \in Op, Seduto(j, R[o]) PROVE T[o].host = R[o].host
    BY <1>13, <2>3 DEF Sedute, Seduto, Vuota
  <2> QED
    BY <2>1, <2>2, <2>3 DEF StessiPosti
<1>24. RigheSane' /\ Tenuti(righe, righe')
  <2>1. Sane(righe', ultima', aperto') /\ Tenuti(R, T)
    BY <1>4, <1>12, <1>13 DEF Sedute
  <2>2. Tenuti(S, R)
    BY <1>2 DEF S
  <2>3. Tenuti(S, T)
    BY <2>1, <2>2, EsitiTransitivi
  <2> QED
    BY <2>1, <2>3 DEF RigheSane, S, T
<1>25. AutoSano'
  <2>1. Concorda(k, righe', D \union C, p + m, P) /\ \A j \in Copie \ {k} : StessiPosti(j, righe, righe')
    BY <1>22, <1>23 DEF S, T
  <2> QED
    BY <1>4, <1>19, <1>20, <1>22, <1>24, <2>1, UnaCopia
<1> QED
  BY <1>24, <1>25 DEF AvanzaAuto

\* The end of a bootstrap: whoever sits in o leaves, the first who waits in its
\* copy takes the seat.
LEMMA PassoFineAutomatico ==
    ASSUME AutoSano, NEW o \in Op, FineAutomatico(o)
    PROVE  AvanzaAuto
<1> USE PatchAssumption, ChocoAssumption
<1> DEFINE k == righe[o].copia
           S == righe
           T == righe'
           p == attive[k]
           D == inCorso[k]
           Q == inAttesa[k]
           E == D \ {S[o].host}
           b == [aperto EXCEPT ![k] = TRUE]
<1>1. PICK R \in DopoLaFine(o) : Siede(k, R)
  BY DEF FineAutomatico
<1> DEFINE A == IF aperto[k] THEN R ELSE Recupera(R)
<1>2. /\ RigheSane /\ k \in Copie /\ Lucchetti(k, S, D, Q) /\ Posti(k, p, S, Q)
      /\ Seduto(k, S[o]) /\ righe[o].lavoro # "nessuno"
      /\ inCorso' = [inCorso EXCEPT ![k] = E]
      /\ (ultima < NOp \/ Q = <<>>)
      /\ Q \in Seq(Host) /\ E \in SUBSET Host
  BY DEF AutoSano, FineAutomatico, Seduto, RigheSane, Sane, Riga
<1>3. Sane(R, ultima, aperto) /\ Finita(S, R, o)
  BY <1>2, FineDellaRiga
<1>4. Q = <<>> => /\ attive' = [attive EXCEPT ![k] = p - 1] /\ T = R
                  /\ inAttesa' = inAttesa /\ ultima' = ultima /\ aperto' = aperto
  BY <1>1 DEF Siede
<1>5. Q # <<>> => /\ T = Nata(A, ultima + 1, Head(Q), "bootstrap", TRUE, k)
                  /\ ultima' = ultima + 1 /\ aperto' = b
                  /\ inAttesa' = [inAttesa EXCEPT ![k] = Tail(Q)] /\ attive' = attive
  BY <1>1 DEF Siede
<1>6. /\ inAttesa = [inAttesa EXCEPT ![k] = Q] /\ attive = [attive EXCEPT ![k] = p] /\ p \in Nat
  BY <1>2 DEF AutoSano
<1>7. b[k] /\ b = [aperto EXCEPT ![k] = TRUE] /\ A = IF aperto[k] THEN R ELSE Recupera(R)
  BY <1>2 DEF RigheSane, Sane
<1> HIDE DEF k, S, T, p, D, Q, A, b
<1>8. Tenuti(S, R)
  BY <1>3 DEF Finita
<1>9. Lucchetti(k, R, E, Q) /\ Cardinality(Seggi(k, R)) = Cardinality(Seggi(k, S)) - 1
  BY <1>2, <1>3, LucchettiFine
\* The seat of the other copies is not that of o.
<1>10. ASSUME NEW j \in Copie \ {k} PROVE StessiPosti(j, S, R)
  BY <1>2, <1>3 DEF Finita, StessiPosti, Seduto
<1> HIDE DEF E
<1>11. CASE Q = <<>>
  <2>1. Posti(k, p - 1, T, Q) /\ p - 1 \in Nat
    <3>1. p = Cardinality(Seggi(k, S)) /\ p <= PostiMax
      BY <1>2 DEF Posti
    <3>2. Cardinality(Seggi(k, T)) = p - 1 /\ Cardinality(Seggi(k, T)) \in Nat
      BY <1>4, <1>9, <1>11, <3>1, SedutiContati
    <3>3. p - 1 <= PostiMax /\ p - 1 \in Nat
      BY <1>6, <3>1, <3>2
    <3> QED
      BY <1>11, <3>2, <3>3 DEF Posti
  <2>2. Concorda(k, T, E, p - 1, Q)
    BY <1>4, <1>9, <1>11, <2>1 DEF Concorda
  <2>3. RigheSane'
    BY <1>3, <1>4, <1>11 DEF RigheSane, T
  <2>4. \A j \in Copie \ {k} : StessiPosti(j, S, T)
    BY <1>4, <1>10, <1>11
  <2>5. Concorda(k, righe', E, p - 1, Q) /\ \A j \in Copie \ {k} : StessiPosti(j, righe, righe')
    BY <2>2, <2>4 DEF S, T
  <2>6. attive' = [attive EXCEPT ![k] = p - 1] /\ inAttesa' = [inAttesa EXCEPT ![k] = Q]
    BY <1>4, <1>6, <1>11
  <2>7. AutoSano'
    BY <1>2, <2>1, <2>3, <2>5, <2>6, UnaCopia
  <2>8. Tenuti(righe, righe')
    BY <1>4, <1>8, <1>11 DEF S, T
  <2> QED
    BY <2>7, <2>8 DEF AvanzaAuto
<1>12. CASE Q # <<>>
  <2> DEFINE h == Head(Q)
             P == Tail(Q)
  <2>1. /\ h \in Ospite /\ "bootstrap" \in Azioni /\ TRUE \in BOOLEAN /\ ultima < NOp
        /\ P \in Seq(Host)
    <3>1. Head(Q) \in Host /\ Tail(Q) \in Seq(Host)
      BY <1>2, <1>12, HeadTailProperties
    <3> QED
      BY <1>2, <1>12, <3>1 DEF Ospite, Azioni, Occupa, Aspetta
\* The database that copy k has open, or opens for the new row.
  <2>2. Sane(A, ultima, b) /\ Tenuti(R, A) /\ Fermi(R, A)
    BY <1>2, <1>3, <1>7, ApertaSana
  <2>3. Lucchetti(k, A, E, Q) /\ Seggi(k, A) = Seggi(k, R)
    <3>1. StessiPosti(k, R, A)
      BY <1>2, <2>2 DEF Fermi
    <3> QED
      BY <1>9, <3>1, LucchettiStessi
  <2> HIDE DEF h
  <2>4. Sane(T, ultima + 1, b) /\ Aggiunta(k, A, T, ultima + 1, h, TRUE)
    <3>1. T = Nata(A, ultima + 1, h, "bootstrap", TRUE, k)
      BY <1>5, <1>12 DEF h
    <3> QED
      BY <1>2, <1>7, <2>1, <2>2, <3>1, NasceUna
  <2> USE DEF h
  <2>5. /\ Lucchetti(k, T, E, P)
        /\ Cardinality(Seggi(k, T)) = Cardinality(Seggi(k, A)) + 1
    BY <1>12, <2>3, <2>4, LucchettiSiede
  <2> HIDE DEF h, P
  <2>6. Posti(k, p, T, P)
    <3>1. p = Cardinality(Seggi(k, S)) /\ p = PostiMax /\ PostiMax \in Nat
      BY <1>2, <1>12 DEF Posti
    <3>2. Cardinality(Seggi(k, T)) = (p - 1) + 1
      BY <1>9, <2>3, <2>5, <3>1
    <3>3. Cardinality(Seggi(k, T)) = p /\ p <= PostiMax
      BY <3>1, <3>2
    <3> QED
      BY <3>1, <3>3 DEF Posti
  <2>7. Concorda(k, T, E, p, P)
    BY <2>5, <2>6 DEF Concorda
  <2>8. RigheSane'
    BY <1>5, <1>12, <2>4 DEF RigheSane, T
  <2>9. ASSUME NEW j \in Copie \ {k} PROVE StessiPosti(j, S, T)
    <3>1. StessiPosti(j, S, R) /\ StessiPosti(j, R, A)
      BY <1>10, <2>2 DEF Fermi
    <3>2. StessiPosti(j, A, T)
      BY <2>4 DEF Aggiunta, StessiPosti, Seduto, Vuota
    <3> QED
      BY <3>1, <3>2 DEF StessiPosti
  <2>10. Concorda(k, righe', E, p, P) /\ \A j \in Copie \ {k} : StessiPosti(j, righe, righe')
    BY <2>7, <2>9 DEF S, T
  <2>11. attive' = [attive EXCEPT ![k] = p] /\ inAttesa' = [inAttesa EXCEPT ![k] = P]
    BY <1>5, <1>6, <1>12 DEF P
  <2>12. AutoSano'
    BY <1>2, <1>6, <2>1, <2>8, <2>10, <2>11, UnaCopia
  <2>13. Tenuti(S, T)
    BY <1>8, <2>2, <2>4, EsitiTransitivi DEF Aggiunta
  <2> QED
    BY <2>12, <2>13 DEF AvanzaAuto, S, T
<1> QED
  BY <1>11, <1>12

LEMMA PassoAuto ==
    AutoSano /\ [NextAuto]_tutte => AvanzaAuto
<1> SUFFICES ASSUME AutoSano, [NextAuto]_tutte PROVE AvanzaAuto
  OBVIOUS
<1>1. ASSUME DelleRighe, UNCHANGED memoria PROVE AvanzaAuto
  BY <1>1, PassoDelleRighe, PassoStessi DEF AutoSano
<1>2. ASSUME NEW k \in Copie, NEW H \in SUBSET Host \ {{}}, Giro(k, H) PROVE AvanzaAuto
  BY <1>2, PassoGiro
<1>3. CASE UNCHANGED tutte
  <2>1. /\ righe' = righe /\ ultima' = ultima /\ aperto' = aperto /\ UNCHANGED memoria
    BY <1>3 DEF tutte, memoria
  <2>2. Avanza /\ Fermi(righe, righe')
    BY <2>1 DEF AutoSano, Avanza, RigheSane, Tenuti, Fermi, StessiPosti
  <2> QED
    BY <2>1, <2>2, PassoStessi
<1> QED
  BY <1>1, <1>2, <1>3, PassoCrolloAuto, PassoFineAutomatico DEF NextAuto

LEMMA AutoIniziale == InitAuto => AutoSano
<1> SUFFICES ASSUME InitAuto PROVE AutoSano
  OBVIOUS
<1>1. RigheSane /\ \A k \in Copie, o \in Op : ~Seduto(k, righe[o])
  BY RigheIniziali DEF InitAuto, Init, Assente, Seduto
<1>2. ASSUME NEW k \in Copie
      PROVE  /\ inCorso[k] = {} /\ attive[k] = 0 /\ inAttesa[k] = <<>>
             /\ Concorda(k, righe, {}, 0, <<>>)
  BY <1>1, NessunoSiede DEF InitAuto, Ognuna
<1>3. /\ inCorso \in [Copie -> SUBSET Host] /\ attive \in [Copie -> Nat]
      /\ inAttesa \in [Copie -> Seq(Host)]
  BY EmptySeq DEF InitAuto, Ognuna
<1> QED
  BY <1>1, <1>2, <1>3 DEF AutoSano, Concorda

-----------------------------------------------------------------------------
(* The nightly limit                                                       *)

\* A bootstrap of the night that has failed or still may: not over, or cancelled
\* under a coroutine that can go on.
Rischio(r) ==
    /\ r.auto /\ r.copia = "server" /\ r.azione = "bootstrap"
    /\ r.stato \in {"queued", "running", "failed"} \/ (r.stato = "cancelled" /\ r.presa)

\* A bootstrap of an admin on the host h: from there the count begins again.
Ripresa(r, h) == ~r.auto /\ r.azione = "bootstrap" /\ r.host = h /\ r.stato # "assente"

Esposte(R, h) ==
    {o \in Op : R[o].host = h /\ Rischio(R[o]) /\ \A x \in Op : Ripresa(R[x], h) => x < o}

\* A host that waits for a seat of the night is a failure to come.
InFila(Q, h) == IF h \in Chi(Q) THEN 1 ELSE 0

NotteSana(R, Q) ==
    \A h \in Host : Cardinality(Esposte(R, h)) + InFila(Q, h) <= TentativiMax

\* From R to T no row begins to be at risk, and what an admin did stays.
Eredita(R, T) ==
    \A o \in Op : /\ Rischio(T[o]) => Rischio(R[o]) /\ T[o].host = R[o].host
                  /\ \A h \in Host : Ripresa(R[o], h) => Ripresa(T[o], h)

LEMMA EsposteContate ==
    ASSUME NEW R, NEW h
    PROVE  IsFiniteSet(Esposte(R, h)) /\ Cardinality(Esposte(R, h)) \in Nat
<1>1. IsFiniteSet(Op)
  BY PatchAssumption, FS_Interval DEF Op
<1>2. IsFiniteSet(Esposte(R, h))
  BY <1>1, FS_Subset DEF Esposte
<1> QED
  BY <1>2, FS_CardinalityType

LEMMA EreditaTransitiva ==
    ASSUME NEW R, NEW S, NEW T, Eredita(R, S), Eredita(S, T) PROVE Eredita(R, T)
BY DEF Eredita

LEMMA NotteAncora ==
    ASSUME NEW R, NEW Q, NotteSana(R, Q), NEW T, Eredita(R, T), NEW P, Chi(P) \subseteq Chi(Q)
    PROVE  NotteSana(T, P)
<1> SUFFICES ASSUME NEW h \in Host
             PROVE  Cardinality(Esposte(T, h)) + InFila(P, h) <= TentativiMax
  BY DEF NotteSana
<1>1. Esposte(T, h) \subseteq Esposte(R, h)
  BY DEF Esposte, Eredita
<1>2. Cardinality(Esposte(T, h)) <= Cardinality(Esposte(R, h))
  BY <1>1, EsposteContate, FS_Subset
<1>3. InFila(P, h) \in Nat /\ InFila(Q, h) \in Nat /\ InFila(P, h) <= InFila(Q, h)
  BY DEF InFila
<1>4. Cardinality(Esposte(R, h)) + InFila(Q, h) <= TentativiMax
  BY DEF NotteSana
<1>5. Cardinality(Esposte(T, h)) \in Nat /\ Cardinality(Esposte(R, h)) \in Nat
  BY EsposteContate
<1> HIDE DEF InFila
<1> QED
  BY <1>2, <1>3, <1>4, <1>5, ChocoAssumption

\* One row moves on: the same host, action, copy and origin.
Continua(r, t) ==
    /\ t.host = r.host /\ t.auto = r.auto /\ t.copia = r.copia /\ t.azione = r.azione
    /\ r.stato # "assente" => t.stato # "assente"
    /\ Rischio(t) => Rischio(r)

LEMMA TutteContinuano ==
    ASSUME NEW R, NEW T, \A o \in Op : Continua(R[o], T[o]) PROVE Eredita(R, T)
BY DEF Continua, Eredita, Ripresa

LEMMA UnaContinua ==
    ASSUME NEW R \in [Op -> Riga], NEW o \in Op, NEW t \in Riga, Continua(R[o], t),
           NEW T, T = [R EXCEPT ![o] = t]
    PROVE  Eredita(R, T)
<1>1. \A x \in Op : Continua(R[x], T[x])
  BY DEF Continua
<1> QED
  BY <1>1, TutteContinuano

LEMMA EreditaRecupera ==
    ASSUME NEW R \in [Op -> Riga], NEW T, T = Recupera(R) PROVE Eredita(R, T)
<1>1. ASSUME NEW o \in Op PROVE Continua(R[o], T[o])
  <2>1. R[o] \in Riga
    OBVIOUS
  <2>2. CASE R[o].stato = "queued" \/ (R[o].stato = "running" /\ ~R[o].recente)
    <3>1. T[o] = [R[o] EXCEPT !.stato = "failed", !.recente = TRUE]
      BY <2>2 DEF Recupera
    <3>2. /\ T[o].stato = "failed" /\ T[o].host = R[o].host /\ T[o].auto = R[o].auto
          /\ T[o].copia = R[o].copia /\ T[o].azione = R[o].azione
      BY <2>1, <3>1 DEF Riga
    <3> QED
      BY <2>2, <3>2 DEF Continua, Rischio
  <2>3. CASE ~(R[o].stato = "queued" \/ (R[o].stato = "running" /\ ~R[o].recente))
    BY <2>3 DEF Recupera, Continua
  <2> QED
    BY <2>2, <2>3
<1> QED
  BY <1>1, TutteContinuano

LEMMA EreditaAperte ==
    ASSUME RigheSane, NEW k \in Copie PROVE Eredita(righe, Aperte(k))
<1>1. righe \in [Op -> Riga] /\ Aperte(k) = IF aperto[k] THEN righe ELSE Recupera(righe)
  BY DEF RigheSane, Sane, Aperte
<1>2. Eredita(righe, righe)
  BY DEF Eredita
<1> QED
  BY <1>1, <1>2, EreditaRecupera

\* Connections are closed: by the pool of copy k, by the end of the process.
LEMMA EreditaChiuse ==
    ASSUME NEW R \in [Op -> Riga], NEW T,
           \A o \in Op : \/ T[o] = R[o]
                         \/ T[o] = [R[o] EXCEPT !.presa = FALSE]
                         \/ T[o] = [R[o] EXCEPT !.lavoro = "nessuno", !.presa = FALSE]
    PROVE  Eredita(R, T)
<1>1. ASSUME NEW o \in Op PROVE Continua(R[o], T[o])
  <2>1. R[o] \in Riga
    OBVIOUS
  <2>2. /\ T[o].stato = R[o].stato /\ T[o].host = R[o].host /\ T[o].auto = R[o].auto
        /\ T[o].copia = R[o].copia /\ T[o].azione = R[o].azione
        /\ T[o].presa => R[o].presa
    BY <2>1 DEF Riga
  <2> QED
    BY <2>2 DEF Continua, Rischio
<1> QED
  BY <1>1, TutteContinuano

\* Whatever a coroutine with an open connection does to its row, the row was at risk.
LEMMA EreditaViva ==
    ASSUME NEW R \in [Op -> Riga], NEW a, NEW o \in Op, RigaSana(R[o], a), R[o].presa,
           NEW t \in Riga, t.host = R[o].host, t.auto = R[o].auto, t.copia = R[o].copia,
           t.azione = R[o].azione, t.stato # "assente",
           NEW T, T = [R EXCEPT ![o] = t]
    PROVE  Eredita(R, T)
<1>1. R[o].stato \in {"queued", "running", "failed", "cancelled"}
  BY DEF RigaSana, Riga
<1>2. Continua(R[o], t)
  BY <1>1 DEF Continua, Rischio
<1> QED
  BY <1>2, UnaContinua

LEMMA EreditaChiusa ==
    ASSUME NEW R \in [Op -> Riga], NEW a, NEW o \in Op, RigaSana(R[o], a), R[o].presa,
           NEW x \in {"success", "failed"}, NEW manca \in BOOLEAN,
           NEW T, T = Chiusa(R, o, x, manca)
    PROVE  Eredita(R, T)
<1> DEFINE t == [R[o] EXCEPT !.stato = x, !.manca = manca, !.recente = TRUE,
                             !.lavoro = "nessuno", !.presa = FALSE]
<1>1. R[o] \in Riga /\ T = [R EXCEPT ![o] = t]
  BY DEF Chiusa
<1>2. t \in Riga
  BY <1>1 DEF Riga, Finali
<1>3. /\ t.host = R[o].host /\ t.auto = R[o].auto /\ t.copia = R[o].copia
      /\ t.azione = R[o].azione /\ t.stato # "assente"
  BY <1>1 DEF Riga
<1> HIDE DEF t
<1> QED
  BY <1>1, <1>2, <1>3, EreditaViva

LEMMA EreditaMorta ==
    ASSUME NEW R \in [Op -> Riga], NEW o \in Op, NEW T, T = [R EXCEPT ![o].lavoro = "nessuno"]
    PROVE  Eredita(R, T)
<1> DEFINE t == [R[o] EXCEPT !.lavoro = "nessuno"]
<1>1. R[o] \in Riga /\ T = [R EXCEPT ![o] = t]
  OBVIOUS
<1>2. /\ t \in Riga /\ t.host = R[o].host /\ t.auto = R[o].auto /\ t.copia = R[o].copia
      /\ t.azione = R[o].azione /\ t.stato = R[o].stato /\ t.presa = R[o].presa
  BY <1>1 DEF Riga
<1> HIDE DEF t
<1>3. Continua(R[o], t)
  BY <1>2 DEF Continua, Rischio
<1> QED
  BY <1>1, <1>2, <1>3, UnaContinua

\* A row of an admin is born, or the probe that follows an upgrade, or a bootstrap
\* of the credentials.
LEMMA EreditaAggiunta ==
    ASSUME NEW k, NEW R, NEW T, NEW o, NEW h, NEW auto, Aggiunta(k, R, T, o, h, auto),
           ~auto \/ k # "server"
    PROVE  Eredita(R, T)
<1>1. /\ o \in Op /\ ~Rischio(T[o]) /\ \A y \in Op \ {o} : T[y] = R[y]
  BY DEF Aggiunta, Rischio
<1>2. \A g \in Host : ~Ripresa(R[o], g)
  BY DEF Aggiunta, Vuota, Ripresa
<1> QED
  BY <1>1, <1>2 DEF Eredita

\* One element more counts at most one more.
LEMMA UnaDiPiu ==
    ASSUME NEW A, NEW B, NEW x, IsFiniteSet(A), B \subseteq A \union {x}
    PROVE  Cardinality(B) <= Cardinality(A) + 1
<1>1. CASE x \in A
  <2>1. B \subseteq A
    BY <1>1
  <2>2. Cardinality(B) <= Cardinality(A) /\ Cardinality(A) \in Nat /\ IsFiniteSet(B)
    BY <2>1, FS_Subset, FS_CardinalityType
  <2>3. Cardinality(B) \in Nat
    BY <2>2, FS_CardinalityType
  <2> QED
    BY <2>2, <2>3
<1>2. CASE x \notin A
  <2>1. IsFiniteSet(A \union {x}) /\ Cardinality(A \union {x}) = Cardinality(A) + 1
    BY <1>2, FS_AddElement
  <2>2. Cardinality(B) <= Cardinality(A \union {x})
    BY <2>1, FS_Subset
  <2> QED
    BY <2>1, <2>2
<1> QED
  BY <1>1, <1>2

\* A bootstrap of the night is born on the host h, which leaves the queue with it:
\* the failure that was to come is now one that may.
LEMMA NotteNasce ==
    ASSUME NEW R, NEW Q, NotteSana(R, Q), NEW o, NEW T, NEW h \in Host,
           Aggiunta("server", R, T, o, h, TRUE), h \in Chi(Q),
           NEW P, Chi(P) \subseteq Chi(Q) \ {h}
    PROVE  NotteSana(T, P)
<1>1. /\ o \in Op /\ T[o].host = h /\ \A y \in Op \ {o} : T[y] = R[y]
      /\ \A g \in Host : ~Ripresa(R[o], g)
  BY DEF Aggiunta, Vuota, Ripresa
<1> SUFFICES ASSUME NEW g \in Host
             PROVE  Cardinality(Esposte(T, g)) + InFila(P, g) <= TentativiMax
  BY DEF NotteSana
<1>2. Cardinality(Esposte(R, g)) + InFila(Q, g) <= TentativiMax
  BY DEF NotteSana
<1>3. /\ Cardinality(Esposte(T, g)) \in Nat /\ Cardinality(Esposte(R, g)) \in Nat
      /\ IsFiniteSet(Esposte(R, g)) /\ IsFiniteSet(Esposte(T, g))
  BY EsposteContate
<1>4. Esposte(T, g) \subseteq Esposte(R, g) \union {o}
  BY <1>1 DEF Esposte
<1>5. CASE g = h
  <2>1. InFila(P, g) = 0 /\ InFila(Q, g) = 1
    BY <1>5 DEF InFila
  <2>2. Cardinality(Esposte(T, g)) <= Cardinality(Esposte(R, g)) + 1
    BY <1>3, <1>4, UnaDiPiu
  <2> QED
    BY <1>2, <1>3, <2>1, <2>2, ChocoAssumption
<1>6. CASE g # h
  <2>1. Esposte(T, g) \subseteq Esposte(R, g)
    BY <1>1, <1>6 DEF Esposte
  <2>2. Cardinality(Esposte(T, g)) <= Cardinality(Esposte(R, g))
    BY <1>3, <2>1, FS_Subset
  <2>3. InFila(P, g) <= InFila(Q, g) /\ InFila(P, g) \in Nat /\ InFila(Q, g) \in Nat
    BY <1>6 DEF InFila
  <2> QED
    BY <1>2, <1>3, <2>2, <2>3, ChocoAssumption
<1> QED
  BY <1>5, <1>6

LEMMA PassoNotteRighe ==
    ASSUME RigheSane, DelleRighe PROVE Eredita(righe, righe')
<1> DEFINE S == righe
           T == righe'
<1>1. righe \in [Op -> Riga] /\ \A o \in Op : RigaSana(righe[o], aperto) /\ righe[o] \in Riga
  BY DEF RigheSane, Sane
<1>2. ASSUME NEW k \in Copie, Apri(k) PROVE Eredita(righe, righe')
  BY <1>2, EreditaAperte DEF Apri
<1>3. ASSUME NEW k \in Copie, Sfratto(k) PROVE Eredita(righe, righe')
  <2>1. \A o \in Op : righe'[o] = righe[o] \/ righe'[o] = [righe[o] EXCEPT !.presa = FALSE]
    BY <1>3 DEF Sfratto
  <2>2. /\ S \in [Op -> Riga]
        /\ \A o \in Op : \/ T[o] = S[o]
                         \/ T[o] = [S[o] EXCEPT !.presa = FALSE]
                         \/ T[o] = [S[o] EXCEPT !.lavoro = "nessuno", !.presa = FALSE]
    BY <1>1, <2>1
  <2> HIDE DEF S, T
  <2>3. Eredita(S, T)
    BY <2>2, EreditaChiuse
  <2> QED
    BY <2>3 DEF S, T
<1>4. ASSUME NEW h \in Host, NEW x \in Richieste, Crea(h, x) PROVE Eredita(righe, righe')
  <2> DEFINE A == Aperte("rotte")
             b == [aperto EXCEPT !["rotte"] = TRUE]
  <2>1. x \in Azioni /\ ultima < NOp /\ "rotte" \in Copie
    BY <1>4, PatchAssumption DEF Azioni, Occupa, Aspetta, Crea, Copie
  <2>2. Sane(A, ultima, b) /\ Eredita(S, A)
    BY <2>1, AperteSane, EreditaAperte
  <2>3. /\ T = Nata(A, ultima + 1, h, x, FALSE, "rotte") /\ h \in Ospite
        /\ FALSE \in BOOLEAN /\ b["rotte"]
    BY <1>4, <2>1 DEF Crea, Ospite, RigheSane, Sane
  <2> HIDE DEF A, b, S, T
  <2>4. Aggiunta("rotte", A, T, ultima + 1, h, FALSE)
    BY <2>1, <2>2, <2>3, NasceUna
  <2>5. ultima + 1 \in Op
    BY <2>4 DEF Aggiunta
  <2>6. Eredita(A, T)
    BY <2>4, <2>5, EreditaAggiunta
  <2>7. Eredita(S, T)
    BY <2>2, <2>6, EreditaTransitiva
  <2> QED
    BY <2>7 DEF S, T
<1>5. ASSUME NEW o \in Op, Parte(o) PROVE Eredita(righe, righe')
  <2> DEFINE t == [righe[o] EXCEPT !.stato = "running", !.recente = TRUE, !.lavoro = "comando"]
  <2>1. S \in [Op -> Riga] /\ S[o].presa /\ RigaSana(S[o], aperto) /\ S[o] \in Riga
        /\ T = [S EXCEPT ![o] = t]
    BY <1>1, <1>5 DEF Parte, Viva, Partita
  <2>2. t \in Riga
    BY <2>1 DEF Riga
  <2>3. /\ t.host = S[o].host /\ t.auto = S[o].auto /\ t.copia = S[o].copia
        /\ t.azione = S[o].azione /\ t.stato # "assente"
    BY <2>1 DEF Riga
  <2> HIDE DEF S, T, t
  <2>4. Eredita(S, T)
    BY <2>1, <2>2, <2>3, EreditaViva
  <2> QED
    BY <2>4 DEF S, T
<1>6. ASSUME NEW o \in Op, ScadeAttesa(o) PROVE Eredita(righe, righe')
  <2>1. S \in [Op -> Riga] /\ RigaSana(S[o], aperto) /\ S[o].presa
        /\ T = Chiusa(S, o, "failed", FALSE) /\ FALSE \in BOOLEAN
    BY <1>1, <1>6 DEF ScadeAttesa, Viva
  <2> HIDE DEF S, T
  <2>2. Eredita(S, T)
    BY <2>1, EreditaChiusa
  <2> QED
    BY <2>2 DEF S, T
<1>7. ASSUME NEW o \in Op, Muore(o) PROVE Eredita(righe, righe')
  <2>1. S \in [Op -> Riga] /\ T = [S EXCEPT ![o].lavoro = "nessuno"]
    BY <1>1, <1>7 DEF Muore
  <2> HIDE DEF S, T
  <2>2. Eredita(S, T)
    BY <2>1, EreditaMorta
  <2> QED
    BY <2>2 DEF S, T
<1>8. ASSUME NEW o \in Op, Annulla(o) PROVE Eredita(righe, righe')
  <2> DEFINE t == [righe[o] EXCEPT !.stato = "cancelled"]
  <2>1. S \in [Op -> Riga] /\ S[o] \in Riga /\ S[o].stato = "queued" /\ T = [S EXCEPT ![o] = t]
    BY <1>1, <1>8 DEF Annulla
  <2>2. /\ t \in Riga /\ t.host = S[o].host /\ t.auto = S[o].auto /\ t.copia = S[o].copia
        /\ t.azione = S[o].azione /\ t.stato = "cancelled"
    BY <2>1 DEF Riga, Finali
  <2> HIDE DEF S, T, t
  <2>3. Continua(S[o], t)
    BY <2>1, <2>2 DEF Continua, Rischio
  <2>4. Eredita(S, T)
    BY <2>1, <2>2, <2>3, UnaContinua
  <2> QED
    BY <2>4 DEF S, T
<1>9. ASSUME NEW o \in Op, Passa(o) PROVE Eredita(righe, righe')
  <2> DEFINE t == [righe[o] EXCEPT !.recente = FALSE]
  <2>1. S \in [Op -> Riga] /\ S[o] \in Riga /\ T = [S EXCEPT ![o] = t]
    BY <1>1, <1>9 DEF Passa
  <2>2. /\ t \in Riga /\ t.host = S[o].host /\ t.auto = S[o].auto /\ t.copia = S[o].copia
        /\ t.azione = S[o].azione /\ t.stato = S[o].stato /\ t.presa = S[o].presa
    BY <2>1 DEF Riga
  <2> HIDE DEF S, T, t
  <2>3. Continua(S[o], t)
    BY <2>2 DEF Continua, Rischio
  <2>4. Eredita(S, T)
    BY <2>1, <2>2, <2>3, UnaContinua
  <2> QED
    BY <2>4 DEF S, T
<1>10. ASSUME NEW o \in Op, Fine(o) PROVE Eredita(righe, righe')
  <2> PICK manca \in BOOLEAN, esito \in {"success", "failed"} : FineComando(o, esito, manca)
    BY <1>10 DEF Fine
  <2> DEFINE C == Chiusa(righe, o, esito, manca)
             k == righe[o].copia
             g == righe[o].host
  <2>1. /\ S \in [Op -> Riga] /\ RigaSana(S[o], aperto) /\ S[o].presa /\ C = Chiusa(S, o, esito, manca)
        /\ aperto[k] /\ k \in Copie /\ g \in Ospite /\ Sane(righe, ultima, aperto)
    BY <1>1 DEF FineComando, Viva, RigheSane, RigaSana, Riga, Ospite
  <2>2. \/ T = C
        \/ ultima < NOp /\ T = Nata(C, ultima + 1, g, "probe", FALSE, k)
    BY DEF FineComando
  <2>3. Sane(C, ultima, aperto)
    BY <2>1, ChiusaSana
  <2> HIDE DEF S, T, C, k, g
  <2>4. Eredita(S, C)
    BY <2>1, EreditaChiusa
  <2>5. ASSUME ultima < NOp, T = Nata(C, ultima + 1, g, "probe", FALSE, k) PROVE Eredita(C, T)
    <3>1. "probe" \in Azioni /\ FALSE \in BOOLEAN
      BY DEF Azioni
    <3>2. Aggiunta(k, C, T, ultima + 1, g, FALSE)
      BY <2>1, <2>3, <2>5, <3>1, NasceUna
    <3>3. ultima + 1 \in Op
      BY <3>2 DEF Aggiunta
    <3> QED
      BY <3>2, <3>3, EreditaAggiunta
  <2>6. Eredita(S, T)
    BY <2>2, <2>4, <2>5, EreditaTransitiva
  <2> QED
    BY <2>6 DEF S, T
<1> QED
  BY <1>2, <1>3, <1>4, <1>5, <1>6, <1>7, <1>8, <1>9, <1>10 DEF DelleRighe

\* Where a round of the night takes the host h, its bootstraps at risk have failed
\* already, and are those it counts.
LEMMA RestaUnTentativo ==
    ASSUME NEW R, NEW C, NEW Q, NEW u, NEW a, Sane(R, u, a), Lucchetti("server", R, C, Q),
           NEW h \in Host, h \notin C, ~Occupato(R, h), Falliti(R, h) < TentativiMax
    PROVE  Cardinality(Esposte(R, h)) + 1 <= TentativiMax
<1> DEFINE B == {o \in Op : R[o].host = h /\ R[o].azione = "bootstrap" /\ R[o].stato # "assente"}
           F == {o \in B : /\ R[o].auto /\ R[o].stato = "failed"
                           /\ \A x \in B : ~R[x].auto => x < o}
<1>1. ASSUME NEW o \in Esposte(R, h) PROVE o \in F
  <2>1. o \in Op /\ R[o].host = h /\ Rischio(R[o]) /\ \A x \in Op : Ripresa(R[x], h) => x < o
    BY DEF Esposte
  <2>2. R[o].stato \notin {"queued", "running"}
    BY <2>1 DEF Rischio, Occupato
  <2>3. ~R[o].presa
    <3>1. ~Seduto("server", R[o])
      BY <2>1 DEF Lucchetti, Ospiti, Seggi
    <3> QED
      BY <2>1, <3>1 DEF Sane, RigaSana, Seduto, Rischio
  <2>4. R[o].stato = "failed" /\ R[o].auto /\ o \in B
    BY <2>1, <2>2, <2>3 DEF Rischio
  <2>5. \A x \in B : ~R[x].auto => x < o
    BY <2>1 DEF Ripresa
  <2> QED
    BY <2>4, <2>5
<1>2. IsFiniteSet(F)
  <2>1. IsFiniteSet(Op) /\ F \subseteq Op
    BY PatchAssumption, FS_Interval DEF Op
  <2> QED
    BY <2>1, FS_Subset
<1>3. Falliti(R, h) = Cardinality(F)
  BY DEF Falliti
<1> HIDE DEF F
<1>4. Cardinality(Esposte(R, h)) <= Cardinality(F) /\ Cardinality(F) \in Nat
  <2>1. Esposte(R, h) \subseteq F
    BY <1>1
  <2> QED
    BY <1>2, <2>1, FS_Subset, FS_CardinalityType
<1> QED
  BY <1>3, <1>4, EsposteContate, ChocoAssumption

\* A round of the night: of its hosts s[1], ..., s[n] the first m sit down, each in
\* a new row, and the others wait; none of them was waiting, and each had one
\* attempt left.
LEMMA NotteGiro ==
    ASSUME NEW R, NEW Q \in Seq(Host), NotteSana(R, Q), NEW u \in Nat, NEW n \in Nat,
           NEW m \in Nat, m <= n, NEW s \in [1..n -> Host],
           \A i, j \in 1..n : s[i] = s[j] => i = j,
           \A i \in 1..n : /\ s[i] \notin Chi(Q)
                           /\ Cardinality(Esposte(R, s[i])) + 1 <= TentativiMax,
           NEW T, \A o \in Op : ~(u < o /\ o <= u + m) => T[o] = R[o],
           \A o \in Op : u < o /\ o <= u + m => Vuota(R[o]) /\ T[o].host = s[o - u]
    PROVE  NotteSana(T, Q \o InCoda(s, m, n))
<1> DEFINE N == InCoda(s, m, n)
           P == Q \o N
<1> USE PatchAssumption
<1>1. /\ N \in Seq(Host) /\ Len(N) = n - m /\ \A i \in 1..(n - m) : N[i] = s[m + i]
      /\ Len(Q) \in Nat
  <2>1. n - m \in Nat /\ \A i \in 1..(n - m) : m + i \in 1..n
    OBVIOUS
  <2> QED
    BY <2>1, LenProperties DEF InCoda
<1> HIDE DEF N
<1>2. ASSUME NEW g \in Chi(P), g \notin Chi(Q) PROVE \E j \in 1..n : m < j /\ g = s[j]
  <2>1. PICK i \in 1..Len(P) : g = P[i]
    BY <1>2 DEF Chi
  <2>2. /\ Len(P) = Len(Q) + (n - m)
        /\ \A x \in 1..Len(P) : P[x] = IF x <= Len(Q) THEN Q[x] ELSE N[x - Len(Q)]
    <3>1. Q \in Seq(Host) /\ N \in Seq(Host) /\ Len(N) = n - m
      BY <1>1
    <3> QED
      BY ONLY <3>1, ConcatProperties DEF P
  <2> HIDE DEF P
  <2>3. i \notin 1..Len(Q)
    <3>1. i \in 1..Len(Q) => g = Q[i]
      BY <1>1, <2>1, <2>2
    <3> QED
      BY <1>2, <3>1 DEF Chi
  <2>4. P[i] = N[i - Len(Q)] /\ i - Len(Q) \in 1..(n - m)
    BY <1>1, <2>1, <2>2, <2>3
  <2>5. g = s[m + (i - Len(Q))] /\ m + (i - Len(Q)) \in 1..n /\ m < m + (i - Len(Q))
    BY <1>1, <2>1, <2>4
  <2> QED
    BY <2>5
<1> HIDE DEF P
<1>3. \A o \in Op, g \in Host : Ripresa(R[o], g) => ~(u < o /\ o <= u + m)
  BY DEF Vuota, Ripresa
<1>4. ASSUME NEW g \in Host
      PROVE  Cardinality(Esposte(T, g)) + InFila(P, g) <= TentativiMax
  <2>1. ASSUME NEW o \in Esposte(T, g), ~(u < o /\ o <= u + m) PROVE o \in Esposte(R, g)
    BY <1>3, <2>1 DEF Esposte
  <2>2. ASSUME NEW o \in Esposte(T, g), u < o, o <= u + m
        PROVE  o - u \in 1..n /\ o - u <= m /\ g = s[o - u] /\ o = u + (o - u)
    BY <2>2 DEF Esposte, Op
  <2>3. /\ Cardinality(Esposte(T, g)) \in Nat /\ Cardinality(Esposte(R, g)) \in Nat
        /\ IsFiniteSet(Esposte(R, g))
    BY EsposteContate
  <2>4. Cardinality(Esposte(R, g)) + InFila(Q, g) <= TentativiMax
    BY DEF NotteSana
  <2>5. CASE \E i \in 1..n : g = s[i]
    <3>1. PICK i \in 1..n : g = s[i]
      BY <2>5
    <3>2. Cardinality(Esposte(R, g)) + 1 <= TentativiMax /\ g \notin Chi(Q)
      BY <3>1
    <3>3. CASE i <= m
      <4>1. Esposte(T, g) \subseteq Esposte(R, g) \union {u + i}
        BY <2>1, <2>2, <3>1
      <4>2. InFila(P, g) = 0
        BY <1>2, <3>1, <3>2, <3>3 DEF InFila
      <4>3. Cardinality(Esposte(T, g)) <= Cardinality(Esposte(R, g)) + 1
        BY <2>3, <4>1, UnaDiPiu
      <4> QED
        BY <2>3, <3>2, <4>2, <4>3, ChocoAssumption
    <3>4. CASE ~(i <= m)
      <4>1. Esposte(T, g) \subseteq Esposte(R, g)
        BY <2>1, <2>2, <3>1, <3>4
      <4>2. Cardinality(Esposte(T, g)) <= Cardinality(Esposte(R, g))
        BY <2>3, <4>1, FS_Subset
      <4>3. InFila(P, g) \in {0, 1}
        BY DEF InFila
      <4> QED
        BY <2>3, <3>2, <4>2, <4>3, ChocoAssumption
    <3> QED
      BY <3>3, <3>4
  <2>6. CASE ~ \E i \in 1..n : g = s[i]
    <3>1. Esposte(T, g) \subseteq Esposte(R, g)
      BY <2>1, <2>2, <2>6
    <3>2. Cardinality(Esposte(T, g)) <= Cardinality(Esposte(R, g))
      BY <2>3, <3>1, FS_Subset
    <3>3. InFila(P, g) \in Nat /\ InFila(Q, g) \in Nat /\ InFila(P, g) <= InFila(Q, g)
      BY <1>2, <2>6 DEF InFila
    <3> QED
      BY <2>3, <2>4, <3>2, <3>3, ChocoAssumption
  <2> QED
    BY <2>5, <2>6
<1> QED
  BY <1>4 DEF NotteSana, P, N

LEMMA PassoNotteGiro ==
    ASSUME AutoSano, NotteSana(righe, inAttesa["server"]),
           NEW k \in Copie, NEW H \in SUBSET Host, Giro(k, H)
    PROVE  NotteSana(righe', inAttesa'["server"])
<1> DEFINE S == righe
           T == righe'
           A == Aperte(k)
           C == Candidati(A, H, k)
           n == Cardinality(C)
           p == attive[k]
           Q == inAttesa["server"]
           P == inAttesa'["server"]
           b == [aperto EXCEPT ![k] = TRUE]
           u == ultima
           m == IF n < PostiMax - p THEN n ELSE PostiMax - p
<1> USE PatchAssumption, ChocoAssumption
<1>1. /\ C \subseteq Host
      /\ \A h \in C : /\ h \notin inCorso[k] /\ ~Occupato(A, h)
                      /\ k = "server" => Falliti(A, h) < TentativiMax
  BY DEF Candidati
<1>2. Sane(A, u, b) /\ Fermi(S, A) /\ Eredita(S, A)
  BY AperteSane, EreditaAperte DEF AutoSano
<1>3. PICK s \in InOrdine(C) :
        /\ inAttesa' = [inAttesa EXCEPT ![k] = @ \o [i \in 1..(n - m) |-> s[m + i]]]
        /\ T = [o \in Op |-> IF o \in (u + 1)..(u + m)
                                THEN Nata(A, o, s[o - u], "bootstrap", TRUE, k)[o] ELSE A[o]]
  BY DEF Giro
<1>4. /\ inAttesa \in [Copie -> Seq(Host)] /\ Q \in Seq(Host) /\ p \in Nat /\ p <= PostiMax
      /\ u \in 0..NOp /\ u \in Nat
      /\ Lucchetti(k, S, inCorso[k], inAttesa[k])
  BY DEF AutoSano, RigheSane, Sane, Posti, Copie
<1>5. NotteSana(S, Q)
  OBVIOUS
<1>6. /\ k # "server" => P = Q
      /\ k = "server" => P = Q \o [i \in 1..(n - m) |-> s[m + i]]
  <2>1. "server" \in Copie /\ inAttesa \in [Copie -> Seq(Host)]
    BY <1>4 DEF Copie
  <2> HIDE DEF n, m
  <2> QED
    BY <1>3, <2>1
<1> HIDE DEF S, T, A, C, Q, P, b, u, p
<1>7. Elenco(C, n, s) /\ n = Cardinality(C)
  BY <1>1, <1>3, OrdineCompleto
<1> HIDE DEF n
<1>8. /\ n \in Nat /\ s \in [1..n -> C] /\ s \in [1..n -> Host]
      /\ \A i, j \in 1..n : s[i] = s[j] => i = j
  BY <1>1, <1>7 DEF Elenco
<1>9. m \in Nat /\ m <= n
  BY <1>4, <1>8
<1> HIDE DEF m
<1>10. ASSUME NEW o \in Op, u < o, o <= u + m
       PROVE  /\ Vuota(A[o]) /\ Seduto(k, T[o])
              /\ T[o].host = s[o - u]
  <2>1. o - u \in 1..n /\ o \in (u + 1)..(u + m) /\ s[o - u] \in Host
    BY <1>4, <1>8, <1>9, <1>10 DEF Op
  <2> DEFINE h == s[o - u]
             N == Nata(A, o, h, "bootstrap", TRUE, k)
  <2>2. T[o] = N[o] /\ h \in Host
    BY <1>3, <2>1
  <2> HIDE DEF h
  <2>3. N = Nata(A, o, h, "bootstrap", TRUE, k)
    OBVIOUS
  <2> HIDE DEF N
  <2>4. Siedono(k, A, N[o], o, h)
    BY <1>2, <1>10, <2>2, <2>3, UnaDiTante
  <2> QED
    BY <2>2, <2>4 DEF Siedono, h
<1>11. ASSUME NEW o \in Op, ~(u < o /\ o <= u + m) PROVE T[o] = A[o]
  <2>1. o \notin (u + 1)..(u + m)
    BY <1>4, <1>9, <1>11 DEF Op
  <2> QED
    BY <1>3, <2>1
<1>12. NotteSana(A, Q)
  BY <1>2, <1>5, NotteAncora
<1>13. CASE k # "server"
  <2>1. ASSUME NEW o \in Op
        PROVE  /\ Rischio(T[o]) => Rischio(A[o]) /\ T[o].host = A[o].host
               /\ \A h \in Host : Ripresa(A[o], h) => Ripresa(T[o], h)
    <3>1. CASE u < o /\ o <= u + m
      BY <1>10, <1>13, <3>1 DEF Rischio, Seduto, Ripresa, Vuota
    <3>2. CASE ~(u < o /\ o <= u + m)
      BY <1>11, <3>2
    <3> QED
      BY <3>1, <3>2
  <2>2. Eredita(A, T)
    BY <2>1 DEF Eredita
  <2>3. NotteSana(T, P)
    BY <1>6, <1>12, <1>13, <2>2, NotteAncora
  <2> QED
    BY <2>3 DEF T, P
<1>14. CASE k = "server"
  <2>1. Lucchetti("server", A, inCorso[k], Q)
    <3>1. StessiPosti(k, S, A)
      BY <1>2 DEF Fermi
    <3> QED
      BY <1>4, <1>14, <3>1, LucchettiStessi DEF Q
  <2>2. ASSUME NEW i \in 1..n
        PROVE  s[i] \notin Chi(Q) /\ Cardinality(Esposte(A, s[i])) + 1 <= TentativiMax
    <3> DEFINE h == s[i]
    <3>0. h \in C
      BY <1>8
    <3> HIDE DEF h
    <3>1. /\ h \in Host /\ h \notin inCorso[k] /\ ~Occupato(A, h)
          /\ Falliti(A, h) < TentativiMax
      BY <1>1, <1>14, <3>0
    <3>2. h \notin Chi(Q)
      BY <2>1, <3>1 DEF Lucchetti
    <3> HIDE DEF h
    <3>3. Cardinality(Esposte(A, h)) + 1 <= TentativiMax
      BY <1>2, <2>1, <3>1, RestaUnTentativo
    <3> QED
      BY <3>2, <3>3 DEF h
  <2>3. NotteSana(T, Q \o InCoda(s, m, n))
    <3>1. \A i \in 1..n : /\ s[i] \notin Chi(Q)
                           /\ Cardinality(Esposte(A, s[i])) + 1 <= TentativiMax
      BY <2>2
    <3>2. \A o \in Op : ~(u < o /\ o <= u + m) => T[o] = A[o]
      BY <1>11
    <3>3. \A o \in Op : u < o /\ o <= u + m => Vuota(A[o]) /\ T[o].host = s[o - u]
      BY <1>10
    <3>4. Q \in Seq(Host) /\ u \in Nat
      BY <1>4
    <3> QED
      BY <1>8, <1>9, <1>12, <3>1, <3>2, <3>3, <3>4, NotteGiro
  <2> QED
    BY <1>6, <1>14, <2>3 DEF T, P, InCoda
<1> QED
  BY <1>13, <1>14

LEMMA CodaSenzaIlPrimo ==
    ASSUME NEW Q \in Seq(Host), Q # <<>>, \A i, j \in 1..Len(Q) : Q[i] = Q[j] => i = j
    PROVE  Chi(Tail(Q)) \subseteq Chi(Q) \ {Head(Q)} /\ Head(Q) \in Chi(Q)
<1>1. Len(Q) \in Nat /\ Len(Q) # 0
  BY LenProperties, EmptySeq
<1>2. /\ Len(Tail(Q)) = Len(Q) - 1
      /\ \A i \in 1..Len(Tail(Q)) : Tail(Q)[i] = Q[i + 1]
      /\ Head(Q) = Q[1]
  BY HeadTailProperties
<1>3. 1 \in 1..Len(Q) /\ \A i \in 1..Len(Tail(Q)) : i + 1 \in 1..Len(Q) /\ i + 1 # 1
  BY <1>1, <1>2
<1>4. \A i \in 1..Len(Tail(Q)) : Tail(Q)[i] \in Chi(Q) /\ Tail(Q)[i] # Head(Q)
  BY <1>2, <1>3 DEF Chi
<1> QED
  BY <1>2, <1>3, <1>4 DEF Chi

LEMMA PassoNotteFine ==
    ASSUME AutoSano, NotteSana(righe, inAttesa["server"]), NEW o \in Op, FineAutomatico(o)
    PROVE  NotteSana(righe', inAttesa'["server"])
<1> DEFINE k == righe[o].copia
           S == righe
           T == righe'
           D == inCorso[k]
           Q == inAttesa[k]
           V == inAttesa["server"]
           W == inAttesa'["server"]
           b == [aperto EXCEPT ![k] = TRUE]
<1>1. PICK R \in DopoLaFine(o) : Siede(k, R)
  BY DEF FineAutomatico
<1> DEFINE A == IF aperto[k] THEN R ELSE Recupera(R)
<1>2. /\ RigheSane /\ k \in Copie /\ Lucchetti(k, S, D, Q)
      /\ righe[o].lavoro # "nessuno" /\ (ultima < NOp \/ Q = <<>>)
      /\ inAttesa \in [Copie -> Seq(Host)] /\ Q \in Seq(Host)
      /\ S \in [Op -> Riga] /\ S[o] \in Riga /\ RigaSana(S[o], aperto)
  BY DEF AutoSano, FineAutomatico, RigheSane, Sane, Riga
<1>3. Sane(R, ultima, aperto) /\ Finita(S, R, o)
  BY <1>2, FineDellaRiga
<1>4. Q = <<>> => T = R /\ W = V
  BY <1>1 DEF Siede
<1>5. Q # <<>> => /\ T = Nata(A, ultima + 1, Head(Q), "bootstrap", TRUE, k)
                  /\ inAttesa' = [inAttesa EXCEPT ![k] = Tail(Q)]
  BY <1>1 DEF Siede
<1>6. b[k] /\ b = [aperto EXCEPT ![k] = TRUE] /\ A = IF aperto[k] THEN R ELSE Recupera(R)
  BY <1>2 DEF RigheSane, Sane
<1>7. NotteSana(S, V) /\ (k = "server" => V = Q)
  OBVIOUS
<1>8. Eredita(S, R)
  <2>1. CASE righe[o].presa
    <3>1. \E x \in {"success", "failed"} : R = Chiusa(S, o, x, FALSE)
      BY <1>2, <2>1 DEF DopoLaFine, Viva, Riga
    <3>2. PICK x \in {"success", "failed"} : R = Chiusa(S, o, x, FALSE)
      BY <3>1
    <3>3. S[o].presa /\ FALSE \in BOOLEAN
      BY <2>1
    <3> HIDE DEF S
    <3> QED
      BY <1>2, <3>2, <3>3, EreditaChiusa
  <2>2. CASE ~righe[o].presa
    <3>1. R = [S EXCEPT ![o].lavoro = "nessuno"]
      BY <2>2 DEF DopoLaFine, Viva
    <3> HIDE DEF S
    <3> QED
      BY <1>2, <3>1, EreditaMorta
  <2> QED
    BY <2>1, <2>2
<1> HIDE DEF k, S, T, D, Q, V, W, A, b
<1>9. CASE Q = <<>>
  <2>1. NotteSana(T, W)
    BY <1>4, <1>7, <1>8, <1>9, NotteAncora
  <2> QED
    BY <2>1 DEF T, W
<1>10. CASE Q # <<>>
  <2> DEFINE h == Head(Q)
             P == Tail(Q)
  <2>1. /\ h \in Host /\ h \in Ospite /\ "bootstrap" \in Azioni /\ TRUE \in BOOLEAN
        /\ ultima < NOp
    <3>1. Head(Q) \in Host
      BY <1>2, <1>10, HeadTailProperties
    <3> QED
      BY <1>2, <1>10, <3>1 DEF Ospite, Azioni, Occupa, Aspetta
  <2>2. Sane(A, ultima, b) /\ Eredita(R, A)
    <3>1. R \in [Op -> Riga] /\ Eredita(R, R)
      BY <1>3 DEF Sane, Eredita
    <3>2. Eredita(R, A)
      BY <1>6, <3>1, EreditaRecupera
    <3> QED
      BY <1>2, <1>3, <1>6, <3>2, ApertaSana
  <2>3. T = Nata(A, ultima + 1, h, "bootstrap", TRUE, k)
    BY <1>5, <1>10
  <2>4. Chi(P) \subseteq Chi(Q) \ {h} /\ h \in Chi(Q)
    BY <1>2, <1>10, CodaSenzaIlPrimo DEF Lucchetti, Distinti
  <2> HIDE DEF h
  <2>5. Aggiunta(k, A, T, ultima + 1, h, TRUE)
    BY <1>2, <1>6, <2>1, <2>2, <2>3, NasceUna
  <2> HIDE DEF P
  <2>6. NotteSana(A, V)
    <3>1. Eredita(S, A)
      BY <1>8, <2>2, EreditaTransitiva
    <3> QED
      BY <1>7, <3>1, NotteAncora
  <2>7. CASE k = "server"
    <3>1. W = P
      BY <1>2, <1>5, <1>10, <2>7 DEF W, P
    <3>2. NotteSana(T, P)
      BY <1>7, <2>1, <2>4, <2>5, <2>6, <2>7, NotteNasce
    <3> QED
      BY <3>1, <3>2 DEF T, W
  <2>8. CASE k # "server"
    <3>1. W = V
      BY <1>2, <1>5, <1>10, <2>8 DEF W, V, Copie
    <3>2. ultima + 1 \in Op
      BY <2>5 DEF Aggiunta
    <3>3. Eredita(A, T)
      BY <2>5, <2>8, <3>2, EreditaAggiunta
    <3>4. NotteSana(T, V)
      BY <2>6, <3>3, NotteAncora
    <3> QED
      BY <3>1, <3>4 DEF T, W
  <2> QED
    BY <2>7, <2>8
<1> QED
  BY <1>9, <1>10

LEMMA PassoNotte ==
    ASSUME AutoSano, NotteSana(righe, inAttesa["server"]), [NextAuto]_tutte
    PROVE  NotteSana(righe', inAttesa'["server"])
<1> DEFINE S == righe
           T == righe'
           V == inAttesa["server"]
           W == inAttesa'["server"]
<1>1. CASE DelleRighe /\ UNCHANGED memoria
  <2>1. NotteSana(S, V) /\ Eredita(S, T) /\ W = V
    BY <1>1, PassoNotteRighe DEF AutoSano, memoria
  <2> HIDE DEF S, T, V, W
  <2>2. NotteSana(T, W)
    BY <2>1, NotteAncora
  <2> QED
    BY <2>2 DEF T, W
<1>2. CASE Crollo /\ inAttesa' = Ognuna(<<>>)
  <2>1. S \in [Op -> Riga] /\ NotteSana(S, V)
    BY DEF AutoSano, RigheSane, Sane
  <2>2. \A o \in Op : \/ T[o] = S[o]
                      \/ T[o] = [S[o] EXCEPT !.presa = FALSE]
                      \/ T[o] = [S[o] EXCEPT !.lavoro = "nessuno", !.presa = FALSE]
    BY <1>2 DEF Crollo
  <2>3. W = <<>>
    BY <1>2 DEF Ognuna, Copie
  <2>4. Chi(<<>>) = {}
    BY EmptySeq DEF Chi
  <2> HIDE DEF S, T, V, W
  <2>5. Eredita(S, T)
    BY <2>1, <2>2, EreditaChiuse
  <2>6. NotteSana(T, W)
    BY <2>1, <2>3, <2>4, <2>5, NotteAncora
  <2> QED
    BY <2>6 DEF T, W
<1>3. CASE UNCHANGED tutte
  BY <1>3 DEF tutte
<1>4. ASSUME NEW k \in Copie, NEW H \in SUBSET Host \ {{}}, Giro(k, H)
      PROVE  NotteSana(righe', inAttesa'["server"])
  BY <1>4, PassoNotteGiro
<1>5. ASSUME NEW o \in Op, FineAutomatico(o) PROVE NotteSana(righe', inAttesa'["server"])
  BY <1>5, PassoNotteFine
<1> QED
  BY <1>1, <1>2, <1>3, <1>4, <1>5 DEF NextAuto

LEMMA NotteIniziale == InitAuto => NotteSana(righe, inAttesa["server"])
<1> SUFFICES ASSUME InitAuto PROVE NotteSana(righe, inAttesa["server"])
  OBVIOUS
<1>1. \A o \in Op : ~Rischio(righe[o])
  BY DEF InitAuto, Init, Assente, Rischio
<1>2. inAttesa["server"] = <<>> /\ Chi(<<>>) = {}
  BY EmptySeq DEF InitAuto, Ognuna, Copie, Chi
<1>3. ASSUME NEW h \in Host
      PROVE  Cardinality(Esposte(righe, h)) + InFila(inAttesa["server"], h) <= TentativiMax
  <2>1. Esposte(righe, h) = {}
    BY <1>1 DEF Esposte
  <2>2. Cardinality(Esposte(righe, h)) = 0 /\ InFila(inAttesa["server"], h) = 0
    BY <1>2, <2>1, FS_EmptySet DEF InFila
  <2> QED
    BY <2>2, ChocoAssumption
<1> QED
  BY <1>3 DEF NotteSana

LEMMA DiCheParlaLaNotte == NotteSana(righe, inAttesa["server"]) => NotteSiArrende
<1> SUFFICES ASSUME NotteSana(righe, inAttesa["server"]), NEW h \in Host
             PROVE  LET B == {o \in Op : righe[o].host = h /\ righe[o].azione = "bootstrap"}
                        F == {o \in B : /\ righe[o].auto /\ righe[o].copia = "server"
                                        /\ righe[o].stato = "failed"
                                        /\ \A x \in B : ~righe[x].auto => x < o}
                    IN  Cardinality(F) <= TentativiMax
  BY DEF NotteSiArrende
<1> DEFINE B == {o \in Op : righe[o].host = h /\ righe[o].azione = "bootstrap"}
           F == {o \in B : /\ righe[o].auto /\ righe[o].copia = "server"
                           /\ righe[o].stato = "failed"
                           /\ \A x \in B : ~righe[x].auto => x < o}
           E == Esposte(righe, h)
<1>1. F \subseteq E
  BY DEF Esposte, Rischio, Ripresa
<1>2. IsFiniteSet(E) /\ Cardinality(E) \in Nat
  BY EsposteContate
<1>3. Cardinality(E) + InFila(inAttesa["server"], h) <= TentativiMax
  BY DEF NotteSana
<1>4. InFila(inAttesa["server"], h) \in Nat
  BY DEF InFila
<1> HIDE DEF F, E
<1>5. Cardinality(F) <= Cardinality(E) /\ Cardinality(F) \in Nat
  BY <1>1, <1>2, FS_Subset, FS_CardinalityType
<1>6. Cardinality(F) <= TentativiMax
  BY <1>2, <1>3, <1>4, <1>5, ChocoAssumption
<1> QED
  BY <1>6 DEF F

\* Seats and locks of each copy are those of the bootstraps that exist in it,
\* through every order of rounds of the two copies, endings, requests, restarts,
\* connections closed under a coroutine and rows recovered by the other copy
\* (choco-automatico.ts:137-218): the inductive invariant.
THEOREM PostiSempreSani == SafeSpecAuto => []AutoSano
BY AutoIniziale, PassoAuto, PTL DEF SafeSpecAuto, AvanzaAuto

\* Types, seats and locks of each copy: no ending loses a seat or gives it twice,
\* nobody waits beside a free seat of its copy, a copy locks a host exactly while
\* it waits or is being installed there, and once.
THEOREM PostiELucchetti == SafeSpecAuto => []AutoInv
BY PostiSempreSani, DiCheParlaAuto, PTL

\* Two commands that wait for their host are never in flight on it together
\* (executor.ts, waitForHostFree), be they of the admin, of the night or of the
\* credentials: what the copies share to exclude each other is the table alone.
THEOREM UnoPerHost == SafeSpecAuto => []UnoAllaVolta
BY PostiSempreSani, DiCheParlaAuto, PTL

\* A queued row whose copy has the database open has a live coroutine that waits:
\* closings and openings of either copy leave none behind.
THEOREM CodaServita == SafeSpecAuto => []CodaHaChiLaServe
BY PostiSempreSani, DiCheParlaAuto, PTL

\* What went well stays so, and so does what failed once no coroutine holds the
\* row: no recovery of either copy, no coroutine that lost its connection, no
\* restart and no cancel writes it again.
THEOREM EsitoNonCambia == SafeSpecAuto => EsitoDefinitivo
<1>1. AvanzaAuto => [\A o \in Op :
                        righe[o].stato = "success" \/ (righe[o].stato = "failed" /\ ~righe[o].presa)
                          => righe'[o].stato = righe[o].stato]_vars
  BY DEF AvanzaAuto, Tenuti, Conclusa
<1> QED
  BY <1>1, PostiSempreSani, PassoAuto, PTL DEF SafeSpecAuto, EsitoDefinitivo

\* The night gives up (choco-automatico.ts:24-26): since the last bootstrap of an admin
\* its own that failed on a host are never more than TENTATIVI_NOTTURNI_MAX.  Those
\* that still may fail count from the moment the host is taken, in the queue or
\* with a row, also when the row is cancelled or lost under its coroutine.
THEOREM NotteLimitata == SafeSpecAuto => []NotteSiArrende
<1>1. InitAuto => AutoSano /\ NotteSana(righe, inAttesa["server"])
  BY AutoIniziale, NotteIniziale
<1>2. AutoSano /\ NotteSana(righe, inAttesa["server"]) /\ [NextAuto]_tutte
        => AutoSano' /\ NotteSana(righe, inAttesa["server"])'
  BY PassoAuto, PassoNotte DEF AvanzaAuto
<1> QED
  BY <1>1, <1>2, DiCheParlaLaNotte, PTL DEF SafeSpecAuto

=============================================================================
