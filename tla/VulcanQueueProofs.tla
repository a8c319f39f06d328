--------------------------- MODULE VulcanQueueProofs ---------------------------
(***************************************************************************)
(* VulcanQueue for every number of inventories, exports, tokens, tries and *)
(* rows in a round: rows, bodies and takings agree, a suspended token is   *)
(* silent, what the table says of an export is what happened to it; and    *)
(* the whole implements Outbox, so that a row whose answer came back is    *)
(* never sent again.                                                       *)
(*                                                                         *)
(* The inductive invariant has four parts, each stated of the state it     *)
(* speaks of: the table beside the history, the step that is at an await,  *)
(* the rows of that step, and the types of the rest.                       *)
(***************************************************************************)
EXTENDS VulcanQueue, SequenceTheorems, TLAPS

Riga == [stato : Stati, corpo : BOOLEAN, tentativi : 0..MaxTentativi,
         attesa : BOOLEAN, presa : BOOLEAN]
Giro == [pc : {"fuori", "ping", "volo", "battito"},
         token : Gettoni \union {Nessuno}, inVolo : Corpi \union {Nessuno},
         restanti : SUBSET Corpi, arrivato : BOOLEAN]
Lavori == {"giro", "battito", "inventario", "rimetti"}

\* A row by itself.
RigaSana(r) ==
    /\ r \in Riga
    /\ r.stato = "in_attesa" => r.tentativi < MaxTentativi
    /\ r.corpo <=> r.stato \in {"in_attesa", "fallito"}

\* The row r of the body c, beside the bodies received, confirmed and refused.
RigaVera(c, r, ric, conf, rif) ==
    /\ RigaSana(r)
    /\ c \in Ad => /\ r.stato = "inviato" => c \in ric
                   /\ r.stato = "scartato" => c \in rif
                   /\ r.stato # "superato"
    /\ c \in conf => r.stato = "inviato"

TabellaSana(C, ric, conf, rif) ==
    /\ C \in [Corpi -> Riga]
    /\ ric \subseteq Corpi /\ conf \subseteq Corpi /\ rif \subseteq Corpi
    /\ \A c \in Corpi : RigaVera(c, C[c], ric, conf, rif)

\* The step that is at an await has a token that is not the suspended one, and
\* rows only if it is a round.
GiroSano(g, sosp, p) ==
    /\ g \in Giro
    /\ p \in Seq(Lavori)
    /\ g.pc # "volo" => g.inVolo = Nessuno /\ g.restanti = {}
    /\ g.pc # "fuori" => g.token \in Gettoni /\ sosp # g.token /\ p # <<>>

\* The rows of a round: they wait until it has written them, whatever enters the
\* queue in the meantime, and nobody else holds a row.
RigheDelGiro(C, g, ric, orf) ==
    /\ \A c \in Corpi : C[c].presa => c \in g.restanti \union {g.inVolo} \union orf
    /\ g.pc = "volo" =>
          /\ g.inVolo \in Corpi /\ g.inVolo \notin g.restanti
          /\ \A c \in g.restanti \union {g.inVolo} : C[c].stato = "in_attesa"
    /\ g.arrivato => g.inVolo \in ric

Resto ==
    /\ sospeso \in Gettoni \union {Nessuno}
    /\ gettone \in Gettoni \union {Nessuno}
    /\ ping \in Gettoni \union {Nessuno}
    /\ foto \in 0..NInventari
    /\ orfane \subseteq Corpi

\* The inductive invariant.
CodaSana ==
    /\ TabellaSana(coda, ricevuti, confermati, rifiutati)
    /\ GiroSano(giro, sospeso, passi)
    /\ RigheDelGiro(coda, giro, ricevuti, orfane)
    /\ Resto

LEMMA DiCosaParla ==
    CodaSana => QueueInv /\ SospesoTace /\ EsitoVero
<1> SUFFICES ASSUME CodaSana PROVE QueueInv /\ SospesoTace /\ EsitoVero
  OBVIOUS
<1> USE DEF CodaSana, TabellaSana, RigaVera, RigaSana
<1>1. TypeOK
  BY DEF TypeOK, GiroSano, Giro, Lavori, Resto, Riga
<1>2. CorpoFincheServe
  BY DEF CorpoFincheServe
<1>3. PreseDelGiro
  <2>1. \A c \in Corpi : c # Nessuno
    BY QueueAssumption DEF Corpi, Inventari
  <2> QED
    BY <2>1 DEF RigheDelGiro, PreseDelGiro, Presa, DelGiro
<1>4. SospesoTace
  BY DEF GiroSano, SospesoTace
<1>5. EsitoVero
  BY DEF EsitoVero, Corpi
<1> QED
  BY <1>1, <1>2, <1>3, <1>4, <1>5 DEF QueueInv

-----------------------------------------------------------------------------
(* The rows that the steps write                                           *)

LEMMA FuoriSana ==
    ASSUME NEW x \in {"assente", "inviato", "scartato", "superato"}
    PROVE  RigaSana(Fuori(x)) /\ Fuori(x).stato = x /\ Fuori(x).presa = FALSE
BY QueueAssumption DEF RigaSana, Fuori, Riga, Stati

LEMMA NuovaSana ==
    RigaSana(Nuova) /\ Nuova.stato = "in_attesa" /\ Nuova.presa = FALSE
BY QueueAssumption DEF RigaSana, Nuova, Riga, Stati

\* segnaRitento: the row waits again, with a try less, or has failed.
LEMMA RitentoSano ==
    ASSUME NEW r, RigaSana(r), r.stato = "in_attesa"
    PROVE  /\ RigaSana(DopoRitento(r))
           /\ DopoRitento(r).stato \in {"in_attesa", "fallito"}
           /\ DopoRitento(r).presa = FALSE
<1> USE QueueAssumption DEF RigaSana, Riga, Stati
<1>1. CASE r.tentativi + 1 >= MaxTentativi
  <2>1. DopoRitento(r) = [r EXCEPT !.stato = "fallito", !.tentativi = MaxTentativi, !.presa = FALSE]
    BY <1>1 DEF DopoRitento
  <2>2. MaxTentativi \in 0..MaxTentativi /\ "fallito" \in Stati
    OBVIOUS
  <2>3. /\ DopoRitento(r) \in Riga /\ DopoRitento(r).stato = "fallito"
        /\ DopoRitento(r).corpo = r.corpo /\ DopoRitento(r).presa = FALSE
    BY <2>1, <2>2
  <2>4. r.corpo
    OBVIOUS
  <2> QED
    BY <2>3, <2>4
<1>2. CASE ~(r.tentativi + 1 >= MaxTentativi)
  <2>1. DopoRitento(r) = [r EXCEPT !.tentativi = r.tentativi + 1, !.attesa = TRUE, !.presa = FALSE]
    BY <1>2 DEF DopoRitento
  <2>2. r.tentativi + 1 \in 0..MaxTentativi /\ r.tentativi + 1 < MaxTentativi
    BY <1>2
  <2> QED
    BY <2>1, <2>2
<1> QED
  BY <1>1, <1>2

\* A taking or a release.
LEMMA PresaSana ==
    ASSUME NEW r, RigaSana(r), NEW b \in BOOLEAN
    PROVE  /\ RigaSana([r EXCEPT !.presa = b])
           /\ [r EXCEPT !.presa = b].stato = r.stato
           /\ [r EXCEPT !.presa = b].presa = b
BY DEF RigaSana, Riga

LEMMA AttesaSana ==
    ASSUME NEW r, RigaSana(r)
    PROVE  /\ RigaSana([r EXCEPT !.attesa = FALSE])
           /\ [r EXCEPT !.attesa = FALSE].stato = r.stato
           /\ [r EXCEPT !.attesa = FALSE].presa = r.presa
BY DEF RigaSana, Riga

\* A row with the state it had says what it said.
LEMMA StessoStato ==
    ASSUME NEW c, NEW r, NEW ric, NEW conf, NEW rif, RigaVera(c, r, ric, conf, rif),
           NEW s, RigaSana(s), s.stato = r.stato
    PROVE  RigaVera(c, s, ric, conf, rif)
BY DEF RigaVera

\* A table is right when its rows are.
LEMMA TabellaDalleRighe ==
    ASSUME NEW C, NEW ric \in SUBSET Corpi, NEW conf \in SUBSET Corpi, NEW rif \in SUBSET Corpi,
           C = [c \in Corpi |-> C[c]],
           \A c \in Corpi : RigaVera(c, C[c], ric, conf, rif)
    PROVE  TabellaSana(C, ric, conf, rif)
BY DEF TabellaSana, RigaVera, RigaSana

\* accoda: the row of c, and the others.
LEMMA AccodataSana ==
    ASSUME TabellaSana(coda, ricevuti, confermati, rifiutati), NEW c \in Corpi,
           NEW b \in Corpi
    PROVE  /\ RigaVera(b, Accodata(c)[b], ricevuti, confermati, rifiutati)
           /\ Accodata(c)[b].presa => coda[b].presa
           /\ c \in Ad /\ coda[b].stato = "in_attesa" => Accodata(c)[b].stato = "in_attesa"
<1> USE QueueAssumption
<1>1. RigaVera(b, coda[b], ricevuti, confermati, rifiutati)
  BY DEF TabellaSana
<1>2. CASE Accodata(c)[b] = coda[b]
  BY <1>1, <1>2
<1>3. CASE /\ coda[c].stato \in {"assente", "scartato"} /\ b = c
           /\ Accodata(c)[b] = Nuova
  <2>1. b \notin confermati
    BY <1>1, <1>3 DEF RigaVera
  <2> QED
    BY <1>3, <2>1, NuovaSana DEF RigaVera
<1>4. CASE /\ c \in Inventari /\ b \in Inventari /\ coda[b].stato = "in_attesa"
           /\ Accodata(c)[b] = Fuori("superato")
  <2>1. b \notin confermati /\ b \notin Ad /\ c \notin Ad
    BY <1>1, <1>4 DEF RigaVera, Inventari
  <2>2. RigaSana(Fuori("superato")) /\ Fuori("superato").presa = FALSE
    BY FuoriSana
  <2> QED
    BY <1>4, <2>1, <2>2 DEF RigaVera
<1>5. coda[c].stato \in Stati
  BY DEF TabellaSana, Riga
<1> QED
  BY <1>2, <1>3, <1>4, <1>5 DEF Accodata, Stati

-----------------------------------------------------------------------------
(* Where a step stops                                                      *)

\* At its end: no token, no rows.
LEMMA Riposa ==
    ASSUME NEW p \in Seq(Lavori), NEW sosp
    PROVE  /\ GiroSano(Riposo, sosp, p)
           /\ p # <<>> => GiroSano(Riposo, sosp, Tail(p))
<1>1. Riposo \in Giro /\ Riposo.pc = "fuori" /\ Riposo.inVolo = Nessuno /\ Riposo.restanti = {}
  BY DEF Riposo, Giro
<1>2. p # <<>> => Tail(p) \in Seq(Lavori)
  BY HeadTailProperties
<1> HIDE DEF Riposo
<1> QED
  BY <1>1, <1>2 DEF GiroSano

LEMMA NessunaDelGiro ==
    ASSUME NEW C, NEW ric, NEW orf, \A c \in Corpi : C[c].presa => c \in orf
    PROVE  RigheDelGiro(C, Riposo, ric, orf)
BY DEF RigheDelGiro, Riposo

\* When no round is at an await all the takings are of rounds that died.
LEMMA SenzaGiro ==
    CodaSana /\ giro.pc # "volo" => \A c \in Corpi : coda[c].presa => c \in orfane
<1> SUFFICES ASSUME CodaSana, giro.pc # "volo", NEW c \in Corpi, coda[c].presa
             PROVE  c \in orfane
  OBVIOUS
<1>1. c # Nessuno
  BY QueueAssumption DEF Corpi, Inventari
<1>2. giro.inVolo = Nessuno /\ giro.restanti = {}
  BY DEF CodaSana, GiroSano
<1> QED
  BY <1>1, <1>2 DEF CodaSana, RigheDelGiro

\* At the ping or at the heartbeat.
LEMMA AlPing ==
    ASSUME NEW x \in {"ping", "battito"}, NEW t \in Gettoni, NEW sosp, sosp # t,
           NEW p \in Seq(Lavori), p # <<>>,
           NEW C, NEW ric, NEW orf, \A c \in Corpi : C[c].presa => c \in orf,
           NEW g, g = [Riposo EXCEPT !.pc = x, !.token = t]
    PROVE  GiroSano(g, sosp, p) /\ RigheDelGiro(C, g, ric, orf)
<1>1. /\ g.pc = x /\ g.token = t /\ g.inVolo = Nessuno /\ g.restanti = {} /\ g.arrivato = FALSE
      /\ g \in Giro
  BY DEF Riposo, Giro
<1> QED
  BY <1>1 DEF GiroSano, RigheDelGiro

\* prendiProssimi: the first row of those taken is in flight.
LEMMA PrimaInVolo ==
    ASSUME NEW t \in Gettoni, NEW sosp, sosp # t, NEW p \in Seq(Lavori), p # <<>>,
           NEW S \in SUBSET Corpi, NEW c \in S,
           NEW C, NEW ric, NEW orf, \A b \in Corpi : C[b].presa => b \in S \union orf,
           \A b \in S : C[b].stato = "in_attesa",
           NEW g, g = [Riposo EXCEPT !.pc = "volo", !.token = t, !.inVolo = c, !.restanti = S \ {c}]
    PROVE  GiroSano(g, sosp, p) /\ RigheDelGiro(C, g, ric, orf)
<1>1. /\ g.pc = "volo" /\ g.token = t /\ g.inVolo = c /\ g.restanti = S \ {c}
      /\ g.arrivato = FALSE
      /\ g \in Giro
  BY DEF Riposo, Giro
<1> QED
  BY <1>1 DEF GiroSano, RigheDelGiro

\* What a step that stops at the ping, at the heartbeat, in flight or at its end
\* leaves behind.
Fermata(sosp) ==
    /\ TabellaSana(coda', ricevuti, confermati, rifiutati)
    /\ GiroSano(giro', sosp, passi')
    /\ RigheDelGiro(coda', giro', ricevuti, orfane)

\* After prepara.
LEMMA ProcedeSano ==
    ASSUME CodaSana, giro.pc # "volo", passi # <<>>, NEW t \in Gettoni, Procede(t),
           NEW sosp, sosp # t
    PROVE  Fermata(sosp) /\ orfane' = orfane
<1>1. /\ TabellaSana(coda, ricevuti, confermati, rifiutati)
      /\ passi \in Seq(Lavori)
      /\ \A c \in Corpi : coda[c].presa => c \in orfane
  BY SenzaGiro DEF CodaSana, GiroSano
<1>2. CASE Head(passi) # "giro"
  <2>1. /\ giro' = [Riposo EXCEPT !.pc = "battito", !.token = t]
        /\ coda' = coda /\ passi' = passi /\ orfane' = orfane
    BY <1>2 DEF Procede
  <2>2. GiroSano(giro', sosp, passi') /\ RigheDelGiro(coda', giro', ricevuti, orfane)
    BY <1>1, <2>1, AlPing
  <2> QED
    BY <1>1, <2>1, <2>2 DEF Fermata
<1>3. CASE Head(passi) = "giro"
  <2> PICK S \in SUBSET Scadute : PrendiProssimi(t, S)
    BY <1>3 DEF Procede
  <2>1. CASE S = {}
    <3>1. /\ coda' = coda /\ orfane' = orfane /\ giro' = Riposo /\ passi' = Tail(passi)
      BY <2>1 DEF PrendiProssimi, FinePasso
    <3>2. GiroSano(giro', sosp, passi')
      BY <1>1, <3>1, Riposa
    <3>3. RigheDelGiro(coda', giro', ricevuti, orfane)
      BY <1>1, <3>1, NessunaDelGiro
    <3> QED
      BY <1>1, <3>1, <3>2, <3>3 DEF Fermata
  <2>2. CASE S # {}
    <3>1. /\ coda' = [c \in Corpi |-> IF c \in S THEN [coda[c] EXCEPT !.presa = TRUE] ELSE coda[c]]
          /\ passi' = passi /\ orfane' = orfane
      BY <2>2 DEF PrendiProssimi
    <3>2. PICK c \in S : giro' = [Riposo EXCEPT !.pc = "volo", !.token = t,
                                      !.inVolo = c, !.restanti = S \ {c}]
      BY <2>2 DEF PrendiProssimi
    <3>3. S \in SUBSET Corpi /\ \A b \in S : coda[b].stato = "in_attesa"
      BY DEF Scadute
    <3>4. ASSUME NEW b \in Corpi
          PROVE  /\ RigaVera(b, coda'[b], ricevuti, confermati, rifiutati)
                 /\ coda'[b].stato = coda[b].stato
                 /\ coda'[b].presa => b \in S \union orfane
      <4>1. RigaVera(b, coda[b], ricevuti, confermati, rifiutati) /\ RigaSana(coda[b])
        BY <1>1 DEF TabellaSana, RigaVera
      <4>2. CASE b \in S
        <5>1. coda'[b] = [coda[b] EXCEPT !.presa = TRUE]
          BY <3>1, <4>2
        <5>2. RigaSana(coda'[b]) /\ coda'[b].stato = coda[b].stato
          BY <4>1, <5>1, PresaSana
        <5> QED
          BY <4>1, <4>2, <5>2, StessoStato
      <4>3. CASE b \notin S
        BY <1>1, <3>1, <4>1, <4>3
      <4> QED
        BY <4>2, <4>3
    <3>5. coda' \in [Corpi -> Riga]
      <4>1. \A b \in Corpi : coda'[b] \in Riga
        BY <3>4 DEF RigaVera, RigaSana
      <4> QED
        BY <3>1, <4>1
    <3>6. TabellaSana(coda', ricevuti, confermati, rifiutati)
      BY <1>1, <3>4, <3>5 DEF TabellaSana
    <3>7. \A b \in Corpi : coda'[b].presa => b \in S \union orfane
      BY <3>4
    <3>8. \A b \in S : coda'[b].stato = "in_attesa"
      BY <3>3, <3>4
    <3>9. GiroSano(giro', sosp, passi') /\ RigheDelGiro(coda', giro', ricevuti, orfane)
      BY <1>1, <3>1, <3>2, <3>3, <3>7, <3>8, PrimaInVolo
    <3> QED
      BY <3>1, <3>6, <3>9 DEF Fermata
  <2> QED
    BY <2>1, <2>2
<1> QED
  BY <1>2, <1>3

-----------------------------------------------------------------------------
(* Entering the queue, the jobs                                            *)

LEMMA PassoAccodaAd ==
    ASSUME CodaSana, NEW c \in Ad, AccodaAd(c) PROVE CodaSana'
<1>1. c \in Corpi
  BY DEF Corpi
<1>2. TabellaSana(coda, ricevuti, confermati, rifiutati)
  BY DEF CodaSana
<1>3. /\ coda' = Accodata(c) /\ giro' = giro /\ sospeso' = sospeso /\ passi' = passi
      /\ gettone' = gettone /\ ping' = ping /\ foto' = foto
      /\ ricevuti' = ricevuti /\ confermati' = confermati /\ rifiutati' = rifiutati
      /\ orfane' = orfane
  BY DEF AccodaAd, storia
<1>4. ASSUME NEW b \in Corpi
      PROVE  /\ RigaVera(b, coda'[b], ricevuti, confermati, rifiutati)
             /\ coda'[b].presa => coda[b].presa
             /\ coda[b].stato = "in_attesa" => coda'[b].stato = "in_attesa"
  BY <1>1, <1>2, <1>3, AccodataSana
<1>5. coda' \in [Corpi -> Riga]
  <2>1. \A b \in Corpi : coda'[b] \in Riga
    BY <1>4 DEF RigaVera, RigaSana
  <2>2. coda' = [b \in Corpi |-> coda'[b]]
    BY <1>2, <1>3 DEF Accodata, TabellaSana
  <2> QED
    BY <2>1, <2>2
<1>6. TabellaSana(coda', ricevuti, confermati, rifiutati)
  BY <1>2, <1>4, <1>5 DEF TabellaSana
<1>7. RigheDelGiro(coda', giro, ricevuti, orfane)
  <2>1. RigheDelGiro(coda, giro, ricevuti, orfane) /\ giro.restanti \subseteq Corpi
    BY DEF CodaSana, GiroSano, Giro
  <2> QED
    BY <1>4, <2>1 DEF RigheDelGiro
<1> QED
  BY <1>3, <1>6, <1>7 DEF CodaSana, Resto

LEMMA PassoComincia ==
    ASSUME CodaSana, NEW p \in Programmi, Comincia(p) PROVE CodaSana'
<1>1. p \in Seq(Lavori) /\ p # <<>>
  <2>1. /\ <<"giro">> \in Seq(Lavori) /\ <<"giro">> # <<>>
        /\ <<"inventario">> \in Seq(Lavori) /\ <<"inventario">> # <<>>
        /\ <<"battito">> \in Seq(Lavori) /\ <<"battito">> # <<>>
    BY DEF Lavori
  <2>2. <<"inventario", "battito">> \in Seq(Lavori) /\ <<"inventario", "battito">> # <<>>
    BY DEF Lavori
  <2>3. /\ <<"inventario", "rimetti", "giro", "battito">> \in Seq(Lavori)
        /\ <<"inventario", "rimetti", "giro", "battito">> # <<>>
    BY DEF Lavori
  <2> QED
    BY <2>1, <2>2, <2>3 DEF Programmi
<1>2. GiroSano(giro, sospeso, p)
  BY <1>1 DEF CodaSana, GiroSano, Comincia
<1> QED
  BY <1>2 DEF CodaSana, Comincia, Resto, storia

\* A step that ends and leaves the table as it is.
LEMMA Finisce ==
    ASSUME CodaSana, giro.pc # "volo", passi # <<>>, FinePasso,
           UNCHANGED <<coda, gettone, foto, storia>>,
           sospeso' \in Gettoni \union {Nessuno}, ping' \in Gettoni \union {Nessuno}
    PROVE  CodaSana'
<1>1. \A c \in Corpi : coda[c].presa => c \in orfane
  BY SenzaGiro
<1>2. passi \in Seq(Lavori) /\ passi' = Tail(passi) /\ giro' = Riposo
  BY DEF CodaSana, GiroSano, FinePasso
<1>3. GiroSano(giro', sospeso', passi')
  BY <1>2, Riposa
<1>4. RigheDelGiro(coda, giro', ricevuti, orfane)
  BY <1>1, <1>2, NessunaDelGiro
<1> QED
  BY <1>3, <1>4 DEF CodaSana, Resto, storia

LEMMA PassoInventario ==
    ASSUME CodaSana, NEW V \in SUBSET {c \in Corpi : coda[c].stato \in Uscite},
           AccodaInventario(V)
    PROVE  CodaSana'
<1> USE QueueAssumption
<1>1. /\ TabellaSana(coda, ricevuti, confermati, rifiutati) /\ Resto
      /\ giro.pc = "fuori" /\ passi # <<>> /\ passi \in Seq(Lavori)
      /\ \A c \in Corpi : coda[c].presa => c \in orfane
  BY SenzaGiro DEF CodaSana, GiroSano, AccodaInventario, Passo
<1>2. /\ foto' = foto + 1 /\ foto' \in 0..NInventari /\ foto + 1 \in Corpi
      /\ ricevuti' = ricevuti \ V /\ confermati' = confermati \ V /\ rifiutati' = rifiutati \ V
      /\ orfane' = {c \in orfane : coda'[c].presa}
      /\ giro' = Riposo /\ passi' = Tail(passi)
      /\ sospeso' = sospeso /\ gettone' = gettone /\ ping' = ping
  BY <1>1 DEF AccodaInventario, FinePasso, Resto, Corpi, Inventari
<1>3. coda' = [c \in Corpi |-> IF c \in V THEN Fuori("assente") ELSE Accodata(foto + 1)[c]]
  BY DEF AccodaInventario
\* What the history says of the rows deleted is deleted with them.
<1>4. ASSUME NEW b \in Corpi
      PROVE  /\ RigaVera(b, coda'[b], ricevuti', confermati', rifiutati')
             /\ coda'[b].presa => coda[b].presa
  <2>1. CASE b \in V
    <3>1. coda'[b] = Fuori("assente")
      BY <1>3, <2>1
    <3>2. RigaSana(coda'[b]) /\ coda'[b].stato = "assente" /\ coda'[b].presa = FALSE
      BY <3>1, FuoriSana
    <3> QED
      BY <1>2, <2>1, <3>2 DEF RigaVera
  <2>2. CASE b \notin V
    <3>1. coda'[b] = Accodata(foto + 1)[b]
      BY <1>3, <2>2
    <3>2. /\ RigaVera(b, coda'[b], ricevuti, confermati, rifiutati)
          /\ coda'[b].presa => coda[b].presa
      BY <1>1, <1>2, <3>1, AccodataSana
    <3> QED
      BY <1>2, <2>2, <3>2 DEF RigaVera
  <2> QED
    BY <2>1, <2>2
<1>5. coda' \in [Corpi -> Riga]
  <2>1. \A b \in Corpi : coda'[b] \in Riga
    BY <1>4 DEF RigaVera, RigaSana
  <2> QED
    BY <1>3, <2>1
<1>6. TabellaSana(coda', ricevuti', confermati', rifiutati')
  BY <1>1, <1>2, <1>4, <1>5 DEF TabellaSana
<1>7. GiroSano(giro', sospeso', passi')
  BY <1>1, <1>2, Riposa
<1>8. \A c \in Corpi : coda'[c].presa => c \in orfane'
  BY <1>1, <1>2, <1>4
<1>9. RigheDelGiro(coda', giro', ricevuti', orfane')
  BY <1>2, <1>8, NessunaDelGiro
<1> QED
  BY <1>1, <1>2, <1>6, <1>7, <1>9 DEF CodaSana, Resto

LEMMA PassoRimetti ==
    ASSUME CodaSana, RimettiFalliti PROVE CodaSana'
<1>1. /\ TabellaSana(coda, ricevuti, confermati, rifiutati) /\ Resto
      /\ giro.pc = "fuori" /\ passi # <<>> /\ passi \in Seq(Lavori)
      /\ \A c \in Corpi : coda[c].presa => c \in orfane
  BY SenzaGiro DEF CodaSana, GiroSano, RimettiFalliti, Passo
<1>2. /\ giro' = Riposo /\ passi' = Tail(passi)
      /\ coda' = [c \in Corpi |-> IF coda[c].stato = "fallito"
                                    THEN [Nuova EXCEPT !.corpo = coda[c].corpo] ELSE coda[c]]
  BY DEF RimettiFalliti, FinePasso
<1>3. ASSUME NEW b \in Corpi
      PROVE  /\ RigaVera(b, coda'[b], ricevuti, confermati, rifiutati)
             /\ coda'[b].presa => coda[b].presa
  <2>1. RigaVera(b, coda[b], ricevuti, confermati, rifiutati)
    BY <1>1 DEF TabellaSana
  <2>2. CASE coda[b].stato = "fallito"
    <3>1. coda[b].corpo = TRUE /\ b \notin confermati
      BY <2>1, <2>2 DEF RigaVera, RigaSana, Riga
    <3>2. coda'[b] = Nuova
      BY <1>2, <2>2, <3>1 DEF Nuova
    <3> QED
      BY <3>1, <3>2, NuovaSana DEF RigaVera
  <2>3. CASE coda[b].stato # "fallito"
    BY <1>2, <2>1, <2>3
  <2> QED
    BY <2>2, <2>3
<1>4. coda' \in [Corpi -> Riga]
  <2>1. \A b \in Corpi : coda'[b] \in Riga
    BY <1>3 DEF RigaVera, RigaSana
  <2> QED
    BY <1>2, <2>1
<1>5. TabellaSana(coda', ricevuti, confermati, rifiutati)
  BY <1>1, <1>3, <1>4 DEF TabellaSana
<1>6. GiroSano(giro', sospeso, passi')
  BY <1>1, <1>2, Riposa
<1>7. \A c \in Corpi : coda'[c].presa => c \in orfane
  BY <1>1, <1>3
<1>8. RigheDelGiro(coda', giro', ricevuti, orfane)
  BY <1>2, <1>7, NessunaDelGiro
<1> QED
  BY <1>1, <1>5, <1>6, <1>8 DEF CodaSana, Resto, RimettiFalliti, storia

-----------------------------------------------------------------------------
(* prepara                                                                 *)

LEMMA PassoParte ==
    ASSUME CodaSana, NEW b \in BOOLEAN, Parte(b) PROVE CodaSana'
<1> USE QueueAssumption
<1>1. /\ giro.pc = "fuori" /\ passi # <<>> /\ passi \in Seq(Lavori) /\ gettone \in Gettoni
      /\ Nessuno # gettone /\ Resto
      /\ TabellaSana(coda, ricevuti, confermati, rifiutati)
      /\ \A c \in Corpi : coda[c].presa => c \in orfane
  BY SenzaGiro DEF CodaSana, GiroSano, Parte, Passo, Resto
<1>2. /\ sospeso' = Nessuno /\ gettone' = gettone /\ foto' = foto
      /\ ricevuti' = ricevuti /\ confermati' = confermati /\ rifiutati' = rifiutati
      /\ ping' \in Gettoni \union {Nessuno}
  BY <1>1 DEF Parte, Resto
<1>3. \/ Procede(gettone)
      \/ /\ giro' = [Riposo EXCEPT !.pc = "ping", !.token = gettone]
         /\ coda' = coda /\ passi' = passi /\ orfane' = orfane
  BY DEF Parte
<1>4. Fermata(Nessuno) /\ orfane' = orfane
  <2>1. CASE Procede(gettone)
    BY <1>1, <2>1, ProcedeSano
  <2>2. CASE /\ giro' = [Riposo EXCEPT !.pc = "ping", !.token = gettone]
             /\ coda' = coda /\ passi' = passi /\ orfane' = orfane
    <3>1. GiroSano(giro', Nessuno, passi') /\ RigheDelGiro(coda', giro', ricevuti, orfane)
      BY <1>1, <2>2, AlPing
    <3> QED
      BY <1>1, <2>2, <3>1 DEF Fermata
  <2> QED
    BY <1>3, <2>1, <2>2
<1> QED
  BY <1>1, <1>2, <1>4 DEF CodaSana, Fermata, Resto

LEMMA PassoPingProsegue ==
    ASSUME CodaSana, NEW b \in BOOLEAN, PingProsegue(b) PROVE CodaSana'
<1>1. /\ giro.pc = "ping" /\ passi # <<>> /\ giro.token \in Gettoni
      /\ sospeso # giro.token /\ Procede(giro.token)
  BY DEF CodaSana, GiroSano, PingProsegue
<1>2. Fermata(sospeso) /\ orfane' = orfane
  BY <1>1, ProcedeSano
<1>3. /\ sospeso' = sospeso /\ gettone' = gettone /\ foto' = foto
      /\ ricevuti' = ricevuti /\ confermati' = confermati /\ rifiutati' = rifiutati
      /\ ping' \in Gettoni \union {Nessuno}
  BY <1>1 DEF PingProsegue
<1> QED
  BY <1>2, <1>3 DEF CodaSana, Fermata, Resto

\* The steps that end without a word to the table.
LEMMA PassoFinisce ==
    ASSUME CodaSana,
           InventarioNonAccodato \/ NonParte \/ PingErrore \/ PingOBattitoSospende \/ BattitoFinisce
    PROVE  CodaSana'
<1>1. /\ sospeso \in Gettoni \union {Nessuno} /\ ping \in Gettoni \union {Nessuno}
      /\ giro.pc # "fuori" => giro.token \in Gettoni /\ passi # <<>>
  BY DEF CodaSana, Resto, GiroSano
<1>2. CASE InventarioNonAccodato
  BY <1>1, <1>2, Finisce DEF InventarioNonAccodato, Passo
<1>3. CASE NonParte
  BY <1>1, <1>3, Finisce DEF NonParte, Passo
<1>4. CASE PingErrore
  BY <1>1, <1>4, Finisce DEF PingErrore
<1>5. CASE PingOBattitoSospende
  BY <1>1, <1>5, Finisce DEF PingOBattitoSospende, Sospendi
<1>6. CASE BattitoFinisce
  BY <1>1, <1>6, Finisce DEF BattitoFinisce
<1> QED
  BY <1>2, <1>3, <1>4, <1>5, <1>6

-----------------------------------------------------------------------------
(* giroCoda: the answers                                                   *)

\* The row in flight is written in the table C, nothing else is; it is held no more.
Scritta(C, ric, conf, rif) ==
    /\ C \in [Corpi -> Riga]
    /\ \A c \in Corpi \ {giro.inVolo} : C[c] = coda[c]
    /\ RigaVera(giro.inVolo, C[giro.inVolo], ric, conf, rif)
    /\ C[giro.inVolo].presa = FALSE

\* The history may only have learned of the row in flight.
Imparata(ric, conf, rif) ==
    /\ ric \subseteq Corpi /\ conf \subseteq Corpi /\ rif \subseteq Corpi
    /\ ricevuti \subseteq ric /\ rifiutati \subseteq rif
    /\ \A c \in Corpi \ {giro.inVolo} : c \in conf <=> c \in confermati

LEMMA ScrittaSana ==
    ASSUME CodaSana, NEW C, NEW ric, NEW conf, NEW rif,
           Scritta(C, ric, conf, rif), Imparata(ric, conf, rif)
    PROVE  TabellaSana(C, ric, conf, rif)
<1>1. ASSUME NEW c \in Corpi PROVE RigaVera(c, C[c], ric, conf, rif)
  <2>1. CASE c = giro.inVolo
    BY <2>1 DEF Scritta
  <2>2. CASE c # giro.inVolo
    <3>1. C[c] = coda[c] /\ RigaVera(c, coda[c], ricevuti, confermati, rifiutati)
      BY <2>2 DEF Scritta, CodaSana, TabellaSana
    <3>2. /\ c \in ricevuti => c \in ric
          /\ c \in rifiutati => c \in rif
          /\ c \in conf <=> c \in confermati
      BY <2>2 DEF Imparata
    <3> QED
      BY <3>1, <3>2 DEF RigaVera
  <2> QED
    BY <2>1, <2>2
<1> QED
  BY <1>1 DEF TabellaSana, Scritta, Imparata

\* rilascia: the rows of R are held no more, and that is all.
LEMMA RilascioSano ==
    ASSUME NEW C, NEW ric, NEW conf, NEW rif, TabellaSana(C, ric, conf, rif),
           NEW R, NEW T, T = Rilasciate(C, R)
    PROVE  /\ TabellaSana(T, ric, conf, rif)
           /\ \A c \in Corpi : T[c].presa => C[c].presa /\ c \notin R
<1>1. ASSUME NEW c \in Corpi
      PROVE  /\ RigaVera(c, T[c], ric, conf, rif)
             /\ T[c].presa => C[c].presa /\ c \notin R
  <2>1. RigaVera(c, C[c], ric, conf, rif) /\ RigaSana(C[c])
    BY DEF TabellaSana, RigaVera
  <2>2. CASE c \in R
    <3>1. T[c] = [C[c] EXCEPT !.presa = FALSE]
      BY <2>2 DEF Rilasciate
    <3>2. RigaSana(T[c]) /\ T[c].stato = C[c].stato /\ T[c].presa = FALSE
      BY <2>1, <3>1, PresaSana
    <3> QED
      BY <2>1, <3>2, StessoStato
  <2>3. CASE c \notin R
    BY <2>1, <2>3 DEF Rilasciate
  <2> QED
    BY <2>2, <2>3
<1>2. T \in [Corpi -> Riga]
  <2>1. \A c \in Corpi : T[c] \in Riga
    BY <1>1 DEF RigaVera, RigaSana
  <2>2. T = [c \in Corpi |-> T[c]]
    BY DEF Rilasciate
  <2> QED
    BY <2>1, <2>2
<1> QED
  BY <1>1, <1>2 DEF TabellaSana

\* After an answer written in C: the next row is in flight, or the round is over
\* and holds none.
LEMMA ProssimaSana ==
    ASSUME CodaSana, giro.pc = "volo", NEW C, NEW ric, NEW conf, NEW rif,
           Scritta(C, ric, conf, rif), Imparata(ric, conf, rif), Prossima(C)
    PROVE  /\ TabellaSana(coda', ric, conf, rif)
           /\ GiroSano(giro', sospeso, passi')
           /\ RigheDelGiro(coda', giro', ric, orfane)
<1>1. /\ giro \in Giro /\ giro.inVolo \in Corpi /\ giro.inVolo \notin giro.restanti
      /\ giro.restanti \subseteq Corpi
      /\ giro.token \in Gettoni /\ sospeso # giro.token /\ passi # <<>> /\ passi \in Seq(Lavori)
      /\ \A c \in Corpi : coda[c].presa => c \in giro.restanti \union {giro.inVolo} \union orfane
      /\ \A c \in giro.restanti : coda[c].stato = "in_attesa"
  BY DEF CodaSana, GiroSano, RigheDelGiro, Giro
<1>2. TabellaSana(C, ric, conf, rif)
  BY ScrittaSana
<1>3. \A c \in Corpi : C[c].presa => c \in giro.restanti \union orfane
  BY <1>1 DEF Scritta
<1>4. CASE giro.restanti = {} /\ coda' = C /\ FinePasso
  <2>1. GiroSano(giro', sospeso, passi')
    BY <1>1, <1>4, Riposa DEF FinePasso
  <2>2. \A c \in Corpi : C[c].presa => c \in orfane
    BY <1>3, <1>4
  <2>3. RigheDelGiro(coda', giro', ric, orfane)
    BY <1>4, <2>2, NessunaDelGiro DEF FinePasso
  <2> QED
    BY <1>2, <1>4, <2>1, <2>3
<1>5. CASE coda' = Rilasciate(C, giro.restanti) /\ FinePasso
  <2> DEFINE T == coda'
  <2>1. T = Rilasciate(C, giro.restanti)
    BY <1>5
  <2> HIDE DEF T
  <2>2. /\ TabellaSana(T, ric, conf, rif)
        /\ \A c \in Corpi : T[c].presa => C[c].presa /\ c \notin giro.restanti
    BY <1>2, <2>1, RilascioSano
  <2>3. \A c \in Corpi : T[c].presa => c \in orfane
    BY <1>3, <2>2
  <2>4. RigheDelGiro(T, Riposo, ric, orfane)
    BY <2>3, NessunaDelGiro
  <2>5. GiroSano(giro', sospeso, passi')
    BY <1>1, <1>5, Riposa DEF FinePasso
  <2> QED
    BY <1>5, <2>2, <2>4, <2>5 DEF T, FinePasso
<1>6. ASSUME NEW c \in giro.restanti, coda' = C, passi' = passi,
             giro' = [giro EXCEPT !.inVolo = c, !.restanti = giro.restanti \ {c}, !.arrivato = FALSE]
      PROVE  /\ GiroSano(giro', sospeso, passi')
             /\ RigheDelGiro(coda', giro', ric, orfane)
  <2>1. /\ giro' \in Giro /\ giro'.pc = "volo" /\ giro'.token = giro.token /\ giro'.inVolo = c
        /\ giro'.restanti = giro.restanti \ {c} /\ giro'.arrivato = FALSE
    BY <1>1, <1>6 DEF Giro
  <2>2. GiroSano(giro', sospeso, passi')
    BY <1>1, <1>6, <2>1 DEF GiroSano
  <2>3. \A b \in giro.restanti : C[b].stato = "in_attesa"
    BY <1>1 DEF Scritta
  <2>4. RigheDelGiro(C, giro', ric, orfane)
    BY <1>1, <1>3, <2>1, <2>3 DEF RigheDelGiro
  <2> QED
    BY <1>6, <2>2, <2>4
<1> QED
  BY <1>2, <1>4, <1>5, <1>6 DEF Prossima

\* The row in flight still waits when its answer comes: nobody else moves it.
LEMMA RigaInVolo ==
    CodaSana /\ giro.pc = "volo" =>
       /\ InVolo = giro.inVolo /\ InVolo \in Corpi
       /\ RigaVera(InVolo, coda[InVolo], ricevuti, confermati, rifiutati)
       /\ RigaSana(coda[InVolo]) /\ coda[InVolo].stato = "in_attesa" /\ InVolo \notin confermati
       /\ coda \in [Corpi -> Riga]
       /\ ricevuti \subseteq Corpi /\ confermati \subseteq Corpi /\ rifiutati \subseteq Corpi
       /\ giro.arrivato => InVolo \in ricevuti
BY DEF CodaSana, RigheDelGiro, TabellaSana, RigaVera, InVolo

\* What one writing of the row in flight is, and what it must say.
LEMMA UnaScritta ==
    ASSUME CodaSana, giro.pc = "volo", NEW r, RigaSana(r), r.presa = FALSE,
           NEW ric, NEW conf, NEW rif, RigaVera(giro.inVolo, r, ric, conf, rif),
           NEW C, C = [coda EXCEPT ![giro.inVolo] = r]
    PROVE  Scritta(C, ric, conf, rif)
<1>1. coda \in [Corpi -> Riga] /\ giro.inVolo \in Corpi /\ r \in Riga
  BY RigaInVolo DEF RigaSana
<1>2. C \in [Corpi -> Riga] /\ C[giro.inVolo] = r /\ \A c \in Corpi \ {giro.inVolo} : C[c] = coda[c]
  BY <1>1
<1> QED
  BY <1>2 DEF Scritta

\* 200, 201.
LEMMA PassoInviato ==
    ASSUME CodaSana, RispostaInviato PROVE CodaSana'
<1> DEFINE r == Fuori("inviato")
           conf == confermati \union {giro.inVolo}
           C == [coda EXCEPT ![giro.inVolo] = r]
<1>1. giro.pc = "volo" /\ giro.arrivato
  BY DEF RispostaInviato
<1>2. /\ InVolo = giro.inVolo /\ giro.inVolo \in Corpi /\ giro.inVolo \in ricevuti
      /\ coda[giro.inVolo].stato = "in_attesa"
      /\ ricevuti \subseteq Corpi /\ confermati \subseteq Corpi /\ rifiutati \subseteq Corpi
  BY <1>1, RigaInVolo
<1>3. /\ Prossima(C) /\ confermati' = conf
      /\ sospeso' = sospeso /\ gettone' = gettone /\ ping' = ping /\ foto' = foto
      /\ ricevuti' = ricevuti /\ rifiutati' = rifiutati /\ orfane' = orfane
  BY <1>2 DEF RispostaInviato
<1>4. RigaSana(r) /\ r.stato = "inviato" /\ r.presa = FALSE
  BY FuoriSana
<1> HIDE DEF r
<1>5. RigaVera(giro.inVolo, r, ricevuti, conf, rifiutati)
  BY <1>2, <1>4 DEF RigaVera
<1>6. Imparata(ricevuti, conf, rifiutati)
  BY <1>2 DEF Imparata
<1>7. C = [coda EXCEPT ![giro.inVolo] = r]
  OBVIOUS
<1> HIDE DEF conf, C
<1>8. Scritta(C, ricevuti, conf, rifiutati)
  BY <1>1, <1>4, <1>5, <1>7, UnaScritta
<1>9. /\ TabellaSana(coda', ricevuti, conf, rifiutati)
      /\ GiroSano(giro', sospeso, passi')
      /\ RigheDelGiro(coda', giro', ricevuti, orfane)
  BY <1>1, <1>3, <1>6, <1>8, ProssimaSana
<1> QED
  BY <1>3, <1>9 DEF CodaSana, Resto

\* No answer, or one that says to try again.
LEMMA PassoRitenta ==
    ASSUME CodaSana, RispostaRitenta PROVE CodaSana'
<1> DEFINE r == DopoRitento(coda[giro.inVolo])
           C == [coda EXCEPT ![giro.inVolo] = r]
<1>1. giro.pc = "volo"
  BY DEF RispostaRitenta
<1>2. /\ InVolo = giro.inVolo /\ giro.inVolo \in Corpi /\ giro.inVolo \notin confermati
      /\ RigaSana(coda[giro.inVolo]) /\ coda[giro.inVolo].stato = "in_attesa"
      /\ coda \in [Corpi -> Riga]
      /\ ricevuti \subseteq Corpi /\ confermati \subseteq Corpi /\ rifiutati \subseteq Corpi
  BY <1>1, RigaInVolo
<1>3. /\ Prossima(C)
      /\ sospeso' = sospeso /\ gettone' = gettone /\ ping' = ping /\ foto' = foto
      /\ ricevuti' = ricevuti /\ confermati' = confermati /\ rifiutati' = rifiutati
      /\ orfane' = orfane
  BY <1>2 DEF RispostaRitenta, storia
<1>4. RigaSana(r) /\ r.stato \in {"in_attesa", "fallito"} /\ r.presa = FALSE
  BY <1>2, RitentoSano
<1> HIDE DEF r
<1>5. RigaVera(giro.inVolo, r, ricevuti, confermati, rifiutati)
  BY <1>2, <1>4 DEF RigaVera
<1>6. Imparata(ricevuti, confermati, rifiutati)
  BY <1>2 DEF Imparata
<1>7. C = [coda EXCEPT ![giro.inVolo] = r]
  OBVIOUS
<1> HIDE DEF C
<1>8. Scritta(C, ricevuti, confermati, rifiutati)
  BY <1>1, <1>4, <1>5, <1>7, UnaScritta
<1>9. /\ TabellaSana(coda', ricevuti, confermati, rifiutati)
      /\ GiroSano(giro', sospeso, passi')
      /\ RigheDelGiro(coda', giro', ricevuti, orfane)
  BY <1>1, <1>3, <1>6, <1>8, ProssimaSana
<1> QED
  BY <1>3, <1>9 DEF CodaSana, Resto

\* The hub refuses the body.
LEMMA PassoScarta ==
    ASSUME CodaSana, RispostaScarta PROVE CodaSana'
<1> DEFINE r == Fuori("scartato")
           rif == rifiutati \union {giro.inVolo}
           C == [coda EXCEPT ![giro.inVolo] = r]
<1>1. giro.pc = "volo"
  BY DEF RispostaScarta
<1>2. /\ InVolo = giro.inVolo /\ giro.inVolo \in Corpi /\ giro.inVolo \notin confermati
      /\ coda[giro.inVolo].stato = "in_attesa"
      /\ ricevuti \subseteq Corpi /\ confermati \subseteq Corpi /\ rifiutati \subseteq Corpi
  BY <1>1, RigaInVolo
<1>3. /\ Prossima(C) /\ rifiutati' = rif
      /\ sospeso' = sospeso /\ gettone' = gettone /\ ping' = ping /\ foto' = foto
      /\ ricevuti' = ricevuti /\ confermati' = confermati /\ orfane' = orfane
  BY <1>2 DEF RispostaScarta
<1>4. RigaSana(r) /\ r.stato = "scartato" /\ r.presa = FALSE
  BY FuoriSana
<1> HIDE DEF r
<1>5. RigaVera(giro.inVolo, r, ricevuti, confermati, rif)
  BY <1>2, <1>4 DEF RigaVera
<1>6. Imparata(ricevuti, confermati, rif)
  BY <1>2 DEF Imparata
<1>7. C = [coda EXCEPT ![giro.inVolo] = r]
  OBVIOUS
<1> HIDE DEF rif, C
<1>8. Scritta(C, ricevuti, confermati, rif)
  BY <1>1, <1>4, <1>5, <1>7, UnaScritta
<1>9. /\ TabellaSana(coda', ricevuti, confermati, rif)
      /\ GiroSano(giro', sospeso, passi')
      /\ RigheDelGiro(coda', giro', ricevuti, orfane)
  BY <1>1, <1>3, <1>6, <1>8, ProssimaSana
<1> QED
  BY <1>3, <1>9 DEF CodaSana, Resto

\* The hub refuses the token: everything goes back, the round is over.
LEMMA PassoSospende ==
    ASSUME CodaSana, RispostaSospende PROVE CodaSana'
<1> DEFINE T == coda'
           R == {giro.inVolo} \union giro.restanti
<1>1. /\ TabellaSana(coda, ricevuti, confermati, rifiutati) /\ giro.token \in Gettoni
      /\ \A c \in Corpi : coda[c].presa => c \in R \union orfane
      /\ passi \in Seq(Lavori) /\ passi # <<>>
  BY DEF CodaSana, GiroSano, RigheDelGiro, RispostaSospende
<1>2. /\ T = Rilasciate(coda, R) /\ sospeso' = giro.token /\ ping' = Nessuno
      /\ giro' = Riposo /\ passi' = Tail(passi)
      /\ gettone' = gettone /\ foto' = foto /\ orfane' = orfane
      /\ ricevuti' = ricevuti /\ confermati' = confermati /\ rifiutati' = rifiutati
  BY DEF RispostaSospende, Sospendi, FinePasso, storia, InVolo
<1> HIDE DEF T, R
<1>3. /\ TabellaSana(T, ricevuti, confermati, rifiutati)
      /\ \A c \in Corpi : T[c].presa => coda[c].presa /\ c \notin R
  BY <1>1, <1>2, RilascioSano
<1>4. \A c \in Corpi : T[c].presa => c \in orfane
  BY <1>1, <1>3
<1>5. RigheDelGiro(T, Riposo, ricevuti, orfane)
  BY <1>4, NessunaDelGiro
<1>6. GiroSano(giro', sospeso', passi')
  BY <1>1, <1>2, Riposa
<1> QED
  BY <1>1, <1>2, <1>3, <1>5, <1>6 DEF CodaSana, Resto, T

-----------------------------------------------------------------------------
(* The hub, the clock, the token, the process                              *)

LEMMA PassoHubRiceve ==
    ASSUME CodaSana, HubRiceve PROVE CodaSana'
<1> DEFINE ric == ricevuti \union {giro.inVolo}
<1>1. /\ giro.pc = "volo" /\ giro \in Giro /\ giro' = [giro EXCEPT !.arrivato = TRUE]
      /\ ricevuti' = ric /\ coda' = coda /\ sospeso' = sospeso /\ gettone' = gettone
      /\ ping' = ping /\ passi' = passi /\ foto' = foto
      /\ confermati' = confermati /\ rifiutati' = rifiutati /\ orfane' = orfane
  BY DEF HubRiceve, InVolo, CodaSana, GiroSano
<1>2. /\ giro' \in Giro /\ giro'.pc = giro.pc /\ giro'.token = giro.token
      /\ giro'.inVolo = giro.inVolo /\ giro'.restanti = giro.restanti /\ giro'.arrivato = TRUE
  BY <1>1 DEF Giro
<1>3. TabellaSana(coda, ric, confermati, rifiutati)
  BY <1>1, RigaInVolo DEF CodaSana, TabellaSana, RigaVera
<1>4. GiroSano(giro', sospeso, passi)
  BY <1>2 DEF CodaSana, GiroSano
<1>5. RigheDelGiro(coda, giro', ric, orfane)
  BY <1>1, <1>2 DEF CodaSana, RigheDelGiro
<1> QED
  BY <1>1, <1>3, <1>4, <1>5 DEF CodaSana, Resto

\* One row is written between two steps, and keeps its state.
LEMMA UnaRiga ==
    ASSUME NEW C, NEW ric, NEW conf, NEW rif, TabellaSana(C, ric, conf, rif), NEW c \in Corpi,
           NEW r, RigaSana(r), r.stato = C[c].stato, NEW T, T = [C EXCEPT ![c] = r]
    PROVE  /\ TabellaSana(T, ric, conf, rif)
           /\ T[c] = r /\ \A b \in Corpi \ {c} : T[b] = C[b]
<1>1. C \in [Corpi -> Riga] /\ r \in Riga /\ RigaVera(c, C[c], ric, conf, rif)
  BY DEF TabellaSana, RigaSana
<1>2. T \in [Corpi -> Riga] /\ T[c] = r /\ \A b \in Corpi \ {c} : T[b] = C[b]
  BY <1>1
<1>3. RigaVera(c, r, ric, conf, rif)
  BY <1>1, StessoStato
<1> QED
  BY <1>2, <1>3 DEF TabellaSana

LEMMA PassoFineAttesa ==
    ASSUME CodaSana, NEW c \in Corpi, FineAttesa(c) PROVE CodaSana'
<1> DEFINE r == [coda[c] EXCEPT !.attesa = FALSE]
           T == coda'
<1>1. /\ TabellaSana(coda, ricevuti, confermati, rifiutati) /\ RigaSana(coda[c])
      /\ coda \in [Corpi -> Riga]
  BY DEF CodaSana, TabellaSana, RigaVera
<1>2. RigaSana(r) /\ r.stato = coda[c].stato /\ r.presa = coda[c].presa
  BY <1>1, AttesaSana
<1>3. T = [coda EXCEPT ![c] = r]
  BY <1>1 DEF FineAttesa
<1> HIDE DEF r, T
<1>4. /\ TabellaSana(T, ricevuti, confermati, rifiutati)
      /\ T[c] = r /\ \A b \in Corpi \ {c} : T[b] = coda[b]
  BY <1>1, <1>2, <1>3, UnaRiga
<1>5. \A b \in Corpi : T[b].stato = coda[b].stato /\ T[b].presa = coda[b].presa
  BY <1>2, <1>4
<1>6. RigheDelGiro(T, giro, ricevuti, orfane)
  <2>1. RigheDelGiro(coda, giro, ricevuti, orfane) /\ giro.restanti \subseteq Corpi
    BY DEF CodaSana, GiroSano, Giro
  <2> QED
    BY <1>5, <2>1 DEF RigheDelGiro
<1> QED
  BY <1>4, <1>6 DEF CodaSana, Resto, FineAttesa, storia, T

LEMMA PassoFinePresa ==
    ASSUME CodaSana, NEW c \in Corpi, FinePresa(c) PROVE CodaSana'
<1> DEFINE r == [coda[c] EXCEPT !.presa = FALSE]
           T == coda'
<1>1. /\ TabellaSana(coda, ricevuti, confermati, rifiutati) /\ RigaSana(coda[c])
      /\ coda \in [Corpi -> Riga]
  BY DEF CodaSana, TabellaSana, RigaVera
<1>2. RigaSana(r) /\ r.stato = coda[c].stato /\ r.presa = FALSE
  BY <1>1, PresaSana
<1>3. T = [coda EXCEPT ![c] = r] /\ orfane' = orfane \ {c}
  BY <1>1 DEF FinePresa
<1> HIDE DEF r, T
<1>4. /\ TabellaSana(T, ricevuti, confermati, rifiutati)
      /\ T[c] = r /\ \A b \in Corpi \ {c} : T[b] = coda[b]
  BY <1>1, <1>2, <1>3, UnaRiga
<1>5. \A b \in Corpi : /\ T[b].stato = coda[b].stato
                       /\ T[b].presa => coda[b].presa /\ b # c
  BY <1>2, <1>4
<1>6. RigheDelGiro(T, giro, ricevuti, orfane')
  <2>1. RigheDelGiro(coda, giro, ricevuti, orfane) /\ giro.restanti \subseteq Corpi
    BY DEF CodaSana, GiroSano, Giro
  <2> QED
    BY <1>3, <1>5, <2>1 DEF RigheDelGiro
<1> QED
  BY <1>3, <1>4, <1>6 DEF CodaSana, Resto, FinePresa, T

\* What the round held is held by a round that died.
LEMMA PassoCrollo ==
    ASSUME CodaSana, Crollo PROVE CodaSana'
<1>1. /\ passi' = <<>> /\ giro' = Riposo /\ ping' = Nessuno
      /\ orfane' = orfane \union {c \in DelGiro : coda[c].presa}
      /\ coda' = coda /\ sospeso' = sospeso /\ gettone' = gettone /\ foto' = foto
      /\ ricevuti' = ricevuti /\ confermati' = confermati /\ rifiutati' = rifiutati
  BY DEF Crollo
<1>2. DelGiro \subseteq Corpi /\ \A c \in Corpi : c # Nessuno
  BY QueueAssumption DEF CodaSana, GiroSano, Giro, DelGiro, Corpi, Inventari
<1>3. \A c \in Corpi : coda[c].presa => c \in orfane'
  BY <1>1, <1>2 DEF CodaSana, RigheDelGiro, DelGiro
<1>4. RigheDelGiro(coda, Riposo, ricevuti, orfane')
  BY <1>3, NessunaDelGiro
<1>5. <<>> \in Seq(Lavori)
  BY EmptySeq
<1>6. GiroSano(Riposo, sospeso, <<>>)
  BY <1>5, Riposa
<1> QED
  BY <1>1, <1>2, <1>4, <1>6 DEF CodaSana, Resto

LEMMA PassoGettone ==
    ASSUME CodaSana, NEW t \in Gettoni \union {Nessuno}, CambiaGettone(t) PROVE CodaSana'
BY DEF CodaSana, CambiaGettone, Resto, storia

LEMMA PassoCoda == CodaSana /\ [Next]_vars => CodaSana'
<1> SUFFICES ASSUME CodaSana, [Next]_vars PROVE CodaSana'
  OBVIOUS
<1>1. ASSUME NEW p \in Programmi, Comincia(p) PROVE CodaSana'
  BY <1>1, PassoComincia
<1>2. CASE PassoDelLavoro
  <2>1. ASSUME NEW V \in SUBSET {c \in Corpi : coda[c].stato \in Uscite}, AccodaInventario(V)
        PROVE  CodaSana'
    BY <2>1, PassoInventario
  <2>2. ASSUME NEW b \in BOOLEAN, Parte(b) \/ PingProsegue(b) PROVE CodaSana'
    BY <2>2, PassoParte, PassoPingProsegue
  <2>3. ASSUME Risposta PROVE CodaSana'
    BY <2>3, PassoInviato, PassoRitenta, PassoScarta, PassoSospende DEF Risposta
  <2> QED
    BY <1>2, <2>1, <2>2, <2>3, PassoFinisce, PassoRimetti DEF PassoDelLavoro
<1>3. ASSUME NEW c \in Ad, AccodaAd(c) PROVE CodaSana'
  BY <1>3, PassoAccodaAd
<1>4. ASSUME NEW c \in Corpi, FineAttesa(c) \/ FinePresa(c) PROVE CodaSana'
  BY <1>4, PassoFineAttesa, PassoFinePresa
<1>5. ASSUME NEW t \in Gettoni \union {Nessuno}, CambiaGettone(t) PROVE CodaSana'
  BY <1>5, PassoGettone
<1>6. CASE UNCHANGED vars
  BY <1>6 DEF vars, CodaSana, Resto
<1> QED
  BY <1>1, <1>2, <1>3, <1>4, <1>5, <1>6, PassoHubRiceve, PassoCrollo DEF Next

LEMMA CodaIniziale == Init => CodaSana
<1> SUFFICES ASSUME Init PROVE CodaSana
  OBVIOUS
<1>1. RigaSana(Fuori("assente")) /\ Fuori("assente").stato = "assente" /\ Fuori("assente").presa = FALSE
  BY FuoriSana
<1>2. \A c \in Corpi : coda[c] = Fuori("assente")
  BY DEF Init
<1>3. coda \in [Corpi -> Riga]
  BY <1>1 DEF Init, RigaSana
<1>4. TabellaSana(coda, {}, {}, {})
  BY <1>1, <1>2, <1>3 DEF TabellaSana, RigaVera
<1>5. \A c \in Corpi : coda[c].presa => c \in {}
  BY <1>1, <1>2
<1>6. RigheDelGiro(coda, Riposo, {}, {})
  BY <1>5, NessunaDelGiro
<1>7. <<>> \in Seq(Lavori)
  BY EmptySeq
<1>8. GiroSano(Riposo, sospeso, <<>>)
  BY <1>7, Riposa
<1>9. Resto
  BY QueueAssumption DEF Init, Resto
<1> QED
  BY <1>4, <1>6, <1>8, <1>9 DEF Init, CodaSana

-----------------------------------------------------------------------------
\* Table, step at an await and history fit together through every order of jobs,
\* exports that enter from outside, answers lost, restarts and tokens changed
\* (vulcan/coda.ts, vulcan/giro.ts): the inductive invariant.
THEOREM CodaSempreSana == SafeSpec => []CodaSana
BY CodaIniziale, PassoCoda, PTL DEF SafeSpec

\* A row has its body exactly while it may still go, and no ending of a round
\* leaves a row held that no round, living or dead, holds (coda.ts:126-192).
THEOREM RigheCorpiPrese == SafeSpec => []QueueInv
BY CodaSempreSana, DiCosaParla, PTL

\* Nobody calls the hub with the token that is suspended (giro.ts, prepara and
\* sospendi).
THEOREM SospesoNonChiama == SafeSpec => []SospesoTace
BY CodaSempreSana, DiCosaParla, PTL

\* Sent means received, refused means refused, and an export is never made old.
THEOREM EsitoDegliExport == SafeSpec => []EsitoVero
BY CodaSempreSana, DiCosaParla, PTL

-----------------------------------------------------------------------------
(* The queue implements Outbox                                             *)

\* What Outbox sees of the table.
StatoOra == [c \in Corpi |-> coda[c].stato]
Vista == <<StatoOra, ricevuti, confermati>>

\* The ids of the inventories grow: those to come are not in the table.
Freschi == \A i \in Inventari : i > foto => coda[i].stato = "assente"

\* A step of the queue is one of the outbox, or moves nothing that it sees.
Mappato == [Cassetta!Next]_Vista /\ Freschi'

Ferma(C, D) == \A c \in Corpi : D[c].stato = C[c].stato

LEMMA StatiFermi ==
    ASSUME Freschi, Ferma(coda, coda'), UNCHANGED <<ricevuti, confermati, foto>>
    PROVE  Mappato
<1>1. StatoOra' = StatoOra
  BY DEF StatoOra, Ferma
<1>2. Freschi'
  BY DEF Freschi, Ferma, Corpi
<1> QED
  BY <1>1, <1>2 DEF Mappato, Vista

\* One row changes state, and it was there.
Cambia(C, D, d, s) ==
    /\ D[d].stato = s
    /\ \A c \in Corpi \ {d} : D[c].stato = C[c].stato

LEMMA UnaCambia ==
    ASSUME NEW d \in Corpi, NEW s, Cambia(coda, coda', d, s)
    PROVE  Cassetta!Diventa(d, s)
<1>1. StatoOra' = [StatoOra EXCEPT ![d] = s]
  BY DEF StatoOra, Cambia
<1> QED
  BY <1>1 DEF Cassetta!Diventa, StatoOra

LEMMA CambiaFreschi ==
    ASSUME Freschi, foto' = foto, NEW d \in Corpi, NEW s, Cambia(coda, coda', d, s),
           coda[d].stato # "assente" \/ d \in Ad
    PROVE  Freschi'
<1>1. Ad \intersect Inventari = {}
  BY QueueAssumption DEF Inventari
<1> QED
  BY <1>1 DEF Freschi, Cambia, Corpi

LEMMA StatoVisto == \A c \in Corpi : StatoOra[c] = coda[c].stato
BY DEF StatoOra

LEMMA RilascioFermo ==
    ASSUME NEW C \in [Corpi -> Riga], NEW R, NEW D, D = Rilasciate(C, R)
    PROVE  Ferma(C, D)
<1> SUFFICES ASSUME NEW c \in Corpi PROVE D[c].stato = C[c].stato
  BY DEF Ferma
<1>1. C[c] \in Riga
  OBVIOUS
<1>2. [C[c] EXCEPT !.presa = FALSE].stato = C[c].stato
  BY <1>1 DEF Riga
<1> QED
  BY <1>2 DEF Rilasciate

LEMMA ProssimaFerma ==
    ASSUME NEW C \in [Corpi -> Riga], Prossima(C)
    PROVE  Ferma(C, coda')
<1>1. CASE coda' = C
  BY <1>1 DEF Ferma
<1>2. CASE coda' = Rilasciate(C, giro.restanti)
  <2> DEFINE D == coda'
  <2>1. D = Rilasciate(C, giro.restanti)
    BY <1>2
  <2> HIDE DEF D
  <2>2. Ferma(C, D)
    BY <2>1, RilascioFermo
  <2> QED
    BY <2>2 DEF D
<1> QED
  BY <1>1, <1>2 DEF Prossima

\* After an answer: the row in flight has the state s, the others what they had.
LEMMA RispostaCambia ==
    ASSUME CodaSana, giro.pc = "volo", NEW r \in Riga,
           Prossima([coda EXCEPT ![InVolo] = r])
    PROVE  Cambia(coda, coda', InVolo, r.stato)
<1> DEFINE C == [coda EXCEPT ![InVolo] = r]
<1>1. InVolo \in Corpi /\ coda \in [Corpi -> Riga]
  BY RigaInVolo
<1>2. C \in [Corpi -> Riga] /\ C[InVolo] = r /\ \A c \in Corpi \ {InVolo} : C[c] = coda[c]
  BY <1>1
<1>3. Prossima(C)
  OBVIOUS
<1> HIDE DEF C
<1>4. Ferma(C, coda')
  BY <1>2, <1>3, ProssimaFerma
<1> QED
  BY <1>1, <1>2, <1>4 DEF Ferma, Cambia

LEMMA MappaAccodaAd ==
    ASSUME CodaSana, Freschi, NEW c \in Ad, AccodaAd(c) PROVE Mappato
<1>1. c \in Corpi /\ c \notin Inventari
  BY QueueAssumption DEF Corpi, Inventari
<1>2. coda \in [Corpi -> Riga] /\ coda[c].stato \in Stati
  BY <1>1 DEF CodaSana, TabellaSana, Riga
<1>3. coda' = Accodata(c) /\ UNCHANGED <<ricevuti, confermati, foto>>
  BY DEF AccodaAd, storia
<1>4. CASE coda[c].stato \in Stati \ {"assente", "scartato"}
  <2>1. coda' = coda
    BY <1>3, <1>4 DEF Accodata
  <2> QED
    BY <1>3, <2>1, StatiFermi DEF Ferma
<1>5. CASE coda[c].stato \in {"assente", "scartato"}
  <2>1. coda' = [b \in Corpi |-> IF b = c THEN Nuova ELSE coda[b]]
    BY <1>1, <1>3, <1>5 DEF Accodata
  <2>2. Cambia(coda, coda', c, "in_attesa")
    BY <1>1, <2>1, NuovaSana DEF Cambia
  <2>3. Freschi'
    BY <1>1, <1>3, <2>2, CambiaFreschi
  <2>4. Cassetta!Diventa(c, "in_attesa")
    BY <1>1, <2>2, UnaCambia
  <2>5. Cassetta!EntraExport(c)
    BY <1>1, <1>3, <1>5, <2>4, StatoVisto DEF Cassetta!EntraExport, StatoOra
  <2> QED
    BY <2>3, <2>5 DEF Mappato, Cassetta!Next
<1> QED
  BY <1>2, <1>4, <1>5

\* A new inventory: the row of foto + 1 is not in the table, hence not in V.
LEMMA MappaInventario ==
    ASSUME CodaSana, Freschi, NEW V \in SUBSET {c \in Corpi : coda[c].stato \in Uscite},
           AccodaInventario(V)
    PROVE  Mappato
<1> DEFINE d == foto + 1
<1>1. /\ d \in Inventari /\ d \in Corpi /\ foto' = d /\ foto \in Nat
      /\ ricevuti' = ricevuti \ V /\ confermati' = confermati \ V
      /\ coda' = [c \in Corpi |-> IF c \in V THEN Fuori("assente") ELSE Accodata(d)[c]]
  BY QueueAssumption DEF AccodaInventario, CodaSana, Resto, Corpi, Inventari
<1>2. coda[d].stato = "assente"
  BY <1>1 DEF Freschi
<1>3. V \subseteq Corpi /\ (\A b \in V : coda[b].stato \in Uscite) /\ d \notin V
  BY <1>2 DEF Uscite
<1> HIDE DEF d
<1>4. Accodata(d) = [b \in Corpi |->
                        IF b = d THEN Nuova
                        ELSE IF b \in Inventari /\ coda[b].stato = "in_attesa"
                               THEN Fuori("superato") ELSE coda[b]]
  BY <1>1, <1>2 DEF Accodata, Stati
<1>5. Nuova.stato = "in_attesa" /\ Fuori("assente").stato = "assente"
      /\ Fuori("superato").stato = "superato"
  BY DEF Nuova, Fuori
<1>6. ASSUME NEW b \in Corpi
      PROVE  coda'[b].stato = IF b = d THEN "in_attesa"
                              ELSE IF b \in V THEN "assente"
                              ELSE IF b \in Inventari /\ coda[b].stato = "in_attesa"
                                     THEN "superato"
                              ELSE coda[b].stato
  <2>1. CASE b = d
    BY <1>1, <1>3, <1>4, <1>5, <2>1
  <2>2. CASE b # d /\ b \in V
    BY <1>1, <1>5, <2>2
  <2>3. CASE b # d /\ b \notin V
    BY <1>1, <1>4, <1>5, <2>3
  <2> QED
    BY <2>1, <2>2, <2>3
<1>7. Freschi'
  <2> SUFFICES ASSUME NEW i \in Inventari, i > foto' PROVE coda'[i].stato = "assente"
    BY DEF Freschi
  <2>1. i \in Corpi /\ i > foto /\ i # foto'
    BY <1>1 DEF Corpi, Inventari, d
  <2>2. coda[i].stato = "assente"
    BY <2>1 DEF Freschi
  <2> QED
    BY <1>1, <1>6, <2>1, <2>2
<1>8. Cassetta!EntraInventario(d, V)
  <2>1. StatoOra[d] = "assente" /\ \A b \in V : StatoOra[b] \in Cassetta!Uscite
    BY <1>1, <1>2, <1>3, StatoVisto DEF Uscite, Cassetta!Uscite
  <2>2. ASSUME NEW b \in Corpi
        PROVE  coda'[b].stato = CASE b = d -> "in_attesa"
                                  [] b \in V -> "assente"
                                  [] b \in Inventari /\ StatoOra[b] = "in_attesa" -> "superato"
                                  [] OTHER -> StatoOra[b]
    <3>1. StatoOra[b] = coda[b].stato
      BY StatoVisto
    <3>2. CASE b = d
      BY <1>2, <1>3, <1>6, <3>1, <3>2
    <3>3. CASE b # d /\ b \in V
      BY <1>3, <1>6, <3>1, <3>3 DEF Uscite
    <3>4. CASE b # d /\ b \notin V
      BY <1>6, <3>1, <3>4
    <3> QED
      BY <3>2, <3>3, <3>4
  <2>3. StatoOra' = [b \in Corpi |->
                        CASE b = d -> "in_attesa"
                          [] b \in V -> "assente"
                          [] b \in Inventari /\ StatoOra[b] = "in_attesa" -> "superato"
                          [] OTHER -> StatoOra[b]]
    BY <2>2 DEF StatoOra
  <2> QED
    BY <1>1, <2>1, <2>3
    DEF Cassetta!EntraInventario, Cassetta!Attende, Cassetta!Corpi, Corpi, StatoOra
<1>9. V \in SUBSET Cassetta!Corpi
  BY <1>3 DEF Cassetta!Corpi, Corpi
<1> QED
  BY <1>1, <1>7, <1>8, <1>9 DEF Mappato, Cassetta!Next

LEMMA MappaRimetti ==
    ASSUME CodaSana, Freschi, RimettiFalliti PROVE Mappato
<1>1. /\ coda' = [c \in Corpi |-> IF coda[c].stato = "fallito"
                                    THEN [Nuova EXCEPT !.corpo = coda[c].corpo] ELSE coda[c]]
      /\ UNCHANGED <<ricevuti, confermati, foto>>
  BY DEF RimettiFalliti, storia
<1>2. \A x : [Nuova EXCEPT !.corpo = x].stato = "in_attesa"
  BY DEF Nuova
<1>3. \A c \in Corpi : coda'[c].stato = IF coda[c].stato = "fallito" THEN "in_attesa"
                                        ELSE coda[c].stato
  BY <1>1, <1>2
<1>4. Freschi'
  BY <1>1, <1>3 DEF Freschi, Corpi
<1>5. Cassetta!Rimette
  BY <1>1, <1>3 DEF Cassetta!Rimette, Cassetta!Corpi, Corpi
<1> QED
  BY <1>4, <1>5 DEF Mappato, Cassetta!Next

\* prendiProssimi only takes the rows.
LEMMA MappaProcede ==
    ASSUME CodaSana, Freschi, NEW t, Procede(t), UNCHANGED <<ricevuti, confermati, foto>>
    PROVE  Mappato
<1>1. \A c \in Corpi : [coda[c] EXCEPT !.presa = TRUE].stato = coda[c].stato
  <2> SUFFICES ASSUME NEW c \in Corpi PROVE [coda[c] EXCEPT !.presa = TRUE].stato = coda[c].stato
    OBVIOUS
  <2>1. coda[c] \in Riga
    BY DEF CodaSana, TabellaSana
  <2> QED
    BY <2>1 DEF Riga
<1>2. CASE coda' = coda
  BY <1>2, StatiFermi DEF Ferma
<1>3. ASSUME NEW S, coda' = [c \in Corpi |-> IF c \in S THEN [coda[c] EXCEPT !.presa = TRUE]
                                             ELSE coda[c]]
      PROVE  Mappato
  BY <1>1, <1>3, StatiFermi DEF Ferma
<1> QED
  BY <1>2, <1>3 DEF Procede, PrendiProssimi

LEMMA MappaParte ==
    ASSUME CodaSana, Freschi, NEW b \in BOOLEAN, Parte(b) \/ PingProsegue(b) PROVE Mappato
<1>1. UNCHANGED <<ricevuti, confermati, foto>>
  BY DEF Parte, PingProsegue
<1>2. \/ coda' = coda
      \/ \E t : Procede(t)
  BY DEF Parte, PingProsegue
<1>3. CASE coda' = coda
  BY <1>1, <1>3, StatiFermi DEF Ferma
<1> QED
  BY <1>1, <1>2, <1>3, MappaProcede

\* The answers: the row in flight waits, and it alone changes.
LEMMA MappaRisposta ==
    ASSUME CodaSana, Freschi, Risposta PROVE Mappato
<1>1. giro.pc = "volo" /\ foto' = foto
  BY DEF Risposta, RispostaInviato, RispostaRitenta, RispostaScarta, RispostaSospende
<1>2. InVolo \in Corpi
  BY <1>1, RigaInVolo
<1> PICK d \in Corpi : d = InVolo
  BY <1>2
<1>3. /\ RigaSana(coda[d]) /\ coda[d].stato = "in_attesa" /\ coda \in [Corpi -> Riga]
      /\ giro.arrivato => d \in ricevuti
      /\ d \in Cassetta!Corpi /\ StatoOra[d] = "in_attesa"
  BY <1>1, RigaInVolo, StatoVisto DEF Cassetta!Corpi, Corpi
\* What one writing of the row in flight does to the states.
<1>4. ASSUME NEW r \in Riga, Prossima([coda EXCEPT ![d] = r])
      PROVE  Cambia(coda, coda', d, r.stato) /\ Cassetta!Diventa(d, r.stato) /\ Freschi'
  <2>1. Cambia(coda, coda', d, r.stato)
    BY <1>1, <1>4, RispostaCambia
  <2>2. Cassetta!Diventa(d, r.stato)
    BY <2>1, UnaCambia
  <2> QED
    BY <1>1, <1>3, <2>1, <2>2, CambiaFreschi
<1>5. CASE RispostaInviato
  <2>1. /\ Prossima([coda EXCEPT ![d] = Fuori("inviato")]) /\ giro.arrivato
        /\ confermati' = confermati \union {d} /\ ricevuti' = ricevuti
    BY <1>3, <1>5 DEF RispostaInviato
  <2>2. Fuori("inviato") \in Riga /\ Fuori("inviato").stato = "inviato"
    BY FuoriSana DEF RigaSana
  <2>3. Cassetta!Diventa(d, "inviato") /\ Freschi'
    BY <1>4, <2>1, <2>2
  <2>4. Cassetta!Conferma(d)
    BY <1>3, <2>1, <2>3 DEF Cassetta!Conferma, Cassetta!Attende, StatoOra
  <2> QED
    BY <1>3, <2>3, <2>4 DEF Mappato, Cassetta!Next
<1>6. ASSUME NEW r \in Riga, NEW s \in {"scartato", "fallito"}, r.stato = s,
             Prossima([coda EXCEPT ![d] = r]), UNCHANGED <<ricevuti, confermati>>
      PROVE  Mappato
  <2>1. Cassetta!Diventa(d, s) /\ Freschi'
    BY <1>4, <1>6
  <2>2. Cassetta!Chiude(d, s)
    BY <1>3, <1>6, <2>1 DEF Cassetta!Chiude, Cassetta!Attende, StatoOra
  <2> QED
    BY <1>3, <2>1, <2>2 DEF Mappato, Cassetta!Next
<1>7. CASE RispostaRitenta
  <2> DEFINE r == DopoRitento(coda[d])
  <2>1. RigaSana(r) /\ r \in Riga /\ r.stato \in {"in_attesa", "fallito"}
    BY <1>3, RitentoSano DEF RigaSana
  <2>2. Prossima([coda EXCEPT ![d] = r]) /\ UNCHANGED <<ricevuti, confermati>>
    BY <1>3, <1>7 DEF RispostaRitenta, storia
  <2> HIDE DEF r
  <2>3. CASE r.stato = "fallito"
    BY <1>6, <2>1, <2>2, <2>3
  <2>4. CASE r.stato = "in_attesa"
    <3>1. Cambia(coda, coda', d, "in_attesa")
      BY <1>4, <2>1, <2>2, <2>4
    <3>2. Ferma(coda, coda')
      BY <1>3, <3>1 DEF Cambia, Ferma
    <3> QED
      BY <1>1, <2>2, <3>2, StatiFermi
  <2> QED
    BY <2>1, <2>3, <2>4
<1>8. CASE RispostaScarta
  <2>1. Prossima([coda EXCEPT ![d] = Fuori("scartato")]) /\ UNCHANGED <<ricevuti, confermati>>
    BY <1>3, <1>8 DEF RispostaScarta
  <2>2. Fuori("scartato") \in Riga /\ Fuori("scartato").stato = "scartato"
    BY FuoriSana DEF RigaSana
  <2> QED
    BY <1>6, <2>1, <2>2
<1>9. CASE RispostaSospende
  <2> DEFINE D == coda'
             R == {InVolo} \union giro.restanti
  <2>1. D = Rilasciate(coda, R) /\ UNCHANGED <<ricevuti, confermati>>
    BY <1>9 DEF RispostaSospende, storia
  <2> HIDE DEF D, R
  <2>2. Ferma(coda, D)
    BY <1>3, <2>1, RilascioFermo
  <2> QED
    BY <1>1, <2>1, <2>2, StatiFermi DEF D
<1> QED
  BY <1>5, <1>7, <1>8, <1>9 DEF Risposta

LEMMA MappaHubRiceve ==
    ASSUME CodaSana, Freschi, HubRiceve PROVE Mappato
<1>1. /\ InVolo \in Corpi /\ coda[InVolo].stato = "in_attesa"
      /\ ricevuti' = ricevuti \union {InVolo}
      /\ coda' = coda /\ confermati' = confermati /\ foto' = foto
  BY RigaInVolo DEF HubRiceve
<1>2. Cassetta!Arriva(InVolo)
  BY <1>1, StatoVisto DEF Cassetta!Arriva, Cassetta!Attende, StatoOra
<1>3. Freschi' /\ InVolo \in Cassetta!Corpi
  BY <1>1 DEF Freschi, Cassetta!Corpi, Corpi
<1> QED
  BY <1>2, <1>3 DEF Mappato, Cassetta!Next

LEMMA MappaOrologio ==
    ASSUME CodaSana, Freschi, NEW c \in Corpi, FineAttesa(c) \/ FinePresa(c) PROVE Mappato
<1>1. coda \in [Corpi -> Riga] /\ coda[c] \in Riga
  BY DEF CodaSana, TabellaSana
<1>2. /\ [coda[c] EXCEPT !.attesa = FALSE].stato = coda[c].stato
      /\ [coda[c] EXCEPT !.presa = FALSE].stato = coda[c].stato
  BY <1>1 DEF Riga
<1>3. /\ \/ coda' = [coda EXCEPT ![c] = [coda[c] EXCEPT !.attesa = FALSE]]
         \/ coda' = [coda EXCEPT ![c] = [coda[c] EXCEPT !.presa = FALSE]]
      /\ UNCHANGED <<ricevuti, confermati, foto>>
  BY <1>1 DEF FineAttesa, FinePresa, storia
<1>4. Ferma(coda, coda')
  BY <1>1, <1>2, <1>3 DEF Ferma
<1> QED
  BY <1>3, <1>4, StatiFermi

\* The steps that do not touch the table.
LEMMA MappaFermi ==
    ASSUME Freschi, UNCHANGED <<coda, ricevuti, confermati, foto>> PROVE Mappato
BY StatiFermi DEF Ferma

LEMMA PassoMappato == CodaSana /\ Freschi /\ [Next]_vars => Mappato
<1> SUFFICES ASSUME CodaSana, Freschi, [Next]_vars PROVE Mappato
  OBVIOUS
<1>1. CASE PassoDelLavoro
  <2>1. ASSUME NEW V \in SUBSET {c \in Corpi : coda[c].stato \in Uscite}, AccodaInventario(V)
        PROVE  Mappato
    BY <2>1, MappaInventario
  <2>2. ASSUME NEW b \in BOOLEAN, Parte(b) \/ PingProsegue(b) PROVE Mappato
    BY <2>2, MappaParte
  <2>3. CASE InventarioNonAccodato \/ NonParte \/ PingErrore \/ PingOBattitoSospende \/ BattitoFinisce
    BY <2>3, MappaFermi
    DEF InventarioNonAccodato, NonParte, PingErrore, PingOBattitoSospende, BattitoFinisce, storia
  <2> QED
    BY <1>1, <2>1, <2>2, <2>3, MappaRimetti, MappaRisposta DEF PassoDelLavoro
<1>2. ASSUME NEW p \in Programmi, Comincia(p) PROVE Mappato
  BY <1>2, MappaFermi DEF Comincia, storia
<1>3. ASSUME NEW c \in Ad, AccodaAd(c) PROVE Mappato
  BY <1>3, MappaAccodaAd
<1>4. ASSUME NEW c \in Corpi, FineAttesa(c) \/ FinePresa(c) PROVE Mappato
  BY <1>4, MappaOrologio
<1>5. ASSUME NEW t \in Gettoni \union {Nessuno}, CambiaGettone(t) PROVE Mappato
  BY <1>5, MappaFermi DEF CambiaGettone, storia
<1>6. CASE Crollo
  BY <1>6, MappaFermi DEF Crollo
<1>7. CASE UNCHANGED vars
  BY <1>7, MappaFermi DEF vars
<1> QED
  BY <1>1, <1>2, <1>3, <1>4, <1>5, <1>6, <1>7, MappaHubRiceve DEF Next

LEMMA InizioMappato == Init => Cassetta!Init /\ Freschi
<1> SUFFICES ASSUME Init PROVE Cassetta!Init /\ Freschi
  OBVIOUS
<1>1. \A c \in Corpi : coda[c].stato = "assente"
  BY FuoriSana DEF Init
<1> QED
  BY <1>1 DEF Init, Cassetta!Init, Cassetta!Corpi, Corpi, Freschi

\* What a step of the outbox keeps of its promise, of any three values it sees.
Mantenuta(S, ric, conf) ==
    /\ \A c \in Corpi : S[c] = "inviato" => c \in ric
    /\ \A c \in conf \intersect Corpi : S[c] = "inviato"
    /\ \A c \in Ad : S[c] # "superato"

LEMMA PromessaVista == Cassetta!Promessa <=> Mantenuta(StatoOra, ricevuti, confermati)
BY DEF Cassetta!Promessa, Cassetta!Corpi, Corpi, Mantenuta, StatoOra

LEMMA UnaDiventa ==
    ASSUME NEW d \in Corpi, NEW s, Cassetta!Diventa(d, s)
    PROVE  StatoOra'[d] = s /\ \A c \in Corpi \ {d} : StatoOra'[c] = StatoOra[c]
BY DEF Cassetta!Diventa, StatoOra

LEMMA PromessaMantenuta ==
    Cassetta!Promessa /\ [Cassetta!Next]_Vista => Cassetta!Promessa'
<1> DEFINE Dopo == Mantenuta(StatoOra', ricevuti', confermati')
<1>0. Cassetta!Promessa' <=> Dopo
  BY DEF Cassetta!Promessa, Cassetta!Corpi, Corpi, Mantenuta, StatoOra
<1> SUFFICES ASSUME Mantenuta(StatoOra, ricevuti, confermati), [Cassetta!Next]_Vista
             PROVE  Dopo
  BY <1>0, PromessaVista
<1>1. Ad \subseteq Corpi /\ Inventari \subseteq Corpi /\ Ad \intersect Inventari = {}
      /\ Cassetta!Corpi = Corpi
  BY QueueAssumption DEF Inventari, Corpi, Cassetta!Corpi
<1>2. CASE UNCHANGED Vista
  BY <1>2 DEF Vista, Mantenuta
<1>3. ASSUME NEW d \in Ad, Cassetta!EntraExport(d) PROVE Dopo
  <2>1. /\ StatoOra'[d] = "in_attesa" /\ \A c \in Corpi \ {d} : StatoOra'[c] = StatoOra[c]
        /\ StatoOra[d] # "inviato" /\ ricevuti' = ricevuti /\ confermati' = confermati
    BY <1>1, <1>3, UnaDiventa DEF Cassetta!EntraExport, StatoOra
  <2> QED
    BY <1>1, <2>1 DEF Mantenuta
<1>4. ASSUME NEW d \in Inventari, NEW V \in SUBSET Corpi, Cassetta!EntraInventario(d, V)
      PROVE  Dopo
  <2>1. /\ StatoOra[d] = "assente"
        /\ ricevuti' = ricevuti \ V /\ confermati' = confermati \ V
    BY <1>4 DEF Cassetta!EntraInventario, StatoOra
  <2>2. ASSUME NEW b \in Corpi
        PROVE  /\ StatoOra'[b] = "inviato" => StatoOra[b] = "inviato" /\ b \notin V
               /\ StatoOra[b] = "inviato" /\ b \notin V => StatoOra'[b] = "inviato"
               /\ b \in Ad => StatoOra'[b] = StatoOra[b] \/ StatoOra'[b] = "assente"
    <3>1. StatoOra'[b] = CASE b = d -> "in_attesa"
                           [] b \in V -> "assente"
                           [] b \in Inventari /\ StatoOra[b] = "in_attesa" -> "superato"
                           [] OTHER -> StatoOra[b]
      BY <1>1, <1>4 DEF Cassetta!EntraInventario, Cassetta!Attende, StatoOra
    <3>2. /\ d \notin V
          /\ \A c \in V : StatoOra[c] # "in_attesa"
      BY <1>4 DEF Cassetta!EntraInventario, Cassetta!Uscite, StatoOra
    <3> QED
      BY <1>1, <2>1, <3>1, <3>2
  <2> QED
    BY <1>1, <2>1, <2>2 DEF Mantenuta
<1>5. ASSUME NEW d \in Corpi, Cassetta!Arriva(d) PROVE Dopo
  <2>1. ricevuti' = ricevuti \union {d} /\ StatoOra' = StatoOra /\ confermati' = confermati
    BY <1>5 DEF Cassetta!Arriva, StatoOra
  <2> QED
    BY <2>1 DEF Mantenuta
<1>6. ASSUME NEW d \in Corpi, Cassetta!Conferma(d) PROVE Dopo
  <2>1. /\ StatoOra'[d] = "inviato" /\ \A c \in Corpi \ {d} : StatoOra'[c] = StatoOra[c]
        /\ d \in ricevuti /\ ricevuti' = ricevuti /\ confermati' = confermati \union {d}
    BY <1>6, UnaDiventa DEF Cassetta!Conferma
  <2> QED
    BY <1>1, <2>1 DEF Mantenuta
<1>7. ASSUME NEW d \in Corpi, NEW s \in {"scartato", "fallito"}, Cassetta!Chiude(d, s)
      PROVE  Dopo
  <2>1. /\ StatoOra'[d] = s /\ \A c \in Corpi \ {d} : StatoOra'[c] = StatoOra[c]
        /\ StatoOra[d] = "in_attesa" /\ ricevuti' = ricevuti /\ confermati' = confermati
    BY <1>7, UnaDiventa DEF Cassetta!Chiude, Cassetta!Attende, StatoOra
  <2> QED
    BY <1>1, <2>1 DEF Mantenuta
<1>8. CASE Cassetta!Rimette
  <2>1. /\ \A c \in Corpi : StatoOra'[c] = IF StatoOra[c] = "fallito" THEN "in_attesa" ELSE StatoOra[c]
        /\ ricevuti' = ricevuti /\ confermati' = confermati
    BY <1>1, <1>8 DEF Cassetta!Rimette, StatoOra
  <2> QED
    BY <1>1, <2>1 DEF Mantenuta
<1> HIDE DEF Dopo
<1> QED
  BY <1>1, <1>2, <1>3, <1>4, <1>5, <1>6, <1>7, <1>8 DEF Cassetta!Next

\* coda.ts and giro.ts, however the rounds, the restarts and the tokens go, move a row
\* as an outbox does.
THEOREM ImplementaLaCassetta == SafeSpec => ImplementaCassetta
<1>1. CodaSana /\ Freschi /\ [Next]_vars => [Cassetta!Next]_Vista /\ Freschi'
  BY PassoMappato DEF Mappato
<1> QED
  BY <1>1, InizioMappato, CodaIniziale, PassoCoda, PTL
  DEF SafeSpec, ImplementaCassetta, Cassetta!Spec, Cassetta!outboxVars, Vista, StatoOra

\* Sent means that the hub has it, for every body; one whose answer came back stays
\* sent: the round writes it before the next await, and nothing puts it back in the
\* queue; no export is ever made old.
THEOREM PromessaDellaCassetta == SafeSpec => []Cassetta!Promessa
<1>1. Init => Cassetta!Promessa
  BY FuoriSana DEF Init, Cassetta!Promessa, Cassetta!Corpi, Corpi
<1>2. CodaSana /\ Freschi /\ [Next]_vars => [Cassetta!Next]_Vista /\ Freschi'
  BY PassoMappato DEF Mappato
<1> QED
  BY <1>1, <1>2, InizioMappato, CodaIniziale, PassoCoda, PromessaMantenuta, PTL DEF SafeSpec
=============================================================================
