--------------------------- MODULE ScanSequencesProofs ---------------------------
(***************************************************************************)
(* Proofs about ScanSequences, for any networks, rounds, sequences and     *)
(* number of phases: a stop reaches the round in hand whenever it comes,   *)
(* and a sequence that is over leaves no round behind.                     *)
(***************************************************************************)
EXTENDS ScanSequences, TLAPS

\* One sequence.
Sequenza ==
    [pc : Passi, rete : Nets \union {NoGiro}, fase : 0..NFasi,
     giro : Giri \union {NoGiro}, atteso : Giri \union {NoGiro},
     scaduto : BOOLEAN, stop : BOOLEAN, aperti : SUBSET Giri, esito : Esiti]

InMano == {"avviata", "segue"}

\* A sequence that is alive has its network and one of its phases; it has a round
\* in hand exactly between a start and the end of that phase, and that is the only
\* one it may have left open.
Giusta(r) ==
    /\ r.pc \notin {"libera", "chiusa"} => r.rete \in Nets /\ r.fase \in 1..NFasi
    /\ r.pc \in InMano => r.giro \in Giri
    /\ r.aperti \subseteq (IF r.pc \in InMano THEN {r.giro} ELSE {})

\* What the rounds say of one sequence, when x are their outcomes, t the lock table
\* and f the stops asked: its open rounds have no outcome, and the stop has reached
\* the one it follows.
Accordo(r, x, t, f) ==
    /\ \A g \in r.aperti : x[g] = "nessuno"
    /\ r.pc = "segue" /\ r.stop /\ (\E n \in Nets : t[n] = r.giro) => r.giro \in f

\* The inductive invariant.
IInv ==
    /\ TypeOK
    /\ \A s \in Sequenze : Giusta(seq[s]) /\ Accordo(seq[s], esito, giri, segnali)

LEMMA Tipo == TypeOK <=> RoundsTypeOK /\ seq \in [Sequenze -> Sequenza]
BY DEF TypeOK, Sequenza

LEMMA Contesto ==
    ASSUME IInv, NEW s \in Sequenze
    PROVE  /\ seq[s] \in Sequenza /\ Giusta(seq[s])
           /\ Accordo(seq[s], esito, giri, segnali) /\ RoundsTypeOK
BY Tipo DEF IInv

-----------------------------------------------------------------------------
(* The steps of the rounds that close none                                 *)

\* They keep the agreement with every sequence, the moved ones included.
LEMMA GiriQuieti ==
    ASSUME IInv,
           \/ UNCHANGED roundVars
           \/ \E g \in Giri : Avvisa(g) \/ Segnala(g) \/ Appende(g)
           \/ \E n \in Nets, g \in Giri : g \notin Riferiti /\ Apre(n, g)
    PROVE  /\ RoundsTypeOK' /\ esito' = esito
           /\ segnali \subseteq segnali'
           /\ \A g \in Riferiti : (\E n \in Nets : giri'[n] = g) => \E n \in Nets : giri[n] = g
<1>1. RoundsTypeOK
  BY DEF IInv, TypeOK
<1>2. RoundsTypeOK' /\ esito' = esito /\ segnali \subseteq segnali'
  BY <1>1 DEF RoundsTypeOK, roundVars, Avvisa, Segnala, Appende, Apre
<1>3. ASSUME NEW h \in Riferiti, NEW m \in Nets, giri'[m] = h
      PROVE  \E n \in Nets : giri[n] = h
  <2>1. CASE giri' = giri
    BY <1>3, <2>1
  <2>2. ASSUME NEW n \in Nets, NEW g \in Giri, g \notin Riferiti, Apre(n, g)
        PROVE  giri[m] = h
    BY <1>1, <1>3, <2>2 DEF Apre, RoundsTypeOK
  <2> QED
    BY <2>1, <2>2 DEF roundVars, Avvisa, Segnala, Appende
<1> QED
  BY <1>2, <1>3

LEMMA RestaInAccordo ==
    ASSUME NEW r, Accordo(r, esito, giri, segnali), r.giro \in Riferiti,
           esito' = esito, segnali \subseteq segnali',
           \A g \in Riferiti : (\E n \in Nets : giri'[n] = g) => \E n \in Nets : giri[n] = g
    PROVE  Accordo(r, esito', giri', segnali')
BY DEF Accordo

\* One sequence moves, the rounds close none.
LEMMA UnPasso ==
    ASSUME IInv, NEW s \in Sequenze, NEW r \in Sequenza, Aggiorna(s, r), Giusta(r),
           \/ UNCHANGED roundVars
           \/ \E g \in Giri : Avvisa(g) \/ Segnala(g) \/ Appende(g)
           \/ \E n \in Nets, g \in Giri : g \notin Riferiti /\ Apre(n, g),
           Accordo(r, esito', giri', segnali')
    PROVE  IInv'
<1>1. seq \in [Sequenze -> Sequenza]
  BY Tipo DEF IInv
<1>2. /\ seq' \in [Sequenze -> Sequenza] /\ seq'[s] = r
      /\ \A t \in Sequenze \ {s} : seq'[t] = seq[t]
  BY <1>1 DEF Aggiorna
<1>3. RoundsTypeOK'
  BY GiriQuieti
<1>4. TypeOK'
  BY <1>2, <1>3 DEF TypeOK, Sequenza
<1>5. ASSUME NEW t \in Sequenze
      PROVE  Giusta(seq'[t]) /\ Accordo(seq'[t], esito', giri', segnali')
  <2>1. CASE t = s
    BY <1>2, <2>1
  <2>2. CASE t # s
    <3>1. seq'[t] = seq[t] /\ seq[t].giro \in Riferiti
      BY <1>2, <2>2 DEF Riferiti
    <3>2. Giusta(seq[t]) /\ Accordo(seq[t], esito, giri, segnali)
      BY Contesto
    <3>3. Accordo(seq[t], esito', giri', segnali')
      BY <3>1, <3>2, GiriQuieti, RestaInAccordo
    <3> QED
      BY <3>1, <3>2, <3>3
  <2> QED
    BY <2>1, <2>2
<1> QED
  BY <1>4, <1>5 DEF IInv

\* A step after which the sequence follows no round, and no new round is open.
LEMMA SenzaSeguire ==
    ASSUME IInv, NEW s \in Sequenze, NEW r \in Sequenza, Aggiorna(s, r), Giusta(r),
           \/ UNCHANGED roundVars
           \/ \E g \in Giri : Avvisa(g) \/ Segnala(g) \/ Appende(g),
           r.aperti \subseteq seq[s].aperti, r.pc # "segue"
    PROVE  IInv'
<1>1. esito' = esito
  BY GiriQuieti
<1>2. Accordo(r, esito', giri', segnali')
  BY <1>1, Contesto DEF Accordo
<1> QED
  BY <1>2, UnPasso

-----------------------------------------------------------------------------
(* The steps of a sequence                                                 *)

LEMMA VuotaGiusta ==
    /\ Vuota \in Sequenza /\ Giusta(Vuota) /\ Vuota.aperti = {} /\ Vuota.pc = "libera"
    /\ Vuota.stop = FALSE
<1>1. 0 \in 0..NFasi
  BY SequencesAssumption
<1>2. /\ Vuota \in Sequenza /\ Vuota.aperti = {} /\ Vuota.pc = "libera"
      /\ Vuota.stop = FALSE
  BY <1>1 DEF Vuota, Sequenza, Passi, Esiti
<1> QED
  BY <1>2 DEF Giusta, InMano

LEMMA PassoPrima ==
    ASSUME IInv, NEW s \in Sequenze, NEW n \in Nets, NEW g \in Giri, g \notin Riferiti,
           AvviaSequenza(s, n, g)
    PROVE  IInv'
<1> DEFINE r == [Vuota EXCEPT !.pc = "avviata", !.rete = n, !.fase = 1,
                              !.giro = g, !.aperti = {g}]
<1>1. Aggiorna(s, r) /\ Apre(n, g)
  BY DEF AvviaSequenza
<1>2. 1 \in 0..NFasi /\ 1 \in 1..NFasi
  BY SequencesAssumption
<1>3. /\ r \in Sequenza /\ r.pc = "avviata" /\ r.rete = n /\ r.fase = 1 /\ r.giro = g
      /\ r.aperti = {g}
  BY <1>2, VuotaGiusta DEF Sequenza, Passi
<1> HIDE DEF r
<1>4. Giusta(r)
  BY <1>2, <1>3 DEF Giusta, InMano
<1>5. esito' = esito /\ esito[g] = "nessuno"
  BY <1>1 DEF Apre, Chiuso
<1>6. Accordo(r, esito', giri', segnali')
  BY <1>3, <1>5 DEF Accordo
<1> QED
  BY <1>1, <1>3, <1>4, <1>6, UnPasso

LEMMA PassoFase ==
    ASSUME IInv, NEW s \in Sequenze, NEW g \in Giri, g \notin Riferiti, AvviaFase(s, g)
    PROVE  IInv'
<1> DEFINE q == seq[s]
           r == [q EXCEPT !.pc = "avviata", !.giro = g, !.aperti = @ \union {g}]
<1>1. /\ q \in Sequenza /\ Giusta(q) /\ Accordo(q, esito, giri, segnali)
      /\ q.pc = "prossima" /\ Aggiorna(s, r) /\ Apre(q.rete, g)
  BY Contesto DEF AvviaFase
<1> HIDE DEF q
<1>2. q.rete \in Nets /\ q.aperti = {} /\ q.fase \in 1..NFasi
  BY <1>1 DEF Giusta, InMano
<1>3. /\ r \in Sequenza /\ r.pc = "avviata" /\ r.rete = q.rete /\ r.fase = q.fase
      /\ r.giro = g /\ r.aperti = {g}
  BY <1>1, <1>2 DEF Sequenza, Passi
<1> HIDE DEF r
<1>4. Giusta(r)
  BY <1>2, <1>3 DEF Giusta, InMano
<1>5. esito' = esito /\ esito[g] = "nessuno"
  BY <1>1 DEF Apre, Chiuso
<1>6. Accordo(r, esito', giri', segnali')
  BY <1>3, <1>5 DEF Accordo
<1> QED
  BY <1>1, <1>2, <1>3, <1>4, <1>6, UnPasso

\* A sequence that ends from a state without a round in hand, or with a closed one.
LEMMA CampiFinita ==
    ASSUME NEW q \in Sequenza, NEW x \in Esiti, q.aperti = {}
    PROVE  /\ Finita(q, x) \in Sequenza /\ Giusta(Finita(q, x))
           /\ Finita(q, x).aperti = {} /\ Finita(q, x).pc = "chiusa"
<1> DEFINE r == Finita(q, x)
<1>1. /\ r \in Sequenza /\ r.pc = "chiusa" /\ r.aperti = {}
  BY DEF Finita, Sequenza, Passi
<1> QED
  BY <1>1 DEF Giusta, InMano

\* The stop before a phase, and a start that throws.
LEMMA PassoNonParte ==
    ASSUME IInv, NEW s \in Sequenze, StopPrimaDellaFase(s) \/ AvvioFallito(s)
    PROVE  IInv'
<1>1. /\ seq[s] \in Sequenza /\ Giusta(seq[s]) /\ seq[s].pc = "prossima"
      /\ UNCHANGED roundVars
  BY Contesto DEF StopPrimaDellaFase, AvvioFallito
<1>2. seq[s].aperti = {}
  BY <1>1 DEF Giusta, InMano
<1>3. PICK x \in Esiti : Aggiorna(s, Finita(seq[s], x))
  BY DEF StopPrimaDellaFase, AvvioFallito, Esiti
<1> QED
  BY <1>1, <1>2, <1>3, CampiFinita, SenzaSeguire

\* The waits between two phases.
LEMMA PassoAttesa ==
    ASSUME IInv, NEW s \in Sequenze,
           FaseRifiutata(s) \/ Rilegge(s) \/ Svegliata(s) \/ Scade(s)
    PROVE  IInv'
<1> DEFINE q == seq[s]
           h == giri[q.rete]
<1>1. /\ q \in Sequenza /\ Giusta(q) /\ q.pc \in {"prossima", "rilegge", "attende"}
      /\ RoundsTypeOK
  BY Contesto DEF FaseRifiutata, Rilegge, Svegliata, Scade
<1>2. q.rete \in Nets /\ q.aperti = {} /\ q.fase \in 1..NFasi
  BY <1>1 DEF Giusta, InMano
<1>3. h \in Giri \union {NoGiro}
  BY <1>1, <1>2 DEF RoundsTypeOK
<1>4. UNCHANGED roundVars \/ \E g \in Giri : Avvisa(g)
  BY <1>3 DEF FaseRifiutata, Rilegge, Svegliata, Scade
<1>5. PICK r : Aggiorna(s, r) /\
         \/ r = [q EXCEPT !.pc = "rilegge"]
         \/ r = Finita(q, "failed")
         \/ r = [q EXCEPT !.pc = "prossima"]
         \/ r = [q EXCEPT !.pc = "attende", !.atteso = h]
         \/ r = [q EXCEPT !.pc = "prossima", !.atteso = NoGiro]
         \/ r = [q EXCEPT !.scaduto = TRUE]
  BY DEF FaseRifiutata, Rilegge, Svegliata, Scade
<1> HIDE DEF h
<1>6. CASE r = Finita(q, "failed")
  BY <1>1, <1>2, <1>4, <1>5, <1>6, CampiFinita, SenzaSeguire DEF Esiti
<1>7. CASE r # Finita(q, "failed")
  <2> HIDE DEF q
  <2>1. /\ r \in Sequenza /\ r.pc \in {"prossima", "rilegge", "attende"}
        /\ r.rete = q.rete /\ r.fase = q.fase /\ r.aperti = {}
    <3>1. CASE r = [q EXCEPT !.pc = "rilegge"]
      BY <1>1, <1>2, <3>1 DEF Sequenza, Passi
    <3>2. CASE r = [q EXCEPT !.pc = "prossima"]
      BY <1>1, <1>2, <3>2 DEF Sequenza, Passi
    <3>3. CASE r = [q EXCEPT !.pc = "attende", !.atteso = h]
      BY <1>1, <1>2, <1>3, <3>3 DEF Sequenza, Passi
    <3>4. CASE r = [q EXCEPT !.pc = "prossima", !.atteso = NoGiro]
      BY <1>1, <1>2, <3>4 DEF Sequenza, Passi
    <3>5. CASE r = [q EXCEPT !.scaduto = TRUE]
      BY <1>1, <1>2, <3>5 DEF Sequenza, Passi
    <3> QED
      BY <1>5, <1>7, <3>1, <3>2, <3>3, <3>4, <3>5
  <2>2. Giusta(r)
    BY <1>2, <2>1 DEF Giusta, InMano
  <2> QED
    BY <1>4, <1>5, <2>1, <2>2, SenzaSeguire
<1> QED
  BY <1>6, <1>7

\* The stop of the round in hand: after it the round, if open, has been asked.
LEMMA FermaChiede ==
    ASSUME NEW g \in Giri, FermaFase(g)
    PROVE  /\ (\E n \in Nets : giri'[n] = g) => g \in segnali'
           /\ UNCHANGED roundVars \/ \E h \in Giri : Segnala(h)
BY DEF FermaFase, Segnala, Aperto, roundVars

\* The listener is attached: a stop that came before it is passed on.
LEMMA PassoSegue ==
    ASSUME IInv, NEW s \in Sequenze, Segue(s)
    PROVE  IInv'
<1> DEFINE q == seq[s]
           r == [q EXCEPT !.pc = "segue"]
<1>1. /\ q \in Sequenza /\ Giusta(q) /\ Accordo(q, esito, giri, segnali)
      /\ q.pc = "avviata" /\ Aggiorna(s, r)
      /\ IF q.stop THEN FermaFase(q.giro) ELSE UNCHANGED roundVars
  BY Contesto DEF Segue
<1> HIDE DEF q
<1>2. /\ q.rete \in Nets /\ q.fase \in 1..NFasi /\ q.giro \in Giri
      /\ q.aperti \subseteq {q.giro}
  BY <1>1 DEF Giusta, InMano
<1>3. /\ r \in Sequenza /\ r.pc = "segue" /\ r.rete = q.rete /\ r.fase = q.fase
      /\ r.giro = q.giro /\ r.aperti = q.aperti /\ r.stop = q.stop
  BY <1>1 DEF Sequenza, Passi
<1> HIDE DEF r
<1>4. Giusta(r)
  BY <1>2, <1>3 DEF Giusta, InMano
<1>5. UNCHANGED roundVars \/ \E h \in Giri : Segnala(h)
  BY <1>1, <1>2, FermaChiede
<1>6. esito' = esito
  BY <1>5 DEF Segnala, roundVars
<1>7. r.stop /\ (\E n \in Nets : giri'[n] = r.giro) => r.giro \in segnali'
  BY <1>1, <1>2, <1>3, FermaChiede
<1>8. Accordo(r, esito', giri', segnali')
  BY <1>1, <1>3, <1>6, <1>7 DEF Accordo
<1> QED
  BY <1>1, <1>3, <1>4, <1>5, <1>8, UnPasso

\* The button: the signal is set, and passed on when the listener is there.
LEMMA PassoFerma ==
    ASSUME IInv, NEW s \in Sequenze, FermaSequenza(s)
    PROVE  IInv'
<1> DEFINE q == seq[s]
           r == [q EXCEPT !.stop = TRUE]
<1>1. /\ q \in Sequenza /\ Giusta(q) /\ Accordo(q, esito, giri, segnali)
      /\ Aggiorna(s, r)
      /\ IF q.pc = "segue" THEN FermaFase(q.giro) ELSE UNCHANGED roundVars
  BY Contesto DEF FermaSequenza
<1> HIDE DEF q
<1>2. q.pc = "segue" => q.giro \in Giri
  BY <1>1 DEF Giusta, InMano
<1>3. /\ r \in Sequenza /\ r.pc = q.pc /\ r.rete = q.rete /\ r.fase = q.fase
      /\ r.giro = q.giro /\ r.aperti = q.aperti
  BY <1>1 DEF Sequenza, Passi
<1> HIDE DEF r
<1>4. Giusta(r)
  BY <1>1, <1>3 DEF Giusta
<1>5. UNCHANGED roundVars \/ \E h \in Giri : Segnala(h)
  BY <1>1, <1>2, FermaChiede
<1>6. esito' = esito
  BY <1>5 DEF Segnala, roundVars
<1>7. r.pc = "segue" /\ (\E n \in Nets : giri'[n] = r.giro) => r.giro \in segnali'
  BY <1>1, <1>2, <1>3, FermaChiede
<1>8. Accordo(r, esito', giri', segnali')
  BY <1>1, <1>3, <1>6, <1>7 DEF Accordo
<1> QED
  BY <1>1, <1>3, <1>4, <1>5, <1>8, UnPasso

\* `done` of the phase has settled: its round is not an open one any more.
LEMMA PassoChiusa ==
    ASSUME IInv, NEW s \in Sequenze, FaseChiusa(s)
    PROVE  IInv'
<1> DEFINE q == seq[s]
           x == esito[q.giro]
           r == [q EXCEPT !.pc = "prossima", !.fase = @ + 1,
                          !.giro = NoGiro, !.scaduto = FALSE]
<1>1. /\ q \in Sequenza /\ Giusta(q) /\ Accordo(q, esito, giri, segnali)
      /\ q.pc = "segue" /\ Chiuso(q.giro) /\ RoundsTypeOK
      /\ Aggiorna(s, IF x = "completed" /\ q.fase < NFasi THEN r ELSE Finita(q, x))
      /\ UNCHANGED roundVars
  BY Contesto DEF FaseChiusa
<1> HIDE DEF q
<1>2. /\ q.rete \in Nets /\ q.fase \in 1..NFasi /\ q.giro \in Giri
      /\ q.aperti \subseteq {q.giro}
  BY <1>1 DEF Giusta, InMano
<1>3. q.aperti = {} /\ x \in Esiti
  BY <1>1, <1>2 DEF Accordo, Chiuso, RoundsTypeOK
<1> HIDE DEF x
<1>4. CASE x = "completed" /\ q.fase < NFasi
  <2>1. q.fase + 1 \in 1..NFasi /\ q.fase + 1 \in 0..NFasi
    BY <1>2, <1>4, SequencesAssumption
  <2>2. /\ r \in Sequenza /\ r.pc = "prossima" /\ r.rete = q.rete
        /\ r.fase = q.fase + 1 /\ r.aperti = {}
    BY <1>1, <1>3, <2>1 DEF Sequenza, Passi
  <2>3. Aggiorna(s, r)
    BY <1>1, <1>4
  <2> HIDE DEF r
  <2>4. Giusta(r)
    BY <1>2, <2>1, <2>2 DEF Giusta, InMano
  <2> QED
    BY <1>1, <2>2, <2>3, <2>4, SenzaSeguire
<1>5. CASE ~(x = "completed" /\ q.fase < NFasi)
  <2>1. Aggiorna(s, Finita(q, x))
    BY <1>1, <1>5
  <2> QED
    BY <1>1, <1>3, <2>1, CampiFinita, SenzaSeguire
<1> QED
  BY <1>4, <1>5

-----------------------------------------------------------------------------
(* The rounds, everybody else, the restart                                 *)

\* A round ends: nobody has it open any more, and its stop with it.
LEMMA PassoFinisce ==
    ASSUME IInv, NEW g \in Giri, GiroFinisce(g)
    PROVE  IInv'
<1>1. PICK x \in Esiti \ {"nessuno"} : Chiude(g, x)
  BY DEF GiroFinisce
<1>2. /\ seq \in [Sequenze -> Sequenza] /\ RoundsTypeOK
      /\ seq' = [s \in Sequenze |-> [seq[s] EXCEPT !.aperti = @ \ {g}]]
  BY Tipo DEF IInv, GiroFinisce
<1>3. /\ RoundsTypeOK' /\ esito' = [esito EXCEPT ![g] = x] /\ esito \in [Giri -> Esiti]
      /\ giri' = [n \in Nets |-> IF giri[n] = g THEN NoGiro ELSE giri[n]]
      /\ segnali' = segnali \ {g}
  BY <1>1, <1>2 DEF RoundsTypeOK, Chiude
<1>4. ASSUME NEW s \in Sequenze
      PROVE  /\ seq'[s] \in Sequenza /\ Giusta(seq'[s])
             /\ Accordo(seq'[s], esito', giri', segnali')
  <2> DEFINE q == seq[s]
             r == seq'[s]
  <2>1. /\ q \in Sequenza /\ Giusta(q) /\ Accordo(q, esito, giri, segnali)
        /\ r = [q EXCEPT !.aperti = @ \ {g}]
    BY <1>2, Contesto
  <2> HIDE DEF q, r
  <2>2. /\ r \in Sequenza /\ r.aperti = q.aperti \ {g} /\ r.pc = q.pc
        /\ r.giro = q.giro /\ r.rete = q.rete /\ r.fase = q.fase /\ r.stop = q.stop
    BY <2>1 DEF Sequenza
  <2>3. Giusta(r)
    BY <2>1, <2>2 DEF Giusta
  <2>4. \A h \in r.aperti : h \in Giri /\ h # g /\ esito[h] = "nessuno"
    BY <2>1, <2>2 DEF Accordo, Sequenza
  <2>5. \A h \in r.aperti : esito'[h] = "nessuno"
    BY <1>3, <2>4
  <2>6. r.pc = "segue" /\ r.stop /\ (\E n \in Nets : giri'[n] = r.giro)
          => r.giro \in segnali'
    <3> SUFFICES ASSUME r.pc = "segue", r.stop, NEW n \in Nets, giri'[n] = r.giro
                 PROVE  r.giro \in segnali'
      OBVIOUS
    <3>1. r.giro \in Giri
      BY <2>3 DEF Giusta, InMano
    <3>2. giri[n] = r.giro /\ r.giro # g
      BY <1>3, <3>1, NetworkRoundsAssumption
    <3>3. q.giro \in segnali
      BY <2>1, <2>2, <3>2 DEF Accordo
    <3> QED
      BY <1>3, <2>2, <3>2, <3>3
  <2> QED
    BY <2>2, <2>3, <2>5, <2>6 DEF Accordo, r
<1>5. TypeOK'
  BY <1>2, <1>3, <1>4 DEF TypeOK, Sequenza
<1> QED
  BY <1>4, <1>5 DEF IInv

\* Rounds, stops and hangs of others, and forgotten ids.
LEMMA PassoAltri ==
    ASSUME IInv, Altri \/ (\E g \in Giri : DimenticaGiro(g)) \/ UNCHANGED vars
    PROVE  IInv'
<1>1. seq' = seq /\ RoundsTypeOK /\ TypeOK
  BY DEF IInv, TypeOK, Altri, DimenticaGiro, vars
<1>2. CASE Altri \/ UNCHANGED vars
  <2>1. \/ UNCHANGED roundVars
        \/ \E g \in Giri : Avvisa(g) \/ Segnala(g) \/ Appende(g)
        \/ \E n \in Nets, g \in Giri : g \notin Riferiti /\ Apre(n, g)
    BY <1>2 DEF Altri, vars
  <2>2. TypeOK'
    BY <1>1, <2>1, GiriQuieti DEF TypeOK
  <2>3. ASSUME NEW s \in Sequenze
        PROVE  Giusta(seq'[s]) /\ Accordo(seq'[s], esito', giri', segnali')
    <3>1. seq[s].giro \in Riferiti
      BY DEF Riferiti
    <3>2. Accordo(seq[s], esito', giri', segnali')
      BY <2>1, <3>1, Contesto, GiriQuieti, RestaInAccordo
    <3> QED
      BY <1>1, <3>2, Contesto
  <2> QED
    BY <2>2, <2>3 DEF IInv
<1>3. ASSUME NEW g \in Giri, DimenticaGiro(g) PROVE IInv'
  <2>1. /\ RoundsTypeOK' /\ giri' = giri /\ segnali' = segnali
        /\ \A h \in Giri : esito[h] = "nessuno" => esito'[h] = "nessuno"
    BY <1>1, <1>3 DEF DimenticaGiro, Dimentica, RoundsTypeOK, Esiti
  <2>2. TypeOK'
    BY <1>1, <2>1 DEF TypeOK
  <2>3. ASSUME NEW s \in Sequenze
        PROVE  Giusta(seq'[s]) /\ Accordo(seq'[s], esito', giri', segnali')
    <3>1. seq[s].aperti \subseteq Giri
      BY Contesto DEF Sequenza
    <3> QED
      BY <1>1, <2>1, <3>1, Contesto DEF Accordo
  <2> QED
    BY <2>2, <2>3 DEF IInv
<1> QED
  BY <1>2, <1>3

\* Every sequence is unused, and nothing is open.
LEMMA TutteVuote ==
    ASSUME NEW s \in Sequenze
    PROVE  /\ Giusta(Vuota) /\ Accordo(Vuota, esito, giri, segnali)
           /\ Accordo(Vuota, esito', giri', segnali')
BY VuotaGiusta DEF Accordo

LEMMA InizioIInv == Init => IInv
<1> SUFFICES ASSUME Init PROVE IInv
  OBVIOUS
<1>1. RoundsTypeOK
  BY DEF Init, RoundsInit, RoundsTypeOK, Esiti
<1>2. seq \in [Sequenze -> Sequenza] /\ \A s \in Sequenze : seq[s] = Vuota
  BY VuotaGiusta DEF Init
<1> QED
  BY <1>1, <1>2, Tipo, TutteVuote DEF IInv

LEMMA PassoRiavvio ==
    ASSUME IInv, Riavvio
    PROVE  IInv'
<1>1. RoundsTypeOK'
  BY DEF Riavvio, Crollo, RoundsTypeOK, Esiti
<1>2. seq' \in [Sequenze -> Sequenza] /\ \A s \in Sequenze : seq'[s] = Vuota
  BY VuotaGiusta DEF Riavvio
<1>3. TypeOK'
  BY <1>1, <1>2 DEF TypeOK, Sequenza
<1> QED
  BY <1>2, <1>3, TutteVuote DEF IInv

LEMMA PassoIInv == IInv /\ [Next]_vars => IInv'
<1> SUFFICES ASSUME IInv, [Next]_vars PROVE IInv'
  OBVIOUS
<1>1. ASSUME NEW s \in Sequenze, NEW n \in Nets, NEW g \in Giri,
             g \notin Riferiti, AvviaSequenza(s, n, g)
      PROVE  IInv'
  BY <1>1, PassoPrima
<1>2. ASSUME NEW s \in Sequenze, Passo(s) \/ Scade(s) PROVE IInv'
  BY <1>2, PassoFase, PassoNonParte, PassoAttesa, PassoSegue, PassoChiusa DEF Passo
<1>3. ASSUME NEW s \in Sequenze, FermaSequenza(s) PROVE IInv'
  BY <1>3, PassoFerma
<1>4. ASSUME NEW s \in Sequenze, DimenticaSequenza(s) PROVE IInv'
  BY <1>4, VuotaGiusta, SenzaSeguire DEF DimenticaSequenza
<1>5. ASSUME NEW g \in Giri, GiroFinisce(g) PROVE IInv'
  BY <1>5, PassoFinisce
<1>6. CASE Altri \/ (\E g \in Giri : DimenticaGiro(g)) \/ UNCHANGED vars
  BY <1>6, PassoAltri
<1>7. CASE Riavvio
  BY <1>7, PassoRiavvio
<1> QED
  BY <1>1, <1>2, <1>3, <1>4, <1>5, <1>6, <1>7 DEF Next

\* The sequences and their rounds agree in every state that can be reached
\* (sequenze.ts:30-124).
THEOREM SequenzeGiuste == SafeSpec => []IInv
<1> QED
  BY InizioIInv, PassoIInv, PTL DEF SafeSpec

\* A stop reaches the round in hand, before the listener or after it, and a sequence
\* that says it is over has left no round open, for any number of phases
\* (sequenze.ts:74-92).
THEOREM SequencesInvariante == SafeSpec => []SequencesInv
<1>1. IInv => SequencesInv
  <2> SUFFICES ASSUME IInv PROVE SequencesInv
    OBVIOUS
  <2>1. StopRaggiungeLaFase
    BY DEF IInv, Accordo, StopRaggiungeLaFase, Aperto
  <2>2. ChiusaVuolDireFerma
    BY DEF IInv, Giusta, InMano, Viva, ChiusaVuolDireFerma
  <2> QED
    BY <2>1, <2>2 DEF IInv, SequencesInv
<1> QED
  BY <1>1, SequenzeGiuste, PTL
=============================================================================
