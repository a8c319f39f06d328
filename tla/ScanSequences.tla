----------------------------- MODULE ScanSequences -----------------------------
(***************************************************************************)
(* The multi-phase sequences of the network page (scanner/sequenze.ts):    *)
(* one round after the other on one network, with the stop of the whole    *)
(* sequence and the rounds of others that slip in between two phases.  The *)
(* rounds are those of NetworkRounds.                                      *)
(***************************************************************************)
EXTENDS NetworkRounds

CONSTANTS
    Sequenze,  \* slots of running sequences
    NFasi      \* phases of a sequence

ASSUME SequencesAssumption == NFasi \in Nat \ {0}

VARIABLE seq   \* the sequences

vars == <<roundVars, seq>>

\* "prossima": avviaFase at the head of its loop; "rilegge": its start was
\* refused; "attende": asleep on the release of the network or on the stop;
\* "avviata": the phase's round is open and not followed yet; "segue": asleep
\* on its `done`, with the listener of the stop attached.
Passi == {"libera", "prossima", "rilegge", "attende", "avviata", "segue", "chiusa"}
Viva(s) == seq[s].pc \notin {"libera", "chiusa"}

Vuota == [pc |-> "libera", rete |-> NoGiro, fase |-> 0, giro |-> NoGiro,
          atteso |-> NoGiro, scaduto |-> FALSE, stop |-> FALSE,
          aperti |-> {}, esito |-> "nessuno"]

Init == RoundsInit /\ seq = [s \in Sequenze |-> Vuota]

Aggiorna(s, r) == seq' = [seq EXCEPT ![s] = r]

Finita(r, x) == [r EXCEPT !.pc = "chiusa", !.esito = x, !.giro = NoGiro,
                          !.atteso = NoGiro, !.scaduto = FALSE]

-----------------------------------------------------------------------------
(* avviaSequenza: the first phase starts, or the busy network is answered  *)

AvviaSequenza(s, n, g) ==
    /\ seq[s].pc = "libera"
    /\ Apre(n, g)
    /\ Aggiorna(s, [Vuota EXCEPT !.pc = "avviata", !.rete = n, !.fase = 1,
                                 !.giro = g, !.aperti = {g}])

-----------------------------------------------------------------------------
(* avviaFase: the next phases                                              *)

AvviaFase(s, g) ==
    /\ seq[s].pc = "prossima"
    /\ ~seq[s].stop
    /\ Apre(seq[s].rete, g)
    /\ Aggiorna(s, [seq[s] EXCEPT !.pc = "avviata", !.giro = g,
                                  !.aperti = @ \union {g}])

StopPrimaDellaFase(s) ==
    /\ seq[s].pc = "prossima"
    /\ seq[s].stop
    /\ Aggiorna(s, Finita(seq[s], "fermato"))
    /\ UNCHANGED roundVars

\* prendiRete refuses (and may write the alarm of the round it finds).
FaseRifiutata(s) ==
    LET h == giri[seq[s].rete] IN
    /\ seq[s].pc = "prossima"
    /\ ~seq[s].stop
    /\ h # NoGiro
    /\ Avvisa(h) \/ UNCHANGED roundVars
    /\ Aggiorna(s, [seq[s] EXCEPT !.pc = "rilegge"])

\* The start throws for a reason of its own: the sequence fails.
AvvioFallito(s) ==
    /\ seq[s].pc = "prossima"
    /\ ~seq[s].stop
    /\ Aggiorna(s, Finita(seq[s], "failed"))
    /\ UNCHANGED roundVars

\* Mutant: a release between the refusal and this read is missed.
RileggeTardi(s) ==
    LET h == giri[seq[s].rete] IN
    /\ seq[s].pc = "rilegge"
    /\ Aggiorna(s, IF seq[s].scaduto THEN Finita(seq[s], "failed")
                   ELSE [seq[s] EXCEPT !.pc = "attende", !.atteso = h])
    /\ UNCHANGED roundVars

\* After a refusal: past the deadline the sequence fails, otherwise it waits
\* for whoever holds the network now, if anybody does.
Rilegge(s) ==
    LET h == giri[seq[s].rete] IN
    /\ seq[s].pc = "rilegge"
    /\ Aggiorna(s, IF seq[s].scaduto THEN Finita(seq[s], "failed")
                   ELSE IF h = NoGiro THEN [seq[s] EXCEPT !.pc = "prossima"]
                   ELSE [seq[s] EXCEPT !.pc = "attende", !.atteso = h])
    /\ UNCHANGED roundVars

\* Mutant: the wait ends with the release only.
SvegliataDalRilascio(s) ==
    /\ seq[s].pc = "attende"
    /\ giri[seq[s].rete] # seq[s].atteso
    /\ Aggiorna(s, [seq[s] EXCEPT !.pc = "prossima", !.atteso = NoGiro])
    /\ UNCHANGED roundVars

\* reteLiberaOStop: the release of the network or the stop.  No timer.
Svegliata(s) ==
    /\ seq[s].pc = "attende"
    /\ giri[seq[s].rete] # seq[s].atteso \/ seq[s].stop
    /\ Aggiorna(s, [seq[s] EXCEPT !.pc = "prossima", !.atteso = NoGiro])
    /\ UNCHANGED roundVars

\* ATTESA_RETE_MS passes since the phase was first tried.
Scade(s) ==
    /\ seq[s].pc \in {"prossima", "rilegge", "attende"}
    /\ ~seq[s].scaduto
    /\ Aggiorna(s, [seq[s] EXCEPT !.scaduto = TRUE])
    /\ UNCHANGED roundVars

-----------------------------------------------------------------------------
(* seguiFase: following a phase to its end                                 *)

\* fermaGiro: nothing happens to a round that is closed already.
FermaFase(g) == IF Aperto(g) THEN Segnala(g) ELSE UNCHANGED roundVars

\* Mutant: the listener is attached without looking at the signal first.
SegueSenzaGuardare(s) ==
    /\ seq[s].pc = "avviata"
    /\ UNCHANGED roundVars
    /\ Aggiorna(s, [seq[s] EXCEPT !.pc = "segue"])

\* A stop that came before the listener is passed on now.
Segue(s) ==
    /\ seq[s].pc = "avviata"
    /\ IF seq[s].stop THEN FermaFase(seq[s].giro) ELSE UNCHANGED roundVars
    /\ Aggiorna(s, [seq[s] EXCEPT !.pc = "segue"])

\* Mutant: a sequence that was stopped does not wait for its phase to close.
FaseChiusaSubito(s) ==
    /\ seq[s].pc = "segue"
    /\ seq[s].stop
    /\ Aggiorna(s, Finita(seq[s], "fermato"))
    /\ UNCHANGED roundVars

\* Mutant: one phase too many.
FaseChiusaUnaInPiu(s) ==
    LET x == esito[seq[s].giro] IN
    /\ seq[s].pc = "segue"
    /\ Chiuso(seq[s].giro)
    /\ Aggiorna(s, IF x = "completed" /\ seq[s].fase <= NFasi
                     THEN [seq[s] EXCEPT !.pc = "prossima", !.fase = @ + 1,
                                         !.giro = NoGiro, !.scaduto = FALSE]
                     ELSE Finita(seq[s], x))
    /\ UNCHANGED roundVars

\* `done` of the phase has settled: the next one, or the end.
FaseChiusa(s) ==
    LET x == esito[seq[s].giro] IN
    /\ seq[s].pc = "segue"
    /\ Chiuso(seq[s].giro)
    /\ Aggiorna(s, IF x = "completed" /\ seq[s].fase < NFasi
                     THEN [seq[s] EXCEPT !.pc = "prossima", !.fase = @ + 1,
                                         !.giro = NoGiro, !.scaduto = FALSE]
                     ELSE Finita(seq[s], x))
    /\ UNCHANGED roundVars

-----------------------------------------------------------------------------
(* The stop button of the sequence; the rounds; everybody else             *)

\* The signal is set; the listener, when attached, stops the phase's round.
FermaSequenza(s) ==
    /\ Viva(s)
    /\ ~seq[s].stop
    /\ IF seq[s].pc = "segue" THEN FermaFase(seq[s].giro) ELSE UNCHANGED roundVars
    /\ Aggiorna(s, [seq[s] EXCEPT !.stop = TRUE])

GiroFinisce(g) ==
    /\ \E x \in Esiti \ {"nessuno"} : Chiude(g, x)
    /\ seq' = [s \in Sequenze |-> [seq[s] EXCEPT !.aperti = @ \ {g}]]

Riferiti == UNION {{seq[s].giro, seq[s].atteso} : s \in Sequenze}

\* Rounds started by others, the stop of a single round, rounds that hang.
Altri ==
    /\ \/ \E n \in Nets, g \in Giri : g \notin Riferiti /\ Apre(n, g)
       \/ \E g \in Giri : Segnala(g) \/ Appende(g)
    /\ UNCHANGED seq

DimenticaGiro(g) ==
    /\ g \notin Riferiti
    /\ Dimentica(g)
    /\ UNCHANGED seq

\* Five minutes after its end a sequence leaves the progress map.
DimenticaSequenza(s) ==
    /\ seq[s].pc = "chiusa"
    /\ Aggiorna(s, Vuota)
    /\ UNCHANGED roundVars

Riavvio == Crollo /\ seq' = [s \in Sequenze |-> Vuota]

Passo(s) ==
    \/ \E g \in Giri : g \notin Riferiti /\ AvviaFase(s, g)
    \/ StopPrimaDellaFase(s)
    \/ FaseRifiutata(s)
    \/ AvvioFallito(s)
    \/ Rilegge(s)
    \/ Svegliata(s)
    \/ Segue(s)
    \/ FaseChiusa(s)

Next ==
    \/ \E s \in Sequenze, n \in Nets, g \in Giri :
          g \notin Riferiti /\ AvviaSequenza(s, n, g)
    \/ \E s \in Sequenze : Passo(s) \/ Scade(s) \/ FermaSequenza(s)
                             \/ DimenticaSequenza(s)
    \/ \E g \in Giri : GiroFinisce(g) \/ DimenticaGiro(g)
    \/ Altri
    \/ Riavvio

SafeSpec == Init /\ [][Next]_vars

\* What is ready in the event loop runs, the clock runs, and a round that does
\* not hang closes (ScanRounds!ReteRestituita).  Nothing is assumed of users.
Fairness ==
    /\ \A s \in Sequenze : WF_vars(Passo(s)) /\ WF_vars(Scade(s))
    /\ \A g \in Giri : WF_vars(GiroFinisce(g)) /\ WF_vars(DimenticaGiro(g))

Spec == SafeSpec /\ Fairness
-----------------------------------------------------------------------------
(* Properties                                                              *)

\* Type invariant.
TypeOK ==
    /\ RoundsTypeOK
    /\ seq \in [Sequenze ->
         [pc : Passi, rete : Nets \union {NoGiro}, fase : 0..NFasi,
          giro : Giri \union {NoGiro}, atteso : Giri \union {NoGiro},
          scaduto : BOOLEAN, stop : BOOLEAN, aperti : SUBSET Giri,
          esito : Esiti]]

\* The stop of a sequence reaches the round it is following, whenever it came:
\* before the listener was attached or after.
StopRaggiungeLaFase ==
    \A s \in Sequenze :
        seq[s].pc = "segue" /\ seq[s].stop /\ Aperto(seq[s].giro)
            => seq[s].giro \in segnali

\* A sequence has at most one round open, and none once it says it is over:
\* «Fermata» or «Completata» is not shown while its round still writes.
ChiusaVuolDireFerma ==
    \A s \in Sequenze :
        seq[s].aperti \subseteq IF Viva(s) THEN {seq[s].giro} ELSE {}

\* What a sequence says and what its rounds do agree: the type invariant, a stop that
\* has reached the round in hand and no round behind a closed phase (sequenze.ts:44-124).
SequencesInv == TypeOK /\ StopRaggiungeLaFase /\ ChiusaVuolDireFerma

\* A stop closes the sequence, unless the round of its own phase hangs; a round
\* of somebody else that holds the network does not delay it.
LoStopChiude ==
    \A s \in Sequenze :
        seq[s].stop ~> ~Viva(s) \/ seq[s].giro \in appesi

\* A sequence ends, unless a round it waits for hangs.
SequenzaFinisce ==
    \A s \in Sequenze :
        Viva(s) ~> \/ ~Viva(s)
                   \/ seq[s].giro \in appesi
                   \/ seq[s].atteso \in appesi

\* The wait of a phase has a limit (sequenze.ts:23 «Quanto una fase aspetta la
\* rete occupata», :41-42 «si aspetta che finisca, fino al limite»).
AttesaConLimite ==
    \A s \in Sequenze : seq[s].pc = "attende" ~> seq[s].pc # "attende"
=============================================================================
