------------------------------ MODULE ScanRounds ------------------------------
(***************************************************************************)
(* The rounds ("giri") that scan a network and the in-memory lock that     *)
(* keeps them apart: network-scan-lock.ts, ferma-giro.ts, the start and    *)
(* the closing of discoverNetwork and of the profile rounds, and the       *)
(* skeleton of runDiscovery (its awaits, its stop checks, its offline      *)
(* pass, its ways of ending).                                              *)
(*                                                                         *)
(* The process is one Node process, so code between two awaits is atomic:  *)
(* an action here is one such stretch.  A scan id is never reused by the   *)
(* code; here an identity goes back to "fuori" when the round leaves the   *)
(* progress map, so that a finite set of them serves endless behaviours.   *)
(***************************************************************************)
EXTENDS Naturals

CONSTANTS
    Nets,      \* keys "tenant:rete" of the lock table
    Giri,      \* scan ids
    NoGiro,    \* no round: the key is absent from the lock table
    NoRete     \* the network of an identity that is not in use

ASSUME RoundsAssumption ==
    /\ NoGiro \notin Giri
    /\ NoRete \notin Nets

VARIABLES
    giri,        \* lock table: the round that holds each network, or NoGiro
    rete,        \* the network each round was started on
    stato,       \* where each round is (see Stati)
    esito,       \* EsitoGiro of a round whose body is over
    fermabili,   \* rounds whose AbortController is registered
    segnali,     \* rounds whose abort signal is set
    appesi,      \* rounds hung in an await that never settles
    lunghi,      \* rounds older than the alarm threshold
    allarmati,   \* rounds with the flag `allarmato`
    righe        \* alarm lines written about each round

lockVars  == <<giri, rete, stato, esito, fermabili, segnali>>
alarmVars == <<allarmati, righe>>
roundVars == <<giri, rete, stato, esito, fermabili, segnali,
               appesi, lunghi, allarmati, righe>>

(***************************************************************************)
(* "sonda": discovery before its offline pass; "coda": after it;           *)
(* "profilo": a profile round (eseguiProfilo); "finito": the body is over  *)
(* and the finally clause has not run yet; "chiuso": `done` has settled.   *)
(***************************************************************************)
Stati  == {"fuori", "sonda", "coda", "profilo", "finito", "chiuso"}
Attivi == {"sonda", "coda", "profilo"}
Esiti  == {"nessuno", "completed", "failed", "fermato"}

InCorso(g) == stato[g] \in Attivi
Attivo(g)  == InCorso(g) /\ g \notin appesi

Init ==
    /\ giri = [n \in Nets |-> NoGiro]
    /\ rete = [g \in Giri |-> NoRete]
    /\ stato = [g \in Giri |-> "fuori"]
    /\ esito = [g \in Giri |-> "nessuno"]
    /\ fermabili = {}
    /\ segnali = {}
    /\ appesi = {}
    /\ lunghi = {}
    /\ allarmati = {}
    /\ righe = [g \in Giri |-> 0]

-----------------------------------------------------------------------------
(* The lock table                                                          *)

\* Mutant: the flag is set but not looked at.
ScriviSempre(g) ==
    /\ allarmati' = allarmati \union {g}
    /\ righe' = [righe EXCEPT ![g] = @ + 1]

\* scriviAllarme: one line per round, the flag is set by the first caller.
ScriviAllarme(g) ==
    IF g \in allarmati
      THEN UNCHANGED alarmVars
      ELSE /\ allarmati' = allarmati \union {g}
           /\ righe' = [righe EXCEPT ![g] = @ + 1]

\* prendiRete on a busy network: alarm if the holder is too old, then throw.
RifiutoPrendiRete(n) ==
    /\ giri[n] # NoGiro
    /\ IF giri[n] \in lunghi THEN ScriviAllarme(giri[n]) ELSE UNCHANGED alarmVars
    /\ UNCHANGED <<lockVars, appesi, lunghi>>

\* Mutant: the alarm also frees the network, as a timeout would.
SegnalaELibera(n, g) ==
    /\ IF giri[n] = g THEN ScriviAllarme(g) ELSE UNCHANGED alarmVars
    /\ giri' = IF giri[n] = g THEN [giri EXCEPT ![n] = NoGiro] ELSE giri
    /\ UNCHANGED <<rete, stato, esito, fermabili, segnali, appesi, lunghi>>

\* segnalaGiroLungo: alarm by whoever stops waiting for g, if g still holds n.
SegnalaGiroLungo(n, g) ==
    /\ IF giri[n] = g THEN ScriviAllarme(g) ELSE UNCHANGED alarmVars
    /\ UNCHANGED <<lockVars, appesi, lunghi>>

\* Mutant: the release function frees whatever holds the network's key but
\* compares the wrong round, so it never frees its own.
RilasciataMai(g) ==
    [n \in Nets |-> IF n = rete[g] /\ giri[n] # g THEN NoGiro ELSE giri[n]]

\* Mutant: the key is dropped from the table instead of reading as free.
RilasciataCancella(g) == [n \in Nets \ {rete[g]} |-> giri[n]]

\* The body of the release function: frees n only while g is its holder.
Rilasciata(g) ==
    [n \in Nets |-> IF n = rete[g] /\ giri[n] = g THEN NoGiro ELSE giri[n]]

-----------------------------------------------------------------------------
(* Starting a round                                                        *)

\* Mutant: the start does not look at the lock table.
ParteComunque(n, g, s, F) ==
    /\ stato[g] = "fuori"
    /\ giri' = [giri EXCEPT ![n] = g]
    /\ rete' = [rete EXCEPT ![g] = n]
    /\ stato' = [stato EXCEPT ![g] = s]
    /\ fermabili' = fermabili \union F
    /\ UNCHANGED <<esito, segnali, appesi, lunghi, alarmVars>>

\* prendiRete succeeds and the round goes to the background; F is {g} when its
\* AbortController is registered.
Parte(n, g, s, F) ==
    /\ giri[n] = NoGiro
    /\ stato[g] = "fuori"
    /\ giri' = [giri EXCEPT ![n] = g]
    /\ rete' = [rete EXCEPT ![g] = n]
    /\ stato' = [stato EXCEPT ![g] = s]
    /\ fermabili' = fermabili \union F
    /\ UNCHANGED <<esito, segnali, appesi, lunghi, alarmVars>>

DiscoverNetwork(n, g) == Parte(n, g, "sonda", {g})

AvviaProfilo(n, g) == Parte(n, g, "profilo", {g})

\* The nightly recogniser takes the lock like the others; nobody can stop it.
GiroSconosciuti(n, g) == Parte(n, g, "profilo", {})

-----------------------------------------------------------------------------
(* The body of a round                                                     *)

Finisce(g, x) ==
    /\ stato' = [stato EXCEPT ![g] = "finito"]
    /\ esito' = [esito EXCEPT ![g] = x]
    /\ UNCHANGED <<giri, rete, fermabili, segnali, appesi, lunghi,
                   alarmVars>>

\* controllaFermo between two batches, or before the offline pass, or before
\* a profile saves: the stop is seen and the round ends.
VedeLoStop(g) ==
    /\ Attivo(g)
    /\ stato[g] \in {"sonda", "profilo"}
    /\ g \in segnali
    /\ Finisce(g, "fermato")

\* Phase 4, from the last controllaFermo: the offline pass, in the kinds of round
\* that have one, runs in the same turn, and the round is in its tail.
InCoda(g) ==
    /\ Attivo(g)
    /\ stato[g] = "sonda"
    /\ g \notin segnali
    /\ stato' = [stato EXCEPT ![g] = "coda"]
    /\ UNCHANGED <<giri, rete, esito, fermabili, segnali, appesi, lunghi,
                   alarmVars>>

\* The tail (AD, assignments, multi-homed, history) ends; no stop check there.
Completa(g) ==
    /\ Attivo(g)
    /\ stato[g] = "coda"
    /\ Finisce(g, "completed")

\* A profile saves its result after its last stop check.
SalvaProfilo(g) ==
    /\ Attivo(g)
    /\ stato[g] = "profilo"
    /\ g \notin segnali
    /\ Finisce(g, "completed")

\* Mutant: every error of the body is taken for a stop.
ErroreComeStop(g) ==
    /\ Attivo(g)
    /\ Finisce(g, "fermato")

\* Anything thrown by the body: with the signal set it counts as the stop.
Errore(g) ==
    /\ Attivo(g)
    /\ Finisce(g, IF g \in segnali THEN "fermato" ELSE "failed")

\* runDiscovery returns with status "failed", or without closing the round.
SenzaEsito(g) ==
    /\ Attivo(g)
    /\ stato[g] = "sonda"
    /\ Finisce(g, "failed")

\* The finally clause: the stop is unregistered and the network released; the
\* AbortController and the lock's record (its flag, its age) go with them.
Rilascia(g) ==
    /\ stato[g] = "finito"
    /\ stato' = [stato EXCEPT ![g] = "chiuso"]
    /\ fermabili' = fermabili \ {g}
    /\ segnali' = segnali \ {g}
    /\ giri' = Rilasciata(g)
    /\ lunghi' = lunghi \ {g}
    /\ allarmati' = allarmati \ {g}
    /\ UNCHANGED <<rete, esito, appesi, righe>>

\* Five minutes after its end a round leaves the progress map.
DimenticaGiro(g) ==
    /\ stato[g] = "chiuso"
    /\ stato' = [stato EXCEPT ![g] = "fuori"]
    /\ rete' = [rete EXCEPT ![g] = NoRete]
    /\ esito' = [esito EXCEPT ![g] = "nessuno"]
    /\ righe' = [righe EXCEPT ![g] = 0]
    /\ UNCHANGED <<giri, fermabili, segnali, appesi, lunghi, allarmati>>

-----------------------------------------------------------------------------
(* The user, the clock, the process                                        *)

\* The stop button: the route wants a running round, fermaGiro a registered one.
FermaGiro(g) ==
    /\ InCorso(g)
    /\ g \in fermabili
    /\ segnali' = segnali \union {g}
    /\ UNCHANGED <<giri, rete, stato, esito, fermabili, appesi, lunghi,
                   alarmVars>>

\* The threshold (scan_lock_alarm_minutes) passes while g holds its network.
DiventaLungo(g) ==
    /\ InCorso(g)
    /\ lunghi' = lunghi \union {g}
    /\ UNCHANGED <<lockVars, appesi, alarmVars>>

\* A call the round awaits never settles: the round writes nothing any more,
\* and never closes ("se e' appeso, il processo va riavviato").
SiAppende(g) ==
    /\ InCorso(g)
    /\ appesi' = appesi \union {g}
    /\ UNCHANGED <<lockVars, lunghi, alarmVars>>

\* The process dies and starts again: lock, rounds and signals were memory.
Riavvio ==
    /\ giri' = [n \in Nets |-> NoGiro]
    /\ rete' = [g \in Giri |-> NoRete]
    /\ stato' = [g \in Giri |-> "fuori"]
    /\ esito' = [g \in Giri |-> "nessuno"]
    /\ fermabili' = {}
    /\ segnali' = {}
    /\ appesi' = {}
    /\ lunghi' = {}
    /\ allarmati' = {}
    /\ righe' = [g \in Giri |-> 0]

-----------------------------------------------------------------------------
(* Specification.  CorpoDelGiro is what a round does by itself once it is  *)
(* in the background; the rest is asked by users, jobs or the clock.       *)

CorpoDelGiro(g) ==
    \/ VedeLoStop(g)
    \/ InCoda(g)
    \/ Completa(g)
    \/ SalvaProfilo(g)
    \/ Errore(g)
    \/ SenzaEsito(g)

Avvii(n, g) ==
    DiscoverNetwork(n, g) \/ AvviaProfilo(n, g) \/ GiroSconosciuti(n, g)

Ambiente(g) == FermaGiro(g) \/ DiventaLungo(g) \/ SiAppende(g)

Next ==
    \/ \E n \in Nets : RifiutoPrendiRete(n)
    \/ \E n \in Nets, g \in Giri : Avvii(n, g) \/ SegnalaGiroLungo(n, g)
    \/ \E g \in Giri : CorpoDelGiro(g) \/ Rilascia(g) \/ DimenticaGiro(g)
                         \/ Ambiente(g)
    \/ Riavvio

\* Every await of a body that is not hung settles, and a finally clause runs.
\* Nothing is assumed of users, of the clock or of the process.
Fairness ==
    \A g \in Giri : WF_roundVars(CorpoDelGiro(g)) /\ WF_roundVars(Rilascia(g))

SafeSpec == Init /\ [][Next]_roundVars

Spec == SafeSpec /\ Fairness
-----------------------------------------------------------------------------
(* Properties                                                              *)

\* Type invariant.
TypeOK ==
    /\ giri \in [Nets -> Giri \union {NoGiro}]
    /\ rete \in [Giri -> Nets \union {NoRete}]
    /\ stato \in [Giri -> Stati]
    /\ esito \in [Giri -> Esiti]
    /\ fermabili \subseteq Giri
    /\ segnali \subseteq Giri
    /\ appesi \subseteq Giri
    /\ lunghi \subseteq Giri
    /\ allarmati \subseteq Giri
    /\ righe \in [Giri -> Nat]

\* INV-1: two rounds never scan and write the same network together, whoever
\* started them, however they end and however long they last.
UnGiroPerRete ==
    \A g, h \in Giri :
        InCorso(g) /\ InCorso(h) /\ rete[g] = rete[h] => g = h

\* The lock is held from the start of a round to its finally clause, and by
\* nothing else: no closed round leaves its network taken, and no running one
\* loses it.
LucchettoFinoAllaFine ==
    \A g \in Giri, n \in Nets :
        giri[n] = g <=> rete[g] = n /\ stato[g] \in Attivi \union {"finito"}

\* The duration alarm is written once per round, although it has several
\* writers (every refused start and every job that stops waiting).
UnaRigaPerGiro == \A g \in Giri : righe[g] <= 1

\* The lock table, the rounds and the alarms agree at every step: the type invariant,
\* the exactness of the lock and the single alarm (network-scan-lock.ts:118-183).
RoundsInv == TypeOK /\ LucchettoFinoAllaFine /\ UnaRigaPerGiro

\* No timeout frees the lock: the network of a hung round changes holder only
\* when the whole process restarts.
AppesoTieneLaRete ==
    [][\A n \in Nets :
          giri[n] \in appesi /\ giri'[n] # giri[n] =>
              \A g \in Giri : stato'[g] = "fuori"]_roundVars

\* Every round that does not hang gives its network back, whatever happens to
\* it: an error, a stop, a branch that forgets to close it.
ReteRestituita ==
    \A n \in Nets, g \in Giri :
        giri[n] = g ~> giri[n] # g \/ g \in appesi

\* The rounds whose body is writing a network.
ScriveOra == [n \in Nets |-> {g \in Giri : InCorso(g) /\ rete[g] = n}]

\* The lock implements the abstract promise: ADR 0006 without its lock.
Astratto == INSTANCE OneRoundPerNetwork WITH scrive <- ScriveOra

ImplementaUnGiroPerRete == Astratto!Spec

\* What `done` of each round says so far: nothing before its finally clause.
EsitoDiDone ==
    [g \in Giri |-> IF stato[g] = "chiuso" THEN esito[g] ELSE "nessuno"]

\* The rounds of the code are the rounds its callers count on: a job or a
\* sequence that awaits `done` sees an outcome exactly when the network is free
\* again, «fermato» only after a stop, and nothing else frees a network.
Chiamanti == INSTANCE NetworkRounds WITH esito <- EsitoDiDone

ImplementaGiriDiRete == Chiamanti!RoundsSpec
=============================================================================
