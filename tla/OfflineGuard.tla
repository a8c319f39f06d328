----------------------------- MODULE OfflineGuard -----------------------------
(***************************************************************************)
(* The online/offline status of the hosts of one network: the rounds that  *)
(* write it (scanner/discovery.ts, phases 1, 3 and 4), the safety          *)
(* threshold with its pending set (scanner/offline-guard.ts), the check of *)
(* the known hosts (cron/jobs.ts), which takes no lock, and failures       *)
(* between the two writes of the pass.  ScanRounds shows that at most one  *)
(* round at a time runs here.                                              *)
(*                                                                         *)
(* Time is kept as what the code asks of it: last_seen is compared, with   *)
(* the resolution of a second, with the start of the running round only.   *)
(***************************************************************************)
EXTENDS Naturals, FiniteSets

CONSTANTS
    Hosts,   \* the hosts of the network
    Pct,     \* offline_guard_pct
    Min      \* offline_guard_min

ASSUME GuardAssumption ==
    /\ IsFiniteSet(Hosts)
    /\ Pct \in 1..100
    /\ Min \in Nat \ {0}

VARIABLES
    stato,      \* hosts.status: "offline", or "online" for all that is not
    sospesi,    \* tenant_settings offline_guard_pending:<rete>
    modo,       \* offline_guard_mode
    scansione,  \* the running round
    adesso,     \* hosts whose last_seen is the current second
    recenti,    \* hosts whose last_seen is not before the start of the round
    persi,      \* history: hosts missed by the last pass that looked at them
    silenzi     \* history: passes that missed each host since it was seen alive

varsGuard == <<stato, sospesi, modo, scansione, adesso, recenti, persi, silenzi>>

Stati == {"online", "offline"}

NessunaScansione == [pc |-> "fermo", perimetro |-> {}, vivi |-> {}, daScrivere |-> {}]

InitGuard ==
    /\ stato \in [Hosts -> Stati]
    /\ sospesi = {}
    /\ modo \in {"registra", "applica"}
    /\ scansione = NessunaScansione
    /\ adesso = {}
    /\ recenti = {}
    /\ persi = {}
    /\ silenzi = [h \in Hosts |-> 0]

\* UPDATE hosts SET status = 'online', last_seen = datetime('now').
VistoVivo(h) ==
    /\ stato' = [stato EXCEPT ![h] = "online"]
    /\ adesso' = adesso \union {h}
    /\ recenti' = IF scansione.pc = "giro" THEN recenti \union {h} ELSE recenti
    /\ silenzi' = [silenzi EXCEPT ![h] = 0]

-----------------------------------------------------------------------------
(* A round: the start, the answers, the writes, the pass                   *)

\* Mutant: the second of the start counts as before it.
CominciaStessoSecondo(P) ==
    /\ scansione.pc = "fermo"
    /\ scansione' = [NessunaScansione EXCEPT !.pc = "giro", !.perimetro = P]
    /\ recenti' = {}
    /\ UNCHANGED <<stato, sospesi, modo, adesso, persi, silenzi>>

\* P: the hosts whose address is scanned and whose ping could be decided.
Comincia(P) ==
    /\ scansione.pc = "fermo"
    /\ scansione' = [NessunaScansione EXCEPT !.pc = "giro", !.perimetro = P]
    /\ recenti' = adesso
    /\ UNCHANGED <<stato, sospesi, modo, adesso, persi, silenzi>>

Risponde(h) ==
    /\ scansione.pc = "giro"
    /\ h \in scansione.perimetro \ scansione.vivi
    /\ scansione' = [scansione EXCEPT !.vivi = @ \union {h}, !.daScrivere = @ \union {h}]
    /\ UNCHANGED <<stato, sospesi, modo, adesso, recenti, persi, silenzi>>

\* upsertHost of a host that answered.
Scrive(h) ==
    /\ scansione.pc = "giro"
    /\ h \in scansione.daScrivere
    /\ scansione' = [scansione EXCEPT !.daScrivere = @ \ {h}]
    /\ VistoVivo(h)
    /\ UNCHANGED <<sospesi, modo, persi>>

\* The write of one host throws: the round goes on (try/catch per host).
ScritturaFallita(h) ==
    /\ scansione.pc = "giro"
    /\ h \in scansione.daScrivere
    /\ scansione' = [scansione EXCEPT !.daScrivere = @ \ {h}]
    /\ UNCHANGED <<stato, sospesi, modo, adesso, recenti, persi, silenzi>>

\* Mutant: the host seen after the start of the round is not left alone.
CandidatiSenzaFiltro ==
    {h \in scansione.perimetro \ scansione.vivi : stato[h] # "offline"}

\* selectOfflineCandidates: scanned, silent, not offline, not seen since the
\* start of the round (WHERE_OFFLINE).
Candidati ==
    {h \in scansione.perimetro \ scansione.vivi : stato[h] # "offline" /\ h \notin recenti}

\* contaHostAttiviScansionati
HostAttivi == {h \in scansione.perimetro : stato[h] # "offline"}

SogliaSuperata ==
    /\ Cardinality(Candidati) >= Min
    /\ Cardinality(Candidati) * 100 > Pct * Cardinality(HostAttivi)

Trattiene == modo = "applica" /\ SogliaSuperata

\* Mutant: other candidates than the pass before, and the count starts again
\* (the alternative ADR 0006 rejects).
DaApplicareSoloUguali ==
    IF Trattiene THEN (IF Candidati = sospesi THEN Candidati ELSE {})
                 ELSE Candidati

\* decidiPassaggioOffline, daApplicare: over the threshold only those that the
\* pass before held back.
DaApplicare == IF Trattiene THEN Candidati \intersect sospesi ELSE Candidati

\* Mutant: a targeted round clears what it did not look at (revision 3b).
NuovoSoloDentro == IF Trattiene THEN Candidati \ sospesi ELSE {}

\* Mutant: the hosts held back and now turned off stay in the set, and a
\* host that came back is still there at the fall after.
NuovoMaiTolto == sospesi \union IF Trattiene THEN Candidati ELSE {}

\* decidiPassaggioOffline, nuovoInSospeso.
NuovoInSospeso ==
    (sospesi \ scansione.perimetro) \union
    IF Trattiene THEN Candidati \ sospesi ELSE {}

\* markHostsOffline, in one transaction.
MandaOffline ==
    stato' = [h \in Hosts |-> IF h \in DaApplicare THEN "offline" ELSE stato[h]]

\* The pass of phase 4: no await inside it, so nobody interleaves.
PassaggioOffline ==
    /\ scansione.pc = "giro" /\ scansione.daScrivere = {}
    /\ MandaOffline
    /\ sospesi' = NuovoInSospeso
    /\ persi' = (persi \ scansione.perimetro) \union Candidati
    /\ silenzi' = [h \in Hosts |->
          IF h \notin scansione.perimetro THEN silenzi[h]
          ELSE IF h \notin Candidati THEN 0
          ELSE IF silenzi[h] = 0 THEN 1 ELSE 2]
    /\ scansione' = NessunaScansione
    /\ recenti' = {}
    /\ UNCHANGED <<modo, adesso>>

\* The process dies, or the second write throws, between the transaction and
\* the pending set: the hosts are off, the set is the old one.
PassaggioInterrotto ==
    /\ scansione.pc = "giro" /\ scansione.daScrivere = {}
    /\ MandaOffline
    /\ scansione' = NessunaScansione
    /\ recenti' = {}
    /\ UNCHANGED <<sospesi, modo, adesso, persi, silenzi>>

\* A round that ends without the pass: it turns nobody off, it was stopped, or
\* the process died (nothing of the round was on disk, the pending set is).
Finisce ==
    /\ scansione.pc = "giro"
    /\ scansione' = NessunaScansione
    /\ recenti' = {}
    /\ UNCHANGED <<stato, sospesi, modo, adesso, persi, silenzi>>

-----------------------------------------------------------------------------
(* The check of the known hosts takes no lock: it writes what it found of   *)
(* one host at any moment of a round.                                       *)

\* recordHostHeartbeat, alive and silent.
BattitoVivo(h) ==
    /\ VistoVivo(h)
    /\ UNCHANGED <<sospesi, modo, scansione, persi>>

BattitoMuto(h) ==
    /\ stato' = [stato EXCEPT ![h] = "offline"]
    /\ UNCHANGED <<sospesi, modo, scansione, adesso, recenti, persi, silenzi>>

\* The clock of the database goes to the next second.
Secondo ==
    /\ adesso' = {}
    /\ UNCHANGED <<stato, sospesi, modo, scansione, recenti, persi, silenzi>>

CambiaModo ==
    /\ modo' = IF modo = "applica" THEN "registra" ELSE "applica"
    /\ UNCHANGED <<stato, sospesi, scansione, adesso, recenti, persi, silenzi>>

-----------------------------------------------------------------------------
NextGuard ==
    \/ \E P \in SUBSET Hosts : Comincia(P)
    \/ \E h \in Hosts : Risponde(h) \/ Scrive(h) \/ ScritturaFallita(h)
    \/ PassaggioOffline
    \/ PassaggioInterrotto
    \/ Finisce
    \/ \E h \in Hosts : BattitoVivo(h) \/ BattitoMuto(h)
    \/ Secondo
    \/ CambiaModo

SpecGuard == InitGuard /\ [][NextGuard]_varsGuard
-----------------------------------------------------------------------------
(* Properties                                                              *)

\* Type invariant; a host with an unwritten answer answered, and who was seen
\* in this second was not seen before the round.
TypeOKGuard ==
    /\ stato \in [Hosts -> Stati]
    /\ sospesi \subseteq Hosts
    /\ modo \in {"registra", "applica"}
    /\ scansione \in [pc : {"fermo", "giro"}, perimetro : SUBSET Hosts,
                      vivi : SUBSET Hosts, daScrivere : SUBSET Hosts]
    /\ scansione.daScrivere \subseteq scansione.vivi /\ scansione.vivi \subseteq scansione.perimetro
    /\ adesso \subseteq Hosts
    /\ recenti \subseteq Hosts
    /\ scansione.pc = "giro" => adesso \subseteq recenti
    /\ persi \subseteq Hosts
    /\ silenzi \in [Hosts -> 0..2]

Passa == scansione.pc = "giro" /\ scansione'.pc = "fermo"
Spenti == {h \in Hosts : stato[h] # "offline" /\ stato'[h] = "offline"}

\* The end of a round never turns off a host that anybody saw alive after the
\* round began (T3-20): the round itself, the check of the known hosts.
VistoDopoNonSiSpegne == [][Passa => Spenti \intersect recenti = {}]_varsGuard

\* A round decides only inside its perimeter: hosts it did not look at keep
\* their status and their place in the pending set (revision 3b).
FuoriPerimetroIntatto ==
    [][Passa => /\ Spenti \subseteq scansione.perimetro
                /\ sospesi' \ scansione.perimetro = sospesi \ scansione.perimetro]_varsGuard

\* In «applica» a fall over the threshold turns off only hosts that were missed
\* also by the pass before of those that looked at them (ADR 0006, decision 5:
\* the candidates of both rounds).
CaloSpentoSoloConfermato ==
    [][Passa /\ Trattiene => Spenti \subseteq persi]_varsGuard

\* The guard never blocks for ever: a host that two passes that look at it miss
\* without it being seen in between is off, whatever the threshold and
\* whatever other hosts did.
DueSilenziSpengono ==
    \A h \in Hosts : silenzi[h] = 2 => stato[h] = "offline"

\* Stated by ADR 0006, line 80 («Un host tornato vivo esce dall'insieme da
\* solo»): who a fall over the threshold turns off was not seen alive since it
\* was held back.  Refuted: the check of the known hosts, and a round without
\* the pass, see a host alive and leave it pending.
TornatoVivoEsce ==
    [][Passa /\ Trattiene => \A h \in Spenti : silenzi[h] >= 1]_varsGuard
=============================================================================
