---------------------------- MODULE NetworkRounds ----------------------------
(***************************************************************************)
(* A round as its callers see it: it opens on a free network, it can be    *)
(* stopped, warned about or hang, and it closes with an outcome that       *)
(* whoever holds its `done` promise reads.  ScanRounds, which follows the  *)
(* code of a round, implements this; ScanJobs and ScanSequences are built  *)
(* on it.                                                                  *)
(***************************************************************************)
EXTENDS Naturals

CONSTANTS
    Nets,      \* keys "tenant:rete" of the lock table
    Giri,      \* scan ids
    NoGiro     \* no round

ASSUME NetworkRoundsAssumption == NoGiro \notin Giri

VARIABLES
    giri,        \* lock table: the round that holds each network, or NoGiro
    esito,       \* what `done` of a closed round says; "nessuno" before
    segnali,     \* rounds whose stop was asked
    appesi,      \* rounds that will never close
    allarmati    \* rounds with their duration alarm written

roundVars == <<giri, esito, segnali, appesi, allarmati>>

Esiti == {"nessuno", "completed", "failed", "fermato"}

Aperto(g) == \E n \in Nets : giri[n] = g
Chiuso(g) == esito[g] # "nessuno"

RoundsTypeOK ==
    /\ giri \in [Nets -> Giri \union {NoGiro}]
    /\ esito \in [Giri -> Esiti]
    /\ segnali \subseteq Giri
    /\ appesi \subseteq Giri
    /\ allarmati \subseteq Giri

RoundsInit ==
    /\ giri = [n \in Nets |-> NoGiro]
    /\ esito = [g \in Giri |-> "nessuno"]
    /\ segnali = {}
    /\ appesi = {}
    /\ allarmati = {}

\* A start that finds the network free.
Apre(n, g) ==
    /\ giri[n] = NoGiro
    /\ ~Aperto(g)
    /\ ~Chiuso(g)
    /\ giri' = [giri EXCEPT ![n] = g]
    /\ UNCHANGED <<esito, segnali, appesi, allarmati>>

\* The body of the round is over and its finally clause has run.
Chiude(g, x) ==
    /\ Aperto(g)
    /\ g \notin appesi
    /\ x = "fermato" => g \in segnali
    /\ giri' = [n \in Nets |-> IF giri[n] = g THEN NoGiro ELSE giri[n]]
    /\ esito' = [esito EXCEPT ![g] = x]
    /\ segnali' = segnali \ {g}
    /\ allarmati' = allarmati \ {g}
    /\ UNCHANGED appesi

\* fermaGiro on a registered round.
Segnala(g) ==
    /\ Aperto(g)
    /\ segnali' = segnali \union {g}
    /\ UNCHANGED <<giri, esito, appesi, allarmati>>

Appende(g) ==
    /\ Aperto(g)
    /\ appesi' = appesi \union {g}
    /\ UNCHANGED <<giri, esito, segnali, allarmati>>

\* scriviAllarme, for the round that holds a network.
Avvisa(g) ==
    /\ Aperto(g)
    /\ allarmati' = allarmati \union {g}
    /\ UNCHANGED <<giri, esito, segnali, appesi>>

\* The id of a closed round is forgotten.
Dimentica(g) ==
    /\ Chiuso(g)
    /\ esito' = [esito EXCEPT ![g] = "nessuno"]
    /\ UNCHANGED <<giri, segnali, appesi, allarmati>>

\* The process restarts.
Crollo ==
    /\ giri' = [n \in Nets |-> NoGiro]
    /\ esito' = [g \in Giri |-> "nessuno"]
    /\ segnali' = {}
    /\ appesi' = {}
    /\ allarmati' = {}

RoundsNext ==
    \/ \E n \in Nets, g \in Giri : Apre(n, g)
    \/ \E g \in Giri, x \in Esiti \ {"nessuno"} : Chiude(g, x)
    \/ \E g \in Giri : Segnala(g) \/ Appende(g) \/ Avvisa(g) \/ Dimentica(g)
    \/ Crollo

RoundsSpec == RoundsInit /\ [][RoundsNext]_roundVars
=============================================================================
