-------------------------------- MODULE Outbox --------------------------------
(***************************************************************************)
(* What the outbox promises to those who queue a body and to the hub,      *)
(* whatever rounds, takings, tokens, pings and restarts stand behind it:   *)
(* only a row in wait is delivered or changes because of an answer, it is  *)
(* confirmed only after the hub has it, a new inventory makes old every    *)
(* one in wait and no export, and a row out of the queue stays out, but a  *)
(* refused export that is queued again.  VulcanQueue implements this.      *)
(***************************************************************************)
CONSTANTS
    Inventari,   \* bodies of the inventory: a new one makes the ones in wait old
    Export       \* the other bodies

VARIABLES
    stato,       \* of each body: the column stato, or "assente"
    arrivati,    \* the bodies the hub has received
    confermati   \* the bodies whose answer came back

outboxVars == <<stato, arrivati, confermati>>

Corpi  == Inventari \union Export
Uscite == {"inviato", "scartato", "superato"}

Attende(c) == stato[c] = "in_attesa"
Diventa(c, s) == stato' = [stato EXCEPT ![c] = s]

Init ==
    /\ stato = [c \in Corpi |-> "assente"]
    /\ arrivati = {}
    /\ confermati = {}

\* An export enters, or comes back after a refusal.
EntraExport(c) ==
    /\ stato[c] \in {"assente", "scartato"}
    /\ Diventa(c, "in_attesa")
    /\ UNCHANGED <<arrivati, confermati>>

\* An inventory is always a new body: the ones in wait are old, and some of the rows
\* that are out of the queue are forgotten.
EntraInventario(c, V) ==
    /\ stato[c] = "assente"
    /\ \A b \in V : stato[b] \in Uscite
    /\ stato' = [b \in Corpi |->
                    CASE b = c                        -> "in_attesa"
                      [] b \in V                      -> "assente"
                      [] b \in Inventari /\ Attende(b) -> "superato"
                      [] OTHER                        -> stato[b]]
    /\ arrivati' = arrivati \ V
    /\ confermati' = confermati \ V

Arriva(c) ==
    /\ Attende(c)
    /\ arrivati' = arrivati \union {c}
    /\ UNCHANGED <<stato, confermati>>

Conferma(c) ==
    /\ Attende(c) /\ c \in arrivati
    /\ Diventa(c, "inviato")
    /\ confermati' = confermati \union {c}
    /\ UNCHANGED arrivati

\* Refused for good, or given up after the last try.
Chiude(c, s) ==
    /\ Attende(c)
    /\ Diventa(c, s)
    /\ UNCHANGED <<arrivati, confermati>>

\* «Invia ora»: everything given up is tried again.
Rimette ==
    /\ stato' = [c \in Corpi |-> IF stato[c] = "fallito" THEN "in_attesa" ELSE stato[c]]
    /\ UNCHANGED <<arrivati, confermati>>

Next ==
    \/ \E c \in Export : EntraExport(c)
    \/ \E c \in Inventari, V \in SUBSET Corpi : EntraInventario(c, V)
    \/ \E c \in Corpi : Arriva(c) \/ Conferma(c)
    \/ \E c \in Corpi, s \in {"scartato", "fallito"} : Chiude(c, s)
    \/ Rimette

Spec == Init /\ [][Next]_outboxVars
-----------------------------------------------------------------------------
(* What follows for the reader of the table                                *)

\* Sent means that the hub has the body, a confirmed body is sent, and no new
\* inventory ever makes an export old.
Promessa ==
    /\ \A c \in Corpi : stato[c] = "inviato" => c \in arrivati
    /\ \A c \in confermati \intersect Corpi : stato[c] = "inviato"
    /\ \A c \in Export : stato[c] # "superato"
=============================================================================
