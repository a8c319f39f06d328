------------------------- MODULE OneRoundPerNetwork -------------------------
(***************************************************************************)
(* What ADR 0006 promises, without a lock: at any time at most one round   *)
(* writes the hosts of a network.  A round enters a network that nobody is *)
(* writing, leaves it when its body is over, and a crash of the process    *)
(* ends them all.  ScanRounds (the lock table, the start path and the      *)
(* closing path of the code) is shown to implement this.                   *)
(***************************************************************************)
EXTENDS Naturals

CONSTANTS
    Nets,   \* the networks of a tenant ("tenant:rete" keys of the lock table)
    Giri    \* the identities a round can have

VARIABLE scrive   \* scrive[n]: the rounds whose body is writing network n

TypeOK == scrive \in [Nets -> SUBSET Giri]

Init == scrive = [n \in Nets |-> {}]

Entra(n, g) ==
    /\ scrive[n] = {}
    /\ \A m \in Nets : g \notin scrive[m]
    /\ scrive' = [scrive EXCEPT ![n] = {g}]

Esce(n, g) ==
    /\ g \in scrive[n]
    /\ scrive' = [scrive EXCEPT ![n] = @ \ {g}]

Crollo == scrive' = [n \in Nets |-> {}]

Next ==
    \/ \E n \in Nets, g \in Giri : Entra(n, g) \/ Esce(n, g)
    \/ Crollo

Spec == Init /\ [][Next]_scrive
=============================================================================
