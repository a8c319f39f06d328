------------------------------ MODULE LogonBrake ------------------------------
(***************************************************************************)
(* The brakes on the Windows logons tried for one domain account of one    *)
(* tenant, any number of requests at once: the logons by hand              *)
(* (credentials/freno-logon-windows.ts over rate-limit.ts) and those of    *)
(* the search of a credential (credentials/conto-logon-ricerca.ts, from    *)
(* credentials/trova.ts), with the memory of the wrong passwords they      *)
(* share (scanner/account-windows.ts).                                     *)
(*                                                                         *)
(* An element of Tentativo is one attempt, from its check to the day its   *)
(* refusal is forgotten.  It stands for its own mark in the counts, which  *)
(* the code tells apart by time: two equal times are the same to it.       *)
(* Domain controller and hosts answer as they like.  What else stops an    *)
(* attempt of the search (credential-run-budget.ts, three per host) only   *)
(* removes behaviours and is left out.  All is in memory: the model is the *)
(* life of one process.                                                    *)
(***************************************************************************)
EXTENDS Naturals, FiniteSets

CONSTANTS
    Tentativo,
    Password,     \* the passwords the entries have for the account
    MaxProve,     \* MAX_PROVE_PER_ACCOUNT, MAX_LOGON_RIFIUTATI
    Finestra,     \* FINESTRA_PROVE_MS, FINESTRA_LOGON_MS
    Durata,       \* TETTO_VERIFICA_MS and the time limit of the logon
    Validita      \* VALIDITA_ERRATA_MS

ASSUME LogonAssumption ==
    /\ IsFiniteSet(Tentativo) /\ Password # {}
    /\ MaxProve \in Nat \ {0}
    /\ Finestra \in Nat /\ Durata \in Nat /\ Durata < Finestra
    /\ Validita \in Nat \ {0}

VARIABLES
    tentativi,   \* the attempts, with their age and that of the answer of the host
    segni,       \* the marks of the count by hand, reserved or refused
    rifiuti,     \* ContoLogonRicerca.rifiuti
    inCorso,     \* ContoLogonRicerca.inCorso
    ricordo,     \* RicordoErrate: what is left of the validity, 0 if forgotten
    bind         \* history: the wrong binds since the password was last forgotten

vars == <<tentativi, segni, rifiuti, inCorso, ricordo, bind>>

Via    == {"mano", "ricerca"}
Libero == [pc |-> "libero", via |-> "mano", password |-> CHOOSE p \in Password : TRUE,
           eta |-> 0, risposta |-> 0, valida |-> FALSE]

InCorso == {"verifica", "logon"}
Aperti  == {t \in Tentativo : tentativi[t].pc \in InCorso}
DelTipo(pc, via) == {t \in Tentativo : tentativi[t].pc \in pc /\ tentativi[t].via = via}

Init ==
    /\ tentativi = [t \in Tentativo |-> Libero]
    /\ segni = {} /\ rifiuti = {} /\ inCorso = 0
    /\ ricordo = [p \in Password |-> 0]
    /\ bind = [p \in Password |-> 0]

-----------------------------------------------------------------------------
(* Before the logon                                                        *)

Comincia(t, via, p) ==
    tentativi' = [tentativi EXCEPT ![t] =
        [pc |-> "verifica", via |-> via, password |-> p, eta |-> 0, risposta |-> 0,
         valida |-> FALSE]]

\* Mutant: the count is read, and the place is taken only by a refusal.
MaiPrenotata(t, p) ==
    /\ tentativi[t].pc = "libero" /\ ricordo[p] = 0
    /\ Cardinality(segni \ Aperti) < MaxProve
    /\ Comincia(t, "mano", p)
    /\ segni' = segni \union {t}
    /\ UNCHANGED <<rifiuti, inCorso, ricordo, bind>>

\* freniDelLogon up to its await: memory, count and reservation in one go.
PrenotaAMano(t, p) ==
    /\ tentativi[t].pc = "libero" /\ ricordo[p] = 0
    /\ Cardinality(segni) < MaxProve
    /\ Comincia(t, "mano", p)
    /\ segni' = segni \union {t}
    /\ UNCHANGED <<rifiuti, inCorso, ricordo, bind>>

\* trovaCredenziale takes its place, then asks the same brake without its count; a
\* password in the memory gives the place back at once, and nothing has changed.
PrenotaRicerca(t, p) ==
    /\ tentativi[t].pc = "libero" /\ ricordo[p] = 0
    /\ Cardinality(rifiuti) + inCorso < MaxProve
    /\ Comincia(t, "ricerca", p)
    /\ inCorso' = inCorso + 1
    /\ UNCHANGED <<segni, rifiuti, ricordo, bind>>

-----------------------------------------------------------------------------
(* The answers                                                             *)

\* Mutant: a refusal by hand gives its place back too.
ChiudiSempre(t, rifiutato) ==
    segni' = IF tentativi[t].via = "mano" THEN segni \ {t} ELSE segni

\* chiudi(rifiutato) of the brake by hand, with annullaTentativo; for a search it
\* does nothing.
ChiudiAMano(t, rifiutato) ==
    segni' = IF tentativi[t].via = "mano" /\ ~rifiutato THEN segni \ {t} ELSE segni

\* The place of a search: its refusals are counted from the answer.
LasciaIlPosto(t, nuovi) ==
    IF tentativi[t].via = "ricerca"
      THEN inCorso' = inCorso - 1 /\ rifiuti' = nuovi
      ELSE UNCHANGED <<inCorso, rifiuti>>

\* Mutant: the certain answer is not remembered.
ErrataScordata(t) ==
    LET p == tentativi[t].password IN
    /\ tentativi[t].pc = "verifica"
    /\ ChiudiAMano(t, FALSE)
    /\ LasciaIlPosto(t, rifiuti)
    /\ bind' = [bind EXCEPT ![p] = IF @ <= 2 * MaxProve THEN @ + 1 ELSE @]
    /\ tentativi' = [tentativi EXCEPT ![t] = Libero]
    /\ UNCHANGED ricordo

\* The domain controller says «errata»: no logon, and the password is remembered.
Errata(t) ==
    LET p == tentativi[t].password IN
    /\ tentativi[t].pc = "verifica"
    /\ ChiudiAMano(t, FALSE)
    /\ LasciaIlPosto(t, rifiuti)
    /\ ricordo' = [ricordo EXCEPT ![p] = Validita]
    /\ bind' = [bind EXCEPT ![p] = IF @ <= 2 * MaxProve THEN @ + 1 ELSE @]
    /\ tentativi' = [tentativi EXCEPT ![t] = Libero]

\* «valida», «non_so» or an exception: the logon starts.
Verificata(t, valida) ==
    /\ tentativi[t].pc = "verifica"
    /\ tentativi' = [tentativi EXCEPT ![t].pc = "logon", ![t].valida = valida]
    /\ UNCHANGED <<segni, rifiuti, inCorso, ricordo, bind>>

\* The refusals that a success of t forgives: a search forgives those of its password.
Perdonati(t) ==
    IF tentativi[t].via = "mano" THEN {}
    ELSE {u \in DelTipo({"respinto"}, "ricerca") :
            tentativi[u].password = tentativi[t].password}

\* Mutant: a success forgives the whole account.
RiuscitoPerTutti(t) ==
    /\ tentativi[t].pc = "logon"
    /\ ChiudiAMano(t, FALSE)
    /\ LasciaIlPosto(t, {})
    /\ tentativi' = [u \in Tentativo |->
                       IF u = t \/ u \in Perdonati(t) THEN Libero ELSE tentativi[u]]
    /\ UNCHANGED <<ricordo, bind>>

\* The host lets in.
Riuscito(t) ==
    /\ tentativi[t].pc = "logon"
    /\ ChiudiAMano(t, FALSE)
    /\ LasciaIlPosto(t, rifiuti \ Perdonati(t))
    /\ tentativi' = [u \in Tentativo |->
                       IF u = t \/ u \in Perdonati(t) THEN Libero ELSE tentativi[u]]
    /\ UNCHANGED <<ricordo, bind>>

\* The host answers no, or not in time: a refusal counts if the password is not known
\* to be right; by hand it also counts if it is right and the refusal is not certain.
Conta(t, certo) ==
    ~tentativi[t].valida \/ (tentativi[t].via = "mano" /\ ~certo)

Respinto(t, certo) ==
    /\ tentativi[t].pc = "logon" /\ Conta(t, certo)
    /\ ChiudiAMano(t, TRUE)
    /\ LasciaIlPosto(t, rifiuti \union {t})
    /\ tentativi' = [tentativi EXCEPT ![t].pc = "respinto"]
    /\ UNCHANGED <<ricordo, bind>>

\* A closed port, a bridge that does not start, rights that are missing.
SenzaRifiuto(t) ==
    /\ tentativi[t].pc = "logon"
    /\ ChiudiAMano(t, FALSE)
    /\ LasciaIlPosto(t, rifiuti)
    /\ tentativi' = [tentativi EXCEPT ![t] = Libero]
    /\ UNCHANGED <<ricordo, bind>>

-----------------------------------------------------------------------------
\* Time passes, and nothing in course outlives its limits.  The marks by hand age from
\* the reservation, the refusals of the searches from the answer.
Invecchia(n) == IF n < Finestra THEN n + 1 ELSE n

UnPoDopo(a) ==
    IF a.pc = "libero" \/ (a.pc = "respinto" /\ a.risposta + 1 >= Finestra) THEN Libero
    ELSE IF a.pc = "respinto" THEN [a EXCEPT !.eta = Invecchia(@), !.risposta = @ + 1]
    ELSE [a EXCEPT !.eta = Invecchia(@)]

Passa ==
    /\ \A t \in Aperti : tentativi[t].eta < Durata
    /\ tentativi' = [t \in Tentativo |-> UnPoDopo(tentativi[t])]
    /\ segni' = {t \in segni : tentativi[t].eta + 1 < Finestra}
    /\ rifiuti' = {t \in rifiuti : tentativi[t].risposta + 1 < Finestra}
    /\ ricordo' = [p \in Password |-> IF ricordo[p] = 0 THEN 0 ELSE ricordo[p] - 1]
    /\ bind' = [p \in Password |-> IF ricordo[p] <= 1 THEN 0 ELSE bind[p]]
    /\ UNCHANGED inCorso

-----------------------------------------------------------------------------
Next ==
    \/ \E t \in Tentativo, p \in Password : PrenotaAMano(t, p) \/ PrenotaRicerca(t, p)
    \/ \E t \in Tentativo :
          \/ Errata(t)
          \/ \E valida \in BOOLEAN : Verificata(t, valida)
          \/ Riuscito(t)
          \/ \E certo \in BOOLEAN : Respinto(t, certo)
          \/ SenzaRifiuto(t)
    \/ Passa

Spec == Init /\ [][Next]_vars

-----------------------------------------------------------------------------
(* Properties                                                              *)

TypeOK ==
    /\ tentativi \in [Tentativo ->
          [pc : {"libero", "verifica", "logon", "respinto"}, via : Via,
           password : Password, eta : 0..Finestra, risposta : 0..Finestra,
           valida : BOOLEAN]]
    /\ segni \subseteq Tentativo /\ rifiuti \subseteq Tentativo
    /\ inCorso \in Nat
    /\ ricordo \in [Password -> 0..Validita]
    /\ bind \in [Password -> Nat]

Verifiche(p) == {t \in Tentativo : /\ tentativi[t].pc = "verifica"
                                   /\ tentativi[t].password = p}

\* The inductive invariant.  Every place belongs to one attempt that is in course or
\* was refused, whatever the order of the answers, and is given back by nobody else;
\* a refusal by hand was answered at most Durata after its mark.
LogonInv ==
    /\ TypeOK
    /\ segni = DelTipo(InCorso, "mano")
               \union {t \in DelTipo({"respinto"}, "mano") : tentativi[t].eta < Finestra}
    /\ Cardinality(segni) <= MaxProve
    /\ rifiuti = DelTipo({"respinto"}, "ricerca")
    /\ inCorso = Cardinality(DelTipo(InCorso, "ricerca"))
    /\ Cardinality(rifiuti) + inCorso <= MaxProve
    /\ \A t \in Tentativo :
          /\ tentativi[t].pc \in InCorso =>
                tentativi[t].eta <= Durata /\ tentativi[t].risposta = 0
          /\ tentativi[t].pc = "respinto" =>
                /\ tentativi[t].eta <= tentativi[t].risposta + Durata
                /\ tentativi[t].risposta <= tentativi[t].eta
                /\ tentativi[t].risposta < Finestra
    /\ \A p \in Password :
          IF ricordo[p] = 0 THEN bind[p] = 0
          ELSE bind[p] + Cardinality(Verifiche(p)) <= 2 * MaxProve

\* «al massimo 3 in 15 minuti» by hand, measured where the account feels it, at the
\* answer of the host: the window is shorter by the time a logon may take, because
\* the mark has the time of the reservation.
ManoRada ==
    Cardinality({t \in DelTipo({"respinto"}, "mano") :
                   tentativi[t].risposta < Finestra - Durata}) <= MaxProve

\* The searches, however many and however they overlap, leave on the account at most
\* MaxProve refusals in a window, those still possible included, except of a password
\* that has been let in since.
RicercaRada ==
    Cardinality(DelTipo({"respinto"}, "ricerca")) + Cardinality(DelTipo(InCorso, "ricerca"))
        <= MaxProve

\* A wrong password costs the account a bind for each place there is, not one for each
\* request or each host, until it is forgotten.
BindContati == \A p \in Password : bind[p] <= 2 * MaxProve
=============================================================================
