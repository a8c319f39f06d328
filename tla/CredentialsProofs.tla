-------------------------- MODULE CredentialsProofs ---------------------------
(*****************************************************************************)
(* The credentials, for every value of the constants.  LogonBrake, for every *)
(* number of requests and of passwords and for every limit: each place       *)
(* belongs to one attempt, hence no window holds more refusals than the      *)
(* limit, and a wrong password costs at most two binds for each place.       *)
(* VaultRekey, for every number of databases: an applied run that has ended  *)
(* leaves nothing of the old key, and whoever runs reads every value.        *)
(*****************************************************************************)
EXTENDS LogonBrake, VaultRekey, FiniteSetTheorems, TLAPS

\* The parts of LogonInv.
PostiAMano ==
    segni = DelTipo(InCorso, "mano")
            \union {t \in DelTipo({"respinto"}, "mano") : tentativi[t].eta < Finestra}
LimiteAMano == Cardinality(segni) <= MaxProve
PostiRicerca ==
    /\ rifiuti = DelTipo({"respinto"}, "ricerca")
    /\ inCorso = Cardinality(DelTipo(InCorso, "ricerca"))
LimiteRicerca == Cardinality(rifiuti) + inCorso <= MaxProve
EtaGiuste ==
    \A t \in Tentativo :
       /\ tentativi[t].pc \in InCorso =>
             tentativi[t].eta <= Durata /\ tentativi[t].risposta = 0
       /\ tentativi[t].pc = "respinto" =>
             /\ tentativi[t].eta <= tentativi[t].risposta + Durata
             /\ tentativi[t].risposta <= tentativi[t].eta
             /\ tentativi[t].risposta < Finestra
BindGiusti ==
    \A p \in Password :
       IF ricordo[p] = 0 THEN bind[p] = 0
       ELSE bind[p] + Cardinality(Verifiche(p)) <= 2 * MaxProve

LEMMA InParti ==
    LogonInv <=> /\ TypeOK /\ PostiAMano /\ LimiteAMano
                 /\ PostiRicerca /\ LimiteRicerca /\ EtaGiuste /\ BindGiusti
BY DEF LogonInv, PostiAMano, LimiteAMano, PostiRicerca, LimiteRicerca, EtaGiuste, BindGiusti

\* The type of an attempt.
Tipo == [pc : {"libero", "verifica", "logon", "respinto"}, via : Via,
         password : Password, eta : 0..Finestra, risposta : 0..Finestra, valida : BOOLEAN]

LEMMA LiberoTipo ==
    Libero \in Tipo /\ Libero.pc = "libero"
BY LogonAssumption DEF Libero, Tipo, Via

\* Every set of attempts is finite, and a smaller one has no more elements.
LEMMA Insiemi ==
    ASSUME NEW S \in SUBSET Tentativo
    PROVE  /\ IsFiniteSet(S) /\ Cardinality(S) \in Nat
           /\ \A R \in SUBSET S : Cardinality(R) \in Nat /\ Cardinality(R) <= Cardinality(S)
           /\ \A t \in S : Cardinality(S \ {t}) = Cardinality(S) - 1
           /\ \A t \in Tentativo \ S : Cardinality(S \union {t}) = Cardinality(S) + 1
<1>1. IsFiniteSet(S)
  BY LogonAssumption, FS_Subset
<1>2. Cardinality(S) \in Nat
  BY <1>1, FS_CardinalityType
<1>3. ASSUME NEW R \in SUBSET S
      PROVE  Cardinality(R) \in Nat /\ Cardinality(R) <= Cardinality(S)
  BY <1>1, <1>3, FS_Subset, FS_CardinalityType
<1>4. \A t \in S : Cardinality(S \ {t}) = Cardinality(S) - 1
  BY <1>1, FS_RemoveElement
<1>5. \A t \in Tentativo \ S : Cardinality(S \union {t}) = Cardinality(S) + 1
  BY <1>1, FS_AddElement
<1> QED
  BY <1>1, <1>2, <1>3, <1>4, <1>5

LEMMA Sottoinsiemi ==
    /\ \A pc, via : DelTipo(pc, via) \in SUBSET Tentativo
    /\ \A p : Verifiche(p) \in SUBSET Tentativo
BY DEF DelTipo, Verifiche

\* No more verifications of one password than places.
LEMMA VerificheNeiPosti ==
    ASSUME LogonInv, NEW p \in Password
    PROVE  Cardinality(Verifiche(p)) \in Nat /\ Cardinality(Verifiche(p)) <= 2 * MaxProve
<1> DEFINE M == DelTipo(InCorso, "mano")
           R == DelTipo(InCorso, "ricerca")
<1>1. Verifiche(p) \subseteq M \union R
  BY DEF LogonInv, TypeOK, Verifiche, DelTipo, InCorso, Via
<1>2. M \subseteq segni /\ segni \in SUBSET Tentativo
  BY DEF LogonInv, TypeOK
<1>3. Cardinality(M) <= MaxProve /\ Cardinality(M) \in Nat
  <2>1. Cardinality(M) <= Cardinality(segni) /\ Cardinality(M) \in Nat /\ Cardinality(segni) \in Nat
    BY <1>2, Insiemi
  <2> QED
    BY <2>1, LogonAssumption DEF LogonInv
<1>4. Cardinality(R) <= MaxProve /\ Cardinality(R) \in Nat
  <2>1. Cardinality(rifiuti) \in Nat /\ Cardinality(R) \in Nat
    BY Insiemi, Sottoinsiemi DEF LogonInv, TypeOK
  <2> QED
    BY <2>1, LogonAssumption DEF LogonInv
<1>5. Cardinality(M \union R) <= Cardinality(M) + Cardinality(R)
  <2>1. IsFiniteSet(M) /\ IsFiniteSet(R) /\ M \cap R \in SUBSET Tentativo
    BY Insiemi, Sottoinsiemi
  <2>2. Cardinality(M \cap R) \in Nat
    BY <2>1, Insiemi
  <2>3. Cardinality(M \union R) = Cardinality(M) + Cardinality(R) - Cardinality(M \cap R)
    BY <2>1, FS_Union
  <2> QED
    BY <2>2, <2>3, <1>3, <1>4
<1>6. Cardinality(Verifiche(p)) \in Nat /\ Cardinality(Verifiche(p)) <= Cardinality(M \union R)
  <2>1. M \union R \in SUBSET Tentativo /\ Verifiche(p) \in SUBSET (M \union R)
    BY <1>1, Sottoinsiemi
  <2> QED
    BY <2>1, Insiemi
<1>7. Cardinality(M \union R) \in Nat
  BY Insiemi, Sottoinsiemi
<1> HIDE DEF M, R
<1> QED
  BY <1>3, <1>4, <1>5, <1>6, <1>7, LogonAssumption

LEMMA Inizio == Init => LogonInv
<1> SUFFICES ASSUME Init PROVE LogonInv
  OBVIOUS
<1>1. \A t \in Tentativo : tentativi[t] = Libero /\ tentativi[t].pc = "libero"
  BY LiberoTipo DEF Init
<1>2. TypeOK
  BY <1>1, LiberoTipo, LogonAssumption DEF Init, TypeOK, Tipo
<1>3. /\ DelTipo(InCorso, "mano") = {} /\ DelTipo(InCorso, "ricerca") = {}
      /\ DelTipo({"respinto"}, "mano") = {} /\ DelTipo({"respinto"}, "ricerca") = {}
  BY <1>1 DEF DelTipo, InCorso
<1>4. Cardinality({}) = 0
  BY FS_EmptySet
<1>5. PostiAMano /\ LimiteAMano /\ PostiRicerca /\ LimiteRicerca
  BY <1>3, <1>4, LogonAssumption DEF Init, PostiAMano, LimiteAMano, PostiRicerca, LimiteRicerca
<1>6. EtaGiuste
  BY <1>1 DEF EtaGiuste, InCorso
<1>7. BindGiusti
  BY DEF Init, BindGiusti
<1> QED
  BY <1>2, <1>5, <1>6, <1>7, InParti

-----------------------------------------------------------------------------
(* One attempt changes                                                     *)

\* What the step of one attempt leaves to the others.
LEMMA UnoCambia ==
    ASSUME TypeOK, NEW t \in Tentativo, NEW r \in Tipo,
           tentativi' = [tentativi EXCEPT ![t] = r]
    PROVE  /\ tentativi' \in [Tentativo -> Tipo]
           /\ tentativi'[t] = r
           /\ \A u \in Tentativo \ {t} : tentativi'[u] = tentativi[u]
           /\ \A pc, via : DelTipo(pc, via)' =
                 IF r.pc \in pc /\ r.via = via THEN DelTipo(pc, via) \union {t}
                 ELSE DelTipo(pc, via) \ {t}
           /\ \A p : Verifiche(p)' = IF r.pc = "verifica" /\ r.password = p
                                       THEN Verifiche(p) \union {t} ELSE Verifiche(p) \ {t}
<1>1. tentativi \in [Tentativo -> Tipo]
  BY DEF TypeOK, Tipo
<1>2. /\ tentativi' \in [Tentativo -> Tipo]
      /\ tentativi'[t] = r
      /\ \A u \in Tentativo \ {t} : tentativi'[u] = tentativi[u]
  BY <1>1
<1>3. ASSUME NEW pc, NEW via
      PROVE  DelTipo(pc, via)' = IF r.pc \in pc /\ r.via = via THEN DelTipo(pc, via) \union {t}
                                 ELSE DelTipo(pc, via) \ {t}
  BY <1>2 DEF DelTipo
<1>4. ASSUME NEW p
      PROVE  Verifiche(p)' = IF r.pc = "verifica" /\ r.password = p
                               THEN Verifiche(p) \union {t} ELSE Verifiche(p) \ {t}
  BY <1>2 DEF Verifiche
<1> QED
  BY <1>2, <1>3, <1>4

LEMMA PassoPrenotaAMano ==
    ASSUME LogonInv, NEW t \in Tentativo, NEW p \in Password, PrenotaAMano(t, p)
    PROVE  LogonInv'
<1> DEFINE r == [pc |-> "verifica", via |-> "mano", password |-> p, eta |-> 0,
                 risposta |-> 0, valida |-> FALSE]
<1>1. r \in Tipo
  BY LogonAssumption DEF Tipo, Via
<1>2. tentativi' = [tentativi EXCEPT ![t] = r] /\ tentativi[t].pc = "libero"
      /\ segni' = segni \union {t} /\ Cardinality(segni) < MaxProve /\ ricordo[p] = 0
      /\ UNCHANGED <<rifiuti, inCorso, ricordo, bind>>
  BY DEF PrenotaAMano, Comincia
<1>3. TypeOK
  BY InParti
<1>4. /\ t \notin DelTipo(InCorso, "mano") /\ t \notin DelTipo({"respinto"}, "mano")
      /\ t \notin DelTipo(InCorso, "ricerca") /\ t \notin DelTipo({"respinto"}, "ricerca")
      /\ \A q \in Password : t \notin Verifiche(q)
  BY <1>2 DEF DelTipo, InCorso, Verifiche
<1>5. /\ DelTipo(InCorso, "mano")' = DelTipo(InCorso, "mano") \union {t}
      /\ DelTipo({"respinto"}, "mano")' = DelTipo({"respinto"}, "mano")
      /\ DelTipo(InCorso, "ricerca")' = DelTipo(InCorso, "ricerca")
      /\ DelTipo({"respinto"}, "ricerca")' = DelTipo({"respinto"}, "ricerca")
      /\ \A q \in Password \ {p} : Verifiche(q)' = Verifiche(q)
      /\ tentativi' \in [Tentativo -> Tipo]
      /\ tentativi'[t] = r /\ \A u \in Tentativo \ {t} : tentativi'[u] = tentativi[u]
  <2>1. r.pc = "verifica" /\ r.via = "mano" /\ r.password = p
    OBVIOUS
  <2> HIDE DEF r
  <2>2. /\ \A pc, via : DelTipo(pc, via)' =
              IF r.pc \in pc /\ r.via = via THEN DelTipo(pc, via) \union {t}
              ELSE DelTipo(pc, via) \ {t}
        /\ \A q : Verifiche(q)' = IF r.pc = "verifica" /\ r.password = q
                                    THEN Verifiche(q) \union {t} ELSE Verifiche(q) \ {t}
        /\ tentativi' \in [Tentativo -> Tipo]
        /\ tentativi'[t] = r /\ \A u \in Tentativo \ {t} : tentativi'[u] = tentativi[u]
    BY <1>1, <1>2, <1>3, UnoCambia, ZenonT(60)
  <2>3. "verifica" \in InCorso /\ "verifica" \notin {"respinto"}
    BY DEF InCorso
  <2> QED
    BY <1>4, <2>1, <2>2, <2>3
<1>6. TypeOK'
  BY <1>2, <1>3, <1>5 DEF TypeOK, Tipo
<1>7. PostiAMano'
  <2>1. {u \in DelTipo({"respinto"}, "mano") : tentativi[u].eta < Finestra}' =
           {u \in DelTipo({"respinto"}, "mano") : tentativi[u].eta < Finestra}
    BY <1>4, <1>5, Sottoinsiemi
  <2> QED
    BY <1>2, <1>5, <2>1, InParti DEF PostiAMano
<1>8. LimiteAMano'
  <2>1. t \in Tentativo \ segni /\ segni \in SUBSET Tentativo
    BY <1>3, <1>4, InParti DEF PostiAMano, TypeOK
  <2>2. Cardinality(segni') = Cardinality(segni) + 1 /\ Cardinality(segni) \in Nat
    BY <1>2, <2>1, Insiemi
  <2> QED
    BY <1>2, <2>2, LogonAssumption DEF LimiteAMano
<1>9. PostiRicerca' /\ LimiteRicerca'
  BY <1>2, <1>5, InParti DEF PostiRicerca, LimiteRicerca
<1>10. EtaGiuste'
  BY <1>5, InParti, LogonAssumption DEF EtaGiuste, InCorso
<1>11. BindGiusti'
  BY <1>2, <1>5, InParti DEF BindGiusti
<1> QED
  BY <1>6, <1>7, <1>8, <1>9, <1>10, <1>11
     DEF LogonInv, PostiAMano, LimiteAMano, PostiRicerca, LimiteRicerca, EtaGiuste, BindGiusti

LEMMA PassoPrenotaRicerca ==
    ASSUME LogonInv, NEW t \in Tentativo, NEW p \in Password, PrenotaRicerca(t, p)
    PROVE  LogonInv'
<1> DEFINE r == [pc |-> "verifica", via |-> "ricerca", password |-> p, eta |-> 0,
                 risposta |-> 0, valida |-> FALSE]
<1>1. r \in Tipo
  BY LogonAssumption DEF Tipo, Via
<1>2. tentativi' = [tentativi EXCEPT ![t] = r] /\ tentativi[t].pc = "libero"
      /\ inCorso' = inCorso + 1 /\ Cardinality(rifiuti) + inCorso < MaxProve /\ ricordo[p] = 0
      /\ UNCHANGED <<segni, rifiuti, ricordo, bind>>
  BY DEF PrenotaRicerca, Comincia
<1>3. TypeOK
  BY InParti
<1>4. /\ t \notin DelTipo(InCorso, "mano") /\ t \notin DelTipo({"respinto"}, "mano")
      /\ t \notin DelTipo(InCorso, "ricerca") /\ t \notin DelTipo({"respinto"}, "ricerca")
      /\ \A q \in Password : t \notin Verifiche(q)
  BY <1>2 DEF DelTipo, InCorso, Verifiche
<1>5. /\ DelTipo(InCorso, "mano")' = DelTipo(InCorso, "mano")
      /\ DelTipo({"respinto"}, "mano")' = DelTipo({"respinto"}, "mano")
      /\ DelTipo(InCorso, "ricerca")' = DelTipo(InCorso, "ricerca") \union {t}
      /\ DelTipo({"respinto"}, "ricerca")' = DelTipo({"respinto"}, "ricerca")
      /\ \A q \in Password \ {p} : Verifiche(q)' = Verifiche(q)
      /\ tentativi' \in [Tentativo -> Tipo]
      /\ tentativi'[t] = r /\ \A u \in Tentativo \ {t} : tentativi'[u] = tentativi[u]
  <2>1. r.pc = "verifica" /\ r.via = "ricerca" /\ r.password = p
    OBVIOUS
  <2> HIDE DEF r
  <2>2. /\ \A pc, via : DelTipo(pc, via)' =
              IF r.pc \in pc /\ r.via = via THEN DelTipo(pc, via) \union {t}
              ELSE DelTipo(pc, via) \ {t}
        /\ \A q : Verifiche(q)' = IF r.pc = "verifica" /\ r.password = q
                                    THEN Verifiche(q) \union {t} ELSE Verifiche(q) \ {t}
        /\ tentativi' \in [Tentativo -> Tipo]
        /\ tentativi'[t] = r /\ \A u \in Tentativo \ {t} : tentativi'[u] = tentativi[u]
    BY <1>1, <1>2, <1>3, UnoCambia, ZenonT(60)
  <2>3. "verifica" \in InCorso /\ "verifica" \notin {"respinto"}
    BY DEF InCorso
  <2> QED
    BY <1>4, <2>1, <2>2, <2>3
<1>6. TypeOK'
  BY <1>2, <1>3, <1>5 DEF TypeOK, Tipo
<1>7. PostiAMano' /\ LimiteAMano'
  <2>1. {u \in DelTipo({"respinto"}, "mano") : tentativi[u].eta < Finestra}' =
           {u \in DelTipo({"respinto"}, "mano") : tentativi[u].eta < Finestra}
    BY <1>4, <1>5, Sottoinsiemi
  <2> QED
    BY <1>2, <1>5, <2>1, InParti DEF PostiAMano, LimiteAMano
<1>8. PostiRicerca'
  <2>1. t \in Tentativo \ DelTipo(InCorso, "ricerca")
    BY <1>4
  <2>2. Cardinality(DelTipo(InCorso, "ricerca") \union {t})
          = Cardinality(DelTipo(InCorso, "ricerca")) + 1
    BY <2>1, Insiemi, Sottoinsiemi
  <2> QED
    BY <1>2, <1>5, <2>2, InParti DEF PostiRicerca
<1>9. LimiteRicerca'
  <2>1. Cardinality(rifiuti) \in Nat /\ inCorso \in Nat
    BY <1>3, Insiemi DEF TypeOK
  <2> QED
    BY <1>2, <2>1, LogonAssumption DEF LimiteRicerca
<1>10. EtaGiuste'
  BY <1>5, InParti, LogonAssumption DEF EtaGiuste, InCorso
<1>11. BindGiusti'
  BY <1>2, <1>5, InParti DEF BindGiusti
<1> QED
  BY <1>6, <1>7, <1>8, <1>9, <1>10, <1>11
     DEF LogonInv, PostiAMano, LimiteAMano, PostiRicerca, LimiteRicerca, EtaGiuste, BindGiusti

-----------------------------------------------------------------------------
(* An attempt ends, and with it the refusals it forgives                   *)

LEMMA Escono ==
    ASSUME LogonInv, NEW t \in Tentativo, tentativi[t].pc \in InCorso,
           NEW perd \in SUBSET DelTipo({"respinto"}, "ricerca"),
           tentativi[t].via = "mano" => perd = {},
           tentativi' = [u \in Tentativo |-> IF u = t \/ u \in perd THEN Libero ELSE tentativi[u]],
           ChiudiAMano(t, FALSE), LasciaIlPosto(t, rifiuti \ perd)
    PROVE  /\ tentativi' \in [Tentativo -> Tipo]
           /\ segni' \subseteq Tentativo /\ rifiuti' \subseteq Tentativo /\ inCorso' \in Nat
           /\ PostiAMano' /\ LimiteAMano' /\ PostiRicerca' /\ LimiteRicerca' /\ EtaGiuste'
           /\ \A p \in Password : Verifiche(p)' = Verifiche(p) \ {t}
<1>1. TypeOK /\ PostiAMano /\ LimiteAMano /\ PostiRicerca /\ LimiteRicerca /\ EtaGiuste
  BY InParti
<1>2. tentativi \in [Tentativo -> Tipo]
  BY <1>1 DEF TypeOK, Tipo
<1>3. tentativi' \in [Tentativo -> Tipo]
  BY <1>2, LiberoTipo
<1>4. \A u \in Tentativo : tentativi'[u] = IF u = t \/ u \in perd THEN Libero ELSE tentativi[u]
  OBVIOUS
<1>5. Libero.pc = "libero" /\ "libero" \notin InCorso /\ "respinto" \notin InCorso
      /\ "verifica" \in InCorso
  BY LiberoTipo DEF InCorso
<1>6. \A u \in perd : /\ u # t /\ u \in Tentativo
                      /\ tentativi[u].pc = "respinto" /\ tentativi[u].via = "ricerca"
  BY <1>5 DEF DelTipo
<1>7. /\ DelTipo(InCorso, "mano")' = DelTipo(InCorso, "mano") \ {t}
      /\ DelTipo(InCorso, "ricerca")' = DelTipo(InCorso, "ricerca") \ {t}
      /\ DelTipo({"respinto"}, "ricerca")' = DelTipo({"respinto"}, "ricerca") \ perd
      /\ t \notin DelTipo({"respinto"}, "ricerca")
  BY <1>4, <1>5, <1>6 DEF DelTipo
<1>8. {u \in DelTipo({"respinto"}, "mano") : tentativi[u].eta < Finestra}' =
         {u \in DelTipo({"respinto"}, "mano") : tentativi[u].eta < Finestra}
  BY <1>4, <1>5, <1>6 DEF DelTipo
<1>9. \A p \in Password : Verifiche(p)' = Verifiche(p) \ {t}
  BY <1>4, <1>5, <1>6 DEF Verifiche
<1>10. EtaGiuste'
  BY <1>1, <1>4, <1>5 DEF EtaGiuste
<1>11. PostiAMano' /\ LimiteAMano' /\ segni' \subseteq Tentativo
  <2>1. t \notin {u \in DelTipo({"respinto"}, "mano") : tentativi[u].eta < Finestra}
    BY <1>5 DEF DelTipo
  <2>2. PostiAMano'
    <3>1. CASE tentativi[t].via = "mano"
      <4>1. segni' = segni \ {t}
        BY <3>1 DEF ChiudiAMano
      <4> QED
        BY <1>1, <1>7, <1>8, <2>1, <4>1 DEF PostiAMano
    <3>2. CASE tentativi[t].via # "mano"
      <4>1. segni' = segni /\ t \notin DelTipo(InCorso, "mano")
        BY <3>2 DEF ChiudiAMano, DelTipo
      <4> QED
        BY <1>1, <1>7, <1>8, <4>1 DEF PostiAMano
    <3> QED
      BY <3>1, <3>2
  <2>3. segni' \in SUBSET segni /\ segni \in SUBSET Tentativo
    BY <1>1 DEF ChiudiAMano, TypeOK
  <2>4. Cardinality(segni') \in Nat /\ Cardinality(segni') <= Cardinality(segni)
        /\ Cardinality(segni) \in Nat
    BY <2>3, Insiemi
  <2> QED
    BY <1>1, <2>2, <2>3, <2>4, LogonAssumption DEF LimiteAMano
<1>12. PostiRicerca' /\ LimiteRicerca' /\ rifiuti' \subseteq Tentativo /\ inCorso' \in Nat
  <2>0. /\ rifiuti \in SUBSET Tentativo /\ inCorso \in Nat
        /\ DelTipo(InCorso, "ricerca") \in SUBSET Tentativo
    BY <1>1, Sottoinsiemi DEF TypeOK
  <2>1. CASE tentativi[t].via = "ricerca"
    <3>1. inCorso' = inCorso - 1 /\ rifiuti' = rifiuti \ perd
      BY <2>1 DEF LasciaIlPosto
    <3>2. t \in DelTipo(InCorso, "ricerca")
      BY <2>1 DEF DelTipo
    <3>3. Cardinality(DelTipo(InCorso, "ricerca") \ {t})
             = Cardinality(DelTipo(InCorso, "ricerca")) - 1
          /\ Cardinality(DelTipo(InCorso, "ricerca") \ {t}) \in Nat
      <4>1. DelTipo(InCorso, "ricerca") \ {t} \in SUBSET Tentativo
        BY <2>0
      <4> QED
        BY <2>0, <3>2, <4>1, Insiemi
    <3>4. PostiRicerca'
      BY <1>1, <1>7, <3>1, <3>3 DEF PostiRicerca
    <3>5. /\ Cardinality(rifiuti') \in Nat /\ Cardinality(rifiuti') <= Cardinality(rifiuti)
          /\ Cardinality(rifiuti) \in Nat
      <4>1. rifiuti' \in SUBSET rifiuti
        BY <3>1
      <4> QED
        BY <2>0, <4>1, Insiemi
    <3>6. inCorso' \in Nat
      BY <1>1, <3>1, <3>3 DEF PostiRicerca
    <3> QED
      BY <1>1, <2>0, <3>1, <3>4, <3>5, <3>6, LogonAssumption DEF LimiteRicerca
  <2>2. CASE tentativi[t].via # "ricerca"
    <3>1. inCorso' = inCorso /\ rifiuti' = rifiuti /\ t \notin DelTipo(InCorso, "ricerca")
      BY <2>2 DEF LasciaIlPosto, DelTipo
    <3>2. perd = {}
      BY <1>2, <2>2 DEF Tipo, Via
    <3>3. DelTipo(InCorso, "ricerca")' = DelTipo(InCorso, "ricerca")
          /\ DelTipo({"respinto"}, "ricerca")' = DelTipo({"respinto"}, "ricerca")
      BY <1>7, <3>1, <3>2
    <3> QED
      BY <1>1, <2>0, <3>1, <3>3 DEF PostiRicerca, LimiteRicerca
  <2> QED
    BY <2>1, <2>2
<1> QED
  BY <1>3, <1>9, <1>10, <1>11, <1>12

\* The binds that the others may still cost, when those of t are over.
LEMMA BindDegliAltri ==
    ASSUME LogonInv, NEW t \in Tentativo,
           \A p \in Password : Verifiche(p)' = Verifiche(p) \ {t},
           UNCHANGED <<ricordo, bind>>
    PROVE  BindGiusti'
<1>1. ASSUME NEW p \in Password
      PROVE  Cardinality(Verifiche(p)') \in Nat
             /\ Cardinality(Verifiche(p)') <= Cardinality(Verifiche(p))
             /\ Cardinality(Verifiche(p)) \in Nat
  <2>1. Verifiche(p)' \in SUBSET Verifiche(p) /\ Verifiche(p) \in SUBSET Tentativo
    BY Sottoinsiemi
  <2> QED
    BY <2>1, Insiemi
<1>2. BindGiusti /\ bind \in [Password -> Nat]
  BY InParti DEF TypeOK
<1> QED
  BY <1>1, <1>2, LogonAssumption DEF BindGiusti

LEMMA PassoErrata ==
    ASSUME LogonInv, NEW t \in Tentativo, NEW p \in Password, p = tentativi[t].password,
           Errata(t)
    PROVE  LogonInv'
<1> DEFINE V == Cardinality(Verifiche(p))
<1>1. TypeOK /\ BindGiusti /\ tentativi[t].pc = "verifica" /\ tentativi[t].pc \in InCorso
  BY InParti DEF Errata, InCorso
<1>2. p \in Password
  OBVIOUS
<1>3. /\ tentativi' = [u \in Tentativo |-> IF u = t \/ u \in {} THEN Libero ELSE tentativi[u]]
      /\ ChiudiAMano(t, FALSE) /\ LasciaIlPosto(t, rifiuti \ {})
  BY <1>1 DEF Errata, TypeOK, LasciaIlPosto
<1>4. /\ tentativi' \in [Tentativo -> Tipo]
      /\ segni' \subseteq Tentativo /\ rifiuti' \subseteq Tentativo /\ inCorso' \in Nat
      /\ PostiAMano' /\ LimiteAMano' /\ PostiRicerca' /\ LimiteRicerca' /\ EtaGiuste'
      /\ \A q \in Password : Verifiche(q)' = Verifiche(q) \ {t}
  <2>1. {} \in SUBSET DelTipo({"respinto"}, "ricerca")
    OBVIOUS
  <2> QED
    BY <1>1, <1>3, <2>1, Escono
<1>5. /\ ricordo' = [ricordo EXCEPT ![p] = Validita]
      /\ bind' = [bind EXCEPT ![p] = IF bind[p] <= 2 * MaxProve THEN bind[p] + 1 ELSE bind[p]]
  BY DEF Errata
<1>6. bind \in [Password -> Nat] /\ ricordo \in [Password -> 0..Validita]
  BY <1>1 DEF TypeOK
<1>7. TypeOK'
  <2>1. bind' \in [Password -> Nat]
    BY <1>2, <1>5, <1>6
  <2>2. ricordo' \in [Password -> 0..Validita]
    BY <1>2, <1>5, <1>6, LogonAssumption
  <2> QED
    BY <1>4, <2>1, <2>2 DEF TypeOK, Tipo
<1>8. V \in Nat /\ V <= 2 * MaxProve /\ Cardinality(Verifiche(p)') = V - 1
  <2>1. t \in Verifiche(p)
    BY <1>1 DEF Verifiche
  <2> QED
    BY <1>2, <1>4, <2>1, VerificheNeiPosti, Insiemi, Sottoinsiemi
<1>9. bind'[p] + Cardinality(Verifiche(p)') <= 2 * MaxProve /\ ricordo'[p] # 0
  <2>1. bind[p] \in Nat /\ bind'[p] <= bind[p] + 1 /\ bind'[p] \in Nat /\ ricordo'[p] = Validita
    BY <1>2, <1>5, <1>6
  <2>2. bind[p] = 0 \/ bind[p] + V <= 2 * MaxProve
    BY <1>1, <1>2 DEF BindGiusti
  <2> HIDE DEF V
  <2> QED
    BY <1>8, <2>1, <2>2, LogonAssumption
<1>10. ASSUME NEW q \in Password, q # p
       PROVE  IF ricordo'[q] = 0 THEN bind'[q] = 0
              ELSE bind'[q] + Cardinality(Verifiche(q)') <= 2 * MaxProve
  <2>1. ricordo'[q] = ricordo[q] /\ bind'[q] = bind[q] /\ bind[q] \in Nat
    BY <1>5, <1>6, <1>10
  <2>2. Verifiche(q)' = Verifiche(q)
    BY <1>4, <1>10 DEF Verifiche
  <2> QED
    BY <1>1, <2>1, <2>2 DEF BindGiusti
<1>11. BindGiusti'
  BY <1>2, <1>9, <1>10 DEF BindGiusti
<1> QED
  BY <1>4, <1>7, <1>11
     DEF LogonInv, PostiAMano, LimiteAMano, PostiRicerca, LimiteRicerca, EtaGiuste, BindGiusti

LEMMA PassoEsce ==
    ASSUME LogonInv, NEW t \in Tentativo, Riuscito(t) \/ SenzaRifiuto(t) PROVE LogonInv'
<1> DEFINE perd == IF Riuscito(t) THEN Perdonati(t) ELSE {}
<1>1. TypeOK /\ tentativi[t].pc \in InCorso /\ UNCHANGED <<ricordo, bind>>
  BY InParti DEF Riuscito, SenzaRifiuto, InCorso
<1>2. perd \in SUBSET DelTipo({"respinto"}, "ricerca") /\ (tentativi[t].via = "mano" => perd = {})
  BY DEF Perdonati
<1>3. /\ tentativi' = [u \in Tentativo |-> IF u = t \/ u \in perd THEN Libero ELSE tentativi[u]]
      /\ ChiudiAMano(t, FALSE) /\ LasciaIlPosto(t, rifiuti \ perd)
  <2>1. CASE Riuscito(t)
    BY <2>1 DEF Riuscito
  <2>2. CASE ~Riuscito(t)
    BY <1>1, <2>2 DEF SenzaRifiuto, TypeOK, LasciaIlPosto
  <2> QED
    BY <2>1, <2>2
<1> HIDE DEF perd
<1>4. /\ tentativi' \in [Tentativo -> Tipo]
      /\ segni' \subseteq Tentativo /\ rifiuti' \subseteq Tentativo /\ inCorso' \in Nat
      /\ PostiAMano' /\ LimiteAMano' /\ PostiRicerca' /\ LimiteRicerca' /\ EtaGiuste'
      /\ \A q \in Password : Verifiche(q)' = Verifiche(q) \ {t}
  BY <1>1, <1>2, <1>3, Escono
<1>5. BindGiusti'
  BY <1>1, <1>4, BindDegliAltri
<1>6. TypeOK'
  BY <1>1, <1>4 DEF TypeOK, Tipo
<1> QED
  BY <1>4, <1>5, <1>6
     DEF LogonInv, PostiAMano, LimiteAMano, PostiRicerca, LimiteRicerca, EtaGiuste, BindGiusti

-----------------------------------------------------------------------------
(* An attempt goes on, or is refused                                       *)

LEMMA PassoVerificata ==
    ASSUME LogonInv, NEW t \in Tentativo, NEW valida \in BOOLEAN, Verificata(t, valida)
    PROVE  LogonInv'
<1>1. TypeOK /\ PostiAMano /\ LimiteAMano /\ PostiRicerca /\ LimiteRicerca /\ EtaGiuste
  BY InParti
<1>2. tentativi \in [Tentativo -> Tipo]
  BY <1>1 DEF TypeOK, Tipo
<1>3. /\ tentativi[t].pc = "verifica"
      /\ tentativi' = [tentativi EXCEPT ![t] = [tentativi[t] EXCEPT !.pc = "logon", !.valida = valida]]
      /\ UNCHANGED <<segni, rifiuti, inCorso, ricordo, bind>>
  BY <1>2 DEF Verificata
<1>4. /\ tentativi' \in [Tentativo -> Tipo]
      /\ tentativi'[t].pc = "logon" /\ tentativi'[t].via = tentativi[t].via
      /\ tentativi'[t].eta = tentativi[t].eta /\ tentativi'[t].risposta = tentativi[t].risposta
      /\ \A u \in Tentativo \ {t} : tentativi'[u] = tentativi[u]
  BY <1>2, <1>3 DEF Tipo
<1>5. "verifica" \in InCorso /\ "logon" \in InCorso /\ "verifica" # "respinto" /\ "logon" # "respinto"
  BY DEF InCorso
<1>6. \A pc, via : pc \in {InCorso, {"respinto"}} => DelTipo(pc, via)' = DelTipo(pc, via)
  BY <1>3, <1>4, <1>5 DEF DelTipo
<1>7. {u \in DelTipo({"respinto"}, "mano") : tentativi[u].eta < Finestra}' =
         {u \in DelTipo({"respinto"}, "mano") : tentativi[u].eta < Finestra}
  BY <1>3, <1>4, <1>5 DEF DelTipo
<1>8. PostiAMano' /\ LimiteAMano' /\ PostiRicerca' /\ LimiteRicerca'
  BY <1>1, <1>3, <1>6, <1>7 DEF PostiAMano, LimiteAMano, PostiRicerca, LimiteRicerca
<1>9. EtaGiuste'
  BY <1>1, <1>3, <1>4, <1>5 DEF EtaGiuste
<1>10. \A p \in Password : Verifiche(p)' = Verifiche(p) \ {t}
  BY <1>4, <1>5 DEF Verifiche
<1>11. BindGiusti'
  BY <1>3, <1>10, BindDegliAltri
<1>12. TypeOK'
  BY <1>1, <1>3, <1>4 DEF TypeOK, Tipo
<1> QED
  BY <1>8, <1>9, <1>11, <1>12
     DEF LogonInv, PostiAMano, LimiteAMano, PostiRicerca, LimiteRicerca, EtaGiuste, BindGiusti

LEMMA PassoRespinto ==
    ASSUME LogonInv, NEW t \in Tentativo, NEW certo \in BOOLEAN, Respinto(t, certo)
    PROVE  LogonInv'
<1>1. TypeOK /\ PostiAMano /\ LimiteAMano /\ PostiRicerca /\ LimiteRicerca /\ EtaGiuste
  BY InParti
<1>2. tentativi \in [Tentativo -> Tipo]
  BY <1>1 DEF TypeOK, Tipo
<1>3. /\ tentativi[t].pc = "logon"
      /\ tentativi' = [tentativi EXCEPT ![t] = [tentativi[t] EXCEPT !.pc = "respinto"]]
      /\ segni' = segni /\ LasciaIlPosto(t, rifiuti \union {t})
      /\ UNCHANGED <<ricordo, bind>>
  BY <1>2 DEF Respinto, ChiudiAMano
<1>4. /\ tentativi' \in [Tentativo -> Tipo]
      /\ tentativi'[t].pc = "respinto" /\ tentativi'[t].via = tentativi[t].via
      /\ tentativi'[t].eta = tentativi[t].eta /\ tentativi'[t].risposta = tentativi[t].risposta
      /\ \A u \in Tentativo \ {t} : tentativi'[u] = tentativi[u]
  BY <1>2, <1>3 DEF Tipo
<1>5. "logon" \in InCorso /\ "respinto" \notin InCorso /\ "logon" # "respinto"
  BY DEF InCorso
<1>6. /\ DelTipo(InCorso, "mano")' = DelTipo(InCorso, "mano") \ {t}
      /\ DelTipo(InCorso, "ricerca")' = DelTipo(InCorso, "ricerca") \ {t}
  BY <1>4, <1>5 DEF DelTipo
<1>7. tentativi[t].eta <= Durata /\ tentativi[t].risposta = 0 /\ tentativi[t].eta \in Nat
  BY <1>1, <1>2, <1>3, <1>5, LogonAssumption DEF EtaGiuste, Tipo
<1>8. EtaGiuste'
  BY <1>1, <1>4, <1>5, <1>7, LogonAssumption DEF EtaGiuste
<1>9. PostiAMano' /\ LimiteAMano'
  <2> DEFINE R == {u \in DelTipo({"respinto"}, "mano") : tentativi[u].eta < Finestra}
  <2>1. CASE tentativi[t].via = "mano"
    <3>1. R' = R \union {t}
      BY <1>3, <1>4, <1>7, <2>1, LogonAssumption DEF DelTipo
    <3>2. t \in DelTipo(InCorso, "mano")
      BY <1>3, <1>5, <2>1 DEF DelTipo
    <3> QED
      BY <1>1, <1>3, <1>6, <3>1, <3>2 DEF PostiAMano, LimiteAMano
  <2>2. CASE tentativi[t].via # "mano"
    <3>1. R' = R /\ t \notin DelTipo(InCorso, "mano")
      BY <1>3, <1>4, <2>2 DEF DelTipo
    <3> QED
      BY <1>1, <1>3, <1>6, <3>1 DEF PostiAMano, LimiteAMano
  <2> QED
    BY <2>1, <2>2
<1>10. /\ PostiRicerca' /\ LimiteRicerca'
       /\ rifiuti' \subseteq Tentativo /\ inCorso' \in Nat /\ segni' \subseteq Tentativo
  <2>0. /\ rifiuti \in SUBSET Tentativo /\ inCorso \in Nat /\ segni \subseteq Tentativo
        /\ DelTipo(InCorso, "ricerca") \in SUBSET Tentativo
    BY <1>1, Sottoinsiemi DEF TypeOK
  <2>1. CASE tentativi[t].via = "ricerca"
    <3>1. inCorso' = inCorso - 1 /\ rifiuti' = rifiuti \union {t}
      BY <1>3, <2>1 DEF LasciaIlPosto
    <3>2. t \in DelTipo(InCorso, "ricerca") /\ t \in Tentativo \ rifiuti
      BY <1>1, <1>3, <1>5, <2>1 DEF DelTipo, PostiRicerca
    <3>3. DelTipo({"respinto"}, "ricerca")' = DelTipo({"respinto"}, "ricerca") \union {t}
      BY <1>3, <1>4, <2>1 DEF DelTipo
    <3>4. Cardinality(DelTipo(InCorso, "ricerca") \ {t})
             = Cardinality(DelTipo(InCorso, "ricerca")) - 1
          /\ Cardinality(DelTipo(InCorso, "ricerca") \ {t}) \in Nat
      <4>1. DelTipo(InCorso, "ricerca") \ {t} \in SUBSET Tentativo
        BY <2>0
      <4> QED
        BY <2>0, <3>2, <4>1, Insiemi
    <3>5. PostiRicerca' /\ inCorso' \in Nat
      BY <1>1, <1>6, <3>1, <3>3, <3>4 DEF PostiRicerca
    <3>6. Cardinality(rifiuti') = Cardinality(rifiuti) + 1 /\ Cardinality(rifiuti) \in Nat
      BY <2>0, <3>1, <3>2, Insiemi
    <3> QED
      BY <1>1, <1>3, <2>0, <3>1, <3>5, <3>6, LogonAssumption DEF LimiteRicerca
  <2>2. CASE tentativi[t].via # "ricerca"
    <3>1. inCorso' = inCorso /\ rifiuti' = rifiuti /\ t \notin DelTipo(InCorso, "ricerca")
      BY <1>3, <2>2 DEF LasciaIlPosto, DelTipo
    <3>2. DelTipo({"respinto"}, "ricerca")' = DelTipo({"respinto"}, "ricerca")
      BY <1>3, <1>4, <2>2 DEF DelTipo
    <3>3. DelTipo(InCorso, "ricerca")' = DelTipo(InCorso, "ricerca")
      BY <1>6, <3>1
    <3> QED
      BY <1>1, <1>3, <2>0, <3>1, <3>2, <3>3 DEF PostiRicerca, LimiteRicerca
  <2> QED
    BY <2>1, <2>2
<1>11. \A p \in Password : Verifiche(p)' = Verifiche(p) \ {t}
  BY <1>3, <1>4 DEF Verifiche
<1>12. BindGiusti'
  BY <1>3, <1>11, BindDegliAltri
<1>13. TypeOK'
  BY <1>1, <1>3, <1>4, <1>10 DEF TypeOK, Tipo
<1> QED
  BY <1>8, <1>9, <1>10, <1>12, <1>13
     DEF LogonInv, PostiAMano, LimiteAMano, PostiRicerca, LimiteRicerca, EtaGiuste, BindGiusti

-----------------------------------------------------------------------------
(* Time passes                                                             *)

\* What a moment does to an attempt.
LEMMA DopoUnPo ==
    ASSUME NEW a \in Tipo,
           a.pc \in InCorso => a.eta <= Durata /\ a.risposta = 0,
           a.pc = "respinto" => /\ a.eta <= a.risposta + Durata
                                /\ a.risposta <= a.eta /\ a.risposta < Finestra,
           a.pc \in InCorso => a.eta < Durata
    PROVE  LET b == UnPoDopo(a) IN
           /\ b \in Tipo
           /\ b.pc \in InCorso <=> a.pc \in InCorso
           /\ b.pc \in InCorso => /\ b.eta <= Durata /\ b.risposta = 0
                                  /\ b.pc = a.pc /\ b.via = a.via /\ b.password = a.password
                                  /\ a.eta + 1 < Finestra
           /\ b.pc = "respinto" <=> a.pc = "respinto" /\ a.risposta + 1 < Finestra
           /\ b.pc = "respinto" => /\ b.via = a.via
                                   /\ b.eta <= b.risposta + Durata
                                   /\ b.risposta <= b.eta /\ b.risposta < Finestra
                                   /\ b.eta < Finestra <=> a.eta + 1 < Finestra
<1> USE LogonAssumption DEF Tipo, InCorso
<1>1. CASE a.pc = "libero" \/ (a.pc = "respinto" /\ a.risposta + 1 >= Finestra)
  <2>1. UnPoDopo(a) = Libero
    BY <1>1 DEF UnPoDopo
  <2> QED
    BY <1>1, <2>1, LiberoTipo
<1>2. CASE a.pc = "respinto" /\ a.risposta + 1 < Finestra
  <2>1. UnPoDopo(a) = [pc |-> a.pc, via |-> a.via, password |-> a.password,
                       eta |-> Invecchia(a.eta), risposta |-> a.risposta + 1,
                       valida |-> a.valida]
    <3>1. UnPoDopo(a) = [a EXCEPT !.eta = Invecchia(@), !.risposta = @ + 1]
      BY <1>2 DEF UnPoDopo
    <3> QED
      BY <3>1
  <2>2. /\ Invecchia(a.eta) \in 0..Finestra
        /\ Invecchia(a.eta) <= a.risposta + 1 + Durata
        /\ a.risposta + 1 <= Invecchia(a.eta)
        /\ Invecchia(a.eta) < Finestra <=> a.eta + 1 < Finestra
    BY <1>2 DEF Invecchia
  <2> QED
    BY <1>2, <2>1, <2>2
<1>3. CASE a.pc \in InCorso
  <2>1. UnPoDopo(a) = [pc |-> a.pc, via |-> a.via, password |-> a.password,
                       eta |-> a.eta + 1, risposta |-> a.risposta, valida |-> a.valida]
    <3>1. UnPoDopo(a) = [a EXCEPT !.eta = Invecchia(@)]
      BY <1>3 DEF UnPoDopo
    <3>2. Invecchia(a.eta) = a.eta + 1
      BY <1>3 DEF Invecchia
    <3> QED
      BY <3>1, <3>2
  <2> QED
    BY <1>3, <2>1
<1> QED
  BY <1>1, <1>2, <1>3

LEMMA PassoPassa == ASSUME LogonInv, Passa PROVE LogonInv'
<1>1. TypeOK /\ PostiAMano /\ LimiteAMano /\ PostiRicerca /\ LimiteRicerca
      /\ EtaGiuste /\ BindGiusti
  BY InParti
<1>2. tentativi \in [Tentativo -> Tipo]
  BY <1>1 DEF TypeOK, Tipo
<1>3. ASSUME NEW u \in Tentativo
      PROVE  /\ tentativi'[u] \in Tipo
             /\ tentativi'[u].pc \in InCorso <=> tentativi[u].pc \in InCorso
             /\ tentativi'[u].pc \in InCorso =>
                   /\ tentativi'[u].eta <= Durata /\ tentativi'[u].risposta = 0
                   /\ tentativi'[u].pc = tentativi[u].pc /\ tentativi'[u].via = tentativi[u].via
                   /\ tentativi'[u].password = tentativi[u].password
                   /\ tentativi[u].eta + 1 < Finestra
             /\ tentativi'[u].pc = "respinto" <=>
                   tentativi[u].pc = "respinto" /\ tentativi[u].risposta + 1 < Finestra
             /\ tentativi'[u].pc = "respinto" =>
                   /\ tentativi'[u].via = tentativi[u].via
                   /\ tentativi'[u].eta <= tentativi'[u].risposta + Durata
                   /\ tentativi'[u].risposta <= tentativi'[u].eta
                   /\ tentativi'[u].risposta < Finestra
                   /\ tentativi'[u].eta < Finestra <=> tentativi[u].eta + 1 < Finestra
  <2>1. tentativi'[u] = UnPoDopo(tentativi[u]) /\ tentativi[u] \in Tipo
    BY <1>2 DEF Passa
  <2>2. tentativi[u].pc \in InCorso => tentativi[u].eta < Durata
    BY DEF Passa, Aperti
  <2>3. /\ tentativi[u].pc \in InCorso =>
             tentativi[u].eta <= Durata /\ tentativi[u].risposta = 0
        /\ tentativi[u].pc = "respinto" =>
             /\ tentativi[u].eta <= tentativi[u].risposta + Durata
             /\ tentativi[u].risposta <= tentativi[u].eta /\ tentativi[u].risposta < Finestra
    BY <1>1 DEF EtaGiuste
  <2> QED
    BY <2>1, <2>2, <2>3, DopoUnPo
<1>4. tentativi' \in [Tentativo -> Tipo]
  BY <1>3 DEF Passa
<1>5. EtaGiuste'
  BY <1>3 DEF EtaGiuste
<1>6. \A via : DelTipo(InCorso, via)' = DelTipo(InCorso, via)
  BY <1>3 DEF DelTipo
<1>7. PostiAMano'
  <2>1. segni' = {u \in segni : tentativi[u].eta + 1 < Finestra}
    BY DEF Passa
  <2>2. ASSUME NEW u \in Tentativo
        PROVE  u \in segni' <=>
                 \/ u \in DelTipo(InCorso, "mano")'
                 \/ u \in DelTipo({"respinto"}, "mano")' /\ tentativi'[u].eta < Finestra
    <3>1. u \in segni <=> \/ u \in DelTipo(InCorso, "mano")
                          \/ u \in DelTipo({"respinto"}, "mano") /\ tentativi[u].eta < Finestra
      BY <1>1 DEF PostiAMano
    <3>2. u \in DelTipo(InCorso, "mano") => tentativi[u].eta + 1 < Finestra
      BY <1>3 DEF DelTipo
    <3>3. u \in DelTipo({"respinto"}, "mano")' /\ tentativi'[u].eta < Finestra <=>
             u \in DelTipo({"respinto"}, "mano") /\ tentativi[u].eta + 1 < Finestra
      <4>1. tentativi[u].pc = "respinto" /\ tentativi[u].eta + 1 < Finestra
               => tentativi[u].risposta + 1 < Finestra
        BY <1>1, <1>2, LogonAssumption DEF EtaGiuste, Tipo
      <4> QED
        BY <1>3, <4>1 DEF DelTipo
    <3>4. tentativi[u].eta + 1 < Finestra => tentativi[u].eta < Finestra
      BY <1>2, LogonAssumption DEF Tipo
    <3> QED
      BY <1>6, <2>1, <3>1, <3>2, <3>3, <3>4
  <2>3. segni' \subseteq Tentativo
    BY <1>1, <2>1 DEF TypeOK
  <2>4. DelTipo(InCorso, "mano")' \subseteq Tentativo
        /\ DelTipo({"respinto"}, "mano")' \subseteq Tentativo
    BY DEF DelTipo
  <2> QED
    BY <2>2, <2>3, <2>4 DEF PostiAMano
<1>8. LimiteAMano'
  <2>1. segni' \in SUBSET segni /\ segni \in SUBSET Tentativo
    BY <1>1 DEF Passa, TypeOK
  <2>2. Cardinality(segni') \in Nat /\ Cardinality(segni') <= Cardinality(segni)
        /\ Cardinality(segni) \in Nat
    BY <2>1, Insiemi
  <2> QED
    BY <1>1, <2>2, LogonAssumption DEF LimiteAMano
<1>9. PostiRicerca'
  <2>1. rifiuti' = DelTipo({"respinto"}, "ricerca")'
    BY <1>1, <1>3 DEF Passa, PostiRicerca, DelTipo
  <2> QED
    BY <1>1, <1>6, <2>1 DEF Passa, PostiRicerca
<1>10. LimiteRicerca'
  <2>1. rifiuti' \in SUBSET rifiuti /\ rifiuti \in SUBSET Tentativo /\ inCorso' = inCorso
        /\ inCorso \in Nat
    BY <1>1 DEF Passa, TypeOK
  <2>2. Cardinality(rifiuti') \in Nat /\ Cardinality(rifiuti') <= Cardinality(rifiuti)
        /\ Cardinality(rifiuti) \in Nat
    BY <2>1, Insiemi
  <2> QED
    BY <1>1, <2>1, <2>2, LogonAssumption DEF LimiteRicerca
<1>11. \A p \in Password : Verifiche(p)' = Verifiche(p)
  <2>1. "verifica" \in InCorso
    BY DEF InCorso
  <2> QED
    BY <1>3, <2>1 DEF Verifiche
<1>12. /\ bind' \in [Password -> Nat] /\ ricordo' \in [Password -> 0..Validita]
       /\ \A p \in Password :
             /\ ricordo'[p] = IF ricordo[p] = 0 THEN 0 ELSE ricordo[p] - 1
             /\ bind'[p] = IF ricordo[p] <= 1 THEN 0 ELSE bind[p]
             /\ ricordo[p] \in Nat
  BY <1>1, LogonAssumption DEF Passa, TypeOK
<1>13. BindGiusti'
  <2> SUFFICES ASSUME NEW p \in Password
               PROVE  IF ricordo'[p] = 0 THEN bind'[p] = 0
                      ELSE bind'[p] + Cardinality(Verifiche(p)') <= 2 * MaxProve
    BY DEF BindGiusti
  <2>1. Verifiche(p)' = Verifiche(p)
    BY <1>11
  <2>2. IF ricordo[p] = 0 THEN bind[p] = 0
        ELSE bind[p] + Cardinality(Verifiche(p)) <= 2 * MaxProve
    BY <1>1 DEF BindGiusti
  <2>3. ricordo'[p] = 0 => bind'[p] = 0
    BY <1>12
  <2>4. ricordo'[p] # 0 => ricordo[p] # 0 /\ bind'[p] = bind[p]
    BY <1>12
  <2> QED
    BY <2>1, <2>2, <2>3, <2>4
<1>14. TypeOK'
  <2>1. segni' \subseteq Tentativo /\ rifiuti' \subseteq Tentativo /\ inCorso' \in Nat
    BY <1>1 DEF Passa, TypeOK
  <2> QED
    BY <1>4, <1>12, <2>1 DEF TypeOK, Tipo
<1> QED
  BY <1>5, <1>7, <1>8, <1>9, <1>10, <1>13, <1>14
     DEF LogonInv, PostiAMano, LimiteAMano, PostiRicerca, LimiteRicerca, EtaGiuste, BindGiusti

LEMMA Passo == LogonInv /\ [Next]_vars => LogonInv'
<1> SUFFICES ASSUME LogonInv, [Next]_vars PROVE LogonInv'
  OBVIOUS
<1>1. ASSUME NEW t \in Tentativo, Errata(t) PROVE LogonInv'
  <2>1. tentativi[t].password \in Password
    BY DEF LogonInv, TypeOK
  <2>2. PICK p \in Password : p = tentativi[t].password
    BY <2>1
  <2> QED
    BY <1>1, <2>2, PassoErrata
<1>2. CASE UNCHANGED vars
  BY <1>2 DEF vars, LogonInv, TypeOK, DelTipo, Verifiche
<1> QED
  BY <1>1, <1>2, PassoPrenotaAMano, PassoPrenotaRicerca, PassoEsce, PassoVerificata,
     PassoRespinto, PassoPassa DEF Next

-----------------------------------------------------------------------------
(* The theorems                                                            *)

\* Every place belongs to one attempt, in course or refused.
THEOREM PostiGiustiSempre == Spec => []LogonInv
BY Inizio, Passo, PTL DEF Spec

\* By hand, no more than MaxProve refusals are answered in Finestra - Durata.
THEOREM PocheProveAMano == Spec => []ManoRada
<1>1. LogonInv => ManoRada
  <2> SUFFICES ASSUME LogonInv PROVE ManoRada
    OBVIOUS
  <2> DEFINE S == {t \in DelTipo({"respinto"}, "mano") :
                     tentativi[t].risposta < Finestra - Durata}
  <2>1. ASSUME NEW t \in S PROVE t \in segni
    <3>1. t \in Tentativo /\ tentativi[t].pc = "respinto" /\ t \in DelTipo({"respinto"}, "mano")
      BY DEF DelTipo
    <3>2. /\ tentativi[t].eta \in Nat /\ tentativi[t].risposta \in Nat
          /\ tentativi[t].eta <= tentativi[t].risposta + Durata
      BY <3>1, LogonAssumption DEF LogonInv, TypeOK
    <3>3. tentativi[t].eta < Finestra
      BY <3>2, LogonAssumption
    <3> QED
      BY <3>1, <3>3 DEF LogonInv
  <2>2. S \in SUBSET segni /\ segni \in SUBSET Tentativo
    BY <2>1 DEF LogonInv, TypeOK
  <2>3. Cardinality(S) \in Nat /\ Cardinality(S) <= Cardinality(segni)
        /\ Cardinality(segni) \in Nat
    BY <2>2, Insiemi
  <2>4. Cardinality(segni) <= MaxProve
    BY DEF LogonInv
  <2>5. Cardinality(S) <= MaxProve
    BY <2>3, <2>4, LogonAssumption
  <2> QED
    BY <2>5 DEF ManoRada
<1> QED
  BY <1>1, PostiGiustiSempre, PTL

\* The searches leave no more than MaxProve refusals in a window, those possible included.
THEOREM PocheProveDiRicerca == Spec => []RicercaRada
<1>1. LogonInv => RicercaRada
  BY DEF LogonInv, RicercaRada
<1> QED
  BY <1>1, PostiGiustiSempre, PTL

\* A wrong password costs at most two binds for each place until it is forgotten.
THEOREM PochiBind == Spec => []BindContati
<1>1. LogonInv => BindContati
  <2> SUFFICES ASSUME LogonInv, NEW p \in Password PROVE bind[p] <= 2 * MaxProve
    BY DEF BindContati
  <2>1. bind[p] \in Nat /\ Cardinality(Verifiche(p)) \in Nat
    BY Insiemi, Sottoinsiemi DEF LogonInv, TypeOK
  <2>2. bind[p] = 0 \/ bind[p] + Cardinality(Verifiche(p)) <= 2 * MaxProve
    BY DEF LogonInv
  <2> QED
    BY <2>1, <2>2, LogonAssumption
<1> QED
  BY <1>1, PostiGiustiSempre, PTL

-----------------------------------------------------------------------------
(* VaultRekey                                                                *)

\* What Mette changes: the values and the pages of d, which get k and nothing else new.
LEMMA EffettoDiMette ==
    ASSUME TypeOKRekey, NEW d \in Db, NEW k \in Chiave, Mette(d, k)
    PROVE  /\ chiavi' \in [Db -> SUBSET Chiave] /\ pagine' \in [Db -> SUBSET Chiave]
           /\ \A e \in Db \ {d} : chiavi'[e] = chiavi[e] /\ pagine'[e] = pagine[e]
           /\ chiavi'[d] \subseteq chiavi[d] \union {k}
           /\ pagine'[d] \subseteq pagine[d] \union chiavi[d]
<1>1. CASE chiavi' = [chiavi EXCEPT ![d] = @ \union {k}] /\ UNCHANGED pagine
  BY <1>1 DEF TypeOKRekey
<1>2. ASSUME NEW c \in chiavi[d], NEW sola \in BOOLEAN,
             chiavi' = [chiavi EXCEPT ![d] = (IF sola THEN @ \ {c} ELSE @) \union {k}],
             pagine' = [pagine EXCEPT ![d] = @ \union {c}]
      PROVE  /\ chiavi' \in [Db -> SUBSET Chiave] /\ pagine' \in [Db -> SUBSET Chiave]
             /\ \A e \in Db \ {d} : chiavi'[e] = chiavi[e] /\ pagine'[e] = pagine[e]
             /\ chiavi'[d] \subseteq chiavi[d] \union {k}
             /\ pagine'[d] \subseteq pagine[d] \union chiavi[d]
  <2>1. chiavi'[d] = (IF sola THEN chiavi[d] \ {c} ELSE chiavi[d]) \union {k}
    BY <1>2 DEF TypeOKRekey
  <2>2. pagine'[d] = pagine[d] \union {c}
    BY <1>2 DEF TypeOKRekey
  <2>3. c \in Chiave
    BY DEF TypeOKRekey
  <2> QED
    BY <1>2, <2>1, <2>2, <2>3 DEF TypeOKRekey
<1> QED
  BY <1>1, <1>2 DEF Mette

\* A database free of a key stays so if neither the value put nor the ones there have it.
LEMMA MetteTienePulito ==
    ASSUME TypeOKRekey, NEW d \in Db, NEW k \in Chiave, Mette(d, k),
           NEW e \in Db, NEW v \in Chiave \ {k}, Pulito(e, v)
    PROVE  Pulito(e, v)'
BY EffettoDiMette DEF Pulito

LEMMA PassoAvvia == RekeyInv /\ Avvia => RekeyInv'
BY SMTT(30) DEF RekeyInv, Avvia, dati, storia, TypeOKRekey, VuotoSeManca, NienteDiVecchio, NuoviPuliti, FattiFinQui,
   TuttoONiente, Pulito, Vecchia

LEMMA PassoSblocca == RekeyInv /\ Sblocca => RekeyInv'
BY SMTT(30) DEF RekeyInv, Sblocca, dati, storia, TypeOKRekey, VuotoSeManca, NienteDiVecchio, NuoviPuliti, FattiFinQui,
   TuttoONiente, Pulito, Vecchia

LEMMA PassoFerma == RekeyInv /\ Ferma => RekeyInv'
BY SMTT(30) DEF RekeyInv, Ferma, dati, storia, TypeOKRekey, VuotoSeManca, NienteDiVecchio, NuoviPuliti, FattiFinQui,
   TuttoONiente, Pulito, Vecchia, NienteLetto

LEMMA PassoCreaTenant == ASSUME NEW d \in Db PROVE RekeyInv /\ CreaTenant(d) => RekeyInv'
BY SMTT(30) DEF RekeyInv, CreaTenant, dati, storia, TypeOKRekey, VuotoSeManca, NienteDiVecchio, NuoviPuliti, FattiFinQui,
   TuttoONiente, Pulito, Vecchia

LEMMA PassoLegge == ASSUME NEW d \in Db PROVE RekeyInv /\ Legge(d) => RekeyInv'
BY SMTT(30) DEF RekeyInv, Legge, dati, storia, TypeOKRekey, VuotoSeManca, NienteDiVecchio, NuoviPuliti, FattiFinQui,
   TuttoONiente, Pulito, Vecchia, Chiave, NienteLetto

LEMMA PassoAccende == RekeyInv /\ Accende => RekeyInv'
BY SMTT(30) DEF RekeyInv, Accende, dati, storia, TypeOKRekey, VuotoSeManca, NienteDiVecchio, NuoviPuliti, FattiFinQui,
   TuttoONiente, Pulito, Vecchia

LEMMA PassoSpegne == RekeyInv /\ Spegne => RekeyInv'
<1> SUFFICES ASSUME RekeyInv, Spegne PROVE RekeyInv'
  OBVIOUS
<1>1. TypeOKRekey'
  BY DEF RekeyInv, Spegne, TypeOKRekey, dati, storia
<1> QED
  BY <1>1 DEF RekeyInv, Spegne, dati, storia, VuotoSeManca, NienteDiVecchio, NuoviPuliti, FattiFinQui,
   TuttoONiente, Pulito, Vecchia

LEMMA PassoLancia ==
    ASSUME NEW inversa \in BOOLEAN, NEW applica \in BOOLEAN,
           RekeyInv, Lancia(inversa, applica)
    PROVE  RekeyInv'
<1>1. /\ cli'.passo = "prova" /\ cli'.inversa = inversa
      /\ cli'.lista = esiste /\ cli'.resto = esiste
  BY DEF Lancia, FileDaRicifrare
<1>2. TypeOKRekey'
  BY RekeyAssumption DEF RekeyInv, TypeOKRekey, Lancia, FileDaRicifrare, dati, storia
<1>3. (/\ VuotoSeManca /\ NienteDiVecchio /\ NuoviPuliti /\ FattiFinQui /\ TuttoONiente)'
  BY <1>1 DEF RekeyInv, Lancia, dati, storia, VuotoSeManca, NienteDiVecchio, NuoviPuliti, FattiFinQui,
     TuttoONiente, Pulito, Vecchia
<1>4. acceso' /\ (cli'.inversa => app' = "ferma") /\ cli'.lista \ cli'.resto = {}
  BY <1>1 DEF Lancia
<1> QED
  BY <1>1, <1>2, <1>3, <1>4 DEF RekeyInv, Lancia, dati, storia, Pulito

LEMMA PassoProva ==
    ASSUME NEW d \in Db, RekeyInv, Prova(d)
    PROVE  RekeyInv'
<1>1. /\ cli.passo = "prova" /\ d \in cli.resto \ guasto
      /\ UNCHANGED <<esiste, chiavi, pagine, guasto, acceso, app, letto>>
  BY DEF Prova, dati
<1>2. acceso /\ (cli.inversa => app = "ferma") /\ (cli.lista \ cli.resto) \intersect guasto = {}
  BY <1>1 DEF RekeyInv
<1>3. CASE cli.resto # {d}
  <2>1. /\ cli' = [cli EXCEPT !.resto = cli.resto \ {d}]
        /\ UNCHANGED <<fatto, riportato>>
    BY <1>3 DEF Prova, storia
  <2>2. /\ cli'.passo = "prova" /\ cli'.inversa = cli.inversa
        /\ cli'.lista = cli.lista /\ cli'.resto = cli.resto \ {d}
    BY <1>1, <2>1 DEF RekeyInv, TypeOKRekey
  <2>3. TypeOKRekey'
    BY <1>1, <2>1 DEF RekeyInv, TypeOKRekey
  <2>4. (cli'.lista \ cli'.resto) \intersect guasto = {}
    BY <1>1, <1>2, <2>2
  <2> QED
    BY <1>1, <1>2, <2>1, <2>2, <2>3, <2>4
    DEF RekeyInv, VuotoSeManca, NienteDiVecchio, NuoviPuliti, FattiFinQui, TuttoONiente, Pulito
<1>4. CASE cli.resto = {d} /\ cli.applica
  <2>1. /\ cli' = [cli EXCEPT !.passo = "applica", !.resto = cli.lista]
        /\ fatto' = "niente" /\ riportato' = FALSE
    BY <1>4 DEF Prova
  <2>2. /\ cli'.passo = "applica" /\ cli'.inversa = cli.inversa
        /\ cli'.lista = cli.lista /\ cli'.resto = cli.lista
    BY <1>1, <2>1 DEF RekeyInv, TypeOKRekey
  <2>3. TypeOKRekey'
    BY <1>1, <2>1 DEF RekeyInv, TypeOKRekey
  <2>4. cli.lista \intersect guasto = {}
    BY <1>1, <1>2, <1>4
  <2>5. \A e \in esiste \ cli.lista : Pulito(e, Vecchia(cli.inversa))
    BY <1>1 DEF RekeyInv, NuoviPuliti
  <2> QED
    BY <1>1, <1>2, <2>1, <2>2, <2>3, <2>4, <2>5
    DEF RekeyInv, VuotoSeManca, NienteDiVecchio, NuoviPuliti, FattiFinQui, TuttoONiente, Pulito
<1>5. CASE cli.resto = {d} /\ ~cli.applica
  <2>1. cli' = Fermo /\ UNCHANGED <<fatto, riportato>>
    BY <1>5 DEF Prova, storia
  <2>2. cli'.passo = "fermo" /\ TypeOKRekey'
    BY <1>1, <2>1, RekeyAssumption DEF RekeyInv, TypeOKRekey, Fermo
  <2> QED
    BY <1>1, <2>1, <2>2
    DEF RekeyInv, VuotoSeManca, NienteDiVecchio, NuoviPuliti, FattiFinQui, TuttoONiente, Pulito
<1> QED
  BY <1>3, <1>4, <1>5

LEMMA PassoApplica ==
    ASSUME NEW d \in Db, RekeyInv, Applica(d)
    PROVE  RekeyInv'
<1> DEFINE v == Vecchia(cli.inversa)
           n == Nuova(cli.inversa)
<1>1. /\ cli.passo = "applica" /\ d \in cli.resto
      /\ v \in Chiave /\ n \in Chiave \ {v}
  BY DEF RekeyInv, TypeOKRekey, Applica, Vecchia, Nuova, Chiave
<1>2. cli' = [passo |-> "pulisce", inversa |-> cli.inversa, applica |-> cli.applica,
              lista |-> cli.lista, resto |-> cli.resto, db |-> d]
  BY DEF RekeyInv, TypeOKRekey, Applica
<1>3. /\ chiavi' \in [Db -> SUBSET Chiave] /\ pagine' \in [Db -> SUBSET Chiave]
      /\ \A e \in Db \ {d} : chiavi'[e] = chiavi[e] /\ pagine'[e] = pagine[e]
      /\ chiavi'[d] \subseteq (chiavi[d] \union {n}) \ {v}
      /\ pagine'[d] \subseteq pagine[d] \union {v}
      /\ chiavi[d] = {} => chiavi'[d] = {} /\ pagine'[d] = pagine[d]
  <2>1. CASE v \in chiavi[d]
    <3>1. /\ chiavi' = [chiavi EXCEPT ![d] = (chiavi[d] \ {v}) \union {n}]
          /\ pagine' = [pagine EXCEPT ![d] = pagine[d] \union {v}]
      BY <2>1 DEF Applica
    <3> QED
      BY <2>1, <3>1, <1>1 DEF RekeyInv, TypeOKRekey
  <2>2. CASE v \notin chiavi[d]
    <3>1. chiavi' = chiavi /\ pagine' = pagine
      BY <2>2 DEF Applica
    <3> QED
      BY <2>2, <3>1 DEF RekeyInv, TypeOKRekey
  <2> QED
    BY <2>1, <2>2
<1>4. UNCHANGED <<esiste, guasto, acceso, app, letto, fatto, riportato>>
  BY DEF Applica, storia
<1>5. TypeOKRekey'
  BY <1>2, <1>3, <1>4 DEF RekeyInv, TypeOKRekey
<1>6. VuotoSeManca'
  BY <1>3, <1>4 DEF RekeyInv, VuotoSeManca
<1>7. fatto = "niente"
  BY <1>1 DEF RekeyInv
<1>8. FattiFinQui'
  <2>1. ASSUME ~riportato, NEW e \in esiste \ cli.resto
        PROVE  chiavi'[e] = chiavi[e] /\ pagine'[e] = pagine[e] /\ Pulito(e, v)
    <3>1. e \in Db \ {d}
      BY <1>1 DEF RekeyInv, TypeOKRekey
    <3> QED
      BY <1>1, <1>3, <2>1, <3>1 DEF RekeyInv, FattiFinQui
  <2>2. v \notin chiavi'[d]
    BY <1>3
  <2> QED
    BY <1>2, <1>4, <2>1, <2>2 DEF FattiFinQui, Pulito
<1>9. TuttoONiente'
  BY <1>1, <1>2, <1>4 DEF RekeyInv, TuttoONiente
<1>10. /\ cli'.passo # "prova" /\ cli'.db \in cli'.resto
       /\ acceso /\ (cli'.inversa => app = "ferma")
  BY <1>1, <1>2 DEF RekeyInv
<1> QED
  BY <1>1, <1>2, <1>4, <1>5, <1>6, <1>7, <1>8, <1>9, <1>10 DEF RekeyInv, NienteDiVecchio, NuoviPuliti

LEMMA PassoPulisce ==
    ASSUME RekeyInv, Pulisce
    PROVE  RekeyInv'
<1> DEFINE d == cli.db
           v == Vecchia(cli.inversa)
<1>1. cli.passo = "pulisce" /\ d \in cli.resto /\ d \in Db /\ fatto = "niente"
  BY DEF RekeyInv, TypeOKRekey, Pulisce
<1>2. /\ chiavi' = chiavi /\ pagine' \in [Db -> SUBSET Chiave] /\ pagine'[d] = {}
      /\ \A e \in Db \ {d} : pagine'[e] = pagine[e]
      /\ UNCHANGED <<esiste, guasto, acceso, app, letto, riportato>>
  BY <1>1 DEF RekeyInv, TypeOKRekey, Pulisce
<1>3. ~riportato => \A e \in esiste \ (cli.resto \ {d}) : v \notin chiavi[e] \union pagine'[e]
  <2> SUFFICES ASSUME ~riportato, NEW e \in esiste \ (cli.resto \ {d})
               PROVE  v \notin chiavi[e] \union pagine'[e]
    OBVIOUS
  <2>1. CASE e = d
    BY <1>1, <1>2, <2>1 DEF RekeyInv, FattiFinQui
  <2>2. CASE e # d
    BY <1>1, <1>2, <2>2 DEF RekeyInv, TypeOKRekey, FattiFinQui, Pulito
  <2> QED
    BY <2>1, <2>2
<1>4. VuotoSeManca'
  BY <1>1, <1>2 DEF RekeyInv, VuotoSeManca
<1>5. CASE cli.resto = {d}
  <2>1. cli' = Fermo /\ fatto' = IF cli.inversa THEN "indietro" ELSE "avanti"
    BY <1>5 DEF Pulisce, Finito
  <2>2. cli'.passo = "fermo" /\ TypeOKRekey'
    BY <1>2, <2>1, RekeyAssumption DEF RekeyInv, TypeOKRekey, Fermo
  <2>3. ~riportato => \A e \in esiste : v \notin chiavi[e] \union pagine'[e]
    BY <1>3, <1>5
  <2>4. acceso /\ (cli.inversa => app = "ferma" /\ letto = NienteLetto)
    BY <1>1 DEF RekeyInv
  <2>5. cli.inversa => ~riportato
    BY <1>1 DEF RekeyInv
  <2> QED
    BY <1>2, <1>4, <2>1, <2>2, <2>3, <2>4, <2>5
    DEF RekeyInv, NienteDiVecchio, NuoviPuliti, FattiFinQui, TuttoONiente, Pulito, Vecchia, NienteLetto
<1>6. CASE cli.resto # {d}
  <2>1. /\ cli' = [passo |-> "applica", inversa |-> cli.inversa, applica |-> cli.applica,
                   lista |-> cli.lista, resto |-> cli.resto \ {d}, db |-> d]
        /\ fatto' = fatto
    BY <1>6 DEF RekeyInv, TypeOKRekey, Pulisce, Finito
  <2>2. TypeOKRekey'
    BY <1>1, <1>2, <2>1 DEF RekeyInv, TypeOKRekey
  <2>3. FattiFinQui' /\ TuttoONiente'
    BY <1>1, <1>2, <1>3, <2>1 DEF RekeyInv, FattiFinQui, TuttoONiente, Pulito
  <2> QED
    BY <1>1, <1>2, <1>4, <2>1, <2>2, <2>3 DEF RekeyInv, NienteDiVecchio, NuoviPuliti
<1> QED
  BY <1>5, <1>6

LEMMA PassoSiInterrompe ==
    ASSUME RekeyInv, SiInterrompe
    PROVE  RekeyInv'
<1>1. cli'.passo = "fermo" /\ cli' = Fermo
  BY DEF SiInterrompe, Fermo
<1>2. TypeOKRekey'
  BY <1>1, RekeyAssumption DEF RekeyInv, TypeOKRekey, SiInterrompe, Fermo, dati, storia
<1>3. (/\ VuotoSeManca /\ NienteDiVecchio /\ NuoviPuliti /\ FattiFinQui /\ TuttoONiente)'
  BY <1>1 DEF RekeyInv, SiInterrompe, dati, storia, VuotoSeManca, NienteDiVecchio, NuoviPuliti, FattiFinQui,
     TuttoONiente, Pulito, Vecchia
<1> QED
  BY <1>1, <1>2, <1>3 DEF RekeyInv, SiInterrompe, dati, storia, Pulito

\* A value under the key the application writes with: what was free of the old key
\* stays so.
LEMMA PassoMette ==
    ASSUME RekeyInv, NEW d \in esiste, NEW k \in Chiave, Mette(d, k),
           UNCHANGED <<esiste, guasto, acceso, app, cli, fatto>>,
           letto' \in {letto, NienteLetto}, app # "ferma",
           riportato' \in BOOLEAN, riportato => riportato',
           k \notin Cifra => riportato',
           fatto \in {"mai", "indietro"} => k = "installazione" /\ riportato' = riportato,
           cli.passo = "prova" => d \in cli.lista \/ k # Vecchia(cli.inversa)
    PROVE  RekeyInv'
<1>1. d \in Db /\ Hub \in Db
  BY RekeyAssumption DEF RekeyInv, TypeOKRekey
<1>2. /\ chiavi' \in [Db -> SUBSET Chiave] /\ pagine' \in [Db -> SUBSET Chiave]
      /\ \A e \in Db \ {d} : chiavi'[e] = chiavi[e] /\ pagine'[e] = pagine[e]
      /\ chiavi'[d] \subseteq chiavi[d] \union {k}
      /\ pagine'[d] \subseteq pagine[d] \union chiavi[d]
  BY <1>1, EffettoDiMette DEF RekeyInv
<1>3. TypeOKRekey'
  BY <1>1, <1>2 DEF RekeyInv, TypeOKRekey, NienteLetto
<1>4. VuotoSeManca'
  BY <1>1, <1>2 DEF RekeyInv, VuotoSeManca
<1>5. ASSUME NEW e \in Db, NEW v \in Chiave \ {k}, Pulito(e, v)
      PROVE  v \notin chiavi'[e] \union pagine'[e]
  BY <1>1, <1>2, <1>5 DEF Pulito
<1>6. acceso => Cifra \subseteq {"dati"}
  BY DEF RekeyInv, Cifra
<1>7. NienteDiVecchio'
  BY <1>3, <1>5, <1>6 DEF RekeyInv, TypeOKRekey, NienteDiVecchio, Pulito, Vecchia, Chiave
<1>8. NuoviPuliti'
  BY <1>2, <1>3, <1>5 DEF RekeyInv, TypeOKRekey, NuoviPuliti, Pulito, Vecchia, Chiave, NienteLetto
<1>9. cli.passo # "fermo" => ~cli.inversa /\ acceso
  BY DEF RekeyInv
<1>10. FattiFinQui'
  <2> SUFFICES ASSUME cli.passo \in {"applica", "pulisce"}, ~riportato'
               PROVE  /\ \A e \in esiste \ cli.resto :
                            "installazione" \notin chiavi'[e] \union pagine'[e]
                      /\ cli.passo = "pulisce" => "installazione" \notin chiavi'[cli.db]
    BY <1>9 DEF FattiFinQui, Pulito, Vecchia
  <2>1. k = "dati"
    BY <1>6, <1>9 DEF Chiave
  <2>2. ASSUME NEW e \in esiste \ cli.resto
        PROVE  "installazione" \notin chiavi'[e] \union pagine'[e]
    BY <1>5, <1>9, <2>1 DEF RekeyInv, TypeOKRekey, FattiFinQui, Vecchia, Chiave
  <2>3. ASSUME cli.passo = "pulisce"
        PROVE  "installazione" \notin chiavi'[cli.db]
    <3>1. "installazione" \notin chiavi[cli.db] /\ cli.db \in Db
      BY <1>9, <2>3 DEF RekeyInv, TypeOKRekey, FattiFinQui, Vecchia
    <3> QED
      BY <1>2, <2>1, <3>1
  <2> QED
    BY <2>2, <2>3
<1>11. fatto \in {"mai", "indietro"} => \A e \in esiste : "dati" \notin chiavi'[e] \union pagine'[e]
  BY <1>5 DEF RekeyInv, TypeOKRekey, Chiave
<1>12. fatto \in {"mai", "indietro"} => ~riportato'
  BY DEF RekeyInv
<1>13. TuttoONiente'
  BY DEF RekeyInv, TuttoONiente
<1>14. /\ letto'.db \in esiste
       /\ letto'.chiave = "nessuna" => letto' = NienteLetto
       /\ fatto \in {"mai", "indietro"} => letto'.chiave # "dati"
  BY DEF RekeyInv, TypeOKRekey, NienteLetto
<1>15. app' # "ferma" /\ (cli'.passo # "fermo" => acceso' /\ ~cli'.inversa)
  BY <1>9
<1> QED
  BY <1>3, <1>4, <1>7, <1>8, <1>10, <1>11, <1>12, <1>13, <1>14, <1>15 DEF RekeyInv, Pulito

LEMMA PassoScrive ==
    ASSUME NEW d \in Db, RekeyInv, Scrive(d)
    PROVE  RekeyInv'
<1>1. PICK k \in Cifra : Mette(d, k)
  BY DEF Scrive
<1>2. /\ k \in Chiave /\ d \in esiste /\ app # "ferma"
      /\ UNCHANGED <<esiste, guasto, acceso, app, letto, cli, fatto, riportato>>
  BY DEF Scrive, storia, Cifra, Chiave
<1>3. fatto \in {"mai", "indietro"} => k = "installazione"
  BY <1>2 DEF RekeyInv, Cifra
<1>4. cli.passo = "prova" => k # Vecchia(cli.inversa)
  BY <1>2 DEF RekeyInv, Cifra, Vecchia
<1>5. riportato \in BOOLEAN
  BY DEF RekeyInv, TypeOKRekey
<1> QED
  BY <1>1, <1>2, <1>3, <1>4, <1>5, PassoMette

LEMMA PassoRiscrive ==
    ASSUME RekeyInv, Riscrive
    PROVE  RekeyInv'
<1>1. /\ letto.chiave \in Chiave /\ letto.db \in esiste /\ app # "ferma"
      /\ Mette(letto.db, letto.chiave) /\ letto' = NienteLetto
      /\ UNCHANGED <<esiste, guasto, acceso, app, cli, fatto>>
  BY DEF RekeyInv, TypeOKRekey, Riscrive
<1>2. /\ riportato' = (riportato \/ letto.chiave \notin Cifra)
      /\ riportato \in BOOLEAN
  BY DEF RekeyInv, TypeOKRekey, Riscrive
<1>3. fatto \in {"mai", "indietro"} => letto.chiave = "installazione" /\ riportato' = riportato
  BY <1>1, <1>2 DEF RekeyInv, TypeOKRekey, Cifra, Chiave
<1>4. riportato' \in BOOLEAN /\ (riportato => riportato') /\ (letto.chiave \notin Cifra => riportato')
  BY <1>2, Zenon
<1>5. cli.passo = "prova" => letto.db \in cli.lista \/ letto.chiave # Vecchia(cli.inversa)
  BY <1>1 DEF RekeyInv, NuoviPuliti
<1> QED
  BY <1>1, <1>3, <1>4, <1>5, PassoMette

LEMMA InizioRekey ==
    ASSUME InitRekey
    PROVE  RekeyInv
<1>1. TypeOKRekey
  BY RekeyAssumption DEF InitRekey, TypeOKRekey, Fermo, NienteLetto, Chiave
<1>2. VuotoSeManca /\ \A d \in Db : Pulito(d, "dati")
  BY <1>1 DEF InitRekey, VuotoSeManca, Pulito
<1>3. cli.passo = "fermo" /\ letto = NienteLetto /\ letto.db \in esiste /\ letto.chiave = "nessuna"
  BY DEF InitRekey, Fermo, NienteLetto
<1> QED
  BY <1>1, <1>2, <1>3
  DEF InitRekey, RekeyInv, NienteDiVecchio, NuoviPuliti, FattiFinQui, TuttoONiente

LEMMA PassoRekey == RekeyInv /\ [NextRekey]_varsRekey => RekeyInv'
<1> SUFFICES ASSUME RekeyInv, [NextRekey]_varsRekey PROVE RekeyInv'
  OBVIOUS
<1>1. CASE UNCHANGED varsRekey
  BY <1>1 DEF varsRekey, RekeyInv, TypeOKRekey, VuotoSeManca, NienteDiVecchio, NuoviPuliti, FattiFinQui,
     TuttoONiente, Pulito
<1> QED
  BY <1>1, PassoAvvia, PassoSblocca, PassoFerma, PassoCreaTenant, PassoScrive, PassoLegge,
     PassoProva, PassoApplica, PassoRiscrive, PassoAccende, PassoSpegne, PassoLancia,
     PassoPulisce, PassoSiInterrompe DEF NextRekey

\* The invariant of the re-encryption holds for every set of databases.
THEOREM InvarianteDellaRicifra == SpecRekey => []RekeyInv
BY InizioRekey, PassoRekey, PTL DEF SpecRekey

\* An applied run that has ended, however many were interrupted before it, leaves no
\* value of the old key and no page with one.
THEOREM NienteDiVecchioSempre == SpecRekey => []NienteDiVecchio
<1>1. RekeyInv => NienteDiVecchio
  BY DEF RekeyInv
<1> QED
  BY <1>1, InvarianteDellaRicifra, PTL

\* The application that runs reads every value, at any point of a run and after the
\* switch has been turned off.
THEOREM TuttoLeggibileSempre == SpecRekey => []TuttoLeggibile
<1>1. RekeyInv => TuttoLeggibile
  BY DEF RekeyInv, TypeOKRekey, TuttoLeggibile, Decifra, Pulito, Chiave
<1> QED
  BY <1>1, InvarianteDellaRicifra, PTL
=============================================================================
