------------------------- MODULE DeviceReadingsProofs -------------------------
(***************************************************************************)
(* DeviceReadings for any devices, readers and readings: the lock of the   *)
(* device, the lock of the VLANs and the rows of the job.                  *)
(***************************************************************************)
EXTENDS DeviceReadings, TLAPS

\* What a body does next is a reading its reader chose, or nothing; after the VLANs,
\* nothing; and a taken VLAN lock is not taken again.
LEMMA LetturaDopo ==
    ASSUME NEW r \in Lettore, NEW d, NEW l
    PROVE  /\ Inizia(r, d, Dopo(r, l)) \in (Letture[r] \intersect Tipo) \union {"finito"}
           /\ l \notin {"info", "porte"} => Inizia(r, d, Dopo(r, l)) = "finito"
           /\ Inizia(r, d, Dopo(r, l)) = "vlan" => <<Copia[r], d>> \notin presa
BY DEF Inizia, Dopo, Prima, Tipo

LEMMA PrimaLettura ==
    ASSUME NEW r \in Lettore, NEW d
    PROVE  /\ Inizia(r, d, Prima(Letture[r])) \in (Letture[r] \intersect Tipo) \union {"finito"}
           /\ Inizia(r, d, Prima(Letture[r])) = "vlan" => <<Copia[r], d>> \notin presa
BY DEF Inizia, Prima, Tipo

LEMMA IniziDaFermi == Init => ReadingsInv
<1> SUFFICES ASSUME Init PROVE ReadingsInv
  OBVIOUS
<1>1. Job \in Giro /\ Giro \subseteq Lettore
  BY ReadingsAssumption DEF Lettore
<1>2. TypeOK
  BY DEF Init, TypeOK, Vuota, Riga
<1>3. UnSoloVivo
  BY DEF Init, UnSoloVivo
<1>4. UnaVlanPerCopia
  BY DEF Init, UnaVlanPerCopia, AlleVlan, Niente
<1>5. RigheGiuste
  BY <1>1 DEF Init, RigheGiuste
<1> QED
  BY <1>1, <1>2, <1>3, <1>4, <1>5 DEF Init, ReadingsInv, Niente

-----------------------------------------------------------------------------
(* A body begins                                                           *)

LEMMA CorpoComincia ==
    ASSUME ReadingsInv, NEW r \in Lettore, NEW d \in Apparato, Legge(r, d), appesi' = appesi
    PROVE  /\ \E n \in (Letture[r] \intersect Tipo) \union {"finito"} :
                 vivo' = [vivo EXCEPT ![r] = [su |-> d, fase |-> n]]
           /\ UnSoloVivo' /\ UnaVlanPerCopia'
           /\ presa' \subseteq {Copia[x] : x \in Lettore} \X Apparato
<1> DEFINE n == Inizia(r, d, Prima(Letture[r]))
<1>1. /\ n \in (Letture[r] \intersect Tipo) \union {"finito"}
      /\ n = "vlan" => <<Copia[r], d>> \notin presa
  BY PrimaLettura
<1>2. /\ d \notin occupati /\ vivo[r] = Niente
      /\ occupati' = occupati \union {d}
      /\ vivo' = [vivo EXCEPT ![r] = [su |-> d, fase |-> n]]
      /\ presa' = presa \union (IF n = "vlan" THEN {<<Copia[r], d>>} ELSE {})
  BY DEF Legge, PresaDopo
<1> HIDE DEF n
<1>3. /\ vivo'[r].su = d /\ vivo'[r].fase = n /\ vivo'[r] # Niente
      /\ \A x \in Lettore \ {r} : vivo'[x] = vivo[x]
  BY <1>1, <1>2, ReadingsAssumption DEF ReadingsInv, TypeOK, Niente
<1>4. UnSoloVivo'
  <2>1. occupati' = {vivo'[x].su : x \in {y \in Lettore : vivo'[y] # Niente}}
    <3>1. {y \in Lettore : vivo'[y] # Niente} = {y \in Lettore : vivo[y] # Niente} \union {r}
      BY <1>2, <1>3
    <3>2. \A x \in {y \in Lettore : vivo[y] # Niente} : vivo'[x].su = vivo[x].su
      BY <1>2, <1>3
    <3> QED
      BY <1>2, <1>3, <3>1, <3>2 DEF ReadingsInv, UnSoloVivo
  <2>2. ASSUME NEW x \in Lettore, NEW y \in Lettore, vivo'[x] # Niente, vivo'[x].su = vivo'[y].su
        PROVE  x = y
    BY <1>2, <1>3, <2>2, ReadingsAssumption DEF ReadingsInv, UnSoloVivo, Niente
  <2> QED
    BY <2>1, <2>2 DEF UnSoloVivo
<1>5. UnaVlanPerCopia'
  <2>1. ASSUME NEW q \in Lettore, NEW e \in Apparato
        PROVE  <<Copia[q], e>> \in presa' <=>
                 \/ \E x \in Lettore : Copia[x] = Copia[q] /\ AlleVlan(vivo'[x]) /\ vivo'[x].su = e
                 \/ \E b \in appesi' : Copia[b.di] = Copia[q] /\ AlleVlan(b) /\ b.su = e
    <3>1. <<Copia[q], e>> \in presa' <=> <<Copia[q], e>> \in presa \/ (n = "vlan" /\ Copia[q] = Copia[r] /\ e = d)
      BY <1>2
    <3>2. ~AlleVlan(vivo[r])
      BY <1>2 DEF AlleVlan, Niente
    <3> QED
      BY <1>3, <3>1, <3>2 DEF ReadingsInv, UnaVlanPerCopia, AlleVlan
  <2>2. ASSUME NEW b \in appesi', AlleVlan(b)
        PROVE  /\ \A c \in appesi' : AlleVlan(c) /\ Copia[c.di] = Copia[b.di] /\ c.su = b.su => c = b
               /\ \A x \in Lettore : AlleVlan(vivo'[x]) /\ Copia[x] = Copia[b.di] => vivo'[x].su # b.su
    BY <1>1, <1>3, <2>2 DEF ReadingsInv, UnaVlanPerCopia, AlleVlan
  <2> QED
    BY <2>1, <2>2 DEF UnaVlanPerCopia
<1>6. presa' \subseteq {Copia[x] : x \in Lettore} \X Apparato
  BY <1>2 DEF ReadingsInv, TypeOK
<1> QED
  BY <1>1, <1>2, <1>4, <1>5, <1>6

LEMMA PassoPrende ==
    ASSUME ReadingsInv, NEW r \in Giro, NEW d \in Apparato, Prende(r, d)
    PROVE  ReadingsInv'
<1> r \in Lettore
  BY DEF Lettore
<1>1. /\ UnSoloVivo' /\ UnaVlanPerCopia' /\ presa' \subseteq {Copia[x] : x \in Lettore} \X Apparato
      /\ \E n \in (Letture[r] \intersect Tipo) \union {"finito"} :
            vivo' = [vivo EXCEPT ![r] = [su |-> d, fase |-> n]]
  BY CorpoComincia DEF Prende
<1>2. PICK n \in (Letture[r] \intersect Tipo) \union {"finito"} :
        vivo' = [vivo EXCEPT ![r] = [su |-> d, fase |-> n]]
  BY <1>1
<1>3. /\ occupati' = occupati \union {d} /\ vivo[r] = Niente
      /\ lette' = [lette EXCEPT ![r] = {}]
      /\ giro[r].attivo /\ d \in giro[r].resto
      /\ giro' = [giro EXCEPT ![r].resto = @ \ {d}]
      /\ appesi' = appesi /\ righe' = righe
  BY DEF Prende, Legge
<1>4. TypeOK'
  BY <1>1, <1>2, <1>3 DEF ReadingsInv, TypeOK
<1>5. RigheGiuste'
  BY <1>2, <1>3, ReadingsAssumption DEF ReadingsInv, TypeOK, RigheGiuste, Niente, Lettore
<1>6. \A x \in Lettore :
        lette'[x] \subseteq Letture[x] /\ vivo'[x].fase \in Letture[x] \union {"fermo", "finito"}
  BY <1>2, <1>3 DEF ReadingsInv, TypeOK
<1>7. \A x \in Giro : vivo'[x] # Niente => giro'[x].attivo /\ vivo'[x].su \notin giro'[x].resto
  BY <1>2, <1>3 DEF ReadingsInv, TypeOK, Lettore
<1> QED
  BY <1>1, <1>4, <1>5, <1>6, <1>7 DEF ReadingsInv

LEMMA PassoInterroga ==
    ASSUME ReadingsInv, NEW r \in Domanda, NEW d \in Apparato, Interroga(r, d)
    PROVE  ReadingsInv'
<1> r \in Lettore /\ r \notin Giro /\ Job \in Giro /\ Giro \subseteq Lettore
  BY ReadingsAssumption DEF Lettore
<1>1. /\ UnSoloVivo' /\ UnaVlanPerCopia' /\ presa' \subseteq {Copia[x] : x \in Lettore} \X Apparato
      /\ \E n \in (Letture[r] \intersect Tipo) \union {"finito"} :
            vivo' = [vivo EXCEPT ![r] = [su |-> d, fase |-> n]]
  BY CorpoComincia DEF Interroga
<1>2. PICK n \in (Letture[r] \intersect Tipo) \union {"finito"} :
        vivo' = [vivo EXCEPT ![r] = [su |-> d, fase |-> n]]
  BY <1>1
<1>3. /\ occupati' = occupati \union {d}
      /\ lette' = [lette EXCEPT ![r] = {}]
      /\ giro' = giro /\ appesi' = appesi /\ righe' = righe
  BY DEF Interroga, Legge
<1>4. TypeOK'
  BY <1>1, <1>2, <1>3 DEF ReadingsInv, TypeOK
<1>5. \A x \in Giro : vivo'[x] = vivo[x]
  BY <1>2 DEF ReadingsInv, TypeOK
<1>6. RigheGiuste'
  BY <1>3, <1>5 DEF ReadingsInv, RigheGiuste
<1>7. \A x \in Lettore :
        lette'[x] \subseteq Letture[x] /\ vivo'[x].fase \in Letture[x] \union {"fermo", "finito"}
  BY <1>2, <1>3 DEF ReadingsInv, TypeOK
<1> QED
  BY <1>1, <1>3, <1>4, <1>5, <1>6, <1>7 DEF ReadingsInv

-----------------------------------------------------------------------------
(* A body goes on                                                          *)

LEMMA PassoAvanza ==
    ASSUME ReadingsInv, NEW r \in Lettore, NEW bene \in BOOLEAN, Avanza(r, bene)
    PROVE  ReadingsInv'
<1> DEFINE d == vivo[r].su
           l == vivo[r].fase
           n == Inizia(r, d, Dopo(r, l))
<1>1. /\ n \in (Letture[r] \intersect Tipo) \union {"finito"}
      /\ l \notin {"info", "porte"} => n = "finito"
      /\ n = "vlan" => <<Copia[r], d>> \notin presa
  BY LetturaDopo
<1>2. /\ l \in Tipo
      /\ vivo' = [vivo EXCEPT ![r] = [su |-> d, fase |-> n]]
      /\ lette' = IF bene THEN [lette EXCEPT ![r] = @ \union {l}] ELSE lette
      /\ presa' = (presa \ (IF l = "vlan" THEN {<<Copia[r], d>>} ELSE {}))
                  \union (IF n = "vlan" THEN {<<Copia[r], d>>} ELSE {})
      /\ occupati' = occupati /\ appesi' = appesi /\ giro' = giro /\ righe' = righe
  BY DEF Avanza, PresaDopo
<1>3. d \in Apparato /\ l \in Letture[r] /\ vivo[r] # Niente
  BY <1>2 DEF ReadingsInv, TypeOK, Niente, Tipo
<1>4. vivo[r].su = d /\ vivo[r].fase = l
  OBVIOUS
<1> HIDE DEF d, l, n
<1>5. /\ vivo'[r].su = d /\ vivo'[r].fase = n /\ vivo'[r] # Niente
      /\ \A x \in Lettore \ {r} : vivo'[x] = vivo[x]
  BY <1>1, <1>2, <1>3, ReadingsAssumption DEF ReadingsInv, TypeOK, Niente
<1>6. TypeOK'
  BY <1>1, <1>2, <1>3 DEF ReadingsInv, TypeOK
<1>7. UnSoloVivo'
  <2>1. \A x \in Lettore : vivo'[x].su = vivo[x].su /\ (vivo'[x] # Niente <=> vivo[x] # Niente)
    BY <1>3, <1>4, <1>5
  <2> QED
    BY <1>2, <2>1 DEF ReadingsInv, UnSoloVivo
<1>8. UnaVlanPerCopia'
  <2>1. ASSUME NEW q \in Lettore, NEW e \in Apparato
        PROVE  <<Copia[q], e>> \in presa' <=>
                 \/ \E x \in Lettore : Copia[x] = Copia[q] /\ AlleVlan(vivo'[x]) /\ vivo'[x].su = e
                 \/ \E b \in appesi' : Copia[b.di] = Copia[q] /\ AlleVlan(b) /\ b.su = e
    <3>1. CASE Copia[q] = Copia[r] /\ e = d
      <4>1. <<Copia[q], e>> \in presa' <=> n = "vlan" \/ (l # "vlan" /\ <<Copia[q], e>> \in presa)
        BY <1>2, <3>1
      <4>2. CASE n = "vlan"
        BY <1>5, <3>1, <4>1, <4>2 DEF AlleVlan
      <4>3. CASE n # "vlan" /\ l # "vlan"
        <5>1. \A x \in Lettore : AlleVlan(vivo'[x]) /\ vivo'[x].su = e <=> AlleVlan(vivo[x]) /\ vivo[x].su = e
          BY <1>4, <1>5, <4>3 DEF AlleVlan
        <5>2. <<Copia[q], e>> \in presa' <=> <<Copia[q], e>> \in presa
          BY <4>1, <4>3
        <5> QED
          BY <1>2, <5>1, <5>2 DEF ReadingsInv, UnaVlanPerCopia, AlleVlan
      <4>4. CASE n # "vlan" /\ l = "vlan"
        <5>1. \A x \in Lettore \ {r} : vivo[x].su # d
          BY <1>3, <1>4 DEF ReadingsInv, UnSoloVivo
        <5>2. \A b \in appesi : AlleVlan(b) /\ Copia[b.di] = Copia[q] => b.su # d
          BY <1>4, <3>1, <4>4 DEF ReadingsInv, UnaVlanPerCopia, AlleVlan
        <5> QED
          BY <1>2, <1>5, <3>1, <4>1, <4>4, <5>1, <5>2 DEF AlleVlan
      <4> QED
        BY <4>2, <4>3, <4>4
    <3>2. CASE ~(Copia[q] = Copia[r] /\ e = d)
      <4>1. <<Copia[q], e>> \in presa' <=> <<Copia[q], e>> \in presa
        BY <1>2, <3>2
      <4>2. \A x \in Lettore : Copia[x] = Copia[q] => (AlleVlan(vivo'[x]) /\ vivo'[x].su = e
                                              <=> AlleVlan(vivo[x]) /\ vivo[x].su = e)
        BY <1>4, <1>5, <3>2
      <4> QED
        BY <1>2, <4>1, <4>2 DEF ReadingsInv, UnaVlanPerCopia
    <3> QED
      BY <3>1, <3>2
  <2>2. ASSUME NEW b \in appesi', AlleVlan(b)
        PROVE  /\ \A c \in appesi' : AlleVlan(c) /\ Copia[c.di] = Copia[b.di] /\ c.su = b.su => c = b
               /\ \A x \in Lettore : AlleVlan(vivo'[x]) /\ Copia[x] = Copia[b.di] => vivo'[x].su # b.su
    <3>1. b \in appesi /\ b.su \in Apparato /\ b.di \in Lettore
      BY <1>2, <2>2 DEF ReadingsInv, TypeOK, Lettore
    <3>2. n = "vlan" /\ Copia[b.di] = Copia[r] => b.su # d
      BY <1>1, <2>2, <3>1 DEF ReadingsInv, UnaVlanPerCopia, d
    <3> QED
      BY <1>2, <1>5, <2>2, <3>1, <3>2 DEF ReadingsInv, UnaVlanPerCopia, AlleVlan
  <2> QED
    BY <2>1, <2>2 DEF UnaVlanPerCopia
<1>9. RigheGiuste'
  BY <1>2, <1>4, <1>5, ReadingsAssumption DEF ReadingsInv, RigheGiuste, Lettore
<1>10. \A x \in Lettore :
        lette'[x] \subseteq Letture[x] /\ vivo'[x].fase \in Letture[x] \union {"fermo", "finito"}
  BY <1>1, <1>2, <1>3, <1>5 DEF ReadingsInv, TypeOK
<1>11. \A x \in Giro : vivo'[x] # Niente => giro'[x].attivo /\ vivo'[x].su \notin giro'[x].resto
  BY <1>2, <1>3, <1>4, <1>5 DEF ReadingsInv, Lettore
<1> QED
  BY <1>6, <1>7, <1>8, <1>9, <1>10, <1>11 DEF ReadingsInv

LEMMA PassoAvanzaAppeso ==
    ASSUME ReadingsInv, NEW b \in appesi, NEW altro \in BOOLEAN, AvanzaAppeso(b, altro)
    PROVE  ReadingsInv'
<1> DEFINE n == Inizia(b.di, b.su, Dopo(b.di, b.fase))
           nuovo == [b EXCEPT !.fase = n]
<1>1. b.di \in Lettore /\ b.di \in Giro /\ b.su \in Apparato /\ b.fase \in Tipo
      /\ b = [di |-> b.di, su |-> b.su, fase |-> b.fase]
  BY DEF ReadingsInv, TypeOK, Lettore
<1>2. /\ n \in (Letture[b.di] \intersect Tipo) \union {"finito"}
      /\ b.fase \notin {"info", "porte"} => n = "finito"
      /\ n = "vlan" => <<Copia[b.di], b.su>> \notin presa
  BY <1>1, LetturaDopo
<1>3. /\ altro => b.fase # "vlan"
      /\ appesi' = (IF altro THEN appesi ELSE appesi \ {b})
                   \union (IF n = "finito" THEN {} ELSE {nuovo})
      /\ presa' = (presa \ (IF b.fase = "vlan" THEN {<<Copia[b.di], b.su>>} ELSE {}))
                  \union (IF n = "vlan" THEN {<<Copia[b.di], b.su>>} ELSE {})
      /\ occupati' = occupati /\ vivo' = vivo /\ lette' = lette /\ giro' = giro /\ righe' = righe
  BY DEF AvanzaAppeso, PresaDopo
<1> HIDE DEF n
<1>4. nuovo = [di |-> b.di, su |-> b.su, fase |-> n]
  BY <1>1
<1>5. nuovo.di = b.di /\ nuovo.su = b.su /\ nuovo.fase = n
  BY <1>4
<1> HIDE DEF nuovo
<1>6. TypeOK'
  BY <1>1, <1>2, <1>3, <1>4 DEF ReadingsInv, TypeOK
<1>7. UnSoloVivo'
  BY <1>3 DEF ReadingsInv, UnSoloVivo
<1>8. UnaVlanPerCopia'
  <2>1. ASSUME NEW q \in Lettore, NEW e \in Apparato
        PROVE  <<Copia[q], e>> \in presa' <=>
                 \/ \E x \in Lettore : Copia[x] = Copia[q] /\ AlleVlan(vivo'[x]) /\ vivo'[x].su = e
                 \/ \E c \in appesi' : Copia[c.di] = Copia[q] /\ AlleVlan(c) /\ c.su = e
    <3>1. CASE Copia[q] = Copia[b.di] /\ e = b.su
      <4>1. <<Copia[q], e>> \in presa' <=> n = "vlan" \/ (b.fase # "vlan" /\ <<Copia[q], e>> \in presa)
        BY <1>3, <3>1
      <4>2. CASE n = "vlan"
        <5>1. nuovo \in appesi'
          BY <1>3, <4>2
        <5> QED
          BY <1>5, <3>1, <4>1, <4>2, <5>1 DEF AlleVlan
      <4>3. CASE n # "vlan" /\ b.fase # "vlan"
        <5>1. \A c : AlleVlan(c) => (c \in appesi' <=> c \in appesi)
          BY <1>3, <1>5, <4>3 DEF AlleVlan
        <5> QED
          BY <1>3, <4>1, <4>3, <5>1 DEF ReadingsInv, UnaVlanPerCopia
      <4>4. CASE n # "vlan" /\ b.fase = "vlan"
        <5>1. \A c \in appesi' : AlleVlan(c) => c \in appesi \ {b}
          BY <1>3, <1>5, <4>4 DEF AlleVlan
        <5> QED
          BY <1>3, <3>1, <4>1, <4>4, <5>1 DEF ReadingsInv, UnaVlanPerCopia, AlleVlan
      <4> QED
        BY <4>2, <4>3, <4>4
    <3>2. CASE ~(Copia[q] = Copia[b.di] /\ e = b.su)
      <4>1. <<Copia[q], e>> \in presa' <=> <<Copia[q], e>> \in presa
        BY <1>3, <3>2
      <4>2. \A c : Copia[c.di] = Copia[q] /\ c.su = e => (c \in appesi' <=> c \in appesi)
        BY <1>3, <1>5, <3>2
      <4> QED
        BY <1>3, <4>1, <4>2 DEF ReadingsInv, UnaVlanPerCopia
    <3> QED
      BY <3>1, <3>2
  <2>2. ASSUME NEW c \in appesi', AlleVlan(c)
        PROVE  /\ \A f \in appesi' : AlleVlan(f) /\ Copia[f.di] = Copia[c.di] /\ f.su = c.su => f = c
               /\ \A x \in Lettore : AlleVlan(vivo'[x]) /\ Copia[x] = Copia[c.di] => vivo'[x].su # c.su
    <3>1. n = "vlan" => /\ \A f \in appesi : AlleVlan(f) => ~(Copia[f.di] = Copia[b.di] /\ f.su = b.su)
                        /\ \A x \in Lettore :
                              AlleVlan(vivo[x]) => ~(Copia[x] = Copia[b.di] /\ vivo[x].su = b.su)
      BY <1>1, <1>2 DEF ReadingsInv, UnaVlanPerCopia
    <3>2. \A f \in appesi' : f \in appesi \/ (f = nuovo /\ n # "finito")
      BY <1>3
    <3>3. CASE c \in appesi
      BY <1>3, <1>5, <2>2, <3>1, <3>2, <3>3 DEF ReadingsInv, UnaVlanPerCopia, AlleVlan
    <3>4. CASE c = nuovo
      BY <1>3, <1>5, <2>2, <3>1, <3>2, <3>4 DEF AlleVlan
    <3> QED
      BY <3>2, <3>3, <3>4
  <2> QED
    BY <2>1, <2>2 DEF UnaVlanPerCopia
<1> QED
  BY <1>3, <1>6, <1>7, <1>8 DEF ReadingsInv, RigheGiuste

-----------------------------------------------------------------------------
(* A body is left                                                          *)

\* Whoever waits no more frees the device, and leaves the other readers as they were.
LEMMA SiLibera ==
    ASSUME ReadingsInv, NEW r \in Lettore, vivo[r] # Niente,
           occupati' = occupati \ {vivo[r].su}, vivo' = [vivo EXCEPT ![r] = Niente],
           lette' = [lette EXCEPT ![r] = {}], giro' = giro,
           righe' = IF r = Job THEN [righe EXCEPT ![vivo[r].su] = Riga("letta", lette[r])] ELSE righe
    PROVE  /\ vivo'[r] = Niente /\ \A x \in Lettore \ {r} : vivo'[x] = vivo[x]
           /\ vivo[r].su \in Apparato
           /\ UnSoloVivo' /\ RigheGiuste'
           /\ righe' \in [Apparato -> [stato : {"niente", "esclusa", "saltata", "letta"},
                                       lette : SUBSET Tipo]]
           /\ \A x \in Lettore :
                 lette'[x] \subseteq Letture[x] /\ vivo'[x].fase \in Letture[x] \union {"fermo", "finito"}
           /\ \A x \in Giro : vivo'[x] # Niente => giro'[x].attivo /\ vivo'[x].su \notin giro'[x].resto
<1> DEFINE d == vivo[r].su
<1>1. vivo'[r] = Niente /\ \A x \in Lettore \ {r} : vivo'[x] = vivo[x]
  BY DEF ReadingsInv, TypeOK
<1>2. d \in Apparato /\ lette[r] \in SUBSET Tipo
  BY DEF ReadingsInv, TypeOK, Niente
<1>3. UnSoloVivo'
  <2>1. {y \in Lettore : vivo'[y] # Niente} = {y \in Lettore : vivo[y] # Niente} \ {r}
    BY <1>1
  <2>2. \A x \in {y \in Lettore : vivo[y] # Niente} \ {r} : vivo'[x].su = vivo[x].su /\ vivo[x].su # d
    BY <1>1 DEF ReadingsInv, UnSoloVivo
  <2>3. occupati' = {vivo'[x].su : x \in {y \in Lettore : vivo'[y] # Niente}}
    BY <2>1, <2>2 DEF ReadingsInv, UnSoloVivo
  <2>4. ASSUME NEW x \in Lettore, NEW y \in Lettore, vivo'[x] # Niente, vivo'[x].su = vivo'[y].su
        PROVE  x = y
    <3>1. vivo'[x].su \in Apparato /\ x # r
      BY <1>1, <2>4 DEF ReadingsInv, TypeOK, Niente
    <3>2. y # r
      BY <1>1, <2>4, <3>1, ReadingsAssumption DEF Niente
    <3> QED
      BY <1>1, <2>4, <3>1, <3>2 DEF ReadingsInv, UnSoloVivo
  <2> QED
    BY <2>3, <2>4 DEF UnSoloVivo
<1>4. righe' \in [Apparato -> [stato : {"niente", "esclusa", "saltata", "letta"}, lette : SUBSET Tipo]]
  BY <1>2 DEF ReadingsInv, TypeOK, Riga
<1>5. RigheGiuste'
  <2>1. CASE r # Job
    BY <1>1, <2>1, ReadingsAssumption DEF ReadingsInv, RigheGiuste, Lettore
  <2>2. CASE r = Job
    <3>1. /\ righe'[d] = Riga("letta", lette[r]) /\ righe'[d] # Vuota
          /\ \A e \in Apparato \ {d} : righe'[e] = righe[e]
      BY <1>2, <2>2 DEF ReadingsInv, TypeOK, Riga, Vuota
    <3>2. d \notin giro[Job].resto /\ giro[Job].attivo
      BY <2>2, ReadingsAssumption DEF ReadingsInv
    <3>3. vivo'[Job].su \notin Apparato
      BY <1>1, <2>2, ReadingsAssumption DEF Niente
    <3>4. righe'[d].lette \subseteq Letture[Job]
      BY <2>2, <3>1 DEF ReadingsInv, Riga
    <3> QED
      BY <2>2, <3>1, <3>2, <3>3, <3>4 DEF ReadingsInv, RigheGiuste
  <2> QED
    BY <2>1, <2>2
<1>6. \A x \in Lettore :
        lette'[x] \subseteq Letture[x] /\ vivo'[x].fase \in Letture[x] \union {"fermo", "finito"}
  BY <1>1 DEF ReadingsInv, TypeOK, Niente
<1>7. \A x \in Giro : vivo'[x] # Niente => giro'[x].attivo /\ vivo'[x].su \notin giro'[x].resto
  BY <1>1 DEF ReadingsInv, Lettore
<1> QED
  BY <1>1, <1>2, <1>3, <1>4, <1>5, <1>6, <1>7

LEMMA PassoEsce ==
    ASSUME ReadingsInv, NEW r \in Lettore, Esce(r)
    PROVE  ReadingsInv'
<1>1. vivo[r] # Niente /\ ~AlleVlan(vivo[r])
  BY DEF Esce, Niente, AlleVlan
<1>2. /\ vivo'[r] = Niente /\ \A x \in Lettore \ {r} : vivo'[x] = vivo[x]
      /\ UnSoloVivo' /\ RigheGiuste'
      /\ righe' \in [Apparato -> [stato : {"niente", "esclusa", "saltata", "letta"}, lette : SUBSET Tipo]]
      /\ \A x \in Lettore :
            lette'[x] \subseteq Letture[x] /\ vivo'[x].fase \in Letture[x] \union {"fermo", "finito"}
      /\ \A x \in Giro : vivo'[x] # Niente => giro'[x].attivo /\ vivo'[x].su \notin giro'[x].resto
  BY <1>1, SiLibera DEF Esce
<1>3. TypeOK'
  BY <1>2 DEF Esce, ReadingsInv, TypeOK
<1>4. \A x \in Lettore : (~AlleVlan(vivo[x]) /\ ~AlleVlan(vivo'[x])) \/ vivo'[x] = vivo[x]
  BY <1>1, <1>2 DEF AlleVlan, Niente
<1>5. UnaVlanPerCopia'
  BY <1>4 DEF Esce, ReadingsInv, UnaVlanPerCopia, AlleVlan
<1> QED
  BY <1>2, <1>3, <1>5 DEF ReadingsInv

LEMMA PassoScade ==
    ASSUME ReadingsInv, NEW r \in Giro, Scade(r)
    PROVE  ReadingsInv'
<1> r \in Lettore
  BY DEF Lettore
<1> DEFINE b == [di |-> r, su |-> vivo[r].su, fase |-> vivo[r].fase]
<1>1. vivo[r] # Niente /\ b.fase \in Tipo /\ appesi' = appesi \union {b} /\ presa' = presa
  BY DEF Scade, Niente, Tipo
<1>2. /\ vivo'[r] = Niente /\ \A x \in Lettore \ {r} : vivo'[x] = vivo[x]
      /\ vivo[r].su \in Apparato
      /\ UnSoloVivo' /\ RigheGiuste'
      /\ righe' \in [Apparato -> [stato : {"niente", "esclusa", "saltata", "letta"}, lette : SUBSET Tipo]]
      /\ \A x \in Lettore :
            lette'[x] \subseteq Letture[x] /\ vivo'[x].fase \in Letture[x] \union {"fermo", "finito"}
      /\ \A x \in Giro : vivo'[x] # Niente => giro'[x].attivo /\ vivo'[x].su \notin giro'[x].resto
  BY <1>1, SiLibera DEF Scade
<1>3. TypeOK'
  BY <1>1, <1>2 DEF Scade, ReadingsInv, TypeOK
<1>4. b.di = r /\ b.su = vivo[r].su /\ b.fase = vivo[r].fase
  OBVIOUS
<1> HIDE DEF b
<1>5. UnaVlanPerCopia'
  <2>1. ASSUME NEW q \in Lettore, NEW e \in Apparato
        PROVE  <<Copia[q], e>> \in presa' <=>
                 \/ \E x \in Lettore : Copia[x] = Copia[q] /\ AlleVlan(vivo'[x]) /\ vivo'[x].su = e
                 \/ \E c \in appesi' : Copia[c.di] = Copia[q] /\ AlleVlan(c) /\ c.su = e
    <3>1. (\E x \in Lettore : Copia[x] = Copia[q] /\ AlleVlan(vivo[x]) /\ vivo[x].su = e)
            <=> \/ \E x \in Lettore : Copia[x] = Copia[q] /\ AlleVlan(vivo'[x]) /\ vivo'[x].su = e
                \/ Copia[b.di] = Copia[q] /\ AlleVlan(b) /\ b.su = e
      BY <1>2, <1>4 DEF AlleVlan, Niente
    <3> QED
      BY <1>1, <3>1 DEF ReadingsInv, UnaVlanPerCopia, AlleVlan
  <2>2. AlleVlan(b) =>
          /\ \A c \in appesi : AlleVlan(c) => ~(Copia[c.di] = Copia[b.di] /\ c.su = b.su)
          /\ \A x \in Lettore \ {r} : vivo[x].su # b.su
    <3>1. AlleVlan(b) => AlleVlan(vivo[r])
      BY <1>4 DEF AlleVlan
    <3>2. \A x \in Lettore \ {r} : vivo[x].su # b.su
      BY <1>1, <1>4 DEF ReadingsInv, UnSoloVivo
    <3> QED
      BY <1>4, <3>1, <3>2 DEF ReadingsInv, UnaVlanPerCopia
  <2>3. \A x \in Lettore : AlleVlan(vivo'[x]) => x # r /\ vivo'[x] = vivo[x]
    BY <1>2 DEF AlleVlan, Niente
  <2>4. ASSUME NEW c \in appesi', AlleVlan(c)
        PROVE  /\ \A f \in appesi' : AlleVlan(f) /\ Copia[f.di] = Copia[c.di] /\ f.su = c.su => f = c
               /\ \A x \in Lettore : AlleVlan(vivo'[x]) /\ Copia[x] = Copia[c.di] => vivo'[x].su # c.su
    BY <1>1, <2>2, <2>3, <2>4 DEF ReadingsInv, UnaVlanPerCopia
  <2> QED
    BY <2>1, <2>4 DEF UnaVlanPerCopia
<1> QED
  BY <1>2, <1>3, <1>5 DEF ReadingsInv

-----------------------------------------------------------------------------
(* The rounds and the restart                                              *)

LEMMA PassoComincia ==
    ASSUME ReadingsInv, NEW r \in Giro, Comincia(r)
    PROVE  ReadingsInv'
<1> Job \in Giro /\ Giro \subseteq Lettore
  BY ReadingsAssumption DEF Lettore
<1>1. PICK inclusi \in SUBSET Apparato :
        /\ giro' = [giro EXCEPT ![r] = [attivo |-> TRUE, resto |-> inclusi]]
        /\ righe' = IF r = Job
                      THEN [d \in Apparato |-> IF d \in inclusi THEN Vuota ELSE Riga("esclusa", {})]
                      ELSE righe
  BY DEF Comincia
<1>2. /\ ~giro[r].attivo /\ occupati' = occupati /\ presa' = presa /\ vivo' = vivo
      /\ lette' = lette /\ appesi' = appesi
  BY DEF Comincia
<1>3. TypeOK'
  BY <1>1, <1>2 DEF ReadingsInv, TypeOK, Riga, Vuota
<1>4. vivo[r] = Niente
  BY <1>2 DEF ReadingsInv
<1>5. RigheGiuste'
  <2>1. CASE r # Job
    BY <1>1, <1>2, <2>1 DEF ReadingsInv, TypeOK, RigheGiuste
  <2>2. CASE r = Job
    <3>1. giro'[Job].resto = inclusi /\ vivo'[Job].su \notin Apparato
      BY <1>1, <1>2, <1>4, <2>2, ReadingsAssumption DEF ReadingsInv, TypeOK, Niente
    <3>2. \A d \in Apparato : righe'[d] = IF d \in inclusi THEN Vuota ELSE Riga("esclusa", {})
      BY <1>1, <2>2
    <3> QED
      BY <3>1, <3>2 DEF RigheGiuste, Vuota, Riga
  <2> QED
    BY <2>1, <2>2
<1>6. \A x \in Giro : vivo'[x] # Niente => giro'[x].attivo /\ vivo'[x].su \notin giro'[x].resto
  BY <1>1, <1>2, <1>4 DEF ReadingsInv, TypeOK
<1> QED
  BY <1>2, <1>3, <1>5, <1>6 DEF ReadingsInv, UnSoloVivo, UnaVlanPerCopia, AlleVlan

LEMMA PassoSalta ==
    ASSUME ReadingsInv, NEW r \in Giro, NEW d \in Apparato, Salta(r, d)
    PROVE  ReadingsInv'
<1> Job \in Giro /\ Giro \subseteq Lettore
  BY ReadingsAssumption DEF Lettore
<1>1. /\ giro[r].attivo /\ vivo[r] = Niente /\ d \in giro[r].resto
      /\ giro' = [giro EXCEPT ![r].resto = @ \ {d}]
      /\ righe' = IF r = Job THEN [righe EXCEPT ![d] = Riga("saltata", {})] ELSE righe
      /\ occupati' = occupati /\ presa' = presa /\ vivo' = vivo /\ lette' = lette /\ appesi' = appesi
  BY DEF Salta
<1>2. TypeOK'
  BY <1>1 DEF ReadingsInv, TypeOK, Riga
<1>3. RigheGiuste'
  <2>1. CASE r # Job
    BY <1>1, <2>1 DEF ReadingsInv, TypeOK, RigheGiuste
  <2>2. CASE r = Job
    <3>1. giro'[Job].resto = giro[Job].resto \ {d} /\ vivo'[Job].su \notin Apparato
      BY <1>1, <2>2, ReadingsAssumption DEF ReadingsInv, TypeOK, Niente
    <3>2. /\ righe'[d] = Riga("saltata", {})
          /\ \A e \in Apparato \ {d} : righe'[e] = righe[e]
      BY <1>1, <2>2 DEF ReadingsInv, TypeOK
    <3>3. vivo[Job].su \notin Apparato
      BY <1>1, <2>2, ReadingsAssumption DEF Niente
    <3> QED
      BY <1>1, <2>2, <3>1, <3>2, <3>3 DEF ReadingsInv, RigheGiuste, Riga, Vuota
  <2> QED
    BY <2>1, <2>2
<1>4. \A x \in Giro : vivo'[x] # Niente => giro'[x].attivo /\ vivo'[x].su \notin giro'[x].resto
  BY <1>1 DEF ReadingsInv, TypeOK
<1> QED
  BY <1>1, <1>2, <1>3, <1>4 DEF ReadingsInv, UnSoloVivo, UnaVlanPerCopia, AlleVlan

LEMMA PassoTermina ==
    ASSUME ReadingsInv, NEW r \in Giro, Termina(r)
    PROVE  ReadingsInv'
<1> Job \in Giro /\ Giro \subseteq Lettore
  BY ReadingsAssumption DEF Lettore
<1>1. /\ vivo[r] = Niente
      /\ giro' = [giro EXCEPT ![r].attivo = FALSE]
      /\ righe' = IF r = Job THEN [d \in Apparato |-> Vuota] ELSE righe
      /\ occupati' = occupati /\ presa' = presa /\ vivo' = vivo /\ lette' = lette /\ appesi' = appesi
  BY DEF Termina
<1>2. TypeOK'
  BY <1>1, ZenonT(60) DEF ReadingsInv, TypeOK, Riga, Vuota
<1>3. RigheGiuste'
  BY <1>1 DEF ReadingsInv, TypeOK, RigheGiuste
<1>4. \A x \in Giro : vivo'[x] # Niente => giro'[x].attivo /\ vivo'[x].su \notin giro'[x].resto
  BY <1>1 DEF ReadingsInv, TypeOK
<1> QED
  BY <1>1, <1>2, <1>3, <1>4 DEF ReadingsInv, UnSoloVivo, UnaVlanPerCopia, AlleVlan

LEMMA PassoRiavvio == ASSUME ReadingsInv, Riavvio PROVE ReadingsInv'
<1> Job \in Giro /\ Giro \subseteq Lettore
  BY ReadingsAssumption DEF Lettore
<1>1. TypeOK'
  BY DEF Riavvio, TypeOK, Vuota, Riga
<1>2. UnSoloVivo'
  BY DEF Riavvio, UnSoloVivo
<1>3. UnaVlanPerCopia'
  BY DEF Riavvio, UnaVlanPerCopia, AlleVlan, Niente
<1>4. RigheGiuste'
  BY DEF Riavvio, RigheGiuste
<1> QED
  BY <1>1, <1>2, <1>3, <1>4 DEF Riavvio, ReadingsInv, Niente

-----------------------------------------------------------------------------
(* The theorems                                                            *)

LEMMA PassoReadingsInv == ReadingsInv /\ [Next]_vars => ReadingsInv'
<1> SUFFICES ASSUME ReadingsInv, [Next]_vars PROVE ReadingsInv'
  OBVIOUS
<1>1. ASSUME NEW r \in Giro, Comincia(r) \/ Scade(r) \/ Termina(r)
      PROVE  ReadingsInv'
  BY <1>1, PassoComincia, PassoScade, PassoTermina
<1>2. ASSUME NEW r \in Giro, NEW d \in Apparato, Prende(r, d) \/ Salta(r, d)
      PROVE  ReadingsInv'
  BY <1>2, PassoPrende, PassoSalta
<1>3. ASSUME NEW r \in Domanda, NEW d \in Apparato, Interroga(r, d)
      PROVE  ReadingsInv'
  BY <1>3, PassoInterroga
<1>4. ASSUME NEW r \in Lettore, Esce(r) \/ \E bene \in BOOLEAN : Avanza(r, bene)
      PROVE  ReadingsInv'
  BY <1>4, PassoEsce, PassoAvanza
<1>5. ASSUME NEW b \in appesi, NEW altro \in BOOLEAN, AvanzaAppeso(b, altro)
      PROVE  ReadingsInv'
  BY <1>5, PassoAvanzaAppeso
<1>6. CASE Riavvio
  BY <1>6, PassoRiavvio
<1>7. CASE UNCHANGED vars
  BY <1>7 DEF vars, ReadingsInv, TypeOK, UnSoloVivo, UnaVlanPerCopia, AlleVlan, RigheGiuste
<1> QED
  BY <1>1, <1>2, <1>3, <1>4, <1>5, <1>6, <1>7 DEF Next

\* For any devices, readers and readings, whatever hangs: a device is locked exactly
\* while one reader waits for it, the VLAN lock of a copy names exactly the body that is
\* at the VLANs of a device, hung or not, and the rows of the job say what was passed
\* (devices/lucchetto-apparato.ts, topology/letture/cadenza.ts, apparati-scelti/giro.ts).
THEOREM LucchettiEsatti == SafeSpec => []ReadingsInv
BY IniziDaFermi, PassoReadingsInv, PTL DEF SafeSpec

\* In each copy of the code one body at a time reads the VLANs of a device, also after
\* the time of the device is over (topology/letture/cadenza.ts:39).
THEOREM UnaVlanAllaVolta == SafeSpec => []UnaVlanPerCopia
BY LucchettiEsatti, PTL DEF ReadingsInv

\* A body that hangs, or another reader, does not change a recorded outcome of the round
\* that runs (apparati-scelti/giro.ts:174).
THEOREM EsitiFermi == SafeSpec => Fotografia
<1>1. ReadingsInv /\ [Next]_vars =>
        [\A d \in Apparato :
           righe[d] # Vuota /\ giro[Job].attivo /\ giro'[Job].attivo => righe'[d] = righe[d]]_vars
  <2> SUFFICES ASSUME ReadingsInv, Next, NEW d \in Apparato,
                      righe[d] # Vuota, giro[Job].attivo, giro'[Job].attivo
               PROVE  righe'[d] = righe[d]
    BY DEF vars
  <2>0. Job \in Giro /\ Giro \subseteq Lettore
    BY ReadingsAssumption DEF Lettore
  <2>1. d \notin giro[Job].resto /\ d # vivo[Job].su
    BY DEF ReadingsInv, RigheGiuste
  <2>2. ASSUME NEW r \in Giro, Comincia(r) \/ Termina(r)
        PROVE  righe'[d] = righe[d]
    BY <2>0, <2>2 DEF Comincia, Termina, ReadingsInv, TypeOK
  <2>3. ASSUME NEW r \in Lettore, righe' = IF r = Job THEN [righe EXCEPT ![vivo[r].su] = Riga("letta", lette[r])]
                                          ELSE righe
        PROVE  righe'[d] = righe[d]
    BY <2>1, <2>3 DEF ReadingsInv, TypeOK
  <2>4. ASSUME NEW r \in Giro, NEW e \in Apparato, Prende(r, e) \/ Salta(r, e)
        PROVE  righe'[d] = righe[d]
    BY <2>1, <2>4 DEF Prende, Salta, ReadingsInv, TypeOK
  <2>5. CASE Riavvio
    BY <2>0, <2>5 DEF Riavvio
  <2> QED
    BY <2>0, <2>2, <2>3, <2>4, <2>5 DEF Next, Scade, Esce, Interroga, Avanza, AvanzaAppeso
<1> QED
  BY <1>1, LucchettiEsatti, PTL DEF SafeSpec, Fotografia

=============================================================================
