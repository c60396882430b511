-------------------------- MODULE VarHolderProofs ---------------------------
(***************************************************************************)
(* Proofs about VarHolder, for any names, ids and lists of variables: that *)
(* what a holder caches stays true until the client of the cached id comes *)
(* up with other variables, and what the getters answer.                   *)
(***************************************************************************)
EXTENDS VarReads, WellFoundedInduction, TLAPS

(* What is cached: the index of the holder's variable in the client with   *)
(* the cached id, unless that has other variables since.                   *)
CacheTrue ==
    available_ /\ ~renewed =>
        /\ clientId_ \in ClientIds
        /\ idx_ + 1 \in DOMAIN varHeaders[clientId_]
        /\ varHeaders[clientId_][idx_ + 1] = name_

(* Between the two halves of a getter nothing happens but in the simulator.*)
CallTrue ==
    pc = "value" => /\ available_ /\ clientId_ = getActive
                    /\ getActive \in available \/ (lost /\ getActive = LIVE)

Inv ==
    /\ TypeOK /\ CacheTrue /\ CallTrue
    /\ ReadsItsVariable /\ FindsItsVariable /\ ThrowsOnlyIfLost

-----------------------------------------------------------------------------
(* VarIdx is the index of the variable (getVarIdx).                        *)
LEMMA VarIdxLemma ==
    ASSUME NEW id \in ClientIds, NEW name, Has(id, name), TypeOK
    PROVE  /\ VarIdx(id, name) \in Nat
           /\ VarIdx(id, name) + 1 \in DOMAIN varHeaders[id]
           /\ varHeaders[id][VarIdx(id, name) + 1] = name
<1> DEFINE l == varHeaders[id]
           c == CHOOSE i \in DOMAIN l : l[i] = name
<1>1. l \in Seq(Names)  BY HolderAssumption DEF TypeOK, HolderAssumption
<1>2. \E i \in DOMAIN l : l[i] = name  BY DEF Has, Range
<1>3. c \in DOMAIN l /\ l[c] = name
  <2> HIDE DEF l
  <2> QED  BY <1>2
<1>4. VarIdx(id, name) = c - 1  BY DEF VarIdx
<1>5. DOMAIN l = 1..Len(l) /\ Len(l) \in Nat  BY <1>1
<1> HIDE DEF c, l
<1>6. c \in Nat \ {0} /\ VarIdx(id, name) + 1 = c  BY <1>3, <1>4, <1>5
<1> QED  BY <1>3, <1>4, <1>6 DEF l

LEMMA InitInv == Init => Inv
<1> SUFFICES ASSUME Init PROVE Inv
  OBVIOUS
<1> USE HolderAssumption DEF HolderAssumption, ClientIds
<1>1. TypeOK  BY DEF Init, TypeOK
<1>2. CacheTrue /\ CallTrue  BY DEF Init, CacheTrue, CallTrue
<1>3. out = "none"  BY DEF Init
<1>4. Layouts \subseteq Seq(Names)  OBVIOUS
<1>5. ThrowsOnlyIfLost /\ FindsItsVariable  BY <1>3 DEF ThrowsOnlyIfLost, FindsItsVariable
<1>6. ReadsItsVariable  BY <1>3 DEF ReadsItsVariable
<1> QED  BY <1>1, <1>2, <1>5, <1>6 DEF Inv

(* A client comes up: an index that is kept with its id stays true when    *)
(* its variables are the same, and the others are not touched.             *)
LEMMA ComesUpKeeps ==
    ASSUME TypeOK, CacheTrue, NEW id \in ClientIds, ComesUp(id), UNCHANGED cacheVars
    PROVE  /\ varHeaders' \in [ClientIds -> Layouts] /\ renewed' \in BOOLEAN
           /\ renewed => renewed'
           /\ CacheTrue'
<1>1. PICK l \in Layouts :
        /\ varHeaders' = [varHeaders EXCEPT ![id] = l]
        /\ renewed' = (renewed \/ (id = clientId_ /\ l # varHeaders[id]))
  BY DEF ComesUp
<1>2. varHeaders' \in [ClientIds -> Layouts]  BY <1>1 DEF TypeOK
<1>3. renewed' \in BOOLEAN /\ (renewed => renewed')  BY <1>1 DEF TypeOK
<1>4. ASSUME available_', ~renewed'
      PROVE  /\ clientId_' \in ClientIds
             /\ idx_' + 1 \in DOMAIN varHeaders'[clientId_']
             /\ varHeaders'[clientId_'][idx_' + 1] = name_'
  <2>1. available_ /\ ~renewed  BY <1>3, <1>4 DEF cacheVars
  <2>2. ~(id = clientId_ /\ l # varHeaders[id])  BY <1>1, <1>4
  <2>3. clientId_ \in ClientIds  BY <2>1 DEF CacheTrue
  <2>4. varHeaders'[clientId_] = varHeaders[clientId_]  BY <1>1, <2>2, <2>3 DEF TypeOK
  <2> QED  BY <2>1, <2>3, <2>4 DEF CacheTrue, cacheVars
<1> QED  BY <1>2, <1>3, <1>4 DEF CacheTrue

LEMMA Step == ASSUME Inv, [Next]_vars PROVE Inv'
<1> USE HolderAssumption DEF HolderAssumption
<1>t. TypeOK /\ CacheTrue /\ CallTrue  BY DEF Inv
<1>c. ASSUME UNCHANGED <<holderVars, varHeaders>>, TypeOK' PROVE CacheTrue'
  BY <1>t, <1>c DEF CacheTrue, holderVars, cacheVars
<1>o. ASSUME UNCHANGED <<name_, out, had>>, lost => lost', renewed => renewed'
      PROVE  (ReadsItsVariable /\ FindsItsVariable /\ ThrowsOnlyIfLost)'
  BY <1>o DEF Inv, ReadsItsVariable, FindsItsVariable, ThrowsOnlyIfLost
<1>i. ASSUME pc' = "idle" PROVE CallTrue'
  BY <1>i DEF CallTrue
<1>1. CASE Connect
  <2>1. /\ varHeaders' \in [ClientIds -> Layouts] /\ renewed' \in BOOLEAN
        /\ renewed => renewed'
        /\ CacheTrue'
    BY <1>1, <1>t, ComesUpKeeps DEF Connect, ClientIds
  <2>2. TypeOK'
    BY <1>1, <1>t, <2>1 DEF Connect, ComesUp, TypeOK, ClientIds, managerVars, cacheVars, callVars
  <2>4. CallTrue'
    BY <1>1, <1>t DEF Connect, ComesUp, CallTrue, getActive, managerVars, cacheVars, callVars
  <2> QED  BY <1>1, <1>o, <2>1, <2>2, <2>4 DEF Connect, Inv, cacheVars, callVars
<1>2. CASE Disconnect
  <2>2. TypeOK'
    BY <1>2, <1>t DEF Disconnect, TypeOK, ClientIds, managerVars, holderVars, cacheVars
  <2>3. CacheTrue'  BY <1>2, <1>c, <2>2 DEF Disconnect
  <2>4. CallTrue'
    BY <1>2, <1>t DEF Disconnect, CallTrue, TypeOK, getActive, managerVars, holderVars, cacheVars
  <2> QED  BY <1>2, <1>o, <2>2, <2>3, <2>4 DEF Disconnect, Inv, holderVars, cacheVars
<1>3. ASSUME NEW id \in ClientIds, SetActive(id) PROVE Inv'
  <2>2. TypeOK'
    BY <1>3, <1>t DEF SetActive, setActive, TypeOK, ClientIds, clientVars, holderVars, cacheVars, callVars
  <2> QED  BY <1>3, <1>c, <1>o, <1>i, <2>2 DEF SetActive, Inv, clientVars, holderVars, cacheVars, callVars
<1>4. ASSUME NEW id \in ClientIds, RemoveClient(id) PROVE Inv'
  <2>2. TypeOK'
    BY <1>4, <1>t DEF RemoveClient, remove, TypeOK, ClientIds, clientVars, holderVars, cacheVars, callVars
  <2> QED  BY <1>4, <1>c, <1>o, <1>i, <2>2 DEF RemoveClient, Inv, clientVars, holderVars, cacheVars, callVars
<1>5. ASSUME NEW id \in ClientIds, Open(id) PROVE Inv'
  <2>1. /\ varHeaders' \in [ClientIds -> Layouts] /\ renewed' \in BOOLEAN
        /\ renewed => renewed'
        /\ CacheTrue'
    BY <1>5, <1>t, ComesUpKeeps DEF Open
  <2>2. TypeOK'
    BY <1>5, <1>t, <2>1 DEF Open, ComesUp, TypeOK, ClientIds, managerVars, cacheVars, callVars
  <2> QED  BY <1>5, <1>o, <1>i, <2>1, <2>2 DEF Open, Inv, cacheVars, callVars
<1>6. ASSUME NEW id \in ClientIds, Close(id) PROVE Inv'
  <2>2. TypeOK'
    BY <1>6, <1>t DEF Close, remove, TypeOK, ClientIds, managerVars, holderVars, cacheVars, callVars
  <2> QED  BY <1>6, <1>c, <1>o, <1>i, <2>2 DEF Close, Inv, holderVars, cacheVars, callVars
<1>7. ASSUME NEW id \in ClientIds, NEW active \in BOOLEAN, Add(id, active) PROVE Inv'
  <2>2. TypeOK'
    BY <1>7, <1>t DEF Add, setActive, TypeOK, ClientIds, clientVars, holderVars, cacheVars, callVars
  <2> QED  BY <1>7, <1>c, <1>o, <1>i, <2>2 DEF Add, Inv, clientVars, holderVars, cacheVars, callVars
<1>8. CASE Get
  <2> DEFINE id == getActive
  <2>0. /\ pc = "idle" /\ isAvailable(id)
        /\ out' = IF pc' = "value" THEN "none" ELSE "default"
        /\ had' = Has(id, name_) /\ lost' = FALSE
        /\ UNCHANGED <<available, varHeaders, clients_, activeClientId_, name_>>
    BY <1>8 DEF Get, clientVars, managerVars
  <2>1. id \in available => id \in ClientIds
    BY <1>t DEF TypeOK
  <2>2. id' = id  BY <2>0 DEF getActive
  <2> HIDE DEF id
  <2>3. CASE id \in available /\ ~Cached(id) /\ Has(id, name_)
    <3>1. /\ clientId_' = id /\ available_' /\ available_' = TRUE
          /\ idx_' = VarIdx(id, name_) /\ pc' = "value" /\ renewed' = FALSE
      BY <2>0, <2>3 DEF isAvailable, LookUp, Has
    <3>2. /\ VarIdx(id, name_) \in Nat
          /\ VarIdx(id, name_) + 1 \in DOMAIN varHeaders[id]
          /\ varHeaders[id][VarIdx(id, name_) + 1] = name_
      BY <1>t, <2>1, <2>3, VarIdxLemma
    <3>3. TypeOK'
      BY <1>t, <2>0, <2>1, <2>3, <3>1, <3>2 DEF TypeOK, Has
    <3>4. CacheTrue'
      BY <2>0, <2>1, <2>3, <3>1, <3>2 DEF CacheTrue
    <3>5. CallTrue'  BY <2>0, <2>2, <2>3, <3>1 DEF CallTrue, id
    <3> QED  BY <2>0, <3>1, <3>3, <3>4, <3>5 DEF Inv, ReadsItsVariable, FindsItsVariable, ThrowsOnlyIfLost
  <2>4. CASE id \in available /\ ~Cached(id) /\ ~Has(id, name_)
    <3>1. /\ clientId_' = id /\ ~available_' /\ available_' = FALSE
          /\ idx_' = idx_ /\ pc' = "idle" /\ renewed' = FALSE
      BY <2>0, <2>4 DEF isAvailable, LookUp, Has
    <3>2. TypeOK'
      BY <1>t, <2>0, <2>1, <2>4, <3>1 DEF TypeOK, Has
    <3> QED
      BY <1>i, <2>0, <2>4, <3>1, <3>2 DEF Inv, CacheTrue, ReadsItsVariable, FindsItsVariable, ThrowsOnlyIfLost
  <2>5. CASE ~(id \in available /\ ~Cached(id))
    <3>1. /\ pc' = IF id \in available /\ available_ THEN "value" ELSE "idle"
          /\ UNCHANGED <<available_, idx_, clientId_, renewed>>
      BY <2>0, <2>5 DEF isAvailable
    <3>2. TypeOK'
      BY <1>t, <2>0, <3>1 DEF TypeOK, Has
    <3>3. CacheTrue'  BY <1>c, <2>0, <3>1, <3>2 DEF holderVars, cacheVars
    <3>4. CASE id \in available
      <4>1. available_ /\ clientId_ = id  BY <2>5, <3>4 DEF Cached
      <4>2. CallTrue'  BY <2>0, <2>2, <3>1, <3>4, <4>1 DEF CallTrue, id
      <4>3. out' = "none"  BY <2>0, <3>1, <3>4, <4>1
      <4> QED  BY <3>2, <3>3, <4>2, <4>3 DEF Inv, ReadsItsVariable, FindsItsVariable, ThrowsOnlyIfLost
    <3>5. CASE id \notin available
      <4>1. pc' = "idle" /\ out' = "default" /\ ~had'
        BY <2>0, <3>1, <3>5 DEF Has
      <4> QED  BY <1>i, <3>2, <3>3, <4>1 DEF Inv, ReadsItsVariable, FindsItsVariable, ThrowsOnlyIfLost
    <3> QED  BY <3>4, <3>5
  <2> QED  BY <2>3, <2>4, <2>5
<1>9. CASE GetValue
  <2> DEFINE id == getActive
             found == id \in available /\ idx_ < Len(varHeaders[id])
  <2>1. /\ pc = "value" /\ pc' = "idle"
        /\ UNCHANGED <<available, varHeaders, clients_, activeClientId_, name_,
                       available_, idx_, clientId_, renewed, had, lost>>
        /\ out' = CASE found -> varHeaders[id][idx_ + 1]
                    [] ~found -> IF id = LIVE THEN "throw" ELSE "default"
    BY <1>9 DEF GetValue, clientVars, managerVars, holderVars, cacheVars
  <2>2. available_ /\ clientId_ = id /\ (id \in available \/ (lost /\ id = LIVE))
    BY <1>t, <2>1 DEF CallTrue
  <2>3. varHeaders[id] \in Seq(Names) /\ idx_ \in Nat
    BY <1>t, <2>2 DEF TypeOK, ClientIds
  <2> HIDE DEF id
  <2>4. CASE found
    <3>1. out' = varHeaders[id][idx_ + 1] /\ out' \in Names  BY <2>1, <2>3, <2>4
    <3>2. ~renewed => out' = name_  BY <1>t, <2>2, <3>1 DEF CacheTrue
    <3>3. TypeOK'  BY <1>t, <2>1, <3>1 DEF TypeOK
    <3>4. (ReadsItsVariable /\ FindsItsVariable /\ ThrowsOnlyIfLost)'
      BY <2>1, <3>1, <3>2 DEF ReadsItsVariable, FindsItsVariable, ThrowsOnlyIfLost, HolderAssumption
    <3>5. CacheTrue'  BY <1>t, <2>1 DEF CacheTrue
    <3> QED  BY <1>i, <2>1, <3>3, <3>4, <3>5 DEF Inv
  <2>5. CASE ~found
    <3>1. out' = IF id = LIVE THEN "throw" ELSE "default"  BY <2>1, <2>5
    <3>2. id \in available => renewed
      <4>1. ASSUME id \in available, ~renewed PROVE FALSE
        <5>1. idx_ + 1 \in DOMAIN varHeaders[id]  BY <1>t, <2>2, <4>1 DEF CacheTrue
        <5>2. idx_ < Len(varHeaders[id])  BY <2>3, <5>1
        <5> QED  BY <2>5, <4>1, <5>2
      <4> QED  BY <4>1
    <3>3. TypeOK'  BY <1>t, <2>1, <3>1 DEF TypeOK
    <3>4. (ReadsItsVariable /\ FindsItsVariable /\ ThrowsOnlyIfLost)'
      BY <2>1, <2>2, <3>1, <3>2 DEF ReadsItsVariable, FindsItsVariable, ThrowsOnlyIfLost
    <3>5. CacheTrue'  BY <1>t, <2>1 DEF CacheTrue
    <3> QED  BY <1>i, <2>1, <3>3, <3>4, <3>5 DEF Inv
  <2> QED  BY <2>4, <2>5
<1>10. ASSUME NEW name \in Names, setVarName(name) PROVE Inv'
  <2> DEFINE id == getActive
  <2>0. /\ pc = "idle" /\ name_' = name /\ out' = "none" /\ had' = FALSE
        /\ UNCHANGED <<available, varHeaders, clients_, activeClientId_, pc, lost>>
        /\ IF id \in available THEN LookUp(id, name)
           ELSE available_' = FALSE /\ UNCHANGED <<idx_, clientId_, renewed>>
    BY <1>10 DEF setVarName, clientVars, managerVars
  <2>1. id \in available => id \in ClientIds  BY <1>t DEF TypeOK
  <2> HIDE DEF id
  <2>2. (ReadsItsVariable /\ FindsItsVariable /\ ThrowsOnlyIfLost)'
    BY <2>0 DEF ReadsItsVariable, FindsItsVariable, ThrowsOnlyIfLost
  <2>3. CASE Has(id, name)
    <3>1. /\ clientId_' = id /\ available_' = TRUE /\ idx_' = VarIdx(id, name)
          /\ renewed' = FALSE
      BY <2>0, <2>3 DEF LookUp, Has
    <3>2. /\ VarIdx(id, name) \in Nat
          /\ VarIdx(id, name) + 1 \in DOMAIN varHeaders[id]
          /\ varHeaders[id][VarIdx(id, name) + 1] = name
      BY <1>t, <2>1, <2>3, VarIdxLemma DEF Has
    <3>3. TypeOK'  BY <1>t, <2>0, <2>1, <2>3, <3>1, <3>2 DEF TypeOK, Has
    <3>4. CacheTrue'  BY <2>0, <2>1, <2>3, <3>1, <3>2 DEF CacheTrue, Has
    <3> QED  BY <1>i, <2>0, <2>2, <3>3, <3>4 DEF Inv
  <2>4. CASE ~Has(id, name)
    <3>1. ~available_' /\ available_' = FALSE /\ idx_' = idx_
      BY <2>0, <2>4 DEF LookUp
    <3>2. clientId_' \in ClientIds \cup {None}
      BY <1>t, <2>0, <2>1 DEF LookUp, TypeOK
    <3>3. renewed' = FALSE \/ renewed' = renewed
      BY <2>0 DEF LookUp
    <3>4. renewed' \in BOOLEAN  BY <1>t, <3>3 DEF TypeOK
    <3>5. TypeOK'  BY <1>t, <2>0, <3>1, <3>2, <3>4 DEF TypeOK
    <3> QED  BY <1>i, <2>0, <2>2, <3>1, <3>5 DEF Inv, CacheTrue
  <2> QED  BY <2>3, <2>4
<1>11. CASE UNCHANGED vars
  <2>2. TypeOK'
    BY <1>11, <1>t DEF vars, TypeOK, clientVars, managerVars, holderVars, cacheVars, callVars
  <2>4. CallTrue'
    BY <1>11, <1>t DEF vars, CallTrue, getActive, clientVars, managerVars, holderVars, cacheVars, callVars
  <2> QED  BY <1>11, <1>c, <1>o, <2>2, <2>4 DEF vars, Inv, clientVars, holderVars, cacheVars, callVars
<1> QED
  BY <1>1, <1>2, <1>3, <1>4, <1>5, <1>6, <1>7, <1>8, <1>9, <1>10, <1>11 DEF Next

-----------------------------------------------------------------------------
(* The invariant holds in every state, whatever variables the clients come *)
(* up with.                                                                *)
THEOREM Invariance == Spec => []Inv
<1>1. Inv /\ [Next]_vars => Inv'  BY Step
<1> QED  BY <1>1, InitInv, PTL DEF Spec

(* Types (TypeOK).                                                         *)
THEOREM TypeCorrect == Spec => []TypeOK
<1>1. Inv => TypeOK  BY DEF Inv
<1> QED  BY <1>1, Invariance, PTL

(* A getter returns the value of the holder's variable (isAvailable and    *)
(* its cached idx_), whatever the clients do, until the client whose id it *)
(* keeps comes up with other variables.                                    *)
THEOREM ReadsItsVariableHolds == Spec => []ReadsItsVariable
<1>1. Inv => ReadsItsVariable  BY DEF Inv
<1> QED  BY <1>1, Invariance, PTL

(* The default is returned only when the client lacks the variable, or has *)
(* come up with other variables since the index was looked up.             *)
THEOREM FindsItsVariableHolds == Spec => []FindsItsVariable
<1>1. Inv => FindsItsVariable  BY DEF Inv
<1> QED  BY <1>1, Invariance, PTL

(* A getter throws only when the client was lost between isAvailable and   *)
(* the read, or has come up with other variables since the look-up.        *)
THEOREM ThrowsOnlyIfLostHolds == Spec => []ThrowsOnlyIfLost
<1>1. Inv => ThrowsOnlyIfLost  BY DEF Inv
<1> QED  BY <1>1, Invariance, PTL

-----------------------------------------------------------------------------
(* The layout of a row.                                                    *)

Variables == [type : DOMAIN VarDataTypeBytes, count : Nat \ {0}]
Size(v) == v.count * VarDataTypeBytes[v.type]

LEMMA SizeIs ==
  ASSUME NEW t \in DOMAIN VarDataTypeBytes
  PROVE  VarDataTypeBytes[t] \in {1, 4, 8}
BY DEF VarDataTypeBytes

(* A nonempty set of naturals has a least element.                         *)
LEMMA Least ==
  ASSUME NEW T \in SUBSET Nat, T # {}
  PROVE  \E x \in T : \A y \in T : x <= y
<1> DEFINE R == {ss \in Nat \X Nat : ss[1] < ss[2]}
<1>1. IsWellFoundedOn(R, Nat) BY NatLessThanWellFounded DEF OpToRel
<1> HIDE DEF R
<1>2. PICK x \in T : \A y \in T : ~(<<y, x>> \in R) BY <1>1, WFMin
<1>3. \A y \in T : ~(y < x) BY <1>2 DEF R
<1> QED BY <1>3

(* The offsets of variables that take up size[1], size[2] .. bytes each.   *)
Follow(offset, size, n) ==
    \A i \in 1 .. n : offset[i] = IF i = 1 THEN 0 ELSE offset[i - 1] + size[i - 1]

LEMMA OffsetsExist ==
  ASSUME NEW n \in Nat, NEW size \in [1 .. n -> Nat]
  PROVE  \E offset \in [1 .. n -> Nat] : Follow(offset, size, n)
<1> DEFINE Bad == {m \in Nat : m <= n /\ ~(\E f \in [1 .. m -> Nat] : Follow(f, size, m))}
<1>1. Bad = {}
  <2> SUFFICES ASSUME Bad # {} PROVE FALSE
    OBVIOUS
  <2>1. PICK m \in Bad : \A k \in Bad : m <= k BY Least
  <2>2. m \in Nat /\ m <= n OBVIOUS
  <2>3. CASE m = 0
    <3> DEFINE f == [i \in 1 .. m |-> 0]
    <3>1. f \in [1 .. m -> Nat] OBVIOUS
    <3>2. Follow(f, size, m) BY <2>3 DEF Follow
    <3> HIDE DEF f
    <3> QED BY <2>1, <3>1, <3>2
  <2>4. CASE m # 0
    <3>1. m - 1 \in Nat /\ m - 1 <= n /\ ~(m <= m - 1) BY <2>2, <2>4
    <3>2. m - 1 \notin Bad BY <2>1, <3>1
    <3>3. PICK g \in [1 .. m - 1 -> Nat] : Follow(g, size, m - 1) BY <3>1, <3>2
    <3> DEFINE end == IF m = 1 THEN 0 ELSE g[m - 1] + size[m - 1]
               f == [i \in 1 .. m |-> IF i = m THEN end ELSE g[i]]
    <3>4. end \in Nat
      <4>1. m # 1 => m - 1 \in 1 .. m - 1 /\ m - 1 \in 1 .. n BY <2>2, <3>1
      <4> QED BY <4>1
    <3> HIDE DEF end
    <3>5. f \in [1 .. m -> Nat] BY <2>2, <3>4
    <3>6. ASSUME NEW i \in 1 .. m
          PROVE  f[i] = IF i = 1 THEN 0 ELSE f[i - 1] + size[i - 1]
      <4>1. CASE i = m
        <5>1. f[i] = end BY <4>1
        <5>2. i # 1 => f[i - 1] = g[i - 1] BY <4>1
        <5> QED BY <4>1, <5>1, <5>2 DEF end
      <4>2. CASE i # m
        <5>1. i \in 1 .. m - 1 BY <2>2, <4>2
        <5>2. f[i] = g[i] BY <4>2
        <5>3. i # 1 => f[i - 1] = g[i - 1] BY <2>2, <5>1
        <5>4. g[i] = IF i = 1 THEN 0 ELSE g[i - 1] + size[i - 1] BY <3>3, <5>1 DEF Follow
        <5> QED BY <5>2, <5>3, <5>4
      <4> QED BY <4>1, <4>2
    <3>7. Follow(f, size, m) BY <3>6 DEF Follow
    <3> HIDE DEF f
    <3> QED BY <2>1, <3>5, <3>7
  <2> QED BY <2>3, <2>4
<1>2. n \notin Bad BY <1>1
<1> QED BY <1>2

(* Each variable begins behind the ones before it.                         *)
LEMMA OffsetsApart ==
  ASSUME NEW n \in Nat, NEW size \in [1 .. n -> Nat], NEW offset, Follow(offset, size, n)
  PROVE  \A j \in 1 .. n : /\ offset[j] \in Nat
                           /\ \A i \in 1 .. j - 1 : offset[i] + size[i] <= offset[j]
<1> DEFINE Ok(j) == /\ offset[j] \in Nat
                    /\ \A i \in 1 .. j - 1 : offset[i] + size[i] <= offset[j]
           Bad == {j \in Nat : j \in 1 .. n /\ ~Ok(j)}
<1>1. Bad = {}
  <2> SUFFICES ASSUME Bad # {} PROVE FALSE
    OBVIOUS
  <2>1. PICK j \in Bad : \A k \in Bad : j <= k
    <3> HIDE DEF Ok
    <3> QED BY Least
  <2>2. j \in 1 .. n OBVIOUS
  <2>3. CASE j = 1 BY <2>1, <2>2, <2>3 DEF Follow
  <2>4. CASE j # 1
    <3>1. j - 1 \in Nat /\ j - 1 \in 1 .. n /\ ~(j <= j - 1) BY <2>2, <2>4
    <3>2. Ok(j - 1)
      <4> HIDE DEF Ok
      <4>1. j - 1 \notin Bad BY <2>1, <3>1
      <4> QED BY <3>1, <4>1
    <3>3. offset[j] = offset[j - 1] + size[j - 1] BY <2>2, <2>4 DEF Follow
    <3>4. size[j - 1] \in Nat /\ offset[j - 1] \in Nat BY <3>1, <3>2
    <3>5. ASSUME NEW i \in 1 .. j - 1 PROVE offset[i] + size[i] <= offset[j]
      <4>1. CASE i = j - 1 BY <3>3, <3>4, <4>1
      <4>2. CASE i # j - 1
        <5>1. i \in 1 .. (j - 1) - 1 /\ i \in 1 .. n BY <3>1, <4>2
        <5>2. offset[i] + size[i] <= offset[j - 1] BY <3>2, <5>1
        <5>3. offset[i] \in Nat /\ size[i] \in Nat
          <6>1. i \in Nat /\ ~(j <= i) BY <2>2, <5>1
          <6>2. i \notin Bad
            <7> HIDE DEF Ok
            <7> QED BY <2>1, <6>1
          <6> QED BY <5>1, <6>1, <6>2
        <5> QED BY <3>3, <3>4, <5>2, <5>3
      <4> QED BY <4>1, <4>2
    <3>6. Ok(j) BY <3>3, <3>4, <3>5
    <3> HIDE DEF Ok
    <3> QED BY <3>6
  <2> QED BY <2>3, <2>4
<1>2. ASSUME NEW j \in 1 .. n PROVE Ok(j)
  <2> HIDE DEF Ok
  <2>1. j \in Nat /\ j \notin Bad BY <1>1
  <2> QED BY <2>1
<1> QED BY <1>2

LEMMA HeadersAre ==
  ASSUME NEW names \in Seq(Names), \A name \in Names : Shape[name] \in Variables
  PROVE  \E offset :
           /\ Headers(names, Shape) =
                [i \in DOMAIN names |-> VarDataHeader(names[i], Shape, offset[i])]
           /\ \A j \in DOMAIN names :
                /\ offset[j] \in Nat
                /\ \A i \in 1 .. j - 1 :
                     offset[i] + Size(Shape[names[i]]) <= offset[j]
<1> DEFINE n == Len(names)
           Bytes(j) == Shape[names[j]].count * VarDataTypeBytes[Shape[names[j]].type]
           size == [j \in 1 .. n |-> Bytes(j)]
           Def(f) == [i \in 1 .. n |-> IF i = 1 THEN 0 ELSE f[i - 1] + Bytes(i - 1)]
           offset == CHOOSE f : f = Def(f)
<1>1. n \in Nat /\ DOMAIN names = 1 .. n OBVIOUS
<1>2. ASSUME NEW j \in 1 .. n PROVE Bytes(j) = Size(Shape[names[j]]) /\ Bytes(j) \in Nat
  <2>1. names[j] \in Names /\ Shape[names[j]] \in Variables OBVIOUS
  <2>2. Shape[names[j]].count \in Nat /\ VarDataTypeBytes[Shape[names[j]].type] \in Nat
    BY <2>1, SizeIs DEF Variables
  <2> QED BY <2>2 DEF Size
<1>3. Headers(names, Shape) =
        [i \in DOMAIN names |-> VarDataHeader(names[i], Shape, offset[i])]
  BY DEF Headers
<1> HIDE DEF n, Bytes
<1>4. size \in [1 .. n -> Nat] BY <1>2
<1>5. \E f : f = Def(f)
  <2>1. PICK f \in [1 .. n -> Nat] : Follow(f, size, n) BY <1>1, <1>4, OffsetsExist
  <2>2. ASSUME NEW i \in 1 .. n PROVE f[i] = Def(f)[i]
    <3>1. i # 1 => i - 1 \in 1 .. n /\ size[i - 1] = Bytes(i - 1) BY <1>1
    <3> QED BY <2>1, <3>1 DEF Follow
  <2>3. f = Def(f) BY <2>2
  <2> QED BY <2>3
<1>6. offset = Def(offset)
  <2> HIDE DEF Def
  <2> QED BY <1>5
<1> HIDE DEF offset
<1>7. Follow(offset, size, n)
  <2>1. ASSUME NEW i \in 1 .. n
        PROVE  offset[i] = IF i = 1 THEN 0 ELSE offset[i - 1] + size[i - 1]
    <3>1. i # 1 => i - 1 \in 1 .. n /\ size[i - 1] = Bytes(i - 1) BY <1>1
    <3>2. offset[i] = IF i = 1 THEN 0 ELSE offset[i - 1] + Bytes(i - 1) BY <1>6
    <3> QED BY <3>1, <3>2
  <2> QED BY <2>1 DEF Follow
<1>8. \A j \in 1 .. n : /\ offset[j] \in Nat
                        /\ \A i \in 1 .. j - 1 : offset[i] + size[i] <= offset[j]
  BY <1>1, <1>4, <1>7, OffsetsApart
<1>9. \A j \in 1 .. n : \A i \in 1 .. j - 1 : size[i] = Size(Shape[names[i]]) BY <1>1, <1>2
<1> QED BY <1>1, <1>3, <1>8, <1>9

(* No element of m that follow o ends where p begins, or behind it.        *)
LEMMA ElementsApart ==
  ASSUME NEW b \in {1, 4, 8}, NEW m \in Nat, NEW e \in Nat, e < m, NEW f \in Nat,
         NEW o \in Nat, NEW p \in Nat, o + m * b <= p
  PROVE  o + e * b # p + f * b
<1>1. CASE b = 1 BY <1>1
<1>2. CASE b = 4 BY <1>2
<1>3. CASE b = 8 BY <1>3
<1> QED BY <1>1, <1>2, <1>3

(* The header of a variable has its type and count.                        *)
LEMMA HeaderIs ==
  ASSUME NEW names \in Seq(Names), \A name \in Names : Shape[name] \in Variables,
         NEW k \in DOMAIN names
  PROVE  LET h == Headers(names, Shape)
         IN  /\ k \in DOMAIN h /\ h[k].type = Shape[names[k]].type
             /\ h[k].count = Shape[names[k]].count
<1> DEFINE h == Headers(names, Shape)
<1>1. PICK offset : h = [i \in DOMAIN names |-> VarDataHeader(names[i], Shape, offset[i])]
  BY HeadersAre
<1>2. h[k] = VarDataHeader(names[k], Shape, offset[k]) /\ k \in DOMAIN h BY <1>1
<1> HIDE DEF h
<1>3. h[k].type = Shape[names[k]].type /\ h[k].count = Shape[names[k]].count
  BY <1>2 DEF VarDataHeader
<1> QED BY <1>2, <1>3 DEF h

(* What is stored at the address of an element of the row is that element. *)
StoresElement(names, k, entry, row, garbage) ==
    LET h == Headers(names, Shape)
    IN  Stored(h, row, Address(h[k], entry), h[k].type, garbage) = row[names[k]][entry + 1]

(* Only one element of a row begins there.                                 *)
LEMMA StoredIs ==
  ASSUME NEW names \in Seq(Names), \A name \in Names : Shape[name] \in Variables,
         NEW k \in DOMAIN names, NEW entry \in Nat, entry < Shape[names[k]].count,
         NEW row, NEW garbage
  PROVE  StoresElement(names, k, entry, row, garbage)
<1> DEFINE h == Headers(names, Shape)
           type == Shape[names[k]].type
           b == VarDataTypeBytes[type]
           address == Address(h[k], entry)
           ofRow == UNION {{i} \X (0 .. h[i].count - 1) : i \in DOMAIN h}
           elements == {el \in ofRow : /\ h[el[1]].type = type
                                       /\ h[el[1]].offset + el[2] * b = address}
<1>1. PICK offset :
        /\ h = [i \in DOMAIN names |-> VarDataHeader(names[i], Shape, offset[i])]
        /\ \A j \in DOMAIN names :
             /\ offset[j] \in Nat
             /\ \A i \in 1 .. j - 1 : offset[i] + Size(Shape[names[i]]) <= offset[j]
  BY HeadersAre
<1>2. DOMAIN names = 1 .. Len(names) /\ Len(names) \in Nat OBVIOUS
<1>3. ASSUME NEW i \in DOMAIN names
      PROVE  /\ i \in DOMAIN h /\ h[i].type = Shape[names[i]].type
             /\ h[i].count = Shape[names[i]].count /\ h[i].count \in Nat \ {0}
             /\ h[i].name = names[i] /\ h[i].offset = offset[i]
  <2>1. h[i] = VarDataHeader(names[i], Shape, offset[i]) /\ i \in DOMAIN h BY <1>1
  <2>2. Shape[names[i]] \in Variables OBVIOUS
  <2> HIDE DEF h
  <2> QED BY <2>1, <2>2 DEF VarDataHeader, Variables
<1>4. b \in {1, 4, 8}
  <2>1. Shape[names[k]] \in Variables OBVIOUS
  <2>2. type \in DOMAIN VarDataTypeBytes BY <2>1 DEF Variables
  <2> QED BY <2>2, SizeIs
<1>5. DOMAIN h = DOMAIN names BY <1>1
<1>6. address = offset[k] + entry * b
  <2>1. h[k].type = type /\ h[k].offset = offset[k] BY <1>3
  <2> HIDE DEF h
  <2> QED BY <2>1 DEF Address
<1>7. Stored(h, row, address, type, garbage) =
        IF elements = {} THEN garbage
        ELSE LET c == CHOOSE el \in elements : TRUE IN row[h[c[1]].name][c[2] + 1]
  <2> HIDE DEF h, address, type
  <2> QED BY DEF Stored
<1> HIDE DEF h, b, address
<1>8. ofRow = {el \in (DOMAIN names) \X Nat : el[2] < h[el[1]].count}
  <2>1. ASSUME NEW el \in ofRow
        PROVE  el \in (DOMAIN names) \X Nat /\ el[2] < h[el[1]].count
    <3>1. PICK i \in DOMAIN h : el \in {i} \X (0 .. h[i].count - 1) OBVIOUS
    <3>2. el[1] = i /\ el[2] \in 0 .. h[i].count - 1 /\ el = <<el[1], el[2]>> BY <3>1
    <3>3. h[i].count \in Nat /\ i \in DOMAIN names BY <1>3, <1>5
    <3>4. el[2] \in Nat /\ el[2] < h[i].count BY <3>2, <3>3
    <3> QED BY <3>2, <3>3, <3>4
  <2>2. ASSUME NEW el \in (DOMAIN names) \X Nat, el[2] < h[el[1]].count PROVE el \in ofRow
    <3>1. el[1] \in DOMAIN h /\ el[2] \in Nat /\ el = <<el[1], el[2]>> BY <1>5
    <3>2. h[el[1]].count \in Nat BY <1>3, <1>5, <3>1
    <3>3. el[2] \in 0 .. h[el[1]].count - 1 BY <2>2, <3>1, <3>2
    <3>4. el \in {el[1]} \X (0 .. h[el[1]].count - 1) BY <3>1, <3>3
    <3> QED BY <3>1, <3>4
  <2> HIDE DEF ofRow
  <2> QED BY <2>1, <2>2
<1> HIDE DEF ofRow
<1>9. ASSUME NEW el \in elements PROVE el[1] = k /\ el[2] = entry
  <2> DEFINE i == el[1]
             e == el[2]
  <2>1. i \in DOMAIN names /\ e \in Nat /\ e < h[i].count BY <1>8
  <2>2. h[i].type = type /\ h[i].offset + e * b = address OBVIOUS
  <2> HIDE DEF i, e, type
  <2>3. Shape[names[i]].type = type /\ e < Shape[names[i]].count BY <1>3, <2>1, <2>2
  <2>4. offset[i] + e * b = offset[k] + entry * b BY <1>3, <1>6, <2>1, <2>2
  <2>5. Size(Shape[names[i]]) = Shape[names[i]].count * b BY <2>3 DEF Size, b
  <2>6. Size(Shape[names[k]]) = Shape[names[k]].count * b BY DEF Size, b, type
  <2>7. Shape[names[i]].count \in Nat /\ Shape[names[k]].count \in Nat BY <1>3, <2>1
  <2>8. offset[i] \in Nat /\ offset[k] \in Nat /\ i \in Nat /\ k \in Nat BY <1>1, <1>2, <2>1
  <2>9. ~(i < k)
    <3> SUFFICES ASSUME i < k PROVE FALSE
      OBVIOUS
    <3>1. i \in 1 .. k - 1 BY <1>2, <2>1, <2>8
    <3>2. offset[i] + Shape[names[i]].count * b <= offset[k] BY <1>1, <2>5, <3>1
    <3> QED BY <1>4, <2>1, <2>3, <2>4, <2>7, <2>8, <3>2, ElementsApart
  <2>10. ~(k < i)
    <3> SUFFICES ASSUME k < i PROVE FALSE
      OBVIOUS
    <3>1. k \in 1 .. i - 1 BY <1>2, <2>1, <2>8
    <3>2. offset[k] + Shape[names[k]].count * b <= offset[i] BY <1>1, <2>1, <2>6, <3>1
    <3> QED BY <1>4, <2>1, <2>3, <2>4, <2>7, <2>8, <3>2, ElementsApart
  <2>11. i = k BY <2>8, <2>9, <2>10
  <2>12. e = entry BY <1>4, <2>1, <2>4, <2>8, <2>11
  <2> QED BY <2>11, <2>12 DEF i, e
<1>10. <<k, entry>> \in elements
  <2>1. <<k, entry>>[1] = k /\ <<k, entry>>[2] = entry OBVIOUS
  <2>2. <<k, entry>> \in ofRow BY <1>3, <1>8, <2>1
  <2>3. h[k].type = type /\ h[k].offset + entry * b = address BY <1>3, <1>6
  <2> QED BY <2>1, <2>2, <2>3
<1>11. Stored(h, row, address, type, garbage) = row[names[k]][entry + 1]
  <2> DEFINE c == CHOOSE el \in elements : TRUE
  <2>1. c \in elements
    <3> HIDE DEF elements
    <3> QED BY <1>10
  <2> HIDE DEF c, elements
  <2>2. c[1] = k /\ c[2] = entry BY <1>9, <2>1
  <2>3. Stored(h, row, address, type, garbage) = row[h[c[1]].name][c[2] + 1]
    BY <1>7, <1>10 DEF c
  <2>4. h[c[1]].name = names[k] BY <1>3, <2>2
  <2> QED BY <2>2, <2>3, <2>4
<1>12. h[k].type = type BY <1>3
<1> QED BY <1>11, <1>12 DEF StoresElement, h, address

-----------------------------------------------------------------------------
(* The getters.                                                            *)

LEMMA ShapeIs == \A name \in Names : Shape[name] \in Variables
BY RowAssumption DEF RowAssumption, Variables

(* What a getter is to answer for the element of a variable.               *)
Answers(id, name, kind, entry, answer) ==
    CASE ~Has(id, name) -> answer = <<>>
      [] Has(id, name) /\ entry < Shape[name].count ->
           Current(id) => answer = <<Convert(kind, Shape[name].type,
                                             held[id].row[name][entry + 1])>>
      [] OTHER -> answer = IF id = LIVE THEN <<>> ELSE <<0>>

(* By the index of the variable it answers that.                           *)
LEMMA IndexAnswers ==
  ASSUME TypeOK, NEW id \in available, NEW k \in DOMAIN varHeaders[id],
         NEW kind \in Kinds, NEW entry \in Nat
  PROVE  Answers(id, varHeaders[id][k], kind, entry, getVar(id, kind, k - 1, entry))
<1> DEFINE l == varHeaders[id]
           name == l[k]
           h == Headers(l, Shape)
<1>1. id \in ClientIds /\ l \in Seq(Names)
  BY HolderAssumption DEF TypeOK, HolderAssumption
<1>2. k \in 1 .. Len(l) /\ Len(l) \in Nat /\ name \in Names BY <1>1
<1>3. Has(id, name) BY DEF Has, Range
<1>4. isVarIndexOk(id, k - 1)
  <2>1. k - 1 < Len(l) BY <1>2
  <2> QED BY <2>1 DEF isVarIndexOk
<1>5. headersOf[id] = h BY <1>1 DEF headersOf
<1>6. getVarHeader(id, k - 1) = <<h[k]>>
  <2>1. (k - 1) + 1 = k BY <1>2
  <2> QED BY <1>4, <1>5, <2>1 DEF getVarHeader
<1> HIDE DEF l, name, h
<1>7. Shape[name].count \in Nat \ {0} BY <1>2, ShapeIs DEF Variables
<1>8. name = l[k] BY DEF name
<1>9. h[k].count = Shape[name].count
  <2>1. k \in DOMAIN l BY DEF l
  <2> QED BY <1>1, <1>8, <2>1, ShapeIs, HeaderIs DEF h
<1>10. isVarEntryOk(id, k - 1, entry) <=> entry < Shape[name].count
  BY <1>4, <1>6, <1>9 DEF isVarEntryOk, getVarCount
<1>11. ASSUME entry < Shape[name].count, Current(id)
       PROVE  Answer(id, kind, k - 1, entry) =
                <<Convert(kind, Shape[name].type, held[id].row[name][entry + 1])>>
  <2> DEFINE row == held[id].row
             stored == Stored(h, row, Address(h[k], entry), h[k].type, Garbage)
  <2>1. h[k].type = Shape[name].type /\ stored = row[name][entry + 1]
    <3>1. k \in DOMAIN l /\ entry < Shape[l[k]].count BY <1>8, <1>11 DEF l
    <3> HIDE DEF row
    <3>2. h[k].type = Shape[l[k]].type BY <1>1, <3>1, ShapeIs, HeaderIs DEF h
    <3>3. stored = row[l[k]][entry + 1]
      <4>1. StoresElement(l, k, entry, row, Garbage) BY <1>1, <3>1, ShapeIs, StoredIs
      <4> QED BY <4>1 DEF StoresElement, h
    <3> QED BY <1>8, <3>2, <3>3
  <2>2. held[id] # None /\ Headers(held[id].names, Shape) = h BY <1>11 DEF Current, h, l
  <2>3. getVarHeader(id, k - 1)[1] = h[k] BY <1>6
  <2>4. Answer(id, kind, k - 1, entry) = <<Convert(kind, h[k].type, stored)>>
    BY <2>2, <2>3 DEF Answer
  <2> QED BY <2>1, <2>4
<1>12. getVar(id, kind, k - 1, entry) =
         IF entry < Shape[name].count THEN Answer(id, kind, k - 1, entry)
         ELSE IF id = LIVE THEN <<>> ELSE <<0>>
  BY <1>10 DEF getVar, LiveGetVar, DiskGetVar
<1>13. Answers(id, name, kind, entry, getVar(id, kind, k - 1, entry))
  <2>1. CASE entry < Shape[name].count BY <1>3, <1>11, <1>12, <2>1 DEF Answers
  <2>2. CASE ~(entry < Shape[name].count) BY <1>3, <1>12, <2>2 DEF Answers
  <2> QED BY <2>1, <2>2
<1> QED BY <1>13 DEF name, l

LEMMA NameAnswers ==
  ASSUME TypeOK, NEW id \in ClientIds, NEW name \in Names,
         NEW kind \in Kinds, NEW entry \in Nat
  PROVE  Answers(id, name, kind, entry, getVarNamed(id, kind, name, entry))
<1> DEFINE l == varHeaders[id]
<1>1. CASE Has(id, name)
  <2> DEFINE k == VarIdx(id, name) + 1
  <2>1. VarIdx(id, name) \in Nat /\ k \in DOMAIN l /\ l[k] = name BY <1>1, VarIdxLemma
  <2>2. VarIdx(id, name) = k - 1 /\ id \in available BY <1>1, <2>1 DEF Has
  <2>3. getVarIdx(id, name) = <<k - 1>> BY <1>1, <2>2 DEF getVarIdx
  <2> HIDE DEF k
  <2>4. getVarNamed(id, kind, name, entry) = getVar(id, kind, k - 1, entry)
    <3>1. <<k - 1>> # <<>> /\ <<k - 1>>[1] = k - 1 OBVIOUS
    <3> QED BY <2>3, <3>1 DEF getVarNamed
  <2> QED BY <2>1, <2>2, <2>4, IndexAnswers
<1>2. CASE ~Has(id, name)
  <2>1. Len(l) \in Nat /\ Len(l) <= NotFound
    <3>1. l \in Layouts BY DEF TypeOK
    <3>2. l \in Seq(Names) BY <3>1, HolderAssumption DEF HolderAssumption
    <3> QED BY <3>1, <3>2, RowAssumption DEF RowAssumption
  <2>2. ~isVarIndexOk(id, NotFound) BY <2>1 DEF isVarIndexOk, NotFound
  <2>3. getVarNamed(id, kind, name, entry) = <<>>
    <3>1. CASE id = LIVE /\ id \in available
      <4>1. getVarIdx(id, name) = <<NotFound>> BY <1>2, <3>1 DEF getVarIdx
      <4>2. <<NotFound>> # <<>> /\ <<NotFound>>[1] = NotFound OBVIOUS
      <4>3. LiveGetVar(kind, NotFound, entry) = <<>>
        BY <2>2, <3>1 DEF LiveGetVar, isVarEntryOk
      <4> QED BY <3>1, <4>1, <4>2, <4>3 DEF getVarNamed, getVar
    <3>2. CASE ~(id = LIVE /\ id \in available)
      <4>1. getVarIdx(id, name) = <<>> BY <1>2, <3>2 DEF getVarIdx
      <4> QED BY <4>1 DEF getVarNamed
    <3> QED BY <3>1, <3>2
  <2> QED BY <1>2, <2>3 DEF Answers
<1> QED BY <1>1, <1>2

(* Every step of the clients with rows is one of the clients.              *)
LEMMA ReadStep == [ReadNext]_readVars => [Next]_vars
BY DEF ReadNext, Next, readVars, NewRow, ConnectRow, OtherStep, OpenRow, CloseRow

(* The getters answer with the element of the variable named, of the row   *)
(* the client holds, when that is of the variables it has now: by name, and*)
(* by the index that a holder looked up in them; for any variables, types  *)
(* and counts in any order.                                                *)
THEOREM ValueHolds == ReadSpec => []ValueOfVariable
<1>1. ReadInit => Init BY DEF ReadInit
<1>2. ReadSpec => Spec BY <1>1, ReadStep, PTL DEF ReadSpec, Spec
<1>3. Inv => ValueOfVariable
  <2> SUFFICES ASSUME Inv, NEW kind \in Kinds, NEW entry \in 0 .. 2
               PROVE  /\ \A id \in ClientIds, name \in Names :
                           Answers(id, name, kind, entry, getVarNamed(id, kind, name, entry))
                      /\ pc = "value" /\ ~lost /\ ~renewed =>
                           Answers(getActive, name_, kind, entry,
                                   getVar(getActive, kind, idx_, entry))
    BY DEF ValueOfVariable, Answers
  <2>1. TypeOK /\ entry \in Nat BY DEF Inv
  <2>2. ASSUME NEW id \in ClientIds, NEW name \in Names
        PROVE  Answers(id, name, kind, entry, getVarNamed(id, kind, name, entry))
    BY <2>1, NameAnswers
  <2>3. ASSUME pc = "value", ~lost, ~renewed
        PROVE  Answers(getActive, name_, kind, entry, getVar(getActive, kind, idx_, entry))
    <3>1. available_ /\ clientId_ = getActive /\ getActive \in available
      BY <2>3 DEF Inv, CallTrue
    <3>2. idx_ + 1 \in DOMAIN varHeaders[getActive] /\ varHeaders[getActive][idx_ + 1] = name_
      BY <2>3, <3>1 DEF Inv, CacheTrue
    <3>3. idx_ = (idx_ + 1) - 1 BY <2>1 DEF TypeOK
    <3> DEFINE k == idx_ + 1
    <3>4. k \in DOMAIN varHeaders[getActive] /\ varHeaders[getActive][k] = name_ /\ idx_ = k - 1
      BY <3>2, <3>3
    <3> HIDE DEF k
    <3> QED BY <2>1, <3>1, <3>4, IndexAnswers
  <2> QED BY <2>2, <2>3
<1> QED BY <1>2, <1>3, Invariance, PTL
=============================================================================
