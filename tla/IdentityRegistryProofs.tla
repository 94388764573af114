------------------------ MODULE IdentityRegistryProofs ------------------------
(***************************************************************************)
(* The registry keeps its slots apart for every set of realms and          *)
(* services, and therefore load() of a bound realm returns its service     *)
(* whatever order the map is iterated in.                                  *)
(***************************************************************************)
EXTENDS IdentityRegistry, FiniteSetTheorems, TLAPS

IInv == TypeOK /\ SlotsApart /\ KeysInStep

\* scopedEqual as the lookups use it is the one of the realm algebra.
LEMMA SlotsForIs ==
    ASSUME NEW r
    PROVE  Lookup!SlotsFor(bindings, r) = {q \in DOMAIN bindings : ScopedEqual(q, r)}
BY DEF Lookup!SlotsFor, Lookup!ScopedEqual, ScopedEqual, Lookup!KeysAgree, KeysAgree,
       Lookup!BothHave, BothHave, Lookup!IsEmpty, IsEmpty, Lookup!HasKey, HasKey

\* The comparison of two slots does not depend on the side they stand on.
LEMMA ScopedEqualFacts ==
    ASSUME NEW r \in Realm, NEW q \in Realm
    PROVE  /\ ScopedEqual(r, q) <=> ScopedEqual(q, r)
           /\ ScopedEqual(r, r)
BY DEF ScopedEqual, KeysAgree, BothHave, Realm, IsEmpty, HasKey

\* An iteration order is a rank for every slot.
LEMMA OrdersType ==
    ASSUME NEW S \in SUBSET Slots, NEW rank \in Orders(S)
    PROVE  rank \in [S -> Nat]
<1>1. IsFiniteSet(S)
  BY FS_Subset, RegistryAssumption DEF RegistryAssumption
<1>2. Cardinality(S) \in Nat
  BY <1>1, FS_CardinalityType
<1> QED
  BY <1>2 DEF Orders

\* A new registry is empty.
LEMMA InitInv == Init => IInv
<1> SUFFICES ASSUME Init PROVE IInv
  OBVIOUS
<1>1. {} \in SUBSET Slots /\ bindings \in [{} -> Services] /\ order \in [{} -> Nat]
  BY DEF Init
<1>2. realmKeys = order /\ unbound = {} /\ DOMAIN bindings = {} /\ DOMAIN order = {}
  BY DEF Init
<1>3. last \in Result
  BY DEF Init, Result
<1> HIDE DEF Init
<1>4. TypeOK
  BY <1>1, <1>2, <1>3 DEF TypeOK
<1> QED
  BY <1>2, <1>4 DEF IInv, SlotsApart, KeysInStep

\* Only a realm no slot answers to is bound.
LEMMA AddKeeps ==
    ASSUME IInv, NEW s \in Services, NEW r \in Slots, Add(s, r)
    PROVE  IInv'
<1> DEFINE taken == Lookup!SlotsFor(bindings, r)
<1>1. r \in Realm /\ DOMAIN bindings \subseteq Slots /\ \A q \in DOMAIN bindings : q \in Realm
  BY RegistryAssumption DEF RegistryAssumption, IInv, TypeOK
<1>2. unbound' \subseteq Services
  BY DEF Add, IInv, TypeOK
<1>3. last' \in Result
  <2>1. \E ok \in BOOLEAN : Returns("add", s, r, ok)
    BY DEF Add, Lookup!SameService
  <2> QED
    BY <2>1 DEF Returns, Result
<1>4. CASE taken # {}
  <2>1. UNCHANGED <<bindings, order, realmKeys>>
    BY <1>4 DEF Add
  <2> QED
    BY <1>2, <1>3, <2>1 DEF IInv, TypeOK, SlotsApart, KeysInStep
<1>5. CASE taken = {}
  <2>1. /\ bindings' = [q \in DOMAIN bindings \cup {r} |-> IF q = r THEN s ELSE bindings[q]]
        /\ order' \in Orders(DOMAIN bindings')
        /\ realmKeys' = order'
    BY <1>5 DEF Add
  <2>2. DOMAIN bindings' = DOMAIN bindings \cup {r} /\ DOMAIN bindings' \in SUBSET Slots
    BY <1>1, <2>1
  <2>3. bindings' \in [DOMAIN bindings' -> Services]
    BY <2>1, <2>2 DEF IInv, TypeOK
  <2>4. order' \in [DOMAIN bindings' -> Nat]
    BY <2>1, <2>2, OrdersType
  <2>5. TypeOK' /\ KeysInStep'
    BY <1>2, <1>3, <2>1, <2>2, <2>3, <2>4 DEF TypeOK, KeysInStep
  <2>6. \A q \in DOMAIN bindings : ~ScopedEqual(q, r)
    BY <1>5, SlotsForIs
  <2>7. SlotsApart'
    BY <1>1, <2>2, <2>6, ScopedEqualFacts DEF SlotsApart, IInv
  <2> QED
    BY <2>5, <2>7 DEF IInv
<1> QED
  BY <1>4, <1>5

\* Erasing slots cannot bring two of them together.
LEMMA EraseKeeps ==
    ASSUME IInv, NEW S, Erase(S)
    PROVE  /\ \E T \in SUBSET Slots : bindings' \in [T -> Services] /\ order' \in [T -> Nat]
           /\ SlotsApart'
           /\ DOMAIN order' = DOMAIN bindings'
           /\ S = {} => order' = order
BY DEF IInv, TypeOK, SlotsApart, KeysInStep, Erase

\* remove(service) takes its slots and their keys together.
LEMMA RemoveServiceKeeps ==
    ASSUME IInv, NEW s \in Services, RemoveService(s)
    PROVE  IInv'
<1>1. Erase(SlotsOf(s))
  BY DEF RemoveService
<1>2. realmKeys' = order'
  BY <1>1, EraseKeeps DEF RemoveService, IInv, KeysInStep
<1>3. unbound' \subseteq Services /\ last' \in Result
  BY DEF RemoveService, Returns, Result, IInv, TypeOK
<1> QED
  BY <1>1, <1>2, <1>3, EraseKeeps DEF IInv, TypeOK, KeysInStep

\* remove(realm) takes one slot at most.
LEMMA RemoveRealmKeeps ==
    ASSUME IInv, NEW r \in Slots, RemoveRealm(r)
    PROVE  IInv'
<1>1. unbound' \subseteq Services /\ last' \in Result
  BY DEF RemoveRealm, Returns, Result, IInv, TypeOK
<1>2. CASE Lookup!SlotsFor(bindings, r) = {}
  <2>1. UNCHANGED <<bindings, order, realmKeys>>
    BY <1>2 DEF RemoveRealm
  <2> QED
    BY <1>1, <2>1 DEF IInv, TypeOK, SlotsApart, KeysInStep
<1>3. CASE Lookup!SlotsFor(bindings, r) # {}
  <2>1. \E S : Erase(S) /\ realmKeys' = order'
    BY <1>3 DEF RemoveRealm
  <2> QED
    BY <1>1, <2>1, EraseKeeps DEF IInv, TypeOK, KeysInStep
<1> QED
  BY <1>2, <1>3

\* A service without a slot leaves the slots alone.
LEMMA AddUnboundKeeps ==
    ASSUME IInv, NEW s \in Services, AddUnbound(s)
    PROVE  IInv'
<1>1. unbound' \subseteq Services /\ last' \in Result
  BY DEF AddUnbound, Returns, Result, IInv, TypeOK
<1>2. UNCHANGED <<bindings, order, realmKeys>>
  BY DEF AddUnbound
<1> QED
  BY <1>1, <1>2 DEF IInv, TypeOK, SlotsApart, KeysInStep

\* Every call keeps the invariant.
LEMMA NextInv == IInv /\ [Next]_vars => IInv'
<1> SUFFICES ASSUME IInv, [Next]_vars
             PROVE  IInv'
  OBVIOUS
<1>1. CASE Next
  BY <1>1, AddKeeps, AddUnboundKeeps, RemoveServiceKeeps, RemoveRealmKeeps DEF Next
<1>2. CASE UNCHANGED vars
  BY <1>2 DEF vars, IInv, TypeOK, SlotsApart, KeysInStep
<1> QED
  BY <1>1, <1>2

\* The inductive invariant holds of every registry a sequence of calls leaves.
THEOREM Invariance == Spec => []IInv
BY InitInv, NextInv, PTL DEF Spec

\* No two slots of the registry ever answer to one another.
THEOREM SlotsStayApart == Spec => []SlotsApart
<1>1. IInv => SlotsApart
  BY DEF IInv
<1> QED
  BY <1>1, Invariance, PTL

\* The lookups by name never go through realms the map has lost.
THEOREM RealmKeysInStep == Spec => []KeysInStep
<1>1. IInv => KeysInStep
  BY DEF IInv
<1> QED
  BY <1>1, Invariance, PTL

\* In a registry whose slots are apart the slot of a bound realm is the only one
\* that answers to it.
LEMMA InvLoads == IInv => LoadFindsBound
<1> SUFFICES ASSUME IInv, NEW r \in DOMAIN bindings
             PROVE  Lookup!Load(bindings, r) = bindings[r]
  BY DEF LoadFindsBound
<1>1. DOMAIN bindings \subseteq Realm
  BY RegistryAssumption DEF RegistryAssumption, IInv, TypeOK
<1>2. Lookup!SlotsFor(bindings, r) = {r}
  BY <1>1, SlotsForIs, ScopedEqualFacts DEF IInv, SlotsApart
<1>3. order[r] \in Nat
  BY DEF IInv, TypeOK
<1>4. Lookup!FirstSlot({r}) = r
  BY <1>3 DEF Lookup!FirstSlot
<1> QED
  BY <1>2, <1>4 DEF Lookup!Load

\* load() of a bound realm returns the service bound to it.
THEOREM LoadOfABoundRealm == Spec => []LoadFindsBound
BY InvLoads, Invariance, PTL

-------------------------------------------------------------------------------
(* What add and remove tell their callers.                                 *)

\* Whether two services have one id is a truth value.
LEMMA SameServiceType == \A s, t : Lookup!SameService(s, t) \in BOOLEAN
BY DEF Lookup!SameService

\* add tells whether the slot that answers to the realm has the id of the
\* service; a slot it makes has it.
LEMMA AddAnswers ==
    ASSUME IInv, NEW s \in Services, NEW r \in Slots, Add(s, r)
    PROVE  AnswersHold'
<1>1. CASE Lookup!SlotsFor(bindings, r) # {}
  <2>1. UNCHANGED <<bindings, order>>
    BY <1>1 DEF Add
  <2>2. last' = [op |-> "add", service |-> s, realm |-> r,
                 ok |-> Lookup!SameService(Lookup!Load(bindings, r), s)]
    BY <1>1 DEF Add, Returns
  <2>3. Lookup!Load(bindings, r)' = Lookup!Load(bindings, r)
    BY <2>1 DEF Lookup!Load, Lookup!FirstSlot, Lookup!SlotsFor
  <2>4. /\ last'.op = "add" /\ last'.service = s /\ last'.realm = r
        /\ last'.ok = Lookup!SameService(Lookup!Load(bindings, r), s)
    BY <2>2
  <2>5. last'.ok <=> Lookup!SameService(Lookup!Load(bindings, r), s)
    BY <2>4
  <2> QED
    BY <2>3, <2>4, <2>5 DEF AnswersHold
<1>2. CASE Lookup!SlotsFor(bindings, r) = {}
  <2>1. bindings' = [q \in DOMAIN bindings \cup {r} |-> IF q = r THEN s ELSE bindings[q]]
    BY <1>2 DEF Add
  <2>2. r \in DOMAIN bindings' /\ bindings'[r] = s
    BY <2>1
  <2>3. last' = [op |-> "add", service |-> s, realm |-> r, ok |-> TRUE]
    BY <1>2 DEF Add, Returns
  <2>4. LoadFindsBound'
    <3>1. IInv'
      BY AddKeeps
    <3> QED
      BY <3>1, InvLoads, PTL
  <2>5. Lookup!Load(bindings, r)' = s
    BY <2>2, <2>4 DEF LoadFindsBound
  <2> QED
    BY <2>3, <2>5 DEF AnswersHold, Lookup!SameService
<1> QED
  BY <1>1, <1>2

\* What remove(service) leaves in either container has another id.
LEMMA RemoveServiceAnswers ==
    ASSUME NEW s \in Services, RemoveService(s)
    PROVE  AnswersHold'
<1>1. last'.op = "removeService" /\ last'.service = s
  BY DEF RemoveService, Returns
<1>2. \A t \in unbound' : ~Lookup!SameService(t, s)
  BY DEF RemoveService, Lookup!SameService
<1>3. \A r \in DOMAIN bindings' : ~Lookup!SameService(bindings'[r], s)
  BY DEF RemoveService, Erase, SlotsOf
<1>4. \A t \in Lookup!UniqueServices(bindings, unbound)' :
        t \in unbound' \/ \E r \in DOMAIN bindings' : t = bindings'[r]
  BY DEF Lookup!UniqueServices, Lookup!FirstOfEachId
<1> QED
  BY <1>1, <1>2, <1>3, <1>4 DEF AnswersHold, Lookup!SameService

\* Every call leaves an answer that is true when it returns.
LEMMA NextAnswers == IInv /\ AnswersHold /\ [Next]_vars => AnswersHold'
<1> SUFFICES ASSUME IInv, AnswersHold, [Next]_vars
             PROVE  AnswersHold'
  OBVIOUS
<1>1. ASSUME NEW s \in Services, AddUnbound(s) PROVE AnswersHold'
  BY <1>1 DEF AddUnbound, Returns, AnswersHold
<1>2. ASSUME NEW r \in Slots, RemoveRealm(r) PROVE AnswersHold'
  BY <1>2 DEF RemoveRealm, Returns, AnswersHold
<1>3. CASE UNCHANGED vars
  BY <1>3 DEF vars, AnswersHold, Lookup!SameService, Lookup!Load, Lookup!FirstSlot,
              Lookup!SlotsFor, Lookup!UniqueServices, Lookup!FirstOfEachId
<1> QED
  BY <1>1, <1>2, <1>3, AddAnswers, RemoveServiceAnswers DEF Next

\* What add and remove of a service return is true of the registry they leave.
THEOREM AnswersAreTrue == Spec => []AnswersHold
<1>1. Init => AnswersHold
  BY DEF Init, AnswersHold
<1> QED
  BY <1>1, NextAnswers, Invariance, PTL DEF Spec
===============================================================================
