--------------------------- MODULE PolicyStoreProofs ---------------------------
(***************************************************************************)
(* The invariants of PolicyStore, that stores are isolated from one        *)
(* another, and that a revocation gives nobody anything, for any realms,   *)
(* identities, lists and entries.                                          *)
(***************************************************************************)
EXTENDS PolicyStore, TLAPS

IInv == TypeOK /\ AclIdsAreUnique /\ OnlyUpdatesAreLost

\* What every save needs to know of the store it writes.
Sound(s) == s \in Store /\ UniqueIds(s)

\* An empty store is a store.
LEMMA ClearedSound == Sound(Cleared)
BY DEF Sound, Cleared, Store, UniqueIds

\* Every identity and every realm has a store.
LEMMA RouteType ==
    ASSUME registered \subseteq Keys, NEW realm
    PROVE  Route(realm) \in Reachable /\ Route(realm) \in Routes
BY DEF Route, Reachable, Routes

\* The changes of a store give a store without a second list of one name.
LEMMA ChangesSound ==
    ASSUME NEW s, Sound(s)
    PROVE  /\ \A g \in Grant : Sound([s EXCEPT !.grants = @ \cup {g}])
           /\ \A g \in Grant : Sound(WithoutGrant(s, g))
           /\ \A b \in Binding : Sound([s EXCEPT !.bindings = @ \cup {b}])
           /\ \A b \in Binding : Sound(WithoutBinding(s, b))
           /\ \A id \in AclIds : Sound(WithoutAcl(s, id))
           /\ \A acl \in Acl : Sound(WithAcl(s, acl))
           /\ \A acl \in Acl : Sound(WithUpdatedAcl(s, acl))
<1> USE DEF Sound, Store, UniqueIds
<1>1. \A g \in Grant : Sound([s EXCEPT !.grants = @ \cup {g}])
  OBVIOUS
<1>2. \A g \in Grant : Sound(WithoutGrant(s, g))
  BY DEF WithoutGrant
<1>3. \A b \in Binding : Sound([s EXCEPT !.bindings = @ \cup {b}])
  OBVIOUS
<1>4. \A b \in Binding : Sound(WithoutBinding(s, b))
  BY DEF WithoutBinding
<1>5. \A id \in AclIds : Sound(WithoutAcl(s, id))
  BY DEF WithoutAcl
<1>6. \A acl \in Acl : Sound(WithAcl(s, acl))
  BY DEF WithAcl, WithoutAcl, Acl
<1>7. \A acl \in Acl : Sound(WithUpdatedAcl(s, acl))
  BY DEF WithUpdatedAcl, Acl
<1> QED
  BY <1>1, <1>2, <1>3, <1>4, <1>5, <1>6, <1>7

\* In a sound state every store is sound, in memory and in its file.
LEMMA AllSound ==
    ASSUME IInv
    PROVE  \A r \in Routes : Sound(stores[r]) /\ Sound(files[r])
BY DEF IInv, TypeOK, AclIdsAreUnique, Sound

\* What is known of last is its type.
LEMMA CalledType ==
    ASSUME NEW c \in Calls, NEW realm \in Realm, NEW returned \in BOOLEAN,
           Called(c, realm, returned)
    PROVE  last' \in [call : Calls, realm : Realm, returned : BOOLEAN]
BY DEF Called

\* Whether a save threw is a truth value.
LEMMA ThrownType == \A outcome : (~Thrown(outcome)) \in BOOLEAN
<1> SUFFICES ASSUME NEW outcome PROVE (~Thrown(outcome)) \in {TRUE, FALSE}
  OBVIOUS
<1>1. CASE Thrown(outcome)
  BY <1>1
<1>2. CASE ~Thrown(outcome)
  BY <1>2
<1> QED
  BY <1>1, <1>2

\* However the saves of the stores of T end, memory and files stay in step
\* wherever a save was done.
LEMMA SaveKeeps ==
    ASSUME IInv, NEW T \in SUBSET Routes, NEW new \in [T -> Store],
           \A r \in T : Sound(new[r]), NEW result \in [T -> Outcomes], Save(new, result),
           registered' \subseteq registered,
           last' \in [call : Calls, realm : Realm, returned : BOOLEAN]
    PROVE  IInv'
<1>1. \A r \in Routes : stores'[r] = IF r \in T THEN new[r] ELSE stores[r]
  BY DEF Save
<1>2. \A r \in Routes : files'[r] = IF r \in T THEN FileAfter(result[r], new[r], files[r])
                                    ELSE files[r]
  BY DEF Save
<1>3. \A r \in T : /\ FileAfter(result[r], new[r], files[r]) \in {new[r], files[r], Cleared}
                   /\ result[r] = "saved" => FileAfter(result[r], new[r], files[r]) = new[r]
  <2> SUFFICES ASSUME NEW r \in T
               PROVE  /\ FileAfter(result[r], new[r], files[r]) \in {new[r], files[r], Cleared}
                      /\ result[r] = "saved" =>
                            FileAfter(result[r], new[r], files[r]) = new[r]
    OBVIOUS
  <2>1. result[r] \in {"saved", "unopened", "broken", "unnoticed"}
    BY DEF Outcomes
  <2> QED
    BY <2>1 DEF FileAfter
<1>4. \A r \in Routes : Sound(stores'[r]) /\ Sound(files'[r])
  BY <1>1, <1>2, <1>3, AllSound, ClearedSound
<1>5. stores' \in [Routes -> Store] /\ files' \in [Routes -> Store]
  <2>1. stores' = [r \in Routes |-> stores'[r]] /\ files' = [r \in Routes |-> files'[r]]
    BY DEF Save
  <2> QED
    BY <1>4, <2>1 DEF Sound
<1>6. TypeOK'
  BY <1>5 DEF IInv, TypeOK, Save
<1>7. AclIdsAreUnique'
  BY <1>4 DEF AclIdsAreUnique, Sound, UniqueIds
<1>8. OnlyUpdatesAreLost'
  <2> SUFFICES ASSUME NEW r \in Reachable', r \notin unsaved'
               PROVE  files'[r] = stores'[r]
    BY DEF OnlyUpdatesAreLost
  <2>1. r \in Reachable /\ r \in Routes
    BY DEF Reachable, IInv, TypeOK, Routes
  <2>2. CASE r \in T
    BY <1>1, <1>2, <1>3, <2>1, <2>2 DEF Save
  <2>3. CASE r \notin T
    BY <1>1, <1>2, <2>1, <2>3 DEF Save, IInv, OnlyUpdatesAreLost
  <2> QED
    BY <2>2, <2>3
<1> QED
  BY <1>6, <1>7, <1>8 DEF IInv

\* A change of one store.
LEMMA ChangeKeeps ==
    ASSUME IInv, NEW c \in Calls, NEW realm \in Realm, NEW r \in Routes, NEW s, Sound(s),
           Change(c, realm, r, s)
    PROVE  IInv'
<1>1. PICK outcome \in Outcomes :
        /\ Save([q \in {r} |-> s], [q \in {r} |-> outcome])
        /\ Called(c, realm, ~Thrown(outcome))
        /\ UNCHANGED registered
  BY DEF Change
<1>2. last' \in [call : Calls, realm : Realm, returned : BOOLEAN]
  <2>1. (~Thrown(outcome)) \in BOOLEAN
    BY ThrownType
  <2> QED
    BY <1>1, <2>1, CalledType
<1>3. [q \in {r} |-> s] \in [{r} -> Store] /\ [q \in {r} |-> outcome] \in [{r} -> Outcomes]
  BY DEF Sound
<1>4. \A q \in {r} : Sound([q2 \in {r} |-> s][q])
  OBVIOUS
<1>5. {r} \in SUBSET Routes /\ registered' \subseteq registered
  BY <1>1
<1> QED
  BY <1>1, <1>2, <1>3, <1>4, <1>5, SaveKeeps

\* The names of calls and the empty realm have their types.
LEMMA CallTypes ==
    /\ \A c \in {"none", "grant", "revoke", "bind", "unbind", "acl", "removeAcl", "clear",
                 "load"} : c \in Calls
    /\ NoRealm \in Realm
BY DEF Calls, NoRealm, Realm

\* The realm of a grant or a binding is a realm.
LEMMA RowTypes ==
    /\ \A g \in Grant : g.identity.realm \in Realm
    /\ \A b \in Binding : b.identity.realm \in Realm
BY PolicyAssumption DEF PolicyAssumption, Grant, Binding

\* Grants, bindings and new lists.
LEMMA RowChangesKeep ==
    ASSUME IInv,
           \/ \E g \in Grant : AddGrant(g) \/ RemoveGrant(g)
           \/ \E b \in Binding : AddBinding(b) \/ RemoveBinding(b)
           \/ AddAcl
    PROVE  IInv'
<1> USE CallTypes, RowTypes
<1>0. \A realm : Route(realm) \in Routes /\ Sound(stores[Route(realm)])
  BY RouteType, AllSound DEF IInv, TypeOK
<1>1. ASSUME NEW g \in Grant, AddGrant(g) PROVE IInv'
  <2>1. Sound([stores[Route(g.identity.realm)] EXCEPT !.grants = @ \cup {g}])
    BY <1>0, ChangesSound
  <2> QED
    BY <1>0, <1>1, <2>1, ChangeKeeps DEF AddGrant
<1>2. ASSUME NEW g \in Grant, RemoveGrant(g) PROVE IInv'
  <2>1. Sound(WithoutGrant(stores[Route(g.identity.realm)], g))
    BY <1>0, ChangesSound
  <2> QED
    BY <1>0, <1>2, <2>1, ChangeKeeps DEF RemoveGrant
<1>3. ASSUME NEW b \in Binding, AddBinding(b) PROVE IInv'
  <2>1. Sound([stores[Route(b.identity.realm)] EXCEPT !.bindings = @ \cup {b}])
    BY <1>0, ChangesSound
  <2> QED
    BY <1>0, <1>3, <2>1, ChangeKeeps DEF AddBinding
<1>4. ASSUME NEW b \in Binding, RemoveBinding(b) PROVE IInv'
  <2>1. Sound(WithoutBinding(stores[Route(b.identity.realm)], b))
    BY <1>0, ChangesSound
  <2> QED
    BY <1>0, <1>4, <2>1, ChangeKeeps DEF RemoveBinding
<1>5. ASSUME AddAcl PROVE IInv'
  <2>1. PICK r \in Reachable, acl \in Acl : Change("acl", NoRealm, r, WithAcl(stores[r], acl))
    BY <1>5 DEF AddAcl
  <2>2. r \in Routes
    BY DEF IInv, TypeOK, Reachable, Routes
  <2>3. Sound(WithAcl(stores[r], acl))
    BY <2>2, AllSound, ChangesSound
  <2> QED
    BY <2>1, <2>2, <2>3, ChangeKeeps
<1> QED
  BY <1>1, <1>2, <1>3, <1>4, <1>5

\* removeAcl changes several stores, up to the one whose save throws.
LEMMA RemoveAclKeeps ==
    ASSUME IInv, NEW id \in AclIds, RemoveAcl(id)
    PROVE  IInv'
<1>1. PICK asked \in SUBSET Reachable, r \in Reachable : \E result \in [asked -> Outcomes] :
        /\ Save([q \in asked |-> WithoutAcl(stores[q], id)], result)
        /\ Called("removeAcl", NoRealm, ~Thrown(result[r]))
        /\ UNCHANGED registered
  BY DEF RemoveAcl
<1>2. PICK result \in [asked -> Outcomes] :
        /\ Save([q \in asked |-> WithoutAcl(stores[q], id)], result)
        /\ Called("removeAcl", NoRealm, ~Thrown(result[r]))
        /\ UNCHANGED registered
  BY <1>1
<1>3. asked \in SUBSET Routes
  BY DEF IInv, TypeOK, Reachable, Routes
<1>4. \A q \in asked : Sound(WithoutAcl(stores[q], id))
  BY <1>3, AllSound, ChangesSound
<1> DEFINE new == [q \in asked |-> WithoutAcl(stores[q], id)]
<1>5. new \in [asked -> Store] /\ \A q \in asked : Sound(new[q])
  BY <1>4 DEF Sound
<1>6. last' \in [call : Calls, realm : Realm, returned : BOOLEAN]
  <2>1. (~Thrown(result[r])) \in BOOLEAN
    BY ThrownType
  <2> QED
    BY <1>2, <2>1, CallTypes, CalledType
<1> HIDE DEF new
<1>7. registered' \subseteq registered /\ Save(new, result)
  BY <1>2 DEF new
<1> QED
  BY <1>3, <1>5, <1>6, <1>7, SaveKeeps

\* clear() forgets the realm stores and saves the empty global one.
LEMMA ClearKeeps ==
    ASSUME IInv, Clear
    PROVE  IInv'
<1>1. PICK outcome \in Outcomes :
        /\ registered' = {}
        /\ Save([q \in {Global} |-> Cleared], [q \in {Global} |-> outcome])
        /\ Called("clear", NoRealm, ~Thrown(outcome))
  BY DEF Clear
<1>2. last' \in [call : Calls, realm : Realm, returned : BOOLEAN]
  <2>1. (~Thrown(outcome)) \in BOOLEAN
    BY ThrownType
  <2> QED
    BY <1>1, <2>1, CallTypes, CalledType
<1>3. [q \in {Global} |-> Cleared] \in [{Global} -> Store]
      /\ [q \in {Global} |-> outcome] \in [{Global} -> Outcomes]
  BY ClearedSound DEF Sound
<1>4. \A q \in {Global} : Sound([q2 \in {Global} |-> Cleared][q])
  BY ClearedSound
<1>5. {Global} \in SUBSET Routes /\ registered' \subseteq registered
  BY <1>1 DEF Routes
<1> QED
  BY <1>1, <1>2, <1>3, <1>4, <1>5, SaveKeeps

\* updateAcl changes memory only, and says so in unsaved.
LEMMA UpdateAclKeeps ==
    ASSUME IInv, UpdateAcl
    PROVE  IInv'
<1>1. PICK r \in Reachable, acl \in Acl :
        /\ stores' = [stores EXCEPT ![r] = WithUpdatedAcl(stores[r], acl)]
        /\ unsaved' = unsaved \cup {r}
        /\ Called("acl", NoRealm, TRUE)
        /\ UNCHANGED <<registered, files>>
  BY DEF UpdateAcl
<1>2. r \in Routes
  BY DEF IInv, TypeOK, Reachable, Routes
<1>3. Sound(WithUpdatedAcl(stores[r], acl))
  BY <1>2, AllSound, ChangesSound
<1>4. TypeOK'
  BY <1>1, <1>2, <1>3, CallTypes, CalledType DEF IInv, TypeOK, Sound
<1>5. AclIdsAreUnique'
  BY <1>1, <1>2, <1>3 DEF IInv, TypeOK, AclIdsAreUnique, Sound
<1>6. OnlyUpdatesAreLost'
  BY <1>1 DEF IInv, TypeOK, OnlyUpdatesAreLost, Reachable, Routes
<1> QED
  BY <1>4, <1>5, <1>6 DEF IInv

\* Loading a store puts its file into memory.
LEMMA LoadKeeps ==
    ASSUME IInv, Reload \/ AddRealmStore \/ Restart
    PROVE  IInv'
<1> USE CallTypes, CalledType, AllSound
<1>1. CASE Reload \/ AddRealmStore
  <2>1. PICK r \in Routes :
          /\ registered' = registered \/ (r \in Keys /\ registered' = registered \cup {r})
          /\ stores' = [stores EXCEPT ![r] = files[r]]
          /\ unsaved' = unsaved \ {r}
          /\ Called("load", NoRealm, TRUE)
          /\ UNCHANGED files
    BY <1>1 DEF Reload, AddRealmStore, IInv, TypeOK, Reachable, Routes, Keys
  <2>2. TypeOK'
    BY <2>1 DEF IInv, TypeOK, Sound
  <2>3. AclIdsAreUnique'
    BY <2>1 DEF IInv, TypeOK, AclIdsAreUnique
  <2>4. OnlyUpdatesAreLost'
    BY <2>1 DEF IInv, TypeOK, OnlyUpdatesAreLost, Reachable, Routes
  <2> QED
    BY <2>2, <2>3, <2>4 DEF IInv
<1>2. CASE Restart
  <2>1. TypeOK'
    BY <1>2 DEF IInv, TypeOK, Restart
  <2>2. AclIdsAreUnique' /\ OnlyUpdatesAreLost'
    BY <1>2 DEF IInv, AclIdsAreUnique, OnlyUpdatesAreLost, Restart
  <2> QED
    BY <2>1, <2>2 DEF IInv
<1> QED
  BY <1>1, <1>2

\* The stores start from their files.
LEMMA InitInv == Init => IInv
BY PolicyAssumption, CallTypes
   DEF PolicyAssumption, Init, IInv, TypeOK, AclIdsAreUnique, OnlyUpdatesAreLost

\* Every call keeps the invariant.
LEMMA NextInv == IInv /\ [Next]_vars => IInv'
<1>1. IInv /\ Next => IInv'
  BY RowChangesKeep, RemoveAclKeeps, ClearKeeps, UpdateAclKeeps, LoadKeeps DEF Next
<1>2. IInv /\ UNCHANGED vars => IInv'
  BY DEF vars, IInv, TypeOK, AclIdsAreUnique, OnlyUpdatesAreLost, Reachable
<1> QED
  BY <1>1, <1>2

\* The inductive invariant holds after every sequence of calls.
THEOREM Invariance == Spec => []IInv
BY InitInv, NextInv, PTL DEF Spec

\* No store ever has two lists of one name.
THEOREM AclIdsStayUnique == Spec => []AclIdsAreUnique
<1>1. IInv => AclIdsAreUnique
  BY DEF IInv
<1> QED
  BY <1>1, Invariance, PTL

\* A restart undoes nothing but updateAcl and calls whose save failed.
THEOREM LossesAreKnown == Spec => []OnlyUpdatesAreLost
<1>1. IInv => OnlyUpdatesAreLost
  BY DEF IInv
<1> QED
  BY <1>1, Invariance, PTL

-------------------------------------------------------------------------------
(* What a call changes of what identities may do.                          *)

\* A call that changes one store leaves the others, and the routes to them.
LEMMA ChangeIsLocal ==
    ASSUME NEW c, NEW realm, NEW r \in Routes, NEW s, Change(c, realm, r, s)
    PROVE  /\ last'.call = c /\ last'.realm = realm
           /\ registered' = registered
           /\ stores'[r] = s
           /\ \A q \in Routes \ {r} : stores'[q] = stores[q]
<1>1. PICK outcome \in Outcomes :
        /\ Save([q \in {r} |-> s], [q \in {r} |-> outcome])
        /\ Called(c, realm, ~Thrown(outcome))
        /\ UNCHANGED registered
  BY DEF Change
<1>2. last'.call = c /\ last'.realm = realm
  BY <1>1 DEF Called
<1>3. \A q \in Routes : stores'[q] = IF q \in {r} THEN s ELSE stores[q]
  BY <1>1 DEF Save
<1> QED
  BY <1>1, <1>2, <1>3

\* The calls that change the rows of one identity, each in the store of its realm.
RowStep ==
    \/ \E g \in Grant : AddGrant(g) \/ RemoveGrant(g)
    \/ \E b \in Binding : AddBinding(b) \/ RemoveBinding(b)

\* The other calls, which say so in last.
OtherStep == AddAcl \/ UpdateAcl \/ (\E id \in AclIds : RemoveAcl(id)) \/ Clear \/ Reload
                 \/ AddRealmStore \/ Restart

LEMMA OtherCalls ==
    ASSUME TypeOK, OtherStep
    PROVE  last'.call \in {"acl", "removeAcl", "clear", "load", "none"}
<1>1. CASE AddAcl
  <2>1. PICK r \in Reachable, acl \in Acl : Change("acl", NoRealm, r, WithAcl(stores[r], acl))
    BY <1>1 DEF AddAcl
  <2>2. r \in Routes
    BY DEF TypeOK, Reachable, Routes
  <2> QED
    BY <2>1, <2>2, ChangeIsLocal
<1>2. CASE \E id \in AclIds : RemoveAcl(id)
  <2>1. \E returned : Called("removeAcl", NoRealm, returned)
    BY <1>2 DEF RemoveAcl
  <2> QED
    BY <2>1 DEF Called
<1>3. CASE Clear
  <2>1. \E returned : Called("clear", NoRealm, returned)
    BY <1>3 DEF Clear
  <2> QED
    BY <2>1 DEF Called
<1>4. CASE UpdateAcl \/ Reload \/ AddRealmStore \/ Restart
  <2>1. \E c \in {"acl", "load", "none"} : Called(c, NoRealm, TRUE)
    BY <1>4 DEF UpdateAcl, Reload, AddRealmStore, Restart
  <2> QED
    BY <2>1 DEF Called
<1> QED
  BY <1>1, <1>2, <1>3, <1>4 DEF OtherStep

\* A row of an identity is written into the store of its realm and no other.
LEMMA RowStepIsLocal ==
    ASSUME TypeOK, RowStep
    PROVE  /\ registered' = registered
           /\ \A q \in Routes : q # Route(last'.realm) => stores'[q] = stores[q]
<1>0. \A realm : Route(realm) \in Routes
  BY RouteType DEF TypeOK
<1>1. \E c, realm, s : Change(c, realm, Route(realm), s)
  BY DEF RowStep, AddGrant, RemoveGrant, AddBinding, RemoveBinding
<1>2. PICK c, realm, s : Change(c, realm, Route(realm), s)
  BY <1>1
<1> QED
  BY <1>0, <1>2, ChangeIsLocal

\* What an identity may do hangs on the store of its realm alone.
LEMMA EffectiveFrame ==
    ASSUME registered' = registered, NEW i, stores'[Route(i.realm)] = stores[Route(i.realm)]
    PROVE  EffectiveOf(i)' = EffectiveOf(i)
<1>1. Route(i.realm)' = Route(i.realm)
  BY DEF Route
<1> QED
  BY <1>1 DEF EffectiveOf

IsolationStep ==
    last'.call \in {"grant", "revoke", "bind", "unbind"} =>
        \A i \in Refs : Route(i.realm) # Route(last'.realm) => EffectiveOf(i)' = EffectiveOf(i)

\* A grant, a revocation or a binding changes nothing for the identities of other
\* stores: for any realms, identities and stores, whichever save fails.
THEOREM StoresAreIsolated == Spec => Isolation
<1>1. ASSUME TypeOK, Next
      PROVE  IsolationStep
  <2>1. CASE RowStep
    <3>1. \A i \in Refs : Route(i.realm) \in Routes
      BY <1>1, RouteType DEF TypeOK
    <3> QED
      BY <1>1, <2>1, <3>1, RowStepIsLocal, EffectiveFrame DEF IsolationStep
  <2>2. CASE OtherStep
    BY <1>1, <2>2, OtherCalls DEF IsolationStep
  <2> QED
    BY <1>1, <2>1, <2>2 DEF Next, RowStep, OtherStep
<1>2. IInv /\ [Next]_vars => [IsolationStep]_vars
  BY <1>1 DEF IInv
<1>3. Spec => [][IsolationStep]_vars
  BY <1>2, Invariance, PTL DEF Spec
<1> QED
  BY <1>3 DEF IsolationStep, Isolation

-------------------------------------------------------------------------------
(* Revocations.                                                            *)

\* A store with fewer rows and lists allows nobody more.
LEMMA EffectiveIsMonotone ==
    ASSUME NEW s \in Store, NEW t \in Store, NEW i,
           t.grants \subseteq s.grants, t.bindings \subseteq s.bindings, t.acls \subseteq s.acls
    PROVE  EffectiveEntriesOf(t, i) \subseteq EffectiveEntriesOf(s, i)
BY DEF EffectiveEntriesOf, GrantsOf, BindingsOf

\* What is left of a store when something is taken out of it.
LEMMA RemovalsShrink ==
    ASSUME NEW s \in Store, NEW i
    PROVE  /\ \A g : EffectiveEntriesOf(WithoutGrant(s, g), i) \subseteq EffectiveEntriesOf(s, i)
           /\ \A b : EffectiveEntriesOf(WithoutBinding(s, b), i) \subseteq EffectiveEntriesOf(s, i)
           /\ \A id : EffectiveEntriesOf(WithoutAcl(s, id), i) \subseteq EffectiveEntriesOf(s, i)
           /\ EffectiveEntriesOf(Cleared, i) = {}
<1>1. ASSUME NEW g PROVE EffectiveEntriesOf(WithoutGrant(s, g), i) \subseteq EffectiveEntriesOf(s, i)
  <2>1. /\ WithoutGrant(s, g) \in Store
        /\ WithoutGrant(s, g).grants \subseteq s.grants
        /\ WithoutGrant(s, g).bindings = s.bindings /\ WithoutGrant(s, g).acls = s.acls
    BY DEF WithoutGrant, Store
  <2> QED
    BY <2>1, EffectiveIsMonotone
<1>2. ASSUME NEW b PROVE EffectiveEntriesOf(WithoutBinding(s, b), i) \subseteq EffectiveEntriesOf(s, i)
  <2>1. /\ WithoutBinding(s, b) \in Store
        /\ WithoutBinding(s, b).bindings \subseteq s.bindings
        /\ WithoutBinding(s, b).grants = s.grants /\ WithoutBinding(s, b).acls = s.acls
    BY DEF WithoutBinding, Store
  <2> QED
    BY <2>1, EffectiveIsMonotone
<1>3. ASSUME NEW id PROVE EffectiveEntriesOf(WithoutAcl(s, id), i) \subseteq EffectiveEntriesOf(s, i)
  <2>1. /\ WithoutAcl(s, id) \in Store
        /\ WithoutAcl(s, id).bindings \subseteq s.bindings
        /\ WithoutAcl(s, id).acls \subseteq s.acls /\ WithoutAcl(s, id).grants = s.grants
    BY DEF WithoutAcl, Store
  <2> QED
    BY <2>1, EffectiveIsMonotone
<1>4. EffectiveEntriesOf(Cleared, i) = {}
  BY DEF EffectiveEntriesOf, GrantsOf, BindingsOf, Cleared
<1> QED
  BY <1>1, <1>2, <1>3, <1>4

NobodyGains == \A i \in Refs : EffectiveOf(i)' \subseteq EffectiveOf(i)

\* Nobody gains where every store allows its identities no more than before.
LEMMA ShrinkingStores ==
    ASSUME TypeOK, registered' = registered,
           \A q \in Routes, i \in Refs :
               EffectiveEntriesOf(stores'[q], i) \subseteq EffectiveEntriesOf(stores[q], i)
    PROVE  NobodyGains
<1> SUFFICES ASSUME NEW i \in Refs PROVE EffectiveOf(i)' \subseteq EffectiveOf(i)
  BY DEF NobodyGains
<1>1. Route(i.realm)' = Route(i.realm) /\ Route(i.realm) \in Routes
  BY RouteType DEF Route, TypeOK
<1>2. EffectiveEntriesOf(stores'[Route(i.realm)], i)
          \subseteq EffectiveEntriesOf(stores[Route(i.realm)], i)
  BY <1>1
<1> QED
  BY <1>1, <1>2 DEF EffectiveOf

\* Removing a grant or a binding.
LEMMA RowRemovalShrinks ==
    ASSUME TypeOK, \/ \E g \in Grant : RemoveGrant(g)
                   \/ \E b \in Binding : RemoveBinding(b)
    PROVE  NobodyGains
<1>1. PICK c, realm, s :
        /\ Change(c, realm, Route(realm), s)
        /\ (\E g : s = WithoutGrant(stores[Route(realm)], g))
              \/ (\E b : s = WithoutBinding(stores[Route(realm)], b))
  BY DEF RemoveGrant, RemoveBinding
<1>2. Route(realm) \in Routes /\ stores[Route(realm)] \in Store
  BY RouteType DEF TypeOK
<1>3. /\ registered' = registered /\ stores'[Route(realm)] = s
      /\ \A q \in Routes \ {Route(realm)} : stores'[q] = stores[q]
  BY <1>1, <1>2, ChangeIsLocal
<1>4. \A i : EffectiveEntriesOf(s, i) \subseteq EffectiveEntriesOf(stores[Route(realm)], i)
  BY <1>1, <1>2, RemovalsShrink
<1> QED
  BY <1>3, <1>4, ShrinkingStores

RevocationStep ==
    /\ last'.call \in {"revoke", "unbind", "removeAcl", "clear"} =>
             \A i \in Refs : EffectiveOf(i)' \subseteq EffectiveOf(i)
    /\ last'.call = "removeAcl" /\ last'.returned => \E id \in AclIds : \A r \in Reachable :
             /\ \A a \in stores'[r].acls : a.id # id
             /\ \A b \in stores'[r].bindings : b.aclId # id

\* removeAcl takes the list and its bindings out of every store it asked, and when
\* it returned it asked all of them.
LEMMA RemoveAclRevokes ==
    ASSUME TypeOK, NEW id \in AclIds, RemoveAcl(id)
    PROVE  RevocationStep
<1>1. PICK asked \in SUBSET Reachable, r \in Reachable : \E result \in [asked -> Outcomes] :
        /\ r = Global \/ ~Thrown(result[r]) => asked = Reachable
        /\ Save([q \in asked |-> WithoutAcl(stores[q], id)], result)
        /\ Called("removeAcl", NoRealm, ~Thrown(result[r]))
        /\ UNCHANGED registered
  BY DEF RemoveAcl
<1>2. PICK result \in [asked -> Outcomes] :
        /\ r = Global \/ ~Thrown(result[r]) => asked = Reachable
        /\ Save([q \in asked |-> WithoutAcl(stores[q], id)], result)
        /\ Called("removeAcl", NoRealm, ~Thrown(result[r]))
        /\ UNCHANGED registered
  BY <1>1
<1>3. \A q \in Routes : stores'[q] = IF q \in asked THEN WithoutAcl(stores[q], id) ELSE stores[q]
  BY <1>2 DEF Save
<1>4. \A q \in Routes : stores[q] \in Store
  BY DEF TypeOK
<1>5. NobodyGains
  <2>1. \A q \in Routes, i \in Refs :
          EffectiveEntriesOf(stores'[q], i) \subseteq EffectiveEntriesOf(stores[q], i)
    BY <1>3, <1>4, RemovalsShrink
  <2> QED
    BY <1>2, <2>1, ShrinkingStores
<1>6. last'.call = "removeAcl" /\ (last'.returned => ~Thrown(result[r]))
  BY <1>2, Zenon DEF Called
<1>7. \A q \in asked : /\ \A a \in stores'[q].acls : a.id # id
                       /\ \A b \in stores'[q].bindings : b.aclId # id
  <2>1. \A q \in asked : q \in Routes
    BY DEF TypeOK, Reachable, Routes
  <2>2. \A s \in Store : /\ \A a \in WithoutAcl(s, id).acls : a.id # id
                         /\ \A b \in WithoutAcl(s, id).bindings : b.aclId # id
    BY DEF WithoutAcl, Store
  <2>3. \A q \in asked : stores'[q] = WithoutAcl(stores[q], id)
    BY <1>3, <2>1
  <2> QED
    BY <1>4, <2>1, <2>2, <2>3
<1>8. last'.returned => asked = Reachable
  BY <1>2, <1>6
<1> QED
  BY <1>5, <1>6, <1>7, <1>8 DEF RevocationStep, NobodyGains

\* clear() leaves every identity to the global store, which is empty.
LEMMA ClearRevokes ==
    ASSUME Clear
    PROVE  NobodyGains /\ last'.call = "clear"
<1>1. PICK outcome \in Outcomes :
        /\ registered' = {}
        /\ Save([q \in {Global} |-> Cleared], [q \in {Global} |-> outcome])
        /\ Called("clear", NoRealm, ~Thrown(outcome))
  BY DEF Clear
<1>2. Global \in Routes
  BY DEF Routes
<1>3. stores'[Global] = Cleared
  BY <1>1, <1>2 DEF Save
<1>4. \A i : Route(i.realm)' = Global
  BY <1>1 DEF Route
<1>5. \A i : EffectiveOf(i)' = EffectiveEntriesOf(Cleared, i)
  BY <1>3, <1>4 DEF EffectiveOf
<1>6. \A i : EffectiveEntriesOf(Cleared, i) = {}
  BY DEF EffectiveEntriesOf, GrantsOf, BindingsOf, Cleared
<1>7. last'.call = "clear"
  BY <1>1 DEF Called
<1> QED
  BY <1>5, <1>6, <1>7 DEF NobodyGains

\* A revocation gives nobody anything, whatever fails on its way, and a removeAcl
\* that returned left neither the list nor a binding to it in any store.
THEOREM RevocationsNeverGrant == Spec => RevocationsHold
<1>1. ASSUME TypeOK, Next
      PROVE  RevocationStep
  <2>1. CASE \/ \E g \in Grant : RemoveGrant(g)
             \/ \E b \in Binding : RemoveBinding(b)
    <3>1. last'.call \in {"revoke", "unbind"}
      BY <1>1, <2>1, RouteType, ChangeIsLocal DEF RemoveGrant, RemoveBinding, TypeOK
    <3> QED
      BY <1>1, <2>1, <3>1, RowRemovalShrinks DEF RevocationStep, NobodyGains
  <2>2. CASE \/ \E g \in Grant : AddGrant(g)
             \/ \E b \in Binding : AddBinding(b)
    <3>1. last'.call \in {"grant", "bind"}
      BY <1>1, <2>2, RouteType, ChangeIsLocal DEF AddGrant, AddBinding, TypeOK
    <3> QED
      BY <3>1 DEF RevocationStep
  <2>3. CASE \E id \in AclIds : RemoveAcl(id)
    BY <1>1, <2>3, RemoveAclRevokes
  <2>4. CASE Clear
    BY <2>4, ClearRevokes DEF RevocationStep, NobodyGains
  <2>5. CASE UpdateAcl \/ Reload \/ AddRealmStore \/ Restart
    <3>1. \E c \in {"acl", "load", "none"} : Called(c, NoRealm, TRUE)
      BY <2>5 DEF UpdateAcl, Reload, AddRealmStore, Restart
    <3>2. last'.call \in {"acl", "load", "none"}
      BY <3>1 DEF Called
    <3> QED
      BY <3>2 DEF RevocationStep
  <2>6. CASE AddAcl
    <3>1. PICK r \in Reachable, acl \in Acl : Change("acl", NoRealm, r, WithAcl(stores[r], acl))
      BY <2>6 DEF AddAcl
    <3>2. r \in Routes
      BY <1>1 DEF TypeOK, Reachable, Routes
    <3> QED
      BY <3>1, <3>2, ChangeIsLocal DEF RevocationStep
  <2> QED
    BY <1>1, <2>1, <2>2, <2>3, <2>4, <2>5, <2>6 DEF Next
<1>2. IInv /\ [Next]_vars => [RevocationStep]_vars
  BY <1>1 DEF IInv
<1>3. Spec => [][RevocationStep]_vars
  BY <1>2, Invariance, PTL DEF Spec
<1> QED
  BY <1>3 DEF RevocationStep, RevocationsHold
===============================================================================
