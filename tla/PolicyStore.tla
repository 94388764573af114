------------------------------ MODULE PolicyStore ------------------------------
(***************************************************************************)
(* The policy of a system with several devices: a RealmPolicyStore that    *)
(* routes to one store per realm and to a global one, each of them a       *)
(* FilePolicyStore over a DefaultPolicyStore (PolicyStore.cpp).  A store   *)
(* holds named lists of entries (ACLs), bindings of lists to identities,   *)
(* and direct grants.  Every change but updateAcl rewrites the file of the *)
(* store it changed.                                                       *)
(*                                                                         *)
(* One thread calls the stores, so a call is one step; the step chooses    *)
(* how far its saves got: done, not begun, or begun and broken off, the    *)
(* last two with an exception that ends the call there.                    *)
(***************************************************************************)
EXTENDS Realms, Naturals, FiniteSets

CONSTANTS
    StoreRealms,  \* the realms addRealmStore is called with
    Refs,         \* identity references, [type, name, realm]
    AclIds,       \* names of ACLs
    Entries,      \* access control entries: a permission and an effect
    MaxRows,      \* bound on the grants and bindings of a store
    InitFiles     \* the files there are at first

\* RealmPolicyStore::m_global, beside the stores that go by a storage key.
Global == <<"m_global">>

Keys == {StorageKey(r) : r \in {r \in StoreRealms : HasKey(r)}}

Routes == Keys \cup {Global}

Acl == [id : AclIds, entries : SUBSET Entries]

Grant == [identity : Refs, entry : Entries]

Binding == [aclId : AclIds, identity : Refs]

Store == [acls : SUBSET Acl, grants : SUBSET Grant, bindings : SUBSET Binding]

Cleared == [acls |-> {}, grants |-> {}, bindings |-> {}]

\* getAcl returns the first list of a name: there should be no second.
UniqueIds(s) == \A a, b \in s.acls : a.id = b.id => a = b

ASSUME PolicyAssumption ==
    /\ StoreRealms \subseteq Realm
    /\ \A i \in Refs : i.realm \in Realm
    /\ Global \notin Keys
    /\ InitFiles \in [Routes -> Store]
    /\ \A r \in Routes : UniqueIds(InitFiles[r])

VARIABLES
    registered,  \* the keys of m_byKey
    stores,      \* what each store holds in memory
    files,       \* what loading the file of each store would give
    unsaved,     \* stores changed by updateAcl, or whose save failed, since the last save
    last         \* the last call, the realm of its identity, whether it returned

vars == <<registered, stores, files, unsaved, last>>

\* The stores a RealmPolicyStore can reach.
Reachable == registered \cup {Global}

Calls == {"none", "grant", "revoke", "bind", "unbind", "acl", "removeAcl", "clear", "load"}

TypeOK ==
    /\ registered \subseteq Keys
    /\ stores \in [Routes -> Store]
    /\ files \in [Routes -> Store]
    /\ unsaved \subseteq Routes
    /\ last \in [call : Calls, realm : Realm, returned : BOOLEAN]

-------------------------------------------------------------------------------
(* DefaultPolicyStore.                                                     *)

GrantsOf(s, i) == {g \in s.grants : RefEq(g.identity, i)}

BindingsOf(s, i) == {b \in s.bindings : RefEq(b.identity, i)}

EffectiveEntriesOf(s, i) ==
    {g.entry : g \in GrantsOf(s, i)}
        \cup UNION {a.entries : a \in {a \in s.acls : \E b \in BindingsOf(s, i) : b.aclId = a.id}}

WithoutAcl(s, id) ==
    [s EXCEPT !.acls = {a \in @ : a.id # id}, !.bindings = {b \in @ : b.aclId # id}]

WithAcl(s, acl) == [WithoutAcl(s, acl.id) EXCEPT !.acls = @ \cup {acl}]

WithAppendedAcl(s, acl) == [s EXCEPT !.acls = @ \cup {acl}]   \* mutant of WithUpdatedAcl

\* updateAcl puts the new list in the place of the old one and keeps bindings.
WithUpdatedAcl(s, acl) == [s EXCEPT !.acls = {a \in @ : a.id # acl.id} \cup {acl}]

\* removeGrant: what is equal to the grant, its identity by reference equality.
WithoutGrant(s, g) ==
    [s EXCEPT !.grants = {o \in @ : ~(RefEq(o.identity, g.identity) /\ o.entry = g.entry)}]

WithoutBinding(s, b) ==
    [s EXCEPT !.bindings = {o \in @ : ~(RefEq(o.identity, b.identity) /\ o.aclId = b.aclId)}]

-------------------------------------------------------------------------------
(* RealmPolicyStore.                                                       *)

\* resolveFor: the store whose key the realm of the identity has.
Route(realm) ==
    IF HasKey(realm) /\ StorageKey(realm) \in registered THEN StorageKey(realm) ELSE Global

EffectiveOf(i) == EffectiveEntriesOf(stores[Route(i.realm)], i)

Init ==
    /\ registered = {}
    /\ stores = InitFiles
    /\ files = InitFiles
    /\ unsaved = {}
    /\ last = [call |-> "none", realm |-> NoRealm, returned |-> TRUE]

\* How saveToDisk of a store may end: with the file written, without having
\* opened it, after truncating it, and after truncating it with nobody told
\* because the text was still in a buffer when the stream was asked.
Outcomes == {"saved", "unopened", "broken", "unnoticed"}

Thrown(outcome) == outcome \in {"unopened", "broken"}

\* A truncated file loads as an empty store.
FileAfter(outcome, s, file) ==
    CASE outcome = "saved" -> s
      [] outcome = "unopened" -> file
      [] outcome \in {"broken", "unnoticed"} -> Cleared

Called(call, realm, returned) ==
    last' = [call |-> call, realm |-> realm, returned |-> returned]

\* The stores of DOMAIN new change, and each save ends as result says.
Save(new, result) ==
    /\ stores' = [r \in Routes |-> IF r \in DOMAIN new THEN new[r] ELSE stores[r]]
    /\ files' = [r \in Routes |-> IF r \in DOMAIN new
                                  THEN FileAfter(result[r], new[r], files[r]) ELSE files[r]]
    /\ unsaved' = {r \in Routes : IF r \in DOMAIN new THEN result[r] # "saved" ELSE r \in unsaved}

\* A call that changes one store.
Change(call, realm, r, s) ==
    \E outcome \in Outcomes :
        /\ Save([q \in {r} |-> s], [q \in {r} |-> outcome])
        /\ Called(call, realm, ~Thrown(outcome))
        /\ UNCHANGED registered

Rows(s) == Cardinality(s.grants) + Cardinality(s.bindings)

AddGrantGlobally(g) ==                   \* mutant of AddGrant
    LET s == [stores[Global] EXCEPT !.grants = @ \cup {g}]
    IN  Rows(s) <= MaxRows /\ Change("grant", g.identity.realm, Global, s)

AddGrant(g) ==
    LET r == Route(g.identity.realm)
        s == [stores[r] EXCEPT !.grants = @ \cup {g}]
    IN  Rows(s) <= MaxRows /\ Change("grant", g.identity.realm, r, s)

RemoveGrant(g) ==
    LET r == Route(g.identity.realm)
    IN  Change("revoke", g.identity.realm, r, WithoutGrant(stores[r], g))

AddBinding(b) ==
    LET r == Route(b.identity.realm)
        s == [stores[r] EXCEPT !.bindings = @ \cup {b}]
    IN  Rows(s) <= MaxRows /\ Change("bind", b.identity.realm, r, s)

RemoveBindingUnsaved(b) ==               \* mutant of RemoveBinding
    LET r == Route(b.identity.realm)
    IN  /\ stores' = [stores EXCEPT ![r] = WithoutBinding(@, b)]
        /\ Called("unbind", b.identity.realm, TRUE)
        /\ UNCHANGED <<registered, files, unsaved>>

RemoveBinding(b) ==
    LET r == Route(b.identity.realm)
    IN  Change("unbind", b.identity.realm, r, WithoutBinding(stores[r], b))

\* RealmPolicyStore::addAcl goes to the global store; a realm's own store is
\* reached through storeForRealm.
AddAcl ==
    \E r \in Reachable, acl \in Acl : Change("acl", NoRealm, r, WithAcl(stores[r], acl))

\* FilePolicyStore has no updateAcl of its own: nothing is saved.
UpdateAcl ==
    \E r \in Reachable, acl \in Acl :
        /\ stores' = [stores EXCEPT ![r] = WithUpdatedAcl(@, acl)]
        /\ unsaved' = unsaved \cup {r}
        /\ Called("acl", NoRealm, TRUE)
        /\ UNCHANGED <<registered, files>>

\* removeAcl asks every realm store, in any order, and then the global one; the
\* first save that throws ends the call, with that store already changed.
RemoveAcl(id) ==
    \E asked \in SUBSET Reachable, r \in Reachable :
        \E result \in [asked -> Outcomes] :
            /\ r \in asked
            /\ \A q \in asked \ {r} : ~Thrown(result[q])
            /\ Global \in asked => r = Global
            /\ r = Global \/ ~Thrown(result[r]) => asked = Reachable
            /\ Save([q \in asked |-> WithoutAcl(stores[q], id)], result)
            /\ Called("removeAcl", NoRealm, ~Thrown(result[r]))
            /\ UNCHANGED registered

ClearRealmsOnly ==                       \* mutant of Clear
    /\ registered' = {}
    /\ Called("clear", NoRealm, TRUE)
    /\ UNCHANGED <<stores, files, unsaved>>

\* clear() forgets the realm stores and empties the global one.
Clear ==
    \E outcome \in Outcomes :
        /\ registered' = {}
        /\ Save([q \in {Global} |-> Cleared], [q \in {Global} |-> outcome])
        /\ Called("clear", NoRealm, ~Thrown(outcome))

Reload ==
    \E r \in Reachable :
        /\ stores' = [stores EXCEPT ![r] = files[r]]
        /\ unsaved' = unsaved \ {r}
        /\ Called("load", NoRealm, TRUE)
        /\ UNCHANGED <<registered, files>>

\* A new store for a realm reads its file and takes the place of an older one.
AddRealmStore ==
    \E realm \in StoreRealms :
        LET key == StorageKey(realm)
        IN  /\ HasKey(realm)
            /\ registered' = registered \cup {key}
            /\ stores' = [stores EXCEPT ![key] = files[key]]
            /\ unsaved' = unsaved \ {key}
            /\ Called("load", NoRealm, TRUE)
            /\ UNCHANGED files

\* The process ends, also in the middle of a save, and a new one starts.
Restart ==
    /\ registered' = {}
    /\ stores' = files
    /\ unsaved' = {}
    /\ Called("none", NoRealm, TRUE)
    /\ UNCHANGED files

Next ==
    \/ \E g \in Grant : AddGrant(g) \/ RemoveGrant(g)
    \/ \E b \in Binding : AddBinding(b) \/ RemoveBinding(b)
    \/ AddAcl \/ UpdateAcl
    \/ \E id \in AclIds : RemoveAcl(id)
    \/ Clear \/ Reload \/ AddRealmStore \/ Restart

Spec == Init /\ [][Next]_vars

-------------------------------------------------------------------------------
(* Properties.                                                             *)

\* A store never has two lists of one name, of which getAcl would see the first
\* only (addAcl and updateAcl, PolicyStore.cpp:38-51).
AclIdsAreUnique == \A r \in Routes : UniqueIds(stores[r]) /\ UniqueIds(files[r])

\* A grant or a binding of one identity changes nothing for the identities of
\* other stores ("RealmPolicyStore isolates policy data per device/tenant",
\* SecurityArch.md:283).
Isolation ==
    [][last'.call \in {"grant", "revoke", "bind", "unbind"} =>
        \A i \in Refs : Route(i.realm) # Route(last'.realm) => EffectiveOf(i)' = EffectiveOf(i)]_vars

\* Taking something away gives nobody anything, not even when a save fails on
\* the way or when clear() sends the identities of a realm to the global store;
\* and a removeAcl that returned left neither the list nor a binding to it in any
\* store, so that a later list of that name is bound to nobody.
RevocationsHold ==
    [][/\ last'.call \in {"revoke", "unbind", "removeAcl", "clear"} =>
             \A i \in Refs : EffectiveOf(i)' \subseteq EffectiveOf(i)
       /\ last'.call = "removeAcl" /\ last'.returned => \E id \in AclIds : \A r \in Reachable :
             /\ \A a \in stores'[r].acls : a.id # id
             /\ \A b \in stores'[r].bindings : b.aclId # id]_vars

\* A restart can undo updateAcl calls and calls whose save failed, and nothing
\* else: every other store is in its file as it is in memory.
OnlyUpdatesAreLost == \A r \in Reachable : r \notin unsaved => files[r] = stores[r]
===============================================================================
