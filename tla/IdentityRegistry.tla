--------------------------- MODULE IdentityRegistry ---------------------------
(***************************************************************************)
(* IdentityRegistry as its callers change it: services come and go, with   *)
(* and without a realm slot.  m_bindings is an unordered_map whose         *)
(* iteration order is unspecified and may be another after every           *)
(* insertion; order is that order, and the lookups of RegistryLookup are   *)
(* taken in it.                                                            *)
(***************************************************************************)
EXTENDS Realms, Integers, FiniteSets

CONSTANTS
    Services, ServiceIds, ServiceId,   \* service objects and what id() returns
    Slots,                             \* the realms callers bind and ask for
    NoService

VARIABLES
    bindings,    \* m_bindings, a function from bound realms to services
    order,       \* the iteration order of m_bindings: the rank of every slot
    realmKeys,   \* m_realmKeys, the ranks of the realms it lists
    unbound,     \* m_unbound
    last         \* the last call and what it returned

vars == <<bindings, order, realmKeys, unbound, last>>

Lookup == INSTANCE RegistryLookup WITH Rank <- order

ASSUME RegistryAssumption ==
    /\ ServiceId \in [Services -> ServiceIds]
    /\ IsFiniteSet(Slots) /\ Slots \subseteq Realm /\ \A r \in Slots : HasKey(r)
    /\ NoService \notin Services

\* The orders an iteration over the slots of S may have.
Orders(S) == {rank \in [S -> 1..Cardinality(S)] : \A r, q \in S : rank[r] = rank[q] => r = q}

Result == [op : {"none", "add", "addUnbound", "removeService", "removeRealm"},
           service : Services \cup {NoService}, realm : Slots \cup {NoRealm}, ok : BOOLEAN]

TypeOK ==
    /\ \E S \in SUBSET Slots : bindings \in [S -> Services] /\ order \in [S -> Nat]
    /\ \E S \in SUBSET Slots : realmKeys \in [S -> Nat]
    /\ unbound \subseteq Services
    /\ last \in Result

Init ==
    /\ bindings = [r \in {} |-> NoService]
    /\ order = [r \in {} |-> 0]
    /\ realmKeys = order
    /\ unbound = {}
    /\ last = [op |-> "none", service |-> NoService, realm |-> NoRealm, ok |-> FALSE]

Returns(op, s, r, ok) == last' = [op |-> op, service |-> s, realm |-> r, ok |-> ok]

AddUnchecked(s, r) ==              \* mutant of Add
    LET taken == Lookup!SlotsFor(bindings, r)
    IN  /\ IF taken # {}
           THEN Returns("add", s, r, TRUE) /\ UNCHANGED <<bindings, order, realmKeys>>
           ELSE /\ bindings' = [q \in DOMAIN bindings \cup {r} |-> IF q = r THEN s ELSE bindings[q]]
                /\ order' \in Orders(DOMAIN bindings')
                /\ realmKeys' = order'
                /\ Returns("add", s, r, TRUE)
        /\ UNCHANGED unbound

\* add() with a realm: a slot that is taken stays as it is, and the caller
\* hears whether a service of the same id holds it.
Add(s, r) ==
    LET taken == Lookup!SlotsFor(bindings, r)
    IN  /\ IF taken # {}
           THEN /\ Returns("add", s, r, Lookup!SameService(Lookup!Load(bindings, r), s))
                /\ UNCHANGED <<bindings, order, realmKeys>>
           ELSE /\ bindings' = [q \in DOMAIN bindings \cup {r} |-> IF q = r THEN s ELSE bindings[q]]
                /\ order' \in Orders(DOMAIN bindings')
                /\ realmKeys' = order'
                /\ Returns("add", s, r, TRUE)
        /\ UNCHANGED unbound

AddUnbound(s) ==
    /\ unbound' = IF \E t \in unbound : Lookup!SameService(s, t) THEN unbound ELSE unbound \cup {s}
    /\ Returns("addUnbound", s, NoRealm, TRUE)
    /\ UNCHANGED <<bindings, order, realmKeys>>

\* The entries of S leave the map; erasing keeps the order of the others.
Erase(S) ==
    /\ bindings' = [r \in DOMAIN bindings \ S |-> bindings[r]]
    /\ order' = [r \in DOMAIN order \ S |-> order[r]]

SlotsOf(s) == {r \in DOMAIN bindings : Lookup!SameService(bindings[r], s)}

RemoveService(s) ==
    /\ Erase(SlotsOf(s))
    /\ unbound' = {t \in unbound : ~Lookup!SameService(s, t)}
    /\ realmKeys' = IF SlotsOf(s) # {} THEN order' ELSE realmKeys
    /\ Returns("removeService", s, NoRealm, SlotsOf(s) # {})

RemoveRealm(r) ==
    LET taken == Lookup!SlotsFor(bindings, r)
    IN  /\ IF taken # {}
           THEN Erase({Lookup!FirstSlot(taken)}) /\ realmKeys' = order'
           ELSE UNCHANGED <<bindings, order, realmKeys>>
        /\ Returns("removeRealm", NoService, r, taken # {})
        /\ UNCHANGED unbound

Next ==
    \/ \E s \in Services, r \in Slots : Add(s, r)
    \/ \E s \in Services : AddUnbound(s) \/ RemoveService(s)
    \/ \E r \in Slots : RemoveRealm(r)

Spec == Init /\ [][Next]_vars

-------------------------------------------------------------------------------
(* Properties.                                                             *)

\* The slots stay apart, although the comparison that keeps them apart is not
\* transitive (findBinding before every emplace, IdentityRegistry.cpp:45).
SlotsApart == \A r, q \in DOMAIN bindings : r # q => ~ScopedEqual(r, q)

\* Whatever the iteration order, load() of a bound realm returns the service
\* bound to it and never that of a slot which also answers to the realm.
LoadFindsBound == \A r \in DOMAIN bindings : Lookup!Load(bindings, r) = bindings[r]

\* The list of realms the lookups by name go through is that of the map, in the
\* order of the map (rebuildRealmKeys after every change).
KeysInStep == realmKeys = order /\ DOMAIN order = DOMAIN bindings

\* A caller who heard that a realm is bound to its service finds a service of
\* that id there, one who heard it is not finds another, and a service that was
\* removed is listed nowhere (the results of add and remove, which tests ignore).
AnswersHold ==
    /\ last.op = "add" =>
           (last.ok <=> Lookup!SameService(Lookup!Load(bindings, last.realm), last.service))
    /\ last.op = "removeService" =>
           \A s \in Lookup!UniqueServices(bindings, unbound) : ~Lookup!SameService(s, last.service)
===============================================================================
