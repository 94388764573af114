---------------------------- MODULE RegistryLookup ----------------------------
(***************************************************************************)
(* The lookups of IdentityRegistry as operators on its two containers:     *)
(*   b   m_bindings, a function from realm slots to services               *)
(*   u   m_unbound, the services without a slot                            *)
(* m_bindings is an unordered_map: Rank is the order in which an iteration *)
(* over it reaches the slots, any injection.  Two services are the same    *)
(* service when their id() is equal, whichever objects they are.           *)
(***************************************************************************)
EXTENDS Realms, Integers

CONSTANTS
    Services,     \* identity service objects
    ServiceIds,   \* the strings id() returns
    ServiceId,    \* Services -> ServiceIds
    Slots,        \* the realms services are bound to
    Rank          \* Slots -> Int, the iteration order of m_bindings

ASSUME ServicesAssumption == ServiceId \in [Services -> ServiceIds]

ASSUME SlotsAssumption == Slots \subseteq Realm /\ \A r \in Slots : HasKey(r)

SameService(s, t) == ServiceId[s] = ServiceId[t]

\* The slot an iteration over S reaches first.
FirstSlot(S) == CHOOSE r \in S : \A q \in S : Rank[r] <= Rank[q]

\* IdentityRegistry::findBinding looks for the first of these.
SlotsForExactly(b, realm) == {r \in DOMAIN b : r = realm}   \* mutant of SlotsFor

SlotsForHinted(b, realm) == {r \in DOMAIN b : Match(r, realm)}   \* mutant of SlotsFor

SlotsFor(b, realm) == {r \in DOMAIN b : ScopedEqual(r, realm)}

\* The services of slots S, of each id only the one an iteration meets first.
FirstOfEachId(b, S) ==
    {b[r] : r \in {r \in S : \A q \in S : SameService(b[q], b[r]) => Rank[r] <= Rank[q]}}

UniqueServices(b, u) ==
    u \cup FirstOfEachId(b, {r \in DOMAIN b : \A s \in u : ~SameService(s, b[r])})

FindByRealm(b, u, realm) ==
    IF IsEmpty(realm) THEN UniqueServices(b, u)
    ELSE FirstOfEachId(b, {r \in DOMAIN b : Match(r, realm) \/ ScopedEqual(r, realm)})

\* IdentityRegistry::load on a realm with a key.
Load(b, realm) == b[FirstSlot(SlotsFor(b, realm))]

\* A hint that names a registered realm takes the registered type and uuid
\* where it has none of its own.
ResolveRealmHint(b, hint) ==
    LET named == {r \in DOMAIN b : r.name = hint.name}
        slot  == FirstSlot(named)
    IN  IF hint.name = Empty \/ named = {} THEN hint
        ELSE [slot EXCEPT !.type = IF hint.type # Empty THEN hint.type ELSE @,
                          !.uuid = IF hint.uuid # Empty THEN hint.uuid ELSE @]
===============================================================================
