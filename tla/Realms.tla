-------------------------------- MODULE Realms --------------------------------
(***************************************************************************)
(* The realm algebra of bas::security (Realm.cpp).  A realm is the scope a *)
(* principal lives in: a type ("device", "app", "global"), a uuid and a    *)
(* name, each of which may be empty.  The description and the image of a   *)
(* realm are display data and are taken to be empty, so that Realm::empty  *)
(* is the negation of Realm::hasKey.                                       *)
(*                                                                         *)
(* Three different comparisons decide three different things: Match        *)
(* filters by a hint, Same compares identity references, ScopedEqual       *)
(* decides which login session a new login replaces and which service a    *)
(* realm slot belongs to.                                                  *)
(***************************************************************************)
CONSTANTS
    RealmTypes,   \* the non-empty realm types
    RealmUuids,   \* the non-empty realm uuids
    RealmNames,   \* the non-empty realm names
    Empty         \* the empty string

ASSUME EmptyAssumption == Empty \notin RealmTypes \cup RealmUuids \cup RealmNames

Realm == [type : RealmTypes \cup {Empty},
          uuid : RealmUuids \cup {Empty},
          name : RealmNames \cup {Empty}]

NoRealm == [type |-> Empty, uuid |-> Empty, name |-> Empty]

HasKey(r) == r.type # Empty \/ r.uuid # Empty \/ r.name # Empty

IsEmpty(r) == ~HasKey(r)

\* Both fields are present: the field that decides a comparison of two realms.
BothHave(r, s, f) == r[f] # Empty /\ s[f] # Empty

\* Realm::match: the hint is the pattern, and its first present key decides.
Match(r, hint) ==
    /\ hint.type # Empty => r.type = hint.type
    /\ hint.uuid # Empty => r.uuid = hint.uuid
    /\ hint.uuid = Empty /\ hint.name # Empty => r.name = hint.name

\* The chain Realm::same and Realm::scopedEqual share: a type both name must
\* agree, then the first of uuid, name, type that both have decides.
KeysAgree(r, s, otherwise) ==
    /\ BothHave(r, s, "type") => r.type = s.type
    /\ IF BothHave(r, s, "uuid") THEN r.uuid = s.uuid
       ELSE IF BothHave(r, s, "name") THEN r.name = s.name
       ELSE BothHave(r, s, "type") \/ otherwise

Same(r, s) == IsEmpty(r) \/ IsEmpty(s) \/ KeysAgree(r, s, FALSE)

ScopedEqual(r, s) == KeysAgree(r, s, IsEmpty(r) /\ IsEmpty(s))

\* Realm::storageKey, the key of a per-realm store.
StorageKey(r) ==
    IF r.uuid # Empty THEN <<"uuid", r.uuid>>
    ELSE IF r.type # Empty /\ r.name # Empty THEN <<r.type, r.name>>
    ELSE IF r.name # Empty THEN <<"name", r.name>>
    ELSE IF r.type # Empty THEN <<"type", r.type>>
    ELSE <<"global">>

\* IdentityRef::operator==
RefEq(a, b) == a.type = b.type /\ a.name = b.name /\ Same(a.realm, b.realm)
===============================================================================
