----------------------------- MODULE AccessPolicy -----------------------------
(***************************************************************************)
(* The decision rule over access control entries: DefaultACResolvePolicy   *)
(* and policyCheckAny.  A permission is a model value; that an entry's     *)
(* pattern matches the permission asked for, and how specific the pattern  *)
(* is, are carried by the entry (fields perm and spec), because matching   *)
(* dotted and slashed patterns is a computation on one string.             *)
(***************************************************************************)
EXTENDS Realms, Integers

CONSTANTS
    Permissions,      \* the permissions asked for
    IdentityNames,    \* user names, role names and "default"
    Specificities     \* DefaultPermissionMatcher::specificity values

ASSUME SpecificitiesAssumption == Specificities \subseteq Int

IdentityTypes == {"user", "role", "anonymous", "public"}

Effects == {"Allow", "Deny"}

Grant == [type : IdentityTypes, name : IdentityNames, realm : Realm,
          perm : Permissions, effect : Effects, spec : Specificities]

\* The entries that bear on perm for a set of identities.
MatchesOf(grants, ids, perm) ==
    {g \in grants : g.perm = perm /\ \E i \in ids : RefEq(g, i)}

\* DefaultACResolvePolicy::resolve: only the most specific matches count, and
\* among them one Deny outweighs every Allow.
Resolve(matches) ==
    LET top == {m \in matches : \A n \in matches : n.spec <= m.spec}
    IN  IF \E m \in top : m.effect = "Deny" THEN "Deny"
        ELSE IF \E m \in top : m.effect = "Allow" THEN "Allow"
        ELSE "Unknown"

\* policyCheckAny over the entries of all the identities together.
Decide(grants, ids, perm) == Resolve(MatchesOf(grants, ids, perm))

\* SecurityManager::normalizeResult: a check never answers Unknown.
Normalize(d) == IF d = "Unknown" THEN "Deny" ELSE d
===============================================================================
