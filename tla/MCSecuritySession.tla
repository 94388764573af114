--------------------------- MODULE MCSecuritySession ---------------------------
(***************************************************************************)
(* Two devices with a user store each, as in the tanks demo: both stores   *)
(* know bob, and both services answer the same id().                       *)
(***************************************************************************)
EXTENDS SecuritySession

CONSTANTS device, global, tankA, tankB, alice, bob, operator, gunner, default,
          pw, anon, storeA, storeB, idAnon, idStore, view, fire

R(n) == [type |-> device, uuid |-> Empty, name |-> n]

MCSlots == {R(tankA), R(tankB)}
MCRank == [r \in MCSlots |-> IF r.name = tankA THEN 1 ELSE 2]
MCServiceId == [s \in Services |-> IF s = anon THEN idAnon ELSE idStore]
MCBindings == [r \in MCSlots |-> IF r.name = tankA THEN storeA ELSE storeB]
MCUnbound == {anon}

G(t, n, r, p, e) == [type |-> t, name |-> n, realm |-> r, perm |-> p, effect |-> e, spec |-> 0]

MCGrants == {G("public", default, NoRealm, view, "Allow"),
             G("role", gunner, R(tankA), fire, "Allow"),
             G("user", bob, R(tankB), fire, "Deny")}

Req(p, h, i) == [perm |-> p, hint |-> h, name |-> Empty, interactive |-> i, auto |-> TRUE]

MCRequests == {Req(view, NoRealm, TRUE), Req(view, NoRealm, FALSE),
               Req(fire, [R(tankB) EXCEPT !.type = Empty], TRUE),
               Req(fire, R(tankB), FALSE)}

MCLogins == {[hint |-> NoRealm, name |-> Empty], [hint |-> R(tankB), name |-> bob]}

MCTyped == {NoRealm, R(tankA)}
MCBlank == {NoRealm}

C(u, r) == [subject |-> u, realm |-> r, secret |-> pw, serviceHint |-> Empty]

MCAppCredentials == {C(alice, R(tankA)), C(bob, NoRealm)}

A(on, roles) == [secret |-> pw, enabled |-> on, roles |-> roles]

MCInitAccounts ==
    [s \in StoreServices |->
        [u \in Users |-> IF s = storeA /\ u = alice THEN A(TRUE, {gunner})
                         ELSE IF u = bob THEN A(TRUE, IF s = storeB THEN {gunner} ELSE {})
                         ELSE NoAccount]]

MCAccountChanges == {<<storeA, alice, A(on, {gunner})>> : on \in BOOLEAN}

MCLiveRequests == {Req(view, NoRealm, TRUE), Req(fire, [R(tankB) EXCEPT !.type = Empty], TRUE)}
MCLiveLogins == {[hint |-> NoRealm, name |-> Empty]}

MCSwitchRequests == {Req(view, NoRealm, TRUE), Req(view, R(tankB), FALSE)}
===============================================================================
