-------------------------- MODULE MCIdentityRegistry --------------------------
(***************************************************************************)
(* Realms that name a device fully, by its name and by its type alone, and *)
(* two services of one id beside a third of another.                       *)
(***************************************************************************)
EXTENDS IdentityRegistry

CONSTANTS device, app, tankA, tankB, storeA, storeB, ldap, idStore, idLdap

R(t, n) == [type |-> t, uuid |-> Empty, name |-> n]

MCSlots == {R(device, tankA), R(device, tankB), R(device, Empty), R(Empty, tankA), R(app, tankA)}

MCServiceId == [s \in Services |-> IF s = ldap THEN idLdap ELSE idStore]
===============================================================================
