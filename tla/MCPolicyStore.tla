----------------------------- MODULE MCPolicyStore -----------------------------
(***************************************************************************)
(* One device with a store of its own, one without, and a system-wide      *)
(* principal; the file of the device holds a list and a grant.             *)
(***************************************************************************)
EXTENDS PolicyStore

CONSTANTS Device, A, B, operator, drive, crew

DeviceA == [type |-> Device, uuid |-> Empty, name |-> A]

DeviceB == [type |-> Device, uuid |-> Empty, name |-> B]

MCStoreRealms == {DeviceA, NoRealm}

Role(realm) == [type |-> "role", name |-> operator, realm |-> realm]

MCRefs == {Role(DeviceA), Role(DeviceB), Role(NoRealm)}

MCInitFiles ==
    [r \in Routes |->
        IF r = Global THEN Cleared
        ELSE [acls |-> {[id |-> crew, entries |-> {drive}]},
              grants |-> {},
              bindings |-> {[aclId |-> crew, identity |-> Role(DeviceA)]}]]

\* Nothing depends on what the last call was.
View == <<registered, stores, files, unsaved>>
===============================================================================
