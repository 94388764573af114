----------------------------- MODULE StoresProofs -----------------------------
(***************************************************************************)
(* The invariants of CredentialStore for any number of processes on one    *)
(* file, any contents and any bounds; and then those of UserStore: what a  *)
(* store of users has in memory is what its backing gives back, and        *)
(* passwords come and go only by changes that say so, for any users, keys, *)
(* commands and failed writes.                                             *)
(*                                                                         *)
(* Then the registries of values, over lemmas about places in documents:   *)
(* those who watch a document are told of every value that changes, and    *)
(* what a process is answered by a registry on a volume changes only as it *)
(* knows, for any documents, paths, files and names of files.              *)
(***************************************************************************)
EXTENDS CredentialStore, UserStore, JsonRegistry, ValueRegistry,
        FiniteSetTheorems, FunctionTheorems, SequenceTheorems, TLAPS

-------------------------------------------------------------------------------
(* Credentials                                                             *)

UniqueIds(held) == \A a, b \in held : a.id = b.id => a = b

\* Beyond RefsAreUnique and RestartFindsMemory: whatever a file holds was saved
\* from a memory, so the file is unique too when it does not parse.
CredentialsInv ==
    /\ CredentialTypes
    /\ \A m \in Managers : UniqueIds(mem[m])
    /\ UniqueIds(file.held)
    /\ RestartFindsMemory

\* What loads is in the file.
LEMMA LoadedType ==
    ASSUME CredentialTypes
    PROVE  Loaded \subseteq Credential /\ Loaded \subseteq file.held
BY DEF CredentialTypes, Loaded, File

\* No manager runs at first.
LEMMA CredentialsStart == CredentialInit => CredentialsInv
<1> SUFFICES ASSUME CredentialInit PROVE CredentialsInv
  OBVIOUS
<1>1. CredentialTypes
  <2>1. Absent \in File
    BY DEF Absent, File
  <2>2. 1 \in 1..(MaxId + 1)
    BY CredentialAssumption DEF CredentialAssumption
  <2>3. {} \in SUBSET Credential
    OBVIOUS
  <2> HIDE DEF CredentialInit
  <2> QED
    BY <2>1, <2>2, <2>3 DEF CredentialInit, CredentialTypes
<1>2. \A m \in Managers : UniqueIds(mem[m])
  BY DEF CredentialInit, UniqueIds
<1>3. UniqueIds(file.held)
  BY DEF CredentialInit, UniqueIds, Absent
<1>4. RestartFindsMemory
  BY DEF CredentialInit, RestartFindsMemory
<1> QED
  BY <1>1, <1>2, <1>3, <1>4 DEF CredentialsInv

\* A credential put in place of those of its reference leaves references unique.
LEMMA ReplacingUnique ==
    ASSUME NEW held \in SUBSET Credential, NEW c \in Credential, UniqueIds(held)
    PROVE  Replacing(held, c) \in SUBSET Credential /\ UniqueIds(Replacing(held, c))
BY DEF Replacing, UniqueIds

\* A change of the memory of a manager that then saves.
LEMMA ChangeKeeps ==
    ASSUME CredentialsInv, NEW m \in Managers, BeginSave(m),
           NEW held \in SUBSET Credential, UniqueIds(held),
           mem' = [mem EXCEPT ![m] = held],
           nextId' \in [Managers -> 1..(MaxId + 1)], UNCHANGED <<file, fault, writer>>
    PROVE  CredentialsInv'
<1>1. CredentialTypes'
  BY DEF CredentialsInv, CredentialTypes, BeginSave
<1>2. \A x \in Managers : UniqueIds(mem'[x])
  BY DEF CredentialsInv, CredentialTypes
<1>3. UniqueIds(file'.held)
  BY DEF CredentialsInv
<1>4. RestartFindsMemory'
  BY DEF CredentialsInv, CredentialTypes, RestartFindsMemory, BeginSave, Loaded
<1> QED
  BY <1>1, <1>2, <1>3, <1>4 DEF CredentialsInv, UniqueIds

\* put(), remove(), clear() and flush() keep the invariant.
LEMMA OperationsKeep ==
    ASSUME CredentialsInv, NEW m \in Managers,
           PutNew(m) \/ PutAgain(m) \/ Remove(m) \/ Clear(m) \/ Flush(m)
    PROVE  CredentialsInv'
<1>0. mem[m] \in SUBSET Credential /\ UniqueIds(mem[m])
  BY DEF CredentialsInv, CredentialTypes
<1>1. CASE PutNew(m)
  <2>1. PICK d \in Data : mem' = [mem EXCEPT ![m] = Replacing(mem[m], [id |-> nextId[m], data |-> d])]
    BY <1>1 DEF PutNew
  <2>2. [id |-> nextId[m], data |-> d] \in Credential
    BY <1>1 DEF PutNew, Credential
  <2>3. nextId' \in [Managers -> 1..(MaxId + 1)]
    BY <1>1, CredentialAssumption DEF PutNew, CredentialsInv, CredentialTypes, Ids, CredentialAssumption
  <2> QED
    BY <1>0, <1>1, <2>1, <2>2, <2>3, ReplacingUnique, ChangeKeeps DEF PutNew
<1>2. CASE PutAgain(m)
  <2>1. PICK o \in mem[m], d \in Data :
          mem' = [mem EXCEPT ![m] = Replacing(mem[m], [o EXCEPT !.data = d])]
    BY <1>2 DEF PutAgain
  <2>2. [o EXCEPT !.data = d] \in Credential
    BY <1>0, <2>1 DEF Credential
  <2>3. nextId' \in [Managers -> 1..(MaxId + 1)]
    BY <1>2 DEF PutAgain, CredentialsInv, CredentialTypes
  <2> QED
    BY <1>0, <1>2, <2>1, <2>2, <2>3, ReplacingUnique, ChangeKeeps DEF PutAgain
<1>3. CASE Remove(m)
  <2>1. PICK i \in Ids : mem' = [mem EXCEPT ![m] = {o \in mem[m] : o.id # i}]
    BY <1>3 DEF Remove
  <2>2. {o \in mem[m] : o.id # i} \in SUBSET Credential /\ UniqueIds({o \in mem[m] : o.id # i})
    BY <1>0 DEF UniqueIds
  <2>3. nextId' \in [Managers -> 1..(MaxId + 1)]
    BY <1>3 DEF Remove, CredentialsInv, CredentialTypes
  <2> QED
    BY <1>3, <2>1, <2>2, <2>3, ChangeKeeps DEF Remove
<1>4. CASE Clear(m)
  <2>1. {} \in SUBSET Credential /\ UniqueIds({})
    BY DEF UniqueIds
  <2>2. nextId' \in [Managers -> 1..(MaxId + 1)]
    BY <1>4 DEF Clear, CredentialsInv, CredentialTypes
  <2> QED
    BY <1>4, <2>1, <2>2, ChangeKeeps DEF Clear
<1>5. CASE Flush(m)
  <2>1. mem' = [mem EXCEPT ![m] = mem[m]] /\ nextId' \in [Managers -> 1..(MaxId + 1)]
    BY <1>5 DEF Flush, CredentialsInv, CredentialTypes
  <2> QED
    BY <1>0, <1>5, <2>1, ChangeKeeps DEF Flush
<1> QED
  BY <1>1, <1>2, <1>3, <1>4, <1>5

\* A load replaces the memory by what the file holds.
LEMMA LoadKeeps ==
    ASSUME CredentialsInv, NEW m \in Managers, Start(m) \/ Reload(m)
    PROVE  CredentialsInv'
<1>1. Loaded \in SUBSET Credential /\ UniqueIds(Loaded)
  BY LoadedType DEF CredentialsInv, UniqueIds
<1>2. mem' = [mem EXCEPT ![m] = Loaded] /\ UNCHANGED <<file, writer>>
  BY DEF Start, Reload
<1>3. CredentialTypes'
  <2>1. 1 \in 1..(MaxId + 1)
    BY CredentialAssumption DEF CredentialAssumption
  <2> QED
    BY <1>1, <2>1 DEF CredentialsInv, CredentialTypes, Start, Reload
<1>4. \A x \in Managers : UniqueIds(mem'[x])
  BY <1>1, <1>2 DEF CredentialsInv, CredentialTypes
<1>5. UniqueIds(file'.held)
  BY <1>2 DEF CredentialsInv
<1>6. RestartFindsMemory'
  <2> SUFFICES ASSUME NEW x \in Managers, pc'[x] = "ready", writer' = x, fault'[x] = "none"
               PROVE  Loaded' = mem'[x]
    BY DEF RestartFindsMemory
  <2>1. Loaded' = Loaded
    BY <1>2 DEF Loaded
  <2>2. CASE x = m
    BY <1>2, <2>1, <2>2 DEF CredentialsInv, CredentialTypes
  <2>3. CASE x # m
    BY <1>2, <2>1, <2>3 DEF CredentialsInv, CredentialTypes, RestartFindsMemory, Start, Reload
  <2> QED
    BY <2>2, <2>3
<1> QED
  BY <1>3, <1>4, <1>5, <1>6 DEF CredentialsInv, UniqueIds

\* Whatever becomes of a save, the file holds a memory or does not parse.
LEMMA SaveKeeps ==
    ASSUME CredentialsInv, NEW m \in Managers,
           OpenFile(m) \/ OpenFails(m) \/ Write(m) \/ WriteOver(m) \/ WriteShort(m) \/ Crash(m)
    PROVE  CredentialsInv'
<1>1. UNCHANGED <<mem, nextId>> /\ file' \in {file, Truncated, Torn, Whole(mem[m])}
  BY DEF OpenFile, OpenFails, Write, WriteOver, WriteShort, Crash, Ends
<1>2. file' \in File /\ UniqueIds(file'.held)
  BY <1>1 DEF CredentialsInv, CredentialTypes, File, Truncated, Torn, Whole, UniqueIds
<1>3. pc' \in [Managers -> {"down", "ready", "opening", "writing"}]
      /\ fault' \in [Managers -> {"none", "thrown", "damaged"}]
      /\ writer' \in Managers \cup {NoManager}
  BY DEF CredentialsInv, CredentialTypes, OpenFile, OpenFails, Write, WriteOver, WriteShort, Crash, Ends
<1>4. RestartFindsMemory'
  <2> SUFFICES ASSUME NEW x \in Managers, pc'[x] = "ready", writer' = x, fault'[x] = "none"
               PROVE  Loaded' = mem'[x]
    BY DEF RestartFindsMemory
  <2> USE DEF CredentialsInv, CredentialTypes, RestartFindsMemory, Loaded, Ends
  <2>1. CASE OpenFile(m)
    BY <2>1 DEF OpenFile
  <2>2. CASE OpenFails(m)
    BY <2>2 DEF OpenFails
  <2>3. CASE Write(m)
    BY <2>3 DEF Write, Whole
  <2>4. CASE WriteOver(m)
    BY <2>4 DEF WriteOver
  <2>5. CASE WriteShort(m)
    BY <2>5 DEF WriteShort
  <2>6. CASE Crash(m)
    BY <2>6 DEF Crash
  <2> QED
    BY <2>1, <2>2, <2>3, <2>4, <2>5, <2>6
<1>5. CredentialTypes'
  BY <1>1, <1>2, <1>3 DEF CredentialsInv, CredentialTypes
<1> QED
  BY <1>1, <1>2, <1>4, <1>5 DEF CredentialsInv, UniqueIds

\* Every step keeps the invariant.
LEMMA CredentialsNext == CredentialsInv /\ [CredentialNext]_credentialVars => CredentialsInv'
<1>1. ASSUME CredentialsInv, NEW m \in Managers,
             Start(m) \/ Crash(m) \/ PutNew(m) \/ PutAgain(m) \/ Remove(m) \/ Clear(m)
               \/ Flush(m) \/ OpenFails(m) \/ OpenFile(m) \/ Write(m) \/ WriteOver(m)
               \/ WriteShort(m) \/ Reload(m)
      PROVE  CredentialsInv'
  BY <1>1, LoadKeeps, OperationsKeep, SaveKeeps
<1>2. CredentialsInv /\ UNCHANGED credentialVars => CredentialsInv'
  BY DEF credentialVars, CredentialsInv, CredentialTypes, UniqueIds, RestartFindsMemory, Loaded
<1> QED
  BY <1>1, <1>2 DEF CredentialNext

\* The inductive invariant holds of every state processes on one file reach.
THEOREM CredentialsInvariance == CredentialSpec => []CredentialsInv
BY CredentialsStart, CredentialsNext, PTL DEF CredentialSpec

\* A reference names one credential, in every memory and in the file.
THEOREM RefsStayUnique == CredentialSpec => []RefsAreUnique
<1>1. CredentialsInv => RefsAreUnique
  BY LoadedType DEF CredentialsInv, RefsAreUnique, UniqueIds
<1> QED
  BY <1>1, CredentialsInvariance, PTL

\* A restart of the manager that saved last finds what it held.
THEOREM SavedIsFound == CredentialSpec => []RestartFindsMemory
<1>1. CredentialsInv => RestartFindsMemory
  BY DEF CredentialsInv
<1> QED
  BY <1>1, CredentialsInvariance, PTL

-------------------------------------------------------------------------------
(* Positions of a sequence.                                                *)

\* The positions in a finite set of numbers are counted without a gap.
LEMMA NthExists ==
    ASSUME NEW m \in Nat, NEW S \in SUBSET (1..m)
    PROVE  /\ Cardinality(S) \in Nat
           /\ \A n \in 1..Cardinality(S) : Nth(S, n) \in S
           /\ \A i \in S : \E n \in 1..Cardinality(S) : Nth(S, n) = i
<1> DEFINE Upto(i) == {j \in S : j <= i}
           rank == [i \in S |-> Cardinality(Upto(i))]
           N == Cardinality(S)
<1>1. IsFiniteSet(S)
  <2>1. IsFiniteSet(1..m)
    BY FS_Interval
  <2> QED
    BY <2>1, FS_Subset
<1>2. N \in Nat
  BY <1>1, FS_CardinalityType
<1>3. \A i \in S : IsFiniteSet(Upto(i)) /\ Cardinality(Upto(i)) \in 1..N
  <2> SUFFICES ASSUME NEW i \in S
               PROVE  IsFiniteSet(Upto(i)) /\ Cardinality(Upto(i)) \in 1..N
    OBVIOUS
  <2>1. IsFiniteSet(Upto(i)) /\ Cardinality(Upto(i)) <= N
    BY <1>1, FS_Subset
  <2>2. Cardinality(Upto(i)) \in Nat
    BY <2>1, FS_CardinalityType
  <2>3. Upto(i) # {}
    OBVIOUS
  <2>4. Cardinality(Upto(i)) # 0
    BY <2>1, <2>3, FS_EmptySet
  <2> HIDE DEF Upto, N
  <2> QED
    BY <1>2, <2>1, <2>2, <2>4
<1>4. ASSUME NEW i \in S, NEW k \in S, i < k
      PROVE  Cardinality(Upto(i)) # Cardinality(Upto(k))
  <2>1. Upto(i) \in SUBSET Upto(k)
    <3>1. i \in Nat /\ k \in Nat
      OBVIOUS
    <3>2. ASSUME NEW j \in S, j <= i PROVE j <= k
      <4>1. j \in Nat
        OBVIOUS
      <4> QED
        BY <1>4, <3>1, <3>2, <4>1
    <3> QED
      BY <3>2
  <2>2. k \in Upto(k) /\ k \notin Upto(i)
    BY <1>4
  <2>3. IsFiniteSet(Upto(k))
    BY <1>3
  <2> HIDE DEF Upto
  <2> QED
    BY <2>1, <2>2, <2>3, FS_Subset
<1>5. rank \in [S -> 1..N] /\ \A i, k \in S : rank[i] = rank[k] => i = k
  <2>1. rank \in [S -> 1..N]
    <3> HIDE DEF Upto, N
    <3> QED BY <1>3
  <2>2. ASSUME NEW i \in S, NEW k \in S, rank[i] = rank[k] PROVE i = k
    <3>1. ~(i < k) /\ ~(k < i)
      <4> HIDE DEF Upto
      <4> QED BY <1>4, <2>2
    <3> QED
      BY <3>1
  <2> QED
    BY <2>1, <2>2
<1> HIDE DEF rank
<1>6. rank \in Injection(S, 1..N)
  BY <1>5, Fun_IsInj
<1>7. IsFiniteSet(1..N) /\ Cardinality(1..N) = N
  <2> HIDE DEF N
  <2> QED BY <1>2, FS_Interval
<1>8. rank \in Surjection(S, 1..N)
  BY <1>6, <1>7, FS_Injection
<1>9. \A n \in 1..N : \E i \in S : rank[i] = n
  BY <1>8, Fun_SurjectionProperties
<1>10. ASSUME NEW n \in 1..N PROVE Nth(S, n) \in S /\ rank[Nth(S, n)] = n
  <2>1. \E i \in S : Cardinality({j \in S : j <= i}) = n
    BY <1>9 DEF rank
  <2> QED
    BY <2>1 DEF Nth, rank
<1>11. ASSUME NEW i \in S PROVE \E n \in 1..N : Nth(S, n) = i
  <2>1. rank[i] \in 1..N
    BY <1>5
  <2> QED
    BY <1>5, <1>10, <2>1
<1> QED
  BY <1>2, <1>10, <1>11

\* removeKey leaves the keys of other ids, and nothing else.
LEMMA WithoutKeeps ==
    ASSUME NEW keys \in Seq(Keys), NEW id
    PROVE  /\ Without(keys, id) \in Seq(Keys)
           /\ \A n \in DOMAIN Without(keys, id) : \E i \in DOMAIN keys : Without(keys, id)[n] = keys[i]
           /\ \A i \in DOMAIN keys : keys[i].id # id =>
                 \E n \in DOMAIN Without(keys, id) : Without(keys, id)[n] = keys[i]
<1> DEFINE kept == {i \in DOMAIN keys : keys[i].id # id}
           left == [n \in 1..Cardinality(kept) |-> keys[Nth(kept, n)]]
<1>1. kept \in SUBSET (1..Len(keys)) /\ Len(keys) \in Nat /\ DOMAIN keys = 1..Len(keys)
  OBVIOUS
<1>2. Without(keys, id) = left
  BY DEF Without
<1>3. \A i \in kept : i \in DOMAIN keys /\ keys[i] \in Keys
  OBVIOUS
<1>4. \A i \in DOMAIN keys : keys[i].id # id => i \in kept
  OBVIOUS
<1> HIDE DEF kept
<1>5. /\ Cardinality(kept) \in Nat
      /\ \A n \in 1..Cardinality(kept) : Nth(kept, n) \in kept
      /\ \A i \in kept : \E n \in 1..Cardinality(kept) : Nth(kept, n) = i
  BY <1>1, NthExists
<1>6. left \in Seq(Keys) /\ DOMAIN left = 1..Cardinality(kept)
  BY <1>3, <1>5
<1>7. \A n \in 1..Cardinality(kept) : left[n] = keys[Nth(kept, n)]
  OBVIOUS
<1> HIDE DEF left
<1>8. \A n \in DOMAIN left : \E i \in DOMAIN keys : left[n] = keys[i]
  BY <1>3, <1>5, <1>6, <1>7
<1>9. \A i \in DOMAIN keys : keys[i].id # id => \E n \in DOMAIN left : left[n] = keys[i]
  BY <1>4, <1>5, <1>6, <1>7
<1> QED
  BY <1>2, <1>6, <1>8, <1>9

-------------------------------------------------------------------------------
(* What a change makes of a record.                                        *)

\* enableKey and disableKey change one key at most, and its switch only.
LEMMA SwitchedKeeps ==
    ASSUME NEW keys \in Seq(Keys), NEW id, NEW on \in BOOLEAN
    PROVE  /\ Switched(keys, id, on) \in Seq(Keys)
           /\ DOMAIN Switched(keys, id, on) = DOMAIN keys
           /\ \A i \in DOMAIN keys :
                 \/ Switched(keys, id, on)[i] = keys[i]
                 \/ /\ keys[i].id = id
                    /\ Switched(keys, id, on)[i] = [keys[i] EXCEPT !.enabled = on]
<1>1. DOMAIN keys = 1..Len(keys) /\ Len(keys) \in Nat
  OBVIOUS
<1>2. \A i \in DOMAIN keys : keys[i] \in Keys /\ [keys[i] EXCEPT !.enabled = on] \in Keys
  <2>1. \A k \in Keys : [k EXCEPT !.enabled = on] \in Keys
    BY DEF Keys
  <2>2. \A i \in DOMAIN keys : keys[i] \in Keys
    OBVIOUS
  <2> HIDE DEF Keys
  <2> QED
    BY <2>1, <2>2
<1>3. \A i \in DOMAIN keys :
         IF IsFirst(keys, i, id) THEN [keys[i] EXCEPT !.enabled = on] \in Keys ELSE keys[i] \in Keys
  BY <1>2
<1> HIDE DEF Keys
<1>4. Switched(keys, id, on) \in [1..Len(keys) -> Keys]
  BY <1>1, <1>3 DEF Switched
<1> QED
  BY <1>1, <1>4 DEF Switched, IsFirst

\* updateKey puts the new key in the place of one of its id, or at the end.
LEMMA ReplacedKeeps ==
    ASSUME NEW keys \in Seq(Keys), NEW key \in Keys
    PROVE  /\ Replaced(keys, key) \in Seq(Keys)
           /\ \A i \in DOMAIN Replaced(keys, key) :
                 \/ Replaced(keys, key)[i] = key
                 \/ i \in DOMAIN keys /\ Replaced(keys, key)[i] = keys[i]
           /\ \A i \in DOMAIN keys :
                 /\ i \in DOMAIN Replaced(keys, key)
                 /\ keys[i].id # key.id => Replaced(keys, key)[i] = keys[i]
<1>1. DOMAIN keys = 1..Len(keys) /\ Len(keys) \in Nat /\ \A i \in DOMAIN keys : keys[i] \in Keys
  OBVIOUS
<1>2. CASE \A i \in DOMAIN keys : keys[i].id # key.id
  <2>1. Replaced(keys, key) = Append(keys, key)
    BY <1>2 DEF Replaced
  <2> QED
    BY <1>1, <2>1
<1>3. CASE ~ \A i \in DOMAIN keys : keys[i].id # key.id
  <2>1. Replaced(keys, key) = [i \in DOMAIN keys |-> IF IsFirst(keys, i, key.id) THEN key ELSE keys[i]]
    BY <1>3 DEF Replaced
  <2>2. Replaced(keys, key) \in [1..Len(keys) -> Keys]
    BY <1>1, <2>1
  <2> QED
    BY <1>1, <2>1, <2>2 DEF IsFirst
<1> QED
  BY <1>2, <1>3

RecordChanges == {"enable", "disable", "setRoles", "addRole", "removeRole", "addKey", "updateKey",
                  "removeKey", "enableKey", "disableKey"}

\* The parts of a change.
LEMMA ChangeFacts ==
    ASSUME NEW c \in Changes \cup ProfileChanges
    PROVE  /\ c.op \in RecordChanges \cup {"save", "clear", "addUser", "removeUser", "setProfile"}
           /\ c.op \notin {"save", "clear"} => c.user \in Users
           /\ c.op = "addUser" => c.record \in Records
           /\ c.op = "setProfile" => c.enabled \in BOOLEAN
           /\ c.op = "setRoles" => c.roles \in SUBSET Roles
           /\ c.op \in {"addRole", "removeRole"} => c.role \in Roles
           /\ c.op \in {"addKey", "updateKey"} => c.key \in Keys
<1> HIDE DEF Records, Keys
<1>1. CASE c \in ProfileChanges
  BY <1>1 DEF ProfileChanges
<1>2. CASE c \in Changes
  BY <1>2 DEF Changes, RecordChanges
<1> QED
  BY <1>1, <1>2

KeyChanges == {"addKey", "updateKey", "removeKey", "enableKey", "disableKey"}

\* What a change makes of the keys of a record.
NewKeys(keys, c) ==
    CASE c.op = "addKey"     -> Append(keys, c.key)
      [] c.op = "updateKey"  -> Replaced(keys, c.key)
      [] c.op = "removeKey"  -> Without(keys, c.id)
      [] c.op = "enableKey"  -> Switched(keys, c.id, TRUE)
      [] c.op = "disableKey" -> Switched(keys, c.id, FALSE)
      [] OTHER               -> keys

NewEnabled(enabled, c) ==
    CASE c.op = "setProfile" -> c.enabled
      [] c.op = "enable"     -> TRUE
      [] c.op = "disable"    -> FALSE
      [] OTHER               -> enabled

NewRoles(roles, c) ==
    CASE c.op = "setRoles"   -> c.roles
      [] c.op = "addRole"    -> roles \cup {c.role}
      [] c.op = "removeRole" -> roles \ {c.role}
      [] OTHER               -> roles

\* A change of a record is a change of one of its parts.
LEMMA EditedIs ==
    ASSUME NEW r \in Records, NEW c, c.op \in RecordChanges \cup {"setProfile"}
    PROVE  Edited(r, c) = [enabled |-> NewEnabled(r.enabled, c), roles |-> NewRoles(r.roles, c),
                           keys |-> NewKeys(r.keys, c)]
<1>1. CASE c.op \in {"setProfile", "enable", "disable"}
  BY <1>1 DEF Edited, ProfileSet, NewKeys, NewEnabled, NewRoles, Records
<1>2. CASE c.op \in {"setRoles", "addRole", "removeRole"}
  BY <1>2 DEF Edited, NewKeys, NewEnabled, NewRoles, Records
<1>3. CASE c.op \in KeyChanges
  BY <1>3 DEF Edited, NewKeys, NewEnabled, NewRoles, Records, KeyChanges
<1> QED
  BY <1>1, <1>2, <1>3 DEF RecordChanges, KeyChanges

AnyMatches(keys, p, expired) == \E i \in DOMAIN keys : Matches(keys[i], p, expired)

\* A sequence of keys stays one; a password matches a key of it only because of the
\* change, and stops to only when the change is about a key that it matched.
LEMMA NewKeysFacts ==
    ASSUME NEW keys \in Seq(Keys), NEW c \in Changes \cup ProfileChanges, NEW p, NEW expired
    PROVE  /\ NewKeys(keys, c) \in Seq(Keys)
           /\ AnyMatches(NewKeys(keys, c), p, expired) =>
                 \/ AnyMatches(keys, p, expired)
                 \/ c.op = "enableKey"
                 \/ c.op \in {"addKey", "updateKey"} /\ c.key.secret = p
           /\ AnyMatches(keys, p, expired) =>
                 \/ AnyMatches(NewKeys(keys, c), p, expired)
                 \/ \E i \in DOMAIN keys :
                       /\ Matches(keys[i], p, expired)
                       /\ \/ c.op \in {"removeKey", "disableKey"} /\ keys[i].id = c.id
                          \/ c.op = "updateKey" /\ keys[i].id = c.key.id
<1>1. \A i \in DOMAIN keys : keys[i] \in Keys
  OBVIOUS
<1>2. \A k : Matches(k, p, expired) => k.secret = p
  BY DEF Matches
<1>3. \A k \in Keys : ~Matches([k EXCEPT !.enabled = FALSE], p, expired)
  BY DEF Matches, Keys
<1>4. \A k \in Keys : Matches(k, p, expired) => Matches([k EXCEPT !.enabled = TRUE], p, expired)
  BY DEF Matches, Keys
<1>5. CASE c.op = "addKey"
  <2>1. NewKeys(keys, c) = Append(keys, c.key) /\ c.key \in Keys
    BY <1>5, ChangeFacts DEF NewKeys
  <2>2. /\ Append(keys, c.key) \in Seq(Keys)
        /\ \A i \in DOMAIN Append(keys, c.key) :
              \/ Append(keys, c.key)[i] = c.key
              \/ i \in DOMAIN keys /\ Append(keys, c.key)[i] = keys[i]
        /\ \A i \in DOMAIN keys :
              i \in DOMAIN Append(keys, c.key) /\ Append(keys, c.key)[i] = keys[i]
    BY <2>1
  <2> QED
    BY <1>2, <1>5, <2>1, <2>2 DEF AnyMatches
<1>6. CASE c.op = "updateKey"
  <2>1. NewKeys(keys, c) = Replaced(keys, c.key) /\ c.key \in Keys
    BY <1>6, ChangeFacts DEF NewKeys
  <2> DEFINE key == c.key
             new == Replaced(keys, key)
  <2>2. /\ new \in Seq(Keys)
        /\ \A i \in DOMAIN new : new[i] = key \/ (i \in DOMAIN keys /\ new[i] = keys[i])
        /\ \A i \in DOMAIN keys : i \in DOMAIN new /\ (keys[i].id # key.id => new[i] = keys[i])
    <3>1. key \in Keys
      BY <2>1
    <3> HIDE DEF key
    <3> QED BY <3>1, ReplacedKeeps
  <2> HIDE DEF new
  <2>3. NewKeys(keys, c) = new
    BY <2>1 DEF new
  <2>4. AnyMatches(new, p, expired) => AnyMatches(keys, p, expired) \/ key.secret = p
    BY <1>2, <2>2 DEF AnyMatches
  <2>5. AnyMatches(keys, p, expired) =>
           \/ AnyMatches(new, p, expired)
           \/ \E i \in DOMAIN keys : Matches(keys[i], p, expired) /\ keys[i].id = key.id
    BY <2>2 DEF AnyMatches
  <2> QED
    BY <1>6, <2>2, <2>3, <2>4, <2>5
<1>7. CASE c.op = "removeKey"
  <2>1. NewKeys(keys, c) = Without(keys, c.id)
    BY <1>7 DEF NewKeys
  <2> QED
    BY <1>7, <2>1, WithoutKeeps DEF AnyMatches
<1>8. CASE c.op = "enableKey"
  <2> DEFINE on == TRUE
             new == Switched(keys, c.id, on)
  <2>1. NewKeys(keys, c) = new /\ on \in BOOLEAN
    BY <1>8 DEF NewKeys
  <2>2. /\ new \in Seq(Keys) /\ DOMAIN new = DOMAIN keys
        /\ \A i \in DOMAIN keys : new[i] = keys[i] \/ new[i] = [keys[i] EXCEPT !.enabled = on]
    <3> HIDE DEF on
    <3> QED BY <2>1, SwitchedKeeps
  <2>3. \A i \in DOMAIN keys : Matches(keys[i], p, expired) => Matches(new[i], p, expired)
    <3> HIDE DEF new
    <3> QED BY <1>1, <1>4, <2>2
  <2> HIDE DEF new
  <2> QED
    BY <1>8, <2>1, <2>2, <2>3 DEF AnyMatches
<1>9. CASE c.op = "disableKey"
  <2> DEFINE off == FALSE
             new == Switched(keys, c.id, off)
  <2>1. NewKeys(keys, c) = new /\ off \in BOOLEAN
    BY <1>9 DEF NewKeys
  <2>2. /\ new \in Seq(Keys) /\ DOMAIN new = DOMAIN keys
        /\ \A i \in DOMAIN keys :
              new[i] = keys[i] \/ (keys[i].id = c.id /\ new[i] = [keys[i] EXCEPT !.enabled = off])
    <3> HIDE DEF off
    <3> QED BY <2>1, SwitchedKeeps
  <2>3. \A i \in DOMAIN keys :
           \/ new[i] = keys[i]
           \/ keys[i].id = c.id /\ ~Matches(new[i], p, expired)
    <3> HIDE DEF new
    <3> QED BY <1>1, <1>3, <2>2
  <2> HIDE DEF new
  <2> QED
    BY <1>9, <2>1, <2>2, <2>3 DEF AnyMatches
<1>10. CASE c.op \notin KeyChanges
  <2>1. NewKeys(keys, c) = keys
    BY <1>10 DEF NewKeys, KeyChanges
  <2> QED
    BY <2>1
<1> QED
  BY <1>5, <1>6, <1>7, <1>8, <1>9, <1>10 DEF KeyChanges

\* A record that is changed stays a record.
LEMMA EditedType ==
    ASSUME NEW r \in Records, NEW c \in Changes \cup ProfileChanges,
           c.op \in RecordChanges \cup {"setProfile"}
    PROVE  Edited(r, c) \in Records
<1>1. r.enabled \in BOOLEAN /\ r.roles \in SUBSET Roles /\ r.keys \in Seq(Keys)
  BY DEF Records
<1>2. NewKeys(r.keys, c) \in Seq(Keys)
  BY <1>1, NewKeysFacts
<1>3. NewRoles(r.roles, c) \in SUBSET Roles
  BY <1>1, ChangeFacts DEF NewRoles
<1>4. NewEnabled(r.enabled, c) \in BOOLEAN
  <2>1. CASE c.op = "setProfile"
    BY <2>1, ChangeFacts DEF NewEnabled
  <2>2. CASE c.op # "setProfile"
    BY <1>1, <2>2 DEF NewEnabled
  <2> QED
    BY <2>1, <2>2
<1>5. Edited(r, c) = [enabled |-> NewEnabled(r.enabled, c), roles |-> NewRoles(r.roles, c),
                      keys |-> NewKeys(r.keys, c)]
  BY EditedIs
<1> QED
  BY <1>2, <1>3, <1>4, <1>5 DEF Records

\* A record accepts a password: it is enabled and one of its keys matches.
Accepts(r, p, expired) == r.enabled /\ AnyMatches(r.keys, p, expired)

\* The parts of a changed record that decide which passwords it accepts.
LEMMA EditedAccepts ==
    ASSUME NEW r \in Records, NEW c, c.op \in RecordChanges, NEW p, NEW expired
    PROVE  Accepts(Edited(r, c), p, expired) <=>
              NewEnabled(r.enabled, c) /\ AnyMatches(NewKeys(r.keys, c), p, expired)
<1>1. Edited(r, c) = [enabled |-> NewEnabled(r.enabled, c), roles |-> NewRoles(r.roles, c),
                      keys |-> NewKeys(r.keys, c)]
  BY EditedIs
<1>2. /\ Edited(r, c).enabled = NewEnabled(r.enabled, c)
      /\ Edited(r, c).keys = NewKeys(r.keys, c)
  BY <1>1
<1> QED
  BY <1>2, Zenon DEF Accepts

\* A changed record accepts what it did not before only when the change enables it or one
\* of its keys, or brings a key of that password.
LEMMA EditedGives ==
    ASSUME NEW r \in Records, NEW c \in Changes, c.op \in RecordChanges, NEW p, NEW expired,
           Accepts(Edited(r, c), p, expired), ~Accepts(r, p, expired)
    PROVE  \/ c.op \in {"enable", "enableKey"}
           \/ c.op \in {"addKey", "updateKey"} /\ c.key.secret = p
<1>1. r.enabled \in BOOLEAN /\ r.keys \in Seq(Keys)
  BY DEF Records
<1>2. NewEnabled(r.enabled, c) /\ AnyMatches(NewKeys(r.keys, c), p, expired)
  BY EditedAccepts
<1>3. c.op # "setProfile" /\ (c.op # "enable" => r.enabled)
  <2>1. c.op # "setProfile"
    BY DEF RecordChanges
  <2>2. CASE c.op = "disable"
    BY <1>2, <2>2 DEF NewEnabled
  <2>3. CASE c.op \notin {"enable", "disable"}
    <3>1. NewEnabled(r.enabled, c) = r.enabled
      BY <2>1, <2>3 DEF NewEnabled
    <3> QED
      BY <1>2, <2>1, <3>1, Zenon
  <2> QED
    BY <2>1, <2>2, <2>3
<1>4. c.op # "enable" => ~AnyMatches(r.keys, p, expired)
  BY <1>3 DEF Accepts
<1> QED
  BY <1>1, <1>2, <1>4, NewKeysFacts

\* It refuses what it accepted only when the change disables it or takes a key that matched.
LEMMA EditedTakes ==
    ASSUME NEW r \in Records, NEW c \in Changes, c.op \in RecordChanges, NEW p, NEW expired,
           Accepts(r, p, expired), ~Accepts(Edited(r, c), p, expired)
    PROVE  \/ c.op = "disable"
           \/ \E i \in DOMAIN r.keys :
                 /\ Matches(r.keys[i], p, expired)
                 /\ \/ c.op \in {"removeKey", "disableKey"} /\ r.keys[i].id = c.id
                    \/ c.op = "updateKey" /\ r.keys[i].id = c.key.id
<1>1. r.enabled /\ r.keys \in Seq(Keys) /\ AnyMatches(r.keys, p, expired)
  BY DEF Records, Accepts
<1>2. c.op = "disable" \/ NewEnabled(r.enabled, c)
  <2>1. c.op # "setProfile"
    BY DEF RecordChanges
  <2>2. CASE c.op = "enable"
    BY <2>2 DEF NewEnabled
  <2>3. CASE c.op \notin {"enable", "disable"}
    <3>1. NewEnabled(r.enabled, c) = r.enabled
      BY <2>1, <2>3 DEF NewEnabled
    <3> QED
      BY <1>1, <3>1, Zenon
  <2> QED
    BY <2>2, <2>3
<1>3. CASE NewEnabled(r.enabled, c)
  <2>1. ~AnyMatches(NewKeys(r.keys, c), p, expired)
    BY <1>3, EditedAccepts
  <2> QED
    BY <1>1, <2>1, NewKeysFacts
<1> QED
  BY <1>2, <1>3

-------------------------------------------------------------------------------
(* The inductive invariant.                                                *)

States == [up : BOOLEAN, users : Tables, dirty : BOOLEAN, job : Seq(Changes),
           doc : Tables \cup {Missing}]

\* What is left of a command is left in a process that runs.
JobsRun == \A s \in Stores : store[s].job # <<>> => store[s].up

\* A JsonRegistry has the node of every user that a store has in memory, or has lost it
\* to a user whose node was written over it.
JsonKeeps(k, st) ==
    /\ st.doc \in Tables
    /\ \A u \in Users : st.users[u] # None =>
          /\ st.doc[u] \in {None, st.users[u]}
          /\ Node[u] = u => st.doc[u] = st.users[u]
    /\ k = "json" => \A u \in Users : Node[u] = u => st.doc[u] = st.users[u]

JsonInMemory == IsJson(kind) => \A s \in Stores : store[s].up => JsonKeeps(kind, store[s])

\* A store that follows the file has all of it.
Follows(k, st) ==
    /\ k \in {"file", "volume"} => st.users = Read(disk)
    /\ k # "file" => Document(st) = Read(disk)

SyncedFollow == \A s \in synced : Follows(kind, store[s])

IInv ==
    /\ kind \in Kinds
    /\ disk \in Tables \cup {Missing, Broken}
    /\ store \in [Stores -> States]
    /\ synced \subseteq {s \in Stores : store[s].up}
    /\ calls \in 0..MaxCalls /\ faults \in 0..MaxFaults
    /\ JobsRun
    /\ JsonInMemory
    /\ SyncedFollow

-------------------------------------------------------------------------------
(* The types of tables, changes and plans.                                 *)

LEMMA NoUsersType == NoUsers \in Tables /\ \A u \in Users : NoUsers[u] = None
BY DEF NoUsers, Tables

LEMMA ReadType ==
    ASSUME NEW d \in Tables \cup {Missing, Broken}
    PROVE  /\ Read(d) \in Tables
           /\ StoreAssumption /\ d \in Tables => Read(d) = d
BY NoUsersType DEF Read, StoreAssumption

\* The entries of a table are records or missing.
LEMMA TableFacts ==
    ASSUME NEW t \in Tables, NEW u \in Users
    PROVE  t[u] \in Records \cup {None}
<1> HIDE DEF Records
<1> QED
  BY DEF Tables

LEMMA TableChanged ==
    ASSUME NEW t \in Tables, NEW u, NEW r \in Records \cup {None}
    PROVE  [t EXCEPT ![u] = r] \in Tables
<1> HIDE DEF Records
<1> QED
  BY DEF Tables

\* A plan may set the profile to what it is, which nothing but an update does.
Allowed(users, c) ==
    \/ c \in Changes
    \/ c \in ProfileChanges /\ c.enabled = users[c.user].enabled

LEMMA ChangedType ==
    ASSUME NEW users \in Tables, NEW c \in Changes \cup ProfileChanges, Possible(users, c)
    PROVE  Changed(users, c) \in Tables
<1> HIDE DEF Records, Tables
<1>1. CASE c.op = "save"
  BY <1>1 DEF Changed
<1>2. CASE c.op = "clear"
  BY <1>2, NoUsersType DEF Changed
<1>3. CASE c.op = "addUser"
  <2> DEFINE u == c.user
             r == c.record
  <2>1. r \in Records
    BY <1>3, ChangeFacts
  <2>2. Changed(users, c) = [users EXCEPT ![u] = r]
    BY <1>3 DEF Changed
  <2> HIDE DEF u, r
  <2>3. [users EXCEPT ![u] = r] \in Tables
    BY <2>1, TableChanged
  <2> QED
    BY <2>2, <2>3
<1>4. CASE c.op = "removeUser"
  <2> DEFINE u == c.user
             r == None
  <2>1. Changed(users, c) = [users EXCEPT ![u] = r] /\ r \in Records \cup {None}
    BY <1>4 DEF Changed
  <2> HIDE DEF u, r
  <2>2. [users EXCEPT ![u] = r] \in Tables
    BY <2>1, TableChanged
  <2> QED
    BY <2>1, <2>2
<1>5. CASE c.op \in RecordChanges \cup {"setProfile"}
  <2>1. c.user \in Users
    BY <1>5, ChangeFacts DEF RecordChanges
  <2>2. users[c.user] \in Records
    BY <1>5, <2>1, TableFacts DEF Possible, RecordChanges
  <2> DEFINE u == c.user
             r == Edited(users[u], c)
  <2>3. Changed(users, c) = [users EXCEPT ![u] = r]
    BY <1>5 DEF Changed, RecordChanges
  <2>4. r \in Records
    BY <1>5, <2>2, EditedType
  <2> HIDE DEF u, r
  <2>5. [users EXCEPT ![u] = r] \in Tables
    BY <2>4, TableChanged
  <2> QED
    BY <2>3, <2>5
<1> QED
  BY <1>1, <1>2, <1>3, <1>4, <1>5, ChangeFacts

\* What a change makes of one user.
LEMMA ChangedFacts ==
    ASSUME NEW users \in Tables, NEW c \in Changes \cup ProfileChanges, NEW u \in Users
    PROVE  /\ c.op = "save" => Changed(users, c) = users
           /\ c.op = "clear" => Changed(users, c) = NoUsers
           /\ c.op \notin {"save", "clear"} /\ c.user # u => Changed(users, c)[u] = users[u]
           /\ c.op = "addUser" /\ c.user = u => Changed(users, c)[u] = c.record
           /\ c.op = "removeUser" /\ c.user = u => Changed(users, c)[u] = None
           /\ c.op \in RecordChanges \cup {"setProfile"} /\ c.user = u =>
                 Changed(users, c)[u] = Edited(users[u], c)
<1>1. DOMAIN users = Users
  BY DEF Tables
<1>2. c.op = "save" => Changed(users, c) = users
  BY DEF Changed
<1>3. c.op = "clear" => Changed(users, c) = NoUsers
  BY DEF Changed
<1>4. CASE c.op = "addUser"
  BY <1>1, <1>4 DEF Changed, RecordChanges
<1>5. CASE c.op = "removeUser"
  BY <1>1, <1>5 DEF Changed, RecordChanges
<1>6. CASE c.op \in RecordChanges \cup {"setProfile"}
  <2>1. Changed(users, c) = [users EXCEPT ![c.user] = Edited(users[c.user], c)]
    BY <1>6 DEF Changed, RecordChanges
  <2> QED
    BY <1>1, <1>6, <2>1 DEF RecordChanges
<1> QED
  BY <1>2, <1>3, <1>4, <1>5, <1>6, ChangeFacts DEF RecordChanges

LEMMA KeyType ==
    ASSUME NEW id \in KeyIds, NEW p \in Secrets, NEW alg
    PROVE  PasswordKey(id, p, alg) \in Keys
<1>1. PasswordKey(id, p, alg).kind \in {"plain", "hash", "other"}
  BY DEF PasswordKey
<1> QED
  BY <1>1 DEF PasswordKey, Keys

\* The main keys are removed one after another, and one is added.
LEMMA MainKeyType ==
    ASSUME StoreAssumption, NEW u \in Users, NEW keys \in Seq(Keys), NEW p \in Secrets, NEW alg
    PROVE  MainKeyOnly(u, keys, p, alg) \in Seq(Changes)
<1> DEFINE mains == {i \in DOMAIN keys : keys[i].id = Main}
           removal == [op |-> "removeKey", user |-> u, id |-> Main]
           removals == [n \in 1..Cardinality(mains) |-> removal]
           addition == [op |-> "addKey", user |-> u, key |-> PasswordKey(Main, p, alg)]
<1>1. MainKeyOnly(u, keys, p, alg) = removals \o <<addition>>
  BY DEF MainKeyOnly
<1>2. Cardinality(mains) \in Nat
  <2>1. IsFiniteSet(1..Len(keys)) /\ mains \subseteq 1..Len(keys)
    <3>1. Len(keys) \in Nat /\ DOMAIN keys = 1..Len(keys)
      OBVIOUS
    <3> QED
      BY <3>1, FS_Interval
  <2>2. IsFiniteSet(mains)
    BY <2>1, FS_Subset
  <2> QED
    BY <2>2, FS_CardinalityType
<1>3. removal \in Changes
  BY DEF StoreAssumption, Changes
<1>4. addition \in Changes
  <2>1. PasswordKey(Main, p, alg) \in Keys
    BY KeyType DEF StoreAssumption
  <2> HIDE DEF Keys
  <2> QED
    BY <2>1 DEF Changes
<1> HIDE DEF removal, addition, mains
<1>5. removals \in Seq(Changes)
  BY <1>2, <1>3
<1>6. <<addition>> \in Seq(Changes)
  BY <1>4
<1> HIDE DEF removals
<1> QED
  BY <1>1, <1>5, <1>6

LEMMA PasswordType ==
    ASSUME NEW c, {c.option, c.argument, c.line} \subseteq Secrets
    PROVE  PasswordOf(c) \in Secrets
BY DEF PasswordOf, Secrets

\* A plan is a first change, which may set the profile as it is, and other changes.
LEMMA PlanFacts ==
    ASSUME StoreAssumption, NEW users \in Tables, NEW c \in Commands, Plan(users, c) # <<>>
    PROVE  /\ Allowed(users, Head(Plan(users, c)))
           /\ Tail(Plan(users, c)) \in Seq(Changes)
<1> DEFINE One(plan) == \E change \in Changes : plan = <<change>>
<1>1. IsCommand(c)
  BY DEF StoreAssumption
<1>2. ASSUME One(Plan(users, c))
      PROVE  Allowed(users, Head(Plan(users, c))) /\ Tail(Plan(users, c)) \in Seq(Changes)
  BY <1>2 DEF Allowed
<1>3. CASE c.cmd = "add"
  <2> DEFINE p == PasswordOf(c)
             roles == IF c.roles = None THEN {Operator} ELSE c.roles
             record == [enabled |-> TRUE, roles |-> roles, keys |-> <<PasswordKey(Main, p, c.alg)>>]
             change == [op |-> "addUser", user |-> c.user, record |-> record]
  <2>1. c.user \in Users /\ {c.option, c.argument, c.line} \subseteq Secrets
    BY <1>1, <1>3 DEF IsCommand
  <2>2. roles \in SUBSET Roles
    BY <1>1, <1>3 DEF IsCommand, StoreAssumption
  <2>3. Plan(users, c) = PlanAdd(users, c.user, p, c.alg, c.roles)
    BY <1>3 DEF Plan
  <2>4. Plan(users, c) = <<change>>
    BY <2>3 DEF PlanAdd
  <2>5. PasswordKey(Main, p, c.alg) \in Keys
    BY <2>1, PasswordType, KeyType DEF StoreAssumption
  <2>6. record \in Records
    <3> HIDE DEF roles, p
    <3> QED BY <2>2, <2>5 DEF Records
  <2>7. change \in Changes
    <3> HIDE DEF record
    <3> QED BY <2>1, <2>6 DEF Changes
  <2> HIDE DEF change
  <2> QED
    BY <1>2, <2>4, <2>7
<1>4. CASE c.cmd = "update"
  <2> DEFINE p == PasswordOf(c)
             u == c.user
             first == [op |-> "setProfile", user |-> u, enabled |-> users[u].enabled]
             change == [op |-> "setRoles", user |-> u, roles |-> c.roles]
             middle == IF c.roles = None THEN <<>> ELSE <<change>>
             rest == middle \o MainKeyOnly(u, users[u].keys, p, c.alg)
  <2>1. u \in Users /\ {c.option, c.argument, c.line} \subseteq Secrets
    BY <1>1, <1>4 DEF IsCommand
  <2>2. Plan(users, c) = PlanUpdate(users, u, p, c.alg, c.roles)
    BY <1>4 DEF Plan
  <2>3. users[u] # None /\ Plan(users, c) = <<first>> \o middle \o MainKeyOnly(u, users[u].keys, p, c.alg)
    BY <2>2 DEF PlanUpdate
  <2>4. users[u] \in Records
    BY <2>1, <2>3, TableFacts
  <2>5. users[u].enabled \in BOOLEAN /\ users[u].keys \in Seq(Keys)
    BY <2>4 DEF Records
  <2>6. MainKeyOnly(u, users[u].keys, p, c.alg) \in Seq(Changes)
    <3>1. p \in Secrets
      BY <2>1, PasswordType
    <3> HIDE DEF p, u
    <3> QED BY <2>1, <2>5, <3>1, MainKeyType
  <2>7. middle \in Seq(Changes)
    <3>1. CASE c.roles = None
      BY <3>1
    <3>2. CASE c.roles # None
      <4>1. c.roles \in SUBSET Roles
        BY <1>1, <1>4, <3>2 DEF IsCommand
      <4>2. change \in Changes
        BY <2>1, <4>1 DEF Changes
      <4> HIDE DEF change
      <4> QED
        BY <3>2, <4>2
    <3> QED
      BY <3>1, <3>2
  <2>8. rest \in Seq(Changes)
    <3> HIDE DEF middle
    <3> QED BY <2>6, <2>7
  <2>9. first \in ProfileChanges /\ first.enabled = users[first.user].enabled
    BY <2>1, <2>5 DEF ProfileChanges
  <2>10. Plan(users, c) = <<first>> \o rest
    <3> DEFINE end == MainKeyOnly(u, users[u].keys, p, c.alg)
    <3>1. middle \in Seq(Changes) /\ end \in Seq(Changes)
      BY <2>6, <2>7
    <3>2. Plan(users, c) = <<first>> \o middle \o end
      BY <2>3
    <3>3. rest = middle \o end
      OBVIOUS
    <3> HIDE DEF end, first, middle, rest
    <3> QED
      BY <3>1, <3>2, <3>3
  <2> HIDE DEF first, rest
  <2>11. Head(<<first>> \o rest) = first /\ Tail(<<first>> \o rest) = rest
    BY <2>8
  <2> QED
    BY <2>8, <2>9, <2>10, <2>11 DEF Allowed
<1>5. CASE c.cmd = "keyAdd"
  <2> DEFINE KeyAdded(key) == [op |-> "addKey", user |-> c.user, key |-> key]
  <2>1. c.user \in Users /\ c.id \in KeyIds /\ c.option \in Secrets
    BY <1>1, <1>5 DEF IsCommand
  <2>2. Plan(users, c) = PlanKeyAdd(users, c.user, c.id, c.type, c.option, c.alg)
    BY <1>5 DEF Plan
  <2>3. \A key \in Keys : KeyAdded(key) \in Changes
    BY <2>1 DEF Changes
  <2>4. \E key \in Keys : Plan(users, c) = <<KeyAdded(key)>>
    <3> DEFINE other == [PasswordKey(c.id, NoSecret, "plain") EXCEPT !.kind = "other"]
    <3>1. /\ PasswordKey(c.id, c.option, "plain") \in Keys
          /\ PasswordKey(c.id, c.option, c.alg) \in Keys
      BY <2>1, KeyType
    <3>2. other \in Keys
      BY <2>1 DEF PasswordKey, Keys, Secrets
    <3> HIDE DEF Keys
    <3>3. \/ Plan(users, c) = <<KeyAdded(other)>>
          \/ Plan(users, c) = <<KeyAdded(PasswordKey(c.id, c.option, "plain"))>>
          \/ Plan(users, c) = <<KeyAdded(PasswordKey(c.id, c.option, c.alg))>>
      BY <2>2 DEF PlanKeyAdd
    <3> HIDE DEF other, KeyAdded
    <3> QED
      BY <3>1, <3>2, <3>3
  <2> HIDE DEF KeyAdded
  <2> QED
    BY <1>2, <2>3, <2>4
<1>6. CASE c.cmd \in {"change", "call"}
  <2>1. c.change \in Changes
    BY <1>1, <1>6 DEF IsCommand
  <2>2. Plan(users, c) = <<c.change>>
    BY <1>6 DEF Plan
  <2> QED
    BY <1>2, <2>1, <2>2
<1> QED
  BY <1>1, <1>3, <1>4, <1>5, <1>6 DEF IsCommand

-------------------------------------------------------------------------------
(* A step of a command: one change, what is left of the plan, and how the  *)
(* write ended.                                                            *)

Made(s, c, rest, o) ==
    /\ store[s].up
    /\ Allowed(store[s].users, c) /\ Possible(store[s].users, c)
    /\ o \in Outcomes(kind, store[s], c)
    /\ store' = [store EXCEPT ![s] = After(kind, store[s], c, o, rest)]
    /\ disk' = DiskAfter(kind, store[s], c, o)
    /\ synced' = SyncedAfter(kind, s, o)
    /\ faults' = (IF o \in {"done", "none"} THEN faults ELSE faults + 1)
    /\ last' = [by |-> s, change |-> c, out |-> o]
    /\ UNCHANGED <<kind, late>>

\* A first and a later write of a command are such steps.
LEMMA CommandsMake ==
    ASSUME StoreAssumption, IInv, NEW s \in Stores, (\E c \in Commands : Ask(s, c)) \/ Continue(s)
    PROVE  /\ \E o : \E c \in Changes \cup ProfileChanges, rest \in Seq(Changes) : Made(s, c, rest, o)
           /\ calls' \in 0..MaxCalls
<1>1. store[s] \in States
  BY DEF IInv
<1>2. store[s].users \in Tables /\ store[s].job \in Seq(Changes)
  BY <1>1 DEF States
<1>3. ASSUME NEW plan, Apply(s, plan), store[s].up, Allowed(store[s].users, Head(plan)),
             Tail(plan) \in Seq(Changes)
      PROVE  \E o : \E c \in Changes \cup ProfileChanges, rest \in Seq(Changes) : Made(s, c, rest, o)
  <2>1. Head(plan) \in Changes \cup ProfileChanges
    BY <1>3 DEF Allowed
  <2>2. \E o : Made(s, Head(plan), Tail(plan), o)
    BY <1>3 DEF Apply, Made
  <2> QED
    BY <1>3, <2>1, <2>2
<1>4. CASE \E c \in Commands : Ask(s, c)
  <2> PICK c \in Commands : Ask(s, c)
    BY <1>4
  <2> DEFINE plan == Plan(store[s].users, c)
  <2>1. plan # <<>> /\ Apply(s, plan) /\ store[s].up /\ calls < MaxCalls /\ calls' = calls + 1
    BY DEF Ask
  <2>2. Allowed(store[s].users, Head(plan)) /\ Tail(plan) \in Seq(Changes)
    BY <1>2, <2>1, PlanFacts
  <2> HIDE DEF plan
  <2>3. \E o : \E d \in Changes \cup ProfileChanges, rest \in Seq(Changes) : Made(s, d, rest, o)
    BY <1>3, <2>1, <2>2
  <2>4. calls' \in 0..MaxCalls
    BY <2>1 DEF IInv, StoreAssumption
  <2> QED
    BY <2>3, <2>4
<1>5. CASE Continue(s)
  <2> DEFINE plan == store[s].job
  <2>1. plan # <<>> /\ Apply(s, plan) /\ calls' = calls
    BY <1>5 DEF Continue
  <2>2. store[s].up
    BY <2>1 DEF IInv, JobsRun
  <2>3. Head(plan) \in Changes /\ Tail(plan) \in Seq(Changes)
    BY <1>2, <2>1
  <2> HIDE DEF plan
  <2>4. \E o : \E d \in Changes \cup ProfileChanges, rest \in Seq(Changes) : Made(s, d, rest, o)
    BY <1>3, <2>1, <2>2, <2>3 DEF Allowed
  <2> QED
    BY <2>1, <2>4 DEF IInv
<1> QED
  BY <1>4, <1>5

\* What a registry holds is a table, before a write and after it.
LEMMA DocumentType ==
    ASSUME IInv, NEW st \in States
    PROVE  Document(st) \in Tables
<1>1. Read(disk) \in Tables
  BY ReadType DEF IInv
<1>2. st.doc \in Tables \cup {Missing}
  BY DEF States
<1> QED
  BY <1>1, <1>2 DEF Document

LEMMA SavedType ==
    ASSUME IInv, NEW st \in States, NEW k, NEW c \in Changes \cup ProfileChanges, Possible(st.users, c)
    PROVE  Saved(k, st, c) \in Tables
<1> DEFINE users == Changed(st.users, c)
           doc == Document(st)
<1> HIDE DEF Records
<1>1. st.users \in Tables
  BY DEF States
<1>2. users \in Tables /\ doc \in Tables
  BY <1>1, ChangedType, DocumentType
<1> HIDE DEF users, doc
<1>3. CASE k = "file"
  BY <1>2, <1>3 DEF Saved, users
<1>4. CASE k # "file" /\ c.op = "save"
  BY <1>2, <1>4 DEF Saved, doc
<1>5. CASE k # "file" /\ c.op = "clear"
  <2> DEFINE Gone(v) == st.users[v] # None \/ (IsJson(k) /\ st.users[Node[v]] # None)
  <2>1. Saved(k, st, c) = [v \in Users |-> IF Gone(v) THEN None ELSE doc[v]]
    BY <1>5 DEF Saved, doc
  <2> HIDE DEF Gone
  <2> QED
    BY <1>2, <2>1 DEF Tables
<1>6. CASE k # "file" /\ c.op \notin {"save", "clear"}
  <2>1. Saved(k, st, c) = NodeWritten(k, doc, c.user, users[c.user])
    BY <1>6 DEF Saved, doc, users
  <2>2. users[c.user] \in Records \cup {None}
    BY <1>2, <1>6, ChangeFacts, TableFacts
  <2> DEFINE u == c.user
             r == users[u]
  <2>3. Saved(k, st, c) =
          [v \in Users |-> IF v = u THEN r ELSE IF IsJson(k) /\ Node[v] = u THEN None ELSE doc[v]]
    BY <2>1 DEF NodeWritten
  <2>4. r \in Records \cup {None}
    BY <2>2
  <2> HIDE DEF u, r
  <2>5. \A v \in Users : doc[v] \in Records \cup {None}
    BY <1>2, TableFacts
  <2> QED
    BY <2>3, <2>4, <2>5 DEF Tables
<1> QED
  BY <1>3, <1>4, <1>5, <1>6

\* What a write leaves in the file.
LEMMA DiskType ==
    ASSUME IInv, NEW st \in States, NEW c \in Changes \cup ProfileChanges, Possible(st.users, c),
           NEW o
    PROVE  DiskAfter(kind, st, c, o) \in Tables \cup {Missing, Broken}
<1>1. Saved(kind, st, c) \in Tables
  BY SavedType
<1> QED
  BY <1>1, NoUsersType DEF DiskAfter, IInv

\* What a change leaves in memory.
LEMMA AfterFacts ==
    ASSUME IInv, NEW st \in States, NEW k, NEW c \in Changes \cup ProfileChanges, Possible(st.users, c),
           NEW o, NEW rest \in Seq(Changes)
    PROVE  /\ After(k, st, c, o, rest) \in States
           /\ After(k, st, c, o, rest).up
           /\ After(k, st, c, o, rest).users = Changed(st.users, c)
           /\ After(k, st, c, o, rest).doc = Saved(k, st, c)
              \/ (k = "volume" /\ NoContainer(st) /\ o # "done" /\ After(k, st, c, o, rest).doc = Missing)
<1> DEFINE users == Changed(st.users, c)
           doc == IF k = "volume" /\ NoContainer(st) /\ o \in {"refused", "cut", "none"} THEN Missing
                  ELSE Saved(k, st, c)
           marked == k = "volume" /\ Thrown(o) /\ ~(NoContainer(st) /\ o # "emptied")
           job == IF Thrown(o) THEN <<>> ELSE rest
           up == TRUE
           new == [up |-> up, users |-> users, doc |-> doc, dirty |-> marked, job |-> job]
<1>1. After(k, st, c, o, rest) = new
  BY DEF After
<1>2. users \in Tables
  BY ChangedType DEF States
<1>3. doc \in Tables \cup {Missing}
  BY SavedType
<1>4. job \in Seq(Changes)
  OBVIOUS
<1>5. marked \in BOOLEAN /\ up \in BOOLEAN /\ up
  BY DEF Thrown, NoContainer
<1>6. doc = Saved(k, st, c) \/ (k = "volume" /\ NoContainer(st) /\ o # "done" /\ doc = Missing)
  OBVIOUS
<1> HIDE DEF users, doc, marked, job, up
<1>7. new \in States
  BY <1>2, <1>3, <1>4, <1>5 DEF States
<1> QED
  BY <1>1, <1>5, <1>6, <1>7 DEF users

-------------------------------------------------------------------------------
(* Steps preserve the invariant.                                           *)

\* A JsonRegistry keeps the nodes of the users that stay.
LEMMA JsonChanged ==
    ASSUME StoreAssumption, NEW k, IsJson(k), NEW st \in States, JsonKeeps(k, st),
           NEW c \in Changes \cup ProfileChanges, Possible(st.users, c),
           NEW new, new.users = Changed(st.users, c), new.doc = Saved(k, st, c),
           Saved(k, st, c) \in Tables
    PROVE  JsonKeeps(k, new)
<1> DEFINE users == Changed(st.users, c)
           saved == Saved(k, st, c)
<1>1. Document(st) = st.doc /\ k # "file"
  BY DEF Document, JsonKeeps, StoreAssumption, IsJson
<1>2. st.users \in Tables
  BY DEF States
<1>3. CASE c.op = "save"
  <2>1. users = st.users /\ saved = st.doc
    BY <1>1, <1>3 DEF Changed, Saved
  <2> HIDE DEF users, saved
  <2> QED
    BY <2>1 DEF JsonKeeps, users, saved
<1>4. CASE c.op = "clear"
  <2>1. users = NoUsers
    BY <1>4 DEF Changed
  <2>2. \A u \in Users : saved[u] \in {None, st.doc[u]} /\ (st.users[u] # None => saved[u] = None)
    BY <1>1, <1>4 DEF Saved
  <2>3. \A u \in Users : users[u] = None
    BY <2>1, NoUsersType
  <2>4. k = "json" => \A u \in Users : Node[u] = u => saved[u] = None
    BY <2>2 DEF JsonKeeps
  <2> HIDE DEF users, saved
  <2> QED
    BY <2>3, <2>4 DEF JsonKeeps, users, saved
<1>5. CASE c.op \notin {"save", "clear"}
  <2> DEFINE v == c.user
  <2>1. v \in Users
    BY <1>5, ChangeFacts
  <2>2. saved = NodeWritten(k, st.doc, v, users[v])
    BY <1>1, <1>5 DEF Saved
  <2>3. \A u \in Users : saved[u] = IF u = v THEN users[u] ELSE IF Node[u] = v THEN None ELSE st.doc[u]
    BY <2>2 DEF NodeWritten
  <2>4. \A u \in Users : u # v => users[u] = st.users[u]
    BY <1>2, <1>5, ChangedFacts
  <2> HIDE DEF users, saved, v
  <2>5. \A u \in Users : users[u] # None =>
           saved[u] \in {None, users[u]} /\ (Node[u] = u => saved[u] = users[u])
    BY <2>3, <2>4 DEF JsonKeeps
  <2>6. k = "json" => \A u \in Users : Node[u] = u => saved[u] = users[u]
    BY <2>3, <2>4 DEF JsonKeeps
  <2> QED
    BY <2>5, <2>6 DEF JsonKeeps, users, saved
<1> QED
  BY <1>3, <1>4, <1>5

\* A registry on a volume that holds what is in memory holds it after a change as well.
LEMMA VolumeChanged ==
    ASSUME NEW st \in States, Document(st) = st.users, NEW c \in Changes \cup ProfileChanges,
           Possible(st.users, c)
    PROVE  Saved("volume", st, c) = Changed(st.users, c)
<1> DEFINE users == Changed(st.users, c)
           saved == Saved("volume", st, c)
<1>1. st.users \in Tables /\ ~IsJson("volume")
  BY DEF States, IsJson
<1>2. users \in Tables
  BY <1>1, ChangedType
<1>3. CASE c.op = "save"
  BY <1>3 DEF Changed, Saved
<1>4. CASE c.op = "clear"
  <2>1. saved = [v \in Users |-> IF st.users[v] # None THEN None ELSE st.users[v]]
    BY <1>1, <1>4 DEF Saved
  <2>2. saved = NoUsers
    BY <2>1 DEF NoUsers
  <2> QED
    BY <1>4, <2>2 DEF Changed
<1>5. CASE c.op \notin {"save", "clear"}
  <2> DEFINE u == c.user
  <2>1. saved = NodeWritten("volume", st.users, u, users[u])
    BY <1>5 DEF Saved
  <2>2. saved = [v \in Users |-> IF v = u THEN users[u] ELSE st.users[v]]
    BY <1>1, <2>1 DEF NodeWritten
  <2>3. \A v \in Users : v # u => users[v] = st.users[v]
    BY <1>1, <1>5, ChangedFacts
  <2>4. users = [v \in Users |-> users[v]]
    <3> HIDE DEF users
    <3> QED BY <1>2 DEF Tables
  <2> HIDE DEF users, saved, u
  <2> QED
    BY <2>2, <2>3, <2>4 DEF users, saved
<1> QED
  BY <1>3, <1>4, <1>5

LEMMA OutcomeFacts ==
    ASSUME NEW k, NEW st, NEW c, NEW o \in Outcomes(k, st, c)
    PROVE  /\ o \in {"none", "done", "refused", "cut", "lost", "emptied"}
           /\ o = "none" => k = "volume" /\ Saved(k, st, c) = Document(st)
           /\ o \in {"refused", "cut", "lost"} => faults # MaxFaults
           /\ o = "emptied" => faults < MaxFaults
BY DEF Outcomes, NeedsWrite

\* A store that wrote all it has follows the file, and one that did not write at all
\* follows it if it did before.
LEMMA MadeFollows ==
    ASSUME StoreAssumption, IInv, NEW s \in Stores, NEW c \in Changes \cup ProfileChanges,
           NEW rest \in Seq(Changes), NEW o, Made(s, c, rest, o)
    PROVE  SyncedFollow'
<1> DEFINE st == store[s]
           new == After(kind, st, c, o, rest)
           saved == Saved(kind, st, c)
<1>1. st \in States /\ DOMAIN store = Stores
  BY DEF IInv
<1>2. /\ Possible(st.users, c)
      /\ store' = [store EXCEPT ![s] = new]
      /\ disk' = DiskAfter(kind, st, c, o)
      /\ synced' = SyncedAfter(kind, s, o)
      /\ kind' = kind
  BY DEF Made
<1>3. saved \in Tables
  BY <1>1, <1>2, SavedType
<1>4. /\ new.users = Changed(st.users, c)
      /\ new.doc = saved \/ (kind = "volume" /\ NoContainer(st) /\ o # "done" /\ new.doc = Missing)
  BY <1>1, <1>2, AfterFacts
<1>5. /\ o \in {"none", "done", "refused", "cut", "lost", "emptied"}
      /\ o = "none" => kind = "volume" /\ saved = Document(st)
  BY OutcomeFacts DEF Made
<1>6. store'[s] = new /\ \A t \in Stores : t # s => store'[t] = store[t]
  <2> HIDE DEF new
  <2> QED BY <1>1, <1>2
<1>7. synced \subseteq Stores /\ kind \in {"file", "json", "volume", "rootless"} /\ Missing \notin Tables
  BY DEF IInv, StoreAssumption
<1>8. \A t \in synced : t # s /\ disk' = disk => Follows(kind, store[t])'
  BY <1>2, <1>6, <1>7 DEF IInv, SyncedFollow, Follows, Document
<1>9. CASE o = "done"
  <2>1. disk' = saved /\ Read(disk') = saved /\ new.doc = saved
    BY <1>2, <1>3, <1>4, <1>9, ReadType DEF DiskAfter
  <2>2. synced' \subseteq {s} /\ (kind = "volume" /\ s \in synced' => s \in synced)
    BY <1>2, <1>9 DEF SyncedAfter
  <2>3. kind = "file" => new.users = saved
    BY <1>4 DEF Saved
  <2>4. kind = "volume" /\ s \in synced => new.users = saved
    <3> SUFFICES ASSUME kind = "volume", s \in synced PROVE new.users = saved
      OBVIOUS
    <3>1. st.users = Read(disk) /\ Document(st) = Read(disk)
      BY DEF IInv, SyncedFollow, Follows
    <3>2. Document(st) = st.users
      BY <3>1
    <3>3. Saved("volume", st, c) = Changed(st.users, c)
      BY <1>1, <1>2, <3>2, VolumeChanged
    <3> QED
      BY <1>4, <3>3
  <2>5. s \in synced' => Follows(kind, store[s])'
    <3> HIDE DEF new, saved
    <3> QED BY <1>2, <1>3, <1>6, <1>7, <2>1, <2>2, <2>3, <2>4 DEF Follows, Document
  <2> QED
    BY <1>2, <2>2, <2>5 DEF SyncedFollow
<1>10. CASE o = "none"
  <2>1. disk' = disk /\ synced' = synced
    BY <1>2, <1>10 DEF DiskAfter, SyncedAfter
  <2>2. ASSUME s \in synced PROVE Follows(kind, store[s])'
    <3>1. kind = "volume" /\ st.users = Read(disk) /\ Document(st) = Read(disk)
      BY <1>5, <1>10, <2>2 DEF IInv, SyncedFollow, Follows
    <3>2. Saved("volume", st, c) = Changed(st.users, c)
      BY <1>1, <1>2, <3>1, VolumeChanged
    <3>3. new.users = Read(disk) /\ (new.doc = Read(disk) \/ new.doc = Missing)
      BY <1>4, <1>5, <1>10, <3>1, <3>2
    <3> HIDE DEF new
    <3> QED
      BY <1>2, <1>6, <2>1, <3>3 DEF Follows, Document
  <2> QED
    BY <1>2, <1>8, <2>1, <2>2 DEF SyncedFollow
<1>11. CASE o = "refused"
  <2>1. disk' = disk /\ synced' = synced \ {s}
    BY <1>2, <1>11 DEF DiskAfter, SyncedAfter
  <2> QED
    BY <1>2, <1>8, <2>1 DEF SyncedFollow
<1>12. CASE o \in {"cut", "lost", "emptied"}
  BY <1>2, <1>12 DEF SyncedAfter, SyncedFollow
<1> QED
  BY <1>5, <1>9, <1>10, <1>11, <1>12

LEMMA MadeInvariant ==
    ASSUME StoreAssumption, IInv, NEW s \in Stores, NEW c \in Changes \cup ProfileChanges,
           NEW rest \in Seq(Changes), NEW o, Made(s, c, rest, o), calls' \in 0..MaxCalls
    PROVE  IInv'
<1> DEFINE st == store[s]
           new == After(kind, st, c, o, rest)
<1>1. st \in States /\ DOMAIN store = Stores /\ store \in [Stores -> States]
  BY DEF IInv
<1>2. /\ Possible(st.users, c)
      /\ store' = [store EXCEPT ![s] = new]
      /\ disk' = DiskAfter(kind, st, c, o)
      /\ synced' = SyncedAfter(kind, s, o)
      /\ kind' = kind
      /\ st.up
  BY DEF Made
<1>3. new \in States /\ new.up
  BY <1>1, <1>2, AfterFacts
<1>4. store'[s] = new /\ (\A t \in Stores : t # s => store'[t] = store[t]) /\ store' \in [Stores -> States]
  <2> HIDE DEF new
  <2> QED BY <1>1, <1>2, <1>3
<1>5. disk' \in Tables \cup {Missing, Broken}
  BY <1>1, <1>2, DiskType
<1>6. \A t \in Stores : store[t].up => store'[t].up
  <2> HIDE DEF new
  <2> QED BY <1>3, <1>4, Zenon
<1>7. synced' \subseteq {t \in Stores : store'[t].up}
  <2>1. synced' \subseteq synced \cup {s}
    BY <1>2 DEF SyncedAfter
  <2>2. \A t \in synced \cup {s} : t \in Stores /\ store[t].up
    BY <1>2 DEF IInv
  <2> QED
    BY <1>6, <2>1, <2>2
<1>8. faults' \in 0..MaxFaults
  <2>1. faults \in 0..MaxFaults /\ MaxFaults \in Nat
    BY DEF IInv, StoreAssumption
  <2>2. o \in {"done", "none"} \/ faults < MaxFaults
    BY <2>1, OutcomeFacts DEF Made
  <2>3. faults' = IF o \in {"done", "none"} THEN faults ELSE faults + 1
    BY DEF Made
  <2> QED
    BY <2>1, <2>2, <2>3
<1>9. JobsRun'
  <2>1. \A t \in Stores : store'[t].job # <<>> => store'[t].up
    <3> HIDE DEF new
    <3> QED BY <1>3, <1>4, Zenon DEF IInv, JobsRun
  <2> QED
    BY <2>1 DEF JobsRun
<1>10. JsonInMemory'
  <2> SUFFICES ASSUME IsJson(kind), NEW t \in Stores, store'[t].up PROVE JsonKeeps(kind, store'[t])
    BY <1>2 DEF JsonInMemory, JsonKeeps, IsJson
  <2>1. CASE t = s
    <3>1. JsonKeeps(kind, st)
      BY <1>2 DEF IInv, JsonInMemory
    <3>2. Saved(kind, st, c) \in Tables
      BY <1>1, <1>2, SavedType
    <3>3. new.users = Changed(st.users, c) /\ new.doc = Saved(kind, st, c)
      BY <1>1, <1>2, AfterFacts DEF IsJson
    <3>4. JsonKeeps(kind, new)
      <4> HIDE DEF new, st
      <4> QED BY <1>1, <1>2, <3>1, <3>2, <3>3, JsonChanged
    <3> QED
      BY <1>4, <2>1, <3>4
  <2>2. CASE t # s
    BY <1>4, <2>2 DEF IInv, JsonInMemory
  <2> QED
    BY <2>1, <2>2
<1>11. SyncedFollow'
  BY MadeFollows
<1> QED
  BY <1>2, <1>4, <1>5, <1>7, <1>8, <1>9, <1>10, <1>11 DEF IInv

LEMMA OpenedFacts ==
    ASSUME StoreAssumption, IInv
    PROVE  /\ Opened(kind, disk) \in States /\ Opened(kind, disk).up
           /\ Opened(kind, disk).job = <<>>
           /\ Opened(kind, disk).users = Listed(kind, Read(disk))
           /\ Opened(kind, disk).doc = Read(disk)
              \/ (kind = "volume" /\ Opened(kind, disk).doc = Missing)
<1> DEFINE yes == TRUE
           no == FALSE
           users == Listed(kind, Read(disk))
           doc == IF kind = "volume" /\ disk \in {Missing, Broken} THEN Missing ELSE Read(disk)
           new == [up |-> yes, users |-> users, dirty |-> no, job |-> <<>>, doc |-> doc]
<1> HIDE DEF Records
<1>1. Read(disk) \in Tables
  BY ReadType DEF IInv
<1>2. \A u \in Users : Read(disk)[u] \in Records \cup {None}
  BY <1>1, TableFacts
<1>3. users \in Tables
  <2>1. CASE kind = "rootless"
    BY <2>1, NoUsersType DEF Listed
  <2>2. CASE kind = "json"
    BY <1>2, <2>2 DEF Listed, Tables
  <2>3. CASE kind \notin {"rootless", "json"}
    BY <1>1, <2>3 DEF Listed
  <2> QED
    BY <2>1, <2>2, <2>3
<1>4. doc \in Tables \cup {Missing} /\ (doc = Read(disk) \/ (kind = "volume" /\ doc = Missing))
  BY <1>1
<1>5. Opened(kind, disk) = new /\ yes /\ yes \in BOOLEAN /\ no \in BOOLEAN
  BY DEF Opened
<1> HIDE DEF yes, no, users, doc
<1>6. new \in States
  BY <1>3, <1>4, <1>5 DEF States
<1> QED
  BY <1>4, <1>5, <1>6 DEF users

\* A store that was loaded follows the file.
LEMMA OpenInvariant ==
    ASSUME StoreAssumption, IInv, NEW s \in Stores, Open(s)
    PROVE  IInv'
<1> DEFINE new == Opened(kind, disk)
<1>1. /\ store' = [store EXCEPT ![s] = new]
      /\ synced' = synced \cup {s}
      /\ kind' = kind /\ disk' = disk /\ calls' = calls /\ faults' = faults
  BY DEF Open
<1>2. /\ new \in States /\ new.up /\ new.job = <<>>
      /\ new.users = Listed(kind, Read(disk))
      /\ new.doc = Read(disk) \/ (kind = "volume" /\ new.doc = Missing)
  BY OpenedFacts
<1> HIDE DEF new
<1>3. store \in [Stores -> States]
  BY DEF IInv
<1>4. store'[s] = new /\ (\A t \in Stores : t # s => store'[t] = store[t]) /\ store' \in [Stores -> States]
  BY <1>1, <1>2, <1>3
<1>5. Read(disk) \in Tables /\ Missing \notin Tables
  BY ReadType DEF IInv, StoreAssumption
<1>6. \A t \in Stores : store[t].up => store'[t].up
  BY <1>2, <1>4, Zenon
<1>7. synced' \subseteq {t \in Stores : store'[t].up}
  <2>1. store'[s].up
    BY <1>2, <1>4, Zenon
  <2> QED
    BY <1>1, <1>6, <2>1 DEF IInv
<1>8. JobsRun'
  <2>1. \A t \in Stores : store'[t].job # <<>> => store'[t].up
    BY <1>2, <1>4, Zenon DEF IInv, JobsRun
  <2> QED
    BY <2>1 DEF JobsRun
<1>9. JsonInMemory'
  <2> SUFFICES ASSUME IsJson(kind), NEW t \in Stores, store'[t].up PROVE JsonKeeps(kind, store'[t])
    BY <1>1 DEF JsonInMemory, JsonKeeps, IsJson
  <2>1. CASE t = s
    <3>1. new.doc = Read(disk) /\ kind \in {"json", "rootless"}
      BY <1>2 DEF IsJson
    <3>2. \A u \in Users : new.users[u] # None => new.doc[u] = new.users[u]
      BY <1>2, <3>1, NoUsersType DEF Listed
    <3>3. kind = "json" => \A u \in Users : Node[u] = u => new.doc[u] = new.users[u]
      BY <1>2, <3>1 DEF Listed
    <3>4. new.doc \in Tables
      BY <1>5, <3>1
    <3>5. JsonKeeps(kind, new)
      BY <3>2, <3>3, <3>4 DEF JsonKeeps
    <3> QED
      BY <1>4, <2>1, <3>5
  <2>2. CASE t # s
    BY <1>4, <2>2 DEF IInv, JsonInMemory
  <2> QED
    BY <2>1, <2>2
<1>10. SyncedFollow'
  <2>1. \A t \in synced : t # s => Follows(kind, store[t])'
    BY <1>1, <1>4 DEF IInv, SyncedFollow, Follows, Document
  <2>2. kind \in {"file", "volume"} => new.users = Read(disk)
    BY <1>2 DEF Listed
  <2>3. Follows(kind, store[s])'
    BY <1>1, <1>2, <1>4, <1>5, <2>2 DEF Follows, Document
  <2> QED
    BY <1>1, <2>1, <2>3 DEF SyncedFollow
<1> QED
  BY <1>1, <1>4, <1>7, <1>8, <1>9, <1>10 DEF IInv

LEMMA ClosedFacts == Closed \in States /\ ~Closed.up /\ Closed.job = <<>>
<1> DEFINE no == FALSE
<1>1. Closed = [up |-> no, users |-> NoUsers, dirty |-> no, job |-> <<>>, doc |-> Missing]
      /\ no \in BOOLEAN /\ ~no
  BY DEF Closed
<1> HIDE DEF no
<1> QED
  BY <1>1, NoUsersType DEF States

LEMMA EndInvariant ==
    ASSUME IInv, NEW s \in Stores, End(s)
    PROVE  IInv'
<1>1. /\ store' = [store EXCEPT ![s] = Closed]
      /\ synced' = synced \ {s}
      /\ kind' = kind /\ disk' = disk /\ calls' = calls /\ faults' = faults
  BY DEF End
<1>2. store'[s] = Closed /\ (\A t \in Stores : t # s => store'[t] = store[t]) /\ store' \in [Stores -> States]
  BY <1>1, ClosedFacts DEF IInv
<1>3. \A t \in synced' : t \in synced /\ store'[t] = store[t]
  BY <1>1, <1>2 DEF IInv
<1>4. JobsRun'
  <2>1. \A t \in Stores : store'[t].job # <<>> => store'[t].up
    BY <1>2, ClosedFacts, Zenon DEF IInv, JobsRun
  <2> QED
    BY <2>1 DEF JobsRun
<1>5. JsonInMemory'
  <2> SUFFICES ASSUME IsJson(kind), NEW t \in Stores, store'[t].up PROVE JsonKeeps(kind, store'[t])
    BY <1>1 DEF JsonInMemory, JsonKeeps, IsJson
  <2>1. t # s
    BY <1>2, ClosedFacts, Zenon
  <2> QED
    BY <1>2, <2>1 DEF IInv, JsonInMemory
<1>6. SyncedFollow'
  BY <1>1, <1>3 DEF IInv, SyncedFollow, Follows, Document
<1> QED
  BY <1>1, <1>2, <1>3, <1>4, <1>5, <1>6 DEF IInv

LEMMA InitInvariant ==
    ASSUME StoreAssumption, Init
    PROVE  IInv
<1>1. \A s \in Stores : store[s] = Closed
  BY DEF Init
<1>2. store \in [Stores -> States]
  BY <1>1, ClosedFacts DEF Init
<1>3. JobsRun
  BY <1>1, ClosedFacts DEF JobsRun
<1>4. JsonInMemory
  <2> SUFFICES ASSUME NEW s \in Stores, store[s].up PROVE FALSE
    BY DEF JsonInMemory
  <2> QED
    BY <1>1, ClosedFacts, Zenon
<1> QED
  BY <1>2, <1>3, <1>4 DEF IInv, Init, SyncedFollow, StoreAssumption

LEMMA StepInvariant ==
    ASSUME StoreAssumption, IInv, [Next]_vars
    PROVE  IInv'
<1>1. ASSUME NEW s \in Stores, (\E c \in Commands : Ask(s, c)) \/ Continue(s)
      PROVE  IInv'
  BY <1>1, CommandsMake, MadeInvariant
<1>2. ASSUME NEW s \in Stores, Open(s) PROVE IInv'
  BY <1>2, OpenInvariant
<1>3. ASSUME NEW s \in Stores, End(s) PROVE IInv'
  BY <1>3, EndInvariant
<1>4. CASE Expire \/ UNCHANGED vars
  <2>1. UNCHANGED <<kind, disk, store, synced, calls, faults>>
    BY <1>4 DEF Expire, vars
  <2> QED
    BY <2>1 DEF IInv, JobsRun, JsonInMemory, JsonKeeps, SyncedFollow, Follows, Document
<1> QED
  BY <1>1, <1>2, <1>3, <1>4 DEF Next

LEMMA Invariance == ASSUME StoreAssumption PROVE Spec => []IInv
<1>1. Init => IInv
  BY InitInvariant
<1>2. IInv /\ [Next]_vars => IInv'
  BY StepInvariant
<1> QED
  BY <1>1, <1>2, PTL DEF Spec

LEMMA InvFollows ==
    ASSUME StoreAssumption, IInv
    PROVE  TypeOK /\ DiskFollowsMemory
<1>1. TypeOK
  BY DEF IInv, TypeOK, States
<1>2. ASSUME NEW s \in synced, NEW u \in Users, ~Unlisted(u)
      PROVE  Listed(kind, Read(disk))[u] = store[s].users[u]
  <2>1. kind \in {"file", "json", "volume"} /\ (kind = "json" => Node[u] = u)
    BY <1>2 DEF Unlisted, IInv, StoreAssumption
  <2>2. s \in Stores /\ store[s].up /\ Follows(kind, store[s])
    BY DEF IInv, SyncedFollow
  <2>3. CASE kind \in {"file", "volume"}
    BY <2>2, <2>3 DEF Listed, Follows
  <2>4. CASE kind = "json"
    <3>1. JsonKeeps(kind, store[s])
      BY <2>2, <2>4 DEF IInv, JsonInMemory, IsJson
    <3>2. store[s].doc = Read(disk)
      BY <2>2, <2>4, <3>1 DEF Follows, Document, JsonKeeps, StoreAssumption
    <3> QED
      BY <2>1, <2>4, <3>1, <3>2 DEF Listed, JsonKeeps
  <2> QED
    BY <2>1, <2>3, <2>4
<1> QED
  BY <1>1, <1>2 DEF DiskFollowsMemory

\* Records stay well formed, and what a store would load again is what it has in memory,
\* while its last write went well and no other store has written since.
THEOREM MemoryIsLoaded == Spec => [](TypeOK /\ DiskFollowsMemory)
<1>1. IInv => TypeOK /\ DiskFollowsMemory
  BY StoresAreSane, InvFollows
<1> QED
  BY <1>1, StoresAreSane, Invariance, PTL

-------------------------------------------------------------------------------
(* Passwords come and go by changes that say so.                           *)

LEMMA VerifiesIs ==
    ASSUME NEW users, NEW u, NEW p, NEW expired
    PROVE  Verifies(users, u, p, expired) <=> users[u] # None /\ Accepts(users[u], p, expired)
BY Zenon DEF Verifies, Accepts, AnyMatches

\* What a store that follows the file writes of one user, compared with what is there.
LEMMA SavedOfUser ==
    ASSUME StoreAssumption, IInv, NEW s \in synced, NEW c \in Changes \cup ProfileChanges,
           Possible(store[s].users, c), NEW u \in Users
    PROVE  /\ c.op = "save" => Saved(kind, store[s], c)[u] = Read(disk)[u]
           /\ c.op = "clear" => Saved(kind, store[s], c)[u] \in {None, Read(disk)[u]}
           /\ c.op \notin {"save", "clear"} /\ c.user # u =>
                 \/ Saved(kind, store[s], c)[u] = Read(disk)[u]
                 \/ IsJson(kind) /\ Node[u] = c.user /\ Saved(kind, store[s], c)[u] = None
           /\ c.op \notin {"save", "clear"} /\ c.user = u =>
                 Saved(kind, store[s], c)[u] = Changed(store[s].users, c)[u]
           /\ \/ store[s].users[u] = Read(disk)[u]
              \/ IsJson(kind) /\ store[s].users[u] = None
              \/ IsJson(kind) /\ Read(disk)[u] = None /\ Node[u] # u
<1> DEFINE st == store[s]
           there == Read(disk)
           users == Changed(st.users, c)
           saved == Saved(kind, st, c)
<1>1. s \in Stores /\ st.up /\ st \in States /\ Follows(kind, st)
  BY DEF IInv, SyncedFollow
<1>2. st.users \in Tables /\ kind \in {"file", "json", "volume", "rootless"}
  BY <1>1 DEF States, IInv, StoreAssumption
<1>3. \/ st.users[u] = there[u]
      \/ IsJson(kind) /\ st.users[u] = None
      \/ IsJson(kind) /\ there[u] = None /\ Node[u] # u
  <2>1. CASE kind \in {"file", "volume"}
    BY <1>1, <2>1 DEF Follows
  <2>2. CASE IsJson(kind)
    <3>1. JsonKeeps(kind, st)
      BY <1>1, <2>2 DEF IInv, JsonInMemory
    <3>2. st.doc = there
      BY <1>1, <2>2, <3>1 DEF Follows, Document, JsonKeeps, StoreAssumption, IsJson
    <3> QED
      BY <2>2, <3>1, <3>2 DEF JsonKeeps
  <2> QED
    BY <1>2, <2>1, <2>2 DEF IsJson
<1>4. CASE kind = "file"
  <2>1. saved = users /\ st.users = there
    BY <1>1, <1>4 DEF Saved, Follows
  <2>2. c.op = "clear" => users[u] = None
    BY <1>2, ChangedFacts, NoUsersType
  <2>3. /\ c.op = "save" => users = st.users
        /\ c.op \notin {"save", "clear"} /\ c.user # u => users[u] = st.users[u]
    BY <1>2, ChangedFacts
  <2> HIDE DEF users, saved, there, st
  <2> QED
    BY <1>3, <2>1, <2>2, <2>3 DEF users, saved, there, st
<1>5. CASE kind # "file"
  <2>1. Document(st) = there
    BY <1>1, <1>5 DEF Follows
  <2>2. c.op = "save" => saved = there
    BY <1>5, <2>1 DEF Saved
  <2>3. c.op = "clear" => saved[u] \in {None, there[u]}
    BY <1>5, <2>1 DEF Saved
  <2>4. c.op \notin {"save", "clear"} => saved = NodeWritten(kind, there, c.user, users[c.user])
    BY <1>5, <2>1 DEF Saved
  <2> DEFINE v == c.user
             r == users[v]
  <2>5. NodeWritten(kind, there, v, r)[u] =
           IF u = v THEN r ELSE IF IsJson(kind) /\ Node[u] = v THEN None ELSE there[u]
    BY DEF NodeWritten
  <2>6. /\ c.op \notin {"save", "clear"} /\ v # u => saved[u] = there[u] \/ (IsJson(kind) /\ Node[u] = v /\ saved[u] = None)
        /\ c.op \notin {"save", "clear"} /\ v = u => saved[u] = users[u]
    <3> HIDE DEF users, saved, there, st
    <3> QED BY <2>4, <2>5
  <2> QED
    BY <1>3, <2>2, <2>3, <2>6
<1> QED
  BY <1>4, <1>5

\* What a change about u itself makes of its record in memory.
LEMMA OwnChange ==
    ASSUME IInv, NEW s \in Stores, NEW c \in Changes \cup ProfileChanges,
           Allowed(store[s].users, c), Possible(store[s].users, c),
           c.op \in RecordChanges \cup {"setProfile"}
    PROVE  /\ store[s].users[c.user] \in Records /\ store[s].users[c.user] # None
           /\ Changed(store[s].users, c)[c.user] = Edited(store[s].users[c.user], c)
           /\ \/ c \in Changes /\ c.op \in RecordChanges
              \/ Edited(store[s].users[c.user], c) = store[s].users[c.user]
<1> DEFINE users == store[s].users
           u == c.user
<1>1. users \in Tables /\ u \in Users
  BY ChangeFacts DEF IInv, States, RecordChanges
<1>2. users[u] # None
  BY DEF Possible, RecordChanges
<1>3. users[u] \in Records
  BY <1>1, <1>2, TableFacts
<1>4. Changed(users, c)[u] = Edited(users[u], c)
  BY <1>1, ChangedFacts
<1>5. CASE c \in Changes
  <2>1. c.op # "setProfile"
    BY <1>5 DEF Changes
  <2> QED
    BY <1>2, <1>3, <1>4, <1>5, <2>1
<1>6. CASE c \notin Changes
  <2>1. c.op = "setProfile" /\ c.enabled = users[u].enabled
    BY <1>6 DEF Allowed, ProfileChanges
  <2>2. [users[u] EXCEPT !.enabled = users[u].enabled] = users[u]
    BY <1>3 DEF Records
  <2>3. Edited(users[u], c) = users[u]
    BY <2>1, <2>2 DEF Edited, ProfileSet
  <2> QED
    BY <1>2, <1>3, <1>4, <2>3
<1> QED
  BY <1>5, <1>6

\* How the file differs after a write.
LEMMA WriteEnds ==
    ASSUME StoreAssumption, IInv, NEW s \in Stores, NEW c \in Changes \cup ProfileChanges,
           NEW rest \in Seq(Changes), NEW o, Made(s, c, rest, o)
    PROVE  /\ Written /\ last'.by = s /\ last'.change = c /\ last'.out = o /\ late' = late
           /\ \/ Read(disk') = Read(disk)
              \/ Read(disk') = NoUsers /\ o \in {"cut", "lost", "emptied"}
              \/ o = "done" /\ Read(disk') = Saved(kind, store[s], c)
<1> DEFINE st == store[s]
<1>1. st \in States
  BY DEF IInv
<1>2. Saved(kind, st, c) \in Tables
  BY <1>1, SavedType DEF Made
<1>3. o \in {"none", "done", "refused", "cut", "lost", "emptied"}
  BY OutcomeFacts DEF Made
<1>4. disk' = DiskAfter(kind, st, c, o)
  BY DEF Made
<1>5. Written /\ last'.by = s /\ last'.change = c /\ last'.out = o /\ late' = late
  <2>1. s # None
    BY DEF StoreAssumption
  <2> QED
    BY <2>1 DEF Made, Written
<1>6. CASE o = "done"
  <2>1. Read(disk') = Saved(kind, st, c)
    BY <1>2, <1>4, <1>6, ReadType DEF DiskAfter
  <2> QED
    BY <1>5, <1>6, <2>1
<1>7. CASE o \in {"cut", "lost", "emptied"}
  <2>1. disk' \in {NoUsers, Broken}
    BY <1>4, <1>7 DEF DiskAfter
  <2>2. Read(disk') = NoUsers
    BY <2>1 DEF Read
  <2> QED
    BY <1>5, <1>7, <2>2
<1>8. CASE o \in {"none", "refused"}
  <2>1. disk' = disk
    BY <1>4, <1>8 DEF DiskAfter
  <2> QED
    BY <1>5, <2>1
<1> QED
  BY <1>3, <1>6, <1>7, <1>8

\* A password that is accepted again was given, or came back with its user, or a store
\* wrote that did not follow.
LEMMA Gains ==
    ASSUME StoreAssumption, IInv, NEW s \in Stores, NEW c \in Changes \cup ProfileChanges,
           NEW rest \in Seq(Changes), NEW o, Made(s, c, rest, o), NEW u \in Users, NEW p,
           ~Verifies(Read(disk), u, p, late), Verifies(Read(disk'), u, p, late')
    PROVE  Written /\ (ByStale \/ Gives(last'.change, u, p) \/ Revives(last'.change, u, p))
<1> DEFINE users == store[s].users
           there == Read(disk)
           saved == Saved(kind, store[s], c)
<1>1. /\ Written /\ last'.by = s /\ last'.change = c /\ late' = late
      /\ Allowed(users, c) /\ Possible(users, c)
  BY WriteEnds DEF Made
<1>2. Read(disk') = saved
  <2>1. ~Verifies(NoUsers, u, p, late')
    BY NoUsersType DEF Verifies
  <2> QED
    BY <1>1, <2>1, WriteEnds
<1>3. SUFFICES ASSUME s \in synced PROVE Gives(c, u, p) \/ Revives(c, u, p)
  BY <1>1 DEF ByStale
<1>4. saved[u] # None /\ Accepts(saved[u], p, late) /\ ~(there[u] # None /\ Accepts(there[u], p, late))
  BY <1>1, <1>2, VerifiesIs
<1>5. saved[u] # there[u]
  BY <1>4
<1>6. c.op \notin {"save", "clear"} /\ c.user = u /\ saved[u] = Changed(users, c)[u]
  <2> HIDE DEF users, there, saved
  <2> QED BY <1>1, <1>3, <1>4, <1>5, SavedOfUser DEF users, there, saved
<1>7. users \in Tables
  BY DEF IInv, States
<1>8. CASE c.op = "addUser"
  <2>1. saved[u] = c.record
    BY <1>6, <1>7, <1>8, ChangedFacts
  <2>2. \E i \in DOMAIN c.record.keys : Matches(c.record.keys[i], p, late)
    BY <1>4, <2>1 DEF Accepts, AnyMatches
  <2> QED
    BY <1>6, <1>8, <2>2 DEF Gives, Matches
<1>9. CASE c.op = "removeUser"
  BY <1>4, <1>6, <1>7, <1>9, ChangedFacts
<1>10. CASE c.op \in RecordChanges \cup {"setProfile"}
  <2>1. /\ users[u] \in Records /\ users[u] # None
        /\ saved[u] = Edited(users[u], c)
        /\ (c \in Changes /\ c.op \in RecordChanges) \/ saved[u] = users[u]
    BY <1>1, <1>6, <1>10, OwnChange
  <2>2. CASE Accepts(users[u], p, late)
    <3>1. users[u] # there[u]
      BY <1>4, <2>1, <2>2
    <3>2. IsJson(kind) /\ Node[u] # u
      BY <1>1, <1>3, <2>1, <3>1, SavedOfUser
    <3>3. Verifies(users, u, p, late)
      BY <2>1, <2>2, VerifiesIs
    <3> QED
      BY <1>1, <1>6, <3>2, <3>3 DEF Revives
  <2>3. CASE ~Accepts(users[u], p, late)
    <3>1. c \in Changes /\ c.op \in RecordChanges
      BY <1>4, <2>1, <2>3
    <3> DEFINE r == users[u]
    <3>2. r \in Records /\ Accepts(Edited(r, c), p, late) /\ ~Accepts(r, p, late)
      BY <1>4, <2>1, <2>3
    <3> HIDE DEF r
    <3>3. c.op \in {"enable", "enableKey"} \/ (c.op \in {"addKey", "updateKey"} /\ c.key.secret = p)
      BY <3>1, <3>2, EditedGives
    <3> QED
      BY <1>6, <3>3 DEF Gives
  <2> QED
    BY <2>2, <2>3
<1> QED
  BY <1>6, <1>8, <1>9, <1>10, ChangeFacts

\* A password that is refused from now on was taken, or the file was not written whole.
LEMMA Losses ==
    ASSUME StoreAssumption, IInv, NEW s \in Stores, NEW c \in Changes \cup ProfileChanges,
           NEW rest \in Seq(Changes), NEW o, Made(s, c, rest, o), NEW u \in Users, NEW p,
           Verifies(Read(disk), u, p, late), ~Verifies(Read(disk'), u, p, late')
    PROVE  Written /\ (ByStale \/ last'.out \in {"cut", "lost", "emptied"} \/ Takes(last'.change, u, p))
<1> DEFINE users == store[s].users
           there == Read(disk)
           saved == Saved(kind, store[s], c)
<1>1. /\ Written /\ last'.by = s /\ last'.change = c /\ last'.out = o /\ late' = late
      /\ Allowed(users, c) /\ Possible(users, c)
  BY WriteEnds DEF Made
<1>2. SUFFICES ASSUME s \in synced, o \notin {"cut", "lost", "emptied"} PROVE Takes(c, u, p)
  BY <1>1 DEF ByStale
<1>3. Read(disk') = saved
  BY <1>1, <1>2, WriteEnds
<1>4. there[u] # None /\ Accepts(there[u], p, late) /\ ~(saved[u] # None /\ Accepts(saved[u], p, late))
  BY <1>1, <1>3, VerifiesIs
<1>5. there = disk
  <2>1. there # NoUsers
    BY <1>4, NoUsersType
  <2> QED
    BY <2>1 DEF Read
<1>6. saved[u] # there[u]
  BY <1>4
<1>7. users \in Tables
  BY DEF IInv, States
<1>8. CASE c.op = "save"
  BY <1>1, <1>2, <1>6, <1>8, SavedOfUser
<1>9. CASE c.op = "clear"
  BY <1>9 DEF Takes
<1>10. CASE c.op \notin {"save", "clear"} /\ c.user # u
  <2>1. IsJson(kind) /\ Node[u] = c.user
    <3> HIDE DEF users, there, saved
    <3> QED BY <1>1, <1>2, <1>6, <1>10, SavedOfUser DEF users, there, saved
  <2> QED
    BY <1>10, <2>1 DEF Takes
<1>11. CASE c.op \in {"addUser", "removeUser"} /\ c.user = u
  BY <1>11 DEF Takes
<1>12. CASE c.op \in RecordChanges \cup {"setProfile"} /\ c.user = u
  <2>1. saved[u] = Changed(users, c)[u]
    BY <1>1, <1>2, <1>12, SavedOfUser DEF RecordChanges
  <2>2. /\ users[u] \in Records /\ users[u] # None
        /\ saved[u] = Edited(users[u], c)
        /\ (c \in Changes /\ c.op \in RecordChanges) \/ saved[u] = users[u]
    BY <1>1, <1>12, <2>1, OwnChange
  <2>3. users[u] = there[u]
    BY <1>1, <1>2, <1>4, <2>2, SavedOfUser
  <2>4. c \in Changes /\ c.op \in RecordChanges
    BY <1>6, <2>2, <2>3
  <2> DEFINE r == disk[u]
  <2>5. saved[u] \in Records
    BY <2>2, <2>4, EditedType
  <2>6. None \notin Records
    BY DEF StoreAssumption
  <2>7. r \in Records /\ Accepts(r, p, late) /\ ~Accepts(Edited(r, c), p, late)
    BY <1>4, <1>5, <2>2, <2>3, <2>5, <2>6
  <2> HIDE DEF r
  <2>8. \/ c.op = "disable"
        \/ \E i \in DOMAIN r.keys :
              /\ Matches(r.keys[i], p, late)
              /\ \/ c.op \in {"removeKey", "disableKey"} /\ r.keys[i].id = c.id
                 \/ c.op = "updateKey" /\ r.keys[i].id = c.key.id
    BY <2>4, <2>7, EditedTakes
  <2> QED
    BY <1>12, <2>8 DEF Takes, r, RecordChanges
<1> QED
  BY <1>8, <1>9, <1>10, <1>11, <1>12, ChangeFacts

\* Keys that expire match less than before.
LEMMA ExpiryRefuses ==
    ASSUME NEW users, NEW u, NEW p, NEW late1, NEW late2, late1 => late2,
           Verifies(users, u, p, late2)
    PROVE  Verifies(users, u, p, late1)
BY Zenon DEF Verifies, Matches

\* A password that the file refuses is accepted again only by a change that gives it, and
\* one that it accepts is refused only by a change that takes it, by its expiry, or by a
\* file that was not written whole, unless a store writes that had not seen the last change.
THEOREM PasswordsAreKept == Spec => PasswordsChangeKnowingly
<1>1. ASSUME IInv, Next PROVE PasswordsChange
  <2>1. ASSUME NEW s \in Stores, (\E c \in Commands : Ask(s, c)) \/ Continue(s)
        PROVE  PasswordsChange
    <3>1. PICK o : \E c \in Changes \cup ProfileChanges, rest \in Seq(Changes) : Made(s, c, rest, o)
      BY <1>1, <2>1, StoresAreSane, CommandsMake
    <3>2. PICK c \in Changes \cup ProfileChanges, rest \in Seq(Changes) : Made(s, c, rest, o)
      BY <3>1
    <3> QED
      BY <1>1, <3>2, StoresAreSane, Gains, Losses DEF PasswordsChange
  <2>2. CASE \E s \in Stores : Open(s) \/ End(s)
    <3>1. disk' = disk /\ late' = late
      BY <2>2 DEF Open, End
    <3> QED
      BY <3>1 DEF PasswordsChange
  <2>3. CASE Expire
    <3>1. disk' = disk /\ late' # late /\ (late => late')
      BY <2>3 DEF Expire
    <3> QED
      BY <3>1, ExpiryRefuses DEF PasswordsChange
  <2> QED
    BY <1>1, <2>1, <2>2, <2>3 DEF Next
<1>2. IInv /\ [Next]_vars => [PasswordsChange]_vars
  BY <1>1
<1>3. Spec => [][PasswordsChange]_vars
  BY <1>2, StoresAreSane, Invariance, PTL DEF Spec
<1> QED
  BY <1>3 DEF PasswordsChangeKnowingly

-------------------------------------------------------------------------------
(* Places and documents                                                    *)

\* A place is at or under another when it begins with it, token for token.
LEMMA UnderIs ==
    ASSUME NEW f \in Seq(Tokens), NEW g \in Seq(Tokens)
    PROVE  IsAtOrUnder(f, g) <=> Len(f) <= Len(g) /\ \A i \in 1..Len(f) : f[i] = g[i]
<1> SUFFICES ASSUME Len(f) <= Len(g)
             PROVE  SubSeq(g, 1, Len(f)) = f <=> \A i \in 1..Len(f) : f[i] = g[i]
  BY DEF IsAtOrUnder
<1>1. /\ Len(f) \in Nat /\ Len(g) \in Nat
      /\ \A i \in 1..Len(g) : g[i] \in Tokens
  BY LenProperties, ElementOfSeq
<1>2. \A i \in 1..Len(f) : g[i] \in Tokens
  BY <1>1
<1>3. /\ SubSeq(g, 1, Len(f)) \in Seq(Tokens)
      /\ Len(SubSeq(g, 1, Len(f))) = IF 1 <= Len(f) THEN Len(f) - 1 + 1 ELSE 0
      /\ \A i \in 1..(Len(f) - 1 + 1) : SubSeq(g, 1, Len(f))[i] = g[1 + i - 1]
  BY <1>1, <1>2, SubSeqProperties
<1>4. /\ Len(SubSeq(g, 1, Len(f))) = Len(f)
      /\ \A i \in 1..Len(f) : SubSeq(g, 1, Len(f))[i] = g[i]
  BY <1>1, <1>3
<1>5. ASSUME \A i \in 1..Len(f) : f[i] = g[i] PROVE SubSeq(g, 1, Len(f)) = f
  BY <1>3, <1>4, <1>5, SeqEqual
<1> QED
  BY <1>4, <1>5

\* Every place is under the root and at itself, and what is under a place under another
\* is under the other.
LEMMA UnderProperties ==
    ASSUME NEW f \in Seq(Tokens)
    PROVE  /\ IsAtOrUnder(<<>>, f) /\ IsAtOrUnder(f, f)
           /\ IsAtOrUnder(f, <<>>) => f = <<>>
           /\ \A g, h \in Seq(Tokens) : IsAtOrUnder(f, g) /\ IsAtOrUnder(g, h) => IsAtOrUnder(f, h)
<1>1. <<>> \in Seq(Tokens) /\ Len(<<>>) = 0
  BY EmptySeq
<1>2. \A g \in Seq(Tokens) : Len(g) \in Nat
  BY LenProperties
<1>3. IsAtOrUnder(<<>>, f) /\ IsAtOrUnder(f, f)
  <2>1. IsAtOrUnder(f, f)
    BY <1>2, UnderIs
  <2>2. Len(<<>>) <= Len(f) /\ 1..Len(<<>>) = {}
    BY <1>1, <1>2
  <2> QED
    BY <1>1, <2>1, <2>2, UnderIs
<1>4. ASSUME IsAtOrUnder(f, <<>>) PROVE f = <<>>
  BY <1>1, <1>2, <1>4, EmptySeq DEF IsAtOrUnder
<1>5. ASSUME NEW g \in Seq(Tokens), NEW h \in Seq(Tokens), IsAtOrUnder(f, g), IsAtOrUnder(g, h)
      PROVE  IsAtOrUnder(f, h)
  <2>1. Len(f) <= Len(g) /\ Len(g) <= Len(h) /\ \A i \in 1..Len(f) : f[i] = g[i]
    BY <1>5, UnderIs
  <2>2. \A i \in 1..Len(g) : g[i] = h[i]
    BY <1>5, UnderIs
  <2>3. Len(f) \in Nat /\ Len(g) \in Nat /\ Len(h) \in Nat
    BY <1>2
  <2> QED
    BY <2>1, <2>2, <2>3, UnderIs
<1> QED
  BY <1>3, <1>4, <1>5

\* Of two places above one place, one is above the other.
LEMMA UnderBoth ==
    ASSUME NEW f \in Seq(Tokens), NEW g \in Seq(Tokens), NEW h \in Seq(Tokens),
           IsAtOrUnder(f, h), IsAtOrUnder(g, h)
    PROVE  IsAtOrUnder(f, g) \/ IsAtOrUnder(g, f)
<1>1. Len(f) \in Nat /\ Len(g) \in Nat /\ Len(h) \in Nat
  BY LenProperties
<1>2. Len(f) <= Len(h) /\ (\A i \in 1..Len(f) : f[i] = h[i])
  BY UnderIs
<1>3. Len(g) <= Len(h) /\ (\A i \in 1..Len(g) : g[i] = h[i])
  BY UnderIs
<1>4. CASE Len(f) <= Len(g)
  BY <1>1, <1>2, <1>3, <1>4, UnderIs
<1>5. CASE Len(g) <= Len(f)
  BY <1>1, <1>2, <1>3, <1>5, UnderIs
<1> QED
  BY <1>1, <1>4, <1>5

\* What is on the way to a place is above it.
LEMMA WayIs ==
    ASSUME NEW f \in Seq(Tokens)
    PROVE  /\ OnTheWayTo(f) \subseteq Seq(Tokens)
           /\ \A g \in Seq(Tokens) : g \in OnTheWayTo(f) <=> IsAtOrUnder(g, f) /\ ~IsAtOrUnder(f, g)
           /\ \A g \in OnTheWayTo(f) : Len(g) < Len(f)
           /\ f # <<>> => <<>> \in OnTheWayTo(f)
<1>1. Len(f) \in Nat /\ \A i \in 1..Len(f) : f[i] \in Tokens
  BY LenProperties, ElementOfSeq
<1>2. ASSUME NEW k \in 0..(Len(f) - 1)
      PROVE  SubSeq(f, 1, k) \in Seq(Tokens) /\ Len(SubSeq(f, 1, k)) = k
  <2>1. \A i \in 1..k : f[i] \in Tokens
    BY <1>1
  <2>2. /\ SubSeq(f, 1, k) \in Seq(Tokens)
        /\ Len(SubSeq(f, 1, k)) = IF 1 <= k THEN k - 1 + 1 ELSE 0
    BY <1>1, <2>1, SubSeqProperties
  <2> QED
    BY <1>1, <2>2
<1>3. OnTheWayTo(f) \subseteq Seq(Tokens) /\ \A g \in OnTheWayTo(f) : Len(g) < Len(f)
  BY <1>1, <1>2 DEF OnTheWayTo
<1>4. ASSUME NEW g \in OnTheWayTo(f)
      PROVE  IsAtOrUnder(g, f) /\ ~IsAtOrUnder(f, g)
  <2>1. PICK k \in 0..(Len(f) - 1) : g = SubSeq(f, 1, k)
    BY DEF OnTheWayTo
  <2>2. Len(g) = k
    BY <1>2, <2>1
  <2> QED
    BY <1>1, <2>1, <2>2 DEF IsAtOrUnder
<1>5. ASSUME NEW g \in Seq(Tokens), IsAtOrUnder(g, f), ~IsAtOrUnder(f, g)
      PROVE  g \in OnTheWayTo(f)
  <2>1. Len(g) \in Nat /\ Len(g) <= Len(f) /\ SubSeq(f, 1, Len(g)) = g
    BY <1>5, LenProperties DEF IsAtOrUnder
  <2>2. Len(g) # Len(f)
    <3> SUFFICES ASSUME Len(g) = Len(f) PROVE FALSE
      OBVIOUS
    <3>1. g = f
      BY <2>1, SubSeqFull
    <3> QED
      BY <1>5, <3>1
  <2>3. Len(g) \in 0..(Len(f) - 1)
    BY <1>1, <2>1, <2>2
  <2> QED
    BY <2>1, <2>3 DEF OnTheWayTo
<1>6. f # <<>> => <<>> \in OnTheWayTo(f)
  <2> <<>> \in Seq(Tokens)
    BY EmptySeq
  <2> QED
    BY <1>5, UnderProperties
<1> QED
  BY <1>3, <1>4, <1>5, <1>6

\* A place below another is the other and a rest.
LEMMA JoinIs ==
    ASSUME NEW f \in Seq(Tokens), NEW g \in Seq(Tokens)
    PROVE  /\ f \o g \in Seq(Tokens)
           /\ IsAtOrUnder(f, f \o g)
           /\ SubSeq(f \o g, Len(f) + 1, Len(f \o g)) = g
<1>1. /\ f \o g \in Seq(Tokens) /\ Len(f \o g) = Len(f) + Len(g)
      /\ \A i \in 1..(Len(f) + Len(g)) : (f \o g)[i] = IF i <= Len(f) THEN f[i] ELSE g[i - Len(f)]
      /\ Len(f) \in Nat /\ Len(g) \in Nat
  BY ConcatProperties, LenProperties
<1>2. IsAtOrUnder(f, f \o g)
  <2>1. \A i \in 1..Len(f) : f[i] = (f \o g)[i]
    BY <1>1
  <2>2. Len(f) <= Len(f \o g)
    BY <1>1
  <2> QED
    BY <1>1, <2>1, <2>2, UnderIs
<1> DEFINE h == f \o g
           s == SubSeq(h, Len(f) + 1, Len(h))
<1>3. \A i \in (Len(f) + 1)..Len(h) : h[i] \in Tokens
  BY <1>1, ElementOfSeq
<1>4. /\ s \in Seq(Tokens)
      /\ Len(s) = IF Len(f) + 1 <= Len(h) THEN Len(h) - (Len(f) + 1) + 1 ELSE 0
      /\ \A i \in 1..(Len(h) - (Len(f) + 1) + 1) : s[i] = h[Len(f) + 1 + i - 1]
  <2> HIDE DEF h
  <2> Len(f) + 1 \in Int /\ Len(h) \in Int
    BY <1>1, LenProperties DEF h
  <2> QED
    BY <1>3, SubSeqProperties
<1>5. Len(s) = Len(g) /\ \A i \in 1..Len(s) : s[i] = g[i]
  BY <1>1, <1>4
<1> HIDE DEF s, h
<1>6. s = g
  BY <1>4, <1>5, SeqEqual
<1> QED
  BY <1>1, <1>2, <1>6 DEF s, h

LEMMA SplitIs ==
    ASSUME NEW f \in Seq(Tokens), NEW h \in Seq(Tokens), IsAtOrUnder(f, h)
    PROVE  /\ SubSeq(h, Len(f) + 1, Len(h)) \in Seq(Tokens)
           /\ f \o SubSeq(h, Len(f) + 1, Len(h)) = h
<1>1. /\ Len(f) \in Nat /\ Len(h) \in Nat /\ Len(f) <= Len(h)
      /\ \A i \in 1..Len(h) : h[i] \in Tokens
      /\ SubSeq(h, 1, Len(f)) = f
  BY LenProperties, ElementOfSeq DEF IsAtOrUnder
<1>2. 1 \in 1..(Len(h) + 1) /\ Len(f) \in (1 - 1)..Len(h) /\ Len(h) \in Len(f)..Len(h)
  BY <1>1
<1>3. SubSeq(h, 1, Len(f)) \o SubSeq(h, Len(f) + 1, Len(h)) = SubSeq(h, 1, Len(h))
  BY <1>2, ConcatAdjacentSubSeq
<1>4. SubSeq(h, 1, Len(h)) = h
  BY SubSeqFull
<1>5. \A i \in (Len(f) + 1)..Len(h) : h[i] \in Tokens
  BY <1>1
<1>6. SubSeq(h, Len(f) + 1, Len(h)) \in Seq(Tokens)
  BY <1>1, <1>5, SubSeqProperties
<1> QED
  BY <1>1, <1>3, <1>4, <1>6

-------------------------------------------------------------------------------

HasPlaces(d) == DOMAIN d \subseteq Seq(Tokens)

\* What is put at a place is there, what is on the way to it is an object, and the rest
\* is as it was.
LEMMA PutIs ==
    ASSUME NEW d, HasPlaces(d), NEW sub, HasPlaces(sub), NEW f \in Seq(Tokens)
    PROVE  /\ HasPlaces(Put(d, f, sub))
           /\ \A g \in DOMAIN sub : f \o g \in DOMAIN Put(d, f, sub) /\ Put(d, f, sub)[f \o g] = sub[g]
           /\ \A h \in DOMAIN Put(d, f, sub) :
                 IsAtOrUnder(f, h) => SubSeq(h, Len(f) + 1, Len(h)) \in DOMAIN sub
           /\ \A h \in OnTheWayTo(f) : h \in DOMAIN Put(d, f, sub) /\ Put(d, f, sub)[h] = Obj
           /\ \A h \in Seq(Tokens) : ~IsAtOrUnder(f, h) /\ h \notin OnTheWayTo(f) =>
                 /\ h \in DOMAIN Put(d, f, sub) <=> h \in DOMAIN d
                 /\ h \in DOMAIN d => Put(d, f, sub)[h] = d[h]
<1> DEFINE way == OnTheWayTo(f)
           places == {g \in DOMAIN d : ~IsAtOrUnder(f, g)} \cup way \cup {f \o g : g \in DOMAIN sub}
           new == [g \in places |-> IF IsAtOrUnder(f, g) THEN sub[SubSeq(g, Len(f) + 1, Len(g))]
                                    ELSE IF g \in way THEN Obj ELSE d[g]]
<1>1. new = Put(d, f, sub)
  BY DEF Put
<1>2. DOMAIN new = places
  OBVIOUS
<1>3. \A g \in DOMAIN sub : /\ f \o g \in Seq(Tokens) /\ IsAtOrUnder(f, f \o g)
                            /\ SubSeq(f \o g, Len(f) + 1, Len(f \o g)) = g
  BY JoinIs DEF HasPlaces
<1>4. way \subseteq Seq(Tokens) /\ \A g \in way : ~IsAtOrUnder(f, g)
  BY WayIs
<1> HIDE DEF way
<1>5. places \subseteq Seq(Tokens)
  <2> DOMAIN d \subseteq Seq(Tokens)
    BY DEF HasPlaces
  <2> \A g \in DOMAIN sub : f \o g \in Seq(Tokens)
    BY <1>3
  <2> {f \o g : g \in DOMAIN sub} \subseteq Seq(Tokens)
    OBVIOUS
  <2> way \subseteq Seq(Tokens)
    BY <1>4
  <2> QED
    BY Zenon
<1>6. \A g \in DOMAIN sub : f \o g \in DOMAIN new /\ new[f \o g] = sub[g]
  BY <1>3
<1>7. \A h \in DOMAIN new : IsAtOrUnder(f, h) => SubSeq(h, Len(f) + 1, Len(h)) \in DOMAIN sub
  BY <1>3, <1>4
<1>8. \A h \in way : h \in DOMAIN new /\ new[h] = Obj
  BY <1>4
<1>9. \A h \in Seq(Tokens) : ~IsAtOrUnder(f, h) /\ h \notin way =>
         /\ h \in DOMAIN new <=> h \in DOMAIN d
         /\ h \in DOMAIN d => new[h] = d[h]
  BY <1>3
<1> HIDE DEF new, places
<1> QED
  BY <1>1, <1>2, <1>5, <1>6, <1>7, <1>8, <1>9 DEF way, HasPlaces

\* What is found at a place is what lies at it and under it.
LEMMA LocatedIs ==
    ASSUME NEW d, HasPlaces(d), NEW f \in Seq(Tokens)
    PROVE  /\ HasPlaces(Located(d, f))
           /\ \A g \in Seq(Tokens) : g \in DOMAIN Located(d, f) <=> f \o g \in DOMAIN d
           /\ \A g \in DOMAIN Located(d, f) : Located(d, f)[g] = d[f \o g]
           /\ Located(d, f) = [g \in DOMAIN Located(d, f) |-> d[f \o g]]
<1> DEFINE Below == {h \in DOMAIN d : IsAtOrUnder(f, h)}
           rests == {SubSeq(h, Len(f) + 1, Len(h)) : h \in Below}
<1>1. DOMAIN Located(d, f) = rests
  BY DEF Located
<1>2. Located(d, f) = [g \in rests |-> d[f \o g]]
  BY DEF Located
<1>3. rests \subseteq Seq(Tokens)
  BY SplitIs DEF HasPlaces
<1>4. ASSUME NEW g \in Seq(Tokens), g \in rests PROVE f \o g \in DOMAIN d
  BY <1>4, SplitIs DEF HasPlaces
<1>5. ASSUME NEW g \in Seq(Tokens), f \o g \in DOMAIN d PROVE g \in rests
  <2>1. f \o g \in Below /\ SubSeq(f \o g, Len(f) + 1, Len(f \o g)) = g
    BY <1>5, JoinIs
  <2> QED
    BY <2>1
<1> QED
  BY <1>1, <1>2, <1>3, <1>4, <1>5 DEF HasPlaces

\* What was put at a place is found there.
LEMMA PutIsFound ==
    ASSUME NEW d, HasPlaces(d), NEW sub, HasPlaces(sub), sub = [g \in DOMAIN sub |-> sub[g]],
           NEW f \in Seq(Tokens)
    PROVE  Located(Put(d, f, sub), f) = sub
<1> DEFINE new == Put(d, f, sub)
<1>1. HasPlaces(new)
  BY PutIs
<1>2. \A g \in DOMAIN sub : f \o g \in DOMAIN new /\ new[f \o g] = sub[g]
  BY PutIs
<1>3. \A h \in DOMAIN new : IsAtOrUnder(f, h) => SubSeq(h, Len(f) + 1, Len(h)) \in DOMAIN sub
  BY PutIs
<1> HIDE DEF new
<1>4. ASSUME NEW g \in DOMAIN Located(new, f) PROVE g \in DOMAIN sub
  <2>1. g \in Seq(Tokens) /\ f \o g \in DOMAIN new
    BY <1>1, LocatedIs DEF HasPlaces
  <2>2. IsAtOrUnder(f, f \o g) /\ SubSeq(f \o g, Len(f) + 1, Len(f \o g)) = g
    BY <2>1, JoinIs
  <2> QED
    BY <1>3, <2>1, <2>2
<1>5. ASSUME NEW g \in DOMAIN sub PROVE g \in DOMAIN Located(new, f)
  BY <1>1, <1>2, LocatedIs DEF HasPlaces
<1>6. DOMAIN Located(new, f) = DOMAIN sub
  BY <1>4, <1>5
<1>7. Located(new, f) = [g \in DOMAIN sub |-> new[f \o g]]
  BY <1>1, <1>6, LocatedIs
<1> QED
  BY <1>2, <1>7 DEF new

\* What is at a place that is neither above nor below the one that is written stays.
LEMMA PutElsewhere ==
    ASSUME NEW d, HasPlaces(d), NEW sub, HasPlaces(sub), NEW f \in Seq(Tokens), NEW g \in Seq(Tokens),
           ~IsAtOrUnder(f, g), ~IsAtOrUnder(g, f)
    PROVE  Located(Put(d, f, sub), g) = Located(d, g)
<1> DEFINE new == Put(d, f, sub)
<1>1. HasPlaces(new)
  BY PutIs
<1>2. ASSUME NEW h \in Seq(Tokens), IsAtOrUnder(g, h)
      PROVE  /\ h \in DOMAIN new <=> h \in DOMAIN d
             /\ h \in DOMAIN d => new[h] = d[h]
  <2>1. ~IsAtOrUnder(f, h)
    BY <1>2, UnderBoth
  <2>2. h \notin OnTheWayTo(f)
    BY <1>2, UnderProperties, WayIs
  <2> QED
    BY <2>1, <2>2, PutIs
<1> HIDE DEF new
<1>3. \A k \in Seq(Tokens) : /\ f \o k \in Seq(Tokens) /\ g \o k \in Seq(Tokens) /\ IsAtOrUnder(g, g \o k)
  BY JoinIs
<1>4. \A k \in Seq(Tokens) : k \in DOMAIN Located(new, g) <=> k \in DOMAIN Located(d, g)
  BY <1>1, <1>2, <1>3, LocatedIs
<1>5. DOMAIN Located(new, g) = DOMAIN Located(d, g)
  BY <1>1, <1>4, LocatedIs DEF HasPlaces
<1>6. \A k \in DOMAIN Located(d, g) : new[g \o k] = d[g \o k]
  <2> TAKE k \in DOMAIN Located(d, g)
  <2>1. k \in Seq(Tokens) /\ g \o k \in DOMAIN d
    BY LocatedIs DEF HasPlaces
  <2> QED
    BY <1>2, <1>3, <2>1
<1>7. Located(new, g) = [k \in DOMAIN Located(d, g) |-> new[g \o k]]
  BY <1>1, <1>5, LocatedIs
<1>8. Located(d, g) = [k \in DOMAIN Located(d, g) |-> d[g \o k]]
  BY LocatedIs
<1>9. [k \in DOMAIN Located(d, g) |-> new[g \o k]] = [k \in DOMAIN Located(d, g) |-> d[g \o k]]
  BY <1>6
<1> QED
  BY <1>7, <1>8, <1>9 DEF new

\* Where nothing lies at a place or under it nothing is found.
LEMMA LocatedNone ==
    ASSUME NEW d, NEW f, \A h \in DOMAIN d : ~IsAtOrUnder(f, h)
    PROVE  Located(d, f) = Nothing
<1>1. {SubSeq(h, Len(f) + 1, Len(h)) : h \in {h \in DOMAIN d : IsAtOrUnder(f, h)}} = {}
  OBVIOUS
<1>2. Located(d, f) = [g \in {} |-> d[f \o g]]
  BY <1>1 DEF Located
<1>3. [g \in {} |-> d[f \o g]] = [g \in {} |-> Obj]
  OBVIOUS
<1> QED
  BY <1>2, <1>3 DEF Nothing

\* Trees of one node.
LEMMA LeafIs ==
    ASSUME NEW v
    PROVE  /\ IsTree(Leaf(v)) /\ IsTree(EmptyObject)
           /\ HasPlaces(Leaf(v)) /\ HasPlaces(EmptyObject)
           /\ Leaf(v) = [g \in DOMAIN Leaf(v) |-> Leaf(v)[g]]
           /\ EmptyObject = [g \in DOMAIN EmptyObject |-> EmptyObject[g]]
           /\ DOMAIN Leaf(v) = {<<>>} /\ Leaf(v)[<<>>] = v
           /\ DOMAIN EmptyObject = {<<>>} /\ EmptyObject[<<>>] = Obj
<1>1. <<>> \in Seq(Tokens) /\ Len(<<>>) = 0
  BY EmptySeq
<1>2. OnTheWayTo(<<>>) = {}
  BY <1>1, WayIs, LenProperties
<1> QED
  BY <1>1, <1>2 DEF Leaf, EmptyObject, IsTree, HasPlaces

\* At the root is the whole document.
LEMMA RootIsFound ==
    ASSUME NEW v
    PROVE  Located(Leaf(v), <<>>) = Leaf(v)
<1>1. HasPlaces(Leaf(v)) /\ <<>> \in Seq(Tokens)
  BY LeafIs, EmptySeq
<1>2. \A g \in Seq(Tokens) : <<>> \o g = g
  BY ConcatEmptySeq
<1>3. \A g \in Seq(Tokens) : g \in DOMAIN Located(Leaf(v), <<>>) <=> g \in DOMAIN Leaf(v)
  <2> DEFINE d == Leaf(v)
  <2> HasPlaces(d)
    BY <1>1
  <2> HIDE DEF d
  <2>1. \A g \in Seq(Tokens) : g \in DOMAIN Located(d, <<>>) <=> <<>> \o g \in DOMAIN d
    BY <1>1, LocatedIs
  <2> QED
    BY <1>2, <2>1 DEF d
<1>4. DOMAIN Located(Leaf(v), <<>>) = {<<>>}
  BY <1>1, <1>3, LocatedIs, LeafIs DEF HasPlaces
<1>5. Located(Leaf(v), <<>>) = [g \in {<<>>} |-> Leaf(v)[<<>> \o g]]
  BY <1>1, <1>4, LocatedIs
<1>6. [g \in {<<>>} |-> Leaf(v)[<<>> \o g]] = [g \in {<<>>} |-> v]
  BY <1>1, <1>2, LeafIs
<1> QED
  BY <1>5, <1>6 DEF Leaf

\* A tree whose root is no object has nothing but the root.
LEMMA BareRoot ==
    ASSUME NEW d, IsTree(d)
    PROVE  /\ HasPlaces(d) /\ d # Nothing
           /\ IsObject(d) <=> d[<<>>] = Obj
           /\ ~IsObject(d) => DOMAIN d = {<<>>}
<1>1. d # Nothing
  BY DEF IsTree, Nothing
<1>2. ASSUME d[<<>>] # Obj, NEW f \in DOMAIN d PROVE f = <<>>
  BY <1>2, WayIs DEF IsTree
<1> QED
  BY <1>1, <1>2 DEF IsTree, HasPlaces, IsObject

\* A tree put into a tree makes a tree.
LEMMA PutIsTree ==
    ASSUME NEW d, IsTree(d), NEW sub, IsTree(sub), NEW f \in Seq(Tokens)
    PROVE  IsTree(Put(d, f, sub))
<1> DEFINE new == Put(d, f, sub)
<1>0. HasPlaces(d) /\ HasPlaces(sub) /\ <<>> \in DOMAIN d /\ <<>> \in DOMAIN sub /\ <<>> \in Seq(Tokens)
  BY EmptySeq DEF IsTree, HasPlaces
<1>1. HasPlaces(new)
  BY <1>0, PutIs
<1>2. \A g \in DOMAIN sub : f \o g \in DOMAIN new /\ new[f \o g] = sub[g]
  BY <1>0, PutIs
<1>3. \A h \in DOMAIN new : IsAtOrUnder(f, h) => SubSeq(h, Len(f) + 1, Len(h)) \in DOMAIN sub
  BY <1>0, PutIs
<1>4. \A h \in OnTheWayTo(f) : h \in DOMAIN new /\ new[h] = Obj
  BY <1>0, PutIs
<1>5. \A h \in Seq(Tokens) : ~IsAtOrUnder(f, h) /\ h \notin OnTheWayTo(f) =>
         /\ h \in DOMAIN new <=> h \in DOMAIN d
         /\ h \in DOMAIN d => new[h] = d[h]
  BY <1>0, PutIs
<1> HIDE DEF new
<1>6. <<>> \in DOMAIN new
  <2>1. CASE f = <<>>
    BY <1>0, <1>2, <2>1, ConcatEmptySeq
  <2>2. CASE f # <<>>
    BY <1>4, <2>2, WayIs
  <2> QED
    BY <2>1, <2>2
<1>7. ASSUME NEW h \in DOMAIN new, NEW g \in OnTheWayTo(h) PROVE g \in DOMAIN new /\ new[g] = Obj
  <2>1. h \in Seq(Tokens) /\ g \in Seq(Tokens) /\ IsAtOrUnder(g, h) /\ ~IsAtOrUnder(h, g)
    BY <1>1, <1>7, WayIs DEF HasPlaces
  <2>2. CASE g \in OnTheWayTo(f)
    BY <1>4, <2>2
  <2>3. CASE g \notin OnTheWayTo(f) /\ ~IsAtOrUnder(f, g)
    <3>1. ~IsAtOrUnder(f, h)
      <4> SUFFICES ASSUME IsAtOrUnder(f, h) PROVE FALSE
        OBVIOUS
      <4>1. IsAtOrUnder(g, f)
        BY <2>1, <2>3, UnderBoth
      <4> QED
        BY <2>1, <2>3, <4>1, WayIs
    <3>2. h \notin OnTheWayTo(f)
      BY <2>1, <2>3, UnderProperties, WayIs
    <3>3. h \in DOMAIN d
      BY <1>5, <2>1, <3>1, <3>2
    <3>4. g \in DOMAIN d /\ d[g] = Obj
      BY <1>7, <3>3 DEF IsTree
    <3> QED
      BY <1>5, <2>1, <2>3, <3>4
  <2>4. CASE IsAtOrUnder(f, g)
    <3> DEFINE r == SubSeq(h, Len(f) + 1, Len(h))
               s == SubSeq(g, Len(f) + 1, Len(g))
    <3>1. IsAtOrUnder(f, h)
      BY <2>1, <2>4, UnderProperties
    <3>2. r \in DOMAIN sub /\ r \in Seq(Tokens) /\ f \o r = h
      BY <1>3, <2>1, <3>1, SplitIs
    <3>3. s \in Seq(Tokens) /\ f \o s = g
      BY <2>1, <2>4, SplitIs
    <3> HIDE DEF r, s
    <3>4. IsAtOrUnder(s, r) /\ ~IsAtOrUnder(r, s)
      <4>1. /\ Len(f) \in Nat /\ Len(r) \in Nat /\ Len(s) \in Nat
            /\ Len(h) = Len(f) + Len(r) /\ Len(g) = Len(f) + Len(s)
            /\ \A i \in 1..Len(r) : h[Len(f) + i] = r[i]
            /\ \A i \in 1..Len(s) : g[Len(f) + i] = s[i]
        <5>1. Len(f) \in Nat /\ Len(r) \in Nat /\ Len(s) \in Nat
          BY <3>2, <3>3, LenProperties
        <5>2. /\ Len(h) = Len(f) + Len(r)
              /\ \A i \in 1..(Len(f) + Len(r)) : h[i] = IF i <= Len(f) THEN f[i] ELSE r[i - Len(f)]
          BY <3>2, ConcatProperties
        <5>3. /\ Len(g) = Len(f) + Len(s)
              /\ \A i \in 1..(Len(f) + Len(s)) : g[i] = IF i <= Len(f) THEN f[i] ELSE s[i - Len(f)]
          BY <3>3, ConcatProperties
        <5>4. ASSUME NEW i \in 1..Len(r) PROVE h[Len(f) + i] = r[i]
          <6> Len(f) + i \in 1..(Len(f) + Len(r)) /\ ~(Len(f) + i <= Len(f)) /\ Len(f) + i - Len(f) = i
            BY <5>1
          <6> QED
            BY <5>2
        <5>5. ASSUME NEW i \in 1..Len(s) PROVE g[Len(f) + i] = s[i]
          <6> Len(f) + i \in 1..(Len(f) + Len(s)) /\ ~(Len(f) + i <= Len(f)) /\ Len(f) + i - Len(f) = i
            BY <5>1
          <6> QED
            BY <5>3
        <5> QED
          BY <5>1, <5>2, <5>3, <5>4, <5>5
      <4>2. Len(g) <= Len(h) /\ \A i \in 1..Len(g) : g[i] = h[i]
        BY <2>1, UnderIs
      <4>3. Len(g) < Len(h)
        BY <1>7, <2>1, WayIs
      <4>4. Len(s) <= Len(r)
        BY <4>1, <4>2
      <4>5. ASSUME NEW i \in 1..Len(s) PROVE s[i] = r[i]
        <5> Len(f) + i \in 1..Len(g) /\ i \in 1..Len(r)
          BY <4>1, <4>4
        <5> QED
          BY <4>1, <4>2
      <4> QED
        BY <3>2, <3>3, <4>1, <4>3, <4>4, <4>5, UnderIs
    <3>5. s \in OnTheWayTo(r)
      BY <3>2, <3>3, <3>4, WayIs
    <3>6. s \in DOMAIN sub /\ sub[s] = Obj
      BY <3>2, <3>5 DEF IsTree
    <3> QED
      BY <1>2, <3>3, <3>6
  <2> QED
    BY <2>2, <2>3, <2>4
<1> QED
  BY <1>1, <1>6, <1>7 DEF new, IsTree, HasPlaces

\* What is left of a tree when a branch is taken off is a tree.
LEMMA ErasedIsTree ==
    ASSUME NEW d, IsTree(d), NEW f \in Seq(Tokens) \ {<<>>}
    PROVE  IsTree(Erased(d, f))
<1>1. DOMAIN Erased(d, f) = {g \in DOMAIN d : ~IsAtOrUnder(f, g)}
  BY DEF Erased
<1>2. \A g \in DOMAIN Erased(d, f) : Erased(d, f)[g] = d[g]
  BY DEF Erased
<1>3. <<>> \in DOMAIN Erased(d, f)
  BY <1>1, UnderProperties DEF IsTree
<1>4. ASSUME NEW h \in DOMAIN Erased(d, f), NEW g \in OnTheWayTo(h)
      PROVE  g \in DOMAIN Erased(d, f) /\ Erased(d, f)[g] = Obj
  <2>1. h \in DOMAIN d /\ h \in Seq(Tokens) /\ ~IsAtOrUnder(f, h)
    BY <1>1 DEF IsTree
  <2>2. g \in DOMAIN d /\ d[g] = Obj
    BY <1>4, <2>1 DEF IsTree
  <2>3. g \in Seq(Tokens) /\ IsAtOrUnder(g, h)
    BY <1>4, <2>1, WayIs
  <2>4. ~IsAtOrUnder(f, g)
    BY <2>1, <2>3, UnderProperties
  <2> QED
    BY <1>1, <1>2, <2>2, <2>4
<1> QED
  BY <1>1, <1>3, <1>4 DEF IsTree

-------------------------------------------------------------------------------
(* A registry in one document                                              *)

\* What is in memory is a tree, and so is what is in the file.
DocumentInv == IsTree(content) /\ (onDisk = Nothing \/ IsTree(onDisk))

\* Where a place is to be written it may be made first.
LEMMA WithPlaceIsTree ==
    ASSUME NEW f \in Seq(Tokens), IsTree(content)
    PROVE  IsTree(WithPlace(f))
BY PutIsTree, LeafIs DEF WithPlace

\* What the file gives is a tree.
LEMMA ParsedIsTree ==
    ASSUME DocumentInv
    PROVE  IsTree(Parsed(onDisk))
BY LeafIs DEF DocumentInv, Parsed

LEMMA DocumentStart == DocumentInit => DocumentInv
<1> SUFFICES ASSUME DocumentInit PROVE DocumentInv
  OBVIOUS
<1>1. onDisk = Nothing \/ IsTree(onDisk)
  BY DocumentAssumption DEF DocumentInit
<1>2. content = Parsed(onDisk)
  BY DEF DocumentInit
<1> QED
  BY <1>1, <1>2, LeafIs DEF DocumentInv, Parsed

\* The values of two documents are the same where the documents are.
LEMMA SameValues ==
    ASSUME NEW d, NEW e, NEW g, g \in DOMAIN d <=> g \in DOMAIN e, g \in DOMAIN d => d[g] = e[g]
    PROVE  ValuesAt(d, g) = ValuesAt(e, g)
BY DEF ValuesAt

\* What a write changes lies at its place, under it or on the way.
LEMMA PutChanges ==
    ASSUME NEW d, HasPlaces(d), NEW sub, HasPlaces(sub), NEW f \in Seq(Tokens), NEW g \in Seq(Tokens),
           ValuesAt(Put(d, f, sub), g) # ValuesAt(d, g)
    PROVE  IsAtOrUnder(f, g) \/ g \in OnTheWayTo(f)
<1> SUFFICES ASSUME ~IsAtOrUnder(f, g), g \notin OnTheWayTo(f) PROVE FALSE
  OBVIOUS
<1>1. /\ g \in DOMAIN Put(d, f, sub) <=> g \in DOMAIN d
      /\ g \in DOMAIN d => Put(d, f, sub)[g] = d[g]
  BY PutIs
<1> QED
  BY <1>1, SameValues

\* What an erasure changes lies at its place or under it, and nothing is left there.
LEMMA ErasedChanges ==
    ASSUME NEW d, HasPlaces(d), NEW f \in Seq(Tokens)
    PROVE  /\ \A g \in Seq(Tokens) : ValuesAt(Erased(d, f), g) # ValuesAt(d, g) => IsAtOrUnder(f, g)
           /\ HasPlaces(Erased(d, f))
           /\ Located(Erased(d, f), f) = Nothing
<1> DEFINE new == Erased(d, f)
<1>1. DOMAIN new = {g \in DOMAIN d : ~IsAtOrUnder(f, g)} /\ \A g \in DOMAIN new : new[g] = d[g]
  BY DEF Erased
<1> HIDE DEF new
<1>2. HasPlaces(new)
  BY <1>1 DEF HasPlaces
<1>3. ASSUME NEW g \in Seq(Tokens), ~IsAtOrUnder(f, g) PROVE ValuesAt(new, g) = ValuesAt(d, g)
  BY <1>1, <1>3, SameValues
<1>4. Located(new, f) = Nothing
  BY <1>1, LocatedNone
<1> QED
  BY <1>2, <1>3, <1>4 DEF new

\* A step keeps trees, and tells of what it changes.
LEMMA DocumentStep ==
    ASSUME DocumentInv, DocumentNext
    PROVE  DocumentInv' /\ WatchersTold
<1> USE DEF WatchersTold
<1>0. HasPlaces(content) /\ IsTree(content)
  BY BareRoot DEF DocumentInv
<1>a. Places \subseteq Seq(Tokens) \ {<<>>} /\ Null \notin Values
  BY DocumentAssumption
<1>1. ASSUME NEW f \in Places, NEW v \in Values, SetOption(f, v) PROVE DocumentInv' /\ WatchersTold
  <2>1. content' = Put(content, f, Leaf(v)) /\ onDisk' = onDisk
    BY <1>1 DEF SetOption
  <2>2. IsTree(content')
    BY <1>0, <1>a, <2>1, PutIsTree, LeafIs
  <2>3. told' = {Change(f, Leaf(v), Option(Located(WithPlace(f), f)))}
    BY <1>1 DEF SetOption
  <2>4. \A c \in told' : c.path = f /\ c.new = Leaf(v)
    BY <2>3 DEF Change
  <2>5. \E c \in told' : c.path = f
    BY <2>3 DEF Change
  <2>6. \A g \in Seq(Tokens) : ValuesAt(content', g) # ValuesAt(content, g) => IsAtOrUnder(f, g) \/ g \in OnTheWayTo(f)
    BY <1>0, <1>a, <2>1, PutChanges, LeafIs
  <2>7. Located(content', f) = Leaf(v)
    BY <1>0, <1>a, <2>1, PutIsFound, LeafIs
  <2>8. Option(Leaf(v)) = Leaf(v)
    <3>1. Leaf(v) # Leaf(Null)
      BY <1>a, LeafIs
    <3> QED
      BY <3>1 DEF Option
  <2>9. DOMAIN content \cup DOMAIN content' \subseteq Seq(Tokens)
    BY <1>0, <2>2 DEF IsTree
  <2> QED
    BY <2>1, <2>2, <2>4, <2>5, <2>6, <2>7, <2>8, <2>9 DEF DocumentInv
<1>2. ASSUME NEW f \in Places, Unset(f) PROVE DocumentInv' /\ WatchersTold
  <2>1. content' = Erased(WithPlace(f), f) /\ onDisk' = onDisk
    BY <1>2 DEF Unset
  <2>2. IsTree(WithPlace(f)) /\ HasPlaces(WithPlace(f))
    BY <1>0, <1>a, WithPlaceIsTree, BareRoot
  <2>3. IsTree(content')
    BY <1>a, <2>1, <2>2, ErasedIsTree
  <2>4. told' = {Change(f, Nothing, Option(Located(WithPlace(f), f)))}
    BY <1>2 DEF Unset
  <2>5. \A c \in told' : c.path = f /\ c.new = Nothing
    BY <2>4 DEF Change
  <2>6. \E c \in told' : c.path = f
    BY <2>4 DEF Change
  <2>7. ASSUME NEW g \in Seq(Tokens), ValuesAt(content', g) # ValuesAt(content, g)
        PROVE  IsAtOrUnder(f, g) \/ g \in OnTheWayTo(f)
    <3>1. CASE ValuesAt(content', g) # ValuesAt(WithPlace(f), g)
      BY <1>a, <2>1, <2>2, <3>1, ErasedChanges
    <3>2. CASE ValuesAt(WithPlace(f), g) # ValuesAt(content, g)
      <4>1. WithPlace(f) = Put(content, f, EmptyObject)
        BY <3>2 DEF WithPlace
      <4> QED
        BY <1>0, <1>a, <3>2, <4>1, PutChanges, LeafIs
    <3> QED
      BY <2>7, <3>1, <3>2
  <2>8. Located(content', f) = Nothing
    BY <1>a, <2>1, <2>2, ErasedChanges
  <2>9. Option(Nothing) = Nothing
    BY DEF Option
  <2>10. DOMAIN content \cup DOMAIN content' \subseteq Seq(Tokens)
    BY <1>0, <2>3 DEF IsTree
  <2> QED
    BY <2>1, <2>3, <2>5, <2>6, <2>7, <2>8, <2>9, <2>10 DEF DocumentInv
<1>3. ASSUME NEW f \in Places, DelTreeAt(f) PROVE DocumentInv' /\ WatchersTold
  <2>1. CASE Option(Located(content, f)) # Nothing
    <3>1. content' = Erased(content, f) /\ onDisk' = onDisk
      BY <1>3, <2>1 DEF DelTreeAt
    <3>2. IsTree(content')
      BY <1>0, <1>a, <3>1, ErasedIsTree
    <3>3. told' = {Change(f, Nothing, Located(content, f))}
      BY <1>3, <2>1 DEF DelTreeAt
    <3>4. (\A c \in told' : c.path = f /\ c.new = Nothing) /\ \E c \in told' : c.path = f
      BY <3>3 DEF Change
    <3>5. \A g \in Seq(Tokens) : ValuesAt(content', g) # ValuesAt(content, g) => IsAtOrUnder(f, g)
      BY <1>0, <1>a, <3>1, ErasedChanges
    <3>6. Located(content', f) = Nothing /\ Option(Nothing) = Nothing
      BY <1>0, <1>a, <3>1, ErasedChanges DEF Option
    <3>7. DOMAIN content \cup DOMAIN content' \subseteq Seq(Tokens)
      BY <1>0, <3>2 DEF IsTree
    <3> QED
      BY <3>1, <3>2, <3>4, <3>5, <3>6, <3>7 DEF DocumentInv
  <2>2. CASE Option(Located(content, f)) = Nothing
    <3>1. content' = content /\ onDisk' = onDisk /\ told' = {}
      BY <1>3, <2>2 DEF DelTreeAt
    <3> QED
      BY <3>1 DEF DocumentInv
  <2> QED
    BY <2>1, <2>2
<1>4. ASSUME DelTreeRoot PROVE DocumentInv' /\ WatchersTold
  <2>1. CASE Option(content) # Nothing
    <3>1. content' = Leaf(Null) /\ onDisk' = onDisk /\ told' = {Change(<<>>, Nothing, content)}
      BY <1>4, <2>1 DEF DelTreeRoot
    <3>2. IsTree(content')
      BY <3>1, LeafIs
    <3>3. (\A c \in told' : c.path = <<>> /\ c.new = Nothing) /\ \E c \in told' : c.path = <<>>
      BY <3>1 DEF Change
    <3>4. DOMAIN content \cup DOMAIN content' \subseteq Seq(Tokens)
      BY <1>0, <3>2 DEF IsTree
    <3>5. \A g \in Seq(Tokens) : IsAtOrUnder(<<>>, g)
      BY UnderProperties
    <3>6. Option(Located(content', <<>>)) = Nothing
      BY <3>1, RootIsFound, LeafIs DEF Option
    <3> QED
      BY <3>1, <3>2, <3>3, <3>4, <3>5, <3>6 DEF DocumentInv
  <2>2. CASE Option(content) = Nothing
    <3>1. content' = content /\ onDisk' = onDisk /\ told' = {}
      BY <1>4, <2>2 DEF DelTreeRoot
    <3> QED
      BY <3>1 DEF DocumentInv
  <2> QED
    BY <2>1, <2>2
<1>5. ASSUME NEW f \in Places, NEW sub, IsTree(sub), SetJson(f, sub) PROVE DocumentInv' /\ WatchersTold
  <2> DEFINE d == IF IsObject(content) THEN content ELSE EmptyObject
  <2>1. /\ content' = Put(d, f, sub) /\ onDisk' = onDisk /\ method' = "setJson"
        /\ told' = {Change(f, Nothing, Option(Located(IF f \in DOMAIN d THEN d ELSE Put(d, f, EmptyObject), f)))}
    BY <1>5 DEF SetJson
  <2>2. IsTree(d) /\ HasPlaces(d) /\ HasPlaces(sub) /\ <<>> \in Seq(Tokens)
    BY <1>0, <1>5, LeafIs, BareRoot, EmptySeq
  <2> HIDE DEF d
  <2>3. IsTree(content')
    BY <1>5, <1>a, <2>1, <2>2, PutIsTree
  <2>4. (\A c \in told' : c.path = f /\ c.new = Nothing) /\ \E c \in told' : c.path = f
    BY <2>1 DEF Change
  <2>5. ASSUME NEW g \in Seq(Tokens), ValuesAt(content', g) # ValuesAt(content, g)
        PROVE  IsAtOrUnder(f, g) \/ g \in OnTheWayTo(f)
    <3>1. CASE IsObject(content)
      BY <1>a, <2>1, <2>2, <2>5, <3>1, PutChanges DEF d
    <3>2. CASE ~IsObject(content) /\ g = <<>>
      BY <1>a, <3>2, WayIs
    <3>3. CASE ~IsObject(content) /\ g # <<>>
      <4>1. g \notin DOMAIN content /\ g \notin DOMAIN d
        BY <1>0, <3>3, BareRoot, LeafIs DEF d
      <4>2. ValuesAt(content, g) = ValuesAt(d, g)
        BY <4>1, SameValues
      <4> QED
        BY <1>a, <2>1, <2>2, <2>5, <4>2, PutChanges
    <3> QED
      BY <3>1, <3>2, <3>3
  <2>6. DOMAIN content \cup DOMAIN content' \subseteq Seq(Tokens)
    BY <1>0, <2>3 DEF IsTree
  <2> QED
    BY <1>a, <2>1, <2>3, <2>4, <2>5, <2>6 DEF DocumentInv
<1>6. ASSUME NEW v \in Values, Replace(Leaf(v)) PROVE DocumentInv' /\ WatchersTold
  <2>1. content' = Leaf(v) /\ onDisk' = onDisk
    BY <1>6 DEF Replace
  <2>2. IsTree(content')
    BY <2>1, LeafIs
  <2>3. (\A c \in told' : c.path = <<>> /\ c.new = Option(Leaf(v))) /\ \E c \in told' : c.path = <<>>
    BY <1>6 DEF Replace, Change
  <2>4. DOMAIN content \cup DOMAIN content' \subseteq Seq(Tokens)
    BY <1>0, <2>2 DEF IsTree
  <2>5. \A g \in Seq(Tokens) : IsAtOrUnder(<<>>, g)
    BY UnderProperties
  <2>6. Located(content', <<>>) = Leaf(v)
    BY <2>1, RootIsFound, LeafIs
  <2> QED
    BY <2>1, <2>2, <2>3, <2>4, <2>5, <2>6 DEF DocumentInv
<1>7. ASSUME Reset \/ Load PROVE DocumentInv' /\ WatchersTold
  <2>1. IsTree(Parsed(onDisk)) /\ IsTree(EmptyObject)
    BY ParsedIsTree, LeafIs
  <2>2. onDisk' = onDisk /\ told' = {} /\ method' = "load" /\ content' \in {EmptyObject, Parsed(onDisk), content}
    BY <1>7 DEF Reset, Load
  <2> QED
    BY <1>0, <2>1, <2>2 DEF DocumentInv
<1>8. ASSUME Save PROVE DocumentInv' /\ WatchersTold
  BY <1>8 DEF Save, DocumentInv
<1> QED
  <2> USE DEF DocumentNext
  <2>1. IsTree(EmptyObject) /\ \A v \in Values : IsTree(Leaf(v))
    BY LeafIs
  <2> HIDE DEF WatchersTold
  <2> QED
    BY <1>1, <1>2, <1>3, <1>4, <1>5, <1>6, <1>7, <1>8, <2>1

\* Whatever is set, taken away, loaded or saved, what a registry has in memory is a tree:
\* a root, and objects on the way to every value (JsonRegistry).
THEOREM DocumentsAreTrees == DocumentSpec => []DocumentInv
<1>1. DocumentInv /\ UNCHANGED documentVars => DocumentInv'
  BY DEF DocumentInv, documentVars
<1> QED
  BY <1>1, DocumentStart, DocumentStep, PTL DEF DocumentSpec

\* Those who watch are told of every value that changes, with what is there afterwards.
THEOREM WatchersAreTold == DocumentSpec => WatchersFollow
<1>1. DocumentInv /\ UNCHANGED documentVars => DocumentInv'
  BY DEF DocumentInv, documentVars
<1> QED
  BY <1>1, DocumentStart, DocumentStep, PTL DEF DocumentSpec, WatchersFollow

-------------------------------------------------------------------------------
(* A registry on a volume                                                  *)

IsCache(c) == DOMAIN c \subseteq Containers /\ \A k \in DOMAIN c : IsTree(c[k])

AreFiles(fs) == DOMAIN fs = Files /\ \A f \in Files : fs[f] = Nothing \/ IsTree(fs[f])

\* Files and caches hold trees, and nothing is to be written that is not there.
ValuesInv ==
    /\ AreFiles(files)
    /\ DOMAIN cache = Processes /\ DOMAIN dirty = Processes
    /\ \A p \in Processes : IsCache(cache[p]) /\ dirty[p] \subseteq DOMAIN cache[p]

\* What a container comes to, for a cache and the files there are.
View(fs, c, k) == IF k \in DOMAIN c THEN c[k] ELSE fs[FileOf[k]]

AnswerFrom(d, e, frag) == IF Located(d, frag) # Nothing THEN Option(Located(d, frag)) ELSE Option(e)

\* Answers are made of what the two containers come to, now and after a step.
LEMMA AnswerIs ==
    ASSUME NEW q
    PROVE  /\ \A c : Answer(c, q) = AnswerFrom(View(files, c, q.dir), View(files, c, q.whole), q.frag)
           /\ \A p : Answer(cache[p], q)' =
                        AnswerFrom(View(files', cache'[p], q.dir), View(files', cache'[p], q.whole), q.frag)
<1>1. \A c, k : InCache(Cached(c, k), k) = View(files, c, k)
  BY DEF InCache, Cached, View, With, Readable
<1>2. \A p, k : InCache(Cached(cache[p], k), k)' = View(files', cache'[p], k)
  BY DEF InCache, Cached, View, With, Readable
<1>3. \A c : Answer(c, q) = AnswerFrom(View(files, c, q.dir), View(files, c, q.whole), q.frag)
  BY <1>1 DEF Answer, InFragment, AnswerFrom
<1>4. \A p : Answer(cache[p], q)' =
               AnswerFrom(View(files', cache'[p], q.dir), View(files', cache'[p], q.whole), q.frag)
  BY <1>2 DEF Answer, InFragment, AnswerFrom
<1> QED
  BY <1>3, <1>4

\* A cache that has more than another has it from the files.
Extends(c, e) ==
    /\ DOMAIN c \subseteq DOMAIN e /\ \A k \in DOMAIN c : e[k] = c[k]
    /\ \A k \in DOMAIN e \ DOMAIN c : e[k] = files[FileOf[k]]

\* What is loaded extends a cache.
LEMMA CachedExtends ==
    ASSUME AreFiles(files), NEW c, IsCache(c), NEW k \in Containers
    PROVE  /\ IsCache(Cached(c, k)) /\ Extends(c, Cached(c, k))
           /\ \A b : Extends(b, c) => Extends(b, Cached(c, k))
<1>1. FileOf[k] \in Files
  BY DEF Files
<1>2. CASE k \in DOMAIN c \/ Readable(k) = Nothing
  BY <1>2 DEF Cached, Extends
<1>3. CASE ~(k \in DOMAIN c \/ Readable(k) = Nothing)
  <2> DEFINE e == Cached(c, k)
  <2>1. e = [x \in DOMAIN c \cup {k} |-> IF x = k THEN files[FileOf[k]] ELSE c[x]]
    BY <1>3 DEF Cached, With, Readable
  <2>2. /\ DOMAIN e = DOMAIN c \cup {k} /\ e[k] = files[FileOf[k]]
        /\ \A x \in DOMAIN c : e[x] = c[x]
    BY <1>3, <2>1
  <2>3. IsTree(files[FileOf[k]])
    BY <1>1, <1>3 DEF AreFiles, Readable
  <2> HIDE DEF e
  <2> QED
    BY <2>2, <2>3 DEF IsCache, Extends, e
<1> QED
  BY <1>2, <1>3

LEMMA GetExtends ==
    ASSUME AreFiles(files), NEW c, IsCache(c), NEW q \in Paths
    PROVE  /\ IsCache(AfterGet(c, q)) /\ Extends(c, AfterGet(c, q))
           /\ IsCache(Cached(Cached(c, q.dir), q.whole)) /\ Extends(c, Cached(Cached(c, q.dir), q.whole))
<1>1. q.dir \in Containers /\ q.whole \in Containers
  BY ValuesAssumption
<1>2. IsCache(Cached(c, q.dir)) /\ Extends(c, Cached(c, q.dir))
  BY <1>1, CachedExtends
<1>3. IsCache(Cached(Cached(c, q.dir), q.whole)) /\ Extends(c, Cached(Cached(c, q.dir), q.whole))
  BY <1>1, <1>2, CachedExtends
<1> QED
  BY <1>2, <1>3 DEF AfterGet

\* The same is seen through a cache that has more.
LEMMA ExtendsSees ==
    ASSUME NEW c, NEW e, Extends(c, e), NEW k
    PROVE  View(files, e, k) = View(files, c, k)
BY DEF Extends, View

LEMMA ValuesStart == ValuesInit => ValuesInv
<1> SUFFICES ASSUME ValuesInit PROVE ValuesInv
  OBVIOUS
<1>1. AreFiles(files)
  BY ValuesAssumption DEF ValuesInit, AreFiles
<1>2. \A p \in Processes : cache[p] = NoContainers /\ dirty[p] = {}
  BY DEF ValuesInit
<1>3. DOMAIN NoContainers = {}
  BY DEF NoContainers
<1> QED
  BY <1>1, <1>2, <1>3 DEF ValuesInit, ValuesInv, IsCache

-------------------------------------------------------------------------------
(* One step                                                                *)

\* What a container comes to for a process stays, but for a file it has not read and that
\* somebody writes.
Stays(p, k) ==
    \/ View(files', cache'[p], k) = View(files, cache[p], k)
    \/ k \notin DOMAIN cache[p] /\ files'[FileOf[k]] # files[FileOf[k]]

\* The other disjuncts of AnswersChange
Caused(p, q) ==
    /\ recent'.proc = p
    /\ \/ recent'.op \in {"set", "remove"} /\ Overlap(recent'.path, q)
       \/ recent'.op = "delTree" /\ recent'.path.whole \in {q.dir, q.whole}
       \/ recent'.op = "end"

LEMMA StayingSuffices ==
    ASSUME \A p \in Processes, q \in Paths :
               \/ Caused(p, q)
               \/ /\ Stays(p, q.whole)
                  /\ \/ Stays(p, q.dir)
                     \/ Located(View(files', cache'[p], q.dir), q.frag)
                            = Located(View(files, cache[p], q.dir), q.frag)
    PROVE  AnswersChange
<1> SUFFICES ASSUME NEW p \in Processes, NEW q \in Paths,
                    Answer(cache[p], q)' # Answer(cache[p], q), ~Caused(p, q)
             PROVE  \E k \in {q.dir, q.whole} \ DOMAIN cache[p] : files'[FileOf[k]] # files[FileOf[k]]
  BY DEF AnswersChange, Caused
<1>1. Answer(cache[p], q) = AnswerFrom(View(files, cache[p], q.dir), View(files, cache[p], q.whole), q.frag)
  BY AnswerIs
<1>2. Answer(cache[p], q)' = AnswerFrom(View(files', cache'[p], q.dir), View(files', cache'[p], q.whole), q.frag)
  BY AnswerIs
<1>3. ~(/\ Located(View(files', cache'[p], q.dir), q.frag) = Located(View(files, cache[p], q.dir), q.frag)
        /\ View(files', cache'[p], q.whole) = View(files, cache[p], q.whole))
  BY <1>1, <1>2 DEF AnswerFrom
<1> QED
  BY <1>3 DEF Stays

\* Who does nothing sees only what somebody wrote to a file.
LEMMA IdleStays ==
    ASSUME NEW p, cache'[p] = cache[p], NEW k
    PROVE  Stays(p, k)
BY DEF Stays, View

\* Nor does a document fall behind with him unless a file is written or it is no longer
\* marked.
LEMMA IdleBehind ==
    ASSUME NEW p, cache'[p] = cache[p], dirty'[p] = dirty[p], files' = files
    PROVE  Behind(p)' \subseteq Behind(p)
BY DEF Behind, Readable

\* A step of one process that writes no file and only loads.
LEMMA LoadingStep ==
    ASSUME ValuesInv, NEW p \in Processes, NEW e, IsCache(e), Extends(cache[p], e),
           cache' = [cache EXCEPT ![p] = e], UNCHANGED <<files, dirty>>
    PROVE  ValuesInv' /\ AnswersChange /\ FallsBehind
<1>1. /\ DOMAIN cache' = Processes /\ cache'[p] = e
      /\ \A o \in Processes \ {p} : cache'[o] = cache[o]
  BY DEF ValuesInv
<1>2. ValuesInv'
  <2>1. \A o \in Processes : IsCache(cache'[o]) /\ dirty'[o] \subseteq DOMAIN cache'[o]
    <3> TAKE o \in Processes
    <3>1. CASE o = p
      BY <1>1, <3>1 DEF ValuesInv, Extends
    <3>2. CASE o # p
      BY <1>1, <3>2 DEF ValuesInv
    <3> QED
      BY <3>1, <3>2
  <2> QED
    BY <1>1, <2>1 DEF ValuesInv, AreFiles, IsCache
<1>3. \A o \in Processes : \A k : Stays(o, k)
  BY <1>1, IdleStays, ExtendsSees DEF Stays
<1>4. AnswersChange
  BY <1>3, StayingSuffices
<1>5. \A o \in Processes : Behind(o)' \subseteq Behind(o)
  <2> TAKE o \in Processes
  <2>1. CASE o = p
    BY <1>1, <2>1 DEF Behind, Readable, Extends
  <2>2. CASE o # p
    BY <1>1, <2>2, IdleBehind
  <2> QED
    BY <2>1, <2>2
<1>6. FallsBehind
  BY <1>5 DEF FallsBehind
<1> QED
  BY <1>2, <1>4, <1>6

\* A step of one process that takes documents out of its cache.
LEMMA DroppingStep ==
    ASSUME ValuesInv, NEW p \in Processes, NEW gone,
           cache' = [cache EXCEPT ![p] = [k \in DOMAIN @ \ gone |-> @[k]]],
           dirty' = [dirty EXCEPT ![p] = @ \ gone], UNCHANGED files,
           \A q \in Paths : q.dir \in gone \/ q.whole \in gone => Caused(p, q)
    PROVE  ValuesInv' /\ AnswersChange /\ FallsBehind
<1> DEFINE c == cache[p]
           e == [k \in DOMAIN c \ gone |-> c[k]]
<1>1. /\ DOMAIN cache' = Processes /\ cache'[p] = e
      /\ DOMAIN dirty' = Processes /\ dirty'[p] = dirty[p] \ gone
      /\ \A o \in Processes \ {p} : cache'[o] = cache[o] /\ dirty'[o] = dirty[o]
  BY DEF ValuesInv
<1>2. DOMAIN e = DOMAIN c \ gone /\ \A k \in DOMAIN e : e[k] = c[k]
  OBVIOUS
<1> HIDE DEF e
<1>3. ValuesInv'
  <2>1. \A o \in Processes : IsCache(cache'[o]) /\ dirty'[o] \subseteq DOMAIN cache'[o]
    <3> TAKE o \in Processes
    <3>1. CASE o = p
      BY <1>1, <1>2, <3>1 DEF ValuesInv, IsCache
    <3>2. CASE o # p
      BY <1>1, <3>2 DEF ValuesInv
    <3> QED
      BY <3>1, <3>2
  <2> QED
    BY <1>1, <2>1 DEF ValuesInv, AreFiles, IsCache
<1>4. ASSUME NEW o \in Processes, NEW q \in Paths, ~Caused(o, q)
      PROVE  Stays(o, q.dir) /\ Stays(o, q.whole)
  <2>1. CASE o # p
    BY <1>1, <2>1, IdleStays
  <2>2. CASE o = p
    <3>1. q.dir \notin gone /\ q.whole \notin gone
      BY <1>4, <2>2
    <3> QED
      BY <1>1, <1>2, <2>2, <3>1 DEF Stays, View
  <2> QED
    BY <2>1, <2>2
<1>5. AnswersChange
  BY <1>4, StayingSuffices
<1>6. \A o \in Processes : Behind(o)' \subseteq Behind(o)
  <2> TAKE o \in Processes
  <2>1. CASE o = p
    BY <1>1, <1>2, <2>1 DEF Behind, Readable
  <2>2. CASE o # p
    BY <1>1, <2>2, IdleBehind
  <2> QED
    BY <2>1, <2>2
<1>7. FallsBehind
  BY <1>6 DEF FallsBehind
<1> QED
  BY <1>3, <1>5, <1>7

\* A write at one place of a document leaves what lies beside it, also when the document
\* was none or had no object for a root.
LEMMA BesideIsKept ==
    ASSUME NEW old, old = Nothing \/ IsTree(old), NEW v, NEW f \in Seq(Tokens), NEW g \in Seq(Tokens),
           ~IsAtOrUnder(f, g), ~IsAtOrUnder(g, f),
           NEW d, d = IF ~IsObject(old) THEN EmptyObject ELSE old
    PROVE  Located(Put(d, f, Leaf(v)), g) = Located(old, g)
<1>1. HasPlaces(d) /\ HasPlaces(Leaf(v))
  BY LeafIs, BareRoot DEF IsObject
<1>2. Located(Put(d, f, Leaf(v)), g) = Located(d, g)
  BY <1>1, PutElsewhere
<1>3. CASE ~IsObject(old)
  <2>1. ~IsAtOrUnder(g, <<>>)
    BY UnderProperties
  <2>2. DOMAIN d = {<<>>}
    BY <1>3, LeafIs
  <2>3. DOMAIN old \subseteq {<<>>}
    BY <1>3, BareRoot DEF Nothing
  <2>4. Located(d, g) = Nothing
    BY <2>1, <2>2, LocatedNone
  <2>5. Located(old, g) = Nothing
    BY <2>1, <2>3, LocatedNone
  <2> QED
    BY <1>2, <2>4, <2>5
<1>4. CASE IsObject(old)
  BY <1>2, <1>4
<1> QED
  BY <1>3, <1>4

\* A write of one process at one path, after it has loaded what it asked for.
LEMMA SavingStep ==
    ASSUME ValuesInv, NEW p \in Processes, NEW r \in Paths, NEW v,
           NEW before, IsCache(before), Extends(cache[p], before),
           SaveFragment(p, r, v, before),
           recent'.op \in {"set", "remove"}, recent'.proc = p, recent'.path = r
    PROVE  ValuesInv' /\ AnswersChange /\ FallsBehind
<1> DEFINE c == Cached(before, r.dir)
           old == InCache(c, r.dir)
           d == IF ~IsObject(old) THEN EmptyObject ELSE old
           new == Put(d, r.frag, Leaf(v))
           e == With(c, r.dir, new)
<1>1. r.dir \in Containers /\ r.frag \in Seq(Tokens) /\ FileOf[r.dir] \in Files
  BY ValuesAssumption DEF Files
<1>2. IsCache(c) /\ Extends(before, c) /\ Extends(cache[p], c)
  BY <1>1, CachedExtends DEF ValuesInv
<1>3. old = View(files, cache[p], r.dir)
  <2>1. old = View(files, before, r.dir)
    BY DEF InCache, Cached, View, With, Readable
  <2> HIDE DEF old
  <2> QED
    BY <2>1, ExtendsSees
<1>4. old = Nothing \/ IsTree(old)
  BY <1>2 DEF InCache, IsCache
<1>5. /\ files' = IF ~IsObject(old) THEN [files EXCEPT ![FileOf[r.dir]] = EmptyObject] ELSE files
      /\ cache' = [cache EXCEPT ![p] = With(c, r.dir, Put(IF ~IsObject(old) THEN EmptyObject ELSE c[r.dir], r.frag, Leaf(v)))]
      /\ dirty' = [dirty EXCEPT ![p] = @ \cup {r.dir}]
  BY DEF SaveFragment
<1>6. ~IsObject(old) \/ c[r.dir] = old
  BY DEF InCache, IsObject
<1>7. cache' = [cache EXCEPT ![p] = e]
  BY <1>5, <1>6
<1>8. IsTree(new)
  <2>1. IsTree(d)
    BY <1>4, LeafIs DEF IsObject
  <2> QED
    BY <1>1, <2>1, PutIsTree, LeafIs
<1>9. /\ DOMAIN e = DOMAIN c \cup {r.dir} /\ e[r.dir] = new
      /\ \A k \in DOMAIN c \ {r.dir} : e[k] = c[k]
  BY DEF With
<1> HIDE DEF e, new, c
<1>10. /\ DOMAIN cache' = Processes /\ cache'[p] = e
       /\ DOMAIN dirty' = Processes /\ dirty'[p] = dirty[p] \cup {r.dir}
       /\ \A o \in Processes \ {p} : cache'[o] = cache[o] /\ dirty'[o] = dirty[o]
  BY <1>5, <1>7 DEF ValuesInv
<1>11. AreFiles(files') /\ \A f \in Files \ {FileOf[r.dir]} : files'[f] = files[f]
  BY <1>5, LeafIs DEF ValuesInv, AreFiles
<1>12. ValuesInv'
  <2>1. \A o \in Processes : IsCache(cache'[o]) /\ dirty'[o] \subseteq DOMAIN cache'[o]
    <3> TAKE o \in Processes
    <3>1. CASE o = p
      <4>1. IsCache(e)
        BY <1>1, <1>2, <1>8, <1>9 DEF IsCache
      <4>2. dirty'[p] \subseteq DOMAIN e
        BY <1>2, <1>9, <1>10 DEF ValuesInv, Extends
      <4> QED
        BY <1>10, <3>1, <4>1, <4>2
    <3>2. CASE o # p
      BY <1>10, <3>2 DEF ValuesInv
    <3> QED
      BY <3>1, <3>2
  <2> QED
    BY <1>10, <1>11, <2>1 DEF ValuesInv, AreFiles, IsCache
<1>13. ASSUME NEW k, k # r.dir PROVE Stays(p, k)
  <2>1. CASE k \in DOMAIN c
    BY <1>2, <1>9, <1>10, <1>13, <2>1 DEF Stays, View, Extends
  <2>2. CASE k \notin DOMAIN c
    BY <1>2, <1>9, <1>10, <1>13, <2>2 DEF Stays, View, Extends
  <2> QED
    BY <2>1, <2>2
<1>14. ASSUME NEW o \in Processes, NEW q \in Paths, ~Caused(o, q)
       PROVE  /\ Stays(o, q.whole)
              /\ \/ Stays(o, q.dir)
                 \/ Located(View(files', cache'[o], q.dir), q.frag) = Located(View(files, cache[o], q.dir), q.frag)
  <2>1. CASE o # p
    BY <1>10, <2>1, IdleStays
  <2>2. CASE o = p
    <3>1. ~Overlap(r, q)
      BY <1>14, <2>2 DEF Caused
    <3>2. Stays(p, q.whole)
      BY <1>13, <3>1 DEF Overlap
    <3>3. CASE q.dir # r.dir
      BY <1>13, <2>2, <3>2, <3>3
    <3>4. CASE q.dir = r.dir
      <4>1. ~IsAtOrUnder(r.frag, q.frag) /\ ~IsAtOrUnder(q.frag, r.frag) /\ q.frag \in Seq(Tokens)
        BY <3>1, <3>4, ValuesAssumption DEF Overlap
      <4>2. Located(new, q.frag) = Located(old, q.frag)
        <5> HIDE DEF old
        <5> QED
          BY <1>1, <1>4, <4>1, BesideIsKept DEF new
      <4>3. View(files', cache'[p], q.dir) = new
        BY <1>9, <1>10, <3>4 DEF View
      <4> QED
        BY <1>3, <2>2, <3>2, <3>4, <4>2, <4>3
    <3> QED
      BY <3>3, <3>4
  <2> QED
    BY <2>1, <2>2
<1>15. AnswersChange
  BY <1>14, StayingSuffices
<1>16. FallsBehind
  <2> SUFFICES ASSUME NEW o \in Processes, NEW k \in Behind(o)' \ Behind(o), o = p
               PROVE  \E other \in Containers \ {k} : FileOf[other] = FileOf[k] /\ other \in DOMAIN cache'[o]
    BY DEF FallsBehind
  <2>1. k \in DOMAIN e /\ k # r.dir /\ k \notin dirty[p] /\ e[k] # files'[FileOf[k]]
    BY <1>10 DEF Behind, Readable
  <2>2. k \in DOMAIN c /\ e[k] = c[k]
    BY <1>9, <2>1
  <2>3. c[k] = files[FileOf[k]]
    BY <1>2, <2>1, <2>2 DEF Behind, Readable, Extends
  <2>4. FileOf[k] \in Files /\ files'[FileOf[k]] # files[FileOf[k]]
    BY <1>2, <2>1, <2>2, <2>3 DEF Files, IsCache
  <2>5. FileOf[k] = FileOf[r.dir]
    BY <1>11, <2>4
  <2> QED
    BY <1>1, <1>9, <1>10, <2>1, <2>5
<1> QED
  BY <1>12, <1>15, <1>16

\* A flush of some of what is marked.
LEMMA FlushStep ==
    ASSUME ValuesInv, NEW p \in Processes, NEW done \in SUBSET dirty[p], FlushContainers(p, done)
    PROVE  ValuesInv' /\ AnswersChange /\ FallsBehind
<1>1. /\ cache' = cache /\ dirty' = [dirty EXCEPT ![p] = @ \ done]
      /\ recent'.op = "flush" /\ recent'.proc = p
      /\ files' \in WrittenFiles(p, done)
  BY DEF FlushContainers
<1>2. done \subseteq DOMAIN cache[p] /\ IsCache(cache[p])
  BY DEF ValuesInv
<1>3. DOMAIN files' = Files
  BY <1>1 DEF WrittenFiles
<1>4. \A f \in Files : \/ files'[f] = files[f] /\ ~\E k \in done : FileOf[k] = f
                       \/ \E k \in done : FileOf[k] = f /\ files'[f] = cache[p][k]
  BY <1>1 DEF WrittenFiles
<1>5. /\ DOMAIN dirty' = Processes /\ dirty'[p] = dirty[p] \ done
      /\ \A o \in Processes \ {p} : dirty'[o] = dirty[o]
  BY <1>1 DEF ValuesInv
<1>6. AreFiles(files')
  BY <1>2, <1>3, <1>4 DEF AreFiles, ValuesInv, IsCache
<1>7. ValuesInv'
  <2>1. \A o \in Processes : dirty'[o] \subseteq dirty[o]
    BY <1>5
  <2> QED
    BY <1>1, <1>5, <1>6, <2>1 DEF ValuesInv, AreFiles, IsCache
<1>8. \A o \in Processes : \A k : Stays(o, k)
  BY <1>1, IdleStays
<1>9. AnswersChange
  BY <1>8, StayingSuffices
<1>10. FallsBehind
  <2> SUFFICES ASSUME NEW o \in Processes, NEW k \in Behind(o)' \ Behind(o), o = p
               PROVE  \E other \in Containers \ {k} : FileOf[other] = FileOf[k] /\ other \in DOMAIN cache'[o]
    BY <1>1 DEF FallsBehind
  <2>1. k \in DOMAIN cache[p] /\ k \notin dirty[p] \ done /\ cache[p][k] # files'[FileOf[k]]
    BY <1>1, <1>5 DEF Behind, Readable
  <2>2. FileOf[k] \in Files
    BY <1>2, <2>1 DEF Files, IsCache
  <2>3. k \in done \/ cache[p][k] = files[FileOf[k]]
    BY <2>1 DEF Behind, Readable
  <2>4. PICK other \in done : FileOf[other] = FileOf[k] /\ files'[FileOf[k]] = cache[p][other]
    BY <1>4, <2>1, <2>2, <2>3
  <2>5. other # k /\ other \in DOMAIN cache[p] /\ other \in Containers
    BY <1>2, <2>1, <2>4 DEF IsCache
  <2> QED
    BY <1>1, <2>4, <2>5
<1> QED
  BY <1>7, <1>9, <1>10

\* Every step keeps the invariant, and what AnswersChangeKnowingly says of it.
LEMMA ValuesStep ==
    ASSUME ValuesInv, ValuesNext
    PROVE  ValuesInv' /\ AnswersChange /\ FallsBehind
<1> PICK p \in Processes :
        \/ \E q \in PathsOf[p] : Get(p, q)
        \/ \E q \in PathsOf[p] : List(p, q)
        \/ \E q \in PathsOf[p], v \in Values : Set(p, q, v)
        \/ \E q \in PathsOf[p] : RemoveOption(p, q)
        \/ \E q \in PathsOf[p] : DelTree(p, q)
        \/ \E done \in SUBSET dirty[p] : FlushContainers(p, done)
        \/ Forget(p)
  BY DEF ValuesNext
<1>1. PathsOf[p] \subseteq Paths
  BY DEF Paths
<1>2. IsCache(cache[p]) /\ AreFiles(files) /\ Extends(cache[p], cache[p])
  BY DEF ValuesInv, Extends
<1>3. ASSUME NEW q \in PathsOf[p], Get(p, q) \/ List(p, q)
      PROVE  ValuesInv' /\ AnswersChange /\ FallsBehind
  <2>1. CASE Get(p, q)
    <3>1. cache' = [cache EXCEPT ![p] = AfterGet(cache[p], q)] /\ UNCHANGED <<files, dirty>>
      BY <2>1 DEF Get
    <3>2. IsCache(AfterGet(cache[p], q)) /\ Extends(cache[p], AfterGet(cache[p], q))
      BY <1>1, <1>2, GetExtends
    <3> QED
      BY <3>1, <3>2, LoadingStep
  <2>2. CASE List(p, q)
    <3> DEFINE e == Cached(Cached(cache[p], q.dir), q.whole)
    <3>1. cache' = [cache EXCEPT ![p] = e] /\ UNCHANGED <<files, dirty>>
      BY <2>2 DEF List
    <3>2. IsCache(e) /\ Extends(cache[p], e)
      BY <1>1, <1>2, GetExtends
    <3> HIDE DEF e
    <3> QED
      BY <3>1, <3>2, LoadingStep
  <2> QED
    BY <1>3, <2>1, <2>2
<1>4. ASSUME NEW q \in PathsOf[p], NEW v \in Values, Set(p, q, v)
      PROVE  ValuesInv' /\ AnswersChange /\ FallsBehind
  BY <1>1, <1>2, <1>4, SavingStep DEF Set, Did
<1>5. ASSUME NEW q \in PathsOf[p], RemoveOption(p, q)
      PROVE  ValuesInv' /\ AnswersChange /\ FallsBehind
  <2>1. IsCache(AfterGet(cache[p], q)) /\ Extends(cache[p], AfterGet(cache[p], q))
    BY <1>1, <1>2, GetExtends
  <2>2. CASE Answer(cache[p], q) = Nothing
    <3>1. cache' = [cache EXCEPT ![p] = AfterGet(cache[p], q)] /\ UNCHANGED <<files, dirty>>
      BY <1>5, <2>2 DEF RemoveOption
    <3> QED
      BY <2>1, <3>1, LoadingStep
  <2>3. CASE Answer(cache[p], q) # Nothing
    <3>1. SaveFragment(p, q, Null, AfterGet(cache[p], q))
      BY <1>5, <2>3 DEF RemoveOption
    <3>2. recent'.op = "remove" /\ recent'.proc = p /\ recent'.path = q
      BY <1>5 DEF RemoveOption, Did
    <3> QED
      BY <1>1, <2>1, <3>1, <3>2, SavingStep
  <2> QED
    BY <2>2, <2>3
<1>6. ASSUME NEW q \in PathsOf[p], DelTree(p, q)
      PROVE  ValuesInv' /\ AnswersChange /\ FallsBehind
  <2>1. /\ cache' = [cache EXCEPT ![p] = [k \in DOMAIN @ \ {q.whole} |-> @[k]]]
        /\ dirty' = [dirty EXCEPT ![p] = @ \ {q.whole}] /\ UNCHANGED files
    BY <1>6 DEF DelTree
  <2>2. \A o \in Paths : o.dir \in {q.whole} \/ o.whole \in {q.whole} => Caused(p, o)
    BY <1>6 DEF DelTree, Did, Caused
  <2> QED
    BY <2>1, <2>2, DroppingStep
<1>7. ASSUME Forget(p)
      PROVE  ValuesInv' /\ AnswersChange /\ FallsBehind
  <2>1. cache' = [cache EXCEPT ![p] = NoContainers] /\ dirty' = [dirty EXCEPT ![p] = {}] /\ UNCHANGED files
    BY <1>7 DEF Forget
  <2> DEFINE gone == DOMAIN cache[p]
  <2>2. [k \in gone \ gone |-> cache[p][k]] = NoContainers
    BY DEF NoContainers
  <2>3. dirty[p] \ gone = {}
    BY DEF ValuesInv
  <2>4. /\ cache' = [cache EXCEPT ![p] = [k \in DOMAIN @ \ gone |-> @[k]]]
        /\ dirty' = [dirty EXCEPT ![p] = @ \ gone]
    BY <2>1, <2>2, <2>3
  <2>5. \A q \in Paths : Caused(p, q)
    BY <1>7 DEF Forget, Caused
  <2> HIDE DEF gone
  <2> QED
    BY <2>1, <2>4, <2>5, DroppingStep
<1> QED
  BY <1>3, <1>4, <1>5, <1>6, <1>7, FlushStep

\* What a process is answered changes only by a write of its own at, above or below the
\* path, when it drops the document, or by a write to a file it has not read; and what is
\* in memory and not marked is behind its file only after a write of another process or
\* under another name of the file (ValueRegistry).
THEOREM AnswersAreKept == ValuesSpec => AnswersChangeKnowingly
<1>1. ValuesInv /\ UNCHANGED valueVars => ValuesInv'
  BY DEF ValuesInv, valueVars, AreFiles, IsCache
<1> QED
  BY <1>1, ValuesStart, ValuesStep, PTL DEF ValuesSpec, AnswersChangeKnowingly
===============================================================================
