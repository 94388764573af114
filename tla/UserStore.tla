------------------------------- MODULE UserStore -------------------------------
(***************************************************************************)
(* The stores of users (UserStore): records in memory, written to a JSON   *)
(* file after every change (FileUserStore) or to a registry that keeps one *)
(* node for each user (RegistryUserStore over a JsonRegistry or a          *)
(* VolumeRegistry), and the commands of the shell on them.  Two stores may *)
(* be open on one file; writes may fail and a store's process may end.     *)
(***************************************************************************)
EXTENDS Integers, Sequences, FiniteSets

CONSTANTS Users,
          Node,        \* of each user, the one whose JSON node a JsonRegistry keeps it in:
                       \* the user itself, or "a" for "a.b"
          Passwords, Empty,
          Roles, Operator,
          KeyIds, Main, \* Main is "pwd-main"
          Stores,
          Kinds,       \* of backing: "file", "json", "volume", and "rootless", a JsonRegistry
                       \* whose prefix is empty
          Images,      \* what the file holds at first
          Commands,    \* what is asked of a store
          MaxCalls, MaxFaults, MaxKeys,
          None, NoSecret, Missing, Broken

VARIABLES kind,        \* the backing of this run
          disk,        \* the file: the records it holds, Missing or Broken
          store,       \* the stores, and whether their process runs
          synced,      \* those whose last write or load succeeded, and no write came between
          late,        \* the keys that expire have expired
          calls, faults,
          last         \* the last write, for the properties

vars == <<kind, disk, store, synced, late, calls, faults, last>>

Secrets == Passwords \cup {NoSecret}

Keys == [id : KeyIds, kind : {"plain", "hash", "other"}, secret : Secrets,
         enabled : BOOLEAN, expires : BOOLEAN]

Records == [enabled : BOOLEAN, roles : SUBSET Roles, keys : Seq(Keys)]

NoUsers == [u \in Users |-> None]

\* Records for some of the users
Tables == [Users -> Records \cup {None}]

\* The changes of a store.
Changes ==
    [op : {"save", "clear"}]
    \cup [op : {"addUser"}, user : Users, record : Records]
    \cup [op : {"removeUser", "enable", "disable"}, user : Users]
    \cup [op : {"setRoles"}, user : Users, roles : SUBSET Roles]
    \cup [op : {"addRole", "removeRole"}, user : Users, role : Roles]
    \cup [op : {"addKey", "updateKey"}, user : Users, key : Keys]
    \cup [op : {"removeKey", "enableKey", "disableKey"}, user : Users, id : KeyIds]

\* An update changes the profile as well, which no other command does.
ProfileChanges == [op : {"setProfile"}, user : Users, enabled : BOOLEAN]

IsCommand(c) ==
    \/ /\ c.cmd \in {"add", "update"}
       /\ c.user \in Users
       /\ {c.option, c.argument, c.line} \subseteq Secrets
       /\ c.roles = None \/ c.roles \subseteq Roles
    \/ c.cmd = "keyAdd" /\ c.user \in Users /\ c.id \in KeyIds /\ c.option \in Secrets
    \/ c.cmd \in {"change", "call"} /\ c.change \in Changes

StoreAssumption ==
    /\ Main \in KeyIds /\ Operator \in Roles
    /\ None \notin Records \cup Stores
    /\ Missing \notin Tables /\ Broken \notin Tables
    /\ Images \subseteq Tables \cup {Missing, Broken}
    /\ Kinds \subseteq {"file", "json", "volume", "rootless"}
    /\ \A c \in Commands : IsCommand(c)
    /\ MaxCalls \in Nat /\ MaxFaults \in Nat

ASSUME StoresAreSane == StoreAssumption

-------------------------------------------------------------------------------
(* Passwords.                                                              *)

\* makePasswordKeyForAlgorithm: "-H plain" or the name of a digest
PasswordKey(id, p, alg) ==
    [id |-> id, kind |-> IF alg = "plain" THEN "plain" ELSE "hash", secret |-> p,
     enabled |-> TRUE, expires |-> FALSE]

\* passwordMatchesAuthKey: nothing matches a plain key without a password
Matches(key, p, expired) ==
    /\ key.enabled
    /\ ~(expired /\ key.expires)
    /\ key.secret = p
    /\ \/ key.kind = "hash"
       \/ key.kind = "plain" /\ p # Empty

\* verifyUserPassword
Verifies(users, u, p, expired) ==
    /\ users[u] # None
    /\ users[u].enabled
    /\ \E i \in DOMAIN users[u].keys : Matches(users[u].keys[i], p, expired)

-------------------------------------------------------------------------------
(* Changes of a record (DefaultUserStore).                                 *)

\* enableKey, disableKey and updateKey stop at the first key of that id
IsFirst(keys, i, id) == keys[i].id = id /\ \A j \in 1..(i - 1) : keys[j].id # id

Switched(keys, id, on) ==
    [i \in DOMAIN keys |-> IF IsFirst(keys, i, id) THEN [keys[i] EXCEPT !.enabled = on] ELSE keys[i]]

\* updateKey
Replaced(keys, key) ==
    IF \A i \in DOMAIN keys : keys[i].id # key.id THEN Append(keys, key)
    ELSE [i \in DOMAIN keys |-> IF IsFirst(keys, i, key.id) THEN key ELSE keys[i]]

\* The n-th of the positions S
Nth(S, n) == CHOOSE i \in S : Cardinality({j \in S : j <= i}) = n

\* removeKey takes every key of that id
Without(keys, id) ==
    LET kept == {i \in DOMAIN keys : keys[i].id # id}
    IN  [n \in 1..Cardinality(kept) |-> keys[Nth(kept, n)]]

EnabledAgain(r, c) == [r EXCEPT !.enabled = TRUE]

ProfileSet(r, c) == [r EXCEPT !.enabled = c.enabled]

\* What a change makes of the record r of the user it is about.
Edited(r, c) ==
    CASE c.op = "setProfile" -> ProfileSet(r, c)
      [] c.op = "enable"     -> [r EXCEPT !.enabled = TRUE]
      [] c.op = "disable"    -> [r EXCEPT !.enabled = FALSE]
      [] c.op = "setRoles"   -> [r EXCEPT !.roles = c.roles]
      [] c.op = "addRole"    -> [r EXCEPT !.roles = @ \cup {c.role}]
      [] c.op = "removeRole" -> [r EXCEPT !.roles = @ \ {c.role}]
      [] c.op = "addKey"     -> [r EXCEPT !.keys = Append(@, c.key)]
      [] c.op = "updateKey"  -> [r EXCEPT !.keys = Replaced(@, c.key)]
      [] c.op = "removeKey"  -> [r EXCEPT !.keys = Without(@, c.id)]
      [] c.op = "enableKey"  -> [r EXCEPT !.keys = Switched(@, c.id, TRUE)]
      [] c.op = "disableKey" -> [r EXCEPT !.keys = Switched(@, c.id, FALSE)]

\* requireUser throws; addUser, removeUser and clear do not need it
Possible(users, c) ==
    IF c.op \in {"addUser", "removeUser", "clear", "save"} THEN TRUE ELSE users[c.user] # None

Changed(users, c) ==
    CASE c.op = "save"       -> users
      [] c.op = "clear"      -> NoUsers
      [] c.op = "addUser"    -> [users EXCEPT ![c.user] = c.record]
      [] c.op = "removeUser" -> [users EXCEPT ![c.user] = None]
      [] OTHER               -> [users EXCEPT ![c.user] = Edited(@, c)]

-------------------------------------------------------------------------------
(* The backing.  A registry store holds a document beside the records.     *)

IsJson(k) == k \in {"json", "rootless"}

Read(d) == IF d \in {Missing, Broken} THEN NoUsers ELSE d

\* loadFromRegistry lists the nodes below the prefix and loads those that are users: not
\* the node "a" holds for "a.b", and nothing when there is no prefix.
Listed(k, doc) ==
    CASE k = "rootless" -> NoUsers
      [] k = "json"     -> [u \in Users |-> IF Node[u] = u THEN doc[u] ELSE None]
      [] OTHER          -> doc

\* A VolumeRegistry does not remember that there was no container: it looks again.
Opened(k, d) ==
    [up |-> TRUE, users |-> Listed(k, Read(d)), dirty |-> FALSE, job |-> <<>>,
     doc |-> IF k = "volume" /\ d \in {Missing, Broken} THEN Missing ELSE Read(d)]

Closed == [up |-> FALSE, users |-> NoUsers, dirty |-> FALSE, job |-> <<>>, doc |-> Missing]

Document(st) == IF st.doc = Missing THEN Read(disk) ELSE st.doc

\* Of a JsonRegistry, what is kept in the node of u goes with it.
NodeWritten(k, doc, u, r) ==
    [v \in Users |-> IF v = u THEN r ELSE IF IsJson(k) /\ Node[v] = u THEN None ELSE doc[v]]

\* writeUser, removeUserFromRegistry
Saved(k, st, c) ==
    LET users == Changed(st.users, c)
        doc   == Document(st)
    IN  IF k = "file" THEN users
        ELSE CASE c.op = "save"  -> doc
               [] c.op = "clear" -> [v \in Users |->
                     IF st.users[v] # None \/ (IsJson(k) /\ st.users[Node[v]] # None) THEN None ELSE doc[v]]
               [] OTHER -> NodeWritten(k, doc, c.user, users[c.user])

\* cacheSaveFragment writes an empty container first where there is none.
NoContainer(st) == st.doc = Missing /\ disk \in {Missing, Broken}

NeedsWriteUnlessRemoved(k, st, c) ==
    k = "volume" => st.dirty \/ (c.op # "removeUser" /\ Saved(k, st, c) # Document(st))

\* The write that a change ends with: a VolumeRegistry writes a container that is marked,
\* and the mark stays when the write fails.
NeedsWrite(k, st, c) == k = "volume" => st.dirty \/ Saved(k, st, c) # Document(st)

\* How the write may end.  "lost": it fails when the stream is closed, and nobody hears of
\* it.  "emptied": the first write of a container went well, the second did not.
Outcomes(k, st, c) ==
    IF ~NeedsWrite(k, st, c) THEN {"none"}
    ELSE {"done"} \cup (IF faults = MaxFaults THEN {} ELSE {"refused", "cut", "lost"})
                  \cup (IF faults < MaxFaults /\ k = "volume" /\ NoContainer(st) THEN {"emptied"} ELSE {})

Thrown(o) == o \in {"refused", "cut", "emptied"}

DiskAfter(k, st, c, o) ==
    CASE o = "done"    -> Saved(k, st, c)
      [] o = "emptied" -> NoUsers
      [] o \in {"cut", "lost"} -> Broken
      [] OTHER         -> disk

\* A container that could not be made is not in the cache.
After(k, st, c, o, rest) ==
    [up    |-> TRUE,
     users |-> Changed(st.users, c),
     doc   |-> IF k = "volume" /\ NoContainer(st) /\ o \in {"refused", "cut", "none"} THEN Missing
               ELSE Saved(k, st, c),
     dirty |-> k = "volume" /\ Thrown(o) /\ ~(NoContainer(st) /\ o # "emptied"),
     job   |-> IF Thrown(o) THEN <<>> ELSE rest]

\* A store follows the file again once a write of all it has went well; a VolumeRegistry
\* that does not may have taken over a container it did not load.
SyncedAfter(k, s, o) ==
    CASE o = "done" -> IF k # "volume" \/ s \in synced THEN {s} ELSE {}
      [] o = "none" -> synced
      [] o = "refused" -> synced \ {s}
      [] OTHER -> {}

Apply(s, plan) ==
    LET c == Head(plan)
        st == store[s]
    IN  /\ Possible(st.users, c)
        /\ \E o \in Outcomes(kind, st, c) :
              /\ store' = [store EXCEPT ![s] = After(kind, st, c, o, Tail(plan))]
              /\ disk' = DiskAfter(kind, st, c, o)
              /\ synced' = SyncedAfter(kind, s, o)
              /\ faults' = IF o \in {"done", "none"} THEN faults ELSE faults + 1
              /\ last' = [by |-> s, change |-> c, out |-> o]
        /\ UNCHANGED <<kind, late>>

-------------------------------------------------------------------------------
(* The commands.  A plan is the sequence of changes that one makes, each   *)
(* with its own write; a command that is refused has none.                 *)

Supported(alg) == alg # "unsupported"

\* parseUserWriteOptions, resolvePasswordInput: of -p and the last argument, or a line of
\* the standard input when both are missing; NoSecret when there is none or one too many.
PasswordOf(c) ==
    CASE c.option # NoSecret /\ c.argument # NoSecret -> NoSecret
      [] c.option # NoSecret /\ c.argument = NoSecret -> c.option
      [] c.option = NoSecret /\ c.argument # NoSecret -> c.argument
      [] OTHER -> c.line

PlanAdd(users, u, p, alg, roles) ==
    IF users[u] # None \/ p = NoSecret \/ ~Supported(alg) THEN <<>>
    ELSE <<[op |-> "addUser", user |-> u,
            record |-> [enabled |-> TRUE, roles |-> IF roles = None THEN {Operator} ELSE roles,
                        keys |-> <<PasswordKey(Main, p, alg)>>]]>>

\* setMainPasswordKey
MainKeyOnly(u, keys, p, alg) ==
    [n \in 1..Cardinality({i \in DOMAIN keys : keys[i].id = Main}) |->
         [op |-> "removeKey", user |-> u, id |-> Main]]
    \o <<[op |-> "addKey", user |-> u, key |-> PasswordKey(Main, p, alg)]>>

\* There always is a password: an update of something else replaces it as well.
PlanUpdate(users, u, p, alg, roles) ==
    IF users[u] = None \/ p = NoSecret \/ ~Supported(alg) THEN <<>>
    ELSE <<[op |-> "setProfile", user |-> u, enabled |-> users[u].enabled]>>
         \o (IF roles = None THEN <<>> ELSE <<[op |-> "setRoles", user |-> u, roles |-> roles]>>)
         \o MainKeyOnly(u, users[u].keys, p, alg)

\* "user key add" takes a password from -p only: the type password-hash with the algorithm plain makes a plain key
PlanKeyAdd(users, u, id, type, p, alg) ==
    IF users[u] = None \/ (p # NoSecret /\ type = "other") THEN <<>>
    ELSE CASE p = NoSecret -> <<[op |-> "addKey", user |-> u,
                                 key |-> [PasswordKey(id, NoSecret, "plain") EXCEPT !.kind = "other"]]>>
           [] p # NoSecret /\ type = "plain" ->
                 <<[op |-> "addKey", user |-> u, key |-> PasswordKey(id, p, "plain")]>>
           [] p # NoSecret /\ type # "plain" ->
                 IF Supported(alg)
                 THEN <<[op |-> "addKey", user |-> u, key |-> PasswordKey(id, p, alg)]>> ELSE <<>>

\* Every other command asks hasUser and makes one change; "user key del", "save" and the
\* calls that no command makes do not ask.
Plan(users, c) ==
    CASE c.cmd = "add"    -> PlanAdd(users, c.user, PasswordOf(c), c.alg, c.roles)
      [] c.cmd = "update" -> PlanUpdate(users, c.user, PasswordOf(c), c.alg, c.roles)
      [] c.cmd = "keyAdd" -> PlanKeyAdd(users, c.user, c.id, c.type, c.option, c.alg)
      [] c.cmd = "change" -> IF users[c.change.user] = None THEN <<>> ELSE <<c.change>>
      [] c.cmd = "call"   -> <<c.change>>

Fits(users) == \A u \in Users : users[u] # None => Len(users[u].keys) <= MaxKeys

-------------------------------------------------------------------------------
Init ==
    /\ kind \in Kinds
    /\ disk \in Images
    /\ store = [s \in Stores |-> Closed]
    /\ synced = {}
    /\ late = FALSE
    /\ calls = 0
    /\ faults = 0
    /\ last = [by |-> None]

Ask(s, c) ==
    /\ calls < MaxCalls
    /\ store[s].up
    /\ store[s].job = <<>>
    /\ Plan(store[s].users, c) # <<>>
    /\ calls' = calls + 1
    /\ Apply(s, Plan(store[s].users, c))
    /\ Fits(store'[s].users)

Continue(s) ==
    /\ store[s].job # <<>>
    /\ Apply(s, store[s].job)
    /\ UNCHANGED calls

\* The constructor, and "reload": a JsonRegistry cannot be opened on a broken file, and
\* throws before anything is changed.
Open(s) ==
    /\ store[s].job = <<>>
    /\ ~(IsJson(kind) /\ disk = Broken)
    /\ store' = [store EXCEPT ![s] = Opened(kind, disk)]
    /\ synced' = synced \cup {s}
    /\ last' = [by |-> None]
    /\ UNCHANGED <<kind, disk, late, calls, faults>>

\* The process ends, between two writes of a command as well.
End(s) ==
    /\ store[s].up
    /\ store' = [store EXCEPT ![s] = Closed]
    /\ synced' = synced \ {s}
    /\ last' = [by |-> None]
    /\ UNCHANGED <<kind, disk, late, calls, faults>>

Expire ==
    /\ ~late
    /\ late' = TRUE
    /\ last' = [by |-> None]
    /\ UNCHANGED <<kind, disk, store, synced, calls, faults>>

Next ==
    \/ \E s \in Stores, c \in Commands : Ask(s, c)
    \/ \E s \in Stores : Continue(s)
    \/ \E s \in Stores : Open(s)
    \/ \E s \in Stores : End(s)
    \/ Expire

Spec == Init /\ [][Next]_vars

-------------------------------------------------------------------------------
(* Properties                                                              *)

TypeOK ==
    /\ kind \in Kinds
    /\ disk \in Tables \cup {Missing, Broken}
    /\ store \in [Stores -> [up : BOOLEAN, users : Tables, dirty : BOOLEAN,
                             job : Seq(Changes), doc : Tables \cup {Missing}]]
    /\ synced \subseteq {s \in Stores : store[s].up}
    /\ calls \in 0..MaxCalls /\ faults \in 0..MaxFaults

\* Users that a load does not bring back although they were written: a name with a dot
\* under a JsonRegistry, and everyone when the prefix is empty.
Unlisted(u) == kind = "rootless" \/ (kind = "json" /\ Node[u] # u)

\* Whatever was changed one record at a time: while no other store has written and its last
\* write went well, what a store would load again is what it has in memory.
DiskFollowsMemory ==
    \A s \in synced : \A u \in Users :
        Unlisted(u) \/ Listed(kind, Read(disk))[u] = store[s].users[u]

Written == last'.by # None

ByStale == last'.by \notin synced

\* What the change gives user u: the password p, or its login or a key back.
Gives(c, u, p) ==
    /\ c.op \notin {"save", "clear"}
    /\ c.user = u
    /\ \/ c.op = "addUser" /\ \E i \in DOMAIN c.record.keys : c.record.keys[i].secret = p
       \/ c.op \in {"addKey", "updateKey"} /\ c.key.secret = p
       \/ c.op \in {"enable", "enableKey"}

\* The key of user u that password p matches is taken away by the change.
Takes(c, u, p) ==
    /\ c.op # "save"
    /\ \/ c.op = "clear"
       \/ c.user = u /\ c.op \in {"removeUser", "disable", "addUser"}
       \/ IsJson(kind) /\ u # Node[u] /\ Node[u] = c.user
       \/ \E i \in DOMAIN disk[u].keys :
             /\ c.user = u
             /\ Matches(disk[u].keys[i], p, late)
             /\ \/ c.op \in {"removeKey", "disableKey"} /\ disk[u].keys[i].id = c.id
                \/ c.op = "updateKey" /\ disk[u].keys[i].id = c.key.id

\* What was kept in the node of another user went with it, and is written again with the
\* next change of its own: memory still has it.
Revives(c, u, p) ==
    /\ IsJson(kind) /\ u # Node[u]
    /\ c.op \notin {"save", "clear"} /\ c.user = u
    /\ Verifies(store[last'.by].users, u, p, late)

\* A password that the file refuses, because it was replaced, its key removed or its user
\* disabled, is accepted again only by a change that gives it, or by one of a user with a
\* dot in the name whose node was overwritten.  One that it accepts is refused after a
\* step only when its key expired, the change takes it, or the file could not be written
\* whole.  Or a store writes that had not seen the change.  An update takes the old
\* password in a write of its own: a process that ends there leaves the user with none.
PasswordsChange ==
    \A u \in Users, p \in Passwords :
        /\ ~Verifies(Read(disk), u, p, late) /\ Verifies(Read(disk'), u, p, late') =>
              Written /\ (ByStale \/ Gives(last'.change, u, p) \/ Revives(last'.change, u, p))
        /\ Verifies(Read(disk), u, p, late) /\ ~Verifies(Read(disk'), u, p, late') =>
              \/ late' # late
              \/ Written /\ (ByStale \/ last'.out \in {"cut", "lost", "emptied"} \/ Takes(last'.change, u, p))

PasswordsChangeKnowingly == [][PasswordsChange]_vars
===============================================================================
