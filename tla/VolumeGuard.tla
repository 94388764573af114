------------------------------ MODULE VolumeGuard ------------------------------
(***************************************************************************)
(* A volume behind a guard (VolumeAccessor): every call that reads, writes *)
(* or lists asks the policy of the volume first, by the identities that    *)
(* are logged in for it or by a subject lent for the purpose, and may have *)
(* somebody log in.  The calls a user makes (Volume) look at the volume    *)
(* unasked and make several guarded calls of their own; a file handle      *)
(* (VolumeFile) passes its calls on to the volume.                         *)
(*                                                                         *)
(* A call is given the text of a path.  The volume inside resolves it, and *)
(* so do the calls that make, remove, copy and move before they ask; those *)
(* that read, write and list ask for the text as it is.                    *)
(*                                                                         *)
(* A login is what SecurityManager::login comes to; its steps are those of *)
(* SecuritySession.                                                        *)
(***************************************************************************)
EXTENDS AccessPolicy, PermissionPatterns

CONSTANTS Nodes,      \* the paths there are, but the root
          Texts,      \* what is written for them (PermissionPatterns)
          Layouts,    \* what the paths hold at first
          Media,      \* the volumes that may be at the root: uuid, label and url
          Locals,     \* the paths whose files are local files, with a name of their own
          Uuids,      \* the uuids a user sets
          Autos,      \* identities of services that log in by themselves
          Users,      \* names of the users who can log in
          Lendable,   \* subjects: sets of identities
          Policies,   \* sets of entries, [type, name, realm, pattern, effect]
          VolumeType

VARIABLES inner,      \* what is at the root, and what the volume's object keeps of it
          realm,      \* the guard's m_realm
          active,     \* SecurityManager's m_activeIdentities
          lent,       \* m_elevation: no subject or one
          grants,     \* the entries of the volume's policy
          nodes,      \* what is at the paths: "none", "dir", or the content of a file
          said        \* the last call and what came of it

guardVars == <<inner, realm, active, lent, grants, nodes, said>>

Actions == {"list", "read", "write", "delete"}

Root == <<>>
Above(p) == SubSeq(p, 1, Len(p) - 1)

\* A path as it is written once it is resolved.
Path(p) == <<"">> \o p

\* normalize: "" and "." say nothing, and ".." goes up, but not out of the volume.
Resolved(text) ==
    LET upTo[n \in 0..Len(text)] ==
            IF n = 0 THEN Root
            ELSE IF text[n] = ".." THEN Above(upTo[n - 1])
            ELSE IF text[n] \in {"", "."} THEN upTo[n - 1]
            ELSE Append(upTo[n - 1], text[n])
    IN upTo[Len(text)]

\* A volume has a type, a path names, of which none goes elsewhere, and those above it
\* are paths too; texts are for paths, and one is the path's own; a permission is an
\* action and a text; entries have patterns, and every path holds something at first.
ASSUME GuardAssumption ==
    /\ VolumeType # Empty
    /\ \A p \in Nodes : IsTokens(p) /\ p # Root /\ \A i \in DOMAIN p : p[i] \notin {"", ".", ".."}
    /\ \A p \in Nodes : (Len(p) > 1 => Above(p) \in Nodes) /\ Path(p) \in Texts
    /\ \A text \in Texts : IsText(text) /\ Resolved(text) \in Nodes
    /\ Permissions = Actions \X Texts
    /\ \A policy \in Policies : \A g \in policy : IsPattern(g.pattern)
    /\ \A l \in Layouts : l = [p \in Nodes |-> l[p]]

-------------------------------------------------------------------------------
(* Who counts, and what they may.                                          *)

\* realmForVolume
RealmOf(m) == [type |-> VolumeType, uuid |-> m.uuid, name |-> IF m.uuid = Empty THEN m.url ELSE m.label]

Login(type, name, r) == [type |-> type, name |-> name, realm |-> r, login |-> TRUE]

\* mutant of Counted: who is logged in anywhere counts
CountedAll(ids, r) == ids
\* authorizationIdentities: who logged in counts for his realm alone.
Counted(ids, r) ==
    {i \in ids : i.login => Match(i.realm, r) \/ Same(i.realm, r)}

Sources(ids) == IF lent = {} THEN ids ELSE UNION lent

\* An entry as the decision sees it, for a permission that its pattern takes in.
Entry(g, perm) == [type |-> g.type, name |-> g.name, realm |-> g.realm, perm |-> perm,
                   effect |-> g.effect, spec |-> Specificity(g.pattern)]

Bearing == [policy \in Policies |-> [perm \in Permissions |->
               {Entry(g, perm) : g \in {e \in policy : Matches(e.pattern, perm)}}]]

Decided(ids, perm) == Decide(Bearing[grants][perm], Counted(Sources(ids), realm), perm)

\* SecurityManager::login: nobody, or a user, for the guard's realm or another one he
\* typed, in the place of whoever was logged in there.
LoginOutcomes(ids) ==
    {ids} \cup {{i \in ids : ~(i.login /\ ScopedEqual(i.realm, r))} \cup {Login("user", u, r)} :
                 u \in Users, r \in {realm} \cup {RealmOf(m) : m \in Media}}

\* require: whether it passes, and who is logged in then.  by: everybody who was
\* logged in when something passed.
Require(o, perm) ==
    IF Decided(o.active, perm) = "Allow" THEN {[o EXCEPT !.by = @ \cup {o.active}]}
    ELSE IF Decided(o.active, perm) = "Deny" \/ lent # {} THEN {[o EXCEPT !.ok = FALSE]}
    ELSE {IF Decided(ids, perm) = "Allow"
          THEN [o EXCEPT !.active = ids, !.by = @ \cup {ids}]
          ELSE [o EXCEPT !.active = ids, !.ok = FALSE] : ids \in LoginOutcomes(o.active)}

\* One permission after another, up to the first that is refused.
RequireAll(o, perms) ==
    LET after[n \in 0..Len(perms)] ==
            IF n = 0 THEN {o} ELSE UNION {IF x.ok THEN Require(x, perms[n]) ELSE {x} : x \in after[n - 1]}
    IN after[Len(perms)]

\* What a guarded call needs for the texts it is given.
Needed(op, t, u) ==
    CASE op = "list" -> <<<<"list", t>>>>
      [] op \in {"read", "open"} -> <<<<"read", t>>>>
      [] op \in {"write", "stream", "mkdir"} -> <<<<"write", t>>>>
      [] op \in {"remove", "rmdir"} -> <<<<"delete", t>>>>
      [] op = "copy" -> <<<<"read", t>>, <<"write", u>>>>
      [] op = "move" -> <<<<"read", t>>, <<"write", u>>, <<"delete", t>>>>

-------------------------------------------------------------------------------
(* The volume inside.                                                      *)

HasPlace(ns, p) == Len(p) = 1 \/ ns[Above(p)] = "dir"
IsNone(ns, p) == ns[p] = "none"
HoldsFile(ns, p) == ns[p] \notin {"none", "dir"}
Full(ns, p) == \E q \in Nodes : Len(q) > Len(p) /\ SubSeq(q, 1, Len(p)) = p /\ ~IsNone(ns, q)
\* A file goes into a directory it is sent to.
Into(ns, p, q) == IF ns[q] = "dir" THEN Append(q, p[Len(p)]) ELSE q

\* What the calls make of the paths; one that fails leaves them.
Applied(ns, op, p, q) ==
    CASE op \in {"write", "stream"} /\ HasPlace(ns, p) /\ ns[p] # "dir" -> [ns EXCEPT ![p] = "new"]
      [] op = "mkdir" /\ HasPlace(ns, p) /\ IsNone(ns, p) -> [ns EXCEPT ![p] = "dir"]
      [] op \in {"remove", "rmdir"} /\ ~Full(ns, p) -> [ns EXCEPT ![p] = "none"]
      [] op \in {"copy", "move"} /\ HoldsFile(ns, p) /\ HasPlace(ns, q) /\ ns[q] # "dir" /\ p # q ->
            [ns EXCEPT ![q] = ns[p], ![p] = IF op = "move" THEN "none" ELSE @]
      [] OTHER -> ns

-------------------------------------------------------------------------------
(* The calls.  made: the guarded calls that were let through; checked: the *)
(* permissions a check has said are there; told: what the caller hears.     *)

Silent == [made |-> {}, by |-> {}, checked |-> {}, told |-> "nothing"]

GuardInit ==
    /\ inner \in {[medium |-> m, known |-> m] : m \in Media}
    /\ realm = RealmOf(inner.medium)
    /\ active = {} /\ lent = {}
    /\ grants \in Policies
    /\ nodes \in Layouts
    /\ said = Silent

Start == [active |-> active, nodes |-> nodes, made |-> {}, by |-> {}, ok |-> TRUE]

\* A guarded call that is let through when everything it needs is allowed; the volume
\* resolves what it is given.
Done(o, op, t, u) ==
    {IF x.ok THEN [x EXCEPT !.nodes = Applied(@, op, Resolved(t), Resolved(u)), !.made = @ \cup {<<op, t, u>>}]
     ELSE x : x \in RequireAll([o EXCEPT !.ok = TRUE], Needed(op, t, u))}

EndsWith(o, told) ==
    /\ active' = o.active /\ nodes' = o.nodes
    /\ said' = [made |-> o.made, by |-> o.by, checked |-> {}, told |-> told]
    /\ UNCHANGED <<inner, realm, lent, grants>>

Ends(o) == EndsWith(o, IF o.ok THEN "done" ELSE "failed")

\* What a call looks at first, which nobody is asked for: readFile and its relatives,
\* writeFile, createDirectory, removeFile and removeDirectory.  Streams do not look.
Looks(op, p) ==
    /\ op \in {"read", "remove"} => HoldsFile(nodes, p)
    /\ op = "write" => nodes[p] # "dir"
    /\ op = "mkdir" => IsNone(nodes, p)
    /\ op = "rmdir" => nodes[p] = "dir"

\* The calls of a volume and of a file handle: what they do, what a handle without
\* volume or path answers, and what comes of a refusal.
Forwarded(op, unset, refused) == [op |-> op, unset |-> unset, refused |-> refused]

\* readFile, readFileUTF8, readFileString; those with a default; readLines with one.
ReadCalls ==
    {Forwarded("read", "failed", "failed"), Forwarded("read", "failed", "default"),
     Forwarded("read", "default", "default")}

\* readLines, which reads a stream; cReadFile, the streams and readers; cWriteFile, the
\* output streams and writers.
StreamCalls ==
    {Forwarded("open", "failed", "failed"), Forwarded("open", "default", "failed"),
     Forwarded("stream", "default", "failed")}

\* writeFile, writeFileString, writeLines
WriteCalls == {Forwarded("write", "failed", "failed")}

\* createDirectory, removeDirectory, removeFile, readDir.  The first three are passed on
\* without a look at the path, which the volume refuses.
DirectoryCalls == {Forwarded(op, "failed", "failed") : op \in {"mkdir", "rmdir", "remove", "list"}}

\* The calls that make and remove resolve the text themselves.
AskedFor(op, text) == IF op \in {"mkdir", "rmdir", "remove"} THEN Path(Resolved(text)) ELSE text

Call(c, text) ==
    IF ~Looks(c.op, Resolved(text)) THEN EndsWith(Start, c.refused)
    ELSE \E o \in Done(Start, c.op, AskedFor(c.op, text), AskedFor(c.op, text)) :
            EndsWith(o, IF o.ok THEN "done" ELSE c.refused)

UnsetCall(c) == EndsWith(Start, c.unset)

\* exportToTempFile hands out the name of a local file, and copies what can be read
\* of any other.
Export(text) ==
    IF Resolved(text) \in Locals THEN EndsWith(Start, "name")
    ELSE Call(Forwarded("read", "default", "default"), text)

\* createDirectories, of what its text is resolved to: from the top, up to the first
\* that fails.
MakeDirectories(p) ==
    /\ IsNone(nodes, p)
    /\ \E o \in IF HasPlace(nodes, p) THEN Done(Start, "mkdir", Path(p), Path(p))
                ELSE IF ~IsNone(nodes, Above(p)) THEN {[Start EXCEPT !.ok = FALSE]}
                ELSE UNION {IF o.ok THEN Done(o, "mkdir", Path(p), Path(p)) ELSE {o} :
                               o \in Done(Start, "mkdir", Path(Above(p)), Path(Above(p)))} :
          Ends(o)

\* copyFile, moveFile, rename, of what their texts are resolved to: what is in the way is
\* removed first, when it is to be overwritten; a copy goes on when that fails.  rename
\* asks for what move asks for.  Directories with something in them are not moved here.
Transfer(op, p, q, overwrite) ==
    /\ q \in Nodes
    /\ ~IsNone(nodes, p) /\ ~Full(nodes, p) /\ (op = "copy" => HoldsFile(nodes, p))
    /\ IF IsNone(nodes, q) THEN \E o \in Done(Start, op, Path(p), Path(q)) : Ends(o)
       ELSE /\ overwrite
            /\ \E o \in UNION {IF x.ok \/ op = "copy" THEN Done(x, op, Path(p), Path(q)) ELSE {x} :
                              x \in IF HoldsFile(nodes, q) THEN Done(Start, "remove", Path(q), Path(q))
                                    ELSE {[Start EXCEPT !.ok = FALSE]}} :
                  Ends(o)

\* check: what is not decided is refused, and nobody is asked to log in.
Check(perm) ==
    /\ said' = [Silent EXCEPT !.checked = IF Normalize(Decided(active, perm)) = "Allow" THEN {perm} ELSE {}]
    /\ UNCHANGED <<inner, realm, active, lent, grants, nodes>>

Lend(s) ==
    /\ lent = {} /\ lent' = {s} /\ said' = Silent
    /\ UNCHANGED <<inner, realm, active, grants, nodes>>
ClearElevation ==
    /\ lent # {} /\ lent' = {} /\ said' = Silent
    /\ UNCHANGED <<inner, realm, active, grants, nodes>>

\* setUuid of the guard writes through to the volume; its object keeps what it knew.
SetUuid(u) ==
    /\ inner' = [inner EXCEPT !.medium.uuid = u]
    /\ said' = Silent
    /\ UNCHANGED <<realm, active, lent, grants, nodes>>

\* Another medium at the root, with a policy of its own.
Insert(m, policy) ==
    /\ m # inner.medium
    /\ inner' = [inner EXCEPT !.medium = m] /\ grants' = policy /\ said' = Silent
    /\ UNCHANGED <<realm, active, lent, nodes>>

\* A guard for the volume's object, or for a new one, which asks for what it names.
Guard(new) ==
    \E known \in {IF new THEN inner.medium ELSE inner.known} :
        /\ inner' = [inner EXCEPT !.known = known]
        /\ realm' = RealmOf(known)
        /\ lent' = {} /\ said' = Silent
        /\ UNCHANGED <<active, grants, nodes>>

\* Logins and logouts elsewhere in the program.
LogInElsewhere ==
    \E ids \in LoginOutcomes(active) \cup {active \cup Autos, {i \in active : ~i.login}} :
        /\ active' = ids /\ said' = Silent
        /\ UNCHANGED <<inner, realm, lent, grants, nodes>>

GuardNext ==
    \/ \E c \in ReadCalls \cup StreamCalls \cup WriteCalls \cup DirectoryCalls : UnsetCall(c) \/ \E text \in Texts : Call(c, text)
    \/ \E text \in Texts : Export(text)
    \/ \E p \in Nodes : MakeDirectories(p)
    \/ \E op \in {"copy", "move"}, p, q \in Nodes, over \in BOOLEAN :
          Transfer(op, p, Into(nodes, p, q), over)
    \/ \E perm \in Permissions : Check(perm)
    \/ \E s \in Lendable : Lend(s)
    \/ ClearElevation
    \/ \E u \in Uuids : SetUuid(u)
    \/ \E m \in Media, policy \in Policies : Insert(m, policy)
    \/ \E new \in BOOLEAN : Guard(new)
    \/ LogInElsewhere

GuardSpec == GuardInit /\ [][GuardNext]_guardVars

-------------------------------------------------------------------------------
(* Properties: of every step.                                              *)

\* A realm names a medium by its uuid, or else by its name, or leaves open which one it
\* means; one without a type that has neither in common with it names another.
Concerns(r, m) ==
    /\ r.type \in {Empty, VolumeType}
    /\ IF r.uuid # Empty /\ m.uuid # Empty THEN r.uuid = m.uuid
       ELSE IF r.name # Empty /\ RealmOf(m).name # Empty THEN r.name = RealmOf(m).name
       ELSE r.type # Empty \/ IsEmpty(r)

\* The entries whose pattern means a permission.
Meant == [policy \in Policies |-> [perm \in Permissions |->
             {Entry(g, perm) : g \in {e \in policy : TakesIn(e.pattern, perm)}}]]

Permitted(ids, perm) ==
    Decide(Meant[grants][perm], {i \in Sources(ids) : i.login => Concerns(i.realm, inner.medium)}, perm) = "Allow"

\* A guarded call reached a path: it was given the path's own text, or wrote to whatever
\* path the text it was given is resolved to.
Reached(c, p) ==
    \/ Path(p) \in {c[2], c[3]}
    \/ c[1] \in {"write", "stream"} /\ p = Resolved(c[2])

AllowedOnly ==
    /\ realm = RealmOf(inner.medium) =>
          /\ \A c \in said'.made : \A n \in DOMAIN Needed(c[1], c[2], c[3]) :
                \E ids \in said'.by : Permitted(ids, Needed(c[1], c[2], c[3])[n])
          /\ \A perm \in said'.checked : Permitted(active, perm)
    /\ lent # {} /\ said'.by # {} => active' = active
    /\ \A p \in Nodes : nodes'[p] # nodes[p] => \E c \in said'.made : Reached(c, p)
    /\ said'.told = "done" => said'.made # {}

\* Whatever a call does inside was allowed, when it was asked for, to the one the guard
\* was lent or to those logged in for what is at the root, for the text the guarded call
\* was given; left out are guards whose realm is no longer that of the root.  A path is
\* made, removed, copied or moved only by a call that was allowed for the path's own
\* text.  It is written by one that was allowed for a text which the volume resolves to
\* it: entries are not asked what is said of the path by another text, and the same goes
\* for reading and listing.  A guard that was lent a subject asks nobody to log in, and
\* nobody is told that something was done that was not.
OnlyAllowedCalls == [][AllowedOnly]_guardVars
===============================================================================
