----------------------------- MODULE JsonRegistry -----------------------------
(***************************************************************************)
(* A registry in one document (JsonRegistry) and what those who watch all  *)
(* of it are told (IRegistry::watch): the place, the new value and the old *)
(* one.  A path with dots is its place, and the empty path the root.       *)
(***************************************************************************)
EXTENDS JsonDocument, FiniteSets

CONSTANTS Places,           \* places but the root
          StoredDocuments   \* what the file may hold at first, Nothing for no file

ASSUME DocumentAssumption ==
    /\ Places \subseteq Seq(Tokens) \ {<<>>}
    /\ \A d \in StoredDocuments : d = Nothing \/ IsTree(d)
    /\ Null \notin Values

VARIABLES content,   \* m_doc
          onDisk,    \* what m_load reads and m_save writes
          told,      \* the last call of the slots, if the call made one
          method     \* the last call

documentVars == <<content, onDisk, told, method>>

Parsed(text) == IF text = Nothing THEN EmptyObject ELSE text

DocumentInit ==
    /\ onDisk \in StoredDocuments
    /\ content = Parsed(onDisk)
    /\ told = {}
    /\ method = "load"

Change(f, new, old) == [path |-> f, new |-> new, old |-> old]

\* locate with create: what was not there is an empty object now
WithPlace(f) == IF f \in DOMAIN content THEN content ELSE Put(content, f, EmptyObject)

\* setOption with a value
SetOption(f, v) ==
    /\ content' = Put(content, f, Leaf(v))
    /\ told' = {Change(f, Leaf(v), Option(Located(WithPlace(f), f)))}
    /\ method' = "set"
    /\ UNCHANGED onDisk

\* setOption without one, for remove: what is on the way is made all the same
Unset(f) ==
    /\ content' = Erased(WithPlace(f), f)
    /\ told' = {Change(f, Nothing, Option(Located(WithPlace(f), f)))}
    /\ method' = "unset"
    /\ UNCHANGED onDisk

\* mutant of DelTreeAt: nobody is told
DelTreeSilent(f) ==
    /\ content' = Erased(content, f)
    /\ told' = {}
    /\ method' = "delTree"
    /\ UNCHANGED onDisk

DelTreeAt(f) ==
    LET there == Option(Located(content, f)) # Nothing
    IN  /\ content' = IF there THEN Erased(content, f) ELSE content
        /\ told' = IF there THEN {Change(f, Nothing, Located(content, f))} ELSE {}
        /\ method' = "delTree"
        /\ UNCHANGED onDisk

\* delTree of the root leaves null, which is no object any more
DelTreeRoot ==
    LET there == Option(content) # Nothing
    IN  /\ content' = IF there THEN Leaf(Null) ELSE content
        /\ told' = IF there THEN {Change(<<>>, Nothing, content)} ELSE {}
        /\ method' = "delTree"
        /\ UNCHANGED onDisk

\* setJson: what is told of is the value after it was moved into its place, which is null
SetJson(f, sub) ==
    LET d == IF IsObject(content) THEN content ELSE EmptyObject
    IN  /\ content' = Put(d, f, sub)
        /\ told' = {Change(f, Nothing, Option(Located(IF f \in DOMAIN d THEN d ELSE Put(d, f, EmptyObject), f)))}
        /\ method' = "setJson"
        /\ UNCHANGED onDisk

\* setJson of the root
Replace(sub) ==
    /\ content' = sub
    /\ told' = {Change(<<>>, Option(sub), Option(IF IsObject(content) THEN content ELSE EmptyObject))}
    /\ method' = "setJson"
    /\ UNCHANGED onDisk

Reset ==
    /\ content' = EmptyObject
    /\ told' = {}
    /\ method' = "load"
    /\ UNCHANGED onDisk

\* load throws when the root of the file is no object
Load ==
    /\ content' = IF IsObject(Parsed(onDisk)) THEN Parsed(onDisk) ELSE content
    /\ told' = {}
    /\ method' = "load"
    /\ UNCHANGED onDisk

Save ==
    /\ onDisk' = content
    /\ told' = {}
    /\ method' = "save"
    /\ UNCHANGED content

DocumentNext ==
    \/ \E f \in Places, v \in Values : SetOption(f, v)
    \/ \E f \in Places : Unset(f)
    \/ \E f \in Places : DelTreeAt(f)
    \/ DelTreeRoot
    \/ \E f \in Places, v \in Values : SetJson(f, Leaf(v))
    \/ \E f \in Places : SetJson(f, EmptyObject)
    \/ \E v \in Values : Replace(Leaf(v))
    \/ Reset
    \/ Load
    \/ Save

DocumentSpec == DocumentInit /\ [][DocumentNext]_documentVars

-------------------------------------------------------------------------------

\* The values that are at a place: one or none.
ValuesAt(d, f) == IF f \in DOMAIN d THEN {d[f]} \ {Obj} ELSE {}

\* A value changes only in a load, or with those who watch everything told of the place
\* itself, of one above it, or of one below it, whose way it was in; and what they are told
\* is there now is there, unless it was put there by setJson, which tells of a value it has
\* moved from.
WatchersTold ==
    /\ \A f \in DOMAIN content \cup DOMAIN content' :
          ValuesAt(content', f) # ValuesAt(content, f) =>
              \/ method' = "load"
              \/ \E c \in told' : IsAtOrUnder(c.path, f) \/ f \in OnTheWayTo(c.path)
    /\ \A c \in told' :
          \/ c.new = Option(Located(content', c.path))
          \/ method' = "setJson" /\ c.path # <<>> /\ c.new = Nothing

WatchersFollow == [][WatchersTold]_documentVars
===============================================================================
