----------------------------- MODULE OverlayVolume -----------------------------
(***************************************************************************)
(* The calls of the Volume interface on local volumes (LocalVolume) and on *)
(* a stack of them (OverlayVolume): which layer each reads and changes,    *)
(* what it does when a step of it fails, and what is visible afterwards.   *)
(*                                                                         *)
(* A path is the sequence of its names; contents are the chunks that were  *)
(* written to a file.  A volume is used by one thread: a call is one step, *)
(* with every way its parts can end.  An operation of the operating system *)
(* may always fail.                                                        *)
(***************************************************************************)
EXTENDS Naturals, Sequences, FiniteSets

CONSTANTS
    Names,      \* of the entries of directories
    Paths,      \* the paths of the model: calls that would need another one are left out
    Chunks,     \* what is written to files
    Volumes,    \* local volumes
    Overlay,    \* the overlay volume
    Directory, Nothing   \* what a path can denote, besides a file

Root == <<>>

Parent(p) == SubSeq(p, 1, Len(p) - 1)

Below(p, q) == Len(p) <= Len(q) /\ SubSeq(q, 1, Len(p)) = p

ASSUME PathAssumption ==
    /\ Paths \subseteq Seq(Names)
    /\ Root \in Paths
    /\ \A p \in Paths \ {Root} : Parent(p) \in Paths

ASSUME ValueAssumption ==
    /\ IsFiniteSet(Volumes)
    /\ Directory # Nothing
    /\ \A c \in SUBSET Chunks : c \notin {Directory, Nothing}
    /\ Overlay \notin Volumes

Contents == SUBSET Chunks

Trees == [Paths -> {Directory, Nothing} \cup Contents]

VARIABLES
    trees,  \* what each volume holds
    stack,  \* m_layers of the overlay, the top layer last
    last    \* the last call: its name, the volume it was made on, its paths as
            \* resolved, and whether it succeeded

vars == <<trees, stack, last>>

Calls == {"none", "write", "stream", "append", "createDirectory", "createDirectories",
          "createDirectoriesThrows", "removeDirectory", "removeFile", "copyFile", "moveFile",
          "rename", "layers"}

Stacks == {s \in UNION {[1..n -> Volumes] : n \in 1..Cardinality(Volumes)} :
              \A i, j \in DOMAIN s : s[i] = s[j] => i = j}

TypeOK ==
    /\ trees \in [Volumes -> Trees]
    /\ stack \in Stacks
    /\ last \in [call : Calls, on : Volumes \cup {Overlay}, src : Paths, dest : Paths,
                 ok : BOOLEAN]

-------------------------------------------------------------------------------
(* A local volume: the ways an operation on the tree t can end.            *)

IsFile(e) == e \notin {Directory, Nothing}

Fails(t) == {[tree |-> t, ok |-> FALSE]}

Succeeds(t, p, e) == {[tree |-> [t EXCEPT ![p] = e], ok |-> TRUE]}

CanOpen(t, p) == t[Parent(p)] = Directory /\ t[p] # Directory

\* A file is opened and contents are written to it, of which a part gets there; what an
\* opened file held (kept, when it is opened to append) stays.  The stream is asked
\* whether it is good before it is destroyed, or closed, and only then is the end of
\* what it took written: that this fails is told to nobody.
Put(t, p, kept, contents) ==
    Fails(t) \cup
    IF CanOpen(t, p)
    THEN UNION {Succeeds(t, p, e) \cup IF e = contents THEN {} ELSE Fails([t EXCEPT ![p] = e]) :
                   e \in {x \in SUBSET contents : kept \subseteq x}}
    ELSE {}

\* fs::copy_file and fs::copy, which answer with the error of any of their steps
Copied(t, p, contents) ==
    Fails(t) \cup
    IF CanOpen(t, p)
    THEN Succeeds(t, p, contents) \cup UNION {Fails([t EXCEPT ![p] = e]) : e \in SUBSET contents}
    ELSE {}

\* writeFileUnchecked, newOutputStream(path) with what is written to the stream
Written(t, p, contents) == Put(t, p, {}, contents)

\* newOutputStream(path, append) with what is written to the stream
Appended(t, p, c) ==
    LET kept == IF IsFile(t[p]) THEN t[p] ELSE {}
    IN  Put(t, p, kept, kept \cup {c})

\* createDirectoryThrowsUnchecked
Made(t, p) ==
    Fails(t) \cup IF t[Parent(p)] = Directory /\ t[p] = Nothing THEN Succeeds(t, p, Directory) ELSE {}

\* removeFileThrowsUnchecked and removeDirectoryThrowsUnchecked, which leaves a
\* directory alone that is not empty
Removed(t, p) ==
    Fails(t) \cup
    IF t[p] # Nothing /\ \A q \in Paths : Below(p, q) /\ q # p => t[q] = Nothing
    THEN Succeeds(t, p, Nothing)
    ELSE {}

\* Where src and what is below it would be found below dest.
Moved(p, src, dest) == dest \o SubSeq(p, Len(src) + 1, Len(p))

\* renameFileThrowsUnchecked; the calls have made dest free.
Renamed(t, src, dest) ==
    Fails(t) \cup
    IF t[src] # Nothing /\ t[Parent(dest)] = Directory /\ ~Below(src, dest)
    THEN {[tree |-> [p \in Paths |-> IF Below(dest, p)
                                     THEN LET q == Moved(p, dest, src)
                                          IN  IF q \in Paths THEN t[q] ELSE Nothing
                                     ELSE IF Below(src, p) THEN Nothing ELSE t[p]],
           ok |-> TRUE]}
    ELSE {}

RemovedUncopied(t, src, dest) ==         \* mutant of CopiedAndRemoved
    UNION {Removed(o.tree, src) : o \in Copied(t, dest, t[src])}

\* What moveFileThrowsUnchecked does when it cannot rename: fs::copy, which does
\* nothing with a directory, and fs::remove.
CopiedAndRemoved(t, src, dest) ==
    IF IsFile(t[src])
    THEN UNION {IF o.ok THEN Removed(o.tree, src) ELSE {o} : o \in Copied(t, dest, t[src])}
    ELSE Removed(t, src)

\* moveFileThrowsUnchecked: the error of the renaming is thrown even when the file
\* was moved by copying it.
MovedOver(t, src, dest) ==
    {o \in Renamed(t, src, dest) : o.ok}
        \cup {[tree |-> o.tree, ok |-> FALSE] : o \in CopiedAndRemoved(t, src, dest)}

-------------------------------------------------------------------------------
(* A volume v is its layers, the top layer last, and whether it is an      *)
(* overlay of them or the one local volume.  T is what the volumes hold.   *)

Local(v) == [layers |-> <<v>>, overlay |-> FALSE]

Top(v) == v.layers[Len(v.layers)]

\* The highest of the layers that have an entry for which Has holds; 0: there is none.
Highest(v, Has(_)) ==
    LET having == {i \in DOMAIN v.layers : Has(v.layers[i])}
    IN  IF having = {} THEN 0 ELSE CHOOSE i \in having : \A j \in having : j <= i

\* exists, isFile, isDirectory: layerExists
Look(T, v, p) ==
    LET i == Highest(v, LAMBDA x : T[x][p] # Nothing)
    IN  IF i = 0 THEN Nothing ELSE T[v.layers[i]][p]

ReadLowest(T, v, p) ==                   \* mutant of Read
    LET having == {i \in DOMAIN v.layers : IsFile(T[v.layers[i]][p])}
    IN  IF having = {} THEN Nothing
        ELSE T[v.layers[CHOOSE i \in having : \A j \in having : i <= j]][p]

\* layerForFile, and what is read from it
Read(T, v, p) ==
    LET i == Highest(v, LAMBDA x : IsFile(T[x][p]))
    IN  IF i = 0 THEN Nothing ELSE T[v.layers[i]][p]

Refused(T) == {[trees |-> T, ok |-> FALSE]}

\* The outcomes when x is the volume that ends in one of them.
On(T, x, outcomes) == {[trees |-> [T EXCEPT ![x] = o.tree], ok |-> o.ok] : o \in outcomes}

OnTop(T, v, outcomes) == On(T, Top(v), outcomes)

CopyIntoSource(T, v, src, dest) ==       \* mutant of Copy
    LET i == Highest(v, LAMBDA x : IsFile(T[x][src]))
    IN  IF i = 0 THEN Refused(T)
        ELSE On(T, v.layers[i], Written(T[v.layers[i]], dest, T[v.layers[i]][src]))

\* copyFileThrowsUnchecked.  A local volume refuses to copy a file onto itself; an
\* overlay reads the file, with zeros for what it could not read, and writes that: what
\* is lost of it is missing here, as what could not be written is.
Copy(T, v, src, dest) ==
    IF ~IsFile(Read(T, v, src)) \/ (~v.overlay /\ src = dest) THEN Refused(T)
    ELSE OnTop(T, v, IF v.overlay THEN Written(T[Top(v)], dest, Read(T, v, src))
                     ELSE Copied(T[Top(v)], dest, Read(T, v, src)))

\* moveFileThrowsUnchecked.  An overlay moves files of its top layer only.
Move(T, v, src, dest) ==
    IF v.overlay /\ ~IsFile(T[Top(v)][src]) THEN Refused(T)
    ELSE OnTop(T, v, MovedOver(T[Top(v)], src, dest))

\* renameFileThrowsUnchecked
Rename(T, v, src, dest) == OnTop(T, v, Renamed(T[Top(v)], src, dest))

\* removeFileThrowsUnchecked, removeDirectoryThrowsUnchecked: an overlay asks its
\* top layer, which refuses what it does not have.
Remove(T, v, p) == OnTop(T, v, Removed(T[Top(v)], p))

-------------------------------------------------------------------------------
(* The calls of Volume: every way each can end.                            *)

\* writeFile
WriteFile(T, v, p, contents) ==
    IF Look(T, v, p) = Directory THEN Refused(T) ELSE OnTop(T, v, Written(T[Top(v)], p, contents))

\* newOutputStream: an overlay asks its top layer and looks at no other.
StreamFile(T, v, p, contents) == OnTop(T, v, Written(T[Top(v)], p, contents))

AppendFile(T, v, p, c) == OnTop(T, v, Appended(T[Top(v)], p, c))

CreateDirectory(T, v, p) ==
    IF Look(T, v, p) # Nothing THEN Refused(T) ELSE OnTop(T, v, Made(T[Top(v)], p))

\* The directories above p that are not there yet, and p: the lengths of their paths.
Missing(T, v, p) ==
    LET there == {i \in 0..(Len(p) - 1) : i = 0 \/ Look(T, v, SubSeq(p, 1, i)) = Directory}
    IN  ((CHOOSE i \in there : \A j \in there : j <= i) + 1)..Len(p)

\* They are made one after another, up to the first that cannot be made; when the
\* first can be, nothing is in the way of the others on the top layer.
MadeDown(T, v, p) ==
    LET first == CHOOSE i \in Missing(T, v, p) : \A j \in Missing(T, v, p) : i <= j
        t == T[Top(v)]
        Until(n) == [q \in Paths |-> IF Below(q, p) /\ Len(q) \in first..n THEN Directory ELSE t[q]]
        can == TRUE \in {o.ok : o \in Made(t, SubSeq(p, 1, first))}
    IN  Refused(T) \cup
        IF can THEN OnTop(T, v, {[tree |-> Until(n), ok |-> n = Len(p)] : n \in first..Len(p)}) ELSE {}

\* createDirectories and createParentDirectories, by way of createDirectory, which
\* makes nothing where a file is visible
CreateDirectories(T, v, p) ==
    IF Look(T, v, p) # Nothing
    THEN {[trees |-> T, ok |-> Look(T, v, p) = Directory]}
    ELSE IF \E i \in Missing(T, v, p) : Look(T, v, SubSeq(p, 1, i)) # Nothing
    THEN Refused(T)
    ELSE MadeDown(T, v, p)

\* createDirectoriesThrows, by way of createDirectoryThrowsUnchecked, which looks at
\* the top layer only
CreateDirectoriesThrows(T, v, p) ==
    IF Look(T, v, p) # Nothing
    THEN {[trees |-> T, ok |-> Look(T, v, p) = Directory]}
    ELSE MadeDown(T, v, p)

RemoveDirectory(T, v, p) ==
    IF Look(T, v, p) = Directory THEN Remove(T, v, p) ELSE Refused(T)

RemoveFile(T, v, p) ==
    IF IsFile(Look(T, v, p)) THEN Remove(T, v, p) ELSE Refused(T)

\* A destination that is a directory stands for an entry of that name in it.
Dest(T, v, src, dest) ==
    IF Look(T, v, dest) = Directory THEN Append(dest, src[Len(src)]) ELSE dest

\* The destination is removed before anything is copied or moved to it.
Cleared(T, v, to) ==
    IF Look(T, v, to) = Nothing THEN {[trees |-> T, ok |-> TRUE]} ELSE RemoveFile(T, v, to)

\* copyFile, copyFileThrows: whether the destination was removed is not looked at.
CopyFile(T, v, src, dest, overwrite) ==
    LET to == Dest(T, v, src, dest)
    IN  IF ~IsFile(Look(T, v, src)) \/ (Look(T, v, to) # Nothing /\ ~overwrite) THEN Refused(T)
        ELSE UNION {Copy(o.trees, v, src, to) : o \in Cleared(T, v, to)}

\* What moveFile and rename share.
Relocate(T, v, src, dest, overwrite, Op(_, _, _, _)) ==
    LET to == Dest(T, v, src, dest)
    IN  IF Look(T, v, src) = Nothing \/ (Look(T, v, to) # Nothing /\ ~overwrite) THEN Refused(T)
        ELSE UNION {IF o.ok THEN Op(o.trees, v, src, to) ELSE {o} : o \in Cleared(T, v, to)}

\* moveFile, moveFileThrows
MoveFile(T, v, src, dest, overwrite) == Relocate(T, v, src, dest, overwrite, Move)

\* rename, renameFileThrows
RenameFile(T, v, src, dest, overwrite) == Relocate(T, v, src, dest, overwrite, Rename)

-------------------------------------------------------------------------------
(* Steps.                                                                  *)

Init ==
    /\ trees = [x \in Volumes |-> [p \in Paths |-> IF p = Root THEN Directory ELSE Nothing]]
    /\ stack \in Stacks
    /\ last = [call |-> "none", on |-> Overlay, src |-> Root, dest |-> Root, ok |-> TRUE]

Volume(on) == IF on = Overlay THEN [layers |-> stack, overlay |-> TRUE] ELSE Local(on)

Returns(call, on, src, dest, outcomes) ==
    /\ \E o \in outcomes :
          /\ trees' = o.trees
          /\ last' = [call |-> call, on |-> on, src |-> src, dest |-> dest, ok |-> o.ok]
    /\ UNCHANGED stack

\* The files below src that some layer has find a path of the model below dest.
Fits(v, src, dest) ==
    /\ dest \in Paths
    /\ \A x \in Volumes, p \in Paths :
          Below(src, p) /\ trees[x][p] # Nothing => Moved(p, src, dest) \in Paths

\* Calls with one path, but the root, which exists and can be neither written nor made.
OnePath(on, p) ==
    LET v == Volume(on)
    IN  \/ \E c \in Chunks : Returns("write", on, p, p, WriteFile(trees, v, p, {c}))
        \/ \E c \in Chunks : Returns("stream", on, p, p, StreamFile(trees, v, p, {c}))
        \/ \E c \in Chunks : Returns("append", on, p, p, AppendFile(trees, v, p, c))
        \/ Returns("createDirectory", on, p, p, CreateDirectory(trees, v, p))
        \/ Returns("createDirectories", on, p, p, CreateDirectories(trees, v, p))
        \/ Returns("createDirectoriesThrows", on, p, p, CreateDirectoriesThrows(trees, v, p))
        \/ Returns("removeDirectory", on, p, p, RemoveDirectory(trees, v, p))
        \/ Returns("removeFile", on, p, p, RemoveFile(trees, v, p))

TwoPaths(on, src, dest, overwrite) ==
    LET v == Volume(on)
        to == Dest(trees, v, src, dest)
    IN  /\ Fits(v, src, to)
        /\ \/ Returns("copyFile", on, src, to, CopyFile(trees, v, src, dest, overwrite))
           \/ Returns("moveFile", on, src, to, MoveFile(trees, v, src, dest, overwrite))
           \/ Returns("rename", on, src, to, RenameFile(trees, v, src, dest, overwrite))

\* pushLayer, popLayer, removeLayer; a refused change changes nothing.
ChangeLayers ==
    /\ \/ \E x \in Volumes : stack' = Append(stack, x)
       \/ stack' = SubSeq(stack, 1, Len(stack) - 1)
       \/ \E i \in DOMAIN stack :
             stack' = SubSeq(stack, 1, i - 1) \o SubSeq(stack, i + 1, Len(stack))
    /\ stack' \in Stacks
    /\ last' = [call |-> "layers", on |-> Overlay, src |-> Root, dest |-> Root, ok |-> TRUE]
    /\ UNCHANGED trees

Next ==
    \/ \E on \in Volumes \cup {Overlay}, p \in Paths \ {Root} : OnePath(on, p)
    \/ \E on \in Volumes \cup {Overlay}, src \in Paths \ {Root}, dest \in Paths,
          overwrite \in BOOLEAN : TwoPaths(on, src, dest, overwrite)
    \/ ChangeLayers

Spec == Init /\ [][Next]_vars
-------------------------------------------------------------------------------
(* Properties.                                                             *)

Transfers == {"copyFile", "moveFile", "rename"}

Seen(T, on, p) == Look(T, Volume(on), p)

\* A call on an overlay changes its top layer only, and a call on a local volume that
\* volume, however many of its parts fail: nothing is written through to the layers
\* below (OverlayVolume.hpp).
LowerLayersKept ==
    [][\A x \in Volumes : trees'[x] # trees[x] => x = Top(Volume(last'.on))]_vars

\* A directory is renamed to the place of a file of the top layer and covers what lower
\* layers have below that place.
CoversBelow(on, src, dest, p) ==
    /\ on = Overlay
    /\ trees[Top(Volume(on))][src] = Directory
    /\ IsFile(trees[Top(Volume(on))][dest])
    /\ Below(dest, p)

\* No file but the destination, and what was below a source that was to be moved,
\* looks different after a call, whether it succeeded or failed.  Two exceptions in an
\* overlay: createDirectoriesThrows makes a directory over a file of a lower layer, and a
\* directory that is renamed to the place of a file covers files of lower layers.  And
\* whatever fails in a copy, move or renaming, the contents of every file that was to
\* be moved are found at the source or at the destination.  A file that is its own
\* destination is another matter (see InPlaceKeeps).
FilesSurvive ==
    [][\A p \in Paths \ {last'.dest} :
          IF last'.call \in Transfers /\ Below(last'.src, p) /\ IsFile(Seen(trees, last'.on, p))
          THEN \/ Seen(trees', last'.on, p) = Seen(trees, last'.on, p)
               \/ Seen(trees', last'.on, Moved(p, last'.src, last'.dest)) = Seen(trees, last'.on, p)
          ELSE \/ Seen(trees', last'.on, p) = Seen(trees, last'.on, p)
               \/ ~IsFile(Seen(trees, last'.on, p))
               \/ last'.call = "createDirectoriesThrows" /\ last'.on = Overlay
                     /\ Below(p, last'.dest)
               \/ last'.call = "rename" /\ CoversBelow(last'.on, last'.src, last'.dest, p)]_trees

\* After a copy, move or renaming that succeeded there is a file at the destination, and
\* nothing in it that the source had not.  All of it is there, unless an overlay copied it:
\* what that loses at the end of writing, or reading, is not noticed.  A file that was
\* appended to has what it had, unless only a lower layer of an overlay has the file.
SuccessDelivers ==
    [][last'.ok =>
          /\ /\ last'.call \in Transfers
             /\ last'.src # last'.dest
             /\ IsFile(Seen(trees, last'.on, last'.src))
             =>
                /\ IsFile(Seen(trees', last'.on, last'.dest))
                /\ Seen(trees', last'.on, last'.dest) \subseteq Seen(trees, last'.on, last'.src)
                /\ \/ Seen(trees', last'.on, last'.dest) = Seen(trees, last'.on, last'.src)
                   \/ last'.call = "copyFile" /\ last'.on = Overlay
          /\ last'.call = "append" /\ IsFile(trees[Top(Volume(last'.on))][last'.dest]) =>
                Seen(trees, last'.on, last'.dest) \subseteq Seen(trees', last'.on, last'.dest)]_vars

\* A file moved or renamed to where it is stays there: the calls answer "false if dest
\* is the same as src" (Volume.hpp).
InPlaceKeeps ==
    [][last'.call \in {"moveFile", "rename"} /\ last'.src = last'.dest => trees' = trees]_vars
===============================================================================
