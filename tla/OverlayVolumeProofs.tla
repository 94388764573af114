-------------------------- MODULE OverlayVolumeProofs --------------------------
(***************************************************************************)
(* Whatever fails in them, calls leave the volumes well typed, and what    *)
(* has an entry in a directory; a call changes the top layer of the volume *)
(* it is made on and no other volume; files are lost by no call; and a     *)
(* successful call has put a file where it was to put one, of which        *)
(* nothing is missing but what an overlay's copy lost unnoticed.           *)
(***************************************************************************)
EXTENDS OverlayVolume, FiniteSetTheorems, SequenceTheorems, WellFoundedInduction, TLAPS

\* A volume as the calls see it: its layers, and whether it is an overlay of them.
IsVolume(v) == v.layers \in Seq(Volumes) /\ v.layers # <<>>

Typed(T) == T \in [Volumes -> Trees]

\* Outcomes of an operation of a local volume.
TypedTrees(outcomes) == outcomes \subseteq [tree : Trees, ok : BOOLEAN]

\* Outcomes that differ from T on the top layer of v at most.
Confined(T, v, outcomes) ==
    /\ outcomes \subseteq [trees : [Volumes -> Trees], ok : BOOLEAN]
    /\ \A o \in outcomes, x \in Volumes : x # Top(v) => o.trees[x] = T[x]

-------------------------------------------------------------------------------
(* Paths and layers.                                                       *)

LEMMA RootIsPath == Root \in Paths
BY PathAssumption

\* A set of positions has a greatest one.
LEMMA Greatest ==
    ASSUME NEW n \in Nat, NEW S \in SUBSET (0..n), S # {}
    PROVE  \E i \in S : \A j \in S : j <= i
<1> DEFINE R == OpToRel(<, Nat)
           D == {n - i : i \in S}
<1>1. IsWellFoundedOn(R, Nat)
  BY NatLessThanWellFounded
<1>2. \A p, q \in Nat : p < q => <<p, q>> \in R
  BY DEF OpToRel
<1>3. \A i \in S : i \in Nat /\ n - i \in Nat
  OBVIOUS
<1>4. D \subseteq Nat
  BY <1>3
<1>5. D # {}
  OBVIOUS
<1> HIDE DEF R
<1>6. PICK d \in D : \A e \in D : ~ (<<e, d>> \in R)
  <2> HIDE DEF D
  <2> QED BY <1>1, <1>4, <1>5, WFMin
<1>7. PICK i \in S : d = n - i
  OBVIOUS
<1>8. ASSUME NEW j \in S PROVE j <= i
  <2>1. n - j \in D /\ n - j \in Nat /\ n - i \in Nat
    BY <1>3
  <2>2. ~ (n - j < n - i)
    BY <1>2, <1>6, <1>7, <2>1
  <2> QED
    BY <1>3, <2>2
<1> QED
  BY <1>8

\* The top layer is one of the volumes.
LEMMA TopType ==
    ASSUME NEW v, IsVolume(v)
    PROVE  Top(v) \in Volumes
BY DEF IsVolume, Top

LEMMA LocalIsVolume ==
    ASSUME NEW x \in Volumes
    PROVE  IsVolume(Local(x)) /\ Top(Local(x)) = x
BY DEF IsVolume, Local, Top

\* What is read is the contents of a file.
LEMMA ReadType ==
    ASSUME NEW T, Typed(T), NEW v, IsVolume(v), NEW p \in Paths, IsFile(Read(T, v, p))
    PROVE  Read(T, v, p) \in Contents
<1> DEFINE having == {i \in DOMAIN v.layers : IsFile(T[v.layers[i]][p])}
           h == CHOOSE i \in having : \A j \in having : j <= i
<1>1. having # {}
  BY DEF Read, Highest, IsFile
<1>2. /\ having \in SUBSET (1..Len(v.layers)) /\ Len(v.layers) \in Nat
      /\ having \in SUBSET (0..Len(v.layers))
  BY DEF IsVolume
<1>3. \E i \in having : \A j \in having : j <= i
  <2> HIDE DEF having
  <2> QED BY <1>1, <1>2, Greatest
<1>4. h \in having
  <2> HIDE DEF having
  <2> QED BY <1>3
<1>5. h \in 1..Len(v.layers) /\ h # 0 /\ v.layers[h] \in Volumes
  <2> HIDE DEF h, having
  <2>1. h \in 1..Len(v.layers)
    BY <1>2, <1>4
  <2> QED
    BY <2>1 DEF IsVolume
<1>6. T[v.layers[h]][p] \in Contents
  <2>1. T[v.layers[h]][p] \in {Directory, Nothing} \cup Contents
    BY <1>5 DEF Typed, Trees
  <2> QED
    BY <1>4, <2>1 DEF IsFile
<1>7. Highest(v, LAMBDA x : IsFile(T[x][p])) = h
  BY <1>1 DEF Highest
<1>8. Read(T, v, p) = T[v.layers[h]][p]
  <2> HIDE DEF h, having
  <2> QED BY <1>5, <1>7 DEF Read
<1> QED
  BY <1>6, <1>8
-------------------------------------------------------------------------------
(* A local volume.                                                         *)

LEMMA FailsType ==
    ASSUME NEW t \in Trees
    PROVE  TypedTrees(Fails(t))
BY DEF TypedTrees, Fails

LEMMA SucceedsType ==
    ASSUME NEW t \in Trees, NEW p \in Paths, NEW e \in {Directory, Nothing} \cup Contents
    PROVE  TypedTrees(Succeeds(t, p, e))
BY DEF TypedTrees, Succeeds, Trees

\* How a write to a file can end: with what was there, or with a part of what was
\* written, whatever it answers.
LEMMA PutShape ==
    ASSUME NEW t, NEW p, NEW kept, NEW contents, NEW o \in Put(t, p, kept, contents)
    PROVE  \/ o = [tree |-> t, ok |-> FALSE]
           \/ /\ CanOpen(t, p)
              /\ \E e \in SUBSET contents, ok \in BOOLEAN :
                    kept \subseteq e /\ o = [tree |-> [t EXCEPT ![p] = e], ok |-> ok]
<1>1. CASE o \in Fails(t)
  BY <1>1 DEF Fails
<1>2. CASE o \notin Fails(t)
  <2>1. CanOpen(t, p)
    BY <1>2 DEF Put
  <2>2. PICK e \in {x \in SUBSET contents : kept \subseteq x} :
           o \in Succeeds(t, p, e) \cup IF e = contents THEN {} ELSE Fails([t EXCEPT ![p] = e])
    BY <1>2 DEF Put
  <2>3. \/ o = [tree |-> [t EXCEPT ![p] = e], ok |-> TRUE]
        \/ o = [tree |-> [t EXCEPT ![p] = e], ok |-> FALSE]
    BY <2>2 DEF Succeeds, Fails
  <2> QED
    BY <2>1, <2>2, <2>3
<1> QED
  BY <1>1, <1>2

\* A copy of the operating system that succeeds is complete.
LEMMA CopiedShape ==
    ASSUME NEW t, NEW p, NEW contents, NEW o \in Copied(t, p, contents)
    PROVE  \/ o = [tree |-> t, ok |-> FALSE]
           \/ /\ CanOpen(t, p)
              /\ \E e \in SUBSET contents, ok \in BOOLEAN :
                    (ok => e = contents) /\ o = [tree |-> [t EXCEPT ![p] = e], ok |-> ok]
<1>1. CASE o \in Fails(t)
  BY <1>1 DEF Fails
<1>2. CASE o \notin Fails(t)
  <2>1. CanOpen(t, p)
    BY <1>2 DEF Copied
  <2>2. CASE o \in Succeeds(t, p, contents)
    <3>1. o = [tree |-> [t EXCEPT ![p] = contents], ok |-> TRUE]
      BY <2>2 DEF Succeeds
    <3> QED
      BY <2>1, <3>1
  <2>3. CASE o \notin Succeeds(t, p, contents)
    <3>1. PICK e \in SUBSET contents : o \in Fails([t EXCEPT ![p] = e])
      BY <1>2, <2>1, <2>3 DEF Copied
    <3>2. o = [tree |-> [t EXCEPT ![p] = e], ok |-> FALSE]
      BY <3>1 DEF Fails
    <3> QED
      BY <2>1, <3>2
  <2> QED
    BY <2>2, <2>3
<1> QED
  BY <1>1, <1>2

\* Contents in place of an entry make a tree.
LEMMA PutInTree ==
    ASSUME NEW t \in Trees, NEW p \in Paths, NEW contents \in Contents, NEW e \in SUBSET contents
    PROVE  [t EXCEPT ![p] = e] \in Trees /\ e \in Contents
BY DEF Trees, Contents

LEMMA PutType ==
    ASSUME NEW t \in Trees, NEW p \in Paths, NEW kept, NEW contents \in Contents
    PROVE  TypedTrees(Put(t, p, kept, contents))
<1> SUFFICES ASSUME NEW o \in Put(t, p, kept, contents)
             PROVE  o \in [tree : Trees, ok : BOOLEAN]
  BY DEF TypedTrees
<1>1. CASE o = [tree |-> t, ok |-> FALSE]
  BY <1>1
<1>2. ASSUME NEW e \in SUBSET contents, NEW ok \in BOOLEAN,
             o = [tree |-> [t EXCEPT ![p] = e], ok |-> ok]
      PROVE  o \in [tree : Trees, ok : BOOLEAN]
  <2>1. [t EXCEPT ![p] = e] \in Trees
    BY PutInTree
  <2> QED
    BY <1>2, <2>1
<1> QED
  BY <1>1, <1>2, PutShape

LEMMA CopiedType ==
    ASSUME NEW t \in Trees, NEW p \in Paths, NEW contents \in Contents
    PROVE  TypedTrees(Copied(t, p, contents))
<1> SUFFICES ASSUME NEW o \in Copied(t, p, contents)
             PROVE  o \in [tree : Trees, ok : BOOLEAN]
  BY DEF TypedTrees
<1>1. CASE o = [tree |-> t, ok |-> FALSE]
  BY <1>1
<1>2. ASSUME NEW e \in SUBSET contents, NEW ok \in BOOLEAN,
             o = [tree |-> [t EXCEPT ![p] = e], ok |-> ok]
      PROVE  o \in [tree : Trees, ok : BOOLEAN]
  <2>1. [t EXCEPT ![p] = e] \in Trees
    BY PutInTree
  <2> QED
    BY <1>2, <2>1
<1> QED
  BY <1>1, <1>2, CopiedShape

LEMMA AppendedType ==
    ASSUME NEW t \in Trees, NEW p \in Paths, NEW c \in Chunks
    PROVE  TypedTrees(Appended(t, p, c))
<1> DEFINE kept == IF IsFile(t[p]) THEN t[p] ELSE {}
<1>1. kept \in Contents
  BY DEF Trees, IsFile, Contents
<1>2. kept \cup {c} \in Contents
  BY <1>1 DEF Contents
<1>3. Appended(t, p, c) = Put(t, p, kept, kept \cup {c})
  BY DEF Appended
<1> HIDE DEF kept
<1> QED
  BY <1>1, <1>2, <1>3, PutType

LEMMA WrittenType ==
    ASSUME NEW t \in Trees, NEW p \in Paths, NEW contents \in Contents
    PROVE  TypedTrees(Written(t, p, contents))
BY PutType DEF Written, Contents

LEMMA MadeType ==
    ASSUME NEW t \in Trees, NEW p \in Paths
    PROVE  TypedTrees(Made(t, p))
<1>1. TypedTrees(Fails(t)) /\ TypedTrees(Succeeds(t, p, Directory))
  BY FailsType, SucceedsType
<1> QED
  BY <1>1 DEF Made, TypedTrees

LEMMA RemovedType ==
    ASSUME NEW t \in Trees, NEW p \in Paths
    PROVE  TypedTrees(Removed(t, p))
<1>1. TypedTrees(Fails(t)) /\ TypedTrees(Succeeds(t, p, Nothing))
  BY FailsType, SucceedsType
<1> QED
  BY <1>1 DEF Removed, TypedTrees

LEMMA RenamedType ==
    ASSUME NEW t \in Trees, NEW src, NEW dest
    PROVE  TypedTrees(Renamed(t, src, dest))
<1> DEFINE renamed == [p \in Paths |-> IF Below(dest, p)
                                       THEN LET q == Moved(p, dest, src)
                                            IN  IF q \in Paths THEN t[q] ELSE Nothing
                                       ELSE IF Below(src, p) THEN Nothing ELSE t[p]]
<1>1. renamed \in Trees
  BY DEF Trees
<1>2. \A o \in Renamed(t, src, dest) : o \in Fails(t) \/ o = [tree |-> renamed, ok |-> TRUE]
  BY DEF Renamed
<1>3. [tree |-> renamed, ok |-> TRUE] \in [tree : Trees, ok : BOOLEAN]
  <2> HIDE DEF renamed
  <2> QED BY <1>1
<1>4. Fails(t) \subseteq [tree : Trees, ok : BOOLEAN]
  BY FailsType DEF TypedTrees
<1> HIDE DEF renamed
<1> QED
  BY <1>2, <1>3, <1>4 DEF TypedTrees

LEMMA MovedOverType ==
    ASSUME NEW t \in Trees, NEW src \in Paths, NEW dest \in Paths
    PROVE  TypedTrees(MovedOver(t, src, dest))
<1>1. TypedTrees(Removed(t, src))
  BY RemovedType
<1>2. ASSUME IsFile(t[src]), NEW o \in CopiedAndRemoved(t, src, dest)
      PROVE  o \in [tree : Trees, ok : BOOLEAN]
  <2>1. t[src] \in Contents
    BY <1>2 DEF IsFile, Trees
  <2>2. TypedTrees(Copied(t, dest, t[src]))
    BY <2>1, CopiedType
  <2>3. PICK w \in Copied(t, dest, t[src]) : o \in (IF w.ok THEN Removed(w.tree, src) ELSE {w})
    BY <1>2 DEF CopiedAndRemoved
  <2>4. w \in [tree : Trees, ok : BOOLEAN] /\ w.tree \in Trees
    BY <2>2 DEF TypedTrees
  <2>5. TypedTrees(Removed(w.tree, src))
    BY <2>4, RemovedType
  <2> QED
    BY <2>3, <2>4, <2>5 DEF TypedTrees
<1>3. TypedTrees(CopiedAndRemoved(t, src, dest))
  BY <1>1, <1>2 DEF CopiedAndRemoved, TypedTrees
<1>4. TypedTrees(Renamed(t, src, dest))
  BY RenamedType
<1>5. \A o \in CopiedAndRemoved(t, src, dest) : [tree |-> o.tree, ok |-> FALSE] \in [tree : Trees, ok : BOOLEAN]
  BY <1>3 DEF TypedTrees
<1>6. {[tree |-> o.tree, ok |-> FALSE] : o \in CopiedAndRemoved(t, src, dest)}
         \subseteq [tree : Trees, ok : BOOLEAN]
  BY <1>5
<1>7. {o \in Renamed(t, src, dest) : o.ok} \subseteq [tree : Trees, ok : BOOLEAN]
  BY <1>4 DEF TypedTrees
<1> QED
  BY <1>6, <1>7 DEF MovedOver, TypedTrees

-------------------------------------------------------------------------------
(* The operations of a volume.                                             *)

LEMMA RefusedConfined ==
    ASSUME NEW T, Typed(T), NEW v
    PROVE  Confined(T, v, Refused(T))
BY DEF Confined, Refused, Typed

\* Outcomes of the top layer are outcomes of the volume.
LEMMA OnTopConfined ==
    ASSUME NEW T, Typed(T), NEW v, IsVolume(v), NEW outcomes, TypedTrees(outcomes)
    PROVE  Confined(T, v, OnTop(T, v, outcomes))
<1> SUFFICES ASSUME NEW r \in OnTop(T, v, outcomes)
             PROVE  /\ r \in [trees : [Volumes -> Trees], ok : BOOLEAN]
                    /\ \A x \in Volumes : x # Top(v) => r.trees[x] = T[x]
  BY DEF Confined
<1>1. Top(v) \in Volumes
  BY TopType
<1>2. PICK o \in outcomes : r = [trees |-> [T EXCEPT ![Top(v)] = o.tree], ok |-> o.ok]
  BY DEF OnTop, On
<1>3. o.tree \in Trees /\ o.ok \in BOOLEAN
  BY DEF TypedTrees
<1>4. [T EXCEPT ![Top(v)] = o.tree] \in [Volumes -> Trees]
  BY <1>1, <1>3 DEF Typed
<1>5. \A x \in Volumes : x # Top(v) => [T EXCEPT ![Top(v)] = o.tree][x] = T[x]
  BY DEF Typed
<1> QED
  BY <1>2, <1>3, <1>4, <1>5

LEMMA TopTree ==
    ASSUME NEW T, Typed(T), NEW v, IsVolume(v)
    PROVE  T[Top(v)] \in Trees
BY TopType DEF Typed

LEMMA CopyConfined ==
    ASSUME NEW T, Typed(T), NEW v, IsVolume(v), NEW src \in Paths, NEW dest \in Paths
    PROVE  Confined(T, v, Copy(T, v, src, dest))
<1>1. CASE ~IsFile(Read(T, v, src)) \/ (~v.overlay /\ src = dest)
  BY <1>1, RefusedConfined DEF Copy
<1>2. CASE IsFile(Read(T, v, src)) /\ ~(~v.overlay /\ src = dest)
  <2>1. Read(T, v, src) \in Contents /\ T[Top(v)] \in Trees
    BY <1>2, TopTree, ReadType
  <2>2. /\ TypedTrees(Written(T[Top(v)], dest, Read(T, v, src)))
        /\ TypedTrees(Copied(T[Top(v)], dest, Read(T, v, src)))
    BY <2>1, WrittenType, CopiedType
  <2>3. \/ Copy(T, v, src, dest) = OnTop(T, v, Written(T[Top(v)], dest, Read(T, v, src)))
        \/ Copy(T, v, src, dest) = OnTop(T, v, Copied(T[Top(v)], dest, Read(T, v, src)))
    BY <1>2 DEF Copy
  <2> QED
    BY <2>2, <2>3, OnTopConfined
<1> QED
  BY <1>1, <1>2

LEMMA MoveConfined ==
    ASSUME NEW T, Typed(T), NEW v, IsVolume(v), NEW src \in Paths, NEW dest \in Paths
    PROVE  Confined(T, v, Move(T, v, src, dest))
<1>1. TypedTrees(MovedOver(T[Top(v)], src, dest))
  BY TopTree, MovedOverType
<1>2. Confined(T, v, OnTop(T, v, MovedOver(T[Top(v)], src, dest)))
  BY <1>1, OnTopConfined
<1> QED
  BY <1>2, RefusedConfined DEF Move

LEMMA RenameConfined ==
    ASSUME NEW T, Typed(T), NEW v, IsVolume(v), NEW src \in Paths, NEW dest \in Paths
    PROVE  Confined(T, v, Rename(T, v, src, dest))
<1>1. TypedTrees(Renamed(T[Top(v)], src, dest))
  BY TopTree, RenamedType
<1> QED
  BY <1>1, OnTopConfined DEF Rename

LEMMA RemoveConfined ==
    ASSUME NEW T, Typed(T), NEW v, IsVolume(v), NEW p \in Paths
    PROVE  Confined(T, v, Remove(T, v, p))
<1>1. TypedTrees(Removed(T[Top(v)], p))
  BY TopTree, RemovedType
<1> QED
  BY <1>1, OnTopConfined DEF Remove
-------------------------------------------------------------------------------
(* The calls.                                                              *)

LEMMA WriteFileConfined ==
    ASSUME NEW T, Typed(T), NEW v, IsVolume(v), NEW p \in Paths, NEW c \in Chunks
    PROVE  /\ Confined(T, v, WriteFile(T, v, p, {c}))
           /\ Confined(T, v, StreamFile(T, v, p, {c}))
           /\ Confined(T, v, AppendFile(T, v, p, c))
<1>1. {c} \in Contents
  BY DEF Contents
<1>2. TypedTrees(Written(T[Top(v)], p, {c})) /\ TypedTrees(Appended(T[Top(v)], p, c))
  BY <1>1, TopTree, WrittenType, AppendedType
<1> QED
  BY <1>2, OnTopConfined, RefusedConfined DEF WriteFile, StreamFile, AppendFile

LEMMA CreateDirectoryConfined ==
    ASSUME NEW T, Typed(T), NEW v, IsVolume(v), NEW p \in Paths
    PROVE  Confined(T, v, CreateDirectory(T, v, p))
<1>1. Confined(T, v, OnTop(T, v, Made(T[Top(v)], p)))
  BY TopTree, MadeType, OnTopConfined
<1> QED
  BY <1>1, RefusedConfined DEF CreateDirectory

LEMMA MadeDownConfined ==
    ASSUME NEW T, Typed(T), NEW v, IsVolume(v), NEW p \in Paths
    PROVE  Confined(T, v, MadeDown(T, v, p))
<1> DEFINE first == CHOOSE i \in Missing(T, v, p) : \A j \in Missing(T, v, p) : i <= j
           t == T[Top(v)]
           Until(n) == [q \in Paths |-> IF Below(q, p) /\ Len(q) \in first..n THEN Directory ELSE t[q]]
           made == {[tree |-> Until(n), ok |-> n = Len(p)] : n \in first..Len(p)}
<1>1. t \in Trees
  BY TopTree
<1>2. \A n : Until(n) \in Trees
  <2> HIDE DEF first, t
  <2> QED BY <1>1 DEF Trees
<1>3. ASSUME NEW n \in first..Len(p)
      PROVE  [tree |-> Until(n), ok |-> n = Len(p)] \in [tree : Trees, ok : BOOLEAN]
  <2>1. (n = Len(p)) \in BOOLEAN
    OBVIOUS
  <2> HIDE DEF Until, first, t
  <2> QED BY <1>2, <2>1
<1>4. TypedTrees(made)
  <2> HIDE DEF Until, first, t
  <2> QED BY <1>3 DEF TypedTrees
<1>5. Confined(T, v, OnTop(T, v, made))
  <2> HIDE DEF made
  <2> QED BY <1>4, OnTopConfined
<1>6. Confined(T, v, Refused(T))
  BY RefusedConfined
<1>7. MadeDown(T, v, p) \subseteq Refused(T) \cup OnTop(T, v, made)
  BY DEF MadeDown
<1> HIDE DEF made
<1> QED
  BY <1>5, <1>6, <1>7 DEF Confined

LEMMA CreateDirectoriesConfined ==
    ASSUME NEW T, Typed(T), NEW v, IsVolume(v), NEW p \in Paths
    PROVE  /\ Confined(T, v, CreateDirectories(T, v, p))
           /\ Confined(T, v, CreateDirectoriesThrows(T, v, p))
<1> DEFINE there == {[trees |-> T, ok |-> Look(T, v, p) = Directory]}
<1>1. (Look(T, v, p) = Directory) \in BOOLEAN
  OBVIOUS
<1>2. Confined(T, v, there)
  BY <1>1 DEF Confined, Typed
<1>3. Confined(T, v, MadeDown(T, v, p)) /\ Confined(T, v, Refused(T))
  BY MadeDownConfined, RefusedConfined
<1> HIDE DEF there
<1>4. CreateDirectories(T, v, p) \in {there, Refused(T), MadeDown(T, v, p)}
  BY DEF CreateDirectories, there
<1>5. CreateDirectoriesThrows(T, v, p) \in {there, MadeDown(T, v, p)}
  BY DEF CreateDirectoriesThrows, there
<1> QED
  BY <1>2, <1>3, <1>4, <1>5

LEMMA RemovalConfined ==
    ASSUME NEW T, Typed(T), NEW v, IsVolume(v), NEW p \in Paths
    PROVE  /\ Confined(T, v, RemoveDirectory(T, v, p))
           /\ Confined(T, v, RemoveFile(T, v, p))
BY RemoveConfined, RefusedConfined DEF RemoveDirectory, RemoveFile

LEMMA ClearedConfined ==
    ASSUME NEW T, Typed(T), NEW v, IsVolume(v), NEW to \in Paths
    PROVE  Confined(T, v, Cleared(T, v, to))
<1>1. Confined(T, v, {[trees |-> T, ok |-> TRUE]})
  BY DEF Confined, Typed
<1> QED
  BY <1>1, RemovalConfined DEF Cleared

\* What follows on an outcome keeps to the top layer as well.
LEMMA ConfinedAfter ==
    ASSUME NEW T, NEW v, NEW first, Confined(T, v, first), NEW o \in first,
           NEW second, Confined(o.trees, v, second)
    PROVE  Confined(T, v, second)
BY DEF Confined

LEMMA ConfinedIsTyped ==
    ASSUME NEW T, NEW v, NEW outcomes, Confined(T, v, outcomes), NEW o \in outcomes
    PROVE  Typed(o.trees)
BY DEF Confined, Typed

LEMMA CopyFileConfined ==
    ASSUME NEW T, Typed(T), NEW v, IsVolume(v), NEW src \in Paths, NEW dest, NEW overwrite,
           Dest(T, v, src, dest) \in Paths
    PROVE  Confined(T, v, CopyFile(T, v, src, dest, overwrite))
<1> DEFINE to == Dest(T, v, src, dest)
           cleared == Cleared(T, v, to)
           copies == UNION {Copy(o.trees, v, src, to) : o \in cleared}
<1>1. Confined(T, v, cleared)
  BY ClearedConfined
<1>2. ASSUME NEW o \in cleared PROVE Confined(T, v, Copy(o.trees, v, src, to))
  <2>1. Confined(o.trees, v, Copy(o.trees, v, src, to))
    BY <1>1, ConfinedIsTyped, CopyConfined
  <2> HIDE DEF cleared, to
  <2> QED BY <1>1, <2>1, ConfinedAfter
<1>3. Confined(T, v, copies)
  <2> HIDE DEF cleared, to
  <2> QED BY <1>2 DEF Confined
<1>4. CopyFile(T, v, src, dest, overwrite) \in {Refused(T), copies}
  BY DEF CopyFile
<1> HIDE DEF copies
<1> QED
  BY <1>3, <1>4, RefusedConfined

LEMMA MoveFileConfined ==
    ASSUME NEW T, Typed(T), NEW v, IsVolume(v), NEW src \in Paths, NEW dest, NEW overwrite,
           Dest(T, v, src, dest) \in Paths
    PROVE  Confined(T, v, MoveFile(T, v, src, dest, overwrite))
<1> DEFINE to == Dest(T, v, src, dest)
           cleared == Cleared(T, v, to)
           moves == UNION {IF o.ok THEN Move(o.trees, v, src, to) ELSE {o} : o \in cleared}
<1>1. Confined(T, v, cleared)
  BY ClearedConfined
<1>2. ASSUME NEW o \in cleared PROVE Confined(T, v, Move(o.trees, v, src, to))
  <2>1. Confined(o.trees, v, Move(o.trees, v, src, to))
    BY <1>1, ConfinedIsTyped, MoveConfined
  <2> HIDE DEF cleared, to
  <2> QED BY <1>1, <2>1, ConfinedAfter
<1>3. Confined(T, v, moves)
  <2> HIDE DEF cleared, to
  <2> QED BY <1>1, <1>2 DEF Confined
<1>4. MoveFile(T, v, src, dest, overwrite) \in {Refused(T), moves}
  BY DEF MoveFile, Relocate
<1> HIDE DEF moves
<1> QED
  BY <1>3, <1>4, RefusedConfined

LEMMA RenameFileConfined ==
    ASSUME NEW T, Typed(T), NEW v, IsVolume(v), NEW src \in Paths, NEW dest, NEW overwrite,
           Dest(T, v, src, dest) \in Paths
    PROVE  Confined(T, v, RenameFile(T, v, src, dest, overwrite))
<1> DEFINE to == Dest(T, v, src, dest)
           cleared == Cleared(T, v, to)
           renamings == UNION {IF o.ok THEN Rename(o.trees, v, src, to) ELSE {o} : o \in cleared}
<1>1. Confined(T, v, cleared)
  BY ClearedConfined
<1>2. ASSUME NEW o \in cleared PROVE Confined(T, v, Rename(o.trees, v, src, to))
  <2>1. Confined(o.trees, v, Rename(o.trees, v, src, to))
    BY <1>1, ConfinedIsTyped, RenameConfined
  <2> HIDE DEF cleared, to
  <2> QED BY <1>1, <2>1, ConfinedAfter
<1>3. Confined(T, v, renamings)
  <2> HIDE DEF cleared, to
  <2> QED BY <1>1, <1>2 DEF Confined
<1>4. RenameFile(T, v, src, dest, overwrite) \in {Refused(T), renamings}
  BY DEF RenameFile, Relocate
<1> HIDE DEF renamings
<1> QED
  BY <1>3, <1>4, RefusedConfined
-------------------------------------------------------------------------------
(* Steps.                                                                  *)

OnlyTopChanges == \A x \in Volumes : trees'[x] # trees[x] => x = Top(Volume(last'.on))

LEMMA StacksType ==
    ASSUME NEW s \in Stacks
    PROVE  s \in Seq(Volumes) /\ s # <<>>
<1>1. Cardinality(Volumes) \in Nat
  BY ValueAssumption, FS_CardinalityType
<1>2. PICK n \in 1..Cardinality(Volumes) : s \in [1..n -> Volumes]
  BY DEF Stacks
<1>3. n \in Nat /\ n # 0
  BY <1>1
<1>4. s \in Seq(Volumes)
  BY <1>2, <1>3
<1>5. Len(s) = n
  BY <1>2, <1>3
<1> QED
  BY <1>3, <1>4, <1>5

LEMMA VolumeType ==
    ASSUME TypeOK, NEW on \in Volumes \cup {Overlay}
    PROVE  IsVolume(Volume(on))
<1>1. IsVolume([layers |-> stack, overlay |-> TRUE])
  BY StacksType DEF TypeOK, IsVolume
<1> QED
  BY <1>1, LocalIsVolume DEF Volume

\* A call that ends in one of these outcomes keeps the types and all but the top layer.
LEMMA ReturnsKeeps ==
    ASSUME TypeOK, NEW call \in Calls, NEW on \in Volumes \cup {Overlay},
           NEW src \in Paths, NEW dest \in Paths,
           NEW outcomes, Confined(trees, Volume(on), outcomes),
           Returns(call, on, src, dest, outcomes)
    PROVE  TypeOK' /\ OnlyTopChanges
<1>1. PICK o \in outcomes :
         /\ trees' = o.trees
         /\ last' = [call |-> call, on |-> on, src |-> src, dest |-> dest, ok |-> o.ok]
  BY DEF Returns
<1>2. o.trees \in [Volumes -> Trees] /\ o.ok \in BOOLEAN
  BY DEF Confined
<1>3. \A x \in Volumes : x # Top(Volume(on)) => o.trees[x] = trees[x]
  BY DEF Confined
<1>4. last'.on = on
  BY <1>1
<1>5. last' \in [call : Calls, on : Volumes \cup {Overlay}, src : Paths, dest : Paths,
                 ok : BOOLEAN]
  BY <1>1, <1>2
<1>6. stack' = stack
  BY DEF Returns
<1>7. TypeOK'
  BY <1>1, <1>2, <1>5, <1>6 DEF TypeOK
<1>8. OnlyTopChanges
  BY <1>1, <1>3, <1>4 DEF OnlyTopChanges
<1> QED
  BY <1>7, <1>8

\* The empty volumes and any layers.
LEMMA InitType == Init => TypeOK
<1> SUFFICES ASSUME Init PROVE TypeOK
  OBVIOUS
<1>1. trees \in [Volumes -> Trees]
  BY DEF Init, Trees
<1>2. last \in [call : Calls, on : Volumes \cup {Overlay}, src : Paths, dest : Paths,
                ok : BOOLEAN]
  BY RootIsPath DEF Init, Calls
<1> QED
  BY <1>1, <1>2 DEF Init, TypeOK

LEMMA OnePathKeeps ==
    ASSUME TypeOK, NEW on \in Volumes \cup {Overlay}, NEW p \in Paths, OnePath(on, p)
    PROVE  TypeOK' /\ OnlyTopChanges
<1> DEFINE v == Volume(on)
<1>1. IsVolume(v) /\ Typed(trees)
  BY VolumeType DEF TypeOK, Typed
<1> HIDE DEF v
<1>2. ASSUME NEW c \in Chunks, Returns("write", on, p, p, WriteFile(trees, v, p, {c}))
      PROVE  TypeOK' /\ OnlyTopChanges
  <2>1. Confined(trees, v, WriteFile(trees, v, p, {c}))
    BY <1>1, WriteFileConfined
  <2>2. "write" \in Calls
    BY DEF Calls
  <2> HIDE DEF Calls
  <2> QED
    BY <1>2, <2>1, <2>2, ReturnsKeeps DEF v
<1>3. ASSUME NEW c \in Chunks, Returns("append", on, p, p, AppendFile(trees, v, p, c))
      PROVE  TypeOK' /\ OnlyTopChanges
  <2>1. Confined(trees, v, AppendFile(trees, v, p, c))
    BY <1>1, WriteFileConfined
  <2>2. "append" \in Calls
    BY DEF Calls
  <2> HIDE DEF Calls
  <2> QED
    BY <1>3, <2>1, <2>2, ReturnsKeeps DEF v
<1>9. ASSUME NEW c \in Chunks, Returns("stream", on, p, p, StreamFile(trees, v, p, {c}))
      PROVE  TypeOK' /\ OnlyTopChanges
  <2>1. Confined(trees, v, StreamFile(trees, v, p, {c}))
    BY <1>1, WriteFileConfined
  <2>2. "stream" \in Calls
    BY DEF Calls
  <2> HIDE DEF Calls
  <2> QED
    BY <1>9, <2>1, <2>2, ReturnsKeeps DEF v
<1>4. CASE Returns("createDirectory", on, p, p, CreateDirectory(trees, v, p))
  BY <1>1, <1>4, CreateDirectoryConfined, ReturnsKeeps DEF Calls, v
<1>5. CASE Returns("createDirectories", on, p, p, CreateDirectories(trees, v, p))
  BY <1>1, <1>5, CreateDirectoriesConfined, ReturnsKeeps DEF Calls, v
<1>6. CASE Returns("createDirectoriesThrows", on, p, p, CreateDirectoriesThrows(trees, v, p))
  BY <1>1, <1>6, CreateDirectoriesConfined, ReturnsKeeps DEF Calls, v
<1>7. CASE Returns("removeDirectory", on, p, p, RemoveDirectory(trees, v, p))
  BY <1>1, <1>7, RemovalConfined, ReturnsKeeps DEF Calls, v
<1>8. CASE Returns("removeFile", on, p, p, RemoveFile(trees, v, p))
  BY <1>1, <1>8, RemovalConfined, ReturnsKeeps DEF Calls, v
<1> QED
  BY <1>2, <1>3, <1>4, <1>5, <1>6, <1>7, <1>8, <1>9 DEF OnePath, v

LEMMA TwoPathsKeeps ==
    ASSUME TypeOK, NEW on \in Volumes \cup {Overlay}, NEW src \in Paths, NEW dest \in Paths,
           NEW overwrite \in BOOLEAN, TwoPaths(on, src, dest, overwrite)
    PROVE  TypeOK' /\ OnlyTopChanges
<1> DEFINE v == Volume(on)
           to == Dest(trees, v, src, dest)
<1>1. IsVolume(v) /\ Typed(trees)
  BY VolumeType DEF TypeOK, Typed
<1>2. to \in Paths
  BY DEF TwoPaths, Fits
<1> HIDE DEF v
<1>3. CASE Returns("copyFile", on, src, to, CopyFile(trees, v, src, dest, overwrite))
  BY <1>1, <1>2, <1>3, CopyFileConfined, ReturnsKeeps DEF Calls, v
<1>4. CASE Returns("moveFile", on, src, to, MoveFile(trees, v, src, dest, overwrite))
  BY <1>1, <1>2, <1>4, MoveFileConfined, ReturnsKeeps DEF Calls, v
<1>5. CASE Returns("rename", on, src, to, RenameFile(trees, v, src, dest, overwrite))
  BY <1>1, <1>2, <1>5, RenameFileConfined, ReturnsKeeps DEF Calls, v
<1> QED
  BY <1>3, <1>4, <1>5 DEF TwoPaths, v

LEMMA ChangeLayersKeeps ==
    ASSUME TypeOK, ChangeLayers
    PROVE  TypeOK' /\ OnlyTopChanges
BY RootIsPath DEF ChangeLayers, TypeOK, OnlyTopChanges, Calls

LEMMA NextKeeps ==
    ASSUME TypeOK, [Next]_vars
    PROVE  TypeOK' /\ [OnlyTopChanges]_vars
<1>1. ASSUME NEW on \in Volumes \cup {Overlay}, NEW p \in Paths \ {Root}, OnePath(on, p)
      PROVE  TypeOK' /\ [OnlyTopChanges]_vars
  BY <1>1, OnePathKeeps
<1>2. ASSUME NEW on \in Volumes \cup {Overlay}, NEW src \in Paths \ {Root}, NEW dest \in Paths,
             NEW overwrite \in BOOLEAN, TwoPaths(on, src, dest, overwrite)
      PROVE  TypeOK' /\ [OnlyTopChanges]_vars
  BY <1>2, TwoPathsKeeps
<1>3. CASE ChangeLayers
  BY <1>3, ChangeLayersKeeps
<1>4. CASE UNCHANGED vars
  BY <1>4 DEF vars, TypeOK
<1> QED
  BY <1>1, <1>2, <1>3, <1>4 DEF Next

-------------------------------------------------------------------------------
(* Paths as sequences of names.                                            *)

LEMMA PathsAreNames == Paths \subseteq Seq(Names)
BY PathAssumption

\* A path is below another when it begins with its names.
LEMMA BelowMeans ==
    ASSUME NEW p \in Seq(Names), NEW q \in Seq(Names)
    PROVE  Below(p, q) <=> Len(p) <= Len(q) /\ \A i \in 1..Len(p) : p[i] = q[i]
<1>1. Len(p) \in Nat /\ Len(q) \in Nat /\ \A i \in 1..Len(q) : q[i] \in Names
  BY LenProperties, ElementOfSeq
<1>2. SUFFICES ASSUME Len(p) <= Len(q)
               PROVE  SubSeq(q, 1, Len(p)) = p <=> \A i \in 1..Len(p) : p[i] = q[i]
  BY DEF Below
<1> DEFINE s == SubSeq(q, 1, Len(p))
<1>3. /\ s \in Seq(Names) /\ Len(s) = Len(p)
      /\ \A i \in 1..Len(p) : s[i] = q[i]
  <2>1. \A i \in 1..Len(p) : q[i] \in Names
    BY <1>1, <1>2
  <2>2. /\ s \in Seq(Names)
        /\ Len(s) = IF 1 <= Len(p) THEN Len(p) - 1 + 1 ELSE 0
        /\ \A i \in 1..(Len(p) - 1 + 1) : s[i] = q[1 + i - 1]
    BY <1>1, <2>1, SubSeqProperties
  <2> HIDE DEF s
  <2> QED
    BY <1>1, <2>2
<1> HIDE DEF s
<1>4. s = p <=> \A i \in 1..Len(p) : s[i] = p[i]
  BY <1>3, SeqEqual
<1> QED
  BY <1>3, <1>4 DEF s

\* The directory of a path has its names but the last.
LEMMA ParentMeans ==
    ASSUME NEW p \in Seq(Names), p # Root
    PROVE  /\ Parent(p) \in Seq(Names)
           /\ Len(p) \in Nat \ {0}
           /\ Len(Parent(p)) = Len(p) - 1
           /\ \A i \in 1..(Len(p) - 1) : Parent(p)[i] = p[i]
<1>1. Len(p) \in Nat \ {0} /\ \A i \in 1..Len(p) : p[i] \in Names
  BY LenProperties, ElementOfSeq, EmptySeq DEF Root
<1> DEFINE s == SubSeq(p, 1, Len(p) - 1)
<1>2. \A i \in 1..(Len(p) - 1) : p[i] \in Names
  BY <1>1
<1>3. /\ s \in Seq(Names)
      /\ Len(s) = IF 1 <= Len(p) - 1 THEN Len(p) - 1 - 1 + 1 ELSE 0
      /\ \A i \in 1..(Len(p) - 1 - 1 + 1) : s[i] = p[1 + i - 1]
  BY <1>1, <1>2, SubSeqProperties
<1> HIDE DEF s
<1>4. Len(s) = Len(p) - 1
  <2>1. Len(p) \in Nat /\ Len(p) # 0
    BY <1>1
  <2>2. Len(s) = IF 1 <= Len(p) - 1 THEN Len(p) - 1 - 1 + 1 ELSE 0
    BY <1>3
  <2>3. CASE 1 <= Len(p) - 1
    BY <2>1, <2>2, <2>3
  <2>4. CASE ~(1 <= Len(p) - 1)
    <3>1. Len(s) = 0
      BY <2>2, <2>4
    <3>2. \A n \in Nat : n # 0 /\ ~(1 <= n - 1) => n - 1 = 0
      OBVIOUS
    <3>3. Len(p) - 1 = 0
      BY <2>1, <2>4, <3>2
    <3> QED
      BY <3>1, <3>3
  <2> QED
    BY <2>3, <2>4
<1>5. ASSUME NEW i \in 1..(Len(p) - 1) PROVE s[i] = p[i]
  <2>1. i \in 1..(Len(p) - 1 - 1 + 1) /\ 1 + i - 1 = i
    BY <1>1
  <2> QED
    BY <1>3, <2>1
<1> QED
  BY <1>1, <1>3, <1>4, <1>5 DEF s, Parent

\* What was below src begins with dest and goes on as it did.
LEMMA MovedMeans ==
    ASSUME NEW p \in Seq(Names), NEW src \in Seq(Names), NEW dest \in Seq(Names),
           Len(src) <= Len(p)
    PROVE  /\ Moved(p, src, dest) \in Seq(Names)
           /\ Len(Moved(p, src, dest)) = Len(dest) + Len(p) - Len(src)
           /\ \A i \in 1..Len(dest) : Moved(p, src, dest)[i] = dest[i]
           /\ \A i \in (Len(dest) + 1)..(Len(dest) + Len(p) - Len(src)) :
                 Moved(p, src, dest)[i] = p[i - Len(dest) + Len(src)]
<1> DEFINE k == Len(src)
           n == Len(p)
           d == Len(dest)
           s == SubSeq(p, k + 1, n)
<1>1. k \in Nat /\ n \in Nat /\ d \in Nat /\ k <= n /\ \A i \in 1..n : p[i] \in Names
  BY LenProperties, ElementOfSeq
<1>2. \A i \in (k + 1)..n : p[i] \in Names
  BY <1>1
<1>3. /\ s \in Seq(Names)
      /\ Len(s) = IF k + 1 <= n THEN n - (k + 1) + 1 ELSE 0
      /\ \A i \in 1..(n - (k + 1) + 1) : s[i] = p[(k + 1) + i - 1]
  <2> HIDE DEF k, n
  <2>1. k + 1 \in Int /\ n \in Int
    BY <1>1
  <2> QED
    BY <1>2, <2>1, SubSeqProperties
<1>4. /\ dest \o s \in Seq(Names)
      /\ Len(dest \o s) = Len(dest) + Len(s)
      /\ \A i \in 1..(Len(dest) + Len(s)) :
            (dest \o s)[i] = IF i <= Len(dest) THEN dest[i] ELSE s[i - Len(dest)]
  <2> HIDE DEF s
  <2> QED BY <1>3, ConcatProperties
<1> DEFINE m == dest \o s
<1>5. Moved(p, src, dest) = m
  BY DEF Moved
<1>6. Len(s) = n - k
  <2> HIDE DEF s, k, n
  <2> QED BY <1>1, <1>3
<1>7. /\ Len(m) = d + n - k
      /\ \A i \in 1..d : m[i] = dest[i]
      /\ \A i \in (d + 1)..(d + n - k) : m[i] = s[i - d] /\ i - d \in 1..(n - k)
  <2> HIDE DEF s, k, n
  <2> QED BY <1>1, <1>4, <1>6
<1>8. \A i \in (d + 1)..(d + n - k) : m[i] = p[i - d + k]
  <2>1. SUFFICES ASSUME NEW i \in (d + 1)..(d + n - k) PROVE m[i] = p[i - d + k]
    OBVIOUS
  <2> HIDE DEF s, k, n, d, m
  <2>2. m[i] = s[i - d] /\ i - d \in 1..(n - k)
    BY <1>7
  <2>3. i - d \in 1..(n - (k + 1) + 1) /\ (k + 1) + (i - d) - 1 = i - d + k
    BY <1>1, <2>2
  <2>4. s[i - d] = p[(k + 1) + (i - d) - 1]
    BY <1>3, <2>3
  <2> QED
    BY <2>2, <2>3, <2>4
<1> HIDE DEF m
<1> QED
  BY <1>4, <1>5, <1>7, <1>8 DEF m

\* Below is an order, and of two paths above a third one is below the other.
LEMMA BelowOrder ==
    ASSUME NEW p \in Seq(Names), NEW q \in Seq(Names), NEW r \in Seq(Names)
    PROVE  /\ Below(p, p)
           /\ Below(p, q) /\ Below(q, r) => Below(p, r)
           /\ Below(p, q) /\ Below(q, p) => p = q
           /\ Below(p, r) /\ Below(q, r) => Below(p, q) \/ Below(q, p)
<1>1. Len(p) \in Nat /\ Len(q) \in Nat /\ Len(r) \in Nat
  BY LenProperties
<1>2. Below(p, p)
  BY <1>1, BelowMeans
<1>3. Below(p, q) /\ Below(q, r) => Below(p, r)
  BY <1>1, BelowMeans
<1>4. Below(p, q) /\ Below(q, p) => p = q
  BY <1>1, BelowMeans, SeqEqual
<1>5. Below(p, r) /\ Below(q, r) => Below(p, q) \/ Below(q, p)
  BY <1>1, BelowMeans
<1> QED
  BY <1>2, <1>3, <1>4, <1>5

\* A path is below its directory, and what is below p and not p has a directory below p.
LEMMA BelowParent ==
    ASSUME NEW p \in Seq(Names), NEW q \in Seq(Names), q # Root
    PROVE  /\ Below(Parent(q), q)
           /\ Parent(q) # q
           /\ Below(p, q) /\ p # q => Below(p, Parent(q))
<1>1. /\ Parent(q) \in Seq(Names) /\ Len(q) \in Nat \ {0} /\ Len(p) \in Nat
      /\ Len(Parent(q)) = Len(q) - 1
      /\ \A i \in 1..(Len(q) - 1) : Parent(q)[i] = q[i]
  BY ParentMeans, LenProperties
<1>2. Below(Parent(q), q) /\ Parent(q) # q
  <2> DEFINE r == Parent(q)
  <2>1. Len(r) <= Len(q) /\ Len(r) # Len(q) /\ \A i \in 1..Len(r) : r[i] = q[i]
    BY <1>1
  <2>2. r \in Seq(Names)
    BY <1>1
  <2> HIDE DEF r
  <2>3. Below(r, q) /\ r # q
    BY <2>1, <2>2, BelowMeans
  <2> QED
    BY <2>3 DEF r
<1>3. ASSUME Below(p, q), p # q PROVE Below(p, Parent(q))
  <2>1. Len(p) <= Len(q) /\ \A i \in 1..Len(p) : p[i] = q[i]
    BY <1>3, BelowMeans
  <2>2. Len(p) # Len(q)
    BY <1>3, <2>1, SeqEqual
  <2> QED
    BY <1>1, <2>1, <2>2, BelowMeans
<1> QED
  BY <1>2, <1>3

LEMMA RootAbove ==
    ASSUME NEW p \in Seq(Names)
    PROVE  Below(p, Root) => p = Root
<1>1. Len(p) \in Nat /\ Root \in Seq(Names) /\ Len(Root) = 0
  BY LenProperties, EmptySeq DEF Root
<1>2. Below(p, Root) => Len(p) = 0
  <2>1. Below(p, Root) => Len(p) <= Len(Root)
    BY DEF Below
  <2> QED
    BY <1>1, <2>1
<1> QED
  BY <1>2, EmptySeq DEF Root

\* Moving is undone by moving back, and moves a directory with what is in it.
LEMMA MovedBack ==
    ASSUME NEW p \in Seq(Names), NEW src \in Seq(Names), NEW dest \in Seq(Names),
           Below(src, p)
    PROVE  /\ Moved(p, src, dest) \in Seq(Names)
           /\ Below(dest, Moved(p, src, dest))
           /\ Moved(Moved(p, src, dest), dest, src) = p
<1> DEFINE m == Moved(p, src, dest)
           b == Moved(m, dest, src)
<1>1. Len(p) \in Nat /\ Len(src) \in Nat /\ Len(dest) \in Nat
  BY LenProperties
<1>2. Len(src) <= Len(p) /\ \A i \in 1..Len(src) : src[i] = p[i]
  BY BelowMeans
<1>3. /\ m \in Seq(Names) /\ Len(m) = Len(dest) + Len(p) - Len(src)
      /\ \A i \in 1..Len(dest) : m[i] = dest[i]
      /\ \A i \in (Len(dest) + 1)..(Len(dest) + Len(p) - Len(src)) : m[i] = p[i - Len(dest) + Len(src)]
  BY <1>2, MovedMeans
<1> HIDE DEF m
<1>4. Below(dest, m)
  BY <1>1, <1>2, <1>3, BelowMeans
<1>5. Len(dest) <= Len(m)
  BY <1>1, <1>2, <1>3
<1>6. /\ b \in Seq(Names) /\ Len(b) = Len(src) + Len(m) - Len(dest)
      /\ \A i \in 1..Len(src) : b[i] = src[i]
      /\ \A i \in (Len(src) + 1)..(Len(src) + Len(m) - Len(dest)) : b[i] = m[i - Len(src) + Len(dest)]
  BY <1>3, <1>5, MovedMeans
<1> HIDE DEF b
<1>7. Len(b) = Len(p)
  BY <1>1, <1>3, <1>6
<1>8. ASSUME NEW i \in 1..Len(b) PROVE b[i] = p[i]
  <2>1. CASE i <= Len(src)
    BY <1>1, <1>2, <1>6, <1>7, <2>1
  <2>2. CASE i > Len(src)
    <3>1. i \in (Len(src) + 1)..(Len(src) + Len(m) - Len(dest))
      BY <1>1, <1>2, <1>3, <1>7, <2>2
    <3>2. b[i] = m[i - Len(src) + Len(dest)]
      BY <1>6, <3>1
    <3> DEFINE j == i - Len(src) + Len(dest)
    <3>3. j \in (Len(dest) + 1)..(Len(dest) + Len(p) - Len(src)) /\ j - Len(dest) + Len(src) = i
      BY <1>1, <1>7, <2>2
    <3> HIDE DEF j
    <3>4. m[j] = p[j - Len(dest) + Len(src)]
      BY <1>3, <3>3
    <3> QED
      BY <3>2, <3>3, <3>4 DEF j
  <2> QED
    BY <1>1, <1>7, <2>1, <2>2
<1>9. b = p
  BY <1>6, <1>7, <1>8, SeqEqual
<1> QED
  BY <1>3, <1>4, <1>9 DEF m, b

LEMMA MovedSelf ==
    ASSUME NEW src \in Seq(Names), NEW dest \in Seq(Names)
    PROVE  Moved(src, src, dest) = dest
<1> DEFINE m == Moved(src, src, dest)
<1>1. Len(src) \in Nat /\ Len(dest) \in Nat
  BY LenProperties
<1>2. Len(src) <= Len(src)
  BY <1>1
<1>3. /\ m \in Seq(Names) /\ Len(m) = Len(dest) + Len(src) - Len(src)
      /\ \A i \in 1..Len(dest) : m[i] = dest[i]
  BY <1>2, MovedMeans
<1> HIDE DEF m
<1>4. Len(m) = Len(dest)
  BY <1>1, <1>3
<1> QED
  BY <1>3, <1>4, SeqEqual DEF m

LEMMA MovedParent ==
    ASSUME NEW p \in Seq(Names), NEW src \in Seq(Names), NEW dest \in Seq(Names),
           Below(src, p), p # src
    PROVE  /\ p # Root /\ Moved(p, src, dest) # Root
           /\ Parent(Moved(p, src, dest)) = Moved(Parent(p), src, dest)
<1> DEFINE m == Moved(p, src, dest)
           g == Parent(p)
           n == Moved(g, src, dest)
           h == Parent(m)
<1>1. Len(p) \in Nat /\ Len(src) \in Nat /\ Len(dest) \in Nat
  BY LenProperties
<1>2. Len(src) <= Len(p) /\ \A i \in 1..Len(src) : src[i] = p[i]
  BY BelowMeans
<1>3. Len(src) # Len(p)
  BY <1>2, SeqEqual
<1>4. p # Root
  BY <1>1, <1>2, <1>3, EmptySeq DEF Root
<1>5. /\ m \in Seq(Names) /\ Len(m) = Len(dest) + Len(p) - Len(src)
      /\ \A i \in 1..Len(dest) : m[i] = dest[i]
      /\ \A i \in (Len(dest) + 1)..(Len(dest) + Len(p) - Len(src)) : m[i] = p[i - Len(dest) + Len(src)]
  BY <1>2, MovedMeans
<1>6. /\ g \in Seq(Names) /\ Len(g) = Len(p) - 1
      /\ \A i \in 1..(Len(p) - 1) : g[i] = p[i]
  BY <1>4, ParentMeans
<1> HIDE DEF m, g
<1>7. Len(src) <= Len(g)
  BY <1>1, <1>2, <1>3, <1>6
<1>8. /\ n \in Seq(Names) /\ Len(n) = Len(dest) + Len(g) - Len(src)
      /\ \A i \in 1..Len(dest) : n[i] = dest[i]
      /\ \A i \in (Len(dest) + 1)..(Len(dest) + Len(g) - Len(src)) : n[i] = g[i - Len(dest) + Len(src)]
  <2>1. g \in Seq(Names)
    BY <1>6
  <2> QED
    BY <1>7, <2>1, MovedMeans
<1>9. m # Root
  <2>1. Len(m) # 0
    BY <1>1, <1>2, <1>3, <1>5
  <2> QED
    BY <2>1, EmptySeq DEF Root
<1>10. /\ h \in Seq(Names) /\ Len(h) = Len(m) - 1
       /\ \A i \in 1..(Len(m) - 1) : h[i] = m[i]
  BY <1>5, <1>9, ParentMeans
<1> HIDE DEF n, h
<1>11. Len(h) = Len(n)
  BY <1>1, <1>5, <1>6, <1>8, <1>10
<1>12. ASSUME NEW i \in 1..Len(h) PROVE h[i] = n[i]
  <2>1. h[i] = m[i] /\ i \in 1..(Len(m) - 1)
    BY <1>10
  <2>2. CASE i <= Len(dest)
    BY <1>1, <1>5, <1>8, <2>1, <2>2
  <2>3. CASE i > Len(dest)
    <3> DEFINE j == i - Len(dest) + Len(src)
    <3>1. /\ i \in (Len(dest) + 1)..(Len(dest) + Len(p) - Len(src))
          /\ i \in (Len(dest) + 1)..(Len(dest) + Len(g) - Len(src))
      BY <1>1, <1>5, <1>6, <2>1, <2>3
    <3>2. m[i] = p[j] /\ n[i] = g[j]
      BY <1>5, <1>8, <3>1
    <3>3. j \in 1..(Len(p) - 1)
      BY <1>1, <1>6, <3>1
    <3> HIDE DEF j
    <3> QED
      BY <1>6, <2>1, <3>2, <3>3
  <2> QED
    BY <1>1, <2>1, <2>2, <2>3
<1>13. h = n
  BY <1>8, <1>10, <1>11, <1>12, SeqEqual
<1> QED
  BY <1>4, <1>9, <1>13 DEF m, g, n, h

\* What is above a path is its beginnings.
LEMMA Prefixes ==
    ASSUME NEW p \in Seq(Names), NEW i \in 0..Len(p)
    PROVE  /\ SubSeq(p, 1, i) \in Seq(Names)
           /\ Len(SubSeq(p, 1, i)) = i
           /\ \A j \in 1..i : SubSeq(p, 1, i)[j] = p[j]
           /\ Below(SubSeq(p, 1, i), p)
           /\ SubSeq(p, 1, i) = Root <=> i = 0
<1> DEFINE s == SubSeq(p, 1, i)
<1>1. Len(p) \in Nat /\ \A j \in 1..Len(p) : p[j] \in Names
  BY LenProperties, ElementOfSeq
<1>2. \A j \in 1..i : p[j] \in Names
  BY <1>1
<1>3. /\ s \in Seq(Names)
      /\ Len(s) = IF 1 <= i THEN i - 1 + 1 ELSE 0
      /\ \A j \in 1..(i - 1 + 1) : s[j] = p[1 + j - 1]
  BY <1>1, <1>2, SubSeqProperties
<1> HIDE DEF s
<1>4. Len(s) = i /\ \A j \in 1..i : s[j] = p[j]
  BY <1>1, <1>3
<1>5. Below(s, p)
  BY <1>1, <1>3, <1>4, BelowMeans
<1>6. s = Root <=> i = 0
  BY <1>3, <1>4, EmptySeq DEF Root
<1> QED
  BY <1>3, <1>4, <1>5, <1>6 DEF s

LEMMA AbovePrefix ==
    ASSUME NEW p \in Seq(Names), NEW q \in Seq(Names), Below(q, p)
    PROVE  Len(q) \in 0..Len(p) /\ q = SubSeq(p, 1, Len(q))
<1>1. Len(q) \in Nat /\ Len(p) \in Nat /\ Len(q) <= Len(p) /\ \A i \in 1..Len(q) : q[i] = p[i]
  BY BelowMeans, LenProperties
<1>2. Len(q) \in 0..Len(p)
  BY <1>1
<1> DEFINE s == SubSeq(p, 1, Len(q))
<1>3. s \in Seq(Names) /\ Len(s) = Len(q) /\ \A j \in 1..Len(q) : s[j] = p[j]
  BY <1>2, Prefixes
<1> HIDE DEF s
<1>4. s = q
  BY <1>1, <1>3, SeqEqual
<1> QED
  BY <1>2, <1>4 DEF s

LEMMA PrefixParent ==
    ASSUME NEW p \in Seq(Names), NEW i \in 1..Len(p)
    PROVE  Parent(SubSeq(p, 1, i)) = SubSeq(p, 1, i - 1)
<1> DEFINE s == SubSeq(p, 1, i)
           r == SubSeq(p, 1, i - 1)
<1>1. Len(p) \in Nat /\ i \in 0..Len(p) /\ i - 1 \in 0..Len(p) /\ i # 0
  BY LenProperties
<1>2. s \in Seq(Names) /\ Len(s) = i /\ s # Root /\ \A j \in 1..i : s[j] = p[j]
  BY <1>1, Prefixes
<1>3. r \in Seq(Names) /\ Len(r) = i - 1 /\ \A j \in 1..(i - 1) : r[j] = p[j]
  BY <1>1, Prefixes
<1> HIDE DEF s, r
<1>4. Parent(s) \in Seq(Names) /\ Len(Parent(s)) = i - 1 /\ \A j \in 1..(i - 1) : Parent(s)[j] = s[j]
  BY <1>2, ParentMeans
<1>5. Parent(s) = r
  BY <1>1, <1>2, <1>3, <1>4, SeqEqual
<1> QED
  BY <1>5 DEF s, r

\* What is above a path of the model is a path of the model.
LEMMA PrefixIsPath ==
    ASSUME NEW p \in Paths, NEW i \in 0..Len(p)
    PROVE  SubSeq(p, 1, i) \in Paths
<1> DEFINE without == {j \in 0..Len(p) : SubSeq(p, 1, j) \notin Paths}
<1>1. p \in Seq(Names) /\ Len(p) \in Nat
  BY PathsAreNames, LenProperties
<1>2. SUFFICES ASSUME without # {} PROVE FALSE
  OBVIOUS
<1>3. PICK j \in without : \A k \in without : k <= j
  <2>1. without \in SUBSET (0..Len(p))
    OBVIOUS
  <2> HIDE DEF without
  <2> QED BY <1>1, <1>2, <2>1, Greatest
<1>4. j # Len(p)
  BY <1>1, SubSeqFull
<1>5. j + 1 \in 1..Len(p) /\ j + 1 \in 0..Len(p) /\ ~(j + 1 <= j) /\ j + 1 - 1 = j
  BY <1>1, <1>4
<1>6. SubSeq(p, 1, j + 1) \in Paths
  BY <1>3, <1>5
<1>7. SubSeq(p, 1, j + 1) # Root
  BY <1>1, <1>5, Prefixes
<1>8. Parent(SubSeq(p, 1, j + 1)) = SubSeq(p, 1, j)
  BY <1>1, <1>5, PrefixParent
<1> QED
  BY <1>3, <1>6, <1>7, <1>8, PathAssumption

-------------------------------------------------------------------------------
(* Trees: what has an entry is in a directory.                             *)

Closed(t) ==
    /\ t[Root] = Directory
    /\ \A p \in Paths \ {Root} : t[p] # Nothing => t[Parent(p)] = Directory

\* Below what is no directory there is nothing.
LEMMA NothingBelow ==
    ASSUME NEW t, Closed(t), NEW p \in Paths, NEW q \in Paths,
           Below(p, q), p # q, t[p] # Directory
    PROVE  t[q] = Nothing
<1> DEFINE files == {i \in 0..Len(q) : i # Len(q) /\ t[SubSeq(q, 1, i)] # Directory}
<1>1. p \in Seq(Names) /\ q \in Seq(Names) /\ Len(q) \in Nat
  BY PathsAreNames, LenProperties
<1>2. SUFFICES ASSUME t[q] # Nothing PROVE FALSE
  OBVIOUS
<1>3. Len(p) \in 0..Len(q) /\ p = SubSeq(q, 1, Len(p))
  BY <1>1, AbovePrefix
<1>4. Len(p) # Len(q)
  <2>1. SubSeq(q, 1, Len(q)) = q
    BY <1>1, SubSeqFull
  <2> QED
    BY <1>3, <2>1
<1>5. Len(p) \in files
  BY <1>3, <1>4
<1>6. PICK i \in files : \A k \in files : k <= i
  <2>1. files \in SUBSET (0..Len(q))
    OBVIOUS
  <2> HIDE DEF files
  <2> QED BY <1>1, <1>5, <2>1, Greatest
<1>7. i + 1 \in 1..Len(q) /\ i + 1 \in 0..Len(q) /\ ~(i + 1 <= i) /\ i + 1 - 1 = i
  BY <1>1, <1>6
<1> DEFINE next == SubSeq(q, 1, i + 1)
<1>8. next \in Paths /\ next # Root /\ Parent(next) = SubSeq(q, 1, i)
  BY <1>1, <1>7, PrefixIsPath, Prefixes, PrefixParent
<1>9. t[next] # Nothing
  <2>1. CASE i + 1 = Len(q)
    BY <1>1, <1>2, <2>1, SubSeqFull
  <2>2. CASE i + 1 # Len(q)
    <3>1. t[next] = Directory
      BY <1>6, <1>7, <2>2
    <3> QED
      BY <3>1, ValueAssumption
  <2> QED
    BY <2>1, <2>2
<1> HIDE DEF next
<1>10. t[Parent(next)] = Directory
  BY <1>8, <1>9 DEF Closed
<1> QED
  BY <1>6, <1>8, <1>10

-------------------------------------------------------------------------------
(* What an operation of a local volume does to its tree.                   *)

\* Only the entry of p differs.
OneEntry(t, u, p) == u \in Trees /\ Closed(u) /\ \A q \in Paths \ {p} : u[q] = t[q]

LEMMA PathType ==
    ASSUME NEW p \in Paths \ {Root}
    PROVE  /\ p \in Seq(Names) /\ Parent(p) \in Paths /\ Parent(p) # p
           /\ Below(p, p) /\ Below(Parent(p), p)
           /\ Root \in Seq(Names) /\ ~Below(p, Root)
<1>1. p \in Seq(Names) /\ Root \in Seq(Names)
  BY PathsAreNames, RootIsPath
<1> QED
  BY <1>1, PathAssumption, BelowOrder, BelowParent, RootAbove

\* A file takes the place of a file or of nothing.
LEMMA FileEntry ==
    ASSUME NEW t \in Trees, Closed(t), NEW p \in Paths \ {Root}, NEW c \in Contents,
           t[Parent(p)] = Directory, t[p] # Directory
    PROVE  OneEntry(t, [t EXCEPT ![p] = c], p)
<1> DEFINE u == [t EXCEPT ![p] = c]
<1>1. u \in Trees /\ u[p] = c /\ \A q \in Paths \ {p} : u[q] = t[q]
  BY DEF Trees
<1>2. u[Root] = Directory
  BY <1>1, RootIsPath DEF Closed
<1>3. ASSUME NEW q \in Paths \ {Root}, u[q] # Nothing PROVE u[Parent(q)] = Directory
  <2>1. Parent(q) \in Paths
    BY PathType
  <2>2. t[Parent(q)] = Directory
    BY <1>1, <1>3 DEF Closed
  <2>3. Parent(q) # p
    BY <2>2
  <2> QED
    BY <1>1, <2>1, <2>2, <2>3
<1> HIDE DEF u
<1> QED
  BY <1>1, <1>2, <1>3 DEF OneEntry, Closed, u

LEMMA SameTree ==
    ASSUME NEW t \in Trees, Closed(t), NEW p
    PROVE  OneEntry(t, t, p)
BY DEF OneEntry

\* A write changes its file alone; one that succeeds leaves a file there, with what was
\* kept and some of what was written.
LEMMA PutEntry ==
    ASSUME NEW t \in Trees, Closed(t), NEW p \in Paths \ {Root}, NEW kept,
           NEW c \in Contents, NEW o \in Put(t, p, kept, c)
    PROVE  /\ OneEntry(t, o.tree, p)
           /\ o.ok => o.tree[p] \in Contents /\ kept \subseteq o.tree[p] /\ o.tree[p] \subseteq c
<1>1. CASE o = [tree |-> t, ok |-> FALSE]
  BY <1>1, SameTree
<1>2. ASSUME CanOpen(t, p), NEW e \in SUBSET c, NEW ok \in BOOLEAN, kept \subseteq e,
             o = [tree |-> [t EXCEPT ![p] = e], ok |-> ok]
      PROVE  /\ OneEntry(t, o.tree, p)
             /\ o.tree[p] \in Contents /\ kept \subseteq o.tree[p] /\ o.tree[p] \subseteq c
  <2>1. e \in Contents
    BY PutInTree
  <2>2. OneEntry(t, [t EXCEPT ![p] = e], p)
    BY <1>2, <2>1, FileEntry DEF CanOpen
  <2>3. [t EXCEPT ![p] = e][p] = e
    BY DEF Trees
  <2>4. o.tree = [t EXCEPT ![p] = e]
    BY <1>2
  <2> QED
    BY <1>2, <2>1, <2>2, <2>3, <2>4
<1> QED
  BY <1>1, <1>2, PutShape

\* A copy that succeeds is complete.
LEMMA CopiedEntry ==
    ASSUME NEW t \in Trees, Closed(t), NEW p \in Paths \ {Root},
           NEW c \in Contents, NEW o \in Copied(t, p, c)
    PROVE  OneEntry(t, o.tree, p) /\ (o.ok => o.tree[p] = c)
<1>1. CASE o = [tree |-> t, ok |-> FALSE]
  BY <1>1, SameTree
<1>2. ASSUME CanOpen(t, p), NEW e \in SUBSET c, NEW ok \in BOOLEAN, ok => e = c,
             o = [tree |-> [t EXCEPT ![p] = e], ok |-> ok]
      PROVE  OneEntry(t, o.tree, p) /\ (o.ok => o.tree[p] = c)
  <2>1. e \in Contents
    BY PutInTree
  <2>2. OneEntry(t, [t EXCEPT ![p] = e], p)
    BY <1>2, <2>1, FileEntry DEF CanOpen
  <2>3. [t EXCEPT ![p] = e][p] = e
    BY DEF Trees
  <2>4. o.tree = [t EXCEPT ![p] = e] /\ o.ok = ok
    BY <1>2
  <2> QED
    BY <1>2, <2>2, <2>3, <2>4
<1> QED
  BY <1>1, <1>2, CopiedShape

LEMMA WrittenEntry ==
    ASSUME NEW t \in Trees, Closed(t), NEW p \in Paths \ {Root},
           NEW c \in Contents, NEW o \in Written(t, p, c)
    PROVE  OneEntry(t, o.tree, p) /\ (o.ok => o.tree[p] \in Contents /\ o.tree[p] \subseteq c)
BY PutEntry DEF Written

LEMMA AppendedEntry ==
    ASSUME NEW t \in Trees, Closed(t), NEW p \in Paths \ {Root},
           NEW c \in Chunks, NEW o \in Appended(t, p, c)
    PROVE  /\ OneEntry(t, o.tree, p)
           /\ o.ok /\ IsFile(t[p]) => o.tree[p] \in Contents /\ t[p] \subseteq o.tree[p]
<1> DEFINE kept == IF IsFile(t[p]) THEN t[p] ELSE {}
<1>1. kept \in Contents
  BY DEF Trees, IsFile, Contents
<1>2. kept \cup {c} \in Contents
  BY <1>1 DEF Contents
<1>3. o \in Put(t, p, kept, kept \cup {c})
  BY DEF Appended
<1>4. IsFile(t[p]) => kept = t[p]
  OBVIOUS
<1> HIDE DEF kept
<1>5. OneEntry(t, o.tree, p) /\ (o.ok => o.tree[p] \in Contents /\ kept \subseteq o.tree[p])
  BY <1>1, <1>2, <1>3, PutEntry
<1> QED
  BY <1>4, <1>5

LEMMA MadeEntry ==
    ASSUME NEW t \in Trees, Closed(t), NEW p \in Paths \ {Root}, NEW o \in Made(t, p)
    PROVE  OneEntry(t, o.tree, p)
<1>1. CASE o \in Fails(t)
  BY <1>1, SameTree DEF Fails
<1>2. CASE o \notin Fails(t)
  <2> DEFINE u == [t EXCEPT ![p] = Directory]
  <2>1. t[Parent(p)] = Directory /\ t[p] = Nothing /\ o.tree = u
    BY <1>2 DEF Made, Succeeds
  <2>2. u \in Trees /\ u[p] = Directory /\ \A q \in Paths \ {p} : u[q] = t[q]
    BY DEF Trees
  <2>3. u[Root] = Directory
    BY <2>2, RootIsPath DEF Closed
  <2>4. ASSUME NEW q \in Paths \ {Root}, u[q] # Nothing PROVE u[Parent(q)] = Directory
    <3>1. Parent(q) \in Paths
      BY PathType
    <3>2. t[Parent(q)] = Directory
      BY <2>1, <2>2, <2>4 DEF Closed
    <3> QED
      BY <2>2, <3>1, <3>2
  <2> HIDE DEF u
  <2> QED
    BY <2>1, <2>2, <2>3, <2>4 DEF OneEntry, Closed
<1> QED
  BY <1>1, <1>2

LEMMA RemovedEntry ==
    ASSUME NEW t \in Trees, Closed(t), NEW p \in Paths \ {Root}, NEW o \in Removed(t, p)
    PROVE  /\ OneEntry(t, o.tree, p)
           /\ o.ok => t[p] # Nothing /\ o.tree[p] = Nothing
           /\ ~o.ok => o.tree = t
<1>1. CASE o \in Fails(t)
  BY <1>1, SameTree DEF Fails
<1>2. CASE o \notin Fails(t)
  <2> DEFINE u == [t EXCEPT ![p] = Nothing]
  <2>1. /\ t[p] # Nothing /\ o = [tree |-> u, ok |-> TRUE]
        /\ \A q \in Paths : Below(p, q) /\ q # p => t[q] = Nothing
    BY <1>2 DEF Removed, Succeeds
  <2>2. u \in Trees /\ u[p] = Nothing /\ \A q \in Paths \ {p} : u[q] = t[q]
    BY DEF Trees
  <2>3. u[Root] = Directory
    BY <2>2, RootIsPath DEF Closed
  <2>4. ASSUME NEW q \in Paths \ {Root}, u[q] # Nothing PROVE u[Parent(q)] = Directory
    <3>1. Parent(q) \in Paths /\ Below(Parent(q), q) /\ Parent(q) # q
      BY PathType
    <3>2. q # p /\ t[q] # Nothing
      BY <2>2, <2>4
    <3>3. t[Parent(q)] = Directory
      BY <3>2 DEF Closed
    <3>4. Parent(q) # p
      BY <2>1, <3>1, <3>2
    <3> QED
      BY <2>2, <3>1, <3>3, <3>4
  <2> HIDE DEF u
  <2> QED
    BY <2>1, <2>2, <2>3, <2>4 DEF OneEntry, Closed
<1> QED
  BY <1>1, <1>2

\* A renaming to a free place takes everything below src there, and nothing else.
LEMMA RenamedTree ==
    ASSUME NEW t \in Trees, Closed(t), NEW src \in Paths \ {Root}, NEW dest \in Paths \ {Root},
           t[dest] = Nothing, NEW o \in Renamed(t, src, dest)
    PROVE  /\ o.tree \in Trees /\ Closed(o.tree)
           /\ \/ o.tree = t /\ ~o.ok
              \/ /\ t[src] # Nothing /\ ~Below(src, dest) /\ ~Below(dest, src)
                 /\ \A p \in Paths :
                       /\ Below(src, p) => o.tree[p] = Nothing
                       /\ ~Below(src, p) /\ ~Below(dest, p) => o.tree[p] = t[p]
                       /\ Below(dest, p) /\ Moved(p, dest, src) \in Paths => o.tree[p] = t[Moved(p, dest, src)]
                       /\ Below(dest, p) /\ Moved(p, dest, src) \notin Paths => o.tree[p] = Nothing
<1>1. CASE o \in Fails(t)
  BY <1>1 DEF Fails
<1>2. CASE o \notin Fails(t)
  <2> DEFINE u == [p \in Paths |-> IF Below(dest, p)
                                   THEN LET q == Moved(p, dest, src)
                                        IN  IF q \in Paths THEN t[q] ELSE Nothing
                                   ELSE IF Below(src, p) THEN Nothing ELSE t[p]]
  <2>1. t[src] # Nothing /\ t[Parent(dest)] = Directory /\ ~Below(src, dest) /\ o.tree = u
    BY <1>2 DEF Renamed
  <2>2. u \in Trees
    BY DEF Trees
  <2>3. src \in Seq(Names) /\ dest \in Seq(Names) /\ \A p \in Paths : p \in Seq(Names)
    BY PathsAreNames
  <2>4. ~Below(dest, src)
    <3>1. dest # src
      BY <2>1, <2>3, BelowOrder
    <3>2. t[dest] # Directory
      BY ValueAssumption
    <3> QED
      BY <2>1, <3>1, <3>2, NothingBelow
  <2>5. \A p \in Paths : ~(Below(src, p) /\ Below(dest, p))
    BY <2>1, <2>3, <2>4, BelowOrder
  <2>6. \A p \in Paths :
           /\ Below(src, p) => u[p] = Nothing
           /\ ~Below(src, p) /\ ~Below(dest, p) => u[p] = t[p]
           /\ Below(dest, p) /\ Moved(p, dest, src) \in Paths => u[p] = t[Moved(p, dest, src)]
           /\ Below(dest, p) /\ Moved(p, dest, src) \notin Paths => u[p] = Nothing
    BY <2>5
  <2> HIDE DEF u
  <2>7. u[Root] = Directory
    BY <2>6, PathType, RootIsPath DEF Closed
  <2>8. ASSUME NEW p \in Paths \ {Root}, u[p] # Nothing PROVE u[Parent(p)] = Directory
    <3>1. Parent(p) \in Paths /\ Below(Parent(p), p) /\ Parent(p) \in Seq(Names) /\ p \in Seq(Names)
      BY <2>3, PathType
    <3>2. ~Below(src, p)
      BY <2>6, <2>8
    <3>3. ~Below(src, Parent(p))
      BY <2>3, <3>1, <3>2, BelowOrder
    <3>4. CASE ~Below(dest, p)
      <4>1. ~Below(dest, Parent(p))
        BY <2>3, <3>1, <3>4, BelowOrder
      <4>2. t[p] # Nothing
        BY <2>6, <2>8, <3>2, <3>4
      <4> QED
        BY <2>6, <3>1, <3>3, <4>1, <4>2 DEF Closed
    <3>5. CASE p = dest
      <4>1. ~Below(dest, Parent(dest))
        BY <2>3, <3>1, <3>5, BelowOrder, PathType
      <4> QED
        BY <2>1, <2>6, <3>1, <3>3, <3>5, <4>1
    <3>6. CASE Below(dest, p) /\ p # dest
      <4> DEFINE q == Moved(p, dest, src)
      <4>1. q \in Paths /\ t[q] # Nothing
        BY <2>6, <2>8, <3>6
      <4>2. q # Root /\ Parent(q) = Moved(Parent(p), dest, src)
        BY <2>3, <3>1, <3>6, MovedParent
      <4>3. Below(dest, Parent(p))
        BY <2>3, <3>1, <3>6, BelowParent
      <4> HIDE DEF q
      <4>4. Parent(q) \in Paths /\ t[Parent(q)] = Directory
        BY <4>1, <4>2, PathType DEF Closed
      <4> QED
        BY <2>6, <3>1, <4>2, <4>3, <4>4
    <3> QED
      BY <3>4, <3>5, <3>6
  <2> QED
    BY <2>1, <2>2, <2>4, <2>6, <2>7, <2>8 DEF Closed
<1> QED
  BY <1>1, <1>2

-------------------------------------------------------------------------------
(* What a volume shows.                                                    *)

AllClosed(T) == \A x \in Volumes : Closed(T[x])

\* The entry of the highest layer that has one is seen.
LEMMA LookShows ==
    ASSUME NEW T, NEW v, IsVolume(v), NEW p
    PROVE  \/ /\ Look(T, v, p) = Nothing
              /\ \A i \in 1..Len(v.layers) : T[v.layers[i]][p] = Nothing
           \/ \E i \in 1..Len(v.layers) :
                 /\ Look(T, v, p) = T[v.layers[i]][p]
                 /\ T[v.layers[i]][p] # Nothing
                 /\ \A j \in 1..Len(v.layers) : T[v.layers[j]][p] # Nothing => j <= i
<1> DEFINE having == {i \in DOMAIN v.layers : T[v.layers[i]][p] # Nothing}
           h == CHOOSE i \in having : \A j \in having : j <= i
<1>1. DOMAIN v.layers = 1..Len(v.layers) /\ Len(v.layers) \in Nat
  BY DEF IsVolume
<1>2. Highest(v, LAMBDA x : T[x][p] # Nothing) = IF having = {} THEN 0 ELSE h
  BY DEF Highest
<1>3. CASE having = {}
  <2>1. Look(T, v, p) = Nothing
    <3> HIDE DEF having, h
    <3> QED BY <1>2, <1>3 DEF Look
  <2> QED
    BY <1>1, <1>3, <2>1
<1>4. CASE having # {}
  <2>1. having \in SUBSET (0..Len(v.layers))
    BY <1>1
  <2>2. \E i \in having : \A j \in having : j <= i
    <3> HIDE DEF having
    <3> QED BY <1>1, <1>4, <2>1, Greatest
  <2>3. h \in having /\ \A j \in having : j <= h
    <3> HIDE DEF having
    <3> QED BY <2>2
  <2>4. h \in 1..Len(v.layers) /\ h # 0
    <3> HIDE DEF h
    <3> QED BY <1>1, <2>3
  <2>5. Look(T, v, p) = T[v.layers[h]][p]
    <3> HIDE DEF having, h
    <3> QED BY <1>2, <1>4, <2>4 DEF Look
  <2> HIDE DEF h
  <2> QED
    BY <1>1, <2>3, <2>4, <2>5
<1> QED
  BY <1>3, <1>4

\* An entry of the top layer is seen.
LEMMA LookOfTop ==
    ASSUME NEW T, NEW v, IsVolume(v), NEW p, T[Top(v)][p] # Nothing
    PROVE  Look(T, v, p) = T[Top(v)][p]
<1>1. Len(v.layers) \in Nat /\ Len(v.layers) \in 1..Len(v.layers)
  BY DEF IsVolume
<1>2. Top(v) = v.layers[Len(v.layers)]
  BY DEF Top
<1>3. \A i \in 1..Len(v.layers) : Len(v.layers) <= i => i = Len(v.layers)
  BY <1>1
<1> QED
  BY <1>1, <1>2, <1>3, LookShows

\* What is nowhere seen no layer has.
LEMMA LookOfNothing ==
    ASSUME NEW T, NEW v, IsVolume(v), NEW p, Look(T, v, p) = Nothing
    PROVE  /\ \A i \in 1..Len(v.layers) : T[v.layers[i]][p] = Nothing
           /\ T[Top(v)][p] = Nothing
<1>1. Len(v.layers) \in Nat /\ Len(v.layers) \in 1..Len(v.layers)
  BY DEF IsVolume
<1> QED
  BY <1>1, LookShows DEF Top

LEMMA NothingToSee ==
    ASSUME NEW T, NEW v, IsVolume(v), NEW p,
           \A i \in 1..Len(v.layers) : T[v.layers[i]][p] = Nothing
    PROVE  Look(T, v, p) = Nothing
BY LookShows

\* With one layer that layer is seen.
LEMMA LookOfOne ==
    ASSUME NEW T, NEW v, IsVolume(v), Len(v.layers) = 1, NEW p
    PROVE  Look(T, v, p) = T[Top(v)][p]
<1>1. \A i \in 1..Len(v.layers) : v.layers[i] = Top(v)
  BY DEF Top
<1> QED
  BY <1>1, LookShows

\* What is the same in every layer looks the same.
LEMMA LookSame ==
    ASSUME NEW T, NEW U, NEW v, IsVolume(v), NEW p,
           \A i \in 1..Len(v.layers) : U[v.layers[i]][p] = T[v.layers[i]][p]
    PROVE  Look(U, v, p) = Look(T, v, p)
<1>1. CASE \A i \in 1..Len(v.layers) : T[v.layers[i]][p] = Nothing
  BY <1>1, NothingToSee
<1>2. CASE \E i \in 1..Len(v.layers) : T[v.layers[i]][p] # Nothing
  <2>1. PICK i \in 1..Len(v.layers) :
           /\ Look(T, v, p) = T[v.layers[i]][p]
           /\ T[v.layers[i]][p] # Nothing
           /\ \A j \in 1..Len(v.layers) : T[v.layers[j]][p] # Nothing => j <= i
    BY <1>2, LookShows
  <2>2. PICK k \in 1..Len(v.layers) :
           /\ Look(U, v, p) = U[v.layers[k]][p]
           /\ U[v.layers[k]][p] # Nothing
           /\ \A j \in 1..Len(v.layers) : U[v.layers[j]][p] # Nothing => j <= k
    BY <1>2, LookShows
  <2>3. i <= k /\ k <= i
    BY <2>1, <2>2
  <2>4. i = k
    BY <2>3 DEF IsVolume
  <2> QED
    BY <2>1, <2>2, <2>4
<1> QED
  BY <1>1, <1>2

\* A file that is seen is the one that is read.
LEMMA LookIsRead ==
    ASSUME NEW T, NEW v, IsVolume(v), NEW p, IsFile(Look(T, v, p))
    PROVE  Read(T, v, p) = Look(T, v, p)
<1> DEFINE having == {i \in DOMAIN v.layers : IsFile(T[v.layers[i]][p])}
           h == CHOOSE i \in having : \A j \in having : j <= i
<1>1. DOMAIN v.layers = 1..Len(v.layers) /\ Len(v.layers) \in Nat
  BY DEF IsVolume
<1>2. PICK k \in 1..Len(v.layers) :
         /\ Look(T, v, p) = T[v.layers[k]][p]
         /\ \A j \in 1..Len(v.layers) : T[v.layers[j]][p] # Nothing => j <= k
  BY LookShows DEF IsFile
<1>3. k \in having /\ \A j \in having : j <= k
  BY <1>1, <1>2 DEF IsFile
<1>4. h = k
  <2>1. h \in having /\ \A j \in having : j <= h
    <3> HIDE DEF having
    <3> QED BY <1>3
  <2>2. h \in 1..Len(v.layers)
    <3> HIDE DEF h
    <3> QED BY <1>1, <2>1
  <2>3. h <= k /\ k <= h
    <3> HIDE DEF h, having
    <3> QED BY <1>3, <2>1
  <2> HIDE DEF h, having
  <2> QED
    BY <1>1, <2>2, <2>3
<1>5. Highest(v, LAMBDA x : IsFile(T[x][p])) = h
  BY <1>3 DEF Highest
<1> HIDE DEF h, having
<1>6. k # 0
  BY <1>1
<1> QED
  BY <1>2, <1>4, <1>5, <1>6 DEF Read

-------------------------------------------------------------------------------
(* What the operations of a volume change.                                 *)

\* Only the entry of p in the top layer differs.
Alters(T, v, U, p) ==
    /\ Typed(U) /\ AllClosed(U)
    /\ \A x \in Volumes : x # Top(v) => U[x] = T[x]
    /\ \A q \in Paths \ {p} : U[Top(v)][q] = T[Top(v)][q]

\* The top layer has the same entry for p, and the other layers are the same.
Agree(T, v, U, p) ==
    /\ \A x \in Volumes : x # Top(v) => U[x] = T[x]
    /\ U[Top(v)][p] = T[Top(v)][p]

\* Entries that are the same in the top layer look the same.
LEMMA LookKept ==
    ASSUME NEW T, NEW U, NEW v, IsVolume(v), NEW p, Agree(T, v, U, p)
    PROVE  Look(U, v, p) = Look(T, v, p)
<1>1. \A i \in 1..Len(v.layers) : v.layers[i] \in Volumes
  BY DEF IsVolume
<1>2. \A i \in 1..Len(v.layers) : U[v.layers[i]][p] = T[v.layers[i]][p]
  BY <1>1 DEF Agree
<1> QED
  BY <1>2, LookSame

LEMMA AltersLook ==
    ASSUME NEW T, NEW U, NEW v, IsVolume(v), NEW p, Alters(T, v, U, p), NEW q \in Paths \ {p}
    PROVE  Look(U, v, q) = Look(T, v, q)
<1>1. Agree(T, v, U, q)
  BY DEF Alters, Agree
<1> QED
  BY <1>1, LookKept

LEMMA AltersNothing ==
    ASSUME NEW T, Typed(T), AllClosed(T), NEW v, NEW p
    PROVE  Alters(T, v, T, p)
BY DEF Alters

LEMMA AltersAgain ==
    ASSUME NEW T, NEW U, NEW W, NEW v, NEW p, Alters(T, v, U, p), Alters(U, v, W, p)
    PROVE  Alters(T, v, W, p)
BY DEF Alters

LEMMA TopClosed ==
    ASSUME NEW T, Typed(T), AllClosed(T), NEW v, IsVolume(v)
    PROVE  T[Top(v)] \in Trees /\ Closed(T[Top(v)])
BY TopType DEF Typed, AllClosed

\* An outcome of the top layer as an outcome of the volume.
LEMMA OnTopTree ==
    ASSUME NEW T, Typed(T), AllClosed(T), NEW v, IsVolume(v), NEW outcomes,
           NEW r \in OnTop(T, v, outcomes)
    PROVE  \E o \in outcomes :
              /\ r.ok = o.ok
              /\ r.trees[Top(v)] = o.tree
              /\ \A x \in Volumes : x # Top(v) => r.trees[x] = T[x]
              /\ o.tree \in Trees /\ Closed(o.tree) => Typed(r.trees) /\ AllClosed(r.trees)
<1>1. Top(v) \in Volumes
  BY TopType
<1>2. PICK o \in outcomes : r = [trees |-> [T EXCEPT ![Top(v)] = o.tree], ok |-> o.ok]
  BY DEF OnTop, On
<1> DEFINE U == [T EXCEPT ![Top(v)] = o.tree]
<1>3. r.trees = U /\ r.ok = o.ok
  BY <1>2
<1>4. U[Top(v)] = o.tree /\ \A x \in Volumes : x # Top(v) => U[x] = T[x]
  BY <1>1 DEF Typed
<1>5. o.tree \in Trees => U \in [Volumes -> Trees]
  BY <1>1 DEF Typed
<1> HIDE DEF U
<1>6. Closed(o.tree) => AllClosed(U)
  BY <1>4 DEF AllClosed
<1> QED
  BY <1>3, <1>4, <1>5, <1>6 DEF Typed

\* Outcomes that change one entry of the top layer's tree.
LEMMA OneEntryAlters ==
    ASSUME NEW T, Typed(T), AllClosed(T), NEW v, IsVolume(v), NEW p, NEW outcomes,
           \A o \in outcomes : OneEntry(T[Top(v)], o.tree, p),
           NEW r \in OnTop(T, v, outcomes)
    PROVE  Alters(T, v, r.trees, p)
<1>1. PICK o \in outcomes :
         /\ r.trees[Top(v)] = o.tree
         /\ \A x \in Volumes : x # Top(v) => r.trees[x] = T[x]
         /\ o.tree \in Trees /\ Closed(o.tree) => Typed(r.trees) /\ AllClosed(r.trees)
  BY OnTopTree
<1>2. o.tree \in Trees /\ Closed(o.tree) /\ \A q \in Paths \ {p} : o.tree[q] = T[Top(v)][q]
  BY DEF OneEntry
<1> QED
  BY <1>1, <1>2 DEF Alters

LEMMA RefusedAlters ==
    ASSUME NEW T, Typed(T), AllClosed(T), NEW v, NEW p, NEW r \in Refused(T)
    PROVE  Alters(T, v, r.trees, p) /\ r.trees = T /\ ~r.ok
<1>1. r = [trees |-> T, ok |-> FALSE]
  BY DEF Refused
<1>2. r.trees = T /\ ~r.ok
  BY <1>1
<1> QED
  BY <1>2, AltersNothing

\* The contents of files are neither directories nor nothing.
LEMMA ContentsAreFiles ==
    ASSUME NEW c \in Contents
    PROVE  IsFile(c)
BY ValueAssumption DEF Contents, IsFile

LEMMA WriteFileAlters ==
    ASSUME NEW T, Typed(T), AllClosed(T), NEW v, IsVolume(v), NEW p \in Paths \ {Root},
           NEW c \in Contents
    PROVE  /\ \A r \in WriteFile(T, v, p, c) : Alters(T, v, r.trees, p)
           /\ \A r \in StreamFile(T, v, p, c) : Alters(T, v, r.trees, p)
<1>1. \A o \in Written(T[Top(v)], p, c) : OneEntry(T[Top(v)], o.tree, p)
  BY TopClosed, WrittenEntry
<1>2. \A r \in OnTop(T, v, Written(T[Top(v)], p, c)) : Alters(T, v, r.trees, p)
  BY <1>1, OneEntryAlters
<1>3. \A r \in Refused(T) : Alters(T, v, r.trees, p)
  BY RefusedAlters
<1> QED
  BY <1>2, <1>3 DEF WriteFile, StreamFile

\* What is appended to a file of the top layer is seen after what it had.
LEMMA AppendFileAlters ==
    ASSUME NEW T, Typed(T), AllClosed(T), NEW v, IsVolume(v), NEW p \in Paths \ {Root},
           NEW c \in Chunks, NEW r \in AppendFile(T, v, p, c)
    PROVE  /\ Alters(T, v, r.trees, p)
           /\ r.ok /\ IsFile(T[Top(v)][p]) => Look(T, v, p) \subseteq Look(r.trees, v, p)
<1> DEFINE t == T[Top(v)]
<1>1. t \in Trees /\ Closed(t)
  BY TopClosed
<1>2. \A o \in Appended(t, p, c) :
         /\ OneEntry(t, o.tree, p)
         /\ o.ok /\ IsFile(t[p]) => o.tree[p] \in Contents /\ t[p] \subseteq o.tree[p]
  <2> HIDE DEF t
  <2> QED BY <1>1, AppendedEntry
<1>3. r \in OnTop(T, v, Appended(t, p, c))
  BY DEF AppendFile
<1>4. Alters(T, v, r.trees, p)
  BY <1>2, <1>3, OneEntryAlters
<1>5. ASSUME r.ok, IsFile(t[p]) PROVE Look(T, v, p) \subseteq Look(r.trees, v, p)
  <2>1. PICK o \in Appended(t, p, c) : r.ok = o.ok /\ r.trees[Top(v)] = o.tree
    BY <1>3, OnTopTree
  <2>2. o.tree[p] \in Contents /\ t[p] \subseteq o.tree[p]
    BY <1>2, <1>5, <2>1
  <2>3. t[p] \in Contents
    BY <1>1, <1>5 DEF Trees, IsFile
  <2>4. t[p] # Nothing /\ o.tree[p] # Nothing
    BY <2>2, <2>3, ContentsAreFiles DEF IsFile
  <2>5. Look(T, v, p) = t[p]
    BY <2>4, LookOfTop
  <2>6. Look(r.trees, v, p) = o.tree[p]
    <3>1. r.trees[Top(v)][p] = o.tree[p]
      BY <2>1
    <3> HIDE DEF t
    <3> QED BY <2>4, <3>1, LookOfTop
  <2> QED
    BY <2>2, <2>5, <2>6
<1> QED
  BY <1>4, <1>5

LEMMA CreateDirectoryAlters ==
    ASSUME NEW T, Typed(T), AllClosed(T), NEW v, IsVolume(v), NEW p \in Paths \ {Root},
           NEW r \in CreateDirectory(T, v, p)
    PROVE  Alters(T, v, r.trees, p)
<1>1. \A o \in Made(T[Top(v)], p) : OneEntry(T[Top(v)], o.tree, p)
  BY TopClosed, MadeEntry
<1> QED
  BY <1>1, OneEntryAlters, RefusedAlters DEF CreateDirectory

\* A removal that succeeds takes the entry of the top layer, one that fails nothing.
LEMMA RemoveAlters ==
    ASSUME NEW T, Typed(T), AllClosed(T), NEW v, IsVolume(v), NEW p \in Paths \ {Root},
           NEW r \in Remove(T, v, p)
    PROVE  /\ Alters(T, v, r.trees, p)
           /\ r.ok => T[Top(v)][p] # Nothing /\ r.trees[Top(v)][p] = Nothing
<1> DEFINE t == T[Top(v)]
<1>1. t \in Trees /\ Closed(t)
  BY TopClosed
<1>2. \A o \in Removed(t, p) :
         OneEntry(t, o.tree, p) /\ (o.ok => t[p] # Nothing /\ o.tree[p] = Nothing)
  <2> HIDE DEF t
  <2> QED BY <1>1, RemovedEntry
<1>3. r \in OnTop(T, v, Removed(t, p))
  BY DEF Remove
<1>4. Alters(T, v, r.trees, p)
  BY <1>2, <1>3, OneEntryAlters
<1>5. PICK o \in Removed(t, p) : r.ok = o.ok /\ r.trees[Top(v)] = o.tree
  BY <1>3, OnTopTree
<1> QED
  BY <1>2, <1>4, <1>5

LEMMA RemovalAlters ==
    ASSUME NEW T, Typed(T), AllClosed(T), NEW v, IsVolume(v), NEW p \in Paths \ {Root}
    PROVE  /\ \A r \in RemoveDirectory(T, v, p) : Alters(T, v, r.trees, p)
           /\ \A r \in RemoveFile(T, v, p) : Alters(T, v, r.trees, p)
BY RemoveAlters, RefusedAlters DEF RemoveDirectory, RemoveFile

\* Clearing a place succeeds when nothing was seen there, or when the file that was seen
\* was the top layer's and is gone; a directory stays.
LEMMA ClearedAlters ==
    ASSUME NEW T, Typed(T), AllClosed(T), NEW v, IsVolume(v), NEW to \in Paths \ {Root},
           NEW r \in Cleared(T, v, to)
    PROVE  /\ Alters(T, v, r.trees, to)
           /\ r.ok => /\ r.trees[Top(v)][to] = Nothing
                      /\ Look(T, v, to) = Nothing \/ IsFile(T[Top(v)][to])
<1>1. CASE Look(T, v, to) = Nothing
  <2>1. r.trees = T
    BY <1>1 DEF Cleared
  <2> QED
    BY <1>1, <2>1, LookOfNothing, AltersNothing
<1>2. CASE Look(T, v, to) # Nothing
  <2>1. r \in RemoveFile(T, v, to)
    BY <1>2 DEF Cleared
  <2>2. Alters(T, v, r.trees, to)
    BY <2>1, RemovalAlters
  <2>3. ASSUME r.ok PROVE r.trees[Top(v)][to] = Nothing /\ IsFile(T[Top(v)][to])
    <3>1. IsFile(Look(T, v, to)) /\ r \in Remove(T, v, to)
      BY <2>1, <2>3, RefusedAlters DEF RemoveFile
    <3>2. T[Top(v)][to] # Nothing /\ r.trees[Top(v)][to] = Nothing
      BY <2>3, <3>1, RemoveAlters
    <3>3. Look(T, v, to) = T[Top(v)][to]
      BY <3>2, LookOfTop
    <3> QED
      BY <3>1, <3>2, <3>3
  <2> QED
    BY <2>2, <2>3
<1> QED
  BY <1>1, <1>2

\* W shows a file at p with nothing in it that is not in c: all of c, but in an overlay.
Shows(W, v, p, c) ==
    /\ IsFile(Look(W, v, p))
    /\ Look(W, v, p) \subseteq c
    /\ Look(W, v, p) = c \/ v.overlay

\* A copy changes the destination alone, and one that succeeds shows there what was read,
\* or a part of it.
LEMMA CopyAlters ==
    ASSUME NEW T, Typed(T), AllClosed(T), NEW v, IsVolume(v), NEW src \in Paths,
           NEW to \in Paths \ {Root}, NEW r \in Copy(T, v, src, to)
    PROVE  /\ Alters(T, v, r.trees, to)
           /\ r.ok => Shows(r.trees, v, to, Read(T, v, src))
<1> DEFINE c == Read(T, v, src)
           t == T[Top(v)]
           outcomes == IF v.overlay THEN Written(t, to, c) ELSE Copied(t, to, c)
<1>1. CASE r \in Refused(T)
  BY <1>1, RefusedAlters
<1>2. CASE r \notin Refused(T)
  <2>1. IsFile(c) /\ r \in OnTop(T, v, outcomes)
    BY <1>2 DEF Copy
  <2>2. c \in Contents
    BY <2>1, ReadType
  <2>3. t \in Trees /\ Closed(t)
    BY TopClosed
  <2> HIDE DEF c, t
  <2>4. ASSUME NEW o \in outcomes
        PROVE  /\ OneEntry(t, o.tree, to)
               /\ o.ok => /\ o.tree[to] \in Contents
                          /\ o.tree[to] \subseteq c
                          /\ o.tree[to] = c \/ v.overlay
    <3>1. CASE v.overlay
      BY <2>2, <2>3, <3>1, WrittenEntry
    <3>2. CASE ~v.overlay
      BY <2>2, <2>3, <3>2, CopiedEntry
    <3> QED
      BY <3>1, <3>2
  <2> HIDE DEF outcomes
  <2>5. Alters(T, v, r.trees, to)
    BY <2>1, <2>4, OneEntryAlters DEF t
  <2>6. PICK o \in outcomes : r.ok = o.ok /\ r.trees[Top(v)] = o.tree
    BY <2>1, OnTopTree
  <2>7. ASSUME r.ok PROVE Shows(r.trees, v, to, c)
    <3>1. /\ o.tree[to] \in Contents /\ o.tree[to] \subseteq c
          /\ o.tree[to] = c \/ v.overlay
      BY <2>4, <2>6, <2>7
    <3>2. r.trees[Top(v)][to] = o.tree[to] /\ IsFile(o.tree[to])
      BY <2>6, <3>1, ContentsAreFiles
    <3>3. Look(r.trees, v, to) = o.tree[to]
      BY <3>2, LookOfTop DEF IsFile
    <3> QED
      BY <3>1, <3>2, <3>3 DEF Shows
  <2> QED
    BY <2>5, <2>7 DEF c
<1> QED
  BY <1>1, <1>2

LEMMA CopyFileAlters ==
    ASSUME NEW T, Typed(T), AllClosed(T), NEW v, IsVolume(v), NEW src \in Paths, NEW dest,
           NEW overwrite, NEW to \in Paths \ {Root}, to = Dest(T, v, src, dest),
           NEW r \in CopyFile(T, v, src, dest, overwrite)
    PROVE  /\ Alters(T, v, r.trees, to)
           /\ r.ok /\ src # to => Shows(r.trees, v, to, Look(T, v, src))
<1>1. CASE r \in Refused(T)
  BY <1>1, RefusedAlters
<1>2. CASE r \notin Refused(T)
  <2>1. IsFile(Look(T, v, src))
    BY <1>2 DEF CopyFile
  <2>2. PICK o \in Cleared(T, v, to) : r \in Copy(o.trees, v, src, to)
    BY <1>2 DEF CopyFile
  <2>3. Alters(T, v, o.trees, to)
    BY ClearedAlters
  <2> DEFINE U == o.trees
  <2>4. Typed(U) /\ AllClosed(U) /\ r \in Copy(U, v, src, to) /\ Alters(T, v, U, to)
    BY <2>2, <2>3 DEF Alters
  <2> HIDE DEF U
  <2>5. Alters(U, v, r.trees, to) /\ (r.ok => Shows(r.trees, v, to, Read(U, v, src)))
    BY <2>4, CopyAlters
  <2>6. Alters(T, v, r.trees, to)
    BY <2>4, <2>5, AltersAgain
  <2>7. ASSUME src # to PROVE Read(U, v, src) = Look(T, v, src)
    <3>1. Look(U, v, src) = Look(T, v, src)
      BY <2>4, <2>7, AltersLook
    <3> QED
      BY <2>1, <3>1, LookIsRead
  <2> QED
    BY <2>5, <2>6, <2>7
<1> QED
  BY <1>1, <1>2

-------------------------------------------------------------------------------
(* Directories that are made with those above them.                        *)

\* The directories to be made are those from one on, which is in the root or in a
\* directory; none of them is seen as one.
LEMMA MissingMeans ==
    ASSUME NEW T, NEW v, NEW p \in Paths \ {Root}
    PROVE  \E k \in 0..(Len(p) - 1) :
              /\ Missing(T, v, p) = (k + 1)..Len(p)
              /\ k = 0 \/ Look(T, v, SubSeq(p, 1, k)) = Directory
<1> DEFINE there == {i \in 0..(Len(p) - 1) : i = 0 \/ Look(T, v, SubSeq(p, 1, i)) = Directory}
           k == CHOOSE i \in there : \A j \in there : j <= i
<1>1. Len(p) \in Nat \ {0}
  BY PathsAreNames, LenProperties, EmptySeq DEF Root
<1>2. Len(p) - 1 \in Nat
  BY <1>1
<1>3. 0 \in there
  BY <1>2
<1>4. \E i \in there : \A j \in there : j <= i
  <2>1. there \in SUBSET (0..(Len(p) - 1))
    OBVIOUS
  <2> HIDE DEF there
  <2> QED BY <1>2, <1>3, <2>1, Greatest
<1>5. k \in there
  <2> HIDE DEF there
  <2> QED BY <1>4
<1>6. Missing(T, v, p) = (k + 1)..Len(p)
  BY DEF Missing
<1> HIDE DEF k
<1>7. k \in 0..(Len(p) - 1) /\ (k = 0 \/ Look(T, v, SubSeq(p, 1, k)) = Directory)
  BY <1>5
<1> QED
  BY <1>6, <1>7

LEMMA LeastOfInterval ==
    ASSUME NEW k \in Nat, NEW n \in Nat, k < n
    PROVE  (CHOOSE i \in (k + 1)..n : \A j \in (k + 1)..n : i <= j) = k + 1
<1> DEFINE h == CHOOSE i \in (k + 1)..n : \A j \in (k + 1)..n : i <= j
<1>1. k + 1 \in (k + 1)..n /\ \A j \in (k + 1)..n : k + 1 <= j
  OBVIOUS
<1>2. h \in (k + 1)..n /\ \A j \in (k + 1)..n : h <= j
  BY <1>1
<1> HIDE DEF h
<1>3. h = k + 1
  BY <1>1, <1>2
<1> QED
  BY <1>3 DEF h

\* The top layer's tree with the directories from place k + 1 to n on the way to p.
LEMMA WayTree ==
    ASSUME NEW t \in Trees, Closed(t), NEW p \in Paths \ {Root}, NEW k \in 0..(Len(p) - 1),
           NEW n \in (k + 1)..Len(p),
           t[SubSeq(p, 1, k)] = Directory, t[SubSeq(p, 1, k + 1)] = Nothing,
           NEW u, u = [q \in Paths |-> IF Below(q, p) /\ Len(q) \in (k + 1)..n THEN Directory ELSE t[q]]
    PROVE  /\ u \in Trees /\ Closed(u)
           /\ \A q \in Paths : Below(q, p) /\ Len(q) \in (k + 1)..Len(p) => t[q] = Nothing
           /\ \A q \in Paths : ~(Below(q, p) /\ Len(q) \in (k + 1)..n) => u[q] = t[q]
<1> DEFINE Way(q) == Below(q, p) /\ Len(q) \in (k + 1)..n
<1>1. Len(p) \in Nat \ {0} /\ p \in Seq(Names) /\ k \in Nat /\ n \in Nat
  BY PathsAreNames, LenProperties, EmptySeq DEF Root
<1>2. \A q \in Paths : q \in Seq(Names) /\ Len(q) \in Nat
  BY PathsAreNames, LenProperties
<1>3. /\ u \in Trees
      /\ \A q \in Paths : Way(q) => u[q] = Directory
      /\ \A q \in Paths : ~Way(q) => u[q] = t[q]
  BY DEF Trees
<1>4. k \in 0..Len(p) /\ k + 1 \in 0..Len(p) /\ k + 1 \in 1..Len(p)
  BY <1>1
<1>5. ASSUME NEW q \in Paths, Below(q, p), Len(q) \in (k + 1)..Len(p) PROVE t[q] = Nothing
  <2> DEFINE first == SubSeq(p, 1, k + 1)
  <2>1. first \in Paths /\ first \in Seq(Names) /\ Len(first) = k + 1 /\ Below(first, p)
    BY <1>1, <1>4, PrefixIsPath, Prefixes
  <2>2. t[first] = Nothing /\ t[first] # Directory
    BY ValueAssumption
  <2> HIDE DEF first
  <2>3. Below(first, q)
    <3>1. Below(first, q) \/ Below(q, first)
      BY <1>1, <1>2, <1>5, <2>1, BelowOrder
    <3>2. CASE Below(q, first)
      <4>1. Len(q) <= Len(first)
        BY <3>2 DEF Below
      <4>2. Len(q) = Len(first)
        BY <1>1, <1>5, <2>1, <4>1
      <4>3. q = SubSeq(p, 1, Len(q)) /\ first = SubSeq(p, 1, Len(first))
        BY <1>1, <1>2, <1>5, <2>1, AbovePrefix
      <4>4. q = first
        BY <4>2, <4>3
      <4> QED
        BY <2>1, <4>4, BelowOrder
    <3> QED
      BY <3>1, <3>2
  <2> QED
    BY <2>1, <2>2, <2>3, NothingBelow
<1>6. u[Root] = Directory
  <2>1. Len(Root) = 0 /\ Root \in Paths
    BY RootIsPath, EmptySeq DEF Root
  <2>2. ~(0 \in (k + 1)..n)
    BY <1>1
  <2> QED
    BY <1>3, <2>1, <2>2 DEF Closed
<1>7. ASSUME NEW q \in Paths \ {Root}, u[q] # Nothing PROVE u[Parent(q)] = Directory
  <2>1. Parent(q) \in Paths
    BY PathType
  <2>2. CASE ~Way(q)
    <3>1. t[Parent(q)] = Directory
      BY <1>3, <1>7, <2>2 DEF Closed
    <3> QED
      BY <1>3, <2>1, <3>1
  <2>3. CASE Way(q)
    <3> DEFINE i == Len(q)
    <3>1. i \in (k + 1)..n /\ i \in 1..Len(p) /\ i - 1 \in 0..Len(p) /\ (i - 1 = k \/ i - 1 \in (k + 1)..n)
      BY <1>1, <2>3
    <3>2. q = SubSeq(p, 1, i)
      BY <1>1, <1>2, <2>3, AbovePrefix
    <3> HIDE DEF i
    <3>3. Parent(q) = SubSeq(p, 1, i - 1)
      BY <1>1, <3>1, <3>2, PrefixParent
    <3>4. CASE i - 1 = k
      <4>1. t[Parent(q)] = Directory
        BY <3>3, <3>4
      <4> QED
        BY <1>3, <2>1, <4>1
    <3>5. CASE i - 1 \in (k + 1)..n
      <4>1. Below(Parent(q), p) /\ Len(Parent(q)) = i - 1
        BY <1>1, <3>1, <3>3, Prefixes
      <4> QED
        BY <1>3, <2>1, <3>5, <4>1
    <3> QED
      BY <3>1, <3>4, <3>5
  <2> QED
    BY <2>2, <2>3
<1> QED
  BY <1>3, <1>5, <1>6, <1>7 DEF Closed

\* Entries that differ are in the top layer, which had nothing there, on the way to p.
OnTheWay(T, v, U, p) ==
    /\ Typed(U) /\ AllClosed(U)
    /\ \A x \in Volumes : x # Top(v) => U[x] = T[x]
    /\ \A q \in Paths :
          \/ U[Top(v)][q] = T[Top(v)][q]
          \/ Below(q, p) /\ Len(q) \in Missing(T, v, p) /\ T[Top(v)][q] = Nothing

LEMMA OnTheWayLooks ==
    ASSUME NEW T, NEW U, NEW v, IsVolume(v), NEW p, OnTheWay(T, v, U, p), NEW q \in Paths
    PROVE  \/ Look(U, v, q) = Look(T, v, q)
           \/ Below(q, p) /\ Len(q) \in Missing(T, v, p) /\ T[Top(v)][q] = Nothing
<1>1. CASE U[Top(v)][q] = T[Top(v)][q]
  <2>1. Agree(T, v, U, q)
    BY <1>1 DEF OnTheWay, Agree
  <2> QED
    BY <2>1, LookKept
<1>2. CASE U[Top(v)][q] # T[Top(v)][q]
  BY <1>2 DEF OnTheWay
<1> QED
  BY <1>1, <1>2

\* Directories are made where the top layer has nothing, on the way to p.
LEMMA MadeDownMakes ==
    ASSUME NEW T, Typed(T), AllClosed(T), NEW v, IsVolume(v), NEW p \in Paths \ {Root},
           NEW r \in MadeDown(T, v, p)
    PROVE  OnTheWay(T, v, r.trees, p)
<1> DEFINE first == CHOOSE i \in Missing(T, v, p) : \A j \in Missing(T, v, p) : i <= j
           t == T[Top(v)]
           Until(n) == [q \in Paths |-> IF Below(q, p) /\ Len(q) \in first..n THEN Directory ELSE t[q]]
           can == TRUE \in {o.ok : o \in Made(t, SubSeq(p, 1, first))}
           made == {[tree |-> Until(n), ok |-> n = Len(p)] : n \in first..Len(p)}
<1>1. MadeDown(T, v, p) = Refused(T) \cup (IF can THEN OnTop(T, v, made) ELSE {})
  BY DEF MadeDown
<1>2. CASE r \in Refused(T)
  <2>1. r.trees = T
    BY <1>2, RefusedAlters
  <2> HIDE DEF can, made
  <2> QED
    BY <2>1 DEF OnTheWay
<1>3. CASE r \notin Refused(T)
  <2>1. can /\ r \in OnTop(T, v, made)
    <3> HIDE DEF can, made
    <3> QED BY <1>1, <1>3
  <2>2. PICK k \in 0..(Len(p) - 1) : Missing(T, v, p) = (k + 1)..Len(p)
    BY MissingMeans
  <2>3. Len(p) \in Nat \ {0} /\ p \in Seq(Names) /\ k \in Nat /\ k < Len(p) /\ Len(p) \in Nat
    BY <2>2, PathsAreNames, LenProperties, EmptySeq DEF Root
  <2>4. first = k + 1
    BY <2>2, <2>3, LeastOfInterval
  <2>5. t \in Trees /\ Closed(t)
    BY TopClosed
  <2> DEFINE next == SubSeq(p, 1, k + 1)
  <2>6. k + 1 \in 1..Len(p) /\ k + 1 \in 0..Len(p) /\ k + 1 - 1 = k
    BY <2>3
  <2>7. Parent(next) = SubSeq(p, 1, k)
    BY <2>3, <2>6, PrefixParent
  <2>8. t[SubSeq(p, 1, k)] = Directory /\ t[next] = Nothing
    <3>1. PICK o \in Made(t, next) : o.ok = TRUE
      <4> HIDE DEF t, first, next
      <4> QED BY <2>1, <2>4 DEF next
    <3> HIDE DEF t, first, next
    <3>2. o \notin Fails(t)
      BY <3>1 DEF Fails
    <3>3. t[Parent(next)] = Directory /\ t[next] = Nothing
      BY <3>1, <3>2 DEF Made
    <3> QED
      BY <2>7, <3>3
  <2>9. PICK o \in made :
           /\ r.trees[Top(v)] = o.tree
           /\ \A x \in Volumes : x # Top(v) => r.trees[x] = T[x]
           /\ o.tree \in Trees /\ Closed(o.tree) => Typed(r.trees) /\ AllClosed(r.trees)
    <3> HIDE DEF made
    <3> QED BY <2>1, OnTopTree
  <2>10. PICK n \in first..Len(p) : o = [tree |-> Until(n), ok |-> n = Len(p)]
    <3> HIDE DEF first, Until
    <3> QED OBVIOUS
  <2> DEFINE u == o.tree
  <2>11. u = Until(n)
    <3> HIDE DEF Until, first, made
    <3> QED BY <2>10
  <2>12. n \in (k + 1)..Len(p)
    <3> HIDE DEF Until, first, made
    <3> QED BY <2>4, <2>10
  <2>13. u = [q \in Paths |-> IF Below(q, p) /\ Len(q) \in (k + 1)..n THEN Directory ELSE t[q]]
    <3> HIDE DEF u, t, first, made
    <3> QED BY <2>4, <2>11
  <2> HIDE DEF u, t, Until, first, made, next
  <2>14. /\ u \in Trees /\ Closed(u)
         /\ \A q \in Paths : Below(q, p) /\ Len(q) \in (k + 1)..Len(p) => t[q] = Nothing
         /\ \A q \in Paths : ~(Below(q, p) /\ Len(q) \in (k + 1)..n) => u[q] = t[q]
    BY <2>2, <2>5, <2>8, <2>12, <2>13, WayTree DEF next
  <2>15. \A i : i \in (k + 1)..n => i \in (k + 1)..Len(p)
    BY <2>3, <2>12
  <2>16. ASSUME NEW q \in Paths
         PROVE  u[q] = t[q] \/ (Below(q, p) /\ Len(q) \in Missing(T, v, p) /\ t[q] = Nothing)
    BY <2>2, <2>14, <2>15
  <2> QED
    BY <2>9, <2>14, <2>16 DEF OnTheWay, u, t
<1> QED
  BY <1>2, <1>3

\* What looks different after directories were made: places where nothing was seen, and,
\* when they are made by way of createDirectoryThrowsUnchecked in an overlay, places on
\* the way to p.
LEMMA CreateDirectoriesMakes ==
    ASSUME NEW T, Typed(T), AllClosed(T), NEW v, IsVolume(v), NEW p \in Paths \ {Root}
    PROVE  /\ \A r \in CreateDirectories(T, v, p) :
                 /\ AllClosed(r.trees)
                 /\ \A q \in Paths : Look(r.trees, v, q) = Look(T, v, q) \/ Look(T, v, q) = Nothing
           /\ \A r \in CreateDirectoriesThrows(T, v, p) :
                 /\ AllClosed(r.trees)
                 /\ \A q \in Paths :
                       \/ Look(r.trees, v, q) = Look(T, v, q)
                       \/ Below(q, p)
                 /\ Len(v.layers) = 1 =>
                       \A q \in Paths : Look(r.trees, v, q) = Look(T, v, q) \/ Look(T, v, q) = Nothing
<1>1. ASSUME NEW r \in {[trees |-> T, ok |-> Look(T, v, p) = Directory]} PROVE r.trees = T
  OBVIOUS
<1>2. ASSUME NEW r \in Refused(T) PROVE r.trees = T
  BY RefusedAlters
<1>3. ASSUME NEW r \in MadeDown(T, v, p), NEW q \in Paths
      PROVE  /\ AllClosed(r.trees)
             /\ \/ Look(r.trees, v, q) = Look(T, v, q)
                \/ Below(q, p) /\ Len(q) \in Missing(T, v, p) /\ T[Top(v)][q] = Nothing
  <2>1. OnTheWay(T, v, r.trees, p)
    BY MadeDownMakes
  <2>2. AllClosed(r.trees)
    BY <2>1 DEF OnTheWay
  <2> QED
    BY <2>1, <2>2, OnTheWayLooks
<1>4. p \in Paths
  OBVIOUS
<1>5. ASSUME NEW r \in CreateDirectories(T, v, p), NEW q \in Paths
      PROVE  AllClosed(r.trees) /\ (Look(r.trees, v, q) = Look(T, v, q) \/ Look(T, v, q) = Nothing)
  <2>1. CASE Look(T, v, p) # Nothing
    <3>1. r.trees = T
      BY <1>1, <1>5, <2>1 DEF CreateDirectories
    <3> QED
      BY <3>1
  <2>2. CASE Look(T, v, p) = Nothing /\ \E i \in Missing(T, v, p) : Look(T, v, SubSeq(p, 1, i)) # Nothing
    <3>1. r.trees = T
      BY <1>2, <1>5, <2>2 DEF CreateDirectories
    <3> QED
      BY <3>1
  <2>3. CASE Look(T, v, p) = Nothing /\ \A i \in Missing(T, v, p) : Look(T, v, SubSeq(p, 1, i)) = Nothing
    <3>1. r \in MadeDown(T, v, p)
      BY <1>5, <2>3 DEF CreateDirectories
    <3>2. /\ AllClosed(r.trees)
          /\ Look(r.trees, v, q) = Look(T, v, q) \/ (Below(q, p) /\ Len(q) \in Missing(T, v, p))
      BY <1>3, <3>1
    <3>3. Below(q, p) => q = SubSeq(p, 1, Len(q))
      BY PathsAreNames, AbovePrefix
    <3> QED
      BY <2>3, <3>2, <3>3
  <2> QED
    BY <2>1, <2>2, <2>3
<1>6. ASSUME NEW r \in CreateDirectoriesThrows(T, v, p), NEW q \in Paths
      PROVE  /\ AllClosed(r.trees)
             /\ Look(r.trees, v, q) = Look(T, v, q) \/ Below(q, p)
             /\ Len(v.layers) = 1 => Look(r.trees, v, q) = Look(T, v, q) \/ Look(T, v, q) = Nothing
  <2>1. CASE Look(T, v, p) # Nothing
    <3>1. r.trees = T
      BY <1>1, <1>6, <2>1 DEF CreateDirectoriesThrows
    <3> QED
      BY <3>1
  <2>2. CASE Look(T, v, p) = Nothing
    <3>1. r \in MadeDown(T, v, p)
      BY <1>6, <2>2 DEF CreateDirectoriesThrows
    <3>2. /\ AllClosed(r.trees)
          /\ Look(r.trees, v, q) = Look(T, v, q) \/ (Below(q, p) /\ T[Top(v)][q] = Nothing)
      BY <1>3, <3>1
    <3>3. Len(v.layers) = 1 => Look(T, v, q) = T[Top(v)][q]
      BY LookOfOne
    <3> QED
      BY <3>2, <3>3
  <2> QED
    BY <2>1, <2>2
<1> QED
  BY <1>4, <1>5, <1>6

-------------------------------------------------------------------------------
(* Files that are moved and renamed.                                       *)

\* The place `to` is free in the top layer of U, and was free, or a file of that layer,
\* in T.
Freed(T, v, U, to) ==
    /\ Alters(T, v, U, to)
    /\ U[Top(v)][to] = Nothing
    /\ Look(T, v, to) = Nothing \/ IsFile(T[Top(v)][to])

\* What a layer has below src finds a path below `to`.
HasPlaces(T, src, to) ==
    \A x \in Volumes, p \in Paths :
       Below(src, p) /\ T[x][p] # Nothing => Moved(p, src, to) \in Paths

\* The file p looks as it did, or looks so where it was to be moved.
FileSurvives(T, v, W, src, to, p) ==
    IF Below(src, p) /\ IsFile(Look(T, v, p))
    THEN Look(W, v, p) = Look(T, v, p) \/ Look(W, v, Moved(p, src, to)) = Look(T, v, p)
    ELSE Look(W, v, p) = Look(T, v, p) \/ ~IsFile(Look(T, v, p))

\* The top layer's directory src has come to the place of the top layer's file `to`,
\* above p, and there are other layers.
Covers(T, v, src, to, p) ==
    /\ Len(v.layers) # 1
    /\ T[Top(v)][src] = Directory /\ IsFile(T[Top(v)][to]) /\ Below(to, p)

\* A renaming that succeeds shows the source at the destination.
LEMMA RenamingDelivers ==
    ASSUME NEW T, Typed(T), AllClosed(T), NEW v, IsVolume(v), NEW src \in Paths \ {Root},
           NEW to \in Paths \ {Root}, NEW U, Freed(T, v, U, to),
           NEW o \in Renamed(U[Top(v)], src, to), o.ok, NEW W, W[Top(v)] = o.tree
    PROVE  Look(W, v, to) = Look(T, v, src)
<1> DEFINE t == U[Top(v)]
<1>1. Typed(U) /\ AllClosed(U) /\ t[to] = Nothing
  BY DEF Freed, Alters
<1>2. t \in Trees /\ Closed(t)
  BY <1>1, TopClosed
<1>3. src \in Seq(Names) /\ to \in Seq(Names)
  BY PathsAreNames
<1>4. /\ t[src] # Nothing
      /\ Below(to, to) /\ Moved(to, to, src) \in Paths => o.tree[to] = t[Moved(to, to, src)]
  <2> HIDE DEF t
  <2> QED BY <1>1, <1>2, RenamedTree DEF t
<1>5. Moved(to, to, src) = src /\ Below(to, to)
  BY <1>3, MovedSelf, BelowOrder
<1>6. o.tree[to] = t[src]
  BY <1>4, <1>5
<1>7. src # to
  BY <1>1, <1>4
<1>8. t[src] = T[Top(v)][src]
  BY <1>7 DEF Freed, Alters
<1> HIDE DEF t
<1>9. Look(W, v, to) = t[src]
  BY <1>4, <1>6, LookOfTop
<1>10. Look(T, v, src) = t[src]
  BY <1>4, <1>8, LookOfTop
<1> QED
  BY <1>9, <1>10

\* A renaming takes every file below src to `to`, and hides no file but below a file of
\* the top layer that a directory replaces.
LEMMA RenamingKeeps ==
    ASSUME NEW T, Typed(T), AllClosed(T), NEW v, IsVolume(v), NEW src \in Paths \ {Root},
           NEW to \in Paths \ {Root}, HasPlaces(T, src, to), NEW U, Freed(T, v, U, to),
           NEW o \in Renamed(U[Top(v)], src, to), NEW W, W[Top(v)] = o.tree,
           \A x \in Volumes : x # Top(v) => W[x] = U[x],
           NEW p \in Paths \ {to}
    PROVE  FileSurvives(T, v, W, src, to, p) \/ (~Below(src, p) /\ Covers(T, v, src, to, p))
<1> DEFINE t == U[Top(v)]
           w == o.tree
           top == T[Top(v)]
<1>1. /\ Typed(U) /\ AllClosed(U) /\ t[to] = Nothing /\ Top(v) \in Volumes
      /\ \A q \in Paths \ {to} : t[q] = top[q]
  BY TopType DEF Freed, Alters
<1>2. t \in Trees /\ Closed(t) /\ top \in Trees /\ Closed(top)
  BY <1>1, TopClosed
<1>3. src \in Seq(Names) /\ to \in Seq(Names) /\ p \in Seq(Names) /\ p \in Paths
  BY PathsAreNames
<1>4. \A x \in Volumes : x # Top(v) => W[x] = T[x]
  BY DEF Freed, Alters
<1>5. ASSUME w[p] = top[p] PROVE Look(W, v, p) = Look(T, v, p)
  <2>1. Agree(T, v, W, p)
    BY <1>4, <1>5 DEF Agree
  <2> QED
    BY <2>1, LookKept
<1>6. CASE w = t
  BY <1>1, <1>5, <1>6 DEF FileSurvives
<1>7. CASE w # t
  <2>1. /\ t[src] # Nothing /\ ~Below(src, to) /\ ~Below(to, src)
        /\ \A q \in Paths :
              /\ Below(src, q) => w[q] = Nothing
              /\ ~Below(src, q) /\ ~Below(to, q) => w[q] = t[q]
              /\ Below(to, q) /\ Moved(q, to, src) \in Paths => w[q] = t[Moved(q, to, src)]
              /\ Below(to, q) /\ Moved(q, to, src) \notin Paths => w[q] = Nothing
    <3> HIDE DEF t
    <3> QED BY <1>1, <1>2, <1>7, RenamedTree DEF t
  <2>2. top[src] = t[src] /\ Below(src, src) /\ Below(to, to)
    BY <1>1, <1>3, <2>1, BelowOrder
  <2>3. CASE ~Below(src, p) /\ ~Below(to, p)
    <3>1. w[p] = top[p]
      BY <1>1, <1>3, <2>1, <2>3
    <3> QED
      BY <1>5, <2>3, <3>1 DEF FileSurvives
  <2>4. CASE Below(src, p)
    <3>1. CASE top[p] = Nothing
      <4>1. w[p] = top[p]
        BY <1>3, <2>1, <2>4, <3>1
      <4> QED
        BY <1>5, <4>1 DEF FileSurvives
    <3>2. CASE top[p] # Nothing
      <4> DEFINE m == Moved(p, src, to)
      <4>1. m \in Paths
        BY <1>1, <1>3, <2>4, <3>2 DEF HasPlaces
      <4>2. Below(to, m) /\ Moved(m, to, src) = p
        BY <1>3, <2>4, MovedBack
      <4> HIDE DEF m
      <4>3. w[m] = top[p]
        BY <1>1, <1>3, <2>1, <4>1, <4>2
      <4>4. Look(T, v, p) = top[p]
        BY <3>2, LookOfTop
      <4>5. W[Top(v)][m] # Nothing /\ W[Top(v)][m] = top[p]
        BY <3>2, <4>3
      <4>6. Look(W, v, m) = top[p]
        <5> HIDE DEF top
        <5> QED BY <4>5, LookOfTop
      <4> QED
        BY <2>4, <4>4, <4>6 DEF FileSurvives, m
    <3> QED
      BY <3>1, <3>2
  <2>5. CASE ~Below(src, p) /\ Below(to, p)
    <3>1. CASE Look(T, v, to) = Nothing
      <4>1. \A i \in 1..Len(v.layers) : v.layers[i] \in Volumes /\ T[v.layers[i]][to] = Nothing
        BY <3>1, LookOfNothing DEF IsVolume
      <4>2. ASSUME NEW i \in 1..Len(v.layers) PROVE T[v.layers[i]][p] = Nothing
        <5> DEFINE l == T[v.layers[i]]
        <5>1. Closed(l) /\ l[to] # Directory
          BY <4>1, ValueAssumption DEF AllClosed
        <5> HIDE DEF l
        <5>2. l[p] = Nothing
          BY <1>3, <2>5, <5>1, NothingBelow
        <5> QED
          BY <5>2 DEF l
      <4>3. Look(T, v, p) = Nothing
        BY <4>2, NothingToSee
      <4> QED
        BY <2>5, <4>3 DEF FileSurvives, IsFile
    <3>2. CASE IsFile(top[to])
      <4>1. top[p] = Nothing
        <5> HIDE DEF top
        <5> QED BY <1>2, <1>3, <2>5, <3>2, NothingBelow DEF IsFile
      <4>2. CASE Len(v.layers) = 1
        <5>1. Look(T, v, p) = Nothing
          BY <4>1, <4>2, LookOfOne
        <5> QED
          BY <2>5, <5>1 DEF FileSurvives, IsFile
      <4>3. CASE Len(v.layers) # 1 /\ top[src] = Directory
        BY <2>5, <3>2, <4>3 DEF Covers
      <4>4. CASE top[src] # Directory
        <5> DEFINE m == Moved(p, to, src)
        <5>1. Below(src, m) /\ Moved(m, src, to) = p /\ m \in Seq(Names)
          BY <1>3, <2>5, MovedBack
        <5>2. Moved(src, src, to) = to
          BY <1>3, MovedSelf
        <5>3. m # src
          BY <5>1, <5>2
        <5>4. ASSUME m \in Paths PROVE t[m] = Nothing
          <6> HIDE DEF m, t
          <6> QED BY <1>2, <2>2, <4>4, <5>1, <5>3, <5>4, NothingBelow
        <5>5. w[p] = Nothing
          <6> HIDE DEF m
          <6> QED BY <1>3, <2>1, <2>5, <5>4 DEF m
        <5> QED
          BY <1>5, <2>5, <4>1, <5>5 DEF FileSurvives
      <4> QED
        BY <4>2, <4>3, <4>4
    <3> QED
      BY <3>1, <3>2 DEF Freed
  <2> QED
    BY <2>3, <2>4, <2>5
<1> QED
  BY <1>6, <1>7

\* Copying and removing leaves a file at the source or at the destination, and takes a
\* directory only when there is nothing in it.
LEMMA CopiedAndRemovedTree ==
    ASSUME NEW t \in Trees, Closed(t), NEW src \in Paths \ {Root}, NEW to \in Paths \ {Root},
           NEW o \in CopiedAndRemoved(t, src, to)
    PROVE  /\ o.tree \in Trees /\ Closed(o.tree)
           /\ \A q \in Paths \ {src, to} : o.tree[q] = t[q]
           /\ src # to /\ IsFile(t[src]) => o.tree[src] = t[src] \/ o.tree[to] = t[src]
<1>1. CASE ~IsFile(t[src])
  <2>1. o \in Removed(t, src)
    BY <1>1 DEF CopiedAndRemoved
  <2>2. OneEntry(t, o.tree, src)
    BY <2>1, RemovedEntry
  <2> QED
    BY <1>1, <2>2 DEF OneEntry
<1>2. CASE IsFile(t[src])
  <2>1. t[src] \in Contents
    BY <1>2 DEF Trees, IsFile
  <2>2. PICK w \in Copied(t, to, t[src]) : o \in IF w.ok THEN Removed(w.tree, src) ELSE {w}
    BY <1>2 DEF CopiedAndRemoved
  <2>3. OneEntry(t, w.tree, to) /\ (w.ok => w.tree[to] = t[src])
    BY <2>1, CopiedEntry
  <2> DEFINE u == w.tree
  <2>4. u \in Trees /\ Closed(u) /\ \A q \in Paths \ {to} : u[q] = t[q]
    BY <2>3 DEF OneEntry
  <2>5. CASE w.ok
    <3>1. o \in Removed(u, src)
      BY <2>2, <2>5
    <3>2. OneEntry(u, o.tree, src)
      <4> HIDE DEF u
      <4> QED BY <2>4, <3>1, RemovedEntry
    <3>3. u[to] = t[src]
      BY <2>3, <2>5
    <3> HIDE DEF u
    <3> QED
      BY <2>4, <3>2, <3>3 DEF OneEntry
  <2>6. CASE ~w.ok
    <3>1. o = w
      BY <2>2, <2>6
    <3> QED
      BY <2>4, <3>1
  <2> QED
    BY <2>5, <2>6
<1> QED
  BY <1>1, <1>2

\* What moveFileThrowsUnchecked does when renaming does not work keeps every file, but
\* for one at src that the top layer does not have.
LEMMA MovingKeeps ==
    ASSUME NEW T, Typed(T), AllClosed(T), NEW v, IsVolume(v), NEW src \in Paths \ {Root},
           NEW to \in Paths \ {Root}, NEW U, Freed(T, v, U, to),
           Len(v.layers) = 1 \/ IsFile(U[Top(v)][src]),
           NEW o \in CopiedAndRemoved(U[Top(v)], src, to), NEW W, W[Top(v)] = o.tree,
           \A x \in Volumes : x # Top(v) => W[x] = U[x],
           NEW p \in Paths \ {to}
    PROVE  FileSurvives(T, v, W, src, to, p)
<1> DEFINE t == U[Top(v)]
<1>1. /\ Typed(U) /\ AllClosed(U) /\ t[to] = Nothing
      /\ \A q \in Paths \ {to} : t[q] = T[Top(v)][q]
  BY DEF Freed, Alters
<1>2. t \in Trees /\ Closed(t)
  BY <1>1, TopClosed
<1>3. src \in Seq(Names) /\ to \in Seq(Names)
  BY PathsAreNames
<1>4. /\ \A q \in Paths \ {src, to} : o.tree[q] = t[q]
      /\ src # to /\ IsFile(t[src]) => o.tree[src] = t[src] \/ o.tree[to] = t[src]
  <2> HIDE DEF t
  <2> QED BY <1>2, CopiedAndRemovedTree DEF t
<1>5. \A x \in Volumes : x # Top(v) => W[x] = T[x]
  BY DEF Freed, Alters
<1>6. ASSUME o.tree[p] = t[p] PROVE FileSurvives(T, v, W, src, to, p)
  <2>1. Agree(T, v, W, p)
    BY <1>1, <1>5, <1>6 DEF Agree
  <2>2. Look(W, v, p) = Look(T, v, p)
    BY <2>1, LookKept
  <2> QED
    BY <2>2 DEF FileSurvives
<1>7. CASE p # src
  BY <1>4, <1>6, <1>7
<1>8. CASE p = src
  <2>1. src # to /\ t[src] = T[Top(v)][src]
    BY <1>1, <1>8
  <2>2. CASE IsFile(t[src])
    <3>1. Look(T, v, src) = t[src]
      BY <2>1, <2>2, LookOfTop DEF IsFile
    <3>2. CASE o.tree[to] = t[src]
      <4>1. W[Top(v)][to] = t[src] /\ t[src] # Nothing
        BY <2>2, <3>2 DEF IsFile
      <4> HIDE DEF t
      <4>2. Look(W, v, to) = t[src]
        BY <4>1, LookOfTop
      <4>3. Moved(p, src, to) = to /\ Below(src, p)
        BY <1>3, <1>8, MovedSelf, BelowOrder
      <4> QED
        BY <1>8, <3>1, <4>2, <4>3 DEF FileSurvives
    <3> QED
      BY <1>4, <1>6, <1>8, <2>1, <2>2, <3>2
  <2>3. CASE ~IsFile(t[src])
    <3>1. Look(T, v, src) = t[src]
      BY <2>1, <2>3, LookOfOne
    <3> QED
      BY <1>8, <2>3, <3>1 DEF FileSurvives
  <2> QED
    BY <2>2, <2>3
<1> QED
  BY <1>7, <1>8

\* What a move or a renaming keeps, as a property of the volumes after it.
Relocated(T, v, src, to, p, W) ==
    FileSurvives(T, v, W, src, to, p) \/ (~Below(src, p) /\ Covers(T, v, src, to, p))

LEMMA RefusedSurvives ==
    ASSUME NEW T, NEW v, NEW W, NEW src, NEW to, NEW p, Look(W, v, p) = Look(T, v, p)
    PROVE  FileSurvives(T, v, W, src, to, p)
BY DEF FileSurvives

\* Of a clearing that fails nothing remains but at the destination.
LEMMA ClearedSurvives ==
    ASSUME NEW T, Typed(T), AllClosed(T), NEW v, IsVolume(v), NEW src, NEW to \in Paths \ {Root},
           NEW o \in Cleared(T, v, to)
    PROVE  /\ Alters(T, v, o.trees, to)
           /\ \A p \in Paths \ {to} : FileSurvives(T, v, o.trees, src, to, p)
           /\ o.ok => Freed(T, v, o.trees, to)
<1>1. /\ Alters(T, v, o.trees, to)
      /\ o.ok => /\ o.trees[Top(v)][to] = Nothing
                 /\ Look(T, v, to) = Nothing \/ IsFile(T[Top(v)][to])
  BY ClearedAlters
<1>2. \A p \in Paths \ {to} : FileSurvives(T, v, o.trees, src, to, p)
  BY <1>1, AltersLook, RefusedSurvives
<1> QED
  BY <1>1, <1>2 DEF Freed

LEMMA RenameRelocates ==
    ASSUME NEW T, Typed(T), AllClosed(T), NEW v, IsVolume(v), NEW src \in Paths \ {Root},
           NEW to \in Paths \ {Root}, HasPlaces(T, src, to), NEW U, Freed(T, v, U, to),
           NEW r \in Rename(U, v, src, to)
    PROVE  /\ AllClosed(r.trees)
           /\ \A p \in Paths \ {to} : Relocated(T, v, src, to, p, r.trees)
           /\ r.ok => Look(r.trees, v, to) = Look(T, v, src)
<1> DEFINE t == U[Top(v)]
<1>1. Typed(U) /\ AllClosed(U) /\ t[to] = Nothing
  BY DEF Freed, Alters
<1>2. r \in OnTop(U, v, Renamed(t, src, to))
  BY DEF Rename
<1> HIDE DEF t
<1>3. PICK o \in Renamed(t, src, to) :
         /\ r.ok = o.ok
         /\ r.trees[Top(v)] = o.tree
         /\ \A x \in Volumes : x # Top(v) => r.trees[x] = U[x]
         /\ o.tree \in Trees /\ Closed(o.tree) => Typed(r.trees) /\ AllClosed(r.trees)
  BY <1>1, <1>2, OnTopTree
<1>4. t \in Trees /\ Closed(t)
  BY <1>1, TopClosed DEF t
<1>5. o.tree \in Trees /\ Closed(o.tree)
  BY <1>1, <1>4, RenamedTree
<1>6. \A p \in Paths \ {to} : Relocated(T, v, src, to, p, r.trees)
  BY <1>3, RenamingKeeps DEF Relocated, t
<1>7. ASSUME r.ok PROVE Look(r.trees, v, to) = Look(T, v, src)
  <2>1. o.ok /\ r.trees[Top(v)] = o.tree
    BY <1>3, <1>7
  <2>2. o \in Renamed(U[Top(v)], src, to)
    BY <1>3 DEF t
  <2> QED
    BY <2>1, <2>2, RenamingDelivers
<1> QED
  BY <1>3, <1>5, <1>6, <1>7

LEMMA MoveRelocates ==
    ASSUME NEW T, Typed(T), AllClosed(T), NEW v, IsVolume(v), v.overlay \/ Len(v.layers) = 1,
           NEW src \in Paths \ {Root},
           NEW to \in Paths \ {Root}, HasPlaces(T, src, to), NEW U, Freed(T, v, U, to),
           NEW r \in Move(U, v, src, to)
    PROVE  /\ AllClosed(r.trees)
           /\ \A p \in Paths \ {to} : FileSurvives(T, v, r.trees, src, to, p)
           /\ r.ok => Look(r.trees, v, to) = Look(T, v, src)
<1> DEFINE t == U[Top(v)]
<1>1. Typed(U) /\ AllClosed(U) /\ t[to] = Nothing /\ Alters(T, v, U, to)
  BY DEF Freed, Alters
<1>2. t \in Trees /\ Closed(t)
  BY <1>1, TopClosed
<1>3. CASE r \in Refused(U)
  <2>1. r.trees = U /\ ~r.ok
    BY <1>1, <1>3, RefusedAlters
  <2>2. \A p \in Paths \ {to} : Look(U, v, p) = Look(T, v, p)
    BY <1>1, AltersLook
  <2>3. \A p \in Paths \ {to} : FileSurvives(T, v, U, src, to, p)
    BY <2>2, RefusedSurvives
  <2> HIDE DEF t
  <2> QED
    BY <1>1, <2>1, <2>3
<1>4. CASE r \notin Refused(U)
  <2>1. ~(v.overlay /\ ~IsFile(t[src])) /\ r \in OnTop(U, v, MovedOver(t, src, to))
    BY <1>4, Zenon DEF Move
  <2>2. Len(v.layers) = 1 \/ IsFile(t[src])
    BY <2>1, Zenon
  <2> HIDE DEF t
  <2>3. PICK o \in MovedOver(t, src, to) :
           /\ r.ok = o.ok
           /\ r.trees[Top(v)] = o.tree
           /\ \A x \in Volumes : x # Top(v) => r.trees[x] = U[x]
           /\ o.tree \in Trees /\ Closed(o.tree) => Typed(r.trees) /\ AllClosed(r.trees)
    BY <1>1, <2>1, OnTopTree
  <2>4. CASE o \in Renamed(t, src, to) /\ o.ok
    <3>1. o.tree \in Trees /\ Closed(o.tree)
      BY <1>1, <1>2, <2>4, RenamedTree
    <3>2. \A p \in Paths \ {to} :
             FileSurvives(T, v, r.trees, src, to, p) \/ (~Below(src, p) /\ Covers(T, v, src, to, p))
      BY <2>3, <2>4, RenamingKeeps DEF t
    <3>3. \A p : ~Covers(T, v, src, to, p)
      <4>1. CASE Len(v.layers) = 1
        BY <4>1 DEF Covers
      <4>2. CASE src = to
        BY <4>2 DEF Covers, IsFile
      <4>3. CASE src # to /\ IsFile(t[src])
        <5>1. T[Top(v)][src] = t[src]
          BY <1>1, <4>3 DEF Alters, t
        <5> QED
          BY <4>3, <5>1 DEF Covers, IsFile
      <4> QED
        BY <2>2, <4>1, <4>2, <4>3
    <3>4. Look(r.trees, v, to) = Look(T, v, src)
      BY <2>3, <2>4, RenamingDelivers DEF t
    <3> QED
      BY <2>3, <3>1, <3>2, <3>3, <3>4
  <2>5. CASE ~(o \in Renamed(t, src, to) /\ o.ok)
    <3>1. PICK c \in CopiedAndRemoved(t, src, to) : o = [tree |-> c.tree, ok |-> FALSE]
      BY <2>5 DEF MovedOver
    <3>2. o.tree = c.tree /\ ~o.ok
      BY <3>1
    <3>3. c.tree \in Trees /\ Closed(c.tree)
      BY <1>2, CopiedAndRemovedTree
    <3>4. \A p \in Paths \ {to} : FileSurvives(T, v, r.trees, src, to, p)
      <4>1. r.trees[Top(v)] = c.tree
        BY <2>3, <3>2
      <4>2. \A x \in Volumes : x # Top(v) => r.trees[x] = U[x]
        BY <2>3
      <4> QED
        BY <2>2, <4>1, <4>2, MovingKeeps DEF t
    <3> QED
      BY <2>3, <3>2, <3>3, <3>4
  <2> QED
    BY <2>4, <2>5
<1> QED
  BY <1>3, <1>4

\* Moving and renaming: nothing was done, or the destination could not be cleared, or it
\* was and the operation followed.
LEMMA RenameFileRelocates ==
    ASSUME NEW T, Typed(T), AllClosed(T), NEW v, IsVolume(v), NEW src \in Paths \ {Root}, NEW dest,
           NEW overwrite, NEW to \in Paths \ {Root}, to = Dest(T, v, src, dest),
           HasPlaces(T, src, to), NEW r \in RenameFile(T, v, src, dest, overwrite)
    PROVE  /\ AllClosed(r.trees)
           /\ \A p \in Paths \ {to} : Relocated(T, v, src, to, p, r.trees)
           /\ r.ok => Look(r.trees, v, to) = Look(T, v, src)
<1>1. CASE r \in Refused(T)
  <2>1. Alters(T, v, r.trees, to) /\ ~r.ok
    BY <1>1, RefusedAlters
  <2>2. \A p \in Paths \ {to} : Look(r.trees, v, p) = Look(T, v, p)
    BY <2>1, AltersLook
  <2> QED
    BY <2>1, <2>2, RefusedSurvives DEF Relocated, Alters
<1>2. CASE r \notin Refused(T)
  <2>1. PICK o \in Cleared(T, v, to) : r \in IF o.ok THEN Rename(o.trees, v, src, to) ELSE {o}
    BY <1>2 DEF RenameFile, Relocate
  <2>2. /\ Alters(T, v, o.trees, to)
        /\ \A p \in Paths \ {to} : FileSurvives(T, v, o.trees, src, to, p)
        /\ o.ok => Freed(T, v, o.trees, to)
    BY ClearedSurvives
  <2>3. CASE o.ok
    <3>1. r \in Rename(o.trees, v, src, to) /\ Freed(T, v, o.trees, to)
      BY <2>1, <2>2, <2>3
    <3> QED
      BY <3>1, RenameRelocates
  <2>4. CASE ~o.ok
    <3>1. r = o
      BY <2>1, <2>4
    <3> QED
      BY <2>2, <2>4, <3>1 DEF Relocated, Alters
  <2> QED
    BY <2>3, <2>4
<1> QED
  BY <1>1, <1>2

LEMMA MoveFileRelocates ==
    ASSUME NEW T, Typed(T), AllClosed(T), NEW v, IsVolume(v), v.overlay \/ Len(v.layers) = 1,
           NEW src \in Paths \ {Root}, NEW dest,
           NEW overwrite, NEW to \in Paths \ {Root}, to = Dest(T, v, src, dest),
           HasPlaces(T, src, to), NEW r \in MoveFile(T, v, src, dest, overwrite)
    PROVE  /\ AllClosed(r.trees)
           /\ \A p \in Paths \ {to} : FileSurvives(T, v, r.trees, src, to, p)
           /\ r.ok => Look(r.trees, v, to) = Look(T, v, src)
<1>1. CASE r \in Refused(T)
  <2>1. Alters(T, v, r.trees, to) /\ ~r.ok
    BY <1>1, RefusedAlters
  <2>2. \A p \in Paths \ {to} : Look(r.trees, v, p) = Look(T, v, p)
    BY <2>1, AltersLook
  <2> QED
    BY <2>1, <2>2, RefusedSurvives DEF Alters
<1>2. CASE r \notin Refused(T)
  <2>1. PICK o \in Cleared(T, v, to) : r \in IF o.ok THEN Move(o.trees, v, src, to) ELSE {o}
    BY <1>2 DEF MoveFile, Relocate
  <2>2. /\ Alters(T, v, o.trees, to)
        /\ \A p \in Paths \ {to} : FileSurvives(T, v, o.trees, src, to, p)
        /\ o.ok => Freed(T, v, o.trees, to)
    BY ClearedSurvives
  <2>3. CASE o.ok
    <3>1. r \in Move(o.trees, v, src, to) /\ Freed(T, v, o.trees, to)
      BY <2>1, <2>2, <2>3
    <3> QED
      BY <3>1, MoveRelocates
  <2>4. CASE ~o.ok
    <3>1. r = o
      BY <2>1, <2>4
    <3> QED
      BY <2>2, <2>4, <3>1 DEF Alters
  <2> QED
    BY <2>3, <2>4
<1> QED
  BY <1>1, <1>2

-------------------------------------------------------------------------------
(* What the calls keep and deliver.                                        *)

\* FilesSurvive and SuccessDelivers of a call that leaves the volumes as U.
KeepsFiles(call, on, src, dest, U) ==
    \A p \in Paths \ {dest} :
       IF call \in Transfers /\ Below(src, p) /\ IsFile(Seen(trees, on, p))
       THEN \/ Seen(U, on, p) = Seen(trees, on, p)
            \/ Seen(U, on, Moved(p, src, dest)) = Seen(trees, on, p)
       ELSE \/ Seen(U, on, p) = Seen(trees, on, p)
            \/ ~IsFile(Seen(trees, on, p))
            \/ call = "createDirectoriesThrows" /\ on = Overlay /\ Below(p, dest)
            \/ call = "rename" /\ CoversBelow(on, src, dest, p)

Delivers(call, on, src, dest, U, ok) ==
    ok =>
      /\ call \in Transfers /\ src # dest /\ IsFile(Seen(trees, on, src)) =>
            /\ IsFile(Seen(U, on, dest))
            /\ Seen(U, on, dest) \subseteq Seen(trees, on, src)
            /\ \/ Seen(U, on, dest) = Seen(trees, on, src)
               \/ call = "copyFile" /\ on = Overlay
      /\ call = "append" /\ IsFile(trees[Top(Volume(on))][dest]) =>
            Seen(trees, on, dest) \subseteq Seen(U, on, dest)

\* The last call did.
Kept == KeepsFiles(last'.call, last'.on, last'.src, last'.dest, trees')
Delivered == Delivers(last'.call, last'.on, last'.src, last'.dest, trees', last'.ok)

IInv == TypeOK /\ AllClosed(trees)

LEMMA VolumeFacts ==
    ASSUME IInv, NEW on \in Volumes \cup {Overlay}
    PROVE  /\ IsVolume(Volume(on)) /\ Typed(trees) /\ AllClosed(trees)
           /\ Volume(on).overlay \/ Len(Volume(on).layers) = 1
           /\ Len(Volume(on).layers) # 1 => on = Overlay
           /\ Volume(on).overlay => on = Overlay
<1>1. IsVolume(Volume(on)) /\ Typed(trees) /\ AllClosed(trees)
  BY VolumeType DEF IInv, TypeOK, Typed
<1>2. CASE on = Overlay
  <2>1. Volume(on).overlay
    BY <1>2, Zenon DEF Volume
  <2> QED
    BY <1>1, <1>2, <2>1
<1>3. CASE on # Overlay
  <2>1. Len(Volume(on).layers) = 1 /\ ~Volume(on).overlay
    BY <1>3 DEF Volume, Local
  <2> QED
    BY <1>1, <2>1
<1> QED
  BY <1>2, <1>3

LEMMA ReturnsTells ==
    ASSUME NEW call, NEW on, NEW src, NEW dest, NEW outcomes,
           \A o \in outcomes :
              /\ AllClosed(o.trees)
              /\ KeepsFiles(call, on, src, dest, o.trees)
              /\ Delivers(call, on, src, dest, o.trees, o.ok),
           Returns(call, on, src, dest, outcomes)
    PROVE  AllClosed(trees') /\ Kept /\ Delivered
<1>1. PICK o \in outcomes :
         /\ trees' = o.trees
         /\ last' = [call |-> call, on |-> on, src |-> src, dest |-> dest, ok |-> o.ok]
  BY DEF Returns
<1>2. /\ last'.call = call /\ last'.on = on /\ last'.src = src /\ last'.dest = dest
      /\ last'.ok = o.ok
  BY <1>1
<1>3. Kept
  BY <1>1, <1>2 DEF Kept
<1>4. Delivered
  BY <1>1, <1>2 DEF Delivered
<1> QED
  BY <1>1, <1>3, <1>4

\* A call that changes one entry keeps every other.
LEMMA AlteringKeeps ==
    ASSUME NEW call, NEW on, NEW src, NEW p, NEW U, IsVolume(Volume(on)),
           Alters(trees, Volume(on), U, p)
    PROVE  AllClosed(U) /\ KeepsFiles(call, on, src, p, U)
<1>1. \A q \in Paths \ {p} : Seen(U, on, q) = Seen(trees, on, q)
  BY AltersLook DEF Seen
<1> QED
  BY <1>1 DEF KeepsFiles, Alters

LEMMA OnePathTells ==
    ASSUME IInv, NEW on \in Volumes \cup {Overlay}, NEW p \in Paths \ {Root}, OnePath(on, p)
    PROVE  AllClosed(trees') /\ Kept /\ Delivered
<1> DEFINE v == Volume(on)
<1>1. /\ IsVolume(v) /\ Typed(trees) /\ AllClosed(trees)
      /\ Len(v.layers) # 1 => on = Overlay
  BY VolumeFacts
<1>2. \A call, U, ok : call \notin Transfers \cup {"append"} => Delivers(call, on, p, p, U, ok)
  BY DEF Delivers
<1>3. ASSUME NEW call, call \notin Transfers \cup {"append"}, NEW outcomes,
             \A r \in outcomes : Alters(trees, v, r.trees, p), Returns(call, on, p, p, outcomes)
      PROVE  AllClosed(trees') /\ Kept /\ Delivered
  <2>1. \A r \in outcomes : AllClosed(r.trees) /\ KeepsFiles(call, on, p, p, r.trees)
    BY <1>1, <1>3, AlteringKeeps
  <2>2. \A r \in outcomes : Delivers(call, on, p, p, r.trees, r.ok)
    BY <1>2, <1>3
  <2> QED
    BY <1>3, <2>1, <2>2, ReturnsTells
<1>4. \A call \in {"write", "stream", "createDirectory", "createDirectories",
                   "createDirectoriesThrows", "removeDirectory", "removeFile"} :
         call \notin Transfers \cup {"append"}
  BY DEF Transfers
<1> HIDE DEF v
<1>5. ASSUME NEW c \in Chunks PROVE {c} \in Contents
  BY DEF Contents
<1>6. ASSUME NEW c \in Chunks, Returns("write", on, p, p, WriteFile(trees, v, p, {c}))
      PROVE  AllClosed(trees') /\ Kept /\ Delivered
  <2>1. \A r \in WriteFile(trees, v, p, {c}) : Alters(trees, v, r.trees, p)
    BY <1>1, <1>5, WriteFileAlters
  <2> QED
    BY <1>3, <1>4, <1>6, <2>1
<1>7. ASSUME NEW c \in Chunks, Returns("stream", on, p, p, StreamFile(trees, v, p, {c}))
      PROVE  AllClosed(trees') /\ Kept /\ Delivered
  <2>1. \A r \in StreamFile(trees, v, p, {c}) : Alters(trees, v, r.trees, p)
    BY <1>1, <1>5, WriteFileAlters
  <2> QED
    BY <1>3, <1>4, <1>7, <2>1
<1>8. ASSUME NEW c \in Chunks, Returns("append", on, p, p, AppendFile(trees, v, p, c))
      PROVE  AllClosed(trees') /\ Kept /\ Delivered
  <2>1. \A r \in AppendFile(trees, v, p, c) :
           /\ Alters(trees, v, r.trees, p)
           /\ r.ok /\ IsFile(trees[Top(v)][p]) => Look(trees, v, p) \subseteq Look(r.trees, v, p)
    BY <1>1, AppendFileAlters
  <2>2. \A r \in AppendFile(trees, v, p, c) :
           /\ AllClosed(r.trees)
           /\ KeepsFiles("append", on, p, p, r.trees)
    BY <1>1, <2>1, AlteringKeeps DEF v
  <2>3. \A r \in AppendFile(trees, v, p, c) : Delivers("append", on, p, p, r.trees, r.ok)
    BY <2>1 DEF Delivers, Transfers, Seen, v
  <2> QED
    BY <1>8, <2>2, <2>3, ReturnsTells
<1>9. CASE Returns("createDirectory", on, p, p, CreateDirectory(trees, v, p))
  <2>1. \A r \in CreateDirectory(trees, v, p) : Alters(trees, v, r.trees, p)
    BY <1>1, CreateDirectoryAlters
  <2> QED
    BY <1>3, <1>4, <1>9, <2>1
<1>10. CASE Returns("createDirectories", on, p, p, CreateDirectories(trees, v, p))
  <2>1. \A r \in CreateDirectories(trees, v, p) :
           /\ AllClosed(r.trees)
           /\ \A q \in Paths : Look(r.trees, v, q) = Look(trees, v, q) \/ Look(trees, v, q) = Nothing
    BY <1>1, CreateDirectoriesMakes
  <2>2. \A r \in CreateDirectories(trees, v, p) :
           KeepsFiles("createDirectories", on, p, p, r.trees)
    BY <2>1 DEF KeepsFiles, Seen, IsFile, Transfers, v
  <2>3. \A r \in CreateDirectories(trees, v, p) :
           Delivers("createDirectories", on, p, p, r.trees, r.ok)
    BY <1>2, <1>4
  <2> QED
    BY <1>10, <2>1, <2>2, <2>3, ReturnsTells
<1>11. CASE Returns("createDirectoriesThrows", on, p, p, CreateDirectoriesThrows(trees, v, p))
  <2>1. \A r \in CreateDirectoriesThrows(trees, v, p) :
           /\ AllClosed(r.trees)
           /\ \A q \in Paths : Look(r.trees, v, q) = Look(trees, v, q) \/ Below(q, p)
           /\ Len(v.layers) = 1 =>
                 \A q \in Paths : Look(r.trees, v, q) = Look(trees, v, q) \/ Look(trees, v, q) = Nothing
    BY <1>1, CreateDirectoriesMakes
  <2>2. \A r \in CreateDirectoriesThrows(trees, v, p) :
           KeepsFiles("createDirectoriesThrows", on, p, p, r.trees)
    BY <1>1, <2>1 DEF KeepsFiles, Seen, IsFile, Transfers, v
  <2>3. \A r \in CreateDirectoriesThrows(trees, v, p) :
           Delivers("createDirectoriesThrows", on, p, p, r.trees, r.ok)
    BY <1>2, <1>4
  <2> QED
    BY <1>11, <2>1, <2>2, <2>3, ReturnsTells
<1>12. CASE Returns("removeDirectory", on, p, p, RemoveDirectory(trees, v, p))
  <2>1. \A r \in RemoveDirectory(trees, v, p) : Alters(trees, v, r.trees, p)
    BY <1>1, RemovalAlters
  <2> QED
    BY <1>3, <1>4, <1>12, <2>1
<1>13. CASE Returns("removeFile", on, p, p, RemoveFile(trees, v, p))
  <2>1. \A r \in RemoveFile(trees, v, p) : Alters(trees, v, r.trees, p)
    BY <1>1, RemovalAlters
  <2> QED
    BY <1>3, <1>4, <1>13, <2>1
<1> QED
  BY <1>6, <1>7, <1>8, <1>9, <1>10, <1>11, <1>12, <1>13 DEF OnePath, v

\* The destination is not the root, which is a directory.
LEMMA DestIsNotRoot ==
    ASSUME NEW T, AllClosed(T), NEW v, IsVolume(v), NEW src \in Paths, NEW dest \in Paths,
           Dest(T, v, src, dest) \in Paths
    PROVE  Dest(T, v, src, dest) # Root
<1>1. CASE Look(T, v, dest) = Directory
  <2>1. Dest(T, v, src, dest) = Append(dest, src[Len(src)])
    BY <1>1 DEF Dest
  <2>2. dest \in Seq(Names) /\ Dest(T, v, src, dest) \in Seq(Names)
    BY PathsAreNames
  <2>3. Len(Append(dest, src[Len(src)])) = Len(dest) + 1 /\ Len(dest) \in Nat /\ Len(Root) = 0
    BY <2>2 DEF Root
  <2> QED
    BY <2>1, <2>3
<1>2. CASE Look(T, v, dest) # Directory
  <2>1. Dest(T, v, src, dest) = dest
    BY <1>2 DEF Dest
  <2>2. T[Top(v)][Root] = Directory
    BY TopType DEF AllClosed, Closed
  <2>3. Look(T, v, Root) = Directory
    BY <2>2, LookOfTop, ValueAssumption
  <2> QED
    BY <1>2, <2>1, <2>3
<1> QED
  BY <1>1, <1>2

\* What a move or a renaming keeps is what the property asks of it.
LEMMA RelocatedKeeps ==
    ASSUME NEW call \in {"moveFile", "rename"}, NEW on, NEW src, NEW to, NEW U,
           Len(Volume(on).layers) # 1 => on = Overlay,
           \A p \in Paths \ {to} :
              \/ FileSurvives(trees, Volume(on), U, src, to, p)
              \/ call = "rename" /\ ~Below(src, p) /\ Covers(trees, Volume(on), src, to, p)
    PROVE  KeepsFiles(call, on, src, to, U)
<1> SUFFICES ASSUME NEW p \in Paths \ {to}
             PROVE  IF call \in Transfers /\ Below(src, p) /\ IsFile(Seen(trees, on, p))
                    THEN \/ Seen(U, on, p) = Seen(trees, on, p)
                         \/ Seen(U, on, Moved(p, src, to)) = Seen(trees, on, p)
                    ELSE \/ Seen(U, on, p) = Seen(trees, on, p)
                         \/ ~IsFile(Seen(trees, on, p))
                         \/ call = "createDirectoriesThrows" /\ on = Overlay /\ Below(p, to)
                         \/ call = "rename" /\ CoversBelow(on, src, to, p)
  BY DEF KeepsFiles
<1>1. CASE FileSurvives(trees, Volume(on), U, src, to, p)
  BY <1>1 DEF FileSurvives, Seen, Transfers
<1>2. CASE call = "rename" /\ ~Below(src, p) /\ Covers(trees, Volume(on), src, to, p)
  BY <1>2 DEF Covers, CoversBelow
<1> QED
  BY <1>1, <1>2

LEMMA TwoPathsTells ==
    ASSUME IInv, NEW on \in Volumes \cup {Overlay}, NEW src \in Paths \ {Root}, NEW dest \in Paths,
           NEW overwrite \in BOOLEAN, TwoPaths(on, src, dest, overwrite)
    PROVE  AllClosed(trees') /\ Kept /\ Delivered
<1> DEFINE v == Volume(on)
           to == Dest(trees, v, src, dest)
<1>1. /\ IsVolume(v) /\ Typed(trees) /\ AllClosed(trees) /\ (v.overlay \/ Len(v.layers) = 1)
      /\ (Len(v.layers) # 1 => on = Overlay) /\ (v.overlay => on = Overlay)
  BY VolumeFacts
<1>2. to \in Paths /\ HasPlaces(trees, src, to)
  BY DEF TwoPaths, Fits, HasPlaces
<1> HIDE DEF v
<1>3. to \in Paths \ {Root}
  BY <1>1, <1>2, DestIsNotRoot
<1>4. CASE Returns("copyFile", on, src, to, CopyFile(trees, v, src, dest, overwrite))
  <2>1. ASSUME NEW r \in CopyFile(trees, v, src, dest, overwrite)
        PROVE  /\ Alters(trees, v, r.trees, to)
               /\ r.ok /\ src # to => Shows(r.trees, v, to, Look(trees, v, src))
    BY <1>1, <1>3, CopyFileAlters
  <2> HIDE DEF to
  <2>2. \A r \in CopyFile(trees, v, src, dest, overwrite) :
           AllClosed(r.trees) /\ KeepsFiles("copyFile", on, src, to, r.trees)
    BY <1>1, <2>1, AlteringKeeps DEF v
  <2>3. \A r \in CopyFile(trees, v, src, dest, overwrite) :
           Delivers("copyFile", on, src, to, r.trees, r.ok)
    BY <1>1, <2>1 DEF Delivers, Seen, Shows, v
  <2> QED
    BY <1>4, <2>2, <2>3, ReturnsTells
<1>5. CASE Returns("moveFile", on, src, to, MoveFile(trees, v, src, dest, overwrite))
  <2>1. ASSUME NEW r \in MoveFile(trees, v, src, dest, overwrite)
        PROVE  /\ AllClosed(r.trees)
               /\ \A p \in Paths \ {to} : FileSurvives(trees, v, r.trees, src, to, p)
               /\ r.ok => Look(r.trees, v, to) = Look(trees, v, src)
    BY <1>1, <1>2, <1>3, MoveFileRelocates
  <2> HIDE DEF to
  <2>2. \A r \in MoveFile(trees, v, src, dest, overwrite) :
           AllClosed(r.trees) /\ KeepsFiles("moveFile", on, src, to, r.trees)
    BY <1>1, <2>1, RelocatedKeeps DEF v
  <2>3. \A r \in MoveFile(trees, v, src, dest, overwrite) :
           Delivers("moveFile", on, src, to, r.trees, r.ok)
    BY <2>1 DEF Delivers, Seen, v
  <2> QED
    BY <1>5, <2>2, <2>3, ReturnsTells
<1>6. CASE Returns("rename", on, src, to, RenameFile(trees, v, src, dest, overwrite))
  <2>1. ASSUME NEW r \in RenameFile(trees, v, src, dest, overwrite)
        PROVE  /\ AllClosed(r.trees)
               /\ \A p \in Paths \ {to} : Relocated(trees, v, src, to, p, r.trees)
               /\ r.ok => Look(r.trees, v, to) = Look(trees, v, src)
    BY <1>1, <1>2, <1>3, RenameFileRelocates
  <2> HIDE DEF to
  <2>2. \A r \in RenameFile(trees, v, src, dest, overwrite) :
           AllClosed(r.trees) /\ KeepsFiles("rename", on, src, to, r.trees)
    BY <1>1, <2>1, RelocatedKeeps DEF Relocated, v
  <2>3. \A r \in RenameFile(trees, v, src, dest, overwrite) :
           Delivers("rename", on, src, to, r.trees, r.ok)
    BY <2>1 DEF Delivers, Seen, v
  <2> QED
    BY <1>6, <2>2, <2>3, ReturnsTells
<1> QED
  BY <1>4, <1>5, <1>6 DEF TwoPaths, v

\* Every step: what is in a volume stays in its directories, and the call keeps its
\* promises.
LEMMA NextTells ==
    ASSUME IInv, [Next]_vars
    PROVE  IInv' /\ [Kept]_trees /\ [Delivered]_vars
<1>1. TypeOK'
  BY NextKeeps DEF IInv
<1>2. AllClosed(trees') => IInv'
  BY <1>1 DEF IInv
<1>3. ASSUME NEW on \in Volumes \cup {Overlay}, NEW p \in Paths \ {Root}, OnePath(on, p)
      PROVE  AllClosed(trees') /\ [Kept]_trees /\ [Delivered]_vars
  BY <1>3, OnePathTells
<1>4. ASSUME NEW on \in Volumes \cup {Overlay}, NEW src \in Paths \ {Root}, NEW dest \in Paths,
             NEW overwrite \in BOOLEAN, TwoPaths(on, src, dest, overwrite)
      PROVE  AllClosed(trees') /\ [Kept]_trees /\ [Delivered]_vars
  BY <1>4, TwoPathsTells
<1>5. CASE ChangeLayers
  <2>1. UNCHANGED trees /\ last'.call = "layers"
    BY <1>5 DEF ChangeLayers
  <2>2. AllClosed(trees')
    BY <2>1 DEF IInv
  <2>3. Delivered
    BY <2>1 DEF Delivered, Delivers, Transfers
  <2> QED
    BY <1>2, <2>1, <2>2, <2>3
<1>6. CASE UNCHANGED vars
  <2>1. UNCHANGED trees
    BY <1>6 DEF vars
  <2>2. AllClosed(trees')
    BY <2>1 DEF IInv
  <2> QED
    BY <1>2, <1>6, <2>1, <2>2
<1> QED
  BY <1>2, <1>3, <1>4, <1>5, <1>6 DEF Next

LEMMA InitClosed == Init => IInv
<1> SUFFICES ASSUME Init PROVE IInv
  OBVIOUS
<1>1. TypeOK
  BY InitType
<1>2. ASSUME NEW x \in Volumes PROVE Closed(trees[x])
  <2>1. /\ trees[x][Root] = Directory
        /\ \A p \in Paths \ {Root} : trees[x][p] = Nothing
    BY RootIsPath DEF Init
  <2> QED
    BY <2>1 DEF Closed
<1> QED
  BY <1>1, <1>2 DEF IInv, AllClosed

-------------------------------------------------------------------------------
(* Theorems.                                                               *)

\* Volumes hold files and directories, and the overlay has distinct layers, at least
\* one, after every sequence of calls.
THEOREM TypeCorrect == Spec => []TypeOK
<1>1. Init => TypeOK
  BY InitType
<1>2. TypeOK /\ [Next]_vars => TypeOK'
  BY NextKeeps
<1> QED
  BY <1>1, <1>2, PTL DEF Spec

\* Whatever fails in a call, it changes the top layer of the volume it is made on, or
\* nothing: for all volumes, layers and paths.
THEOREM OnlyTheTopChanges == Spec => LowerLayersKept
<1>1. TypeOK /\ [Next]_vars => [OnlyTopChanges]_vars
  BY NextKeeps
<1>2. Spec => [][OnlyTopChanges]_vars
  BY <1>1, TypeCorrect, PTL DEF Spec
<1> QED
  BY <1>2 DEF OnlyTopChanges, LowerLayersKept

\* In every volume what has an entry is in a directory.
THEOREM DirectoriesHold == Spec => []IInv
<1>1. IInv /\ [Next]_vars => IInv'
  BY NextTells
<1> QED
  BY <1>1, InitClosed, PTL DEF Spec

\* No call, whatever fails in it, makes a file look different that is not its
\* destination, and what it was to move is found at the source or at the destination;
\* for all volumes, layers, paths and contents, with the two exceptions an overlay has.
THEOREM FilesAreNeverLost == Spec => FilesSurvive
<1>1. IInv /\ [Next]_vars => [Kept]_trees
  BY NextTells
<1>2. Spec => [][Kept]_trees
  BY <1>1, DirectoriesHold, PTL DEF Spec
<1> QED
  BY <1>2 DEF FilesSurvive, Kept, KeepsFiles

\* A copy, move or renaming that answers that it succeeded has left a file at the
\* destination with nothing but what the source had, and all of it unless an overlay
\* copied it; and one that appended has kept what the file had.
THEOREM SuccessIsTrue == Spec => SuccessDelivers
<1> DEFINE Promise ==
             last'.ok =>
               /\ /\ last'.call \in Transfers
                  /\ last'.src # last'.dest
                  /\ IsFile(Seen(trees, last'.on, last'.src))
                  =>
                     /\ IsFile(Seen(trees', last'.on, last'.dest))
                     /\ Seen(trees', last'.on, last'.dest) \subseteq Seen(trees, last'.on, last'.src)
                     /\ \/ Seen(trees', last'.on, last'.dest) = Seen(trees, last'.on, last'.src)
                        \/ last'.call = "copyFile" /\ last'.on = Overlay
               /\ last'.call = "append" /\ IsFile(trees[Top(Volume(last'.on))][last'.dest]) =>
                     Seen(trees, last'.on, last'.dest) \subseteq Seen(trees', last'.on, last'.dest)
<1>1. IInv /\ [Next]_vars => [Delivered]_vars
  BY NextTells
<1>2. Delivered => Promise
  BY Zenon DEF Delivered, Delivers
<1> HIDE DEF Promise
<1>3. Spec => [][Promise]_vars
  BY <1>1, <1>2, DirectoriesHold, PTL DEF Spec
<1> QED
  BY <1>3 DEF SuccessDelivers, Promise
===============================================================================
