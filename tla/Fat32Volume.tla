------------------------------ MODULE Fat32Volume ------------------------------
(***************************************************************************)
(* The names of a FAT32 volume (Fat32Volume): directory entries in the     *)
(* slots of directory clusters, names shortened to 8.3, the index of paths *)
(* that is filled from them as paths are looked up, and the calls of the   *)
(* interface Volume on both.  A file has one cluster, or none when it is   *)
(* empty.  Longer chains, the copy of the table on the device and          *)
(* appending streams are in Fat32Clusters.                                 *)
(***************************************************************************)
EXTENDS Integers, Sequences, FiniteSets
LOCAL INSTANCE SequencesExt

CONSTANTS Names,       \* names of files and directories, as callers spell them
          Short,       \* createShortName: of each name, its 8.3 name
          Folded,      \* of each name, its lower-case form
          Dotted,      \* short names that have a long entry as well: those with a dot
          Calls,       \* paths that calls name, sequences of names
          Folders,     \* those of them that directories are made of
          Moves,       \* what is copied or moved where, pairs of paths
          Data,        \* what calls write
          Contents,    \* contents of a file of one cluster
          Empty,       \* the content of a file of none
          LastCluster, \* clusters are 2..LastCluster
          PerCluster,  \* slots of a directory cluster
          Images,      \* what the device holds at first: records as Volumes below
          MaxCalls,    \* at most so many calls that change something
          NoPath,
          Directory    \* what a directory reads as, and a file that has the cluster of one

VARIABLES vol,         \* the volume object and the device
          stream,      \* the output stream that is open, or NoPath
          calls,       \* how many such calls there were
          last         \* the last call, for the properties

vars == <<vol, stream, calls, last>>

Clusters == 2..LastCluster

Root == <<>>

EndOfChain == -1

Least(S) == CHOOSE x \in S : \A y \in S : x <= y

Greatest(S) == CHOOSE x \in S : \A y \in S : x >= y

-------------------------------------------------------------------------------
(* The device: fat is the table, disk what each cluster holds.             *)

EndSlot == [kind |-> "end", name |-> NoPath, dir |-> FALSE, first |-> 0]

Deleted == [EndSlot EXCEPT !.kind = "deleted"]

LongSlot(n) == [EndSlot EXCEPT !.kind = "long", !.name = n]

ShortSlot(n, d) == [kind |-> "short", name |-> Short[n], dir |-> d.dir, first |-> d.first]

Blank == [i \in 1..PerCluster |-> EndSlot]

FreeClusters(v) == {c \in Clusters : v.fat[c] = 0}

\* readClusterChain, of a table without loops
Chain(v, c) ==
    LET follow[s \in Seq(Clusters)] ==
            LET next == IF s = <<>> THEN c ELSE v.fat[s[Len(s)]]
            IN  IF next \notin Clusters \/ Len(s) > LastCluster THEN s ELSE follow[Append(s, next)]
    IN  follow[<<>>]

\* freeClusterChain
Freed(v, c) ==
    LET gone == {Chain(v, c)[i] : i \in DOMAIN Chain(v, c)}
    IN  [v EXCEPT !.fat = [k \in Clusters |-> IF k \in gone THEN 0 ELSE v.fat[k]]]

\* findFreeFromHint: upwards from the hint, then from the beginning; 0 when the
\* device is full.
NextFree(v) ==
    LET begin == IF v.hint <= LastCluster THEN v.hint ELSE LastCluster
        ahead == {c \in FreeClusters(v) : c >= begin}
    IN  IF FreeClusters(v) = {} THEN 0
        ELSE IF ahead # {} THEN Least(ahead) ELSE Least(FreeClusters(v))

\* allocateCluster(0), and what is written into the cluster
Taken(v, what) ==
    LET c == NextFree(v)
    IN  [v EXCEPT !.fat[c] = EndOfChain, !.disk[c] = what,
                  !.hint = IF c < LastCluster THEN c + 1 ELSE 2]

\* The slots of the directory whose first cluster is c.  What the bytes of a file
\* look like as entries is left out.
Slots(v, c) ==
    LET chain == SelectSeq(Chain(v, c), LAMBDA k : v.disk[k] \notin Contents)
    IN  FlattenSeq([i \in DOMAIN chain |-> v.disk[chain[i]]])

\* The entries before the end of the directory.
Live(s) == {i \in DOMAIN s : s[i].kind = "short" /\ \A j \in 1..i : s[j].kind # "end"}

\* The name of an entry: that of the long slot before it.
NameAt(s, i) ==
    IF i = 1 \/ s[i - 1].kind # "long" THEN s[i].name
    ELSE IF i > 2 /\ s[i - 2].kind = "long" THEN NoPath ELSE s[i - 1].name

\* The same to who looks at one cluster at a time (markDirectoryEntryAsDeleted).
NameInCluster(s, i) == IF (i - 1) % PerCluster = 0 THEN s[i].name ELSE NameAt(s, i)

-------------------------------------------------------------------------------
(* The index (m_dirents), a function of paths, and the directories that    *)
(* were read to the end (childrenParsed).                                  *)

IsDir(v, p) == p \in DOMAIN v.index /\ v.index[p].dir

IsFile(v, p) == p \in DOMAIN v.index /\ ~v.index[p].dir

Children(v, p) == {n \in Names : Append(p, n) \in DOMAIN v.index}

Indexed(v, p, d) ==
    [v EXCEPT !.index = [q \in DOMAIN v.index \cup {p} |-> IF q = p THEN d ELSE v.index[q]]]

Forgotten(v, p) ==
    [v EXCEPT !.index = [q \in DOMAIN v.index \ {p} |-> v.index[q]], !.parsed = @ \ {p}]

\* buildIndex, invalidateIndex
Unread(v) ==
    [v EXCEPT !.index = [q \in {Root} |-> [dir |-> TRUE, first |-> 2]], !.parsed = {}]

ParsedFirst(v, p) ==                     \* mutant of Parsed: of one name the first
    LET s == Slots(v, v.index[p].first)
        read == [n \in {NameAt(s, i) : i \in Live(s)} |-> s[Least({i \in Live(s) : NameAt(s, i) = n})]]
        names == {Append(p, n) : n \in DOMAIN read}
    IN  [v EXCEPT !.index = [q \in DOMAIN v.index \cup names |->
                                IF q \notin names THEN v.index[q]
                                ELSE [dir |-> read[q[Len(q)]].dir, first |-> read[q[Len(q)]].first]],
                  !.parsed = IF \E i \in DOMAIN s : s[i].kind = "end" THEN @ ELSE @ \cup {p}]

\* parseDirectoryCluster: of entries with one name the last one stays; entries
\* that were in the index and are not on the device stay too.  A directory counts
\* as read only when no slot of it is an end.
Parsed(v, p) ==
    LET s == Slots(v, v.index[p].first)
        read == [n \in {NameAt(s, i) : i \in Live(s)} |->
                    s[Greatest({i \in Live(s) : NameAt(s, i) = n})]]
        names == {Append(p, n) : n \in DOMAIN read}
    IN  [v EXCEPT !.index = [q \in DOMAIN v.index \cup names |->
                                IF q \notin names THEN v.index[q]
                                ELSE [dir |-> read[q[Len(q)]].dir, first |-> read[q[Len(q)]].first]],
                  !.parsed = IF \E i \in DOMAIN s : s[i].kind = "end" THEN @ ELSE @ \cup {p}]

\* findPathInDirectory
Find(v, p, n) ==
    LET Alike(m) == {k \in Children(v, p) : Folded[k] = Folded[m]}
    IN  IF Append(p, n) \in DOMAIN v.index THEN Append(p, n)
        ELSE IF ~IsDir(v, p) THEN NoPath
        ELSE IF Alike(n) # {} THEN Append(p, CHOOSE k \in Alike(n) : TRUE)
        ELSE IF Alike(Short[n]) # {} THEN Append(p, CHOOSE k \in Alike(Short[n]) : TRUE)
        ELSE NoPath

\* resolvePath: looks at the index only.
Resolve(v, path) ==
    LET at[i \in 0..Len(path)] ==
            IF i = 0 THEN Root ELSE IF at[i - 1] = NoPath THEN NoPath ELSE Find(v, at[i - 1], path[i])
    IN  at[Len(path)]

ReadDirectory(v, p) == IF p \in v.parsed THEN v ELSE Parsed(v, p)

FoundIn(v, p, n) == [vol |-> v, path |-> Find(v, p, n)]

Step(l, n) ==
    IF l.path = NoPath \/ ~IsDir(l.vol, l.path) THEN [l EXCEPT !.path = NoPath]
    ELSE FoundIn(ReadDirectory(l.vol, l.path), l.path, n)

\* ensurePathIndexed: reads each directory on the way before it looks into it.
Look(v, path) ==
    LET at[i \in 0..Len(path)] ==
            IF i = 0 THEN [vol |-> v, path |-> Root] ELSE Step(at[i - 1], path[i])
    IN  at[Len(path)]

Parent(p) == SubSeq(p, 1, Len(p) - 1)

Name(p) == p[Len(p)]

\* What a path reads as: readFile, readDir.
ShownAt(l) ==
    IF l.path = NoPath THEN NoPath
    ELSE LET d == l.vol.index[l.path]
         IN  IF d.dir THEN Directory
             ELSE IF d.first = 0 THEN Empty
             ELSE IF l.vol.disk[d.first] \in Contents THEN l.vol.disk[d.first] ELSE Directory

Shown(v, path) == ShownAt(Look(v, path))

-------------------------------------------------------------------------------
(* Entries on the device.                                                  *)

Done(v) == [vol |-> v, ok |-> TRUE]

Failed(v) == [vol |-> v, ok |-> FALSE]

\* What follows a part of a call that went well
Then(r, Rest(_)) == IF r.ok THEN Rest(r.vol) ELSE r

\* The slot at which n slots for an entry begin: the first end if there are n from
\* there on, else the first n deleted ones, else the first end, for which the
\* directory has to grow.
Place(s, n) ==
    LET ends == {i \in DOMAIN s : s[i].kind = "end"}
        from == IF ends = {} THEN Len(s) + 1 ELSE Least(ends)
        gaps == {i \in 1..(from - n) : \A j \in i..(i + n - 1) : s[j].kind = "deleted"}
    IN  IF Len(s) - from + 1 >= n \/ gaps = {} THEN from ELSE Least(gaps)

PutSlot(v, first, i, slot) ==
    LET chain == Chain(v, first)
    IN  [v EXCEPT !.disk[chain[((i - 1) \div PerCluster) + 1]][((i - 1) % PerCluster) + 1] = slot]

\* allocateCluster(tail): the directory has one cluster more, all of it ends.
Lengthened(v, first) ==
    LET chain == Chain(v, first)
    IN  [Taken(v, Blank) EXCEPT !.fat[chain[Len(chain)]] = NextFree(v)]

\* writeDirectoryEntryToDisk: always a new entry.
Entered(v, p, d) ==
    LET first == v.index[Parent(p)].first
        s == Slots(v, first)
        n == IF Name(p) \in Dotted THEN 2 ELSE 1
        at == Place(s, n)
        w == IF at + n - 1 <= Len(s) THEN v ELSE Lengthened(v, first)
    IN  IF s = <<>> \/ (at + n - 1 > Len(s) /\ FreeClusters(v) = {}) THEN Failed(v)
        ELSE IF n = 1 THEN Done(PutSlot(w, first, at, ShortSlot(Name(p), d)))
        ELSE Done(PutSlot(PutSlot(w, first, at, LongSlot(Name(p))), first, at + 1,
                          ShortSlot(Name(p), d)))

\* createFileEntry, createDirectoryEntry: the parent has to be spelled as in the
\* index, and the index has the entry whether or not it can be written.
EntryCreated(v, p, d) ==
    LET key == Append(Parent(p), Short[Name(p)])
        w == [Indexed(v, key, d) EXCEPT !.parsed = @ \ {key}]
    IN  IF IsDir(v, Parent(p)) THEN Entered(w, key, d) ELSE Failed(v)

\* Whether markDirectoryEntryAsDeleted takes the i-th slot for the entry of name n.
Matches(s, i, n) ==
    \/ s[i].name = Short[n]
    \/ NameInCluster(s, i) \in Names /\ Folded[NameInCluster(s, i)] \in {Folded[n], Short[n]}

UnmarkedShortOnly(v, first, n) ==        \* mutant of Unmarked
    LET s == Slots(v, first)
        hits == {i \in Live(s) : Matches(s, i, n)}
    IN  IF hits = {} THEN Failed(v) ELSE Done(PutSlot(v, first, Least(hits), Deleted))

\* markDirectoryEntryAsDeleted: the first entry that matches, and the long slot
\* before it if it is in the same cluster.
Unmarked(v, first, n) ==
    LET s == Slots(v, first)
        hits == {i \in Live(s) : Matches(s, i, n)}
        i == Least(hits)
        w == PutSlot(v, first, i, Deleted)
    IN  IF hits = {} THEN Failed(v)
        ELSE IF (i - 1) % PerCluster # 0 /\ s[i - 1].kind = "long"
             THEN Done(PutSlot(w, first, i - 1, Deleted)) ELSE Done(w)

\* deleteFileEntry, deleteDirectoryEntry
EntryDeleted(v, p) ==
    IF IsDir(v, Parent(p))
    THEN Then(Unmarked(v, v.index[Parent(p)].first, Name(p)), LAMBDA w : Done(Forgotten(w, p)))
    ELSE Failed(v)

-------------------------------------------------------------------------------
(* The calls: writeFile and its kind look at their paths first (Volume),   *)
(* then act (Fat32Volume::...Unchecked).                                   *)

\* writeFileUnchecked: the old cluster is freed if the path is a key of the index.
WrittenNew(v, p, what) ==
    IF what = Empty THEN EntryCreated(v, p, [dir |-> FALSE, first |-> 0])
    ELSE IF FreeClusters(v) = {} THEN Failed(v)
    ELSE EntryCreated(Taken(v, what), p, [dir |-> FALSE, first |-> NextFree(v)])

Written(v, p, what) == WrittenNew(IF IsFile(v, p) THEN Freed(v, v.index[p].first) ELSE v, p, what)

\* removeFileThrowsUnchecked: the cluster is free before the entry is marked.
FileRemovedAt(v, p) ==
    IF IsFile(v, p)
    THEN EntryDeleted([Freed(v, v.index[p].first) EXCEPT !.parsed = @ \ {Parent(p)}], p)
    ELSE Failed(v)

FileRemoved(v, path) == FileRemovedAt(v, Resolve(v, path))

\* removeFile, which tells its caller nothing of a failure but that it was one
ClearedAt(l, path) == IF IsFile(l.vol, l.path) THEN FileRemoved(l.vol, path) ELSE Failed(l.vol)

Cleared(v, path) == ClearedAt(Look(v, path), path)

\* removeDirectoryThrowsUnchecked: a directory is empty if nothing of it is indexed.
DirectoryRemoved(v, path) ==
    LET p == Resolve(v, path)
        within == {q \in DOMAIN v.index : Len(q) > Len(p) /\ SubSeq(q, 1, Len(p)) = p}
    IN  IF ~IsDir(v, p) \/ p = Root \/ within # {} THEN Failed(v)
        ELSE EntryDeleted(Freed(v, v.index[p].first), p)

\* createDirectoryThrowsUnchecked
DirectoryMade(v, p) ==
    IF p \in DOMAIN v.index \/ ~IsDir(v, Parent(p)) \/ FreeClusters(v) = {} THEN Failed(v)
    ELSE EntryCreated(Taken(v, Blank), p, [dir |-> TRUE, first |-> NextFree(v)])

\* What a copy or a move writes to: a directory stands for an entry in it.
Target(v, src, dest) ==
    IF LET l == Look(v, dest) IN l.path # NoPath /\ IsDir(l.vol, l.path) THEN Append(dest, Name(src)) ELSE dest

\* The wrappers of copyFile, moveFile and rename: the source is there, and the
\* destination is not, or is removed if it may be overwritten.  Only copyFile asks
\* whether the source is a file, and does not ask whether the removal went well.
MadeRoom(t, call, d, overwrite) ==
    IF t.path = NoPath THEN Done(t.vol)
    ELSE IF ~overwrite THEN Failed(t.vol)
    ELSE [Cleared(t.vol, d) EXCEPT !.ok = @ \/ call = "copy"]

PreparedFrom(s, call, d, overwrite) ==
    IF s.path = NoPath \/ (call = "copy" /\ IsDir(s.vol, s.path)) THEN Failed(s.vol)
    ELSE MadeRoom(Look(s.vol, d), call, d, overwrite)

Prepared(v, call, src, d, overwrite) == PreparedFrom(Look(v, src), call, d, overwrite)

\* copyFileThrowsUnchecked, and what moving and renaming begin with: the source
\* is read, which looks at the device again, and written to the destination.
ReadAndWritten(l, d) == IF IsFile(l.vol, l.path) THEN Written(l.vol, d, ShownAt(l)) ELSE Failed(l.vol)

Duplicated(v, call, src, d) ==
    IF \/ Resolve(v, src) = NoPath
       \/ call # "rename" /\ ~IsFile(v, Resolve(v, src))
       \/ Resolve(v, d) # NoPath
       \/ call = "rename" /\ ~IsDir(v, Parent(d))
    THEN Failed(v)
    ELSE ReadAndWritten(Look(v, src), d)

RemovedAnyway(r, src) == FileRemoved(r.vol, src)

TransferredAnyway(v, call, src, d, overwrite) ==  \* mutant of Transferred
    Then(Prepared(v, call, src, d, overwrite),
         LAMBDA w : IF call = "copy" THEN Duplicated(w, call, src, d)
                    ELSE RemovedAnyway(Duplicated(w, call, src, d), src))

\* copyFile, moveFile, rename: the last two remove the source after the copy is
\* written, and a move forgets the index.
Transferred(v, call, src, d, overwrite) ==
    Then(Prepared(v, call, src, d, overwrite),
         LAMBDA w : IF call = "copy" THEN Duplicated(w, call, src, d)
                    ELSE Then(Duplicated(w, call, src, d),
                              LAMBDA w2 : Then(FileRemoved(w2, src),
                                               LAMBDA w3 : Done(IF call = "move" THEN Unread(w3) ELSE w3))))

-------------------------------------------------------------------------------
(* Output streams (Fat32FileOutputStream) that do not append.              *)

\* findDirEntryLocation: of the first entry of that short name; looks nothing up
\* on the device but that entry.
Location(v, path) ==
    LET p == Resolve(v, path)
        s == Slots(v, v.index[Parent(p)].first)
        hits == {i \in Live(s) : s[i].name = Short[Name(p)]}
        i == Least(hits)
    IN  IF ~IsFile(v, p) \/ ~IsDir(v, Parent(p)) \/ hits = {} THEN NoPath
        ELSE <<Chain(v, v.index[Parent(p)].first)[((i - 1) \div PerCluster) + 1], ((i - 1) % PerCluster) + 1>>

\* reallocClusters for a stream that has no cluster yet: a free run is looked for
\* twice, the second time from behind the first.
TakenByStream(v, what) ==
    LET w == [v EXCEPT !.hint = NextFree(v) + 1]
        c == NextFree(w)
    IN  [w EXCEPT !.fat[c] = EndOfChain, !.disk[c] = what, !.hint = c + 1]

\* updateDirEntry at a place remembered since the stream was opened: what is there
\* is taken for the entry if it is one.
Repointed(v, at, c) ==
    IF v.disk[at[1]] \in Contents \/ v.disk[at[1]][at[2]].kind # "short" THEN Failed(v)
    ELSE Done([v EXCEPT !.disk[at[1]][at[2]].first = c, !.disk[at[1]][at[2]].dir = FALSE])

\* flush: the old cluster of the file is not freed.
Reindexed(v, key, d) == IF key = NoPath THEN v ELSE Indexed(v, key, d)

UpdatedAt(v, path, at, d) ==
    IF at = NoPath THEN Failed(v)
    ELSE Then(Repointed(v, at, d.first), LAMBDA u : Done(Reindexed(u, Resolve(u, path), d)))

Flushed(v, s, what) ==
    LET d == [dir |-> FALSE, first |-> NextFree([v EXCEPT !.hint = NextFree(v) + 1])]
        w == TakenByStream(v, what)
    IN  IF FreeClusters(v) = {} THEN Failed(v)
        ELSE IF s.at # NoPath THEN UpdatedAt(w, s.path, s.at, d)
        ELSE Then(EntryCreated(w, s.path, d), LAMBDA e : UpdatedAt(e, s.path, Location(e, s.path), d))

-------------------------------------------------------------------------------
(* Actions.                                                                *)

Called(call, p, q, what, r) ==
    /\ vol' = r.vol
    /\ calls < MaxCalls
    /\ calls' = calls + 1
    /\ last' = [call |-> call, path |-> p, dest |-> q, what |-> what, ok |-> r.ok]

Init ==
    /\ \E image \in Images :
          vol = Unread([fat |-> image.fat, disk |-> image.disk, hint |-> 2, index |-> <<>>, parsed |-> {}])
    /\ stream = NoPath
    /\ calls = 0
    /\ last = [call |-> "none", path |-> NoPath, dest |-> NoPath, what |-> Empty, ok |-> TRUE]

\* exists, isFile, isDirectory, readFile: change the index only, and are not counted.
LookAt(p) ==
    /\ vol' = Look(vol, p).vol
    /\ last' = [call |-> "look", path |-> p, dest |-> NoPath, what |-> Empty, ok |-> TRUE]
    /\ UNCHANGED <<stream, calls>>

\* writeFile
WriteFile(p, what) ==
    LET l == Look(vol, p)
    IN  /\ Called("write", p, NoPath, what,
                  IF l.path # NoPath /\ ~IsFile(l.vol, l.path) THEN Failed(l.vol)
                  ELSE Written(l.vol, p, what))
        /\ UNCHANGED stream

\* removeFile, removeFileThrows
RemoveFile(p) ==
    /\ Called("remove", p, NoPath, Empty, Cleared(vol, p))
    /\ UNCHANGED stream

\* createDirectory, createDirectoryThrows
CreateDirectory(p) ==
    LET l == Look(vol, p)
    IN  /\ Called("create", p, NoPath, Empty,
                  IF l.path # NoPath THEN Failed(l.vol) ELSE DirectoryMade(l.vol, p))
        /\ UNCHANGED stream

\* removeDirectory, removeDirectoryThrows
RemoveDirectory(p) ==
    LET l == Look(vol, p)
    IN  /\ Called("rmdir", p, NoPath, Empty,
                  IF ~IsDir(l.vol, l.path) THEN Failed(l.vol) ELSE DirectoryRemoved(l.vol, p))
        /\ UNCHANGED stream

\* copyFile, moveFile, rename and their ...Throws
Transfer(call, src, dest, overwrite) ==
    /\ \E d \in {Target(vol, src, dest)} : Called(call, src, d, Empty, Transferred(vol, call, src, d, overwrite))
    /\ UNCHANGED stream

\* newOutputStream: changes nothing, and is not counted.
OpenStream(p) ==
    /\ stream = NoPath
    /\ stream' = [path |-> p, at |-> Location(vol, p)]
    /\ last' = [call |-> "open", path |-> p, dest |-> NoPath, what |-> Empty, ok |-> TRUE]
    /\ UNCHANGED <<vol, calls>>

\* What was written to the stream is flushed and the stream closed.  After a
\* failure the destructor flushes again, and fails again.
CloseStream(what) ==
    /\ stream # NoPath
    /\ stream' = NoPath
    /\ Called("close", stream.path, NoPath, what, Flushed(vol, stream, what))

\* The process ends and another one opens the volume.  The table on the device is
\* up to date; Fat32Clusters has what happens when it is not.
Mount ==
    /\ stream' = NoPath
    /\ Called("mount", NoPath, NoPath, Empty, Done([Unread(vol) EXCEPT !.hint = 2]))

Next ==
    \/ \E p \in Calls : LookAt(p)
    \/ \E p \in Calls, what \in Data : WriteFile(p, what)
    \/ \E p \in Calls : RemoveFile(p) \/ RemoveDirectory(p)
    \/ \E p \in Folders : CreateDirectory(p)
    \/ \E call \in {"copy", "move", "rename"}, m \in Moves, overwrite \in BOOLEAN :
          Transfer(call, m[1], m[2], overwrite)
    \/ \E p \in Calls : OpenStream(p)
    \/ \E what \in Data \ {Empty} : CloseStream(what)
    \/ Mount

Spec == Init /\ [][Next]_vars

-------------------------------------------------------------------------------
(* Properties.                                                             *)

\* The directories on the device, as a fresh index finds them, and their slots.
FoundDirectory(l) == IsDir(l.vol, l.path)

Directories(v) == {p \in {Root} \cup Folders : p = Root \/ FoundDirectory(Look(Unread(v), p))}

SlotsOf(v, p) == LET l == Look(Unread(v), p) IN Slots(v, l.vol.index[l.path].first)

Held(v, c) == {Chain(v, c)[i] : i \in DOMAIN Chain(v, c)}

\* No name stands twice in a directory, no long name without its entry, and no
\* cluster is free and in a file, in two files, or in none.
TidyDirectory(s) ==
    /\ \A i, j \in Live(s) : s[i].name = s[j].name => i = j
    /\ \A i \in Live(s) : NameAt(s, i) \in Names /\ Short[NameAt(s, i)] = s[i].name
    /\ \A i \in DOMAIN s : s[i].kind = "long" => i + 1 \in Live(s)

TidyClusters(v, held) ==
    /\ \A e, f \in DOMAIN held : e # f => held[e] \cap held[f] = {}
    /\ Held(v, 2) \cup UNION {held[e] : e \in DOMAIN held} = Clusters \ FreeClusters(v)

TidySlots(v, slots) ==
    /\ \A p \in DOMAIN slots : TidyDirectory(slots[p])
    /\ TidyClusters(v, [e \in UNION {{<<p, i>> : i \in Live(slots[p])} : p \in DOMAIN slots}
                            |-> Held(v, slots[e[1]][e[2]].first)])

AllSlots(v) == [p \in Directories(v) |-> SlotsOf(v, p)]

Tidy(v) == TidySlots(v, AllSlots(v))

\* What the index has is what the device says.
HasEntry(s, n, d) ==
    \E i \in Live(s) : NameAt(s, i) = n /\ d = [dir |-> s[i].dir, first |-> s[i].first]

AgreesWith(index, slots) ==
    \A q \in DOMAIN index \ {Root} :
        Parent(q) \in DOMAIN slots /\ HasEntry(slots[Parent(q)], Name(q), index[q])

Agrees(v) == AgreesWith(v.index, AllSlots(v))

Sound(v) == Tidy(v) /\ Agrees(v)

\* The entries of that short name in the directory of p.
SameShort(s, n) == {i \in Live(s) : s[i].name = Short[n]}

Namesakes(v, p) == IF Parent(p) \in Directories(v) THEN SameShort(SlotsOf(v, Parent(p)), Name(p)) ELSE {}

\* The long slot of the entry of p is in the cluster before it.
SplitIn(s, n) == \E i \in SameShort(s, n) : i > 1 /\ (i - 1) % PerCluster = 0 /\ s[i - 1].kind = "long"

Split(v, p) == p # NoPath /\ Parent(p) \in Directories(v) /\ SplitIn(SlotsOf(v, Parent(p)), Name(p))

\* The place a stream remembers is not that of the entry of its file any more.
Astray(v, s) == s.at # NoPath /\ s.at # Location(v, s.path)

\* q is p or below it, however its names are spelled.
Within(p, q) ==
    /\ p # NoPath
    /\ Len(p) <= Len(q) /\ \A i \in DOMAIN p : Short[p[i]] = Short[q[i]]

\* Where the last call wrote.
Destination == IF last'.dest = NoPath THEN last'.path ELSE last'.dest

Whole == Sound(vol)

\* Of a volume that was not sound nothing is said below.

\* A sound volume stays tidy, except that: writing a file that is there, or one
\* whose 8.3 name is taken, leaves two entries of one name; removing an entry whose
\* long slot is in another cluster leaves that slot, and the next entry put behind
\* it takes its name; removing a directory that was not looked into loses its
\* files; a call that finds no room, or its parent spelled differently, or a stream
\* whose entry has gone, keeps clusters nobody has.
UntidyKnowingly ==
    \/ Tidy(vol')
    \/ /\ last'.call \in {"write", "close", "copy", "move", "rename"}
       /\ Namesakes(vol, Destination) # {}
    \/ /\ last'.call \in {"remove", "copy", "move", "rename"}
       /\ Split(vol, last'.path) \/ Split(vol, last'.dest)
    \/ last'.call = "rmdir" /\ Live(SlotsOf(vol, last'.path)) # {}
    \/ last'.call = "close" /\ Astray(vol, stream)
    \/ /\ ~last'.ok
       /\ \/ Cardinality(FreeClusters(vol)) <= 1
          \/ ~IsDir(IF last'.call = "close" THEN vol ELSE Look(vol, Destination).vol, Parent(Destination))

\* Nothing else untidies a sound volume; and the index follows the device through
\* every call but one that fails and a stream whose entry has gone: nothing is shown
\* that a restart would not show, and nothing a restart shows is hidden.
OnlyKnownStepsSpoil ==
    [][\/ /\ UntidyKnowingly
          /\ \/ Agrees(vol') \/ ~last'.ok \/ ~Tidy(vol')
             \/ last'.call = "close" /\ Astray(vol, stream)
       \/ ~Sound(vol)]_vars

\* What was written to a file, by a call or through a stream, is what it reads as,
\* except where another system gave the file a long name, and where the new entry
\* was put into a deleted slot before the old one: the later entry is believed.
WritesAreRead ==
    [][last'.ok /\ last'.call \in {"write", "close"} =>
        \/ Shown(vol', last'.path) = last'.what
        \/ last'.call = "close" /\ Astray(vol, stream)
        \/ LET s == SlotsOf(vol, Parent(last'.path))
           IN  \E i \in Namesakes(vol, last'.path) :
                  NameAt(s, i) # s[i].name \/ \E j \in 1..(i - 1) : s[j].kind = "deleted"
        \/ ~Sound(vol)]_vars

\* A call changes no path but those it names, in whatever spelling, and what is in
\* them; unless a stream writes where its entry was.
OthersUntouched ==
    \/ \A p \in Calls : Within(last'.path, p) \/ Within(last'.dest, p) \/ Shown(vol', p) = Shown(vol, p)
    \/ last'.call = "close" /\ Astray(vol, stream)

\* A file that is moved is at its source or at its destination, also when the call
\* fails half-way; after a success it is at the destination, and not at the source
\* unless it was copied.  Where what it replaces had its long slot in another
\* cluster, the new entry may take part of that name.
MovedFilesArrive ==
    last'.call \in {"copy", "move", "rename"} =>
        LET was == Shown(vol, last'.path)
        IN  \/ was \notin Contents \cup {Empty}
            \/ /\ last'.ok /\ Shown(vol', last'.dest) = was
               /\ last'.call = "copy" \/ Shown(vol', last'.path) = NoPath
            \/ ~last'.ok /\ Shown(vol', last'.path) = was
            \/ Split(vol, last'.dest)

\* What was removed is gone, also when the directory is read again, if there was one
\* entry of its name.
RemovedStaysRemoved ==
    last'.call \in {"remove", "rmdir"} /\ last'.ok =>
        Shown(vol', last'.path) = NoPath /\ Shown(Unread(vol'), last'.path) = NoPath

\* On a sound volume a copy, a move and a removal do what they say to the files they
\* name, and to no other.
FilesGoWhereTold ==
    [][Sound(vol) => OthersUntouched /\ MovedFilesArrive /\ RemovedStaysRemoved]_vars
===============================================================================
