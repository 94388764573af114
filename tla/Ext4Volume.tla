------------------------------- MODULE Ext4Volume -------------------------------
(***************************************************************************)
(* An ext4 volume (Ext4Volume, Ext4FileOutputStream): the calls on paths,  *)
(* each with a handle of its own on the device; the three caches they      *)
(* answer from, by path, by inode and by directory; and an output stream   *)
(* that keeps its handle, with the bitmaps it read, while other calls run. *)
(*                                                                         *)
(* libext2fs is external: the operators under its heading are what the     *)
(* calls rely on.  The context is always that of root, as nobody sets      *)
(* another (setContextUidGid), so checkMode allows everything.  A chunk of *)
(* data is a block, and what is in it is left out.                         *)
(***************************************************************************)
EXTENDS Integers, Sequences, FiniteSets, TLC

CONSTANTS Names,
          Inos,       \* inode numbers; the least is the root's
          Blocks,     \* block numbers
          PerBlock,   \* names that a block of a directory has room for
          MaxSize,    \* blocks of a file
          Paths,      \* sequences of names
          Images      \* devices to mount

VARIABLES disk,    \* entries, inodes and bitmaps
          cache,   \* m_files, m_nodes and m_rtnodes
          stream,  \* the Ext4FileOutputStream that is open
          last     \* the last call

vars == <<disk, cache, stream, last>>

Least(S) == CHOOSE x \in S : \A y \in S : x <= y

Root == Least(Inos)

NoIno == 0

NoBlock == 0

Parent(p) == SubSeq(p, 1, Len(p) - 1)

Base(p) == p[Len(p)]

Without(f, x) == [y \in DOMAIN f \ {x} |-> f[y]]

-------------------------------------------------------------------------------
(* libext2fs.                                                              *)

NoBlocks == [k \in 1..MaxSize |-> NoBlock]

FreeInos(d) == Inos \ d.imap

EntriesOf(d, dir) == {e \in d.entries : e.dir = dir}

Entry(dir, n, i) == [dir |-> dir, name |-> n, ino |-> i]

\* ext2fs_write_inode of a new one
Initialised(d, i, kind) ==
    [d EXCEPT !.kind[i] = kind, !.size[i] = 0, !.blocks[i] = NoBlocks]

IsFull(d, dir) == Cardinality(EntriesOf(d, dir)) >= d.room[dir] * PerBlock

\* ext2fs_link, after ext2fs_expand_dir when the directory is full.  free is what the
\* bitmap of the handle has; the block of the directory is only counted.
Linkable(d, dir, free) == ~IsFull(d, dir) \/ free # {}

Linked(d, dir, n, i, free) ==
    LET e == [d EXCEPT !.entries = @ \cup {Entry(dir, n, i)}]
    IN  IF IsFull(d, dir)
        THEN [e EXCEPT !.room[dir] = @ + 1, !.dirBlocks = @ \cup {Least(free)}, !.bmap = @ \cup {Least(free)}]
        ELSE e

MarkedNot(d, i) == d                     \* mutant of Marked

\* ext2fs_inode_alloc_stats, ext2fs_write_bitmaps
Marked(d, i) == [d EXCEPT !.imap = @ \cup {i}]

\* ext2fs_unlink takes the entry and nothing else
Unlinked(d, dir, n, i) == [d EXCEPT !.entries = @ \ {Entry(dir, n, i)}]

FreeBlocks(bmap) == Blocks \ bmap

\* ext2fs_file_write of n blocks from the start, as far as there is room
Stored(d, i, n) ==
    LET put[k \in 0..n] ==
            IF k = 0 THEN d
            ELSE LET e == put[k - 1]
                     b == IF e.blocks[i][k] # NoBlock THEN e.blocks[i][k]
                          ELSE IF FreeBlocks(e.bmap) # {} THEN Least(FreeBlocks(e.bmap)) ELSE NoBlock
                 IN  IF b = NoBlock THEN e
                     ELSE [e EXCEPT !.blocks[i][k] = b, !.bmap = @ \cup {b},
                                    !.size[i] = IF @ < k THEN k ELSE @]
    IN  put[n]

IsStored(d, i, n) == \A k \in 1..n : Stored(d, i, n).blocks[i][k] # NoBlock

-------------------------------------------------------------------------------
(* The caches.  Each is a map with the keys it has now.                    *)

Node(d, i) == [dir |-> d.kind[i] = "dir", size |-> d.size[i]]

Listing(d, dir) ==
    LET es == IF d.kind[dir] = "dir" THEN EntriesOf(d, dir) ELSE {}
        Ino(n) == (CHOOSE e \in es : e.name = n).ino
    IN  [n \in {e.name : e \in es} |-> [ino |-> Ino(n), node |-> Node(d, Ino(n))]]

\* getDirectoryEntries
Scanned(c, d, dir) ==
    IF dir \in DOMAIN c.dirs THEN c
    ELSE LET list == Listing(d, dir)
         IN  [c EXCEPT !.dirs = (dir :> list) @@ @,
                       !.nodes = [i \in {list[n].ino : n \in DOMAIN list} |-> Node(d, i)] @@ @]

\* resolveNode: the cache, and what it has found, NoIno for nothing
Found(c, i) == [cache |-> c, ino |-> i]

Child(seen, entry, path) ==
    Found([seen EXCEPT !.nodes = (entry.ino :> entry.node) @@ @, !.files = (path :> entry.ino) @@ @], entry.ino)

\* The last name of path, looked for in the directory cur, as seen shows it
Below(seen, cur, path) ==
    IF Base(path) \in DOMAIN seen.dirs[cur] THEN Child(seen, seen.dirs[cur][Base(path)], path)
    ELSE Found(seen, NoIno)

Descended(r, d, path) ==
    IF r.ino = NoIno THEN r ELSE Below(Scanned(r.cache, d, r.ino), r.ino, path)

Walked(c, d, p) ==
    LET step[k \in 0..Len(p)] ==
            IF k = 0 THEN Found(c, Root) ELSE Descended(step[k - 1], d, SubSeq(p, 1, k))
    IN  step[Len(p)]

Resolve(c, d, p) ==
    IF p = <<>> THEN Found(c, Root)
    ELSE IF p \in DOMAIN c.files /\ c.files[p] \in DOMAIN c.nodes THEN Found(c, c.files[p])
    ELSE Walked(c, d, p)

IsDir(r) == r.ino # NoIno /\ (r.ino = Root \/ r.cache.nodes[r.ino].dir)

IsFile(r) == r.ino # NoIno /\ ~IsDir(r)

SizeOf(r) == r.cache.nodes[r.ino].size

\* m_rtnodes.erase of a path's directory, if the path is known
Forgotten(c, p) ==
    IF p = <<>> THEN [c EXCEPT !.dirs = Without(@, Root)]
    ELSE IF p \in DOMAIN c.files THEN [c EXCEPT !.dirs = Without(@, c.files[p])]
    ELSE c

InvalidatedAlone(c, p) ==                \* mutant of Invalidated
    IF p \notin DOMAIN c.files THEN c
    ELSE LET i == c.files[p]
         IN  [files |-> Without(c.files, p), nodes |-> Without(c.nodes, i), dirs |-> Without(c.dirs, i)]

\* invalidateCache
Invalidated(c, p) ==
    LET i == c.files[p]
        own == IF p \notin DOMAIN c.files THEN c
               ELSE [files |-> Without(c.files, p), nodes |-> Without(c.nodes, i), dirs |-> Without(c.dirs, i)]
    IN  Forgotten(own, Parent(p))

\* What writeFileUnchecked and createDirectory enter at their end
Entered(c, p, i, isDir, n) ==
    Forgotten([c EXCEPT !.files = (p :> i) @@ @, !.nodes = (i :> [dir |-> isDir, size |-> n]) @@ @], Parent(p))

Empty == [x \in {} |-> x]

NewCache == [files |-> Empty, nodes |-> Empty, dirs |-> Empty]

-------------------------------------------------------------------------------

NoStream == [open |-> FALSE]

Init ==
    /\ disk \in Images
    /\ cache = NewCache
    /\ stream = NoStream
    /\ last = [call |-> "none", path |-> <<>>, dest |-> <<>>, threw |-> FALSE]

Outcome(d, c, ok) == [disk |-> d, cache |-> c, ok |-> ok]

\* What follows a part of a call that came to its end
Then(o, Rest(_, _)) == IF o.ok THEN Rest(o.cache, o.disk) ELSE o

\* A call is what it leaves on the device and in the caches, and whether it threw.
Ends(call, p, q, outcome) ==
    \E o \in {outcome} :
        /\ disk' = o.disk
        /\ cache' = o.cache
        /\ last' = [call |-> call, path |-> p, dest |-> q, threw |-> ~o.ok]

\* exists, isFile, isDirectory, stat, readFile
Lookup(p) ==
    /\ Ends("lookup", p, <<>>, Outcome(disk, Resolve(cache, disk, p).cache, TRUE))
    /\ UNCHANGED stream

\* readDir of the root, with all below it: paths are entered, but not their nodes
Tree(top, d) ==
    LET kids == {n \in DOMAIN top.dirs[Root] : top.dirs[Root][n].node.dir}
        Kid(n) == top.dirs[Root][n].ino
        new == {Kid(n) : n \in kids} \ DOMAIN top.dirs
        dirs == [i \in new |-> Listing(d, i)] @@ top.dirs
        seen == UNION {{dirs[i][n].ino : n \in DOMAIN dirs[i]} : i \in new}
        below == {p \in Paths : Len(p) = 2 /\ p[1] \in kids /\ p[2] \in DOMAIN dirs[Kid(p[1])]}
    IN  [dirs |-> dirs,
         nodes |-> [i \in seen |-> Node(d, i)] @@ top.nodes,
         files |-> [p \in below |-> dirs[Kid(p[1])][p[2]].ino]
                   @@ [p \in {<<n>> : n \in DOMAIN top.dirs[Root]} |-> Kid(p[1])] @@ top.files]

ReadTree ==
    /\ Ends("list", <<>>, <<>>, Outcome(disk, Tree(Scanned(cache, disk, Root), disk), TRUE))
    /\ UNCHANGED stream

-------------------------------------------------------------------------------
(* writeFileUnchecked: what it leaves on the device, in the caches, and    *)
(* whether it came to its end.                                             *)

StoredFile(c, d, p, i, n) ==
    IF IsStored(d, i, n)
    THEN Outcome([Stored(d, i, n) EXCEPT !.size[i] = n], Entered(c, p, i, FALSE, n), TRUE)
    ELSE Outcome(Stored(d, i, n), c, FALSE)

\* A new file: its inode begun, its name linked, the inode marked
NewFile(c, d, p, up, n) ==
    LET i == Least(FreeInos(d))
        begun == Initialised(d, i, "file")
        free == FreeBlocks(d.bmap)
    IN  IF FreeInos(d) = {} THEN Outcome(d, c, FALSE)
        ELSE IF ~Linkable(d, up, free) THEN Outcome(begun, c, FALSE)
        ELSE StoredFile(c, Marked(Linked(begun, up, Base(p), i, free), i), p, i, n)

WrittenAt(d, p, n, up, at) ==
    IF ~IsDir(up) THEN Outcome(d, up.cache, FALSE)
    ELSE IF at.ino = NoIno THEN NewFile(at.cache, d, p, up.ino, n)
    ELSE StoredFile(at.cache, d, p, at.ino, n)

Written(c, d, p, n) ==
    LET up == Resolve(c, d, Parent(p))
    IN  WrittenAt(d, p, n, up, Resolve(up.cache, d, p))

\* writeFile
WriteFile(p, n) ==
    LET at == Resolve(cache, disk, p)
    IN  /\ Ends("write", p, <<>>,
                IF IsDir(at) THEN Outcome(disk, at.cache, FALSE) ELSE Written(at.cache, disk, p, n))
        /\ UNCHANGED stream

\* createDirectory.  ext2fs_mkdir needs a block for the directory itself.
NewDirectory(up, d, p) ==
    LET free == FreeBlocks(d.bmap)
        i == Least(FreeInos(d))
        own == Least(free)
        begun == [Initialised(d, i, "dir") EXCEPT !.bmap = @ \cup {own}, !.dirBlocks = @ \cup {own}, !.room[i] = 1]
    IN  IF ~IsDir(up) \/ FreeInos(d) = {} \/ free = {} \/ ~Linkable(d, up.ino, free \ {own})
        THEN Outcome(d, up.cache, FALSE)
        ELSE Outcome(Marked(Linked(begun, up.ino, Base(p), i, free \ {own}), i),
                     [Entered(up.cache, p, i, TRUE, 0) EXCEPT !.dirs = Without(@, i)], TRUE)

Made(c, d, p) ==
    LET at == Resolve(c, d, p)
    IN  IF at.ino = NoIno THEN NewDirectory(Resolve(at.cache, d, Parent(p)), d, p)
        ELSE Outcome(d, at.cache, FALSE)

CreateDirectory(p) ==
    /\ Ends("mkdir", p, <<>>, Made(cache, disk, p))
    /\ UNCHANGED stream

-------------------------------------------------------------------------------
(* Removing: the entry goes, the inode and its blocks stay marked.         *)

RemovedOutcome(c, d, p, i) ==
    LET up == Resolve(c, d, Parent(p))
    IN  IF ~IsDir(up) \/ Entry(up.ino, Base(p), i) \notin d.entries THEN Outcome(d, up.cache, FALSE)
        ELSE Outcome(Unlinked(d, up.ino, Base(p), i), Invalidated(up.cache, p), TRUE)

\* removeFile, as a call and before an overwriting move
FileRemoved(c, d, p) ==
    LET at == Resolve(c, d, p)
    IN  IF IsFile(at) THEN RemovedOutcome(at.cache, d, p, at.ino) ELSE Outcome(d, at.cache, FALSE)

RemoveFile(p) ==
    /\ Ends("remove", p, <<>>, FileRemoved(cache, disk, p))
    /\ UNCHANGED stream

\* mutant of DirectoryRemoved: what is in the directory is not asked
DirectoryRemovedFull(c, d, p) ==
    LET at == Resolve(c, d, p)
    IN  IF ~IsDir(at) THEN Outcome(d, at.cache, FALSE) ELSE RemovedOutcome(at.cache, d, p, at.ino)

\* The directory is empty when the listing in the cache is.
DirectoryRemoved(c, d, p) ==
    LET at == Resolve(c, d, p)
        seen == Scanned(at.cache, d, at.ino)
    IN  IF ~IsDir(at) THEN Outcome(d, at.cache, FALSE)
        ELSE IF DOMAIN seen.dirs[at.ino] # {} THEN Outcome(d, seen, FALSE)
        ELSE RemovedOutcome(seen, d, p, at.ino)

RemoveDirectory(p) ==
    /\ Ends("rmdir", p, <<>>, DirectoryRemoved(cache, disk, p))
    /\ UNCHANGED stream

\* A destination that is a directory means a name in it.
Destination(p, q, at) == IF IsDir(at) THEN q \o <<Base(p)>> ELSE q

\* What exists at the destination is removed when the call may overwrite.
Cleared(c, d, q, overwrite) ==
    LET at == Resolve(c, d, q)
    IN  IF at.ino = NoIno THEN Outcome(d, at.cache, TRUE)
        ELSE IF overwrite THEN FileRemoved(at.cache, d, q)
        ELSE Outcome(d, at.cache, FALSE)

\* copyFileThrowsUnchecked, moveFileThrowsUnchecked: what the stream reads is cut
\* to the size in the cache.
Copied(c, d, p, q) ==
    LET at == Resolve(c, d, p)
        to == Resolve(at.cache, d, q)
        n == IF SizeOf(at) < d.size[at.ino] THEN SizeOf(at) ELSE d.size[at.ino]
    IN  IF ~IsFile(at) \/ to.ino # NoIno THEN Outcome(d, to.cache, FALSE)
        ELSE Written(to.cache, d, q, n)

Moved(c, d, p, q) ==
    Then(Copied(c, d, p, q),
         LAMBDA c2, d2 :
             Then(RemovedOutcome(c2, d2, p, Resolve(c, d, p).ino),
                  LAMBDA c3, d3 : Outcome(d3, [c3 EXCEPT !.dirs = Without(@, Root)], TRUE)))

\* renameFileThrowsUnchecked: the handle has no bitmaps, so a full directory stays full.
\* The old entry goes first.
Relinked(c, d, p, q, i, oldDir, newDir) ==
    LET gone == Unlinked(d, oldDir, Base(p), i)
        kept == [Invalidated(c, p) EXCEPT !.files = (q :> i) @@ @, !.nodes = (i :> c.nodes[i]) @@ @]
    IN  IF IsFull(gone, newDir) THEN Outcome(gone, c, FALSE)
        ELSE Outcome(Linked(gone, newDir, Base(q), i, {}), Forgotten(Forgotten(kept, Parent(p)), Parent(q)), TRUE)

RenamedAt(d, p, q, i, to, newUp, oldUp) ==
    IF to # NoIno \/ ~IsDir(newUp) \/ ~IsDir(oldUp) \/ Entry(oldUp.ino, Base(p), i) \notin d.entries
    THEN Outcome(d, oldUp.cache, FALSE)
    ELSE Relinked(oldUp.cache, d, p, q, i, oldUp.ino, newUp.ino)

Renamed(c, d, p, q) ==
    LET at == Resolve(c, d, p)
        to == Resolve(at.cache, d, q)
        newUp == Resolve(to.cache, d, Parent(q))
    IN  RenamedAt(d, p, q, at.ino, to.ino, newUp, Resolve(newUp.cache, d, Parent(p)))

Carried(call, c, d, p, q) ==
    IF Resolve(c, d, p).ino = NoIno THEN Outcome(d, c, FALSE)
    ELSE IF call = "copy" THEN Copied(c, d, p, q)
    ELSE IF call = "move" THEN Moved(c, d, p, q)
    ELSE Renamed(c, d, p, q)

\* copyFile, moveFile and rename of the base class
Onto(call, c, d, p, dest, overwrite) ==
    Then(Cleared(c, d, dest, overwrite), LAMBDA c2, d2 : Carried(call, c2, d2, p, dest))

Transferred(call, c, d, p, q, overwrite) ==
    LET at == Resolve(c, d, p)
        to == Resolve(at.cache, d, q)
    IN  IF at.ino = NoIno \/ (call = "copy" /\ ~IsFile(at)) THEN Outcome(d, at.cache, FALSE)
        ELSE Onto(call, to.cache, d, p, Destination(p, q, to), overwrite)

\* Where the source is not there, the call is a Lookup that throws.
Transfer(call, p, q, overwrite) ==
    /\ Resolve(cache, disk, p).ino # NoIno
    /\ \E dest \in {Destination(p, q, Resolve(cache, disk, q))} :
           /\ dest \in Paths
           /\ overwrite => Resolve(cache, disk, dest).ino # NoIno
           /\ Ends(call, p, dest, Transferred(call, cache, disk, p, q, overwrite))
           /\ UNCHANGED stream

-------------------------------------------------------------------------------
(* The output stream.  It has a handle of its own from the first chunk to  *)
(* its end: the bitmap of blocks as it was then, and a copy of the inode.  *)

OpenStream(p, append) ==
    LET at == Resolve(cache, disk, p)
        up == Resolve(at.cache, disk, Parent(p))
        isNew == at.ino = NoIno
        ok == IF isNew THEN IsDir(up) ELSE ~IsDir(at)
    IN  /\ ~stream.open
        /\ append => ~isNew
        /\ stream' = IF ~ok THEN NoStream
                     ELSE [open |-> TRUE, path |-> p, link |-> isNew, append |-> append, ino |-> at.ino,
                           up |-> IF isNew THEN up.ino ELSE NoIno,
                           pos |-> IF append /\ ~isNew THEN SizeOf(at) ELSE 0,
                           ready |-> FALSE, bmap |-> {}, dirty |-> FALSE, blocks |-> NoBlocks, size |-> 0]
        /\ Ends("open", p, <<>>, Outcome(disk, IF isNew THEN up.cache ELSE at.cache, ok))

Kept(blocks) == {blocks[k] : k \in 1..MaxSize} \ {NoBlock}

Shortened(blocks, n) == [k \in 1..MaxSize |-> IF k <= n THEN blocks[k] ELSE NoBlock]

OpenableStream(s, d) == s.ready \/ ~s.link \/ FreeInos(d) # {}

\* ensureOpen.  The inode of a new file is taken, but not marked.
EnsuredInode(s, d) ==
    IF s.ready \/ ~s.link THEN d ELSE Initialised(d, Least(FreeInos(d)), "file")

Ensured(s, d) ==
    LET i == IF s.link THEN Least(FreeInos(d)) ELSE s.ino
        e == EnsuredInode(s, d)
        cut == ~s.append /\ e.size[i] > 0
    IN  IF s.ready THEN s
        ELSE [s EXCEPT !.ready = TRUE, !.ino = i,
                       !.blocks = IF cut THEN NoBlocks ELSE e.blocks[i],
                       !.size = IF cut THEN 0 ELSE e.size[i],
                       !.bmap = IF cut THEN d.bmap \ Kept(e.blocks[i]) ELSE d.bmap,
                       !.dirty = cut /\ Kept(e.blocks[i]) # {}]

\* writeBufferChunk
HasRoom(s) == s.pos < MaxSize /\ (s.blocks[s.pos + 1] # NoBlock \/ FreeBlocks(s.bmap) # {})

Chunk(s) ==
    LET k == s.pos + 1
        b == IF s.blocks[k] # NoBlock THEN s.blocks[k] ELSE Least(FreeBlocks(s.bmap))
    IN  [s EXCEPT !.blocks[k] = b, !.bmap = @ \cup {b}, !.dirty = @ \/ b \notin s.bmap,
                  !.size = IF @ < k THEN k ELSE @, !.pos = k]

\* ext2fs_file_set_size2
Sized(s) ==
    LET cut == IF s.size > s.pos THEN Shortened(s.blocks, s.pos) ELSE s.blocks
    IN  [s EXCEPT !.blocks = cut, !.size = s.pos, !.bmap = @ \ (Kept(s.blocks) \ Kept(cut)),
                  !.dirty = @ \/ Kept(s.blocks) # Kept(cut)]

\* Its inode goes to the device with every change of it, its bitmap with a flush.
WithInode(d, s) == [d EXCEPT !.blocks[s.ino] = s.blocks, !.size[s.ino] = s.size]

Flushed(d, s) == [WithInode(d, s) EXCEPT !.bmap = IF s.dirty THEN s.bmap ELSE @]

\* A full buffer: a chunk is written and the handle flushed.
PutChunk ==
    LET e == Ensured(stream, disk)
        d == EnsuredInode(stream, disk)
        s == Chunk(e)
        ready == OpenableStream(stream, disk)
        ok == ready /\ HasRoom(e)
    IN  /\ stream.open
        /\ stream.pos < MaxSize
        /\ stream' = IF ~ready THEN stream ELSE IF ~ok THEN e ELSE [s EXCEPT !.dirty = FALSE]
        /\ Ends("put", stream.path, <<>>,
                Outcome(IF ~ready THEN disk ELSE IF ~ok THEN WithInode(d, e) ELSE Flushed(d, s), cache, ok))

\* close, with what is left in the buffer or without.  The name is linked at the end;
\* a stream that fails is done, and its handle stays open.
CloseStream(rest) ==
    LET e == Ensured(stream, disk)
        d == EnsuredInode(stream, disk)
        s == Sized(IF rest THEN Chunk(e) ELSE e)
        written == Flushed(d, s)
        free == FreeBlocks(s.bmap)
        linked == Linked(written, s.up, Base(s.path), s.ino, free)
        flushed == IF IsFull(written, s.up) THEN [linked EXCEPT !.bmap = s.bmap \cup {Least(free)}] ELSE linked
    IN  /\ stream.open
        /\ rest => stream.pos < MaxSize
        /\ stream' = NoStream
        /\ Ends("close", stream.path, <<>>,
                IF ~OpenableStream(stream, disk) THEN Outcome(disk, cache, FALSE)
                ELSE IF rest /\ ~HasRoom(e) THEN Outcome(WithInode(d, e), cache, FALSE)
                ELSE IF e.link /\ ~Linkable(written, e.up, free) THEN Outcome(written, cache, FALSE)
                ELSE Outcome(IF e.link THEN flushed ELSE written, Invalidated(cache, stream.path), TRUE))

\* The process ends, and another mounts the device (buildIndex).
Remount ==
    /\ stream' = NoStream
    /\ Ends("mount", <<>>, <<>>, Outcome(disk, NewCache, TRUE))

Next ==
    \/ \E p \in Paths : Lookup(p)
    \/ ReadTree
    \/ \E p \in Paths, n \in 0..MaxSize : WriteFile(p, n)
    \/ \E p \in Paths : CreateDirectory(p)
    \/ \E p \in Paths : RemoveFile(p)
    \/ \E p \in Paths : RemoveDirectory(p)
    \/ \E call \in {"copy", "move", "rename"}, p, q \in Paths, overwrite \in BOOLEAN :
          Transfer(call, p, q, overwrite)
    \/ \E p \in Paths, append \in BOOLEAN : OpenStream(p, append)
    \/ PutChunk
    \/ \E rest \in BOOLEAN : CloseStream(rest)
    \/ Remount

Spec == Init /\ [][Next]_vars

-------------------------------------------------------------------------------
(* Properties.                                                             *)

\* The directory entries that are reached from the root.
Reached(d) ==
    LET step[k \in 0..Cardinality(Inos)] ==
            IF k = 0 THEN EntriesOf(d, Root)
            ELSE LET before == step[k - 1]
                 IN  before \cup UNION {EntriesOf(d, e.ino) : e \in before}
    IN  step[Cardinality(Inos)]

Live(d) == {e.ino : e \in Reached(d)}

\* Each name has an inode of its own, and no two inodes have a block in common.
IsSound(d) ==
    LET names == Reached(d)
        live == {e.ino : e \in names}
    IN  /\ Cardinality(live) = Cardinality(names)
        /\ Cardinality({<<e.dir, e.name>> : e \in names}) = Cardinality(names)
        /\ \A i, j \in live : i # j => Kept(d.blocks[i]) \cap Kept(d.blocks[j]) = {}
        /\ \A i \in live : Kept(d.blocks[i]) \cap d.dirBlocks = {}

\* What is in use is marked in the bitmaps.
IsMarked(d) ==
    LET live == Live(d)
    IN  /\ live \subseteq d.imap
        /\ \A i \in live : Kept(d.blocks[i]) \subseteq d.bmap
        /\ d.dirBlocks \subseteq d.bmap

\* The paths that a call is told something of that is not so, or may be after another
\* call: left in m_files with an inode that is not theirs.
Stale(c, d) ==
    LET About(r) == IF r.ino \in {NoIno, Root} THEN <<r.ino>> ELSE <<r.ino, r.cache.nodes[r.ino]>>
        IsStale(p, real) ==
            \/ p \in DOMAIN c.files /\ c.files[p] # real.ino
            \/ About(Resolve(c, d, p)) # About(real)
    IN  {p \in Paths : IsStale(p, Walked(NewCache, d, p))}

\* Exploration ends with damage, and where a second trouble joins the first: several
\* paths answered wrongly, or one of them, or a stream, on a device with wrong bitmaps.
OneTrouble ==
    LET stale == Stale(cache, disk)
    IN  /\ IsSound(disk)
        /\ Cardinality(stale) <= 1
        /\ stale # {} => IsMarked(disk) /\ ~stream.open
        /\ IsMarked(disk) \/ ~stream.open

\* A stream whose bitmap of blocks is no longer that of the device
StreamIsStale == stream.open /\ stream.ready /\ stream.bmap # disk.bmap

\* Two names come to share an inode, or two files a block, only when something in use
\* was not marked, by a path that the caches answer wrongly, or by a stream that ends
\* after its name was given away; and what is in use is left unmarked only at the end
\* of a stream that made its file (ensureOpen marks no inode) or by one whose bitmap
\* had grown old.
OnlyStreamsDamage ==
    [][/\ IsSound(disk) => \/ IsSound(disk')
                           \/ ~IsMarked(disk)
                           \/ {last'.path, last'.dest} \cap Stale(cache, disk) # {}
                           \/ (last'.call = "close" /\ stream.link)
       /\ IsMarked(disk) => \/ IsMarked(disk')
                            \/ (last'.call = "close" /\ stream.link)
                            \/ StreamIsStale]_vars

\* The caches come to answer wrongly only by a call that failed, by a directory that
\* was renamed with what is in it, by a path they answered wrongly before, and while a
\* stream is open.
StaleOnlyKnowingly ==
    [][\/ Stale(cache', disk') \subseteq Stale(cache, disk)
       \/ last'.threw
       \/ stream.open
       \/ {last'.path, last'.dest} \cap Stale(cache, disk) # {}
       \/ (last'.call = "rename" /\ \E e \in Reached(disk) : e.name = Base(last'.path) /\ disk.kind[e.ino] = "dir")]_vars

\* The entry of a path on the device
EntryAt(d, p) ==
    {e \in d.entries : e.name = Base(p) /\ e.dir = Walked(NewCache, d, Parent(p)).ino}

Named(d, p) == IF p = <<>> THEN {} ELSE EntryAt(d, p)

NamesGoKnowingly(gone) ==
    LET into == Resolve(cache, disk, Parent(last'.dest)).ino
        hidden == {i \in DOMAIN cache.dirs : DOMAIN cache.dirs[i] = {} /\ EntriesOf(disk, i) # {}}
    IN  \/ gone \subseteq Named(disk, last'.dest)
        \/ {last'.path, last'.dest, Parent(last'.dest)} \cap Stale(cache, disk) # {}
        \/ gone \subseteq Named(disk, last'.path) \cup Named(disk, last'.dest) /\ ~last'.threw
        \/ last'.call = "rmdir" /\ hidden # {}
        \/ last'.call = "rename" /\ (Parent(last'.dest) = last'.path \/ IsFull(disk, into))

\* A name goes only by a call that names it and, if it throws, may overwrite it; with a
\* directory that is removed because the caches show it as empty; and by a rename, into
\* the directory itself, or into one without room, which takes the old name before it
\* sees that (renameFileThrowsUnchecked reads no bitmaps).  The size and the blocks of a
\* file that stays are changed by nothing but a call that names it and the stream that
\* has it, if what is in use was marked and the caches were right.
OthersKept ==
    [][/\ NamesGoKnowingly(Reached(disk) \ Reached(disk'))
       /\ IsMarked(disk) /\ Stale(cache, disk) = {} =>
            \A e \in Reached(disk) \cap Reached(disk') :
                \/ disk'.size[e.ino] = disk.size[e.ino] /\ disk'.blocks[e.ino] = disk.blocks[e.ino]
                \/ e \in Named(disk, last'.path) \cup Named(disk, last'.dest)
                \/ (stream.open /\ stream.ino = e.ino)]_vars
===============================================================================
