------------------------------ MODULE ExfatVolume ------------------------------
(***************************************************************************)
(* An exFAT volume (ExfatVolume, ExfatClusterManager and the streams):     *)
(* the allocation table and bitmap in memory and on the device, files and  *)
(* directories made cluster by cluster, the slots their entries are        *)
(* written to, and the index that is to find them again.                   *)
(*                                                                         *)
(* Everything is made in the root directory: a path below another one is   *)
(* refused, as every path but the root is unknown to the index.  A call is *)
(* as many steps as it writes to the device, and the process may end       *)
(* between any two; the runs of table entries that one flush writes are    *)
(* one step, and so are the three slots of an entry.                       *)
(***************************************************************************)
EXTENDS Integers, Sequences, FiniteSets
LOCAL INSTANCE Functions

CONSTANTS Names,        \* names of files and directories
          LastCluster,  \* the heap is 2..LastCluster, and the device ends with it
          PerCluster,   \* slots of a cluster, three at least
          MaxBlocks,    \* at most so many clusters in a file
          Images,       \* devices to mount: [fat, bitmap, heap, root]
          NoName

VARIABLES mem,     \* ExfatClusterManager: the table, the bitmap, m_allocHint
          dev,     \* the device: the table, the bitmap, the slots of every cluster
          root,    \* m_rootCluster
          index,   \* m_dirents without the root, and whether the root was parsed
          stream,  \* the stream that is open: its name and the clusters it wrote so far
          job,     \* the call under way
          last     \* how the last call ended

vars == <<mem, dev, root, index, stream, job, last>>

Clusters == 2..LastCluster

EndOfChain == 268435448    \* 0x0FFFFFF8

Least(S) == CHOOSE x \in S : \A y \in S : x <= y

-------------------------------------------------------------------------------
(* Slots.  Their type is the first byte; no byte of a file looks like one. *)

Zero == 0
Deleted == 229              \* 0xE5
AllocBitmap == 129          \* 0x81
FileType == 133             \* 0x85
StreamType == 192           \* 0xC0
NameType == 193             \* 0xC1
Bytes == 1

Slot(type) == [type |-> type, name |-> NoName, first |-> 0, blocks |-> 0]

Filled(type) == [i \in 1..PerCluster |-> Slot(type)]

\* createFileEntry, createDirectoryEntry: the three slots of a file or directory.
\* blocks stands for the size; that of a directory, 0 on the device, is its cluster.
EntrySet(n, first, blocks) ==
    <<Slot(FileType), [type |-> StreamType, name |-> n, first |-> first, blocks |-> blocks],
      Slot(NameType)>>

Required == 3

\* clusterToOffset, counted in slots, and what lies at an offset
Offset(c, s) == (c - 2) * PerCluster + s

ClusterAt(o) == 2 + ((o - 1) \div PerCluster)

SlotAt(o) == ((o - 1) % PerCluster) + 1

-------------------------------------------------------------------------------
(* The cluster manager.                                                    *)

FreeClusters(m) == Clusters \ m.bitmap

\* findFreeFromHint: up from the hint, then below it
NextFree(m) ==
    LET ahead == {c \in FreeClusters(m) : c >= m.hint}
    IN  Least(IF ahead # {} THEN ahead ELSE FreeClusters(m))

AllocatedUnlinked(m, prev) ==            \* mutant of Allocated
    LET c == NextFree(m)
    IN  [fat |-> [m.fat EXCEPT ![c] = EndOfChain], bitmap |-> m.bitmap \cup {c},
         hint |-> IF c < LastCluster THEN c + 1 ELSE 2]

\* allocateCluster.  The hint stays at 2 after the last cluster: findFreeFromHint set it.
Allocated(m, prev) ==
    LET c == NextFree(m)
    IN  [fat |-> [d \in Clusters |-> IF d = c THEN EndOfChain ELSE IF d = prev THEN c ELSE m.fat[d]],
         bitmap |-> m.bitmap \cup {c},
         hint |-> IF c < LastCluster THEN c + 1 ELSE 2]

\* readClusterChain, of a table without loops
Chain(fat, first) ==
    LET follow[s \in Seq(Clusters)] ==
            LET next == IF s = <<>> THEN first ELSE fat[s[Len(s)]]
            IN  IF next \notin Clusters \/ Len(s) >= LastCluster THEN s ELSE follow[Append(s, next)]
    IN  follow[<<>>]

\* freeClusterChain
Freed(m, first) ==
    LET gone == Range(Chain(m.fat, first))
    IN  [m EXCEPT !.fat = [c \in Clusters |-> IF c \in gone THEN 0 ELSE m.fat[c]],
                  !.bitmap = @ \ gone]

\* flushDirty writes the table first.  Until FlushBitmap the call waits.
Flushed(m) == [dev EXCEPT !.fat = m.fat]

Settled == dev.bitmap = mem.bitmap

-------------------------------------------------------------------------------
(* Where the slots of an entry go (writeDirectoryEntries).                 *)

Directory(m) == Chain(m.fat, root)

\* The offsets of the slots of the directory, in the order of its chain.
Offsets(chain) == [i \in 1..(Len(chain) * PerCluster) |-> Offset(chain[ClusterAt(i) - 1], SlotAt(i))]

TypeAt(o) == dev.heap[ClusterAt(o)][SlotAt(o)].type

\* Positions in the directory whose slots begin with zero: the first ends it.
Empties(dir) == {i \in DOMAIN dir : TypeAt(dir[i]) = Zero}

\* emptyRunLen: in the cluster of the marker and in every later one, the zeros
\* before anything else.
Room(dir) ==
    LET marker == Least(Empties(dir))
        Start(i) == IF (i - 1) \div PerCluster = (marker - 1) \div PerCluster THEN marker
                    ELSE i - ((i - 1) % PerCluster)
    IN  Cardinality({i \in marker..Len(dir) : Start(i)..i \subseteq Empties(dir)})

\* Runs of deleted slots before the marker.
DeletedRuns(dir) ==
    {i \in DOMAIN dir : \A k \in i..(i + Required - 1) :
        k \in DOMAIN dir /\ TypeAt(dir[k]) = Deleted /\ \A j \in 1..k : j \notin Empties(dir)}

\* The offset to write at, 0 when the directory is to be extended first.
Spot(dir) ==
    IF Empties(dir) # {} /\ Room(dir) >= Required THEN dir[Least(Empties(dir))]
    ELSE IF DeletedRuns(dir) # {} THEN dir[Least(DeletedRuns(dir))] ELSE 0

\* The slots are written one behind the other on the device, not along the chain.
Astray(dir, o) == \A i \in 1..(Len(dir) - 2) : SubSeq(dir, i, i + 2) # <<o, o + 1, o + 2>>

\* The heap after that; the device refuses what is behind its end.
WrittenAt(heap, o, slots) ==
    [c \in Clusters |-> [s \in 1..PerCluster |->
        LET k == Offset(c, s) - o + 1 IN IF k \in DOMAIN slots THEN slots[k] ELSE heap[c][s]]]

-------------------------------------------------------------------------------
(* The index.                                                              *)

\* parseDirectoryCluster compares entry[0] & 0x7F with the types.
Recognised(dir) ==
    {n \in Names : \E i \in DOMAIN dir :
        LET s == dev.heap[ClusterAt(dir[i])][SlotAt(dir[i])]
        IN  s.name = n /\ i > 1 /\ TypeAt(dir[i - 1]) % 128 = FileType /\ s.type % 128 = StreamType}

\* ensureDirectoryParsed, of the root
Parsed(idx) ==
    IF idx.parsed THEN idx
    ELSE [entries |-> idx.entries \cup Recognised(Offsets(Directory(mem))), parsed |-> TRUE]

\* ensurePathIndexed
Indexed(idx, n) == n \in Parsed(idx).entries

-------------------------------------------------------------------------------

NoStream == [name |-> NoName, blocks |-> 0]

Idle == [call |-> "none", name |-> NoName, need |-> 0, list |-> <<>>, step |-> "done"]

NewIndex == [entries |-> {}, parsed |-> FALSE]

\* parseBootSector: the bitmap is found by its entry, before the end of the first
\* cluster of the root.
Mountable(heap, r) ==
    \E s \in 1..PerCluster : heap[r][s].type = AllocBitmap /\ \A t \in 1..s : heap[r][t].type # Zero

Init ==
    /\ \E image \in Images :
          /\ dev = [fat |-> image.fat, bitmap |-> image.bitmap, heap |-> image.heap]
          /\ mem = [fat |-> image.fat, bitmap |-> image.bitmap, hint |-> 2]
          /\ root = image.root
    /\ index = NewIndex
    /\ stream = NoStream
    /\ job = Idle
    /\ last = [call |-> "none", name |-> NoName, threw |-> FALSE, astray |-> FALSE, found |-> FALSE]

Ended(call, threw, astray) ==
    /\ job' = Idle
    /\ last' = [call |-> call, name |-> job.name, threw |-> threw, astray |-> astray, found |-> FALSE]

\* writeFileUnchecked of a path in the root
WriteFile(n, blocks) ==
    /\ job = Idle
    /\ job' = [call |-> "write", name |-> n, need |-> blocks, list |-> <<>>,
               step |-> IF blocks = 0 THEN "entry" ELSE "data"]
    /\ UNCHANGED <<mem, dev, root, index, stream, last>>

\* createDirectoryThrowsUnchecked
CreateDirectory(n) ==
    /\ job = Idle
    /\ ~Indexed(index, n)
    /\ index' = Parsed(index)
    /\ job' = [call |-> "mkdir", name |-> n, need |-> 1, list |-> <<>>, step |-> "data"]
    /\ UNCHANGED <<mem, dev, root, stream, last>>

\* exists, isFile, isDirectory
Lookup(n) ==
    /\ job = Idle
    /\ index' = Parsed(index)
    /\ last' = [call |-> "lookup", name |-> n, threw |-> FALSE, astray |-> FALSE, found |-> Indexed(index, n)]
    /\ UNCHANGED <<mem, dev, root, stream, job>>

\* removeFile, removeDirectory, copyFile, moveFile, renameFile of a path that is
\* not in the index: no path but the root ever is, since no type is recognised.
Refuse(n) ==
    /\ job = Idle
    /\ ~Indexed(index, n)
    /\ index' = Parsed(index)
    /\ last' = [call |-> "refuse", name |-> n, threw |-> TRUE, astray |-> FALSE, found |-> FALSE]
    /\ UNCHANGED <<mem, dev, root, stream, job>>

\* An output stream: nothing is written before its first flush.
OpenStream(n) ==
    /\ job = Idle
    /\ stream = NoStream
    /\ stream' = [name |-> n, blocks |-> 0]
    /\ UNCHANGED <<mem, dev, root, index, job, last>>

\* flushRewriteAll: all the stream has, and one cluster more, is written anew.
FlushStream ==
    /\ job = Idle
    /\ stream # NoStream
    /\ stream.blocks < MaxBlocks
    /\ stream' = [stream EXCEPT !.blocks = @ + 1]
    /\ job' = [call |-> "flush", name |-> stream.name, need |-> stream.blocks + 1, list |-> <<>>,
               step |-> "data"]
    /\ UNCHANGED <<mem, dev, root, index, last>>

CloseStream ==
    /\ job = Idle
    /\ stream # NoStream
    /\ stream' = NoStream
    /\ UNCHANGED <<mem, dev, root, index, job, last>>

-------------------------------------------------------------------------------
(* The steps of a call.                                                    *)

LastOf(list) == IF list = <<>> THEN 0 ELSE list[Len(list)]

\* The next cluster of the data and, its bitmap written, the bytes: both in one
\* step, for a cluster that was not written is as lost as one that was.
AllocateData ==
    LET c == NextFree(mem)
        bytes == Filled(IF job.call = "mkdir" THEN Zero ELSE Bytes)
    IN  /\ job.step = "data"
        /\ Settled
        /\ FreeClusters(mem) # {}
        /\ mem' = Allocated(mem, LastOf(job.list))
        /\ dev' = [Flushed(mem') EXCEPT !.heap[c] = bytes]
        /\ job' = [job EXCEPT !.list = Append(@, c),
                              !.step = IF Len(job.list) + 1 = job.need THEN "entry" ELSE "data"]
        /\ UNCHANGED <<root, index, stream, last>>

\* flushDirty, after the table.
FlushBitmap ==
    /\ ~Settled
    /\ dev' = [dev EXCEPT !.bitmap = mem.bitmap]
    /\ UNCHANGED <<mem, root, index, stream, job, last>>

\* No space left: what was allocated for the data is given back.
DataFails ==
    /\ job.step = "data"
    /\ Settled
    /\ FreeClusters(mem) = {}
    /\ mem' = Freed(mem, IF job.list = <<>> THEN 0 ELSE job.list[1])
    /\ dev' = Flushed(mem')
    /\ job' = [job EXCEPT !.step = "free"]
    /\ UNCHANGED <<root, index, stream, last>>

GaveBack ==
    /\ job.step = "free"
    /\ Settled
    /\ Ended(job.call, TRUE, FALSE)
    /\ UNCHANGED <<mem, dev, root, index, stream>>

\* The directory is full, or its empty slots are too few: another cluster.
Extend ==
    LET dir == Directory(mem)
        c == NextFree(mem)
    IN  /\ job.step = "entry"
        /\ Settled
        /\ Spot(Offsets(dir)) = 0
        /\ FreeClusters(mem) # {}
        /\ mem' = Allocated(mem, dir[Len(dir)])
        /\ dev' = Flushed(mem')
        /\ job' = [job EXCEPT !.step = "blank"]
        /\ UNCHANGED <<root, index, stream, last>>

BlankNew ==
    LET dir == Directory(mem)
    IN  /\ job.step = "blank"
        /\ Settled
        /\ dev' = [dev EXCEPT !.heap[dir[Len(dir)]] = Filled(Zero)]
        /\ job' = [job EXCEPT !.step = "entry"]
        /\ UNCHANGED <<mem, root, index, stream, last>>

\* There is none: nobody gives the clusters of the data back.
EntryFails ==
    /\ job.step = "entry"
    /\ Settled
    /\ Spot(Offsets(Directory(mem))) = 0
    /\ FreeClusters(mem) = {}
    /\ Ended(job.call, TRUE, FALSE)
    /\ UNCHANGED <<mem, dev, root, index, stream>>

\* createFileEntry and invalidateCache: the index forgets the path at once.
Enter ==
    LET dir == Offsets(Directory(mem))
        o == Spot(dir)
        fits == o + Required - 1 <= Offset(LastCluster, PerCluster)
        first == IF job.list = <<>> THEN 0 ELSE job.list[1]
    IN  /\ job.step = "entry"
        /\ Settled
        /\ o # 0
        /\ dev' = [dev EXCEPT !.heap = WrittenAt(@, o, EntrySet(job.name, first, job.need))]
        /\ index' = IF fits THEN [index EXCEPT !.entries = @ \ {job.name}] ELSE index
        /\ Ended(job.call, ~fits, Astray(dir, o))
        /\ UNCHANGED <<mem, root, stream>>

\* The process ends, and another mounts the volume.
Crash ==
    /\ Mountable(dev.heap, root)
    /\ mem' = [fat |-> dev.fat, bitmap |-> dev.bitmap, hint |-> 2]
    /\ index' = NewIndex
    /\ stream' = NoStream
    /\ Ended("crash", FALSE, FALSE)
    /\ UNCHANGED <<dev, root>>

Next ==
    \/ \E n \in Names, b \in 0..MaxBlocks : WriteFile(n, b)
    \/ \E n \in Names : CreateDirectory(n)
    \/ \E n \in Names : Lookup(n)
    \/ \E n \in Names : Refuse(n)
    \/ \E n \in Names : OpenStream(n)
    \/ FlushStream
    \/ CloseStream
    \/ AllocateData
    \/ FlushBitmap
    \/ DataFails
    \/ GaveBack
    \/ Extend
    \/ BlankNew
    \/ EntryFails
    \/ Enter
    \/ Crash

Spec == Init /\ [][Next]_vars

-------------------------------------------------------------------------------
(* Properties.                                                             *)

\* The files and directories that another reader finds in the root on the device.
Files ==
    LET dir == Offsets(Chain(dev.fat, root))
        at == {dev.heap[ClusterAt(dir[i])][SlotAt(dir[i])] : i \in DOMAIN dir}
    IN  {s \in at : s.type = StreamType}

OfFile(s) == Chain(dev.fat, s.first)

\* What they were given is still there, in clusters of their own that the bitmap
\* counts, and the volume can be mounted again.
Sound ==
    /\ Mountable(dev.heap, root)
    /\ \A s \in Files :
          /\ Len(OfFile(s)) = s.blocks
          /\ Range(OfFile(s)) \subseteq dev.bitmap \ Range(Chain(dev.fat, root))
          /\ \A c \in Range(OfFile(s)) : dev.heap[c] \in {Filled(Bytes), Filled(Zero)}
    /\ \A s, t \in Files : s # t => Range(OfFile(s)) \cap Range(OfFile(t)) = {}
    /\ Range(Chain(dev.fat, root)) \subseteq mem.bitmap \ Range(job.list)

\* Clusters that the bitmap counts and nothing has, the call under way included.
Lost ==
    mem.bitmap \ (UNION {Range(OfFile(s)) : s \in Files} \cup Range(job.list)
                  \cup Range(Chain(mem.fat, root)))

\* Files are damaged only by an entry that runs over the end of a directory cluster
\* (writeDirectoryEntries goes on in the next cluster of the device, not of the
\* chain), and by an end of the process between the table and the bitmap while the
\* directory is extended.
DamagedKnowingly ==
    Sound => \/ Sound'
             \/ last'.astray
             \/ last'.call = "crash" /\ job.step = "blank" /\ ~Settled

\* Clusters are lost only by a call that has its data and finds no room for the
\* entry, by an entry that went astray, and by the end of the process: a call that
\* finds no room for its data gives back what it took.
LostKnowingly ==
    \/ Lost' \subseteq Lost
    \/ last'.threw /\ job.step = "entry"
    \/ last'.astray
    \/ last'.call = "crash" /\ job # Idle

\* Nothing else damages a file or loses a cluster.
OnlyKnownStepsDamage == DamagedKnowingly /\ LostKnowingly
===============================================================================
