---------------------------- MODULE Fat32Clusters -----------------------------
(***************************************************************************)
(* The clusters of a FAT32 volume: the allocation table in memory and on   *)
(* the device (Fat32ClusterManager), and what the volume and its streams   *)
(* do to it when they write, remove, extend and append.                    *)
(*                                                                         *)
(* Lengths are counted in whole clusters.  list remembers, for every file  *)
(* and directory, the clusters its bytes were put in.  Everything is in    *)
(* the root directory and has one entry there, the one written last: names *)
(* and slots are left out, but for whether a slot is left.  The table has  *)
(* an entry for every cluster of the device and for no other.  A volume is *)
(* used by one thread: a call is one step.                                 *)
(***************************************************************************)
EXTENDS Integers, Sequences, FiniteSets

CONSTANTS
    Entries,      \* m_fatEntries
    Files,        \* regular files
    Directories,  \* directories
    Root,         \* the root directory, in cluster 2 of a new volume
    MaxBlocks,    \* bound on the clusters one call asks for and on those of a file
    Headroom      \* clusters an append reserves beyond its need

Least(S) == CHOOSE x \in S : \A y \in S : x <= y

EndOfChain == 268435448    \* 0x0FFFFFF8

Clusters == 2..(Entries - 1)

Cell == Clusters \cup {0, EndOfChain}

Owners == Files \cup Directories

ASSUME ClusterAssumption ==
    /\ Entries \in 3..EndOfChain
    /\ Root \in Directories
    /\ Files \cap Directories = {}
    /\ MaxBlocks \in Nat \ {0}
    /\ Headroom \in Nat

\* What the cluster manager and the device hold: m_entries, the entries to be
\* written (m_dirtyClusters), the table on the device, m_allocHint.
Volumes == [fat : [Clusters -> Cell], dirty : SUBSET Clusters,
            disk : [Clusters -> Cell], hint : 2..Entries]

VARIABLES
    vol,   \* the volume, one of Volumes
    list,  \* the clusters of each file and directory, as the index of the volume has them
    entry, \* the first cluster in the directory entry on the device, 0 when it has none
    open,  \* files that a stream is rewriting
    last   \* the last call: its name, its owner, and whether it threw

vars == <<vol, list, entry, open, last>>

Calls == {"none", "write", "respell", "remove", "create", "rewrite", "continue", "append",
          "close", "mount"}

TypeOK ==
    /\ vol \in Volumes
    /\ list \in [Owners -> Seq(Clusters)]
    /\ entry \in [Owners -> Clusters \cup {0}]
    /\ open \subseteq Files
    /\ last \in [call : Calls, owner : Owners, threw : BOOLEAN]

-------------------------------------------------------------------------------
(* The cluster manager.                                                    *)

SetKeepingFreed(v, g) ==                 \* mutant of Set
    [v EXCEPT !.fat = g, !.dirty = v.dirty \cup {c \in Clusters : g[c] \notin {0, v.fat[c]}}]

\* set, of several entries: g is the table they leave.
Set(v, g) ==
    IF g = v.fat THEN v
    ELSE [v EXCEPT !.fat = g, !.dirty = v.dirty \cup {c \in Clusters : g[c] # v.fat[c]}]

FlushedFirstRun(v) ==                    \* mutant of Flushed
    LET run == {c \in v.dirty : \A b \in v.dirty : b < c => (b + 1) \in v.dirty}
    IN  [v EXCEPT !.disk = [c \in Clusters |-> IF c \in run THEN v.fat[c] ELSE v.disk[c]],
                  !.dirty = {}]

\* flushDirty
Flushed(v) ==
    [v EXCEPT !.disk = [c \in Clusters |-> IF c \in v.dirty THEN v.fat[c] ELSE v.disk[c]],
              !.dirty = {}]

\* setAllocHint
Hinted(v, c) == IF c \in Clusters THEN [v EXCEPT !.hint = c] ELSE v

Free(v) == {c \in Clusters : v.fat[c] = 0}

Begin(v) == IF v.hint < Entries THEN v.hint ELSE Entries - 1

\* The free clusters in the order in which findFreeFromHint returns them.
Upcoming(v) ==
    LET Rank(c) == IF c >= Begin(v) THEN c ELSE c + Entries
        free == Free(v)
    IN  [n \in 1..Cardinality(free) |->
            CHOOSE c \in free : Cardinality({d \in free : Rank(d) <= Rank(c)}) = n]

HintAfter(v, c) == [v EXCEPT !.hint = IF c + 1 < Entries THEN c + 1 ELSE 2]

\* findContiguousFreeRun: up from the hint, then below it; 0 when there is none.
FindRun(v, n) ==
    LET Runs(lo, hi) == {c \in lo..(hi - n) : \A i \in 0..(n - 1) : v.fat[c + i] = 0}
        up == Runs(Begin(v), Entries)
        down == Runs(2, Begin(v))
    IN  IF up # {} THEN Least(up) ELSE IF down # {} THEN Least(down) ELSE 0

AfterRun(v, run, n) == IF run = 0 THEN v ELSE [v EXCEPT !.hint = run + n]

-------------------------------------------------------------------------------
(* Chains.                                                                 *)

Members(s) == {s[i] : i \in DOMAIN s}

\* What the table has behind the clusters s of a chain that begins with c.
Then(fat, c, s) == IF s = <<>> THEN c ELSE fat[s[Len(s)]]

\* The clusters from c on, as the table links them; of a chain that does not end,
\* one more than there are clusters.
Chain(fat, c) ==
    LET follow[n \in 0..(Entries - 1)] ==
            [s \in Seq(Clusters) |-> IF n = 0 \/ Then(fat, c, s) \notin Clusters THEN s
                                     ELSE follow[n - 1][Append(s, Then(fat, c, s))]]
    IN  follow[Entries - 1][<<>>]

\* readClusterChain refuses a chain with a loop.
Loops(fat, c) == Len(Chain(fat, c)) > Entries - 2

\* freeClusterChain, of the chain that begins with the first cluster of s.
Freed(v, s) ==
    IF s = <<>> THEN v
    ELSE LET gone == Members(Chain(v.fat, s[1]))
         IN  Set(v, [c \in Clusters |-> IF c \in gone THEN 0 ELSE v.fat[c]])

\* The entries of the clusters in s link them in that order.
Linked(v, s) ==
    Set(v, [c \in Clusters |->
               IF c \in Members(s)
               THEN LET i == CHOOSE i \in DOMAIN s : s[i] = c
                    IN  IF i < Len(s) THEN s[i + 1] ELSE EndOfChain
               ELSE v.fat[c]])

\* n calls of findFreeFromHint and the links between what they return; with
\* fewer clusters than that, those there are.
Picked(v, n) ==
    LET up == Upcoming(v)
        s == SubSeq(up, 1, IF n < Len(up) THEN n ELSE Len(up))
    IN  [vol |-> IF s = <<>> THEN v ELSE Linked(HintAfter(v, s[Len(s)]), s), list |-> s]

\* allocateCluster, to be linked behind tail.
Extended(v, tail) ==
    LET p == Picked(v, 1)
        c == p.list[1]
    IN  Set(p.vol, [p.vol.fat EXCEPT ![tail] = c])

Run(c, n) == [i \in 1..n |-> c + i - 1]

-------------------------------------------------------------------------------
(* reallocClusters: n clusters in the place of the list old.  No caller    *)
(* asks for fewer than it has.                                             *)

Done(v, s) == [vol |-> v, list |-> s, threw |-> FALSE]

Failed(v, s) == [vol |-> v, list |-> s, threw |-> TRUE]

BehindFirstOnly(v, old, n) ==            \* mutant of Behind
    LET next == old[Len(old)] + 1
    IN  IF old[Len(old)] + n - Len(old) >= Entries THEN "outside"
        ELSE IF v.fat[next] = 0 THEN "free" ELSE "taken"

\* The entries behind the last cluster of old, up to the first that is taken;
\* the table may end before.
Behind(v, old, n) ==
    LET tail == old[Len(old)]
        stops == {i \in 1..(n - Len(old)) : tail + i >= Entries \/ v.fat[tail + i] # 0}
    IN  IF stops = {} THEN "free" ELSE IF tail + Least(stops) >= Entries THEN "outside" ELSE "taken"

\* Linking the tail on leaves the links before it alone.
GrownInPlace(v, old, n) ==
    LET tail == old[Len(old)]
    IN  Done(Flushed(Linked(v, <<tail>> \o Run(tail + 1, n - Len(old)))),
             old \o Run(tail + 1, n - Len(old)))

\* allocateClusterChain, when there is no run of n
Scattered(v, old, n) ==
    LET p == Picked(v, n)
    IN  IF Len(p.list) < n THEN Failed(Freed(p.vol, p.list), old)
        ELSE Done(Flushed(Freed(p.vol, old)), p.list)

\* A run was found; the search that fetches it starts behind it and may wrap.
Moved(v, old, n) ==
    LET run == FindRun(v, n)
        w == AfterRun(v, run, n)
    IN  IF run = 0 THEN Failed(w, old)
        ELSE Done(Flushed(Freed(Linked(w, Run(run, n)), old)), Run(run, n))

Grown(v, old, n) ==
    LET run == FindRun(v, n)
    IN  IF run # 0 THEN Moved(AfterRun(v, run, n), old, n) ELSE Scattered(v, old, n)

Realloc(v, old, n) ==
    IF n = Len(old) THEN Done(v, old)
    ELSE IF old = <<>> \/ Behind(v, old, n) = "taken" THEN Grown(v, old, n)
    ELSE IF Behind(v, old, n) = "free" THEN GrownInPlace(v, old, n)
    ELSE Failed(v, old)

-------------------------------------------------------------------------------
(* Calls on the volume.                                                    *)

Init ==
    /\ vol = [fat |-> [c \in Clusters |-> IF c = 2 THEN EndOfChain ELSE 0], dirty |-> {},
              disk |-> [c \in Clusters |-> IF c = 2 THEN EndOfChain ELSE 0], hint |-> 2]
    /\ list = [o \in Owners |-> IF o = Root THEN <<2>> ELSE <<>>]
    /\ entry = [o \in Owners |-> IF o = Root THEN 2 ELSE 0]
    /\ open = {}
    /\ last = [call |-> "none", owner |-> Root, threw |-> FALSE]

First(s) == IF s = <<>> THEN 0 ELSE s[1]

Called(call, o, threw) == last' = [call |-> call, owner |-> o, threw |-> threw]

\* writeDirectoryEntryToDisk: reads the chain of the root directory, and makes
\* it longer when no slot is left.
Placed(v, full) ==
    LET chain == Chain(v.fat, 2)
    IN  IF Loops(v.fat, 2) \/ (full /\ Free(v) = {}) THEN Failed(v, list[Root])
        ELSE IF full THEN Done(Flushed(Extended(v, chain[Len(chain)])), Append(chain, Upcoming(v)[1]))
        ELSE Done(v, list[Root])

\* The entry of o is to name the first cluster of s: createFileEntry and
\* createDirectoryEntry update the index first.
Entered(call, o, v, s, full) ==
    LET p == Placed(v, full)
    IN  /\ vol' = p.vol
        /\ list' = [list EXCEPT ![o] = s, ![Root] = p.list]
        /\ entry' = IF p.threw THEN entry ELSE [entry EXCEPT ![o] = First(s)]
        /\ Called(call, o, p.threw)

\* writeFileUnchecked.  The old chain is freed when the path is spelled like the
\* key of the index, whether or not there will be room for the new one.
WriteFile(o, n, exact, full) ==
    LET v == IF exact THEN Freed(vol, list[o]) ELSE vol
        p == Picked(v, n)
        call == IF exact THEN "write" ELSE "respell"
    IN  /\ o \in Files \ open
        /\ IF Len(p.list) < n
           THEN /\ vol' = Freed(p.vol, p.list)
                /\ Called(call, o, TRUE)
                /\ UNCHANGED <<list, entry>>
           ELSE Entered(call, o, p.vol, p.list, full)
        /\ UNCHANGED open

\* removeFileThrowsUnchecked, removeDirectoryThrowsUnchecked
Remove(o) ==
    /\ o \in Owners \ (open \cup {Root})
    /\ list[o] # <<>>
    /\ vol' = Freed(vol, list[o])
    /\ list' = [list EXCEPT ![o] = <<>>]
    /\ entry' = [entry EXCEPT ![o] = 0]
    /\ Called("remove", o, FALSE)
    /\ UNCHANGED open

\* createDirectoryThrowsUnchecked
CreateDirectory(o, full) ==
    LET p == Picked(vol, 1)
    IN  /\ o \in Directories
        /\ list[o] = <<>>
        /\ IF p.list = <<>>
           THEN Called("create", o, TRUE) /\ UNCHANGED <<vol, list, entry>>
           ELSE Entered("create", o, p.vol, p.list, full)
        /\ UNCHANGED open

-------------------------------------------------------------------------------
(* Streams (Fat32FileOutputStream).                                        *)

\* The first flush of a stream that does not append: its list of clusters is
\* empty, whatever the file has.  A file without clusters may be a new one.
Rewrite(o, n, full) ==
    LET r == Realloc(vol, <<>>, n)
    IN  /\ o \in Files \ open
        /\ n > 0
        /\ full => entry[o] = 0
        /\ IF r.threw
           THEN /\ vol' = r.vol
                /\ Called("rewrite", o, TRUE)
                /\ UNCHANGED <<list, entry, open>>
           ELSE LET p == IF entry[o] = 0 THEN Placed(r.vol, full) ELSE Done(r.vol, list[Root])
                IN  /\ vol' = IF p.threw THEN p.vol ELSE Flushed(p.vol)
                    /\ list' = [list EXCEPT ![o] = r.list, ![Root] = p.list]
                    /\ entry' = IF p.threw THEN entry ELSE [entry EXCEPT ![o] = First(r.list)]
                    /\ open' = IF p.threw THEN open ELSE open \cup {o}
                    /\ Called("rewrite", o, p.threw)

\* A flush that puts what was grown, or what it was, into the entry.
Kept(call, o, r) ==
    /\ vol' = IF r.threw THEN r.vol ELSE Flushed(r.vol)
    /\ list' = IF r.threw THEN list ELSE [list EXCEPT ![o] = r.list]
    /\ entry' = IF r.threw THEN entry ELSE [entry EXCEPT ![o] = First(r.list)]
    /\ Called(call, o, r.threw)

\* Another flush of that stream.
Continue(o, n) ==
    /\ o \in open
    /\ n >= Len(list[o])
    /\ Kept("continue", o, Realloc(vol, list[o], n))
    /\ UNCHANGED open

\* The stream is destroyed, or closed with nothing left to flush.
Close(o) ==
    /\ o \in open
    /\ open' = open \ {o}
    /\ Called("close", o, FALSE)
    /\ UNCHANGED <<vol, list, entry>>

\* A stream that appends n clusters to a file of size clusters, of which an
\* earlier append may have reserved more.
AppendFile(o, size, n) ==
    LET old == Chain(vol.fat, First(list[o]))
        v == IF old = <<>> THEN vol ELSE Hinted(vol, old[Len(old)] + 1)
    IN  /\ o \in Files \ open
        /\ ~Loops(vol.fat, First(list[o]))
        /\ IF old = <<>> THEN size = 0 ELSE size \in (Len(old) - Headroom)..Len(old) \ {0}
        /\ n > 0
        /\ Kept("append", o, IF Len(old) >= size + n + Headroom THEN Done(v, old)
                             ELSE Realloc(v, old, size + n + Headroom))
        /\ UNCHANGED open

\* The process ends, and another one opens the volume.
Mount ==
    /\ vol' = [fat |-> vol.disk, dirty |-> {}, disk |-> vol.disk, hint |-> 2]
    /\ list' = [o \in Owners |-> Chain(vol.disk, entry[o])]
    /\ open' = {}
    /\ Called("mount", Root, FALSE)
    /\ UNCHANGED entry

Next ==
    \/ \E o \in Files, n \in 0..MaxBlocks, exact, full \in BOOLEAN : WriteFile(o, n, exact, full)
    \/ \E o \in Owners : Remove(o)
    \/ \E o \in Directories, full \in BOOLEAN : CreateDirectory(o, full)
    \/ \E o \in Files, n \in 1..MaxBlocks, full \in BOOLEAN : Rewrite(o, n, full)
    \/ \E o \in Files, n \in 1..MaxBlocks : Continue(o, n)
    \/ \E o \in Files : Close(o)
    \/ \E o \in Files, size \in 0..MaxBlocks, n \in 1..MaxBlocks : AppendFile(o, size, n)
    \/ Mount

Spec == Init /\ [][Next]_vars

-------------------------------------------------------------------------------
(* Properties.                                                             *)

\* Every entry that differs from the device's is among those to be written: a
\* flush leaves nothing behind.
DirtyCovers == \A c \in Clusters : vol.fat[c] # vol.disk[c] => c \in vol.dirty

\* Every file and directory is read back from the table as it was put there,
\* and no cluster belongs to two of them.
Sound ==
    /\ \A o \in Owners :
          /\ Len(list[o]) <= Entries - 2
          /\ Members(list[o]) \cap Free(vol) = {}
          /\ Chain(vol.fat, First(list[o])) = list[o]
    /\ \A o, p \in Owners : o # p => Members(list[o]) \cap Members(list[p]) = {}

\* The device holds what the memory holds.
Synced == vol.dirty = {} /\ \A o \in Owners : entry[o] = First(list[o])

\* Allocated clusters that no file or directory has.
Lost == {c \in Clusters \ Free(vol) : \A o \in Owners : c \notin Members(list[o])}

\* Files are damaged, those of other paths included, only by an overwrite that
\* finds no room after it freed the old clusters (writeFileUnchecked), and by the
\* end of a process that had not written its table or its entries.  Clusters are
\* lost only by a stream that rewrites a file, which never frees what the file had,
\* by an overwrite through another spelling of the path, by a new entry for which
\* the root directory has no room, and by the end of such a process: growing,
\* moving, overwriting and removing lose none.
OnlyKnownStepsDamage ==
    [][Sound =>
        /\ \/ Sound'
           \/ last'.call = "write" /\ last'.threw
           \/ last'.call = "mount" /\ ~Synced
        /\ \/ Lost' = {} \/ Lost # {}
           \/ last'.call \in {"rewrite", "respell"} /\ list[last'.owner] # <<>>
           \/ last'.call \in {"create", "rewrite", "respell", "write"} /\ last'.threw
           \/ last'.call = "mount" /\ ~Synced]_vars

\* A file that a stream flushed is read back after a restart, whatever was
\* waiting to be written before: the flush writes the whole of it.
FlushedFilesSurvive ==
    [][~last'.threw /\ last'.call \in {"rewrite", "continue", "append"} /\ Sound
       => Chain(vol'.disk, entry'[last'.owner]) = list'[last'.owner]]_vars
===============================================================================
