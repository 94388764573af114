-------------------------- MODULE Fat32ClustersProofs --------------------------
(***************************************************************************)
(* What a flush can rely on: for any table, files and calls, every entry   *)
(* that differs from the device's is marked, so that a flush writes all of *)
(* them.  Each operation of the cluster manager keeps the marks right, so  *)
(* every operation built from them does; no chain has to be followed for   *)
(* that, and no typing assumed.                                            *)
(*                                                                         *)
(* What the calls do to files.  A chain that ends comes by no cluster      *)
(* twice, so the table links a list (Holds) exactly when the list is read  *)
(* back from it.  A list depends on its own clusters only.  Hence one      *)
(* statement says what each operation does (Puts: the clusters of one list *)
(* are linked, they were free or in the list it replaces, whose others are *)
(* free now, and nothing else changes), and every call is one or two of    *)
(* them.  Searches matter only in that what they return is free and comes  *)
(* once.                                                                   *)
(***************************************************************************)
EXTENDS Fat32Clusters, FiniteSetTheorems, SequenceTheorems, WellFoundedInduction, TLAPS

\* A record of the right shape whose marks are right.
Covers(v) ==
    /\ v = [fat |-> v.fat, dirty |-> v.dirty, disk |-> v.disk, hint |-> v.hint]
    /\ \A c \in Clusters : v.fat[c] # v.disk[c] => c \in v.dirty

-------------------------------------------------------------------------------
(* The operations of the cluster manager.                                  *)

\* Entries that set changes are marked.
LEMMA SetCovers ==
    ASSUME NEW v, NEW g, Covers(v)
    PROVE  Covers(Set(v, g))
<1> DEFINE marked == v.dirty \cup {c \in Clusters : g[c] # v.fat[c]}
           w == [fat |-> g, dirty |-> marked, disk |-> v.disk, hint |-> v.hint]
<1>1. v = [fat |-> v.fat, dirty |-> v.dirty, disk |-> v.disk, hint |-> v.hint]
  BY DEF Covers
<1>2. CASE g = v.fat
  BY <1>2 DEF Set
<1>3. CASE g # v.fat
  <2>1. Set(v, g) = [v EXCEPT !.fat = g, !.dirty = marked]
    BY <1>3 DEF Set
  <2>2. Set(v, g) = w
    <3> HIDE DEF marked
    <3> QED BY <1>1, <2>1
  <2>3. \A c \in Clusters : g[c] # v.disk[c] => c \in marked
    BY DEF Covers
  <2> HIDE DEF marked
  <2> QED BY <2>2, <2>3 DEF Covers
<1> QED BY <1>2, <1>3

\* flushDirty leaves nothing to be written, and the device with the whole table.
LEMMA FlushedCovers ==
    ASSUME NEW v, Covers(v)
    PROVE  /\ Covers(Flushed(v))
           /\ \A c \in Clusters : Flushed(v).disk[c] = Flushed(v).fat[c]
<1> DEFINE table == [c \in Clusters |-> IF c \in v.dirty THEN v.fat[c] ELSE v.disk[c]]
           w == [fat |-> v.fat, dirty |-> {}, disk |-> table, hint |-> v.hint]
<1>1. v = [fat |-> v.fat, dirty |-> v.dirty, disk |-> v.disk, hint |-> v.hint]
  BY DEF Covers
<1>2. Flushed(v) = [v EXCEPT !.disk = table, !.dirty = {}]
  BY DEF Flushed
<1>3. Flushed(v) = w
  <2> HIDE DEF table
  <2> QED BY <1>1, <1>2
<1>4. \A c \in Clusters : table[c] = v.fat[c]
  BY DEF Covers
<1> HIDE DEF table
<1> QED BY <1>3, <1>4 DEF Covers

\* The hint does not matter to the marks.
LEMMA HintCovers ==
    ASSUME NEW v, NEW h, Covers(v)
    PROVE  Covers([v EXCEPT !.hint = h])
BY DEF Covers

LEMMA HintsCover ==
    ASSUME NEW v, Covers(v)
    PROVE  /\ \A c : Covers(Hinted(v, c))
           /\ \A c : Covers(HintAfter(v, c))
           /\ \A run, n : Covers(AfterRun(v, run, n))
BY HintCovers DEF Hinted, HintAfter, AfterRun

-------------------------------------------------------------------------------
(* Chains.                                                                 *)

\* Freeing and linking go through set.
LEMMA ChainsCover ==
    ASSUME NEW v, Covers(v)
    PROVE  /\ \A s : Covers(Freed(v, s))
           /\ \A s : Covers(Linked(v, s))
BY SetCovers DEF Freed, Linked

\* So do picking clusters and linking one behind another.
LEMMA PickedCovers ==
    ASSUME NEW v, NEW n, Covers(v)
    PROVE  Covers(Picked(v, n).vol)
<1> DEFINE up == Upcoming(v)
           s == SubSeq(up, 1, IF n < Len(up) THEN n ELSE Len(up))
<1>1. Picked(v, n).vol = IF s = <<>> THEN v ELSE Linked(HintAfter(v, s[Len(s)]), s)
  BY DEF Picked
<1>2. Covers(HintAfter(v, s[Len(s)]))
  BY HintsCover
<1>3. Covers(Linked(HintAfter(v, s[Len(s)]), s))
  <2> HIDE DEF s
  <2> QED BY <1>2, ChainsCover
<1> HIDE DEF s
<1> QED BY <1>1, <1>3

LEMMA ExtendedCovers ==
    ASSUME NEW v, NEW tail, Covers(v)
    PROVE  Covers(Extended(v, tail))
<1> DEFINE p == Picked(v, 1)
<1>1. Covers(p.vol)
  BY PickedCovers
<1>2. Extended(v, tail) = Set(p.vol, [p.vol.fat EXCEPT ![tail] = p.list[1]])
  BY DEF Extended
<1> HIDE DEF p
<1> QED BY <1>1, <1>2, SetCovers

-------------------------------------------------------------------------------
(* reallocClusters.                                                        *)

\* A move, successful or not.
LEMMA MovedCovers ==
    ASSUME NEW v, NEW old, NEW n, Covers(v)
    PROVE  Covers(Moved(v, old, n).vol)
<1> DEFINE run == FindRun(v, n)
           w == AfterRun(v, run, n)
           moved == Flushed(Freed(Linked(w, Run(run, n)), old))
<1>1. Moved(v, old, n).vol = IF run = 0 THEN w ELSE moved
  BY DEF Moved, Done, Failed
<1>2. Covers(w)
  BY HintsCover
<1> HIDE DEF w, run
<1>3. Covers(Linked(w, Run(run, n)))
  BY <1>2, ChainsCover
<1>4. Covers(Freed(Linked(w, Run(run, n)), old))
  BY <1>3, ChainsCover
<1>5. Covers(moved)
  BY <1>4, FlushedCovers
<1> QED BY <1>1, <1>2, <1>5

\* Scattered clusters, or what there was of them given back.
LEMMA ScatteredCovers ==
    ASSUME NEW v, NEW old, NEW n, Covers(v)
    PROVE  Covers(Scattered(v, old, n).vol)
<1> DEFINE p == Picked(v, n)
<1>1. Covers(p.vol)
  BY PickedCovers
<1>2. Scattered(v, old, n).vol =
        IF Len(p.list) < n THEN Freed(p.vol, p.list) ELSE Flushed(Freed(p.vol, old))
  BY DEF Scattered, Done, Failed
<1> HIDE DEF p
<1>3. Covers(Freed(p.vol, p.list)) /\ Covers(Freed(p.vol, old))
  BY <1>1, ChainsCover
<1>4. Covers(Flushed(Freed(p.vol, old)))
  BY <1>3, FlushedCovers
<1> QED BY <1>2, <1>3, <1>4

LEMMA GrownCovers ==
    ASSUME NEW v, NEW old, NEW n, Covers(v)
    PROVE  Covers(Grown(v, old, n).vol)
<1>1. Covers(AfterRun(v, FindRun(v, n), n))
  BY HintsCover
<1>2. Covers(Moved(AfterRun(v, FindRun(v, n), n), old, n).vol)
  BY <1>1, MovedCovers
<1> QED BY <1>2, ScatteredCovers DEF Grown

LEMMA GrownInPlaceCovers ==
    ASSUME NEW v, NEW old, NEW n, Covers(v)
    PROVE  Covers(GrownInPlace(v, old, n).vol)
<1> DEFINE tail == old[Len(old)]
           s == <<tail>> \o Run(tail + 1, n - Len(old))
<1>1. GrownInPlace(v, old, n).vol = Flushed(Linked(v, s))
  BY DEF GrownInPlace, Done
<1> HIDE DEF s
<1>2. Covers(Linked(v, s))
  BY ChainsCover
<1> QED BY <1>1, <1>2, FlushedCovers

\* Whatever strategy reallocClusters takes.
LEMMA ReallocCovers ==
    ASSUME NEW v, NEW old, NEW n, Covers(v)
    PROVE  Covers(Realloc(v, old, n).vol)
BY GrownCovers, GrownInPlaceCovers DEF Realloc, Done, Failed

\* A directory entry, and the cluster the root directory may need for it.
LEMMA PlacedCovers ==
    ASSUME NEW v, NEW full, Covers(v)
    PROVE  Covers(Placed(v, full).vol)
<1> DEFINE chain == Chain(v.fat, 2)
           w == Flushed(Extended(v, chain[Len(chain)]))
<1>1. \/ Placed(v, full).vol = v
      \/ Placed(v, full).vol = w
  BY DEF Placed, Done, Failed
<1>2. Covers(Extended(v, chain[Len(chain)]))
  BY ExtendedCovers
<1>3. Covers(w)
  BY <1>2, FlushedCovers
<1> HIDE DEF w
<1> QED BY <1>1, <1>3

-------------------------------------------------------------------------------
(* The calls.                                                              *)

\* A call that ends in a new directory entry.
LEMMA EnteredCovers ==
    ASSUME NEW call, NEW o, NEW v, NEW s, NEW full, Covers(v), Entered(call, o, v, s, full)
    PROVE  Covers(vol')
BY PlacedCovers DEF Entered

\* A flush of a stream: one that succeeds leaves the device with the whole table.
LEMMA KeptCovers ==
    ASSUME NEW call, NEW o, NEW r, Covers(r.vol), Kept(call, o, r)
    PROVE  /\ Covers(vol')
           /\ ~r.threw => \A c \in Clusters : vol'.disk[c] = vol'.fat[c]
BY FlushedCovers DEF Kept

\* No call of the volume or of a stream leaves an entry unmarked.
LEMMA StepCovers ==
    ASSUME Covers(vol), [Next]_vars
    PROVE  Covers(vol')
<1>1. CASE \E o \in Files, n \in 0..MaxBlocks, exact, full \in BOOLEAN : WriteFile(o, n, exact, full)
  <2>1. PICK o \in Files, n \in 0..MaxBlocks, exact \in BOOLEAN, full \in BOOLEAN :
            WriteFile(o, n, exact, full)
    BY <1>1
  <2> DEFINE v == IF exact THEN Freed(vol, list[o]) ELSE vol
             p == Picked(v, n)
             call == IF exact THEN "write" ELSE "respell"
  <2>2. Covers(v)
    BY ChainsCover
  <2>3. \/ vol' = Freed(p.vol, p.list)
        \/ Entered(call, o, p.vol, p.list, full)
    BY <2>1 DEF WriteFile
  <2> HIDE DEF v
  <2>4. Covers(p.vol)
    BY <2>2, PickedCovers
  <2> HIDE DEF p, call
  <2> QED BY <2>3, <2>4, ChainsCover, EnteredCovers
<1>2. CASE \E o \in Owners : Remove(o)
  BY <1>2, ChainsCover DEF Remove
<1>3. CASE \E o \in Directories, full \in BOOLEAN : CreateDirectory(o, full)
  <2>1. PICK o \in Directories, full \in BOOLEAN : CreateDirectory(o, full)
    BY <1>3
  <2> DEFINE p == Picked(vol, 1)
  <2>2. vol' = vol \/ Entered("create", o, p.vol, p.list, full)
    BY <2>1 DEF CreateDirectory
  <2>3. Covers(p.vol)
    BY PickedCovers
  <2> HIDE DEF p
  <2> QED BY <2>2, <2>3, EnteredCovers
<1>4. CASE \E o \in Files, n \in 1..MaxBlocks, full \in BOOLEAN : Rewrite(o, n, full)
  <2>1. PICK o \in Files, n \in 1..MaxBlocks, full \in BOOLEAN : Rewrite(o, n, full)
    BY <1>4
  <2> DEFINE r == Realloc(vol, <<>>, n)
             p == IF entry[o] = 0 THEN Placed(r.vol, full) ELSE Done(r.vol, list[Root])
  <2>2. \/ vol' = r.vol
        \/ vol' = p.vol
        \/ vol' = Flushed(p.vol)
    BY <2>1 DEF Rewrite
  <2>3. Covers(r.vol)
    BY ReallocCovers
  <2> HIDE DEF r
  <2>4. Covers(p.vol)
    BY <2>3, PlacedCovers DEF Done
  <2> HIDE DEF p
  <2> QED BY <2>2, <2>3, <2>4, FlushedCovers
<1>5. CASE \E o \in Files, n \in 1..MaxBlocks : Continue(o, n)
  BY <1>5, ReallocCovers, KeptCovers DEF Continue
<1>6. CASE \E o \in Files : Close(o)
  BY <1>6 DEF Close
<1>7. CASE \E o \in Files, size \in 0..MaxBlocks, n \in 1..MaxBlocks : AppendFile(o, size, n)
  <2>1. PICK o \in Files, size \in 0..MaxBlocks, n \in 1..MaxBlocks : AppendFile(o, size, n)
    BY <1>7
  <2> DEFINE old == Chain(vol.fat, First(list[o]))
             v == IF old = <<>> THEN vol ELSE Hinted(vol, old[Len(old)] + 1)
             r == IF Len(old) >= size + n + Headroom THEN Done(v, old)
                  ELSE Realloc(v, old, size + n + Headroom)
  <2>2. Kept("append", o, r)
    BY <2>1 DEF AppendFile
  <2>3. Covers(v)
    BY HintsCover
  <2> HIDE DEF v, old
  <2>4. Covers(r.vol)
    BY <2>3, ReallocCovers DEF Done
  <2> HIDE DEF r
  <2> QED BY <2>2, <2>4, KeptCovers
<1>8. CASE Mount
  BY <1>8 DEF Mount, Covers
<1>9. CASE UNCHANGED vars
  BY <1>9 DEF vars, Covers
<1> QED BY <1>1, <1>2, <1>3, <1>4, <1>5, <1>6, <1>7, <1>8, <1>9 DEF Next

\* However files are written, removed, moved and grown, whatever fails and however
\* often the process ends, every entry that differs from the device's is marked.
THEOREM FlushMissesNothing == Spec => []DirtyCovers
<1>1. Init => Covers(vol)
  BY DEF Init, Covers
<1>2. Covers(vol) /\ [Next]_vars => Covers(vol')
  BY StepCovers
<1>3. Covers(vol) => DirtyCovers
  BY DEF Covers, DirtyCovers
<1> DEFINE Inv == Covers(vol)
<1>4. Init => Inv
  BY <1>1
<1>5. Inv /\ [Next]_vars => Inv'
  BY <1>2 DEF Covers
<1>6. Inv => DirtyCovers
  BY <1>3
<1> HIDE DEF Inv
<1> QED BY <1>4, <1>5, <1>6, PTL DEF Spec

-------------------------------------------------------------------------------
(* What a stream's flush leaves on the device.                             *)

\* A flush of a stream that succeeds, rewriting or appending, leaves the device
\* with the whole table: what other calls had left unwritten is written with it.
StreamsWriteAll ==
    [][ last'.call \in {"rewrite", "continue", "append"} /\ ~last'.threw
        => \A c \in Clusters : vol'.disk[c] = vol'.fat[c] ]_vars

Written == \A c \in Clusters : vol.disk[c] = vol.fat[c]

LEMMA CalledIs ==
    ASSUME NEW call, NEW o, NEW threw, Called(call, o, threw)
    PROVE  last'.call = call /\ last'.owner = o /\ last'.threw = threw
BY DEF Called

\* The steps of a stream, and the other calls, which are none.
LEMMA StreamStepWrites ==
    ASSUME Covers(vol), Next, last'.call \in {"rewrite", "continue", "append"}, ~last'.threw
    PROVE  Written'
<1>1. CASE \E o \in Files, n \in 0..MaxBlocks, exact, full \in BOOLEAN : WriteFile(o, n, exact, full)
  <2>1. PICK o \in Files, n \in 0..MaxBlocks, exact \in BOOLEAN, full \in BOOLEAN :
            WriteFile(o, n, exact, full)
    BY <1>1
  <2>2. \E call \in {"write", "respell"} : \E threw : Called(call, o, threw)
    BY <2>1 DEF WriteFile, Entered
  <2> QED BY <2>2, CalledIs
<1>2. CASE \E o \in Owners : Remove(o)
  BY <1>2, CalledIs DEF Remove
<1>3. CASE \E o \in Directories, full \in BOOLEAN : CreateDirectory(o, full)
  <2>1. PICK o \in Directories, full \in BOOLEAN : CreateDirectory(o, full)
    BY <1>3
  <2>2. \E threw : Called("create", o, threw)
    BY <2>1 DEF CreateDirectory, Entered
  <2> QED BY <2>2, CalledIs
<1>4. CASE \E o \in Files, n \in 1..MaxBlocks, full \in BOOLEAN : Rewrite(o, n, full)
  <2>1. PICK o \in Files, n \in 1..MaxBlocks, full \in BOOLEAN : Rewrite(o, n, full)
    BY <1>4
  <2> DEFINE r == Realloc(vol, <<>>, n)
             p == IF entry[o] = 0 THEN Placed(r.vol, full) ELSE Done(r.vol, list[Root])
  <2>2. \/ Called("rewrite", o, TRUE)
        \/ /\ Called("rewrite", o, p.threw)
           /\ vol' = IF p.threw THEN p.vol ELSE Flushed(p.vol)
    BY <2>1 DEF Rewrite
  <2>3. Covers(r.vol)
    BY ReallocCovers
  <2> HIDE DEF r
  <2>4. Covers(p.vol)
    BY <2>3, PlacedCovers DEF Done
  <2> HIDE DEF p
  <2>5. ~p.threw /\ vol' = Flushed(p.vol)
    BY <2>2, CalledIs
  <2> QED BY <2>4, <2>5, FlushedCovers DEF Written
<1>5. CASE \E o \in Files, n \in 1..MaxBlocks : Continue(o, n)
  <2>1. PICK o \in Files, n \in 1..MaxBlocks : Continue(o, n)
    BY <1>5
  <2> DEFINE r == Realloc(vol, list[o], n)
  <2>2. Kept("continue", o, r) /\ Covers(r.vol)
    BY <2>1, ReallocCovers DEF Continue
  <2> HIDE DEF r
  <2>3. ~r.threw
    BY <2>2, CalledIs DEF Kept
  <2>4. ~r.threw => \A c \in Clusters : vol'.disk[c] = vol'.fat[c]
    BY <2>2, KeptCovers
  <2> QED BY <2>3, <2>4 DEF Written
<1>6. CASE \E o \in Files : Close(o)
  <2>1. PICK o \in Files : Called("close", o, FALSE)
    BY <1>6 DEF Close
  <2>2. last'.call = "close"
    BY <2>1, CalledIs
  <2> QED BY <2>2
<1>7. CASE \E o \in Files, size \in 0..MaxBlocks, n \in 1..MaxBlocks : AppendFile(o, size, n)
  <2>1. PICK o \in Files, size \in 0..MaxBlocks, n \in 1..MaxBlocks : AppendFile(o, size, n)
    BY <1>7
  <2> DEFINE old == Chain(vol.fat, First(list[o]))
             v == IF old = <<>> THEN vol ELSE Hinted(vol, old[Len(old)] + 1)
             r == IF Len(old) >= size + n + Headroom THEN Done(v, old)
                  ELSE Realloc(v, old, size + n + Headroom)
  <2>2. Kept("append", o, r)
    BY <2>1 DEF AppendFile
  <2>3. Covers(v)
    BY HintsCover
  <2> HIDE DEF v, old
  <2>4. Covers(r.vol)
    BY <2>3, ReallocCovers DEF Done
  <2> HIDE DEF r
  <2>5. ~r.threw
    BY <2>2, CalledIs DEF Kept
  <2>6. ~r.threw => \A c \in Clusters : vol'.disk[c] = vol'.fat[c]
    BY <2>2, <2>4, KeptCovers
  <2> QED BY <2>5, <2>6 DEF Written
<1>8. CASE Mount
  <2>1. Called("mount", Root, FALSE)
    BY <1>8 DEF Mount
  <2>2. last'.call = "mount"
    BY <2>1, CalledIs
  <2> QED BY <2>2
<1> QED BY <1>1, <1>2, <1>3, <1>4, <1>5, <1>6, <1>7, <1>8 DEF Next

\* A flush that succeeded is never followed by a device that lacks part of the
\* table, for any files and bounds.
THEOREM StreamsFlushEverything == Spec => StreamsWriteAll
<1> DEFINE Inv == Covers(vol)
           Step == last'.call \in {"rewrite", "continue", "append"} /\ ~last'.threw => Written'
<1>1. Init => Inv
  BY DEF Init, Covers
<1>2. Inv /\ [Next]_vars => Inv'
  BY StepCovers DEF Covers
<1>3. Inv /\ Next => Step
  BY StreamStepWrites
<1>4. Step <=> ( last'.call \in {"rewrite", "continue", "append"} /\ ~last'.threw
                 => \A c \in Clusters : vol'.disk[c] = vol'.fat[c] )
  BY DEF Written
<1>5. Inv /\ [Next]_vars =>
        [ last'.call \in {"rewrite", "continue", "append"} /\ ~last'.threw
          => \A c \in Clusters : vol'.disk[c] = vol'.fat[c] ]_vars
  BY <1>3, <1>4
<1> HIDE DEF Inv, Step
<1> QED BY <1>1, <1>2, <1>5, PTL DEF Spec, StreamsWriteAll

-------------------------------------------------------------------------------
(* Numbers.                                                                *)

\* What holds of a number when it holds of all below, holds of all up to n.
LEMMA UpTo ==
    ASSUME NEW n \in Nat, NEW S,
           \A k \in 0..n : (\A j \in 0..(k - 1) : j \in S) => k \in S
    PROVE  0..n \subseteq S
<1> DEFINE R == OpToRel(<, Nat)
           T == {k \in 0..n : k \notin S}
<1>1. IsWellFoundedOn(R, Nat)
  BY NatLessThanWellFounded
<1>2. \A p, q \in Nat : p < q => <<p, q>> \in R
  BY DEF OpToRel
<1> HIDE DEF R
<1>3. ASSUME T # {} PROVE FALSE
  <2>1. T \subseteq Nat
    OBVIOUS
  <2>2. PICK k \in T : \A j \in T : ~ (<<j, k>> \in R)
    <3> HIDE DEF T
    <3> QED BY <1>1, <1>3, <2>1, WFMin
  <2>3. ASSUME NEW j \in 0..(k - 1) PROVE j \in S
    <3>1. j \in Nat /\ k \in Nat /\ j < k /\ j \in 0..n
      OBVIOUS
    <3> QED
      BY <1>2, <2>2, <3>1
  <2> QED
    BY <2>3
<1> QED
  BY <1>3

\* The constants are numbers, and the end of a chain is no cluster.
LEMMA ClusterNumbers ==
    /\ Entries \in Nat /\ Entries >= 3
    /\ 2 \in Clusters /\ 0 \notin Clusters /\ EndOfChain \notin Clusters /\ EndOfChain # 0
    /\ Clusters \subseteq Nat
<1>1. EndOfChain \in Nat /\ EndOfChain > 3
  BY SMT DEF EndOfChain
<1>2. Entries \in 3..EndOfChain
  BY ClusterAssumption DEF ClusterAssumption
<1>3. \A c \in Clusters : c \in Nat /\ c >= 2 /\ c < Entries
  BY <1>1, <1>2 DEF Clusters
<1> QED BY <1>1, <1>2, <1>3 DEF Clusters

-------------------------------------------------------------------------------
(* What Chain returns.                                                     *)

\* One more step of a chain, by a function that tells of the steps behind it.
Follow(fat, c, f, n) ==
    [s \in Seq(Clusters) |-> IF n = 0 \/ Then(fat, c, s) \notin Clusters THEN s
                             ELSE f[n - 1][Append(s, Then(fat, c, s))]]

Follows(fat, c, f, k) == f = [n \in 0..k |-> Follow(fat, c, f, n)]

\* The recursion of Chain ends, since each step asks for one less.
LEMMA FollowExists ==
    ASSUME NEW fat, NEW c, NEW m \in Nat
    PROVE  \E f : Follows(fat, c, f, m)
<1> DEFINE S == {k \in 0..m : \E f : Follows(fat, c, f, k)}
<1>1. ASSUME NEW k \in 0..m, \A j \in 0..(k - 1) : j \in S PROVE k \in S
  <2>1. CASE k = 0
    <3> DEFINE f == [n \in 0..0 |-> [s \in Seq(Clusters) |-> s]]
    <3>1. ASSUME NEW g PROVE Follow(fat, c, g, 0) = [s \in Seq(Clusters) |-> s]
      BY DEF Follow
    <3>2. \A n \in 0..0 : n = 0
      OBVIOUS
    <3>3. Follows(fat, c, f, 0)
      <4>1. Follow(fat, c, f, 0) = [s \in Seq(Clusters) |-> s]
        BY <3>1
      <4>2. [n \in 0..0 |-> Follow(fat, c, f, n)] = [n \in 0..0 |-> [s \in Seq(Clusters) |-> s]]
        <5> HIDE DEF f
        <5> QED BY <3>2, <4>1
      <4> QED BY <4>2 DEF Follows
    <3> HIDE DEF f
    <3> QED BY <2>1, <3>3
  <2>2. CASE k # 0
    <3>1. k - 1 \in 0..(k - 1) /\ k \in Nat
      BY <2>2
    <3>2. PICK f : Follows(fat, c, f, k - 1)
      BY <1>1, <3>1
    <3> DEFINE g == [n \in 0..k |-> Follow(fat, c, f, n)]
    <3>3. ASSUME NEW n \in 0..k PROVE Follow(fat, c, f, n) = Follow(fat, c, g, n)
      <4>1. CASE n = 0
        BY <4>1 DEF Follow
      <4>2. CASE n # 0
        <5>1. n - 1 \in 0..(k - 1) /\ n - 1 \in 0..k
          BY <4>2
        <5>2. f[n - 1] = Follow(fat, c, f, n - 1)
          BY <3>2, <5>1 DEF Follows
        <5>3. g[n - 1] = Follow(fat, c, f, n - 1)
          BY <5>1
        <5> HIDE DEF g
        <5> QED BY <5>2, <5>3 DEF Follow
      <4> QED BY <4>1, <4>2
    <3>4. g = [n \in 0..k |-> Follow(fat, c, g, n)]
      BY <3>3
    <3> HIDE DEF g
    <3> QED BY <3>4 DEF Follows
  <2> QED BY <2>1, <2>2
<1>2. m \in 0..m
  OBVIOUS
<1>3. 0..m \subseteq S
  <2> HIDE DEF S
  <2> QED BY <1>1, UpTo
<1> QED BY <1>2, <1>3

\* The clusters of r behind the first n are those the table links, from c on.
Along(fat, c, r, n) ==
    \A i \in (n + 1)..Len(r) : r[i] = IF i = 1 THEN c ELSE fat[r[i - 1]]

\* What n steps add to a chain.
Adds(fat, c, s, n, r) ==
    /\ r \in Seq(Clusters)
    /\ Len(r) \in Len(s)..(Len(s) + n)
    /\ \A i \in 1..Len(s) : r[i] = s[i]
    /\ Along(fat, c, r, Len(s))
    /\ Len(r) < Len(s) + n => Then(fat, c, r) \notin Clusters

LEMMA FollowAdds ==
    ASSUME NEW fat, NEW c, NEW m \in Nat, NEW f, Follows(fat, c, f, m),
           NEW s \in Seq(Clusters)
    PROVE  Adds(fat, c, s, m, f[m][s])
<1> DEFINE S == {n \in 0..m : \A t \in Seq(Clusters) : Adds(fat, c, t, n, f[n][t])}
<1>1. ASSUME NEW n \in 0..m, \A j \in 0..(n - 1) : j \in S PROVE n \in S
  <2> SUFFICES ASSUME NEW t \in Seq(Clusters) PROVE Adds(fat, c, t, n, f[n][t])
    OBVIOUS
  <2>1. f[n][t] = IF n = 0 \/ Then(fat, c, t) \notin Clusters THEN t
                  ELSE f[n - 1][Append(t, Then(fat, c, t))]
    <3>1. f[n] = Follow(fat, c, f, n)
      BY DEF Follows
    <3> QED BY <3>1 DEF Follow
  <2>2. Len(t) \in Nat /\ n \in Nat
    BY LenProperties
  <2>3. CASE n = 0 \/ Then(fat, c, t) \notin Clusters
    BY <2>1, <2>2, <2>3 DEF Adds, Along
  <2>4. CASE ~ (n = 0 \/ Then(fat, c, t) \notin Clusters)
    <3> DEFINE d == Then(fat, c, t)
               u == Append(t, d)
               r == f[n - 1][u]
    <3>0. d \in Clusters /\ n - 1 \in 0..(n - 1) /\ f[n][t] = r
      BY <2>1, <2>4
    <3>1. d = IF Len(t) = 0 THEN c ELSE fat[t[Len(t)]]
      BY <2>2 DEF Then
    <3> HIDE DEF d
    <3>2. u \in Seq(Clusters) /\ Len(u) = Len(t) + 1 /\ (\A i \in 1..Len(t) : u[i] = t[i])
          /\ u[Len(t) + 1] = d
      BY <3>0, AppendProperties
    <3> HIDE DEF u
    <3>3. Adds(fat, c, u, n - 1, r)
      BY <1>1, <3>0, <3>2
    <3> HIDE DEF r
    <3>4. /\ r \in Seq(Clusters) /\ Len(r) \in (Len(t) + 1)..(Len(t) + n)
          /\ \A i \in 1..Len(t) : r[i] = t[i]
          /\ r[Len(t) + 1] = d
          /\ Len(r) < Len(t) + n => Then(fat, c, r) \notin Clusters
          /\ \A i \in (Len(t) + 2)..Len(r) : r[i] = IF i = 1 THEN c ELSE fat[r[i - 1]]
      BY <2>2, <3>2, <3>3 DEF Adds, Along
    <3>5. ASSUME NEW i \in (Len(t) + 1)..Len(r) PROVE r[i] = IF i = 1 THEN c ELSE fat[r[i - 1]]
      <4>1. CASE i = Len(t) + 1
        <5>1. i # 1 => i - 1 = Len(t) /\ Len(t) # 0 /\ Len(t) \in 1..Len(t)
          BY <2>2, <4>1
        <5>2. i # 1 => r[i - 1] = t[Len(t)]
          BY <3>4, <5>1
        <5>3. i = 1 => Len(t) = 0
          BY <2>2, <4>1
        <5> QED BY <3>1, <3>4, <4>1, <5>1, <5>2, <5>3
      <4>2. CASE i # Len(t) + 1
        <5>1. i \in (Len(t) + 2)..Len(r)
          BY <2>2, <3>4, <4>2
        <5> QED BY <3>4, <5>1
      <4> QED BY <4>1, <4>2
    <3>6. Len(r) \in Len(t)..(Len(t) + n)
      BY <2>2, <3>4
    <3> QED BY <3>0, <3>4, <3>5, <3>6 DEF Adds, Along
  <2> QED BY <2>3, <2>4
<1>2. m \in 0..m
  OBVIOUS
<1>3. 0..m \subseteq S
  <2> HIDE DEF S
  <2> QED BY <1>1, UpTo
<1> QED BY <1>2, <1>3

\* Chain returns clusters as the table links them, up to one that links to none,
\* unless it gives up.
LEMMA ChainIs ==
    ASSUME NEW fat, NEW c
    PROVE  /\ Chain(fat, c) \in Seq(Clusters)
           /\ Len(Chain(fat, c)) \in 0..(Entries - 1)
           /\ Along(fat, c, Chain(fat, c), 0)
           /\ Len(Chain(fat, c)) < Entries - 1 => Then(fat, c, Chain(fat, c)) \notin Clusters
<1> DEFINE P(f) == f = [n \in 0..(Entries - 1) |->
                          [s \in Seq(Clusters) |-> IF n = 0 \/ Then(fat, c, s) \notin Clusters THEN s
                                     ELSE f[n - 1][Append(s, Then(fat, c, s))]]]
           follow == CHOOSE f : P(f)
<1>1. Chain(fat, c) = follow[Entries - 1][<<>>]
  BY DEF Chain
<1>2. \A f : P(f) <=> Follows(fat, c, f, Entries - 1)
  BY DEF Follows, Follow
<1>3. Entries - 1 \in Nat
  BY ClusterNumbers
<1>4. \E f : P(f)
  BY <1>2, <1>3, FollowExists
<1>5. Follows(fat, c, follow, Entries - 1)
  <2>1. P(follow)
    BY <1>4
  <2> QED BY <1>2, <2>1
<1> HIDE DEF follow
<1>6. <<>> \in Seq(Clusters) /\ Len(<<>>) = 0
  BY EmptySeq
<1>7. Adds(fat, c, <<>>, Entries - 1, Chain(fat, c))
  BY <1>1, <1>3, <1>5, <1>6, FollowAdds
<1> QED BY <1>3, <1>6, <1>7 DEF Adds

-------------------------------------------------------------------------------
(* What the table links.                                                   *)

\* The table links s, and nothing behind it.
Holds(fat, s) ==
    \A i \in 1..Len(s) : fat[s[i]] = IF i < Len(s) THEN s[i + 1] ELSE EndOfChain

LEMMA ListFacts ==
    ASSUME NEW s \in Seq(Clusters)
    PROVE  /\ Len(s) \in Nat /\ DOMAIN s = 1..Len(s)
           /\ \A i \in 1..Len(s) : s[i] \in Clusters
           /\ s = <<>> <=> Len(s) = 0
           /\ Members(s) = {s[i] : i \in 1..Len(s)}
           /\ Members(s) \subseteq Clusters
<1>1. Len(s) \in Nat /\ DOMAIN s = 1..Len(s)
  BY LenProperties
<1>2. \A i \in 1..Len(s) : s[i] \in Clusters
  BY ElementOfSeq
<1>3. s = <<>> <=> Len(s) = 0
  BY EmptySeq
<1> QED BY <1>1, <1>2, <1>3 DEF Members

\* What a chain links ends: it comes by no cluster twice.
LEMMA HoldsOnce ==
    ASSUME NEW fat, NEW s \in Seq(Clusters), Holds(fat, s)
    PROVE  \A i, j \in 1..Len(s) : s[i] = s[j] => i = j
<1>1. ASSUME NEW i \in 1..Len(s), NEW j \in 1..Len(s), i < j, s[i] = s[j] PROVE FALSE
  <2> DEFINE S == {k \in 0..(Len(s) - j) : s[i + k] = s[j + k]}
             m == Len(s) - j
  <2>0. Len(s) \in Nat /\ (\A k \in 1..Len(s) : s[k] \in Clusters) /\ m \in Nat
    BY ListFacts
  <2>1. ASSUME NEW k \in 0..m, \A h \in 0..(k - 1) : h \in S PROVE k \in S
    <3>1. CASE k = 0
      BY <1>1, <2>0, <3>1
    <3>2. CASE k # 0
      <4>0. k - 1 \in 0..(k - 1)
        BY <2>0, <3>2
      <4>1. k - 1 \in S
        BY <2>1, <4>0
      <4>2. /\ i + (k - 1) \in 1..Len(s) /\ i + (k - 1) < Len(s)
            /\ j + (k - 1) \in 1..Len(s) /\ j + (k - 1) < Len(s)
            /\ i + (k - 1) + 1 = i + k /\ j + (k - 1) + 1 = j + k
        BY <1>1, <2>0, <3>2
      <4>3. fat[s[i + (k - 1)]] = s[i + k] /\ fat[s[j + (k - 1)]] = s[j + k]
        BY <4>2 DEF Holds
      <4> QED BY <4>1, <4>3
    <3> QED BY <3>1, <3>2
  <2>2. 0..m \subseteq S
    <3> HIDE DEF S
    <3> HIDE DEF m
    <3> QED BY <2>0, <2>1, UpTo
  <2>3. s[i + m] = s[j + m] /\ j + m = Len(s) /\ i + m \in 1..Len(s) /\ i + m < Len(s)
        /\ i + m + 1 \in 1..Len(s)
    <3>1. m \in S
      <4> HIDE DEF S, m
      <4> QED BY <2>0, <2>2
    <3> QED BY <1>1, <2>0, <3>1
  <2>4. fat[s[i + m]] = s[i + m + 1] /\ fat[s[j + m]] = EndOfChain
    <3> HIDE DEF m
    <3> QED BY <2>0, <2>3 DEF Holds
  <2>5. s[i + m + 1] \in Clusters
    BY <2>0, <2>3
  <2> QED BY <2>3, <2>4, <2>5, ClusterNumbers
<1> SUFFICES ASSUME NEW i \in 1..Len(s), NEW j \in 1..Len(s), s[i] = s[j] PROVE i = j
  OBVIOUS
<1>2. i < j \/ j < i \/ i = j
  BY ListFacts
<1> QED BY <1>1, <1>2

LEMMA ClusterCount == IsFiniteSet(Clusters) /\ Cardinality(Clusters) = Entries - 2
<1>1. Entries \in Nat /\ Entries >= 3 /\ Entries - 1 \in Int /\ 2 \in Int
  BY ClusterNumbers
<1>2. IsFiniteSet(2..(Entries - 1))
      /\ Cardinality(2..(Entries - 1)) = IF 2 > Entries - 1 THEN 0 ELSE (Entries - 1) - 2 + 1
  BY <1>1, FS_Interval
<1> QED BY <1>1, <1>2 DEF Clusters

\* So it is no longer than there are clusters.
LEMMA HoldsFits ==
    ASSUME NEW fat, NEW s \in Seq(Clusters), Holds(fat, s)
    PROVE  Len(s) <= Entries - 2
<1>1. Len(s) \in Nat /\ s \in [1..Len(s) -> Clusters]
  BY LenProperties
<1>2. s \in Injection(1..Len(s), Clusters)
  BY <1>1, HoldsOnce, Zenon DEF Injection, IsInjective
<1>3. Cardinality(1..Len(s)) <= Entries - 2
  BY <1>2, ClusterCount, FS_Injection
<1>4. Cardinality(1..Len(s)) = Len(s)
  <2>1. 1 \in Int /\ Len(s) \in Int
    BY <1>1
  <2>2. Cardinality(1..Len(s)) = IF 1 > Len(s) THEN 0 ELSE Len(s) - 1 + 1
    BY <2>1, FS_Interval
  <2> QED BY <1>1, <2>2
<1> QED BY <1>3, <1>4

\* What a table links is what is read from it.
LEMMA HoldsReads ==
    ASSUME NEW fat, NEW s \in Seq(Clusters), Holds(fat, s)
    PROVE  Chain(fat, First(s)) = s
<1> DEFINE c == First(s)
           r == Chain(fat, c)
<1>1. /\ r \in Seq(Clusters) /\ Len(r) \in 0..(Entries - 1) /\ Along(fat, c, r, 0)
      /\ Len(r) < Entries - 1 => Then(fat, c, r) \notin Clusters
  BY ChainIs
<1>2. c = IF Len(s) = 0 THEN 0 ELSE s[1]
  BY ListFacts DEF First
<1> HIDE DEF r, c
<1>3. Len(s) \in Nat /\ (\A i \in 1..Len(s) : s[i] \in Clusters) /\ Len(s) <= Entries - 2
  BY ListFacts, HoldsFits
<1>4. Len(r) \in Nat /\ (\A i \in 1..Len(r) : r[i] \in Clusters) /\ (r = <<>> <=> Len(r) = 0)
  BY <1>1, ListFacts
<1>5. Entries \in Nat /\ 0 \notin Clusters /\ EndOfChain \notin Clusters
  BY ClusterNumbers
<1> DEFINE S == {k \in 0..Len(s) : k = 0 \/ (k <= Len(r) /\ r[k] = s[k])}
<1>6. ASSUME NEW k \in 0..Len(s), \A j \in 0..(k - 1) : j \in S PROVE k \in S
  <2>1. CASE k = 0
    BY <2>1
  <2>2. CASE k # 0
    <3>1. k \in 1..Len(s) /\ k - 1 \in S /\ k - 1 <= Len(r)
      BY <1>3, <1>4, <1>6, <2>2
    <3>2. k # 1 => k - 1 \in 1..Len(s) /\ k - 1 < Len(s) /\ r[k - 1] = s[k - 1] /\ (k - 1) + 1 = k
      BY <1>3, <3>1
    <3>3. k # 1 => fat[r[k - 1]] = s[k]
      BY <3>2 DEF Holds
    <3>4. k = 1 => c = s[k]
      BY <1>2, <3>1
    <3>5. k <= Len(r)
      <4>1. ASSUME Len(r) = k - 1 PROVE FALSE
        <5>1. Then(fat, c, r) = s[k]
          BY <1>4, <3>1, <3>3, <3>4, <4>1 DEF Then
        <5>2. Len(r) < Entries - 1
          BY <1>3, <1>5, <3>1, <4>1
        <5> QED BY <1>1, <1>3, <3>1, <5>1, <5>2
      <4> QED BY <1>4, <3>1, <4>1
    <3>6. r[k] = IF k = 1 THEN c ELSE fat[r[k - 1]]
      BY <1>1, <1>4, <3>1, <3>5 DEF Along
    <3> QED BY <3>1, <3>3, <3>4, <3>5, <3>6
  <2> QED BY <2>1, <2>2
<1>7. 0..Len(s) \subseteq S
  <2> HIDE DEF S
  <2> QED BY <1>3, <1>6, UpTo
<1>8. Len(s) <= Len(r) /\ \A k \in 1..Len(s) : r[k] = s[k]
  <2>1. \A k \in 1..Len(s) : k \in S
    BY <1>7
  <2> QED BY <1>3, <1>4, <2>1
<1>9. ASSUME Len(s) < Len(r) PROVE FALSE
  <2>1. Len(s) + 1 \in 1..Len(r)
    BY <1>3, <1>4, <1>9
  <2>2. r[Len(s) + 1] = IF Len(s) + 1 = 1 THEN c ELSE fat[r[(Len(s) + 1) - 1]]
    BY <1>1, <2>1 DEF Along
  <2>3. CASE Len(s) = 0
    BY <1>2, <1>4, <1>5, <2>1, <2>2, <2>3
  <2>4. CASE Len(s) # 0
    <3>1. Len(s) \in 1..Len(s) /\ (Len(s) + 1) - 1 = Len(s) /\ Len(s) + 1 # 1
      BY <1>3, <2>4
    <3>2. fat[s[Len(s)]] = EndOfChain
      BY <1>3, <3>1 DEF Holds
    <3> QED BY <1>4, <1>5, <1>8, <2>1, <2>2, <3>1, <3>2
  <2> QED BY <2>3, <2>4
<1>10. Len(r) = Len(s)
  BY <1>3, <1>4, <1>8, <1>9
<1>11. r = s
  BY <1>1, <1>8, <1>10, SeqEqual
<1> QED BY <1>11 DEF r, c

\* What is read from a table, of clusters none of which is free, is what it links.
LEMMA ReadsHold ==
    ASSUME NEW fat \in [Clusters -> Cell], NEW s \in Seq(Clusters), Len(s) <= Entries - 2,
           Chain(fat, First(s)) = s, \A c \in Members(s) : fat[c] # 0
    PROVE  Holds(fat, s)
<1> DEFINE c == First(s)
<1>1. Along(fat, c, s, 0) /\ (Len(s) < Entries - 1 => Then(fat, c, s) \notin Clusters)
  BY ChainIs
<1>2. Len(s) \in Nat /\ (\A i \in 1..Len(s) : s[i] \in Clusters) /\ (s = <<>> <=> Len(s) = 0)
      /\ (\A i \in 1..Len(s) : s[i] \in Members(s))
  BY ListFacts
<1> HIDE DEF c
<1> SUFFICES ASSUME NEW i \in 1..Len(s)
             PROVE  fat[s[i]] = IF i < Len(s) THEN s[i + 1] ELSE EndOfChain
  BY DEF Holds
<1>3. CASE i < Len(s)
  <2>1. i + 1 \in 1..Len(s) /\ i + 1 # 1 /\ (i + 1) - 1 = i
    BY <1>2, <1>3
  <2>2. s[i + 1] = fat[s[(i + 1) - 1]]
    BY <1>1, <2>1 DEF Along
  <2> QED BY <1>3, <2>1, <2>2
<1>4. CASE ~ (i < Len(s))
  <2>1. i = Len(s) /\ Len(s) # 0 /\ Len(s) < Entries - 1
    BY <1>2, <1>4, ClusterNumbers
  <2>2. fat[s[i]] \notin Clusters
    BY <1>1, <1>2, <2>1 DEF Then
  <2>3. fat[s[i]] # 0 /\ fat[s[i]] \in Cell
    BY <1>2
  <2> QED BY <1>4, <2>2, <2>3 DEF Cell
<1> QED BY <1>3, <1>4

-------------------------------------------------------------------------------
(* Tables.                                                                 *)

\* The table links the clusters of every owner, and no two have one in common.
Table(fat, l) ==
    /\ \A o \in Owners : Holds(fat, l[o])
    /\ \A o, p \in Owners : o # p => Members(l[o]) \cap Members(l[p]) = {}

\* Every allocated cluster has an owner.
Owned(fat, l) == \A c \in Clusters : fat[c] # 0 => \E o \in Owners : c \in Members(l[o])

\* From fat to g, the clusters s, which were free or in old, are linked, what
\* else was in old is free, and nothing else changes.
Puts(fat, old, g, s) ==
    /\ g \in [Clusters -> Cell]
    /\ s \in Seq(Clusters)
    /\ Holds(g, s)
    /\ \A c \in Members(s) : c \in Members(old) \/ fat[c] = 0
    /\ \A c \in Clusters : c \notin Members(s) => g[c] = IF c \in Members(old) THEN 0 ELSE fat[c]

Lists == [Owners -> Seq(Clusters)]

\* Linked clusters are allocated.
LEMMA HoldsAllocated ==
    ASSUME NEW fat, NEW s \in Seq(Clusters), Holds(fat, s)
    PROVE  \A c \in Members(s) : fat[c] # 0
<1>1. Len(s) \in Nat /\ (\A i \in 1..Len(s) : s[i] \in Clusters)
      /\ Members(s) = {s[i] : i \in 1..Len(s)}
  BY ListFacts
<1> SUFFICES ASSUME NEW i \in 1..Len(s) PROVE fat[s[i]] # 0
  BY <1>1
<1>2. i < Len(s) => s[i + 1] \in Clusters
  BY <1>1
<1> QED BY <1>2, ClusterNumbers DEF Holds

\* A list depends on its clusters only.
LEMMA HoldsFrame ==
    ASSUME NEW fat, NEW g, NEW s \in Seq(Clusters), Holds(fat, s),
           \A c \in Members(s) : g[c] = fat[c]
    PROVE  Holds(g, s)
<1>1. \A i \in 1..Len(s) : s[i] \in Members(s)
  BY ListFacts
<1> QED BY <1>1 DEF Holds

\* No other owner is touched.
LEMMA PutsTable ==
    ASSUME NEW fat, NEW l \in Lists, NEW o \in Owners, NEW old, NEW g, NEW s,
           Table(fat, l), Members(old) \subseteq Members(l[o]), Puts(fat, old, g, s)
    PROVE  Table(g, [l EXCEPT ![o] = s]) /\ [l EXCEPT ![o] = s] \in Lists
<1> DEFINE k == [l EXCEPT ![o] = s]
<1>1. k \in Lists /\ k[o] = s /\ \A p \in Owners : p # o => k[p] = l[p]
  BY DEF Lists, Puts
<1> HIDE DEF k
<1>2. \A p \in Owners : l[p] \in Seq(Clusters)
  BY DEF Lists
<1>3. ASSUME NEW p \in Owners, p # o
      PROVE  /\ Holds(g, l[p])
             /\ Members(l[p]) \cap Members(s) = {}
  <2>1. Members(l[p]) \cap Members(l[o]) = {} /\ Holds(fat, l[p])
    BY <1>3 DEF Table
  <2>2. \A c \in Members(l[p]) : c \notin Members(old) /\ fat[c] # 0 /\ c \in Clusters
    BY <1>2, <2>1, HoldsAllocated, ListFacts
  <2>3. \A c \in Members(l[p]) : c \notin Members(s)
    BY <2>2 DEF Puts
  <2>4. \A c \in Members(l[p]) : g[c] = fat[c]
    BY <2>2, <2>3 DEF Puts
  <2> QED BY <1>2, <2>1, <2>3, <2>4, HoldsFrame
<1>4. \A p \in Owners : Holds(g, k[p])
  BY <1>1, <1>3 DEF Puts
<1>5. ASSUME NEW p \in Owners, NEW q \in Owners, p # q
      PROVE  Members(k[p]) \cap Members(k[q]) = {}
  BY <1>1, <1>3, <1>5 DEF Table
<1> QED BY <1>1, <1>4, <1>5 DEF Table, k

\* When what was dropped is free, nothing is lost.
LEMMA PutsOwned ==
    ASSUME NEW fat, NEW l \in Lists, NEW o \in Owners, NEW old, NEW g, NEW s,
           Owned(fat, l), Members(old) = Members(l[o]), Puts(fat, old, g, s)
    PROVE  Owned(g, [l EXCEPT ![o] = s])
<1> DEFINE k == [l EXCEPT ![o] = s]
<1>1. k[o] = s /\ \A p \in Owners : p # o => k[p] = l[p]
  BY DEF Lists
<1> HIDE DEF k
<1>2. ASSUME NEW c \in Clusters, g[c] # 0 PROVE \E p \in Owners : c \in Members(k[p])
  <2>1. CASE c \in Members(s)
    BY <1>1, <2>1
  <2>2. CASE c \notin Members(s)
    <3>1. c \notin Members(l[o]) /\ fat[c] # 0
      BY <1>2, <2>2 DEF Puts
    <3>2. PICK p \in Owners : c \in Members(l[p])
      BY <3>1 DEF Owned
    <3> QED BY <1>1, <3>1, <3>2
  <2> QED BY <2>1, <2>2
<1> QED BY <1>2 DEF Owned, k

LEMMA NoMembers == Members(<<>>) = {}
BY DEF Members

\* What is sound, in terms of the table.
LEMMA SoundIs ==
    ASSUME vol \in Volumes, list \in Lists
    PROVE  Sound <=> Table(vol.fat, list)
<1>1. vol.fat \in [Clusters -> Cell] /\ \A o \in Owners : list[o] \in Seq(Clusters)
  BY DEF Volumes, Lists
<1>2. ASSUME Sound, NEW o \in Owners PROVE Holds(vol.fat, list[o])
  <2>1. /\ Len(list[o]) <= Entries - 2
        /\ Members(list[o]) \cap Free(vol) = {}
        /\ Chain(vol.fat, First(list[o])) = list[o]
    BY <1>2 DEF Sound
  <2>2. Members(list[o]) \subseteq Clusters
    BY <1>1, ListFacts
  <2>3. \A c \in Members(list[o]) : vol.fat[c] # 0
    BY <2>1, <2>2 DEF Free
  <2> QED BY <1>1, <2>1, <2>3, ReadsHold
<1>3. ASSUME NEW o \in Owners, Holds(vol.fat, list[o])
      PROVE  /\ Len(list[o]) <= Entries - 2
             /\ Members(list[o]) \cap Free(vol) = {}
             /\ Chain(vol.fat, First(list[o])) = list[o]
  <2>1. \A c \in Members(list[o]) : vol.fat[c] # 0
    BY <1>1, <1>3, HoldsAllocated
  <2> QED BY <1>1, <1>3, <2>1, HoldsFits, HoldsReads DEF Free
<1> QED BY <1>2, <1>3 DEF Sound, Table

LEMMA LostIs ==
    ASSUME vol \in Volumes, list \in Lists
    PROVE  Lost = {} <=> Owned(vol.fat, list)
BY DEF Lost, Owned, Free

-------------------------------------------------------------------------------
(* The operations of the cluster manager, typed, and what they do to lists. *)

LEMMA VolumeIs ==
    ASSUME NEW v \in Volumes
    PROVE  /\ v = [fat |-> v.fat, dirty |-> v.dirty, disk |-> v.disk, hint |-> v.hint]
           /\ v.fat \in [Clusters -> Cell] /\ v.dirty \in SUBSET Clusters
           /\ v.disk \in [Clusters -> Cell] /\ v.hint \in 2..Entries
BY DEF Volumes

LEMMA SetIs ==
    ASSUME NEW v \in Volumes, NEW g \in [Clusters -> Cell]
    PROVE  Set(v, g) \in Volumes /\ Set(v, g).fat = g
<1> DEFINE marked == v.dirty \cup {c \in Clusters : g[c] # v.fat[c]}
           w == [fat |-> g, dirty |-> marked, disk |-> v.disk, hint |-> v.hint]
<1>1. CASE g = v.fat
  BY <1>1 DEF Set
<1>2. CASE g # v.fat
  <2>1. Set(v, g) = [v EXCEPT !.fat = g, !.dirty = marked]
    BY <1>2 DEF Set
  <2>2. marked \in SUBSET Clusters
    BY VolumeIs
  <2>3. Set(v, g) = w
    <3> HIDE DEF marked
    <3> QED BY <2>1, VolumeIs
  <2> HIDE DEF marked
  <2> QED BY <2>2, <2>3, VolumeIs DEF Volumes
<1> QED BY <1>1, <1>2

LEMMA FlushedIs ==
    ASSUME NEW v \in Volumes
    PROVE  Flushed(v) \in Volumes /\ Flushed(v).fat = v.fat
<1> DEFINE table == [c \in Clusters |-> IF c \in v.dirty THEN v.fat[c] ELSE v.disk[c]]
           w == [fat |-> v.fat, dirty |-> {}, disk |-> table, hint |-> v.hint]
<1>1. Flushed(v) = [v EXCEPT !.disk = table, !.dirty = {}]
  BY DEF Flushed
<1>2. table \in [Clusters -> Cell]
  BY VolumeIs
<1>3. Flushed(v) = w
  <2> HIDE DEF table
  <2> QED BY <1>1, VolumeIs
<1> HIDE DEF table
<1> QED BY <1>2, <1>3, VolumeIs DEF Volumes

LEMMA HintIs ==
    ASSUME NEW v \in Volumes, NEW h \in 2..Entries
    PROVE  [v EXCEPT !.hint = h] \in Volumes /\ [v EXCEPT !.hint = h].fat = v.fat
BY DEF Volumes

LEMMA HintsAre ==
    ASSUME NEW v \in Volumes
    PROVE  /\ \A c : Hinted(v, c) \in Volumes /\ Hinted(v, c).fat = v.fat
           /\ \A c \in Clusters : HintAfter(v, c) \in Volumes /\ HintAfter(v, c).fat = v.fat
<1>1. \A c \in Clusters : c \in 2..Entries /\ (IF c + 1 < Entries THEN c + 1 ELSE 2) \in 2..Entries
  BY ClusterNumbers DEF Clusters
<1> QED BY <1>1, HintIs DEF Hinted, HintAfter

-------------------------------------------------------------------------------
(* Chains.                                                                 *)

LEMMA FreedType ==
    ASSUME NEW v \in Volumes, NEW s
    PROVE  Freed(v, s) \in Volumes
<1> DEFINE gone == Members(Chain(v.fat, s[1]))
           g == [c \in Clusters |-> IF c \in gone THEN 0 ELSE v.fat[c]]
<1>1. g \in [Clusters -> Cell]
  <2> HIDE DEF gone
  <2> QED BY VolumeIs DEF Cell
<1>2. Freed(v, s) = IF s = <<>> THEN v ELSE Set(v, g)
  BY DEF Freed
<1> HIDE DEF g
<1> QED BY <1>1, <1>2, SetIs

\* A list that is freed is free, and nothing else.
LEMMA FreedIs ==
    ASSUME NEW v \in Volumes, NEW s \in Seq(Clusters), Holds(v.fat, s)
    PROVE  Freed(v, s).fat = [c \in Clusters |-> IF c \in Members(s) THEN 0 ELSE v.fat[c]]
<1>0. v.fat \in [Clusters -> Cell]
  BY VolumeIs
<1>1. CASE s = <<>>
  <2>1. Members(s) = {} /\ Freed(v, s) = v
    BY <1>1, NoMembers DEF Freed
  <2> QED BY <1>0, <2>1
<1>2. CASE s # <<>>
  <2> DEFINE g == [c \in Clusters |-> IF c \in Members(s) THEN 0 ELSE v.fat[c]]
  <2>1. Chain(v.fat, s[1]) = s
    BY <1>2, HoldsReads DEF First
  <2>2. Freed(v, s) = Set(v, g)
    BY <1>2, <2>1 DEF Freed
  <2>3. g \in [Clusters -> Cell]
    BY <1>0 DEF Cell
  <2> HIDE DEF g
  <2>4. Freed(v, s).fat = g
    BY <2>2, <2>3, SetIs
  <2> QED BY <2>4 DEF g
<1> QED BY <1>1, <1>2

LEMMA EmptyHolds == \A fat : Holds(fat, <<>>)
BY DEF Holds

LEMMA FreedPuts ==
    ASSUME NEW v \in Volumes, NEW s \in Seq(Clusters), Holds(v.fat, s)
    PROVE  Puts(v.fat, s, Freed(v, s).fat, <<>>)
<1>1. Freed(v, s).fat \in [Clusters -> Cell]
  BY FreedType, VolumeIs
<1>2. \A c \in Clusters : Freed(v, s).fat[c] = IF c \in Members(s) THEN 0 ELSE v.fat[c]
  <2>1. Freed(v, s).fat = [c \in Clusters |-> IF c \in Members(s) THEN 0 ELSE v.fat[c]]
    BY FreedIs
  <2> QED BY <2>1
<1>3. <<>> \in Seq(Clusters)
  BY EmptySeq
<1> QED BY <1>1, <1>2, <1>3, EmptyHolds, NoMembers DEF Puts

LEMMA LinkedIs ==
    ASSUME NEW v \in Volumes, NEW s \in Seq(Clusters)
    PROVE  /\ Linked(v, s) \in Volumes
           /\ \A c \in Clusters \ Members(s) : Linked(v, s).fat[c] = v.fat[c]
           /\ (\A i, j \in 1..Len(s) : s[i] = s[j] => i = j) => Holds(Linked(v, s).fat, s)
<1> DEFINE Link(i) == IF i < Len(s) THEN s[i + 1] ELSE EndOfChain
           At(c) == CHOOSE i \in DOMAIN s : s[i] = c
           g == [c \in Clusters |-> IF c \in Members(s) THEN Link(At(c)) ELSE v.fat[c]]
<1>1. /\ Len(s) \in Nat /\ DOMAIN s = 1..Len(s) /\ (\A i \in 1..Len(s) : s[i] \in Clusters)
      /\ Members(s) = {s[i] : i \in 1..Len(s)}
  BY ListFacts
<1>2. ASSUME NEW c \in Members(s) PROVE At(c) \in 1..Len(s) /\ s[At(c)] = c
  <2>1. \E i \in DOMAIN s : s[i] = c
    BY <1>1
  <2> QED BY <1>1, <2>1
<1>3. ASSUME NEW i \in 1..Len(s) PROVE Link(i) \in Cell
  <2>1. i < Len(s) => i + 1 \in 1..Len(s)
    BY <1>1
  <2> QED BY <1>1, <2>1 DEF Cell
<1>4. Linked(v, s) = Set(v, g)
  BY DEF Linked
<1> HIDE DEF At
<1>5. g \in [Clusters -> Cell]
  <2> HIDE DEF Link
  <2> QED BY <1>2, <1>3, VolumeIs
<1>6. Linked(v, s) \in Volumes /\ Linked(v, s).fat = g
  <2> HIDE DEF g
  <2> QED BY <1>4, <1>5, SetIs
<1>7. ASSUME \A i, j \in 1..Len(s) : s[i] = s[j] => i = j, NEW i \in 1..Len(s)
      PROVE  g[s[i]] = Link(i)
  <2>1. s[i] \in Members(s) /\ s[i] \in Clusters
    BY <1>1
  <2>2. At(s[i]) = i
    BY <1>2, <1>7, <2>1
  <2> HIDE DEF Link
  <2> QED BY <2>1, <2>2
<1>8. (\A i, j \in 1..Len(s) : s[i] = s[j] => i = j) => Holds(g, s)
  <2> HIDE DEF g
  <2> QED BY <1>7 DEF Holds
<1>9. \A c \in Clusters \ Members(s) : g[c] = v.fat[c]
  <2> HIDE DEF Link
  <2> QED OBVIOUS
<1> HIDE DEF g
<1> QED BY <1>6, <1>8, <1>9

\* Free clusters that are linked are a list, and nothing else changes.
LEMMA LinkedPuts ==
    ASSUME NEW v \in Volumes, NEW s \in Seq(Clusters),
           \A i, j \in 1..Len(s) : s[i] = s[j] => i = j, \A c \in Members(s) : v.fat[c] = 0
    PROVE  Puts(v.fat, <<>>, Linked(v, s).fat, s)
<1>1. /\ Linked(v, s) \in Volumes
      /\ \A c \in Clusters \ Members(s) : Linked(v, s).fat[c] = v.fat[c]
      /\ Holds(Linked(v, s).fat, s)
  BY LinkedIs
<1>2. Linked(v, s).fat \in [Clusters -> Cell]
  BY <1>1, VolumeIs
<1> QED BY <1>1, <1>2, NoMembers DEF Puts

\* A list is there beside the old one, which is freed then.
LEMMA FreedBehind ==
    ASSUME NEW fat, NEW w \in Volumes, NEW old \in Seq(Clusters), NEW s,
           Holds(fat, old), Puts(fat, <<>>, w.fat, s)
    PROVE  Puts(fat, old, Freed(w, old).fat, s)
<1>0. s \in Seq(Clusters) /\ Holds(w.fat, s)
  BY DEF Puts
<1>1. \A c \in Members(old) : fat[c] # 0 /\ c \in Clusters
  BY HoldsAllocated, ListFacts
<1>2. \A c \in Members(old) : c \notin Members(s)
  BY <1>1, NoMembers DEF Puts
<1>3. \A c \in Members(old) : w.fat[c] = fat[c]
  BY <1>1, <1>2, NoMembers DEF Puts
<1>4. Holds(w.fat, old)
  BY <1>3, HoldsFrame
<1>5. Freed(w, old).fat = [c \in Clusters |-> IF c \in Members(old) THEN 0 ELSE w.fat[c]]
  BY <1>4, FreedIs
<1>6. Freed(w, old).fat \in [Clusters -> Cell]
  BY FreedType, VolumeIs
<1>7. \A c \in Members(s) : c \in Clusters /\ fat[c] = 0
  BY <1>0, ListFacts, NoMembers DEF Puts
<1>8. \A c \in Members(s) : Freed(w, old).fat[c] = w.fat[c]
  BY <1>2, <1>5, <1>7
<1>9. Holds(Freed(w, old).fat, s)
  BY <1>0, <1>8, HoldsFrame
<1>10. \A c \in Clusters : c \notin Members(s) =>
         Freed(w, old).fat[c] = IF c \in Members(old) THEN 0 ELSE fat[c]
  BY <1>5, NoMembers DEF Puts
<1> QED BY <1>0, <1>6, <1>7, <1>9, <1>10 DEF Puts

\* What was taken and is given back leaves the table as it was.
LEMMA GivenBack ==
    ASSUME NEW v \in Volumes, NEW w \in Volumes, NEW s, Puts(v.fat, <<>>, w.fat, s)
    PROVE  Freed(w, s).fat = v.fat
<1>1. s \in Seq(Clusters) /\ Holds(w.fat, s)
  BY DEF Puts
<1>2. Freed(w, s).fat = [c \in Clusters |-> IF c \in Members(s) THEN 0 ELSE w.fat[c]]
  BY <1>1, FreedIs
<1>3. \A c \in Clusters : (IF c \in Members(s) THEN 0 ELSE w.fat[c]) = v.fat[c]
  BY NoMembers DEF Puts
<1>4. v.fat \in [Clusters -> Cell]
  BY VolumeIs
<1> QED BY <1>2, <1>3, <1>4

\* A list grows at its end.
LEMMA AppendedPuts ==
    ASSUME NEW fat, NEW old \in Seq(Clusters), old # <<>>, Holds(fat, old),
           NEW t \in Seq(Clusters), \A c \in Members(t) : fat[c] = 0,
           NEW g \in [Clusters -> Cell], Holds(g, <<old[Len(old)]>> \o t),
           \A c \in Clusters \ Members(t) : c # old[Len(old)] => g[c] = fat[c]
    PROVE  Puts(fat, old, g, old \o t)
<1> DEFINE m == Len(old)
           s == old \o t
           u == <<old[m]>> \o t
<1>1. m \in Nat /\ m >= 1 /\ (\A i \in 1..m : old[i] \in Clusters /\ old[i] \in Members(old))
      /\ Members(old) = {old[i] : i \in 1..m} /\ Members(old) \subseteq Clusters
  BY ListFacts
<1>2. Len(t) \in Nat /\ (\A i \in 1..Len(t) : t[i] \in Clusters)
      /\ Members(t) = {t[i] : i \in 1..Len(t)}
  BY ListFacts
<1> HIDE DEF m
<1>3. <<old[m]>> \in Seq(Clusters) /\ Len(<<old[m]>>) = 1 /\ <<old[m]>>[1] = old[m]
  <2>1. old[m] \in Clusters
    BY <1>1
  <2> QED BY <2>1
<1>4. u \in Seq(Clusters) /\ Len(u) = 1 + Len(t)
      /\ \A i \in 1..(1 + Len(t)) : u[i] = IF i <= 1 THEN <<old[m]>>[i] ELSE t[i - 1]
  BY <1>3, ConcatProperties
<1>5. s \in Seq(Clusters) /\ Len(s) = m + Len(t)
      /\ \A i \in 1..(m + Len(t)) : s[i] = IF i <= m THEN old[i] ELSE t[i - m]
  BY ConcatProperties DEF m
<1>6. Holds(g, u)
  BY DEF m
<1> HIDE DEF s, u
<1>7. \A c \in Members(old) : fat[c] # 0
  BY HoldsAllocated
<1>8. ASSUME NEW i \in 1..Len(s) PROVE g[s[i]] = IF i < Len(s) THEN s[i + 1] ELSE EndOfChain
  <2>1. CASE i < m
    <3>1. s[i] = old[i] /\ s[i + 1] = old[i + 1] /\ i < Len(s) /\ i \in 1..m /\ m \in 1..m
      BY <1>1, <1>2, <1>5, <2>1
    <3>2. old[i] # old[m]
      BY <2>1, <3>1, <1>1, HoldsOnce DEF m
    <3>3. old[i] \in Clusters /\ old[i] \notin Members(t)
      BY <1>1, <1>7, <3>1
    <3>4. g[old[i]] = fat[old[i]]
      BY <3>2, <3>3 DEF m
    <3>5. fat[old[i]] = old[i + 1]
      BY <2>1, <3>1 DEF Holds, m
    <3> QED BY <3>1, <3>4, <3>5
  <2>2. CASE ~ (i < m)
    <3> DEFINE j == i - m + 1
    <3>1. j \in 1..Len(u) /\ (i < Len(s) <=> j < Len(u)) /\ i >= m
      BY <1>1, <1>2, <1>4, <1>5, <2>2
    <3>2. s[i] = u[j]
      <4>1. CASE i = m
        <5>1. j = 1 /\ i \in 1..(m + Len(t)) /\ 1 \in 1..(1 + Len(t))
          BY <1>1, <1>2, <4>1
        <5>2. s[i] = old[m]
          BY <1>5, <4>1, <5>1
        <5>3. u[1] = old[m]
          BY <1>3, <1>4, <5>1
        <5> QED BY <5>1, <5>2, <5>3
      <4>2. CASE i # m
        <5>0. i \in 1..(m + Len(t))
          BY <1>5
        <5>1. j > 1 /\ j - 1 = i - m /\ i > m /\ i \in 1..(m + Len(t)) /\ ~ (i <= m)
          BY <1>1, <1>2, <3>1, <4>2, <5>0
        <5>2. s[i] = t[i - m]
          BY <1>5, <5>1
        <5>3. u[j] = t[j - 1]
          <6> HIDE DEF j
          <6> QED BY <1>4, <3>1, <5>1
        <5> QED BY <5>1, <5>2, <5>3
      <4> QED BY <4>1, <4>2
    <3>3. i < Len(s) => s[i + 1] = u[j + 1]
      <4> SUFFICES ASSUME i < Len(s) PROVE s[i + 1] = u[j + 1]
        OBVIOUS
      <4>1. i + 1 \in 1..(m + Len(t)) /\ ~ (i + 1 <= m)
            /\ j + 1 \in 1..(1 + Len(t)) /\ ~ (j + 1 <= 1) /\ (j + 1) - 1 = (i + 1) - m
        BY <1>1, <1>2, <1>5, <3>1
      <4>2. s[i + 1] = t[(i + 1) - m]
        BY <1>5, <4>1
      <4>3. u[j + 1] = t[(j + 1) - 1]
        <5> HIDE DEF j
        <5> QED BY <1>4, <4>1
      <4> QED BY <4>1, <4>2, <4>3
    <3> HIDE DEF j
    <3> QED BY <1>6, <3>1, <3>2, <3>3 DEF Holds
  <2> QED BY <2>1, <2>2
<1>9. ASSUME NEW c \in Clusters
      PROVE  c \in Members(s) <=> c \in Members(old) \/ c \in Members(t)
  <2>1. Members(s) = {s[i] : i \in 1..(m + Len(t))}
    BY <1>5, ListFacts
  <2>2. ASSUME c \in Members(s) PROVE c \in Members(old) \/ c \in Members(t)
    <3>1. PICK i \in 1..(m + Len(t)) : c = s[i]
      BY <2>1, <2>2
    <3>2. i <= m \/ i - m \in 1..Len(t)
      BY <1>1, <1>2
    <3> QED BY <1>1, <1>2, <1>5, <3>1, <3>2
  <2>3. ASSUME c \in Members(old) PROVE c \in Members(s)
    <3>1. PICK i \in 1..m : c = old[i]
      BY <1>1, <2>3
    <3>2. i \in 1..(m + Len(t)) /\ i <= m
      BY <1>1, <1>2
    <3> QED BY <1>5, <2>1, <3>1, <3>2
  <2>4. ASSUME c \in Members(t) PROVE c \in Members(s)
    <3>1. PICK i \in 1..Len(t) : c = t[i]
      BY <1>2, <2>4
    <3>2. i + m \in 1..(m + Len(t)) /\ ~ (i + m <= m) /\ (i + m) - m = i
      BY <1>1, <1>2
    <3> QED BY <1>5, <2>1, <3>1, <3>2
  <2> QED BY <2>2, <2>3, <2>4
<1>10. \A c \in Members(s) : c \in Clusters
  BY <1>5, ListFacts
<1>11. \A c \in Members(s) : c \in Members(old) \/ fat[c] = 0
  BY <1>9, <1>10
<1>12. ASSUME NEW c \in Clusters, c \notin Members(s)
       PROVE  g[c] = IF c \in Members(old) THEN 0 ELSE fat[c]
  <2>1. c \notin Members(old) /\ c \notin Members(t)
    BY <1>9, <1>12
  <2>2. old[m] \in Members(old)
    BY <1>1
  <2> QED BY <2>1, <2>2 DEF m
<1>13. Holds(g, s)
  BY <1>8 DEF Holds
<1> QED BY <1>5, <1>11, <1>12, <1>13 DEF Puts, s

-------------------------------------------------------------------------------
(* Free clusters.                                                          *)

LEMMA IsAList ==
    ASSUME NEW n \in Nat, NEW S, NEW f \in [1..n -> S]
    PROVE  f \in Seq(S) /\ Len(f) = n
OBVIOUS

\* Of numbers that differ, counting those up to one of them meets every count.
LEMMA RanksCount ==
    ASSUME NEW S, IsFiniteSet(S), NEW r \in [S -> Nat], \A c, d \in S : r[c] = r[d] => c = d,
           NEW n \in 1..Cardinality(S)
    PROVE  \E c \in S : Cardinality({d \in S : r[d] <= r[c]}) = n
<1> DEFINE B(c) == {d \in S : r[d] <= r[c]}
           N == Cardinality(S)
           f == [c \in S |-> Cardinality(B(c))]
<1>1. N \in Nat
  BY FS_CardinalityType
<1>2. ASSUME NEW c \in S
      PROVE  IsFiniteSet(B(c)) /\ Cardinality(B(c)) \in 1..N
  <2>1. B(c) \in SUBSET S /\ c \in B(c)
    OBVIOUS
  <2> HIDE DEF B
  <2>2. IsFiniteSet(B(c)) /\ Cardinality(B(c)) <= N
    BY <2>1, FS_Subset
  <2>3. Cardinality(B(c)) \in Nat /\ Cardinality(B(c)) # 0
    BY <2>1, <2>2, FS_CardinalityType, FS_EmptySet
  <2> QED BY <1>1, <2>2, <2>3
<1>3. ASSUME NEW c \in S, NEW d \in S, r[c] < r[d] PROVE Cardinality(B(c)) # Cardinality(B(d))
  <2>1. \A e \in S : r[e] \in Nat
    OBVIOUS
  <2>2. B(c) \subseteq B(d) /\ d \in B(d) /\ d \notin B(c)
    BY <1>3, <2>1
  <2>3. IsFiniteSet(B(d))
    BY <1>2
  <2> HIDE DEF B
  <2> QED BY <2>2, <2>3, FS_Subset
<1>4. ASSUME NEW c \in S, NEW d \in S, c # d PROVE f[c] # f[d]
  <2>1. r[c] < r[d] \/ r[d] < r[c]
    BY <1>4
  <2> HIDE DEF B
  <2> QED BY <1>3, <2>1
<1>5. f \in Injection(S, 1..N)
  <2>1. f \in [S -> 1..N]
    BY <1>2
  <2> HIDE DEF f
  <2> QED BY <1>4, <2>1, Zenon DEF Injection, IsInjective
<1>6. IsFiniteSet(1..N) /\ Cardinality(1..N) = N
  <2>1. 1 \in Int /\ N \in Int
    BY <1>1
  <2>2. IsFiniteSet(1..N) /\ Cardinality(1..N) = IF 1 > N THEN 0 ELSE N - 1 + 1
    BY <2>1, FS_Interval
  <2> QED BY <1>1, <2>2
<1>7. f \in Surjection(S, 1..N)
  <2> HIDE DEF f
  <2> QED BY <1>5, <1>6, FS_Injection DEF N
<1>8. PICK c \in S : f[c] = n
  <2> HIDE DEF f
  <2> QED BY <1>7, Zenon DEF Surjection, N
<1> QED BY <1>8

\* findFreeFromHint comes by every free cluster, and by each once.
LEMMA UpcomingIs ==
    ASSUME NEW v \in Volumes
    PROVE  /\ Upcoming(v) \in Seq(Clusters)
           /\ \A i, j \in 1..Len(Upcoming(v)) : Upcoming(v)[i] = Upcoming(v)[j] => i = j
           /\ \A i \in 1..Len(Upcoming(v)) : v.fat[Upcoming(v)[i]] = 0
           /\ Free(v) # {} => Len(Upcoming(v)) > 0
<1> DEFINE free == Free(v)
           N == Cardinality(free)
           Rank(c) == IF c >= Begin(v) THEN c ELSE c + Entries
           Upto(c) == Cardinality({d \in free : Rank(d) <= Rank(c)})
           At(n) == CHOOSE c \in free : Upto(c) = n
           up == [n \in 1..N |-> At(n)]
           r == [c \in free |-> Rank(c)]
<1>1. Upcoming(v) = up
  BY DEF Upcoming
<1>2. free \subseteq Clusters /\ (\A c \in free : v.fat[c] = 0)
  BY DEF Free
<1>3. IsFiniteSet(free) /\ N \in Nat
  <2>1. IsFiniteSet(free)
    BY <1>2, ClusterCount, FS_Subset
  <2> QED BY <2>1, FS_CardinalityType
<1>4. \A c \in Clusters : c \in Nat /\ c >= 2 /\ c < Entries
  BY ClusterNumbers DEF Clusters
<1>5. Begin(v) \in 2..(Entries - 1) /\ Entries \in Nat
  <2>1. v.hint \in 2..Entries
    BY VolumeIs
  <2> QED BY <2>1, ClusterNumbers DEF Begin
<1> HIDE DEF free
<1>6. ASSUME NEW c \in free, NEW d \in free
      PROVE  Rank(c) \in Nat /\ (Rank(c) = Rank(d) => c = d)
  <2>1. c \in Nat /\ c >= 2 /\ c < Entries /\ d \in Nat /\ d >= 2 /\ d < Entries
    BY <1>2, <1>4
  <2> QED BY <1>5, <2>1
<1>7. r \in [free -> Nat] /\ (\A c, d \in free : r[c] = r[d] => c = d)
      /\ (\A c \in free : r[c] = Rank(c))
  <2> HIDE DEF Rank
  <2> QED BY <1>6
<1>8. ASSUME NEW n \in 1..N PROVE At(n) \in free /\ Upto(At(n)) = n
  <2> HIDE DEF r, Rank
  <2>1. \E c \in free : Cardinality({d \in free : r[d] <= r[c]}) = n
    <3>1. IsFiniteSet(free)
      BY <1>3
    <3>2. r \in [free -> Nat]
      BY <1>7
    <3>3. \A c, d \in free : r[c] = r[d] => c = d
      BY <1>7
    <3>4. n \in 1..Cardinality(free)
      OBVIOUS
    <3> HIDE DEF N
    <3> QED BY <3>1, <3>2, <3>3, <3>4, RanksCount
  <2>2. \A c \in free : {d \in free : r[d] <= r[c]} = {d \in free : Rank(d) <= Rank(c)}
    BY <1>7
  <2>3. \E c \in free : Upto(c) = n
    BY <2>1, <2>2
  <2> HIDE DEF Upto
  <2> QED BY <2>3
<1> HIDE DEF Upto, At
<1>9. up \in [1..N -> Clusters]
  BY <1>2, <1>8
<1>10. up \in Seq(Clusters) /\ Len(up) = N
  <2> HIDE DEF up, N
  <2> QED BY <1>3, <1>9, IsAList
<1>11. \A i, j \in 1..N : up[i] = up[j] => i = j
  <2> SUFFICES ASSUME NEW i \in 1..N, NEW j \in 1..N, At(i) = At(j) PROVE i = j
    OBVIOUS
  <2> QED BY <1>8
<1>12. \A i \in 1..N : v.fat[up[i]] = 0
  BY <1>2, <1>8
<1>13. free # {} => N > 0
  BY <1>3, FS_EmptySet
<1> QED
  <2> HIDE DEF N, up
  <2> QED BY <1>1, <1>10, <1>11, <1>12, <1>13 DEF free

\* What is picked was free, and is linked as a list.
LEMMA PickedIs ==
    ASSUME NEW v \in Volumes, NEW n \in Nat
    PROVE  /\ Picked(v, n).vol \in Volumes
           /\ Picked(v, n).list \in Seq(Clusters)
           /\ Len(Picked(v, n).list) <= n
           /\ Puts(v.fat, <<>>, Picked(v, n).vol.fat, Picked(v, n).list)
<1> DEFINE up == Upcoming(v)
           k == IF n < Len(up) THEN n ELSE Len(up)
           s == SubSeq(up, 1, k)
           w == HintAfter(v, s[Len(s)])
<1>1. /\ up \in Seq(Clusters) /\ (\A i, j \in 1..Len(up) : up[i] = up[j] => i = j)
      /\ \A i \in 1..Len(up) : v.fat[up[i]] = 0
  BY UpcomingIs
<1>2. Picked(v, n) = [vol |-> IF s = <<>> THEN v ELSE Linked(w, s), list |-> s]
  BY DEF Picked
<1> HIDE DEF up
<1>3. k \in 0..Len(up) /\ k <= n /\ Len(up) \in Nat /\ \A i \in 1..Len(up) : up[i] \in Clusters
  BY <1>1, ListFacts
<1>4. s \in Seq(Clusters) /\ Len(s) = k /\ \A i \in 1..k : s[i] = up[i]
  <2> HIDE DEF k
  <2>1. 1 \in Int /\ k \in Int /\ \A i \in 1..k : up[i] \in Clusters
    BY <1>3
  <2>2. SubSeq(up, 1, k) \in Seq(Clusters)
        /\ Len(SubSeq(up, 1, k)) = (IF 1 <= k THEN k - 1 + 1 ELSE 0)
        /\ \A i \in 1..(k - 1 + 1) : SubSeq(up, 1, k)[i] = up[1 + i - 1]
    BY <2>1, SubSeqProperties
  <2>3. (IF 1 <= k THEN k - 1 + 1 ELSE 0) = k /\ k - 1 + 1 = k
    BY <1>3
  <2>4. \A i \in 1..k : 1 + i - 1 = i
    BY <1>3
  <2> QED BY <2>2, <2>3, <2>4
<1> HIDE DEF k, s
<1>5. /\ \A i, j \in 1..Len(s) : s[i] = s[j] => i = j
      /\ \A c \in Members(s) : v.fat[c] = 0
  <2>1. \A i \in 1..k : i \in 1..Len(up)
    BY <1>3
  <2>2. Members(s) = {s[i] : i \in 1..k}
    BY <1>4, ListFacts
  <2> QED BY <1>1, <1>4, <2>1, <2>2
<1>6. CASE s = <<>>
  <2>1. Holds(v.fat, s) /\ v.fat \in [Clusters -> Cell] /\ Members(s) = {}
    BY <1>6, EmptyHolds, VolumeIs, NoMembers
  <2>2. Puts(v.fat, <<>>, v.fat, s)
    BY <1>4, <2>1, NoMembers DEF Puts
  <2> QED BY <1>2, <1>3, <1>4, <1>6, <2>2
<1>7. CASE s # <<>>
  <2>1. s[Len(s)] \in Clusters
    <3>1. Len(s) \in 1..Len(s)
      BY <1>4, <1>7, ListFacts
    <3> QED BY <1>4, <3>1, ListFacts
  <2>2. w \in Volumes /\ w.fat = v.fat
    BY <2>1, HintsAre
  <2> HIDE DEF w
  <2>3. Linked(w, s) \in Volumes /\ Puts(v.fat, <<>>, Linked(w, s).fat, s)
    BY <1>4, <1>5, <2>2, LinkedIs, LinkedPuts
  <2> QED BY <1>2, <1>3, <1>4, <1>7, <2>3
<1> QED BY <1>6, <1>7

\* There is something to pick while a cluster is free.
LEMMA PickedSome ==
    ASSUME NEW v \in Volumes, Free(v) # {}
    PROVE  /\ Picked(v, 1).list = <<Upcoming(v)[1]>>
           /\ Upcoming(v)[1] \in Clusters
<1> DEFINE up == Upcoming(v)
<1>1. up \in Seq(Clusters) /\ Len(up) > 0
  BY UpcomingIs
<1> HIDE DEF up
<1>2. Len(up) \in Nat /\ Len(up) >= 1 /\ up[1] \in Clusters
  BY <1>1, ListFacts
<1>3. (IF 1 < Len(up) THEN 1 ELSE Len(up)) = 1
  BY <1>2
<1>4. SubSeq(up, 1, 1) = <<up[1]>>
  <2>1. 1 \in Int /\ \A i \in 1..1 : up[i] \in Clusters
    BY <1>2
  <2>2. /\ SubSeq(up, 1, 1) \in Seq(Clusters)
        /\ Len(SubSeq(up, 1, 1)) = IF 1 <= 1 THEN 1 - 1 + 1 ELSE 0
        /\ \A i \in 1..(1 - 1 + 1) : SubSeq(up, 1, 1)[i] = up[1 + i - 1]
    BY <2>1, SubSeqProperties
  <2> DEFINE t == SubSeq(up, 1, 1)
  <2>3. t \in Seq(Clusters) /\ Len(t) = 1 /\ t[1] = up[1]
    BY <2>2
  <2> HIDE DEF t
  <2>4. t = <<up[1]>>
    BY <1>2, <2>3
  <2> QED BY <2>4 DEF t
<1>5. Picked(v, 1).list = SubSeq(up, 1, IF 1 < Len(up) THEN 1 ELSE Len(up))
  BY DEF Picked, up
<1>6. Picked(v, 1).list = <<up[1]>>
  BY <1>3, <1>4, <1>5
<1> QED BY <1>2, <1>6 DEF up

LEMMA LeastIn ==
    ASSUME NEW S, S \subseteq Nat, S # {}
    PROVE  Least(S) \in S /\ \A y \in S : Least(S) <= y
<1> DEFINE R == OpToRel(<, Nat)
<1>1. IsWellFoundedOn(R, Nat)
  BY NatLessThanWellFounded
<1>2. \A p, q \in Nat : p < q => <<p, q>> \in R
  BY DEF OpToRel
<1> HIDE DEF R
<1>3. PICK x \in S : \A y \in S : ~ (<<y, x>> \in R)
  BY <1>1, WFMin
<1>4. ASSUME NEW y \in S PROVE x <= y
  <2>1. x \in Nat /\ y \in Nat /\ ~ (y < x)
    BY <1>2, <1>3
  <2> QED BY <2>1
<1>5. \E z \in S : \A y \in S : z <= y
  BY <1>4
<1> QED BY <1>5 DEF Least

\* A run that is found is free, and inside the table.
LEMMA FoundRun ==
    ASSUME NEW v \in Volumes, NEW n \in Nat \ {0}, FindRun(v, n) # 0
    PROVE  /\ FindRun(v, n) \in 2..(Entries - n)
           /\ \A i \in 0..(n - 1) : v.fat[FindRun(v, n) + i] = 0
<1> DEFINE Runs(lo, hi) == {c \in lo..(hi - n) : \A i \in 0..(n - 1) : v.fat[c + i] = 0}
           up == Runs(Begin(v), Entries)
           down == Runs(2, Begin(v))
           Good(c) == c \in 2..(Entries - n) /\ \A i \in 0..(n - 1) : v.fat[c + i] = 0
<1>0. Begin(v) \in 2..(Entries - 1) /\ Entries \in Nat
  <2>1. v.hint \in 2..Entries
    BY VolumeIs
  <2> QED BY <2>1, ClusterNumbers DEF Begin
<1>1. FindRun(v, n) = IF up # {} THEN Least(up) ELSE IF down # {} THEN Least(down) ELSE 0
  BY DEF FindRun
<1>2. (\A c \in up : Good(c)) /\ (\A c \in down : Good(c))
  <2>1. \A c \in Begin(v)..(Entries - n) : c \in 2..(Entries - n)
    BY <1>0
  <2>2. \A c \in 2..(Begin(v) - n) : c \in 2..(Entries - n)
    BY <1>0
  <2> QED BY <2>1, <2>2
<1>3. up \subseteq Nat /\ down \subseteq Nat
  BY <1>0
<1> HIDE DEF up, down
<1>4. up # {} => Least(up) \in up
  BY <1>3, LeastIn
<1>5. down # {} => Least(down) \in down
  BY <1>3, LeastIn
<1>6. Good(FindRun(v, n))
  <2> HIDE DEF Good
  <2> QED BY <1>1, <1>2, <1>4, <1>5
<1> QED BY <1>6

LEMMA AfterRunIs ==
    ASSUME NEW v \in Volumes, NEW n \in Nat \ {0}
    PROVE  AfterRun(v, FindRun(v, n), n) \in Volumes /\ AfterRun(v, FindRun(v, n), n).fat = v.fat
<1> DEFINE run == FindRun(v, n)
<1>1. CASE run = 0
  BY <1>1 DEF AfterRun
<1>2. CASE run # 0
  <2>1. run \in 2..(Entries - n)
    BY <1>2, FoundRun
  <2> HIDE DEF run
  <2>2. run + n \in 2..Entries
    BY <2>1, ClusterNumbers
  <2>3. AfterRun(v, run, n) = [v EXCEPT !.hint = run + n]
    BY <1>2 DEF AfterRun
  <2> QED BY <2>2, <2>3, HintIs DEF run
<1> QED BY <1>1, <1>2

LEMMA RunIs ==
    ASSUME NEW n \in Nat, NEW c \in Nat, c >= 2, c + n <= Entries
    PROVE  /\ Run(c, n) \in Seq(Clusters) /\ Len(Run(c, n)) = n
           /\ \A i \in 1..n : Run(c, n)[i] = c + i - 1
           /\ \A i, j \in 1..n : Run(c, n)[i] = Run(c, n)[j] => i = j
           /\ Members(Run(c, n)) = {c + i - 1 : i \in 1..n}
<1> DEFINE s == Run(c, n)
<1>1. \A i \in 1..n : c + i - 1 \in Clusters
  BY ClusterNumbers DEF Clusters
<1>2. s \in [1..n -> Clusters] /\ (\A i \in 1..n : s[i] = c + i - 1) /\ DOMAIN s = 1..n
  BY <1>1 DEF Run
<1> HIDE DEF s
<1>3. s \in Seq(Clusters) /\ Len(s) = n
  BY <1>2, IsAList
<1>4. \A i, j \in 1..n : s[i] = s[j] => i = j
  BY <1>2
<1>5. Members(s) = {c + i - 1 : i \in 1..n}
  BY <1>2 DEF Members
<1> QED BY <1>2, <1>3, <1>4, <1>5 DEF s

\* A cluster and a list behind it.
LEMMA BehindOne ==
    ASSUME NEW a \in Clusters, NEW t \in Seq(Clusters)
    PROVE  /\ <<a>> \o t \in Seq(Clusters) /\ Len(<<a>> \o t) = 1 + Len(t)
           /\ \A i \in 1..(1 + Len(t)) : (<<a>> \o t)[i] = IF i = 1 THEN a ELSE t[i - 1]
           /\ Members(<<a>> \o t) = {a} \cup Members(t)
           /\ a \notin Members(t) /\ (\A i, j \in 1..Len(t) : t[i] = t[j] => i = j)
              => \A i, j \in 1..Len(<<a>> \o t) : (<<a>> \o t)[i] = (<<a>> \o t)[j] => i = j
<1> DEFINE u == <<a>> \o t
<1>1. <<a>> \in Seq(Clusters) /\ Len(<<a>>) = 1 /\ <<a>>[1] = a
  OBVIOUS
<1>2. Len(t) \in Nat /\ Members(t) = {t[i] : i \in 1..Len(t)} /\ (\A i \in 1..Len(t) : t[i] \in Members(t))
  BY ListFacts
<1>3. u \in Seq(Clusters) /\ Len(u) = 1 + Len(t)
      /\ \A i \in 1..(1 + Len(t)) : u[i] = IF i <= 1 THEN <<a>>[i] ELSE t[i - 1]
  BY <1>1, ConcatProperties
<1> HIDE DEF u
<1>4. \A i \in 1..(1 + Len(t)) : u[i] = IF i = 1 THEN a ELSE t[i - 1]
  <2> SUFFICES ASSUME NEW i \in 1..(1 + Len(t)) PROVE u[i] = IF i = 1 THEN a ELSE t[i - 1]
    OBVIOUS
  <2>1. i <= 1 <=> i = 1
    BY <1>2
  <2> QED BY <1>1, <1>3, <2>1
<1>5. Members(u) = {a} \cup Members(t)
  <2>1. Members(u) = {u[i] : i \in 1..(1 + Len(t))}
    BY <1>3, ListFacts
  <2>2. ASSUME NEW i \in 1..(1 + Len(t)) PROVE u[i] \in {a} \cup Members(t)
    <3>1. i # 1 => i - 1 \in 1..Len(t)
      BY <1>2
    <3> QED BY <1>2, <1>4, <3>1
  <2>3. a \in Members(u)
    <3>1. 1 \in 1..(1 + Len(t))
      BY <1>2
    <3> QED BY <1>4, <2>1, <3>1
  <2>4. ASSUME NEW i \in 1..Len(t) PROVE t[i] \in Members(u)
    <3>1. i + 1 \in 1..(1 + Len(t)) /\ i + 1 # 1 /\ (i + 1) - 1 = i
      BY <1>2
    <3>2. u[i + 1] = t[i]
      BY <1>4, <3>1
    <3> QED BY <2>1, <3>1, <3>2
  <2> QED BY <1>2, <2>1, <2>2, <2>3, <2>4
<1>6. ASSUME a \notin Members(t), \A i, j \in 1..Len(t) : t[i] = t[j] => i = j,
             NEW i \in 1..(1 + Len(t)), NEW j \in 1..(1 + Len(t)), u[i] = u[j]
      PROVE  i = j
  <2>1. i # 1 => i - 1 \in 1..Len(t) /\ u[i] = t[i - 1] /\ t[i - 1] # a
    <3>1. i # 1 => i - 1 \in 1..Len(t)
      BY <1>2
    <3> QED BY <1>2, <1>4, <1>6, <3>1
  <2>2. j # 1 => j - 1 \in 1..Len(t) /\ u[j] = t[j - 1] /\ t[j - 1] # a
    <3>1. j # 1 => j - 1 \in 1..Len(t)
      BY <1>2
    <3> QED BY <1>2, <1>4, <1>6, <3>1
  <2>3. i = 1 => u[i] = a
    BY <1>4
  <2>4. j = 1 => u[j] = a
    BY <1>4
  <2>5. i # 1 /\ j # 1 => i - 1 = j - 1
    BY <1>6, <2>1, <2>2
  <2> QED BY <1>6, <2>1, <2>2, <2>3, <2>4, <2>5
<1> QED BY <1>3, <1>4, <1>5, <1>6 DEF u

-------------------------------------------------------------------------------
(* Growing.                                                                *)

\* What growing a list from old promises: a list and a volume of the right type,
\* the table as it was when it fails, and when it does not, as Puts says.
Grows(v, old, r) ==
    /\ r.vol \in Volumes
    /\ r.list \in Seq(Clusters)
    /\ r.threw \in BOOLEAN
    /\ Holds(v.fat, old) =>
          IF r.threw THEN r.vol.fat = v.fat ELSE Puts(v.fat, old, r.vol.fat, r.list)

LEMMA MovedGrows ==
    ASSUME NEW v \in Volumes, NEW old \in Seq(Clusters), NEW n \in Nat \ {0}
    PROVE  Grows(v, old, Moved(v, old, n))
<1> DEFINE run == FindRun(v, n)
           w == AfterRun(v, run, n)
           s == Run(run, n)
           x == Linked(w, s)
           y == Freed(x, old)
<1>1. w \in Volumes /\ w.fat = v.fat
  BY AfterRunIs
<1>2. Moved(v, old, n) = IF run = 0 THEN Failed(w, old) ELSE Done(Flushed(y), s)
  BY DEF Moved
<1>3. CASE run = 0
  <2> HIDE DEF run, w, y, s
  <2> QED BY <1>1, <1>2, <1>3 DEF Failed, Grows
<1>4. CASE run # 0
  <2>1. run \in 2..(Entries - n) /\ \A i \in 0..(n - 1) : v.fat[run + i] = 0
    BY <1>4, FoundRun
  <2> HIDE DEF run
  <2>2. run \in Nat /\ run >= 2 /\ run + n <= Entries
    BY <2>1, ClusterNumbers
  <2>3. /\ s \in Seq(Clusters) /\ Len(s) = n
        /\ \A i, j \in 1..n : s[i] = s[j] => i = j
        /\ Members(s) = {run + i - 1 : i \in 1..n}
    BY <2>2, RunIs
  <2>4. \A c \in Members(s) : w.fat[c] = 0
    <3>1. ASSUME NEW i \in 1..n PROVE v.fat[run + i - 1] = 0
      <4>1. i - 1 \in 0..(n - 1) /\ run + (i - 1) = run + i - 1
        BY <2>2
      <4> QED BY <2>1, <4>1
    <3> HIDE DEF w
    <3> QED BY <1>1, <2>3, <3>1
  <2> HIDE DEF w, s
  <2>5. x \in Volumes /\ Puts(v.fat, <<>>, x.fat, s)
    BY <1>1, <2>3, <2>4, LinkedIs, LinkedPuts
  <2> HIDE DEF x
  <2>6. y \in Volumes /\ (Holds(v.fat, old) => Puts(v.fat, old, y.fat, s))
    BY <2>5, FreedType, FreedBehind
  <2> HIDE DEF y
  <2>7. Flushed(y) \in Volumes /\ Flushed(y).fat = y.fat
    BY <2>6, FlushedIs
  <2>8. Moved(v, old, n) = Done(Flushed(y), s)
    BY <1>2, <1>4
  <2> QED BY <2>3, <2>6, <2>7, <2>8 DEF Done, Grows
<1> QED BY <1>3, <1>4

LEMMA ScatteredGrows ==
    ASSUME NEW v \in Volumes, NEW old \in Seq(Clusters), NEW n \in Nat
    PROVE  Grows(v, old, Scattered(v, old, n))
<1> DEFINE p == Picked(v, n)
           y == Freed(p.vol, old)
           z == Freed(p.vol, p.list)
<1>1. Scattered(v, old, n) = IF Len(p.list) < n THEN Failed(z, old) ELSE Done(Flushed(y), p.list)
  BY DEF Scattered
<1>2. p.vol \in Volumes /\ p.list \in Seq(Clusters) /\ Puts(v.fat, <<>>, p.vol.fat, p.list)
  BY PickedIs
<1> HIDE DEF p
<1>3. z \in Volumes /\ z.fat = v.fat
  BY <1>2, FreedType, GivenBack
<1>4. y \in Volumes /\ (Holds(v.fat, old) => Puts(v.fat, old, y.fat, p.list))
  BY <1>2, FreedType, FreedBehind
<1> HIDE DEF y, z
<1>5. Flushed(y) \in Volumes /\ Flushed(y).fat = y.fat
  BY <1>4, FlushedIs
<1>6. CASE Len(p.list) < n
  BY <1>1, <1>3, <1>6 DEF Failed, Grows
<1>7. CASE ~ (Len(p.list) < n)
  BY <1>1, <1>2, <1>4, <1>5, <1>7 DEF Done, Grows
<1> QED BY <1>6, <1>7

LEMMA GrownGrows ==
    ASSUME NEW v \in Volumes, NEW old \in Seq(Clusters), NEW n \in Nat \ {0}
    PROVE  Grows(v, old, Grown(v, old, n))
<1> DEFINE run == FindRun(v, n)
           w == AfterRun(v, run, n)
<1>1. w \in Volumes /\ w.fat = v.fat
  BY AfterRunIs
<1>2. Grown(v, old, n) = IF run # 0 THEN Moved(w, old, n) ELSE Scattered(v, old, n)
  BY DEF Grown
<1>3. Grows(v, old, Scattered(v, old, n))
  BY ScatteredGrows
<1> HIDE DEF run, w
<1>4. Grows(w, old, Moved(w, old, n))
  BY <1>1, MovedGrows
<1>5. Grows(v, old, Moved(w, old, n))
  BY <1>1, <1>4 DEF Grows
<1> QED BY <1>2, <1>3, <1>5

LEMMA GrownInPlaceGrows ==
    ASSUME NEW v \in Volumes, NEW old \in Seq(Clusters), NEW n \in Nat, n > Len(old),
           old # <<>>, Behind(v, old, n) = "free"
    PROVE  Grows(v, old, GrownInPlace(v, old, n))
<1> DEFINE tail == old[Len(old)]
           k == n - Len(old)
           t == Run(tail + 1, k)
           u == <<tail>> \o t
           x == Linked(v, u)
           stops == {i \in 1..k : tail + i >= Entries \/ v.fat[tail + i] # 0}
<1>1. GrownInPlace(v, old, n) = Done(Flushed(x), old \o t)
  BY DEF GrownInPlace
<1>2. Len(old) \in Nat /\ k \in Nat \ {0} /\ tail \in Clusters /\ tail \in Nat /\ tail >= 2
  <2>1. Len(old) \in 1..Len(old)
    BY ListFacts
  <2> QED BY <2>1, ListFacts, ClusterNumbers DEF Clusters
<1>3. stops = {}
  BY DEF Behind
<1> HIDE DEF tail, k
<1>4. \A i \in 1..k : tail + i < Entries /\ v.fat[tail + i] = 0
  <2> SUFFICES ASSUME NEW i \in 1..k PROVE tail + i < Entries /\ v.fat[tail + i] = 0
    OBVIOUS
  <2>1. i \notin stops
    BY <1>3
  <2>2. ~ (tail + i >= Entries) /\ v.fat[tail + i] = 0
    BY <2>1
  <2>3. tail + i \in Nat /\ Entries \in Nat
    BY <1>2, ClusterNumbers
  <2> HIDE DEF stops
  <2> QED BY <2>2, <2>3
<1>5. tail + 1 \in Nat /\ tail + 1 >= 2 /\ (tail + 1) + k <= Entries
  <2>1. tail + k < Entries
    BY <1>2, <1>4
  <2> QED BY <1>2, <2>1, ClusterNumbers
<1>6. /\ t \in Seq(Clusters) /\ Len(t) = k
      /\ \A i, j \in 1..k : t[i] = t[j] => i = j
      /\ Members(t) = {(tail + 1) + i - 1 : i \in 1..k}
  BY <1>2, <1>5, RunIs
<1>7. tail \notin Members(t) /\ \A c \in Members(t) : v.fat[c] = 0
  <2>1. ASSUME NEW i \in 1..k
        PROVE  (tail + 1) + i - 1 # tail /\ v.fat[(tail + 1) + i - 1] = 0
    <3>1. (tail + 1) + i - 1 = tail + i /\ tail + i # tail
      BY <1>2
    <3> QED BY <1>4, <3>1
  <2> HIDE DEF t
  <2> QED BY <1>6, <2>1
<1> HIDE DEF t
<1>8. /\ u \in Seq(Clusters) /\ Members(u) = {tail} \cup Members(t)
      /\ \A i, j \in 1..Len(u) : u[i] = u[j] => i = j
  BY <1>2, <1>6, <1>7, BehindOne
<1>9. /\ x \in Volumes
      /\ \A c \in Clusters \ Members(u) : x.fat[c] = v.fat[c]
      /\ Holds(x.fat, u)
  <2> HIDE DEF u
  <2> QED BY <1>8, LinkedIs
<1>10. x.fat \in [Clusters -> Cell]
  <2> HIDE DEF x
  <2> QED BY <1>9, VolumeIs
<1> HIDE DEF x
<1>11. ASSUME Holds(v.fat, old) PROVE Puts(v.fat, old, x.fat, old \o t)
  <2>1. \A c \in Clusters \ Members(t) : c # old[Len(old)] => x.fat[c] = v.fat[c]
    <3> HIDE DEF u
    <3> QED BY <1>8, <1>9 DEF tail
  <2>2. Holds(x.fat, <<old[Len(old)]>> \o t)
    BY <1>9 DEF tail
  <2> QED BY <1>6, <1>7, <1>10, <1>11, <2>1, <2>2, AppendedPuts
<1>12. Flushed(x) \in Volumes /\ Flushed(x).fat = x.fat
  BY <1>9, FlushedIs
<1>13. old \o t \in Seq(Clusters)
  BY <1>6, ConcatProperties
<1> QED BY <1>1, <1>11, <1>12, <1>13 DEF Done, Grows

\* A list that stays is put where it was.
LEMMA StaysPut ==
    ASSUME NEW v \in Volumes, NEW s \in Seq(Clusters), Holds(v.fat, s)
    PROVE  Puts(v.fat, s, v.fat, s)
BY VolumeIs DEF Puts

\* reallocClusters, whichever way it goes.
LEMMA ReallocGrows ==
    ASSUME NEW v \in Volumes, NEW old \in Seq(Clusters), NEW n \in Nat, n >= Len(old)
    PROVE  Grows(v, old, Realloc(v, old, n))
<1>1. Len(old) \in Nat /\ (old = <<>> <=> Len(old) = 0)
  BY ListFacts
<1>2. CASE n = Len(old)
  <2>1. Realloc(v, old, n) = Done(v, old)
    BY <1>2 DEF Realloc
  <2> QED BY <2>1, StaysPut DEF Done, Grows
<1>3. CASE n # Len(old)
  <2>1. n > Len(old) /\ n \in Nat \ {0}
    BY <1>1, <1>3
  <2>2. Grows(v, old, Failed(v, old))
    BY DEF Failed, Grows
  <2>3. Grows(v, old, Grown(v, old, n))
    BY <2>1, GrownGrows
  <2>4. old # <<>> /\ Behind(v, old, n) = "free" => Grows(v, old, GrownInPlace(v, old, n))
    BY <2>1, GrownInPlaceGrows
  <2> QED BY <1>3, <2>2, <2>3, <2>4 DEF Realloc
<1> QED BY <1>2, <1>3

\* One more cluster behind a list.
LEMMA ExtendedIs ==
    ASSUME NEW v \in Volumes, Free(v) # {}, NEW old \in Seq(Clusters), old # <<>>
    PROVE  /\ Extended(v, old[Len(old)]) \in Volumes
           /\ Append(old, Upcoming(v)[1]) \in Seq(Clusters)
           /\ Holds(v.fat, old) =>
                 Puts(v.fat, old, Extended(v, old[Len(old)]).fat, Append(old, Upcoming(v)[1]))
<1> DEFINE p == Picked(v, 1)
           c == Upcoming(v)[1]
           tail == old[Len(old)]
           g == [p.vol.fat EXCEPT ![tail] = c]
           x == Extended(v, tail)
<1>1. p.list = <<c>> /\ c \in Clusters
  BY PickedSome
<1>2. p.vol \in Volumes /\ Puts(v.fat, <<>>, p.vol.fat, p.list)
  BY PickedIs
<1>3. x = Set(p.vol, [p.vol.fat EXCEPT ![tail] = p.list[1]])
  BY DEF Extended
<1> HIDE DEF p, c
<1>4. p.list[1] = c
  BY <1>1
<1>5. tail \in Clusters
  <2>1. Len(old) \in 1..Len(old)
    BY ListFacts
  <2> QED BY <2>1, ListFacts
<1>6. g \in [Clusters -> Cell] /\ p.vol.fat \in [Clusters -> Cell]
  BY <1>1, <1>2, VolumeIs DEF Cell
<1>7. x = Set(p.vol, g)
  BY <1>3, <1>4
<1>8. x \in Volumes /\ x.fat = g
  <2> HIDE DEF g, x
  <2> QED BY <1>2, <1>6, <1>7, SetIs
<1>9. <<c>> \in Seq(Clusters) /\ Len(<<c>>) = 1 /\ <<c>>[1] = c /\ Members(<<c>>) = {c}
  BY <1>1 DEF Members
<1>10. Append(old, c) = old \o <<c>> /\ old \o <<c>> \in Seq(Clusters)
  BY <1>1, <1>9, AppendIsConcat, ConcatProperties
<1>11. ASSUME Holds(v.fat, old) PROVE Puts(v.fat, old, g, old \o <<c>>)
  <2>1. v.fat[c] = 0
    BY <1>1, <1>2, <1>9, NoMembers DEF Puts
  <2>2. tail \in Members(old)
    BY ListFacts
  <2>3. tail # c
    BY <1>11, <2>1, <2>2, HoldsAllocated
  <2>4. p.vol.fat[c] = EndOfChain
    BY <1>1, <1>2, <1>9 DEF Puts, Holds
  <2>5. g[tail] = c /\ g[c] = EndOfChain
    BY <1>1, <1>5, <1>6, <2>3, <2>4
  <2>6. \A d \in Clusters \ Members(<<c>>) : d # tail => g[d] = v.fat[d]
    BY <1>1, <1>2, <1>6, <1>9, NoMembers DEF Puts
  <2> HIDE DEF g
  <2> DEFINE u == <<tail>> \o <<c>>
  <2>7. Len(u) = 2 /\ u[1] = tail /\ u[2] = c
    <3>1. Len(u) = 1 + Len(<<c>>)
          /\ \A i \in 1..(1 + Len(<<c>>)) : u[i] = IF i = 1 THEN tail ELSE <<c>>[i - 1]
      BY <1>5, <1>9, BehindOne
    <3> HIDE DEF u
    <3> QED BY <1>9, <3>1
  <2>8. Holds(g, u)
    <3> HIDE DEF u
    <3>2. \A i \in 1..2 : i = 1 \/ i = 2
      OBVIOUS
    <3> QED BY <2>5, <2>7, <3>2 DEF Holds
  <2>9. \A d \in Members(<<c>>) : v.fat[d] = 0
    BY <1>9, <2>1
  <2>10. Holds(g, <<old[Len(old)]>> \o <<c>>)
    BY <2>8
  <2>11. \A d \in Clusters \ Members(<<c>>) : d # old[Len(old)] => g[d] = v.fat[d]
    BY <2>6
  <2> HIDE DEF u, tail
  <2>12. g \in [Clusters -> Cell] /\ <<c>> \in Seq(Clusters)
    BY <1>6, <1>9 DEF g
  <2> DEFINE t == <<c>>
  <2> HIDE DEF t
  <2>13. Puts(v.fat, old, g, old \o t)
    <3>1. t \in Seq(Clusters) /\ (\A d \in Members(t) : v.fat[d] = 0)
      BY <2>9, <2>12 DEF t
    <3>2. Holds(g, <<old[Len(old)]>> \o t)
      BY <2>10 DEF t
    <3>3. \A d \in Clusters \ Members(t) : d # old[Len(old)] => g[d] = v.fat[d]
      BY <2>11 DEF t
    <3> QED BY <1>11, <2>12, <3>1, <3>2, <3>3, AppendedPuts
  <2> QED BY <2>13 DEF t
<1> HIDE DEF g, x
<1> QED BY <1>8, <1>10, <1>11 DEF x, c

\* The list of the root directory begins with its cluster.
BeginsWithRoot(s) == s # <<>> /\ s[1] = 2

LEMMA RootChain ==
    ASSUME NEW fat
    PROVE  /\ Chain(fat, 2) \in Seq(Clusters)
           /\ BeginsWithRoot(Chain(fat, 2))
<1> DEFINE r == Chain(fat, 2)
<1>1. /\ r \in Seq(Clusters) /\ Along(fat, 2, r, 0)
      /\ Len(r) < Entries - 1 => Then(fat, 2, r) \notin Clusters
  BY ChainIs
<1> HIDE DEF r
<1>2. Len(r) \in Nat /\ (r = <<>> <=> Len(r) = 0)
  BY <1>1, ListFacts
<1>3. ASSUME r = <<>> PROVE FALSE
  <2>1. Then(fat, 2, r) = 2 /\ Len(r) < Entries - 1
    BY <1>2, <1>3, ClusterNumbers DEF Then
  <2> QED BY <1>1, <2>1, ClusterNumbers
<1>4. 1 \in (0 + 1)..Len(r)
  BY <1>2, <1>3
<1>5. r[1] = 2
  BY <1>1, <1>4 DEF Along
<1> QED BY <1>1, <1>3, <1>5 DEF r, BeginsWithRoot

\* An entry in the root directory, and the cluster it may need for that.
LEMMA PlacedIs ==
    ASSUME NEW v \in Volumes, NEW full \in BOOLEAN, list[Root] \in Seq(Clusters),
           BeginsWithRoot(list[Root])
    PROVE  /\ Placed(v, full).vol \in Volumes
           /\ Placed(v, full).list \in Seq(Clusters)
           /\ BeginsWithRoot(Placed(v, full).list)
           /\ Placed(v, full).threw \in BOOLEAN
           /\ Holds(v.fat, list[Root]) =>
                 Puts(v.fat, list[Root], Placed(v, full).vol.fat, Placed(v, full).list)
<1> DEFINE chain == Chain(v.fat, 2)
           w == Extended(v, chain[Len(chain)])
           s == Append(chain, Upcoming(v)[1])
           p == Placed(v, full)
<1>1. p = IF Loops(v.fat, 2) \/ (full /\ Free(v) = {}) THEN Failed(v, list[Root])
          ELSE IF full THEN Done(Flushed(w), s)
          ELSE Done(v, list[Root])
  BY DEF Placed
<1>2. chain \in Seq(Clusters) /\ BeginsWithRoot(chain) /\ chain # <<>>
  BY RootChain DEF BeginsWithRoot
<1>3. Holds(v.fat, list[Root]) => chain = list[Root]
  <2>1. First(list[Root]) = 2
    BY DEF First, BeginsWithRoot
  <2> QED BY <2>1, HoldsReads
<1>4. Holds(v.fat, list[Root]) => Puts(v.fat, list[Root], v.fat, list[Root])
  BY StaysPut
<1> HIDE DEF chain
<1>5. ASSUME Free(v) # {}
      PROVE  /\ w \in Volumes /\ s \in Seq(Clusters) /\ BeginsWithRoot(s)
             /\ Flushed(w) \in Volumes /\ Flushed(w).fat = w.fat
             /\ Holds(v.fat, chain) => Puts(v.fat, chain, w.fat, s)
  <2>1. w \in Volumes /\ s \in Seq(Clusters) /\ (Holds(v.fat, chain) => Puts(v.fat, chain, w.fat, s))
    BY <1>2, <1>5, ExtendedIs
  <2>2. BeginsWithRoot(s)
    <3>1. Upcoming(v)[1] \in Clusters
      BY <1>5, PickedSome
    <3>2. 1 \in 1..Len(chain)
      BY <1>2, ListFacts
    <3>3. s # <<>> /\ s[1] = chain[1]
      BY <1>2, <3>1, <3>2, AppendProperties
    <3> QED BY <1>2, <3>3 DEF BeginsWithRoot
  <2> HIDE DEF w
  <2> QED BY <2>1, <2>2, FlushedIs
<1> HIDE DEF w, s, p
<1>6. CASE p = Failed(v, list[Root]) \/ p = Done(v, list[Root])
  <2>1. p.vol = v /\ p.list = list[Root] /\ p.threw \in BOOLEAN
    <3>1. CASE p = Failed(v, list[Root])
      BY <3>1 DEF Failed
    <3>2. CASE p = Done(v, list[Root])
      BY <3>2 DEF Done
    <3> QED BY <1>6, <3>1, <3>2
  <2> QED BY <1>4, <2>1 DEF p
<1>7. CASE Free(v) # {} /\ p = Done(Flushed(w), s)
  <2>1. p.vol = Flushed(w) /\ p.list = s /\ p.threw \in BOOLEAN
    BY <1>7 DEF Done
  <2> QED BY <1>3, <1>5, <1>7, <2>1 DEF p
<1> QED BY <1>1, <1>6, <1>7

-------------------------------------------------------------------------------
(* The calls, and what they do to the files.                               *)

\* Types, and the cluster of the root directory, which no call moves.
Types ==
    /\ vol \in Volumes
    /\ list \in Lists
    /\ entry \in [Owners -> Clusters \cup {0}]
    /\ BeginsWithRoot(list[Root])
    /\ entry[Root] = 2

Tabled == Table(vol.fat, list)

AllOwned == Owned(vol.fat, list)

\* The steps that may damage files, and those that may lose clusters.
Damages ==
    \/ last'.call = "write" /\ last'.threw
    \/ last'.call = "mount" /\ ~Synced

Loses ==
    \/ last'.call \in {"rewrite", "respell"} /\ list[last'.owner] # <<>>
    \/ last'.call \in {"create", "rewrite", "respell", "write"} /\ last'.threw
    \/ last'.call = "mount" /\ ~Synced

Careful ==
    /\ Types'
    /\ Tabled => /\ Tabled' \/ Damages
                 /\ AllOwned => AllOwned' \/ Loses

LEMMA OwnerFacts ==
    /\ Root \in Owners
    /\ \A o \in Files : o \in Owners /\ o # Root
    /\ \A o \in Directories : o \in Owners
BY ClusterAssumption, Zenon DEF ClusterAssumption, Owners

LEMMA FirstType ==
    ASSUME NEW s \in Seq(Clusters)
    PROVE  First(s) \in Clusters \cup {0}
<1>1. s # <<>> => s[1] \in Clusters
  <2> SUFFICES ASSUME s # <<>> PROVE s[1] \in Clusters
    OBVIOUS
  <2>1. 1 \in 1..Len(s)
    BY ListFacts
  <2> QED BY <2>1, ListFacts
<1> QED BY <1>1 DEF First

\* A call that ends in a new entry keeps the files and loses no clusters, when
\* the list that is entered is in the table already.
LEMMA EnteredIs ==
    ASSUME Types, NEW call, NEW o \in Owners, o # Root, NEW v \in Volumes,
           NEW s \in Seq(Clusters), NEW full \in BOOLEAN, Entered(call, o, v, s, full)
    PROVE  /\ Types'
           /\ Table(v.fat, [list EXCEPT ![o] = s]) =>
                 /\ Tabled'
                 /\ Owned(v.fat, [list EXCEPT ![o] = s]) => AllOwned'
           /\ last'.call = call /\ last'.owner = o
<1> DEFINE p == Placed(v, full)
           l == [list EXCEPT ![o] = s]
<1>0. Root \in Owners
  BY OwnerFacts
<1>1. list[Root] \in Seq(Clusters) /\ BeginsWithRoot(list[Root])
  BY <1>0 DEF Types, Lists
<1>2. /\ p.vol \in Volumes /\ p.list \in Seq(Clusters) /\ BeginsWithRoot(p.list)
      /\ Holds(v.fat, list[Root]) => Puts(v.fat, list[Root], p.vol.fat, p.list)
  BY <1>1, PlacedIs
<1>3. /\ vol' = p.vol
      /\ list' = [list EXCEPT ![o] = s, ![Root] = p.list]
      /\ entry' = IF p.threw THEN entry ELSE [entry EXCEPT ![o] = First(s)]
      /\ Called(call, o, p.threw)
  BY DEF Entered
<1> HIDE DEF p
<1>4. l \in Lists /\ l[Root] = list[Root] /\ list' = [l EXCEPT ![Root] = p.list]
  BY <1>0, <1>3 DEF Types, Lists
<1> HIDE DEF l
<1>5. Types'
  <2>1. list' \in Lists /\ BeginsWithRoot(list'[Root])
    BY <1>0, <1>2, <1>4 DEF Lists
  <2>2. entry' \in [Owners -> Clusters \cup {0}] /\ entry'[Root] = 2
    BY <1>0, <1>3, FirstType DEF Types
  <2> QED BY <1>2, <1>3, <2>1, <2>2 DEF Types
<1>6. ASSUME Table(v.fat, l)
      PROVE  Tabled' /\ (Owned(v.fat, l) => AllOwned')
  <2>1. Puts(v.fat, l[Root], p.vol.fat, p.list)
    BY <1>0, <1>2, <1>4, <1>6 DEF Table
  <2>2. Table(p.vol.fat, [l EXCEPT ![Root] = p.list])
    BY <1>0, <1>4, <1>6, <2>1, PutsTable
  <2>3. Owned(v.fat, l) => Owned(p.vol.fat, [l EXCEPT ![Root] = p.list])
    BY <1>0, <1>4, <2>1, PutsOwned
  <2> QED BY <1>3, <1>4, <2>2, <2>3 DEF Tabled, AllOwned
<1>7. last'.call = call /\ last'.owner = o
  BY <1>3, CalledIs
<1> QED BY <1>5, <1>6, <1>7 DEF l

\* An overwrite that frees first.
LEMMA WriteCareful ==
    ASSUME Types, NEW o \in Files, NEW n \in Nat, NEW full \in BOOLEAN, WriteFile(o, n, TRUE, full)
    PROVE  Careful
<1> DEFINE v == Freed(vol, list[o])
           p == Picked(v, n)
           l == [list EXCEPT ![o] = <<>>]
           k == [list EXCEPT ![o] = p.list]
<1>0. o \in Owners /\ o # Root /\ vol \in Volumes /\ list \in Lists /\ list[o] \in Seq(Clusters)
  BY OwnerFacts DEF Types, Lists
<1>1. v \in Volumes
  BY <1>0, FreedType
<1>2. IF Len(p.list) < n
      THEN /\ vol' = Freed(p.vol, p.list)
           /\ Called("write", o, TRUE)
           /\ UNCHANGED <<list, entry>>
      ELSE Entered("write", o, p.vol, p.list, full)
  BY DEF WriteFile
<1> HIDE DEF v
<1>3. p.vol \in Volumes /\ p.list \in Seq(Clusters) /\ Puts(v.fat, <<>>, p.vol.fat, p.list)
  BY <1>1, PickedIs
<1>4. CASE Len(p.list) < n
  <2>1. vol' \in Volumes
    <3> HIDE DEF p
    <3> QED BY <1>2, <1>3, <1>4, FreedType
  <2>2. list' = list /\ entry' = entry /\ last'.call = "write" /\ last'.threw = TRUE
    BY <1>2, <1>4, CalledIs
  <2>3. Types'
    BY <2>1, <2>2 DEF Types
  <2> QED BY <2>2, <2>3 DEF Careful, Damages, Loses
<1>5. CASE ~ (Len(p.list) < n)
  <2> HIDE DEF p
  <2>1. Entered("write", o, p.vol, p.list, full)
    BY <1>2, <1>5
  <2>2. /\ Types'
        /\ Table(p.vol.fat, k) => Tabled' /\ (Owned(p.vol.fat, k) => AllOwned')
    BY <1>0, <1>3, <2>1, EnteredIs
  <2>3. l \in Lists /\ l[o] = <<>> /\ k = [l EXCEPT ![o] = p.list]
    <3>1. <<>> \in Seq(Clusters)
      BY EmptySeq
    <3> QED BY <1>0, <3>1 DEF Lists
  <2> HIDE DEF l, k
  <2>4. ASSUME Tabled PROVE Table(p.vol.fat, k) /\ (AllOwned => Owned(p.vol.fat, k))
    <3>1. Puts(vol.fat, list[o], v.fat, <<>>)
      BY <1>0, <2>4, FreedPuts DEF Tabled, Table, v
    <3>2. Table(v.fat, l) /\ (AllOwned => Owned(v.fat, l))
      BY <1>0, <2>4, <3>1, PutsTable, PutsOwned DEF Tabled, AllOwned, l
    <3>3. Members(<<>>) = Members(l[o])
      BY <2>3
    <3> QED BY <1>0, <1>3, <2>3, <3>2, <3>3, PutsTable, PutsOwned
  <2> QED BY <2>2, <2>4 DEF Careful
<1> QED BY <1>4, <1>5

\* Clusters that are picked for an owner, whose earlier ones, if any, are lost.
LEMMA PickedFor ==
    ASSUME Types, NEW o \in Owners, Tabled, NEW fat, NEW s, Puts(vol.fat, <<>>, fat, s)
    PROVE  /\ Table(fat, [list EXCEPT ![o] = s])
           /\ list[o] = <<>> /\ AllOwned => Owned(fat, [list EXCEPT ![o] = s])
<1>1. Members(<<>>) \subseteq Members(list[o])
  BY NoMembers
<1>2. list \in Lists
  BY DEF Types
<1>3. Table(fat, [list EXCEPT ![o] = s])
  BY <1>1, <1>2, PutsTable DEF Tabled
<1>4. list[o] = <<>> /\ AllOwned => Owned(fat, [list EXCEPT ![o] = s])
  BY <1>2, PutsOwned DEF AllOwned
<1> QED BY <1>3, <1>4

\* An overwrite through another spelling of the path.
LEMMA RespellCareful ==
    ASSUME Types, NEW o \in Files, NEW n \in Nat, NEW full \in BOOLEAN, WriteFile(o, n, FALSE, full)
    PROVE  Careful
<1> DEFINE p == Picked(vol, n)
           k == [list EXCEPT ![o] = p.list]
<1>0. o \in Owners /\ o # Root /\ vol \in Volumes
  BY OwnerFacts DEF Types
<1>2. IF Len(p.list) < n
      THEN /\ vol' = Freed(p.vol, p.list)
           /\ Called("respell", o, TRUE)
           /\ UNCHANGED <<list, entry>>
      ELSE Entered("respell", o, p.vol, p.list, full)
  BY DEF WriteFile
<1>3. p.vol \in Volumes /\ p.list \in Seq(Clusters) /\ Puts(vol.fat, <<>>, p.vol.fat, p.list)
  BY <1>0, PickedIs
<1> HIDE DEF p
<1>4. CASE Len(p.list) < n
  <2>1. vol' \in Volumes /\ vol'.fat = vol.fat
    BY <1>0, <1>2, <1>3, <1>4, FreedType, GivenBack
  <2>2. list' = list /\ entry' = entry /\ last'.call = "respell" /\ last'.threw = TRUE
    BY <1>2, <1>4, CalledIs
  <2>3. Types'
    BY <2>1, <2>2 DEF Types
  <2>4. Tabled => Tabled'
    BY <2>1, <2>2 DEF Tabled
  <2> QED BY <2>2, <2>3, <2>4 DEF Careful, Loses
<1>5. CASE ~ (Len(p.list) < n)
  <2>1. Entered("respell", o, p.vol, p.list, full)
    BY <1>2, <1>5
  <2>2. /\ Types'
        /\ Table(p.vol.fat, k) => Tabled' /\ (Owned(p.vol.fat, k) => AllOwned')
        /\ last'.call = "respell" /\ last'.owner = o
    BY <1>0, <1>3, <2>1, EnteredIs
  <2>3. Tabled => Table(p.vol.fat, k) /\ (list[o] = <<>> /\ AllOwned => Owned(p.vol.fat, k))
    BY <1>0, <1>3, PickedFor
  <2> QED BY <2>2, <2>3 DEF Careful, Loses
<1> QED BY <1>4, <1>5

LEMMA RemoveCareful ==
    ASSUME Types, NEW o \in Owners, Remove(o)
    PROVE  Careful
<1> DEFINE v == Freed(vol, list[o])
<1>0. o # Root /\ vol \in Volumes /\ list \in Lists /\ list[o] \in Seq(Clusters) /\ Root \in Owners
  BY OwnerFacts DEF Types, Lists, Remove
<1>1. vol' = v /\ list' = [list EXCEPT ![o] = <<>>] /\ entry' = [entry EXCEPT ![o] = 0]
  BY DEF Remove
<1>2. v \in Volumes
  BY <1>0, FreedType
<1>3. Types'
  <2>1. <<>> \in Seq(Clusters)
    BY EmptySeq
  <2>2. list' \in Lists /\ list'[Root] = list[Root]
    BY <1>0, <1>1, <2>1 DEF Lists
  <2>3. entry' \in [Owners -> Clusters \cup {0}] /\ entry'[Root] = 2
    BY <1>0, <1>1 DEF Types
  <2> HIDE DEF v
  <2> QED BY <1>1, <1>2, <2>2, <2>3 DEF Types
<1>4. ASSUME Tabled PROVE Tabled' /\ (AllOwned => AllOwned')
  <2>1. Puts(vol.fat, list[o], v.fat, <<>>)
    BY <1>0, <1>4, FreedPuts DEF Tabled, Table
  <2> HIDE DEF v
  <2> QED BY <1>0, <1>1, <1>4, <2>1, PutsTable, PutsOwned DEF Tabled, AllOwned
<1> QED BY <1>3, <1>4 DEF Careful

LEMMA CreateCareful ==
    ASSUME Types, NEW o \in Directories, NEW full \in BOOLEAN, CreateDirectory(o, full)
    PROVE  Careful
<1> DEFINE p == Picked(vol, 1)
           k == [list EXCEPT ![o] = p.list]
<1>0. o \in Owners /\ vol \in Volumes /\ list[o] = <<>> /\ o # Root
  BY OwnerFacts DEF Types, CreateDirectory, BeginsWithRoot
<1>1. IF p.list = <<>>
      THEN Called("create", o, TRUE) /\ UNCHANGED <<vol, list, entry>>
      ELSE Entered("create", o, p.vol, p.list, full)
  BY DEF CreateDirectory
<1>2. p.vol \in Volumes /\ p.list \in Seq(Clusters) /\ Puts(vol.fat, <<>>, p.vol.fat, p.list)
  BY <1>0, PickedIs
<1> HIDE DEF p
<1>3. CASE p.list = <<>>
  <2>1. vol' = vol /\ list' = list /\ entry' = entry
    BY <1>1, <1>3
  <2> QED BY <2>1 DEF Careful, Types, Tabled, AllOwned
<1>4. CASE p.list # <<>>
  <2>1. Entered("create", o, p.vol, p.list, full)
    BY <1>1, <1>4
  <2>2. /\ Types'
        /\ Table(p.vol.fat, k) => Tabled' /\ (Owned(p.vol.fat, k) => AllOwned')
        /\ last'.call = "create" /\ last'.owner = o
    BY <1>0, <1>2, <2>1, EnteredIs
  <2>3. Tabled => Table(p.vol.fat, k) /\ (list[o] = <<>> /\ AllOwned => Owned(p.vol.fat, k))
    BY <1>0, <1>2, PickedFor
  <2> QED BY <1>0, <2>2, <2>3 DEF Careful
<1> QED BY <1>3, <1>4

-------------------------------------------------------------------------------
(* Streams, and the end of the process.                                    *)

\* A flush that puts a grown list into the entry.
LEMMA KeptCareful ==
    ASSUME Types, NEW call, NEW o \in Files, NEW v, NEW old, NEW r, v.fat = vol.fat,
           Grows(v, old, r), Tabled => old = list[o], Kept(call, o, r)
    PROVE  Careful /\ (~last'.threw => entry'[o] = First(list'[o])) /\ last'.owner = o
<1>0. o \in Owners /\ o # Root /\ Root \in Owners /\ list \in Lists
      /\ r.vol \in Volumes /\ r.list \in Seq(Clusters)
  BY OwnerFacts DEF Types, Grows
<1>1. /\ vol' = IF r.threw THEN r.vol ELSE Flushed(r.vol)
      /\ list' = IF r.threw THEN list ELSE [list EXCEPT ![o] = r.list]
      /\ entry' = IF r.threw THEN entry ELSE [entry EXCEPT ![o] = First(r.list)]
      /\ Called(call, o, r.threw)
  BY DEF Kept
<1>2. Flushed(r.vol) \in Volumes /\ Flushed(r.vol).fat = r.vol.fat
  BY <1>0, FlushedIs
<1>3. last'.owner = o /\ last'.threw = r.threw
  BY <1>1, CalledIs
<1>4. CASE r.threw
  <2>1. vol' = r.vol /\ list' = list /\ entry' = entry
    BY <1>1, <1>4
  <2>2. Types'
    BY <1>0, <2>1 DEF Types
  <2>3. ASSUME Tabled PROVE vol'.fat = vol.fat
    BY <1>0, <1>4, <2>1, <2>3 DEF Grows, Tabled, Table
  <2>4. Tabled => Tabled' /\ (AllOwned => AllOwned')
    BY <2>1, <2>3 DEF Tabled, AllOwned
  <2> QED BY <1>3, <1>4, <2>2, <2>4 DEF Careful
<1>5. CASE ~r.threw
  <2>1. vol' = Flushed(r.vol) /\ list' = [list EXCEPT ![o] = r.list]
        /\ entry' = [entry EXCEPT ![o] = First(r.list)]
    BY <1>1, <1>5
  <2>2. list' \in Lists /\ list'[Root] = list[Root] /\ list'[o] = r.list
    BY <1>0, <2>1 DEF Lists
  <2>3. entry' \in [Owners -> Clusters \cup {0}] /\ entry'[Root] = 2 /\ entry'[o] = First(r.list)
    BY <1>0, <2>1, FirstType DEF Types
  <2>4. Types'
    BY <1>2, <2>1, <2>2, <2>3 DEF Types
  <2>5. ASSUME Tabled PROVE Tabled' /\ (AllOwned => AllOwned')
    <3>1. Puts(vol.fat, list[o], r.vol.fat, r.list)
      BY <1>0, <1>5, <2>5 DEF Grows, Tabled, Table
    <3> QED BY <1>0, <1>2, <2>1, <2>5, <3>1, PutsTable, PutsOwned DEF Tabled, AllOwned
  <2> QED BY <1>3, <2>2, <2>3, <2>4, <2>5 DEF Careful
<1> QED BY <1>4, <1>5

LEMMA ContinueCareful ==
    ASSUME Types, NEW o \in Files, NEW n \in Nat, Continue(o, n)
    PROVE  Careful /\ (~last'.threw => entry'[o] = First(list'[o])) /\ last'.owner = o
<1> DEFINE r == Realloc(vol, list[o], n)
<1>1. n >= Len(list[o]) /\ Kept("continue", o, r)
  BY DEF Continue
<1>2. vol \in Volumes /\ list[o] \in Seq(Clusters)
  BY OwnerFacts DEF Types, Lists
<1>3. Grows(vol, list[o], r)
  BY <1>1, <1>2, ReallocGrows
<1> HIDE DEF r
<1> QED BY <1>1, <1>3, KeptCareful

LEMMA AppendCareful ==
    ASSUME Types, NEW o \in Files, NEW size \in Nat, NEW n \in Nat, AppendFile(o, size, n)
    PROVE  Careful /\ (~last'.threw => entry'[o] = First(list'[o])) /\ last'.owner = o
<1> DEFINE old == Chain(vol.fat, First(list[o]))
           v == IF old = <<>> THEN vol ELSE Hinted(vol, old[Len(old)] + 1)
           m == size + n + Headroom
           r == IF Len(old) >= m THEN Done(v, old) ELSE Realloc(v, old, m)
<1>1. Kept("append", o, r)
  BY DEF AppendFile
<1>2. vol \in Volumes /\ list[o] \in Seq(Clusters) /\ o \in Owners
  BY OwnerFacts DEF Types, Lists
<1>3. old \in Seq(Clusters)
  BY ChainIs
<1>4. Tabled => old = list[o]
  BY <1>2, HoldsReads DEF Tabled, Table
<1> HIDE DEF old
<1>5. v \in Volumes /\ v.fat = vol.fat
  BY <1>2, HintsAre
<1>6. m \in Nat
  BY ClusterAssumption DEF ClusterAssumption
<1> HIDE DEF v, m
<1>7. Len(old) \in Nat
  BY <1>3, ListFacts
<1>8. Grows(v, old, r)
  <2>1. CASE Len(old) >= m
    <3>1. r = Done(v, old)
      BY <2>1
    <3> HIDE DEF r
    <3> QED BY <1>3, <1>5, <3>1, StaysPut DEF Done, Grows
  <2>2. CASE ~ (Len(old) >= m)
    <3>1. r = Realloc(v, old, m) /\ m >= Len(old)
      BY <1>6, <1>7, <2>2
    <3> HIDE DEF r
    <3> QED BY <1>3, <1>5, <1>6, <3>1, ReallocGrows
  <2> QED BY <2>1, <2>2
<1> HIDE DEF r
<1> QED BY <1>1, <1>4, <1>5, <1>8, KeptCareful

\* The first flush of a stream that rewrites a file: what the file had is lost.
LEMMA RewriteCareful ==
    ASSUME Types, NEW o \in Files, NEW n \in Nat, NEW full \in BOOLEAN, Rewrite(o, n, full)
    PROVE  Careful /\ (~last'.threw => entry'[o] = First(list'[o])) /\ last'.owner = o
<1> DEFINE r == Realloc(vol, <<>>, n)
           p == IF entry[o] = 0 THEN Placed(r.vol, full) ELSE Done(r.vol, list[Root])
           k == [list EXCEPT ![o] = r.list]
<1>0. /\ o \in Owners /\ o # Root /\ Root \in Owners
      /\ vol \in Volumes /\ list \in Lists /\ list[Root] \in Seq(Clusters)
      /\ BeginsWithRoot(list[Root])
  BY OwnerFacts DEF Types, Lists
<1>1. IF r.threw
      THEN /\ vol' = r.vol
           /\ Called("rewrite", o, TRUE)
           /\ UNCHANGED <<list, entry, open>>
      ELSE /\ vol' = IF p.threw THEN p.vol ELSE Flushed(p.vol)
           /\ list' = [list EXCEPT ![o] = r.list, ![Root] = p.list]
           /\ entry' = IF p.threw THEN entry ELSE [entry EXCEPT ![o] = First(r.list)]
           /\ Called("rewrite", o, p.threw)
  BY DEF Rewrite
<1>2. Grows(vol, <<>>, r)
  <2>1. <<>> \in Seq(Clusters) /\ n >= Len(<<>>)
    BY EmptySeq
  <2> QED BY <1>0, <2>1, ReallocGrows
<1> HIDE DEF r
<1>3. r.vol \in Volumes /\ r.list \in Seq(Clusters)
      /\ IF r.threw THEN r.vol.fat = vol.fat ELSE Puts(vol.fat, <<>>, r.vol.fat, r.list)
  BY <1>2, EmptyHolds DEF Grows
<1>4. CASE r.threw
  <2>1. vol' = r.vol /\ list' = list /\ entry' = entry /\ Called("rewrite", o, TRUE)
    BY <1>1, <1>4
  <2>2. last'.call = "rewrite" /\ last'.owner = o /\ last'.threw = TRUE
    BY <2>1, CalledIs
  <2>3. Types'
    BY <1>3, <2>1 DEF Types
  <2>4. Tabled => Tabled'
    BY <1>3, <1>4, <2>1 DEF Tabled
  <2> QED BY <2>2, <2>3, <2>4 DEF Careful, Loses
<1>5. CASE ~r.threw
  <2>1. /\ vol' = IF p.threw THEN p.vol ELSE Flushed(p.vol)
        /\ list' = [list EXCEPT ![o] = r.list, ![Root] = p.list]
        /\ entry' = IF p.threw THEN entry ELSE [entry EXCEPT ![o] = First(r.list)]
        /\ Called("rewrite", o, p.threw)
    BY <1>1, <1>5
  <2>2. /\ p.vol \in Volumes /\ p.list \in Seq(Clusters) /\ BeginsWithRoot(p.list)
        /\ Holds(r.vol.fat, list[Root]) => Puts(r.vol.fat, list[Root], p.vol.fat, p.list)
    <3>1. CASE entry[o] = 0
      <4>1. p = Placed(r.vol, full)
        BY <3>1
      <4> HIDE DEF p
      <4> QED BY <1>0, <1>3, <4>1, PlacedIs
    <3>2. CASE entry[o] # 0
      <4>1. p.vol = r.vol /\ p.list = list[Root]
        BY <3>2 DEF Done
      <4> HIDE DEF p
      <4> QED BY <1>0, <1>3, <4>1, StaysPut
    <3> QED BY <3>1, <3>2
  <2> HIDE DEF p
  <2>3. vol' \in Volumes /\ vol'.fat = p.vol.fat
    BY <2>1, <2>2, FlushedIs
  <2>4. k \in Lists /\ k[Root] = list[Root] /\ k[o] = r.list /\ list' = [k EXCEPT ![Root] = p.list]
    BY <1>0, <1>3, <2>1 DEF Lists
  <2>5. list' \in Lists /\ list'[o] = r.list /\ list'[Root] = p.list
    <3> HIDE DEF k
    <3> QED BY <1>0, <2>2, <2>4 DEF Lists
  <2>6. /\ entry' \in [Owners -> Clusters \cup {0}] /\ entry'[Root] = 2
        /\ ~p.threw => entry'[o] = First(r.list)
    BY <1>0, <1>3, <2>1, FirstType DEF Types
  <2>7. Types'
    BY <2>2, <2>3, <2>5, <2>6 DEF Types
  <2>8. last'.call = "rewrite" /\ last'.owner = o /\ last'.threw = p.threw
    BY <2>1, CalledIs
  <2>9. ASSUME Tabled PROVE Tabled' /\ (list[o] = <<>> /\ AllOwned => AllOwned')
    <3>1. Table(r.vol.fat, k) /\ (list[o] = <<>> /\ AllOwned => Owned(r.vol.fat, k))
      BY <1>0, <1>3, <1>5, <2>9, PickedFor
    <3> HIDE DEF k
    <3>2. Puts(r.vol.fat, k[Root], p.vol.fat, p.list)
      BY <1>0, <2>2, <2>4, <3>1 DEF Table
    <3>3. Table(p.vol.fat, [k EXCEPT ![Root] = p.list])
      BY <1>0, <2>4, <3>1, <3>2, PutsTable
    <3>4. Owned(r.vol.fat, k) => Owned(p.vol.fat, [k EXCEPT ![Root] = p.list])
      BY <1>0, <2>4, <3>2, PutsOwned
    <3> QED BY <2>3, <2>4, <3>1, <3>3, <3>4 DEF Tabled, AllOwned
  <2>10. Careful
    BY <2>7, <2>8, <2>9 DEF Careful, Loses
  <2> QED BY <2>5, <2>6, <2>8, <2>10
<1> QED BY <1>4, <1>5

\* Another process has what the device has, which is everything when the first
\* one had written everything.
LEMMA MountCareful ==
    ASSUME Types, Covers(vol), Mount
    PROVE  Careful
<1>1. /\ vol' = [fat |-> vol.disk, dirty |-> {}, disk |-> vol.disk, hint |-> 2]
      /\ list' = [o \in Owners |-> Chain(vol.disk, entry[o])]
      /\ entry' = entry
      /\ Called("mount", Root, FALSE)
  BY DEF Mount
<1>2. vol \in Volumes /\ Root \in Owners /\ entry[Root] = 2
  BY OwnerFacts DEF Types
<1>3. vol.disk \in [Clusters -> Cell] /\ vol.fat \in [Clusters -> Cell]
  BY <1>2, VolumeIs
<1>4. vol' \in Volumes
  <2>1. 2 \in 2..Entries /\ {} \in SUBSET Clusters
    BY ClusterNumbers
  <2> QED BY <1>1, <1>3, <2>1 DEF Volumes
<1>5. list' \in Lists /\ BeginsWithRoot(list'[Root])
  <2>1. \A o \in Owners : Chain(vol.disk, entry[o]) \in Seq(Clusters)
    BY ChainIs
  <2>2. BeginsWithRoot(Chain(vol.disk, 2))
    BY RootChain
  <2> QED BY <1>1, <1>2, <2>1, <2>2 DEF Lists
<1>6. Types'
  BY <1>1, <1>4, <1>5 DEF Types
<1>7. ASSUME Tabled, Synced PROVE vol'.fat = vol.fat /\ list' = list
  <2>1. \A c \in Clusters : vol.fat[c] = vol.disk[c]
    BY <1>7 DEF Covers, Synced
  <2>2. vol.disk = vol.fat
    BY <1>3, <2>1
  <2>3. ASSUME NEW o \in Owners PROVE Chain(vol.disk, entry[o]) = list[o]
    <3>1. entry[o] = First(list[o]) /\ Holds(vol.fat, list[o]) /\ list[o] \in Seq(Clusters)
      BY <1>7 DEF Synced, Tabled, Table, Types, Lists
    <3> QED BY <2>2, <3>1, HoldsReads
  <2>4. list = [o \in Owners |-> list[o]]
    BY DEF Types, Lists
  <2> QED BY <1>1, <2>2, <2>3, <2>4
<1>8. Tabled /\ Synced => Tabled' /\ (AllOwned => AllOwned')
  BY <1>7 DEF Tabled, AllOwned
<1>9. last'.call = "mount"
  BY <1>1, CalledIs
<1> QED BY <1>6, <1>8, <1>9 DEF Careful, Damages, Loses

LEMMA StepCareful ==
    ASSUME Types, Covers(vol), Next
    PROVE  Careful
<1>1. CASE \E o \in Files, n \in 0..MaxBlocks, exact, full \in BOOLEAN : WriteFile(o, n, exact, full)
  <2>1. PICK o \in Files, n \in 0..MaxBlocks, exact \in BOOLEAN, full \in BOOLEAN :
            WriteFile(o, n, exact, full)
    BY <1>1
  <2>2. n \in Nat
    BY ClusterAssumption DEF ClusterAssumption
  <2>3. CASE exact = TRUE
    BY <2>1, <2>2, <2>3, WriteCareful
  <2>4. CASE exact = FALSE
    BY <2>1, <2>2, <2>4, RespellCareful
  <2> QED BY <2>3, <2>4
<1>2. CASE \E o \in Owners : Remove(o)
  BY <1>2, RemoveCareful
<1>3. CASE \E o \in Directories, full \in BOOLEAN : CreateDirectory(o, full)
  BY <1>3, CreateCareful
<1>4. CASE \E o \in Files, n \in 1..MaxBlocks, full \in BOOLEAN : Rewrite(o, n, full)
  <2>1. \A n \in 1..MaxBlocks : n \in Nat
    BY ClusterAssumption DEF ClusterAssumption
  <2> QED BY <1>4, <2>1, RewriteCareful
<1>5. CASE \E o \in Files, n \in 1..MaxBlocks : Continue(o, n)
  <2>1. \A n \in 1..MaxBlocks : n \in Nat
    BY ClusterAssumption DEF ClusterAssumption
  <2> QED BY <1>5, <2>1, ContinueCareful
<1>6. CASE \E o \in Files : Close(o)
  <2>1. vol' = vol /\ list' = list /\ entry' = entry
    BY <1>6 DEF Close
  <2> QED BY <2>1 DEF Careful, Types, Tabled, AllOwned
<1>7. CASE \E o \in Files, size \in 0..MaxBlocks, n \in 1..MaxBlocks : AppendFile(o, size, n)
  <2>1. PICK o \in Files, size \in 0..MaxBlocks, n \in 1..MaxBlocks : AppendFile(o, size, n)
    BY <1>7
  <2>2. size \in Nat /\ n \in Nat
    BY ClusterAssumption DEF ClusterAssumption
  <2> QED BY <2>1, <2>2, AppendCareful
<1>8. CASE Mount
  BY <1>8, MountCareful
<1> QED BY <1>1, <1>2, <1>3, <1>4, <1>5, <1>6, <1>7, <1>8 DEF Next

\* A stream that flushed with success: its entry names the list it has.
LEMMA StreamStepNames ==
    ASSUME Types, Next, last'.call \in {"rewrite", "continue", "append"}, ~last'.threw
    PROVE  last'.owner \in Owners /\ entry'[last'.owner] = First(list'[last'.owner])
<1>0. (\A n \in 0..MaxBlocks : n \in Nat) /\ \A n \in 1..MaxBlocks : n \in Nat
  BY ClusterAssumption DEF ClusterAssumption
<1>1. CASE \E o \in Files, n \in 0..MaxBlocks, exact, full \in BOOLEAN : WriteFile(o, n, exact, full)
  <2>1. PICK o \in Files, n \in 0..MaxBlocks, exact \in BOOLEAN, full \in BOOLEAN :
            WriteFile(o, n, exact, full)
    BY <1>1
  <2>2. \E call \in {"write", "respell"} : \E threw : Called(call, o, threw)
    BY <2>1 DEF WriteFile, Entered
  <2> QED BY <2>2, CalledIs
<1>2. CASE \E o \in Owners : Remove(o)
  <2>1. PICK o \in Owners : Called("remove", o, FALSE)
    BY <1>2 DEF Remove
  <2>2. last'.call = "remove"
    BY <2>1, CalledIs
  <2> QED BY <2>2
<1>3. CASE \E o \in Directories, full \in BOOLEAN : CreateDirectory(o, full)
  <2>1. PICK o \in Directories, full \in BOOLEAN : CreateDirectory(o, full)
    BY <1>3
  <2>2. \E threw : Called("create", o, threw)
    BY <2>1 DEF CreateDirectory, Entered
  <2> QED BY <2>2, CalledIs
<1>4. CASE \E o \in Files, n \in 1..MaxBlocks, full \in BOOLEAN : Rewrite(o, n, full)
  <2>1. PICK o \in Files, n \in 1..MaxBlocks, full \in BOOLEAN : Rewrite(o, n, full)
    BY <1>4
  <2>2. n \in Nat
    BY <1>0
  <2>3. entry'[o] = First(list'[o]) /\ last'.owner = o
    BY <2>1, <2>2, RewriteCareful
  <2> QED BY <2>3, OwnerFacts
<1>5. CASE \E o \in Files, n \in 1..MaxBlocks : Continue(o, n)
  <2>1. PICK o \in Files, n \in 1..MaxBlocks : Continue(o, n)
    BY <1>5
  <2>2. n \in Nat
    BY <1>0
  <2>3. entry'[o] = First(list'[o]) /\ last'.owner = o
    BY <2>1, <2>2, ContinueCareful
  <2> QED BY <2>3, OwnerFacts
<1>6. CASE \E o \in Files : Close(o)
  <2>1. PICK o \in Files : Called("close", o, FALSE)
    BY <1>6 DEF Close
  <2>2. last'.call = "close"
    BY <2>1, CalledIs
  <2> QED BY <2>2
<1>7. CASE \E o \in Files, size \in 0..MaxBlocks, n \in 1..MaxBlocks : AppendFile(o, size, n)
  <2>1. PICK o \in Files, size \in 0..MaxBlocks, n \in 1..MaxBlocks : AppendFile(o, size, n)
    BY <1>7
  <2>2. size \in Nat /\ n \in Nat
    BY <1>0
  <2>3. entry'[o] = First(list'[o]) /\ last'.owner = o
    BY <2>1, <2>2, AppendCareful
  <2> QED BY <2>3, OwnerFacts
<1>8. CASE Mount
  <2>1. Called("mount", Root, FALSE)
    BY <1>8 DEF Mount
  <2>2. last'.call = "mount"
    BY <2>1, CalledIs
  <2> QED BY <2>2
<1> QED BY <1>1, <1>2, <1>3, <1>4, <1>5, <1>6, <1>7, <1>8 DEF Next

LEMMA InitTyped == Init => Types /\ Covers(vol)
<1> SUFFICES ASSUME Init PROVE Types /\ Covers(vol)
  OBVIOUS
<1> DEFINE table == [c \in Clusters |-> IF c = 2 THEN EndOfChain ELSE 0]
<1>1. vol = [fat |-> table, dirty |-> {}, disk |-> table, hint |-> 2]
  BY DEF Init
<1>2. table \in [Clusters -> Cell]
  BY DEF Cell
<1>3. 2 \in 2..Entries /\ 2 \in Clusters
  BY ClusterNumbers
<1> HIDE DEF table
<1>4. vol \in Volumes
  BY <1>1, <1>2, <1>3 DEF Volumes
<1>5. <<2>> \in Seq(Clusters) /\ <<>> \in Seq(Clusters)
  BY <1>3
<1>6. list \in Lists /\ BeginsWithRoot(list[Root])
  BY <1>5, OwnerFacts DEF Init, Lists, BeginsWithRoot
<1>7. entry \in [Owners -> Clusters \cup {0}] /\ entry[Root] = 2
  BY <1>3, OwnerFacts DEF Init
<1>8. Covers(vol)
  BY <1>1 DEF Covers
<1> QED BY <1>4, <1>6, <1>7, <1>8 DEF Types

LEMMA SoundTyped == Types => (Sound <=> Tabled) /\ (Lost = {} <=> AllOwned)
BY SoundIs, LostIs DEF Types, Tabled, AllOwned

\* The same of the state behind a step.
LEMMA SoundTypedNext == Types' => (Sound' <=> Tabled') /\ ((Lost = {})' <=> AllOwned')
BY SoundTyped, PTL

Known ==
    /\ \/ Sound' \/ Damages
    /\ \/ Lost' = {} \/ Lost # {} \/ Loses

LEMMA StepKnown ==
    ASSUME Types, Covers(vol), Next, Sound
    PROVE  Known
<1>1. Careful
  BY StepCareful
<1>2. Tabled /\ (Lost = {} <=> AllOwned)
  BY SoundTyped
<1>3. Types' /\ (Tabled' \/ Damages) /\ (AllOwned => AllOwned' \/ Loses)
  BY <1>1, <1>2 DEF Careful
<1>4. (Sound' <=> Tabled') /\ (Lost' = {} <=> AllOwned')
  BY <1>3, SoundTypedNext
<1> QED BY <1>2, <1>3, <1>4 DEF Known

LEMMA KnownStep ==
    ASSUME Types, Covers(vol), [Next]_vars
    PROVE  [Sound =>
        /\ \/ Sound'
           \/ last'.call = "write" /\ last'.threw
           \/ last'.call = "mount" /\ ~Synced
        /\ \/ Lost' = {} \/ Lost # {}
           \/ last'.call \in {"rewrite", "respell"} /\ list[last'.owner] # <<>>
           \/ last'.call \in {"create", "rewrite", "respell", "write"} /\ last'.threw
           \/ last'.call = "mount" /\ ~Synced]_vars
BY StepKnown, Zenon DEF Known, Damages, Loses

LEMMA TypesStep ==
    ASSUME Types, Covers(vol), [Next]_vars
    PROVE  Types'
<1>1. CASE Next
  BY <1>1, StepCareful DEF Careful
<1>2. CASE UNCHANGED vars
  BY <1>2 DEF vars, Types
<1> QED BY <1>1, <1>2

\* For any clusters, files and calls: no step damages a file, its own or another's,
\* but an overwrite that finds no room after it freed the old clusters, and the end
\* of a process that had not written everything; and no step loses clusters but those
\* the property names.
THEOREM OnlyKnownStepsDo == Spec => OnlyKnownStepsDamage
<1> DEFINE Inv == Types /\ Covers(vol)
           Step == [Sound =>
        /\ \/ Sound'
           \/ last'.call = "write" /\ last'.threw
           \/ last'.call = "mount" /\ ~Synced
        /\ \/ Lost' = {} \/ Lost # {}
           \/ last'.call \in {"rewrite", "respell"} /\ list[last'.owner] # <<>>
           \/ last'.call \in {"create", "rewrite", "respell", "write"} /\ last'.threw
           \/ last'.call = "mount" /\ ~Synced]_vars
<1>1. Init => Inv
  BY InitTyped
<1>2. Inv /\ [Next]_vars => Inv'
  BY TypesStep, StepCovers DEF Covers
<1>3. Inv /\ [Next]_vars => Step
  BY KnownStep
<1> HIDE DEF Inv
<1> QED BY <1>1, <1>2, <1>3, PTL DEF Spec, OnlyKnownStepsDamage

Survives ==
    ~last'.threw /\ last'.call \in {"rewrite", "continue", "append"} /\ Sound
    => Chain(vol'.disk, entry'[last'.owner]) = list'[last'.owner]

LEMMA StepSurvives ==
    ASSUME Types, Covers(vol), Next
    PROVE  Survives
<1> SUFFICES ASSUME ~last'.threw, last'.call \in {"rewrite", "continue", "append"}, Sound
             PROVE  Chain(vol'.disk, entry'[last'.owner]) = list'[last'.owner]
  BY DEF Survives
<1>1. Types' /\ Tabled'
  <2>1. Careful /\ Tabled
    BY StepCareful, SoundTyped
  <2>2. ~Damages
    BY DEF Damages
  <2> QED BY <2>1, <2>2 DEF Careful
<1>2. last'.owner \in Owners /\ entry'[last'.owner] = First(list'[last'.owner])
  BY StreamStepNames
<1>3. \A c \in Clusters : vol'.disk[c] = vol'.fat[c]
  BY StreamStepWrites DEF Written
<1>4. vol' \in Volumes /\ list' \in Lists
  BY <1>1 DEF Types
<1>5. vol'.disk = vol'.fat
  <2>1. vol'.fat \in [Clusters -> Cell] /\ vol'.disk \in [Clusters -> Cell]
    BY <1>4, VolumeIs
  <2> QED BY <1>3, <2>1
<1>6. list'[last'.owner] \in Seq(Clusters) /\ Holds(vol'.fat, list'[last'.owner])
  BY <1>1, <1>2, <1>4 DEF Tabled, Table, Lists
<1> QED BY <1>2, <1>5, <1>6, HoldsReads

\* For any clusters, files and calls: what a stream flushed with success is read
\* back after a restart, whatever other calls had left unwritten before.
THEOREM FlushedFilesDo == Spec => FlushedFilesSurvive
<1> DEFINE Inv == Types /\ Covers(vol)
           Step == [~last'.threw /\ last'.call \in {"rewrite", "continue", "append"} /\ Sound
                    => Chain(vol'.disk, entry'[last'.owner]) = list'[last'.owner]]_vars
<1>1. Init => Inv
  BY InitTyped
<1>2. Inv /\ [Next]_vars => Inv'
  BY TypesStep, StepCovers DEF Covers
<1>3. Inv /\ [Next]_vars => Step
  BY StepSurvives DEF Survives
<1> HIDE DEF Inv
<1> QED BY <1>1, <1>2, <1>3, PTL DEF Spec, FlushedFilesSurvive
================================================================================
