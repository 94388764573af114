------------------------------- MODULE MediaProofs -------------------------------
(***************************************************************************)
(* Block devices, guarded calls and archives.                              *)
(*                                                                         *)
(* What was flushed with success stays in the file.  A write waits, with   *)
(* the device that took it, until that device is flushed: in its cache, or *)
(* in the file already.  Both have to be known of every write that waits,  *)
(* since a flush lets them all count.                                      *)
(*                                                                         *)
(* A guarded call changes its volume only for somebody who may, by the     *)
(* text it is given: what the matching of patterns answers, token by       *)
(* token, is what the words of a permission mean, the grants a check       *)
(* counts are those of subjects that stand for the caller, and a path that *)
(* is resolved is resolved to itself.  That a recursion over tokens        *)
(* answers what it should is proved by the least token at which it would   *)
(* not.                                                                    *)
(*                                                                         *)
(* An archive shows what it holds: every directory between two entries is  *)
(* an entry of a path that is one shorter, so a listing finds it.          *)
(***************************************************************************)
EXTENDS BlockDevices, VolumeGuard, ZipVolume, Integers, FiniteSetTheorems,
        SequenceTheorems, WellFoundedInduction, TLAPS

-------------------------------------------------------------------------------
(* The inductive invariant                                                 *)

\* The record has the fields of a device and no others.
IsDevice(v) ==
    v \in [kind : {"file", "mmap", "loop", "mem"}, off : Nat, size : Nat, ro : BOOLEAN, cached : BOOLEAN,
           dirty : BOOLEAN, base : Devices, at : Nat, below : SUBSET Devices, data : {v.data}]

IsOpen(d) == d \in Devices /\ dev[d] # Closed

DevicesTyped ==
    /\ DOMAIN dev = Devices
    /\ \A d \in Devices : dev[d] # Closed => IsDevice(dev[d])

\* A place of a device is one of its base, which stays open below it.
OnBases ==
    \A d \in Devices : dev[d] # Closed =>
        /\ IsOpen(dev[d].base)
        /\ dev[d].base = d \/ dev[d].base \in dev[d].below
        /\ dev[dev[d].base].kind # "loop"
        /\ dev[d].at + dev[d].size <= dev[dev[d].base].size

ChannelsTyped ==
    /\ DOMAIN chan = Volumes
    /\ \A c \in Volumes :
          /\ chan[c] = [dev |-> chan[c].dev, step |-> chan[c].step]
          /\ chan[c].step \in {"open", "registered"} => chan[c].dev \in Devices

FileFromItsStart == IsFiniteSet(DOMAIN file) /\ DOMAIN file = 0..(Size - 1)

Caches(v) == v.kind = "file" /\ v.cached

CachesInFile ==
    \A d \in Devices : dev[d] # Closed /\ Caches(dev[d]) =>
        DOMAIN dev[d].data = 0..(dev[d].size - 1) /\ dev[d].off + dev[d].size <= Size

\* What v took for the place p is in its cache, which is marked, or in the file f.
Waits(f, v, p, value) ==
    /\ v.kind \in {"file", "mmap"} /\ ~v.ro
    /\ IF Caches(v) THEN v.dirty /\ p \in v.off..(v.off + v.size - 1) /\ v.data[p - v.off] = value
       ELSE p \in DOMAIN f /\ f[p] = value

WritesWait ==
    \A p \in DOMAIN wrote :
        /\ p \in Nat
        /\ wrote[p] = [by |-> wrote[p].by, value |-> wrote[p].value]
        /\ wrote[p].by \in Devices \cup Volumes
        /\ wrote[p].by \in Devices => dev[wrote[p].by] # Closed /\ Waits(file, dev[wrote[p].by], p, wrote[p].value)

IInv ==
    /\ DevicesTyped
    /\ OnBases
    /\ ChannelsTyped
    /\ FileFromItsStart
    /\ CachesInFile
    /\ WritesWait
    /\ FlushedIsKept

-------------------------------------------------------------------------------
(* Places, and fields                                                      *)

\* A file of n places has that size.
LEMMA PlacesOfAFile ==
    ASSUME NEW n \in Nat
    PROVE  IsFiniteSet(0..(n - 1)) /\ Cardinality(0..(n - 1)) = n
<1>1. 0 \in Int /\ n - 1 \in Int
    OBVIOUS
<1>2. IsFiniteSet(0..(n - 1)) /\ Cardinality(0..(n - 1)) = IF 0 > n - 1 THEN 0 ELSE (n - 1) - 0 + 1
    BY <1>1, FS_Interval
<1>3. QED
    BY <1>2

\* Being taken for written changes the cache and its mark only.
LEMMA TakenFields ==
    ASSUME NEW v, IsDevice(v), NEW p, NEW x, NEW t, t = Taken(v, p, x)
    PROVE  /\ IsDevice(t)
           /\ t.kind = v.kind /\ t.off = v.off /\ t.size = v.size /\ t.ro = v.ro /\ t.cached = v.cached
           /\ t.base = v.base /\ t.at = v.at /\ t.below = v.below
           /\ v.kind = "file" => t.dirty
           /\ t.data = [v.data EXCEPT ![p] = x]
BY DEF IsDevice, Taken

\* Being unmarked changes the mark only.
LEMMA CleanFields ==
    ASSUME NEW v, IsDevice(v), NEW t, t = [v EXCEPT !.dirty = FALSE]
    PROVE  /\ IsDevice(t)
           /\ t.kind = v.kind /\ t.off = v.off /\ t.size = v.size /\ t.ro = v.ro /\ t.cached = v.cached
           /\ t.base = v.base /\ t.at = v.at /\ t.below = v.below /\ t.data = v.data /\ t.dirty = FALSE
BY DEF IsDevice

\* The file as it is: its size is a number, and its places are those below it.
LEMMA FileHasASize ==
    ASSUME FileFromItsStart
    PROVE  Size \in Nat /\ DOMAIN file = 0..(Size - 1)
BY FS_CardinalityType DEF FileFromItsStart, Size

\* A file grows from its end, so that it still begins at its start, and loses nothing.
LEMMA GrownFile ==
    ASSUME FileFromItsStart, NEW q \in Nat, NEW x, file' = Grown(q, x)
    PROVE  /\ FileFromItsStart' /\ Size <= Size' /\ DOMAIN file \subseteq DOMAIN file'
           /\ q \in DOMAIN file' /\ file'[q] = x
           /\ \A p \in DOMAIN file : p # q => file'[p] = file[p]
<1> DEFINE n == IF q + 1 > Size THEN q + 1 ELSE Size
<1>1. Size \in Nat /\ DOMAIN file = 0..(Size - 1)
    BY FileHasASize
<1>2. DOMAIN file' = DOMAIN file \cup 0..q
    BY DEF Grown
<1>3. n \in Nat /\ DOMAIN file \cup 0..q = 0..(n - 1)
    BY <1>1
<1>4. IsFiniteSet(0..(n - 1)) /\ Cardinality(0..(n - 1)) = n
    BY <1>3, PlacesOfAFile
<1>5. Size' = n /\ IsFiniteSet(DOMAIN file')
    BY <1>2, <1>3, <1>4 DEF Size
<1>6. FileFromItsStart' /\ Size <= Size'
    BY <1>1, <1>2, <1>3, <1>5 DEF FileFromItsStart
<1>7. q \in DOMAIN file' /\ file'[q] = x
    BY <1>2 DEF Grown
<1>8. ASSUME NEW p \in DOMAIN file, p # q PROVE file'[p] = file[p]
    BY <1>8, <1>2 DEF Grown
<1>9. QED
    BY <1>2, <1>6, <1>7, <1>8

-------------------------------------------------------------------------------
(* Writing back                                                            *)

\* Writing back the first places of a cache leaves the places of the file as many as they are,
\* and those as they are that it does not change.
LEMMA WrittenBack ==
    ASSUME FileFromItsStart, NEW b, NEW n \in Nat, NEW mine, dev[b].off \in Nat, Settled(b, n, mine)
    PROVE  /\ DOMAIN file' = DOMAIN file /\ Size' = Size
           /\ \A p \in DOMAIN file : p \notin Lost(b, n) => file'[p] = file[p]
<1>1. CASE IsDirty(dev[b])
    <2>1. file' = [p \in DOMAIN file |->
                     IF p >= dev[b].off /\ p < dev[b].off + n THEN dev[b].data[p - dev[b].off] ELSE file[p]]
        BY <1>1 DEF Settled, Flushed
    <2>2. DOMAIN file' = DOMAIN file
        BY <2>1
    <2>3. ASSUME NEW p \in DOMAIN file, p \notin Lost(b, n) PROVE file'[p] = file[p]
        <3>1. CASE p \in dev[b].off..(dev[b].off + n - 1)
            BY <1>1, <2>1, <2>3, <3>1 DEF Lost, Overwritten
        <3>2. CASE ~(p >= dev[b].off /\ p < dev[b].off + n)
            BY <2>1, <3>2
        <3>3. p \in Int
            BY FileHasASize
        <3>4. QED
            BY <3>1, <3>2, <3>3
    <2>4. QED
        BY <2>2, <2>3 DEF Size
<1>2. CASE ~IsDirty(dev[b])
    BY <1>2 DEF Settled, Size
<1>3. QED
    BY <1>1, <1>2

\* What counts as flushed by a device is in the file then, and what counted before still is.
LEMMA FlushedAfter ==
    ASSUME IInv, NEW b \in Devices, dev[b] # Closed, NEW n \in Nat, NEW mine,
           mine = {} \/ (mine = WrittenBy(b) /\ n = dev[b].size), Settled(b, n, mine)
    PROVE  FlushedIsKept'
<1>1. FileFromItsStart /\ IsDevice(dev[b]) /\ FlushedIsKept
    BY DEF IInv, DevicesTyped
<1>2. dev[b].off \in Nat /\ dev[b].size \in Nat
    BY <1>1 DEF IsDevice
<1>3. /\ DOMAIN file' = DOMAIN file
      /\ \A p \in DOMAIN file : p \notin Lost(b, n) => file'[p] = file[p]
    BY <1>1, <1>2, WrittenBack
<1>4. sure' = [p \in (DOMAIN sure \ Lost(b, n)) \cup mine |-> IF p \in mine THEN wrote[p].value ELSE sure[p]]
    BY DEF Settled
<1>5. ASSUME NEW p \in mine PROVE p \in DOMAIN file /\ file'[p] = wrote[p].value
    <2>1. mine = WrittenBy(b) /\ n = dev[b].size
        BY <1>5
    <2>2. p \in DOMAIN wrote /\ wrote[p].by = b
        BY <2>1 DEF WrittenBy
    <2>3. p \in Nat /\ Waits(file, dev[b], p, wrote[p].value)
        BY <2>2 DEF IInv, WritesWait
    <2>4. CASE Caches(dev[b])
        <3>1. /\ IsDirty(dev[b])
              /\ p \in dev[b].off..(dev[b].off + dev[b].size - 1) /\ dev[b].data[p - dev[b].off] = wrote[p].value
            BY <2>3, <2>4 DEF Waits, IsDirty, Caches
        <3>2. dev[b].off + dev[b].size <= Size /\ Size \in Nat /\ DOMAIN file = 0..(Size - 1)
            BY <1>1, <2>4, FileHasASize DEF IInv, CachesInFile
        <3>3. p \in DOMAIN file
            BY <3>1, <3>2, <1>2, <2>3
        <3>4. file' = [q \in DOMAIN file |->
                         IF q >= dev[b].off /\ q < dev[b].off + n THEN dev[b].data[q - dev[b].off] ELSE file[q]]
            BY <3>1 DEF Settled, Flushed
        <3>5. p >= dev[b].off /\ p < dev[b].off + n
            BY <3>1, <1>2, <2>1, <2>3
        <3>6. QED
            BY <3>1, <3>3, <3>4, <3>5
    <2>5. CASE ~Caches(dev[b])
        <3>1. Lost(b, n) = {}
            BY <2>5 DEF Lost, IsDirty, Caches
        <3>2. p \in DOMAIN file /\ file[p] = wrote[p].value
            BY <2>3, <2>5 DEF Waits
        <3>3. QED
            BY <3>1, <3>2, <1>3
    <2>6. QED
        BY <2>4, <2>5
<1>6. ASSUME NEW p \in DOMAIN sure, p \notin Lost(b, n) PROVE p \in DOMAIN file /\ file'[p] = sure[p]
    BY <1>1, <1>3, <1>6 DEF FlushedIsKept
<1>7. ASSUME NEW p \in DOMAIN sure' PROVE p \in DOMAIN file' /\ file'[p] = sure'[p]
    <2>1. CASE p \in mine
        BY <2>1, <1>3, <1>4, <1>5
    <2>2. CASE p \notin mine
        BY <2>2, <1>3, <1>4, <1>6
    <2>3. QED
        BY <2>1, <2>2
<1>8. QED
    BY <1>7 DEF FlushedIsKept

\* The same write, in a device that has the same fields and cache
LEMMA SameWait ==
    ASSUME NEW f, NEW g, NEW v, NEW w, NEW p, NEW value, Waits(f, v, p, value),
           w.kind = v.kind, w.ro = v.ro, w.cached = v.cached, w.dirty = v.dirty,
           w.off = v.off, w.size = v.size, w.data = v.data,
           ~Caches(v) => p \in DOMAIN g /\ g[p] = f[p]
    PROVE  Waits(g, w, p, value)
BY DEF Waits, Caches

-------------------------------------------------------------------------------
(* Each step                                                               *)

\* All that speaks of devices, when one opens
LEMMA Opening ==
    ASSUME IInv, NEW d \in Devices, dev[d] = Closed, NEW v, IsDevice(v), dev' = [dev EXCEPT ![d] = v],
           \/ v.base = d /\ v.at = 0 /\ v.kind # "loop"
           \/ /\ IsOpen(v.base) /\ v.base \in v.below /\ dev[v.base].kind # "loop"
              /\ v.at + v.size <= dev[v.base].size,
           Caches(v) => DOMAIN v.data = 0..(v.size - 1) /\ v.off + v.size <= Size,
           UNCHANGED <<file, chan, wrote, sure>>
    PROVE  IInv'
<1>1. dev'[d] = v /\ \A o \in Devices : o # d => dev'[o] = dev[o]
    BY DEF IInv, DevicesTyped
<1>2. DevicesTyped'
    BY <1>1 DEF IInv, DevicesTyped
<1>3. OnBases'
    <2>1. ASSUME NEW o \in Devices, dev'[o] # Closed
          PROVE  /\ IsOpen(dev[o].base)'
                 /\ dev'[o].base = o \/ dev'[o].base \in dev'[o].below
                 /\ dev'[dev'[o].base].kind # "loop"
                 /\ dev'[o].at + dev'[o].size <= dev'[dev'[o].base].size
        <3>1. CASE o # d
            <4>1. dev'[o] = dev[o]
                BY <1>1, <3>1
            <4>2. /\ IsOpen(dev[o].base) /\ (dev[o].base = o \/ dev[o].base \in dev[o].below)
                  /\ dev[dev[o].base].kind # "loop" /\ dev[o].at + dev[o].size <= dev[dev[o].base].size
                BY <4>1, <2>1 DEF IInv, OnBases
            <4>3. dev[o].base # d /\ dev[o].base \in Devices
                BY <4>2 DEF IsOpen
            <4>4. dev'[dev[o].base] = dev[dev[o].base]
                BY <4>3, <1>1
            <4>5. QED
                BY <4>1, <4>2, <4>4 DEF IsOpen
        <3>2. CASE o = d /\ v.base = d
            BY <3>2, <1>1, <2>1 DEF IsOpen, IsDevice
        <3>3. CASE o = d /\ v.base # d
            <4>1. IsOpen(v.base) /\ v.base \in v.below /\ dev[v.base].kind # "loop" /\ v.at + v.size <= dev[v.base].size
                BY <3>3
            <4>2. dev'[v.base] = dev[v.base]
                BY <3>3, <4>1, <1>1 DEF IsOpen
            <4>3. QED
                BY <3>3, <4>1, <4>2, <1>1 DEF IsOpen
        <3>4. QED
            BY <3>1, <3>2, <3>3
    <2>2. QED
        BY <2>1 DEF OnBases
<1>4. ChannelsTyped' /\ FileFromItsStart' /\ FlushedIsKept'
    BY DEF IInv, ChannelsTyped, FileFromItsStart, FlushedIsKept, Size
<1>5. CachesInFile'
    BY <1>1 DEF IInv, CachesInFile, Size
<1>6. WritesWait'
    BY <1>1 DEF IInv, WritesWait
<1>7. QED
    BY <1>2, <1>3, <1>4, <1>5, <1>6 DEF IInv

\* What a window asks for
LEMMA WindowFields ==
    ASSUME NEW w \in Windows
    PROVE  /\ w.kind \in {"file", "mmap", "loop", "mem"} /\ w.off \in Nat /\ w.len \in Nat
           /\ w.ro \in BOOLEAN /\ w.cached \in BOOLEAN
BY BlocksAreSane

LEMMA OpenOnFileKeeps == ASSUME IInv, NEW d \in Devices, NEW w \in Windows, OpenOnFile(d, w) PROVE IInv'
<1> DEFINE places == IF w.cached THEN 0..(SizeAsked(w) - 1) ELSE {}
           v == [kind |-> w.kind, off |-> w.off, size |-> SizeAsked(w), ro |-> w.ro,
                 cached |-> w.cached, dirty |-> FALSE, base |-> d, at |-> 0, below |-> {},
                 data |-> [p \in places |-> file[w.off + p]]]
<1>1. w.off \in Nat /\ w.len \in Nat /\ w.ro \in BOOLEAN /\ w.cached \in BOOLEAN
    BY WindowFields
<1>2. SizeAsked(w) \in Nat
    BY <1>1, FileHasASize DEF SizeAsked, IInv
<1>3. dev[d] = Closed /\ w.kind \in {"file", "mmap"} /\ Opens(w) /\ dev' = [dev EXCEPT ![d] = v]
    BY DEF OpenOnFile
<1>4. IsDevice(v)
    BY <1>1, <1>2, <1>3 DEF IsDevice
<1>5. v.base = d /\ v.at = 0 /\ v.kind # "loop"
    BY <1>3
<1>6. Caches(v) => DOMAIN v.data = 0..(v.size - 1) /\ v.off + v.size <= Size
    BY <1>3 DEF Caches, Opens
<1>7. UNCHANGED <<file, chan, wrote, sure>>
    BY DEF OpenOnFile
<1> HIDE DEF v
<1>8. QED
    BY <1>3, <1>4, <1>5, <1>6, <1>7, Opening

LEMMA OpenLoopKeeps == ASSUME IInv, NEW d \in Devices, NEW o \in Devices, NEW w \in Windows, OpenLoop(d, w, o) PROVE IInv'
<1> DEFINE rest == dev[o].size - w.off
           v == [kind |-> "loop", off |-> w.off, size |-> IF w.len > 0 /\ w.len < rest THEN w.len ELSE rest,
                 ro |-> FALSE, cached |-> FALSE, dirty |-> FALSE, base |-> dev[o].base, at |-> dev[o].at + w.off,
                 below |-> dev[o].below \cup {o}, data |-> [p \in {} |-> Fail]]
<1>1. w.off \in Nat /\ w.len \in Nat
    BY WindowFields
<1>2. dev[d] = Closed /\ dev[o] # Closed /\ w.off < dev[o].size /\ dev' = [dev EXCEPT ![d] = v]
    BY DEF OpenLoop
<1>3. dev[o].size \in Nat /\ dev[o].at \in Nat /\ dev[o].base \in Devices /\ dev[o].below \in SUBSET Devices
    BY <1>2 DEF IInv, DevicesTyped, IsDevice
<1>4. v.size \in Nat /\ v.off + v.size <= dev[o].size /\ v.off = w.off
    BY <1>1, <1>2, <1>3
<1>5. IsDevice(v)
    BY <1>1, <1>3, <1>4 DEF IsDevice
<1>6. /\ IsOpen(dev[o].base) /\ (dev[o].base = o \/ dev[o].base \in dev[o].below)
      /\ dev[dev[o].base].kind # "loop" /\ dev[o].at + dev[o].size <= dev[dev[o].base].size
    BY <1>2 DEF IInv, OnBases
<1>7. dev[dev[o].base].size \in Nat
    BY <1>6 DEF IInv, DevicesTyped, IsDevice, IsOpen
<1>8. /\ IsOpen(v.base) /\ v.base \in v.below /\ dev[v.base].kind # "loop"
      /\ v.at + v.size <= dev[v.base].size
    BY <1>1, <1>3, <1>4, <1>6, <1>7
<1>9. ~Caches(v)
    BY DEF Caches
<1>10. UNCHANGED <<file, chan, wrote, sure>>
    BY DEF OpenLoop
<1> HIDE DEF v
<1>11. QED
    BY <1>2, <1>5, <1>8, <1>9, <1>10, Opening

LEMMA OpenMemKeeps == ASSUME IInv, NEW d \in Devices, NEW w \in Windows, OpenMem(d, w) PROVE IInv'
<1> DEFINE v == [kind |-> "mem", off |-> 0, size |-> w.len, ro |-> w.ro, cached |-> FALSE, dirty |-> FALSE,
                 base |-> d, at |-> 0, below |-> {}, data |-> [p \in 0..(w.len - 1) |-> Blank]]
<1>1. w.len \in Nat /\ w.ro \in BOOLEAN
    BY WindowFields
<1>2. dev[d] = Closed /\ dev' = [dev EXCEPT ![d] = v]
    BY DEF OpenMem
<1>3. IsDevice(v)
    BY <1>1 DEF IsDevice
<1>4. v.base = d /\ v.at = 0 /\ v.kind # "loop" /\ ~Caches(v)
    BY DEF Caches
<1>5. UNCHANGED <<file, chan, wrote, sure>>
    BY DEF OpenMem
<1> HIDE DEF v
<1>6. QED
    BY <1>2, <1>3, <1>4, <1>5, Opening

LEMMA AllGoneKeeps == ASSUME IInv, AllGone PROVE IInv'
<1>1. /\ dev' = [d \in Devices |-> Closed] /\ chan' = [c \in Volumes |-> NoChannel]
      /\ wrote' = [p \in {} |-> Fail] /\ file' = file /\ sure' = sure
    BY DEF AllGone
<1>2. DevicesTyped' /\ OnBases' /\ CachesInFile'
    BY <1>1 DEF DevicesTyped, OnBases, CachesInFile
<1>3. ChannelsTyped'
    BY <1>1 DEF ChannelsTyped, NoChannel
<1>4. FileFromItsStart' /\ FlushedIsKept'
    BY <1>1 DEF IInv, FileFromItsStart, FlushedIsKept, Size
<1>5. WritesWait'
    BY <1>1 DEF WritesWait
<1>6. QED
    BY <1>2, <1>3, <1>4, <1>5 DEF IInv

\* All that speaks of devices, when one is written to or unmarked
LEMMA Reshaped ==
    ASSUME DevicesTyped, OnBases, NEW b \in Devices, dev[b] # Closed, NEW w, IsDevice(w),
           w.kind = dev[b].kind, w.size = dev[b].size, w.base = dev[b].base, w.at = dev[b].at, w.below = dev[b].below,
           dev' = [dev EXCEPT ![b] = w]
    PROVE  DevicesTyped' /\ OnBases'
<1>1. dev'[b] = w /\ \A o \in Devices : o # b => dev'[o] = dev[o]
    BY DEF DevicesTyped
<1>2. DevicesTyped'
    BY <1>1 DEF DevicesTyped
<1>3. ASSUME NEW o \in Devices, dev'[o] # Closed
      PROVE  /\ IsOpen(dev[o].base)'
             /\ dev'[o].base = o \/ dev'[o].base \in dev'[o].below
             /\ dev'[dev'[o].base].kind # "loop"
             /\ dev'[o].at + dev'[o].size <= dev'[dev'[o].base].size
    <2>1. dev[o] # Closed
        BY <1>1, <1>3
    <2>2. dev'[o].base = dev[o].base /\ dev'[o].below = dev[o].below /\ dev'[o].at = dev[o].at /\ dev'[o].size = dev[o].size
        BY <1>1
    <2>3. /\ IsOpen(dev[o].base) /\ (dev[o].base = o \/ dev[o].base \in dev[o].below)
          /\ dev[dev[o].base].kind # "loop" /\ dev[o].at + dev[o].size <= dev[dev[o].base].size
        BY <2>1 DEF OnBases
    <2>4. /\ dev'[dev[o].base] # Closed /\ dev'[dev[o].base].kind = dev[dev[o].base].kind
          /\ dev'[dev[o].base].size = dev[dev[o].base].size
        BY <2>3, <1>1 DEF IsOpen, IsDevice, Closed
    <2>5. QED
        BY <2>2, <2>3, <2>4 DEF IsOpen
<1>4. QED
    BY <1>2, <1>3 DEF OnBases

\* Where a place of a device is, and what is there
LEMMA AtTheBase ==
    ASSUME IInv, NEW d \in Devices, dev[d] # Closed, NEW p \in Nat, Bottom(d, p).dev # NoDevice
    PROVE  LET b == dev[d].base IN
           /\ Bottom(d, p) = [dev |-> b, place |-> dev[d].at + p]
           /\ IsOpen(b) /\ IsDevice(dev[b]) /\ dev[b].kind \in {"file", "mmap", "mem"}
           /\ dev[d].at + p \in 0..(dev[b].size - 1) /\ dev[b].off \in Nat /\ dev[b].size \in Nat
<1>1. ~(p >= dev[d].size) /\ Bottom(d, p) = [dev |-> dev[d].base, place |-> dev[d].at + p]
    BY DEF Bottom
<1>2. dev[d].size \in Nat /\ dev[d].at \in Nat
    BY DEF IInv, DevicesTyped, IsDevice
<1>3. /\ IsOpen(dev[d].base) /\ dev[dev[d].base].kind # "loop"
      /\ dev[d].at + dev[d].size <= dev[dev[d].base].size
    BY DEF IInv, OnBases
<1>4. IsDevice(dev[dev[d].base])
    BY <1>3 DEF IInv, DevicesTyped, IsOpen
<1>5. /\ dev[dev[d].base].kind \in {"file", "mmap", "mem"}
      /\ dev[dev[d].base].off \in Nat /\ dev[dev[d].base].size \in Nat
    BY <1>3, <1>4 DEF IsDevice
<1>6. QED
    BY <1>1, <1>2, <1>3, <1>4, <1>5

\* The writes that wait, with one more
LEMMA OneMoreWaits ==
    ASSUME WritesWait, NEW b \in Devices, NEW q \in Nat, NEW x, wrote' = Noted(b, q, x),
           dev'[b] # Closed, Waits(file', dev'[b], q, x),
           \A p \in DOMAIN wrote : p # q /\ wrote[p].by \in Devices =>
               dev'[wrote[p].by] # Closed /\ Waits(file', dev'[wrote[p].by], p, wrote[p].value)
    PROVE  WritesWait'
<1>1. /\ DOMAIN wrote' = DOMAIN wrote \cup {q} /\ wrote'[q] = [by |-> b, value |-> x]
      /\ \A p \in DOMAIN wrote : p # q => wrote'[p] = wrote[p]
    BY DEF Noted
<1>2. ASSUME NEW p \in DOMAIN wrote'
      PROVE  /\ p \in Nat
             /\ wrote'[p] = [by |-> wrote'[p].by, value |-> wrote'[p].value]
             /\ wrote'[p].by \in Devices \cup Volumes
             /\ wrote'[p].by \in Devices =>
                    dev'[wrote'[p].by] # Closed /\ Waits(file', dev'[wrote'[p].by], p, wrote'[p].value)
    <2>1. CASE p = q
        BY <2>1, <1>1
    <2>2. CASE p # q
        <3>1. p \in DOMAIN wrote /\ wrote'[p] = wrote[p]
            BY <2>2, <1>1, <1>2
        <3>2. QED
            BY <3>1, <2>2 DEF WritesWait
    <2>3. QED
        BY <2>1, <2>2
<1>3. QED
    BY <1>2 DEF WritesWait

\* What was flushed, but where something is written now
LEMMA KeptElsewhere ==
    ASSUME FlushedIsKept, NEW q, sure' = But(sure, {q}),
           \A p \in DOMAIN file : p # q => p \in DOMAIN file' /\ file'[p] = file[p]
    PROVE  FlushedIsKept'
BY DEF FlushedIsKept, But

LEMMA WriteKeeps == ASSUME IInv, NEW d \in Devices, NEW p \in Nat, NEW x, Write(d, p, x) PROVE IInv'
<1> DEFINE b == dev[d].base
           place == dev[d].at + p
           v == dev[b]
           q == v.off + place
<1>1. dev[d] # Closed /\ Bottom(d, p).dev # NoDevice
    BY DEF Write
<1>2. Bottom(d, p) = [dev |-> b, place |-> place]
    BY <1>1, AtTheBase
<1>3. /\ IsOpen(b) /\ IsDevice(v) /\ v.kind \in {"file", "mmap", "mem"}
      /\ place \in 0..(v.size - 1) /\ v.off \in Nat /\ v.size \in Nat
    BY <1>1, AtTheBase
<1>4. q \in Nat /\ place \in Nat /\ q - v.off = place /\ q \in v.off..(v.off + v.size - 1)
    BY <1>3
<1>5. /\ ~v.ro
      /\ IF Holds(v) THEN dev' = [dev EXCEPT ![b] = Taken(v, place, x)] /\ UNCHANGED file
         ELSE file' = Grown(q, x) /\ UNCHANGED dev
      /\ IF v.kind = "mem" THEN UNCHANGED <<wrote, sure>> ELSE wrote' = Noted(b, q, x) /\ sure' = But(sure, {q})
      /\ UNCHANGED chan
    BY <1>2 DEF Write
<1>6. ChannelsTyped'
    BY <1>5 DEF IInv, ChannelsTyped
<1>7. DevicesTyped /\ OnBases /\ FileFromItsStart /\ CachesInFile /\ WritesWait /\ FlushedIsKept /\ b \in Devices /\ v # Closed
    BY <1>3 DEF IInv, IsOpen
<1>8. CASE Holds(v)
    <2> DEFINE w == Taken(v, place, x)
    <2>taken. w = Taken(v, place, x)
        OBVIOUS
    <2>typed. IsDevice(v)
        BY <1>3
    <2> HIDE DEF w, v, place, b
    <2>1. /\ IsDevice(w)
          /\ w.kind = v.kind /\ w.off = v.off /\ w.size = v.size /\ w.ro = v.ro /\ w.cached = v.cached
          /\ w.base = v.base /\ w.at = v.at /\ w.below = v.below
          /\ v.kind = "file" => w.dirty
          /\ w.data = [v.data EXCEPT ![place] = x]
        BY <2>typed, <2>taken, TakenFields
    <2> USE DEF v, place, b
    <2>2. dev' = [dev EXCEPT ![b] = w] /\ file' = file
        BY <1>5, <1>8, <2>taken
    <2>3. DevicesTyped' /\ OnBases'
        BY <1>7, <2>1, <2>2, Reshaped
    <2>4. FileFromItsStart' /\ Size' = Size
        BY <1>7, <2>2 DEF FileFromItsStart, Size
    <2>5. dev'[b] = w /\ \A o \in Devices : o # b => dev'[o] = dev[o]
        BY <1>7, <2>2 DEF DevicesTyped
    <2>6. w # Closed
        BY <2>1 DEF IsDevice, Closed
    <2>7. CachesInFile'
        <3>1. ASSUME NEW o \in Devices, dev'[o] # Closed, Caches(dev'[o])
              PROVE  DOMAIN dev'[o].data = 0..(dev'[o].size - 1) /\ dev'[o].off + dev'[o].size <= Size'
            <4>1. CASE o = b
                BY <4>1, <3>1, <1>7, <2>1, <2>4, <2>5 DEF CachesInFile, Caches
            <4>2. CASE o # b
                BY <4>2, <3>1, <1>7, <2>4, <2>5 DEF CachesInFile
            <4>3. QED
                BY <4>1, <4>2
        <3>2. QED
            BY <3>1 DEF CachesInFile
    <2>8. CASE v.kind = "mem"
        <3>1. wrote' = wrote /\ sure' = sure
            BY <2>8, <1>5
        <3>2. \A r \in DOMAIN wrote : wrote[r].by # b
            BY <2>8, <1>7 DEF WritesWait, Waits
        <3>3. WritesWait'
            BY <3>1, <3>2, <1>7, <2>2, <2>5 DEF WritesWait
        <3>4. FlushedIsKept'
            BY <3>1, <1>7, <2>2 DEF FlushedIsKept
        <3>5. QED
            BY <1>6, <2>3, <2>4, <2>7, <3>3, <3>4 DEF IInv
    <2>9. CASE v.kind # "mem"
        <3>1. v.kind = "file" /\ Caches(v)
            BY <2>9, <1>8 DEF Holds, Caches
        <3>2. wrote' = Noted(b, q, x) /\ sure' = But(sure, {q})
            BY <2>9, <1>5
        <3>3. DOMAIN v.data = 0..(v.size - 1)
            BY <3>1, <1>7 DEF CachesInFile
        <3>4. w.data[place] = x
            BY <3>3, <1>3, <2>1
        <3>5. Waits(file', dev'[b], q, x)
            BY <3>1, <3>4, <1>4, <1>5, <2>1, <2>5 DEF Waits, Caches
        <3>6. ASSUME NEW r \in DOMAIN wrote, r # q, wrote[r].by \in Devices
              PROVE  dev'[wrote[r].by] # Closed /\ Waits(file', dev'[wrote[r].by], r, wrote[r].value)
            <4>1. r \in Nat /\ dev[wrote[r].by] # Closed /\ Waits(file, dev[wrote[r].by], r, wrote[r].value)
                BY <3>6, <1>7 DEF WritesWait
            <4>2. CASE wrote[r].by = b
                <5>1. r \in v.off..(v.off + v.size - 1) /\ v.data[r - v.off] = wrote[r].value
                    BY <4>1, <4>2, <3>1 DEF Waits
                <5>2. r - v.off # place /\ r - v.off \in 0..(v.size - 1)
                    BY <5>1, <4>1, <1>3, <1>4, <3>6
                <5>3. w.data[r - v.off] = wrote[r].value
                    BY <5>1, <5>2, <3>3, <2>1
                <5>4. w.kind = "file" /\ w.cached /\ ~w.ro /\ w.dirty
                    BY <3>1, <1>5, <2>1 DEF Caches
                <5>5. Waits(file', w, r, wrote[r].value)
                    BY <5>1, <5>3, <5>4, <2>1 DEF Waits, Caches
                <5>6. QED
                    BY <5>5, <4>2, <2>5, <2>6
            <4>3. CASE wrote[r].by # b
                BY <4>1, <4>3, <3>6, <2>2, <2>5
            <4>4. QED
                BY <4>2, <4>3
        <3>7. WritesWait'
            BY <1>4, <1>7, <2>5, <2>6, <3>2, <3>5, <3>6, OneMoreWaits
        <3>8. FlushedIsKept'
            BY <1>7, <3>2, <2>2, KeptElsewhere
        <3>9. QED
            BY <1>6, <2>3, <2>4, <2>7, <3>7, <3>8 DEF IInv
    <2>10. QED
        BY <2>8, <2>9
<1>9. CASE ~Holds(v)
    <2>1. v.kind \in {"file", "mmap"} /\ ~Caches(v)
        BY <1>3, <1>9 DEF Holds, Caches
    <2>2. file' = Grown(q, x) /\ dev' = dev /\ wrote' = Noted(b, q, x) /\ sure' = But(sure, {q})
        BY <1>5, <1>9, <2>1
    <2>3. /\ FileFromItsStart' /\ Size <= Size' /\ DOMAIN file \subseteq DOMAIN file'
          /\ q \in DOMAIN file' /\ file'[q] = x
          /\ \A r \in DOMAIN file : r # q => file'[r] = file[r]
        BY <1>4, <1>7, <2>2, GrownFile
    <2>4. DevicesTyped' /\ OnBases'
        BY <1>7, <2>2 DEF DevicesTyped, OnBases, IsOpen
    <2>5. CachesInFile'
        <3>1. Size \in Nat /\ Size' \in Nat
            BY <1>7, <2>3, FileHasASize, FS_CardinalityType DEF FileFromItsStart, Size
        <3>2. ASSUME NEW o \in Devices, dev[o] # Closed, Caches(dev[o])
              PROVE  DOMAIN dev[o].data = 0..(dev[o].size - 1) /\ dev[o].off + dev[o].size <= Size'
            <4>1. DOMAIN dev[o].data = 0..(dev[o].size - 1) /\ dev[o].off + dev[o].size <= Size
                BY <3>2, <1>7 DEF CachesInFile
            <4>2. dev[o].off \in Nat /\ dev[o].size \in Nat
                BY <3>2, <1>7 DEF DevicesTyped, IsDevice
            <4>3. QED
                BY <4>1, <4>2, <3>1, <2>3
        <3>3. QED
            BY <3>2, <2>2 DEF CachesInFile
    <2>6. Waits(file', dev'[b], q, x)
        BY <1>5, <2>1, <2>2, <2>3 DEF Waits
    <2>7. ASSUME NEW r \in DOMAIN wrote, r # q, wrote[r].by \in Devices
          PROVE  dev'[wrote[r].by] # Closed /\ Waits(file', dev'[wrote[r].by], r, wrote[r].value)
        BY <2>7, <1>7, <2>2, <2>3 DEF WritesWait, Waits
    <2>8. WritesWait'
        BY <1>4, <1>7, <2>2, <2>6, <2>7, OneMoreWaits
    <2>9. FlushedIsKept'
        BY <1>7, <2>2, <2>3, KeptElsewhere
    <2>10. QED
        BY <1>6, <2>3, <2>4, <2>5, <2>8, <2>9 DEF IInv
<1>10. QED
    BY <1>8, <1>9

\* Writing back the first places of a device's cache: the file keeps its places, and what waits
\* goes on waiting but for that device's writes and what was undone.
LEMMA SettledKeeps ==
    ASSUME IInv, NEW b \in Devices, dev[b] # Closed, NEW n \in Nat, NEW mine,
           mine = {} \/ (mine = WrittenBy(b) /\ n = dev[b].size), Settled(b, n, mine)
    PROVE  /\ FileFromItsStart' /\ FlushedIsKept' /\ Size' = Size /\ DOMAIN file' = DOMAIN file
           /\ \A p \in DOMAIN wrote : p \notin Undone(b, n) /\ wrote[p].by \in Devices \ {b} =>
                  Waits(file', dev[wrote[p].by], p, wrote[p].value)
           /\ \A p \in DOMAIN wrote : wrote[p].by = b /\ IsDirty(dev[b]) => Waits(file', dev[b], p, wrote[p].value)
<1>1. FlushedIsKept'
    BY FlushedAfter
<1>2. FileFromItsStart /\ WritesWait /\ IsDevice(dev[b])
    BY DEF IInv, DevicesTyped
<1>3. dev[b].off \in Nat
    BY <1>2 DEF IsDevice
<1>4. /\ DOMAIN file' = DOMAIN file /\ Size' = Size
      /\ \A p \in DOMAIN file : p \notin Lost(b, n) => file'[p] = file[p]
    BY <1>2, <1>3, WrittenBack
<1>5. FileFromItsStart'
    BY <1>2, <1>4 DEF FileFromItsStart
<1>6. ASSUME NEW p \in DOMAIN wrote, p \notin Undone(b, n), wrote[p].by \in Devices \ {b}
      PROVE  Waits(file', dev[wrote[p].by], p, wrote[p].value)
    <2>1. Waits(file, dev[wrote[p].by], p, wrote[p].value)
        BY <1>2, <1>6 DEF WritesWait
    <2>2. CASE Caches(dev[wrote[p].by])
        BY <2>1, <2>2 DEF Waits
    <2>3. CASE ~Caches(dev[wrote[p].by])
        <3>1. dev[wrote[p].by].kind \in {"file", "mmap"} /\ p \in DOMAIN file
            BY <2>1, <2>3 DEF Waits
        <3>2. ~Holds(dev[wrote[p].by])
            BY <2>3, <3>1 DEF Holds, Caches
        <3>3. p \notin WrittenBy(b)
            BY <1>6 DEF WrittenBy
        <3>4. p \notin Lost(b, n)
            BY <1>6, <3>2, <3>3 DEF Undone
        <3>5. QED
            BY <2>1, <2>3, <3>1, <3>4, <1>4 DEF Waits
    <2>4. QED
        BY <2>2, <2>3
<1>7. ASSUME NEW p \in DOMAIN wrote, wrote[p].by = b, IsDirty(dev[b])
      PROVE  Waits(file', dev[b], p, wrote[p].value)
    <2>1. Waits(file, dev[b], p, wrote[p].value)
        BY <1>2, <1>7 DEF WritesWait
    <2>2. Caches(dev[b])
        BY <1>7 DEF IsDirty, Caches
    <2>3. QED
        BY <2>1, <2>2 DEF Waits
<1>8. QED
    BY <1>1, <1>4, <1>5, <1>6, <1>7

\* Some of the writes that wait no longer do.
LEMMA FewerWait ==
    ASSUME WritesWait, NEW gone, wrote' = But(wrote, gone),
           \A p \in DOMAIN wrote : p \notin gone /\ wrote[p].by \in Devices =>
               dev'[wrote[p].by] # Closed /\ Waits(file', dev'[wrote[p].by], p, wrote[p].value)
    PROVE  WritesWait'
<1>1. DOMAIN wrote' = DOMAIN wrote \ gone /\ \A p \in DOMAIN wrote' : wrote'[p] = wrote[p]
    BY DEF But
<1>2. QED
    BY <1>1 DEF WritesWait

LEMMA FlushKeeps == ASSUME IInv, NEW d \in Devices, Flush(d) PROVE IInv'
<1> DEFINE b == dev[d].base
           n == dev[b].size
           mine == IF dev[b].kind = "file" /\ dev[b].ro THEN {} ELSE WrittenBy(b)
           w == [dev[b] EXCEPT !.dirty = FALSE]
<1>1. IsOpen(b)
    BY DEF Flush, IInv, OnBases
<1>2. b \in Devices /\ dev[b] # Closed /\ IsDevice(dev[b])
    BY <1>1 DEF IsOpen, IInv, DevicesTyped
<1>3. n \in Nat
    BY <1>2 DEF IsDevice
<1>4. /\ Settled(b, n, mine) /\ wrote' = But(wrote, mine \cup Undone(b, n))
      /\ dev' = [dev EXCEPT ![b] = w] /\ chan' = chan
    BY DEF Flush
<1>5. mine = {} \/ (mine = WrittenBy(b) /\ n = dev[b].size)
    OBVIOUS
<1>6. ASSUME NEW p \in WrittenBy(b) PROVE p \in mine
    <2>1. p \in DOMAIN wrote /\ wrote[p].by = b
        BY <1>6 DEF WrittenBy
    <2>2. ~dev[b].ro
        BY <2>1, <1>2 DEF IInv, WritesWait, Waits
    <2>3. QED
        BY <1>6, <2>2
<1>7. w = [dev[b] EXCEPT !.dirty = FALSE]
    OBVIOUS
<1> HIDE DEF b, n, mine, w
<1>8. /\ FileFromItsStart' /\ FlushedIsKept' /\ Size' = Size
      /\ \A p \in DOMAIN wrote : p \notin Undone(b, n) /\ wrote[p].by \in Devices \ {b} =>
             Waits(file', dev[wrote[p].by], p, wrote[p].value)
    BY <1>2, <1>3, <1>4, <1>5, SettledKeeps
<1>9. /\ IsDevice(w)
      /\ w.kind = dev[b].kind /\ w.off = dev[b].off /\ w.size = dev[b].size /\ w.cached = dev[b].cached
      /\ w.base = dev[b].base /\ w.at = dev[b].at /\ w.below = dev[b].below /\ w.data = dev[b].data
    BY <1>2, <1>7, CleanFields
<1>10. DevicesTyped' /\ OnBases'
    BY <1>2, <1>4, <1>9, Reshaped DEF IInv
<1>11. dev'[b] = w /\ \A o \in Devices : o # b => dev'[o] = dev[o]
    BY <1>2, <1>4 DEF IInv, DevicesTyped
<1>12. CachesInFile'
    BY <1>2, <1>8, <1>9, <1>11 DEF IInv, CachesInFile, Caches
<1>13. WritesWait'
    <2>1. ASSUME NEW p \in DOMAIN wrote, p \notin mine \cup Undone(b, n), wrote[p].by \in Devices
          PROVE  dev'[wrote[p].by] # Closed /\ Waits(file', dev'[wrote[p].by], p, wrote[p].value)
        <3>1. wrote[p].by # b
            BY <2>1, <1>6 DEF WrittenBy
        <3>2. dev[wrote[p].by] # Closed
            BY <2>1 DEF IInv, WritesWait
        <3>3. QED
            BY <2>1, <3>1, <3>2, <1>8, <1>11
    <2>2. QED
        BY <2>1, <1>4, FewerWait DEF IInv
<1>14. ChannelsTyped'
    BY <1>4 DEF IInv, ChannelsTyped
<1>15. QED
    BY <1>8, <1>10, <1>12, <1>13, <1>14 DEF IInv

LEMMA FlushShortKeeps == ASSUME IInv, NEW d \in Devices, NEW n \in Nat, FlushShort(d, n) PROVE IInv'
<1> DEFINE b == dev[d].base
<1>1. IsOpen(b)
    BY DEF FlushShort, IInv, OnBases
<1>2. b \in Devices /\ dev[b] # Closed
    BY <1>1 DEF IsOpen
<1>3. /\ IsDirty(dev[b]) /\ Settled(b, n, {}) /\ wrote' = But(wrote, Undone(b, n))
      /\ dev' = dev /\ chan' = chan
    BY DEF FlushShort
<1> HIDE DEF b
<1>4. /\ FileFromItsStart' /\ FlushedIsKept' /\ Size' = Size
      /\ \A p \in DOMAIN wrote : p \notin Undone(b, n) /\ wrote[p].by \in Devices \ {b} =>
             Waits(file', dev[wrote[p].by], p, wrote[p].value)
      /\ \A p \in DOMAIN wrote : wrote[p].by = b /\ IsDirty(dev[b]) => Waits(file', dev[b], p, wrote[p].value)
    BY <1>2, <1>3, SettledKeeps
<1>5. DevicesTyped' /\ OnBases' /\ CachesInFile' /\ ChannelsTyped'
    BY <1>3, <1>4 DEF IInv, DevicesTyped, OnBases, IsOpen, CachesInFile, ChannelsTyped
<1>6. WritesWait'
    <2>1. ASSUME NEW p \in DOMAIN wrote, p \notin Undone(b, n), wrote[p].by \in Devices
          PROVE  dev'[wrote[p].by] # Closed /\ Waits(file', dev'[wrote[p].by], p, wrote[p].value)
        <3>1. dev[wrote[p].by] # Closed
            BY <2>1 DEF IInv, WritesWait
        <3>2. CASE wrote[p].by = b
            BY <2>1, <3>1, <3>2, <1>3, <1>4
        <3>3. CASE wrote[p].by # b
            BY <2>1, <3>1, <3>3, <1>3, <1>4
        <3>4. QED
            BY <3>2, <3>3
    <2>2. QED
        BY <2>1, <1>3, FewerWait DEF IInv
<1>7. QED
    BY <1>4, <1>5, <1>6 DEF IInv

LEMMA CloseKeeps == ASSUME IInv, NEW d \in Devices, NEW n \in Nat, Close(d, n) PROVE IInv'
<1> DEFINE mine == IF IsDirty(dev[d]) /\ n = dev[d].size THEN WrittenBy(d) ELSE {}
<1>1. /\ dev[d] # Closed /\ Unused(d) /\ Settled(d, n, mine)
      /\ wrote' = But(wrote, WrittenBy(d) \cup Undone(d, n))
      /\ dev' = [dev EXCEPT ![d] = Closed] /\ chan' = chan
    BY DEF Close
<1>2. mine = {} \/ (mine = WrittenBy(d) /\ n = dev[d].size)
    OBVIOUS
<1> HIDE DEF mine
<1>3. /\ FileFromItsStart' /\ FlushedIsKept' /\ Size' = Size
      /\ \A p \in DOMAIN wrote : p \notin Undone(d, n) /\ wrote[p].by \in Devices \ {d} =>
             Waits(file', dev[wrote[p].by], p, wrote[p].value)
    BY <1>1, <1>2, SettledKeeps
<1>4. dev'[d] = Closed /\ \A o \in Devices : o # d => dev'[o] = dev[o]
    BY <1>1 DEF IInv, DevicesTyped
<1>5. DevicesTyped'
    BY <1>1, <1>4 DEF IInv, DevicesTyped
<1>6. OnBases'
    <2>1. ASSUME NEW o \in Devices, dev'[o] # Closed
          PROVE  /\ IsOpen(dev[o].base)'
                 /\ dev'[o].base = o \/ dev'[o].base \in dev'[o].below
                 /\ dev'[dev'[o].base].kind # "loop"
                 /\ dev'[o].at + dev'[o].size <= dev'[dev'[o].base].size
        <3>1. o # d /\ dev'[o] = dev[o]
            BY <2>1, <1>4
        <3>2. /\ IsOpen(dev[o].base) /\ (dev[o].base = o \/ dev[o].base \in dev[o].below)
              /\ dev[dev[o].base].kind # "loop" /\ dev[o].at + dev[o].size <= dev[dev[o].base].size
            BY <2>1, <3>1 DEF IInv, OnBases
        <3>3. dev[o].base # d
            BY <2>1, <3>1, <3>2, <1>1 DEF Unused
        <3>4. dev'[dev[o].base] = dev[dev[o].base]
            BY <3>2, <3>3, <1>4 DEF IsOpen
        <3>5. QED
            BY <3>1, <3>2, <3>4 DEF IsOpen
    <2>2. QED
        BY <2>1 DEF OnBases
<1>7. CachesInFile'
    BY <1>3, <1>4 DEF IInv, CachesInFile
<1>8. WritesWait'
    <2>1. ASSUME NEW p \in DOMAIN wrote, p \notin WrittenBy(d) \cup Undone(d, n), wrote[p].by \in Devices
          PROVE  dev'[wrote[p].by] # Closed /\ Waits(file', dev'[wrote[p].by], p, wrote[p].value)
        <3>1. wrote[p].by # d
            BY <2>1 DEF WrittenBy
        <3>2. dev[wrote[p].by] # Closed
            BY <2>1 DEF IInv, WritesWait
        <3>3. QED
            BY <2>1, <3>1, <3>2, <1>3, <1>4
    <2>2. QED
        BY <2>1, <1>1, FewerWait DEF IInv
<1>9. ChannelsTyped'
    BY <1>1 DEF IInv, ChannelsTyped
<1>10. QED
    BY <1>3, <1>5, <1>6, <1>7, <1>8, <1>9 DEF IInv

\* A volume that opened the file by its path writes there, and is no device.
LEMMA WriteByPathKeeps ==
    ASSUME IInv, NEW c \in Volumes, NEW p \in Nat, NEW x, p < Size,
           file' = [file EXCEPT ![p] = x], wrote' = Noted(c, p, x), sure' = But(sure, {p}),
           UNCHANGED <<dev, chan>>
    PROVE  IInv'
<1>1. Size \in Nat /\ DOMAIN file = 0..(Size - 1)
    BY FileHasASize DEF IInv
<1>2. DOMAIN file' = DOMAIN file /\ p \in DOMAIN file /\ \A q \in DOMAIN file : q # p => file'[q] = file[q]
    BY <1>1
<1>3. FileFromItsStart' /\ Size' = Size
    BY <1>2 DEF IInv, FileFromItsStart, Size
<1>4. DevicesTyped' /\ OnBases' /\ ChannelsTyped' /\ CachesInFile'
    BY <1>3 DEF IInv, DevicesTyped, OnBases, IsOpen, ChannelsTyped, CachesInFile
<1>5. FlushedIsKept'
    BY <1>2, KeptElsewhere DEF IInv
<1>6. WritesWait'
    <2>1. /\ DOMAIN wrote' = DOMAIN wrote \cup {p} /\ wrote'[p] = [by |-> c, value |-> x]
          /\ \A q \in DOMAIN wrote : q # p => wrote'[q] = wrote[q]
        BY DEF Noted
    <2>2. c \notin Devices
        BY BlocksAreSane
    <2>3. ASSUME NEW q \in DOMAIN wrote'
          PROVE  /\ q \in Nat
                 /\ wrote'[q] = [by |-> wrote'[q].by, value |-> wrote'[q].value]
                 /\ wrote'[q].by \in Devices \cup Volumes
                 /\ wrote'[q].by \in Devices =>
                        dev'[wrote'[q].by] # Closed /\ Waits(file', dev'[wrote'[q].by], q, wrote'[q].value)
        <3>1. CASE q = p
            BY <3>1, <2>1, <2>2
        <3>2. CASE q # p
            <4>1. q \in DOMAIN wrote /\ wrote'[q] = wrote[q]
                BY <3>2, <2>1, <2>3
            <4>2. /\ q \in Nat /\ wrote[q] = [by |-> wrote[q].by, value |-> wrote[q].value]
                  /\ wrote[q].by \in Devices \cup Volumes
                BY <4>1 DEF IInv, WritesWait
            <4>3. ASSUME wrote[q].by \in Devices
                  PROVE  dev[wrote[q].by] # Closed /\ Waits(file', dev[wrote[q].by], q, wrote[q].value)
                BY <4>1, <4>3, <3>2, <1>2 DEF IInv, WritesWait, Waits
            <4>4. QED
                BY <4>1, <4>2, <4>3
        <3>3. QED
            BY <3>1, <3>2
    <2>4. QED
        BY <2>3 DEF WritesWait
<1>7. QED
    BY <1>3, <1>4, <1>5, <1>6 DEF IInv

LEMMA ChannelWriteKeeps ==
    ASSUME IInv, NEW c \in Volumes, NEW p \in Nat, NEW x, ChannelWrite(c, p, x) PROVE IInv'
<1>1. CASE chan[c].step = "open"
    <2>1. chan[c].dev \in Devices /\ Write(chan[c].dev, p, x)
        BY <1>1 DEF IInv, ChannelsTyped, ChannelWrite
    <2>2. QED
        BY <2>1, WriteKeeps
<1>2. CASE chan[c].step # "open"
    BY <1>2, WriteByPathKeeps DEF ChannelWrite
<1>3. QED
    BY <1>1, <1>2

\* Asking a device, and opening or closing a channel, touch neither the file nor a cache.
LEMMA ChannelsMove ==
    ASSUME IInv, UNCHANGED <<file, dev, wrote, sure>>, ChannelsTyped'
    PROVE  IInv'
BY DEF IInv, DevicesTyped, OnBases, IsOpen, FileFromItsStart, CachesInFile, WritesWait, FlushedIsKept, Size

LEMMA ChannelsStayTyped ==
    ASSUME ChannelsTyped, NEW c \in Volumes, NEW k,
           k = [dev |-> k.dev, step |-> k.step], k.step \in {"open", "registered"} => k.dev \in Devices,
           chan' = [chan EXCEPT ![c] = k]
    PROVE  ChannelsTyped'
BY DEF ChannelsTyped

LEMMA OpenChannelKeeps == ASSUME IInv, NEW c \in Volumes, OpenChannel(c) PROVE IInv'
<1> DEFINE k == [chan[c] EXCEPT !.step = "open"]
<1>1. chan[c] = [dev |-> chan[c].dev, step |-> chan[c].step] /\ chan[c].dev \in Devices
    BY DEF OpenChannel, IInv, ChannelsTyped
<1>2. k = [dev |-> chan[c].dev, step |-> "open"]
    BY <1>1
<1>3. chan' = [chan EXCEPT ![c] = k] \/ chan' = [chan EXCEPT ![c] = NoChannel]
    BY DEF OpenChannel
<1>4. UNCHANGED <<file, dev, wrote, sure>>
    BY DEF OpenChannel
<1>5. k = [dev |-> k.dev, step |-> k.step] /\ k.dev \in Devices
    BY <1>1, <1>2
<1>6. NoChannel = [dev |-> NoChannel.dev, step |-> NoChannel.step] /\ NoChannel.step = "closed"
    BY DEF NoChannel
<1> HIDE DEF k
<1>7. ChannelsTyped'
    BY <1>3, <1>5, <1>6, ChannelsStayTyped DEF IInv
<1>8. QED
    BY <1>4, <1>7, ChannelsMove

LEMMA RegisterKeeps == ASSUME IInv, NEW c \in Volumes, NEW d \in Devices, Register(c, d) \/ OpenPath(c, d) PROVE IInv'
<1>1. PICK step \in {"registered", "path"} : chan' = [chan EXCEPT ![c] = [dev |-> d, step |-> step]]
    BY DEF Register, OpenPath
<1>2. ChannelsTyped'
    BY <1>1, ChannelsStayTyped DEF IInv
<1>3. QED
    BY <1>2, ChannelsMove DEF Register, OpenPath

LEMMA CloseChannelKeeps == ASSUME IInv, NEW c \in Volumes, CloseChannel(c) PROVE IInv'
<1>1. chan' = [chan EXCEPT ![c] = NoChannel]
    BY DEF CloseChannel
<1>2. NoChannel = [dev |-> NoChannel.dev, step |-> NoChannel.step] /\ NoChannel.step = "closed"
    BY DEF NoChannel
<1>3. ChannelsTyped'
    BY <1>1, <1>2, ChannelsStayTyped DEF IInv
<1>4. QED
    BY <1>3, ChannelsMove DEF CloseChannel

-------------------------------------------------------------------------------
(* The theorem                                                             *)

LEMMA BlocksInit == Init => IInv
<1> SUFFICES ASSUME Init PROVE IInv
    OBVIOUS
<1>1. DevicesTyped /\ OnBases /\ CachesInFile
    BY DEF Init, DevicesTyped, OnBases, CachesInFile
<1>2. ChannelsTyped
    BY DEF Init, ChannelsTyped, NoChannel
<1>3. FileFromItsStart
    BY BlocksAreSane DEF Init, FileFromItsStart, Size
<1>4. WritesWait /\ FlushedIsKept
    BY DEF Init, WritesWait, FlushedIsKept
<1>5. QED
    BY <1>1, <1>2, <1>3, <1>4 DEF IInv

LEMMA BlocksStep == IInv /\ [Next]_vars => IInv'
<1> SUFFICES ASSUME IInv, [Next]_vars PROVE IInv'
    OBVIOUS
<1>1. \A n \in 0..MaxPlaces : n \in Nat
    BY BlocksAreSane
<1>2. \A p \in 0..(MaxPlaces - 1) : p \in Nat
    BY BlocksAreSane
<1>3. ASSUME NEW d \in Devices, NEW w \in Windows, OpenOnFile(d, w) PROVE IInv'
    BY <1>3, OpenOnFileKeeps
<1>4. ASSUME NEW d \in Devices, NEW o \in Devices, NEW w \in Windows, OpenLoop(d, w, o) PROVE IInv'
    BY <1>4, OpenLoopKeeps
<1>5. ASSUME NEW d \in Devices, NEW w \in Windows, OpenMem(d, w) PROVE IInv'
    BY <1>5, OpenMemKeeps
<1>6. ASSUME NEW d \in Devices, NEW p \in 0..(MaxPlaces - 1), NEW x \in Marks, Write(d, p, x) PROVE IInv'
    BY <1>2, <1>6, WriteKeeps
<1>7. ASSUME NEW d \in Devices, NEW p \in 0..(MaxPlaces - 1), EndBeyondMapping(d, p) PROVE IInv'
    BY <1>7, AllGoneKeeps DEF EndBeyondMapping
<1>8. ASSUME NEW d \in Devices, Flush(d) PROVE IInv'
    BY <1>8, FlushKeeps
<1>9. ASSUME NEW d \in Devices, NEW n \in 0..(MaxPlaces - 1), FlushShort(d, n) PROVE IInv'
    BY <1>2, <1>9, FlushShortKeeps
<1>10. ASSUME NEW d \in Devices, NEW n \in 0..MaxPlaces, Close(d, n) PROVE IInv'
    BY <1>1, <1>10, CloseKeeps
<1>11. ASSUME NEW d \in Devices, LoadInfo(d) PROVE IInv'
    <2>1. UNCHANGED <<file, dev, chan, wrote, sure>>
        BY <1>11 DEF LoadInfo
    <2>2. ChannelsTyped'
        BY <2>1 DEF IInv, ChannelsTyped
    <2>3. QED
        BY <2>1, <2>2, ChannelsMove
<1>12. ASSUME NEW c \in Volumes, NEW d \in Devices, Register(c, d) \/ OpenPath(c, d) PROVE IInv'
    BY <1>12, RegisterKeeps
<1>13. ASSUME NEW c \in Volumes, OpenChannel(c) PROVE IInv'
    BY <1>13, OpenChannelKeeps
<1>14. ASSUME NEW c \in Volumes, CloseChannel(c) PROVE IInv'
    BY <1>14, CloseChannelKeeps
<1>15. ASSUME NEW c \in Volumes, NEW p \in 0..(MaxPlaces - 1), NEW x \in Marks, ChannelWrite(c, p, x) PROVE IInv'
    BY <1>2, <1>15, ChannelWriteKeeps
<1>16. CASE Crash
    BY <1>16, AllGoneKeeps DEF Crash
<1>17. CASE UNCHANGED vars
    BY <1>17 DEF vars, IInv, DevicesTyped, OnBases, IsOpen, ChannelsTyped, FileFromItsStart, CachesInFile,
                 WritesWait, FlushedIsKept, Size
<1>18. QED
    BY <1>3, <1>4, <1>5, <1>6, <1>7, <1>8, <1>9, <1>10, <1>11, <1>12, <1>13, <1>14, <1>15, <1>16, <1>17 DEF Next

\* What was written through a device whose flush has succeeded is in the file until
\* somebody writes there or writes back a cache that differs: for any number of devices
\* and volumes, windows of any place and length, loops on loops, short write-backs,
\* flushes that a destructor does not tell of, and the end of the process at any time.
THEOREM FlushedStays == Spec => []FlushedIsKept
<1>1. IInv => FlushedIsKept
    BY DEF IInv
<1>2. QED
    BY BlocksInit, BlocksStep, <1>1, PTL DEF Spec

-------------------------------------------------------------------------------
(* Counting up to a number.                                                *)

\* What holds of a number when it holds of all below, holds of all up to n.
LEMMA UpTo ==
    ASSUME NEW n \in Nat, NEW S,
           \A k \in 0..n : (\A j \in 0..(k - 1) : j \in S) => k \in S
    PROVE  0..n \subseteq S
<1> DEFINE R == OpToRel(<, Nat)
           T == {k \in 0..n : k \notin S}
<1>1. IsWellFoundedOn(R, Nat)
  BY NatLessThanWellFounded
<1>2. \A p, q \in Nat : p < q => <<p, q>> \in R
  BY DEF OpToRel
<1> HIDE DEF R
<1>3. ASSUME T # {} PROVE FALSE
  <2>1. T \subseteq Nat
    OBVIOUS
  <2>2. PICK k \in T : \A j \in T : ~ (<<j, k>> \in R)
    <3> HIDE DEF T
    <3> QED BY <1>1, <1>3, <2>1, WFMin
  <2>3. ASSUME NEW j \in 0..(k - 1) PROVE j \in S
    <3>1. j \in Nat /\ k \in Nat /\ j < k /\ j \in 0..n
      OBVIOUS
    <3> QED
      BY <1>2, <2>2, <3>1
  <2> QED
    BY <2>3
<1> QED
  BY <1>3

-------------------------------------------------------------------------------
(* Patterns.                                                               *)

LEMMA TokensType ==
    ASSUME NEW s, IsTokens(s)
    PROVE  Len(s) \in Nat /\ DOMAIN s = 1..Len(s)
BY DEF IsTokens

\* From a token of a pattern on, by a function that tells it of the tokens behind.
Rest(pattern, tokens, from, p) ==
    IF p > Len(pattern) THEN {Len(tokens) + 1} ELSE Begins(pattern[p], tokens, from[p + 1])

\* A function that tells it of the last tokens.
Tells(pattern, tokens, f, k) ==
    /\ f = [p \in (Len(pattern) + 1 - k)..(Len(pattern) + 1) |-> f[p]]
    /\ \A p \in (Len(pattern) + 1 - k)..(Len(pattern) + 1) : f[p] = Rest(pattern, tokens, f, p)

\* The recursion of MatchTokens ends, since each token asks for the one behind it.
LEMMA RestsExist ==
    ASSUME NEW pattern, NEW tokens, Len(pattern) \in Nat
    PROVE  \E f : f = [p \in 1..(Len(pattern) + 1) |-> Rest(pattern, tokens, f, p)]
<1> DEFINE m == Len(pattern)
           S == {k \in 0..m : \E f : Tells(pattern, tokens, f, k)}
<1>1. 0 \in S
  <2> DEFINE f == [p \in (m + 1)..(m + 1) |-> {Len(tokens) + 1}]
  <2>1. \A p \in (m + 1)..(m + 1) : f[p] = Rest(pattern, tokens, f, p)
    BY DEF Rest
  <2>2. (m + 1 - 0)..(m + 1) = (m + 1)..(m + 1)
    OBVIOUS
  <2>3. f = [p \in (m + 1)..(m + 1) |-> f[p]]
    OBVIOUS
  <2> HIDE DEF f
  <2>4. Tells(pattern, tokens, f, 0)
    BY <2>1, <2>2, <2>3 DEF Tells
  <2> QED
    BY <2>4
<1>2. ASSUME NEW k \in 1..m, k - 1 \in S PROVE k \in S
  <2>1. PICK f : Tells(pattern, tokens, f, k - 1)
    BY <1>2
  <2> DEFINE q == m + 1 - k
             g == [p \in q..(m + 1) |-> IF p = q THEN Begins(pattern[q], tokens, f[q + 1]) ELSE f[p]]
  <2>2. ASSUME NEW p \in q..(m + 1) PROVE g[p] = Rest(pattern, tokens, g, p)
    <3>1. CASE p = q
      <4>1. g[q + 1] = f[q + 1] /\ ~ (p > m)
        BY <3>1
      <4> QED
        BY <3>1, <4>1 DEF Rest
    <3>2. CASE p # q
      <4>1. p \in (m + 1 - (k - 1))..(m + 1)
        BY <3>2
      <4>2. g[p] = f[p] /\ f[p] = Rest(pattern, tokens, f, p)
        BY <2>1, <3>2, <4>1 DEF Tells
      <4>3. CASE p > m
        BY <4>2, <4>3 DEF Rest
      <4>4. CASE ~ (p > m)
        <5>1. g[p + 1] = f[p + 1]
          BY <4>1, <4>4
        <5> QED
          BY <4>2, <4>4, <5>1 DEF Rest
      <4> QED
        BY <4>3, <4>4
    <3> QED
      BY <3>1, <3>2
  <2>3. g = [p \in q..(m + 1) |-> g[p]]
    OBVIOUS
  <2> HIDE DEF g
  <2>4. Tells(pattern, tokens, g, k)
    BY <2>2, <2>3 DEF Tells
  <2> QED
    BY <2>4
<1>3. \A k \in 0..m : (\A j \in 0..(k - 1) : j \in S) => k \in S
  <2> SUFFICES ASSUME NEW k \in 0..m, \A j \in 0..(k - 1) : j \in S PROVE k \in S
    OBVIOUS
  <2>1. CASE k = 0
    BY <1>1, <2>1
  <2>2. CASE k # 0
    <3> HIDE DEF S
    <3>1. k \in 1..m /\ k - 1 \in 0..(k - 1)
      BY <2>2
    <3> QED
      BY <1>2, <3>1
  <2> QED
    BY <2>1, <2>2
<1>4. m \in S
  <2> HIDE DEF S
  <2>1. m \in 0..m /\ m \in Nat
    OBVIOUS
  <2>2. 0..m \subseteq S
    <3> HIDE DEF m
    <3> QED BY <1>3, <2>1, UpTo
  <2> QED BY <2>1, <2>2
<1>5. PICK f : Tells(pattern, tokens, f, m)
  BY <1>4
<1>6. (m + 1 - m)..(m + 1) = 1..(m + 1)
  OBVIOUS
<1>7. f = [p \in 1..(m + 1) |-> Rest(pattern, tokens, f, p)]
  BY <1>5, <1>6 DEF Tells
<1> QED
  BY <1>7

\* The tokens of a pattern from p on take up what is left from the place t on.
TakeUp(pattern, tokens, p, t) ==
    \E upTo \in [(p - 1)..Len(pattern) -> 0..Len(tokens)] :
        /\ upTo[p - 1] = t - 1 /\ upTo[Len(pattern)] = Len(tokens)
        /\ \A i \in p..Len(pattern) :
              IF pattern[i] = Many THEN upTo[i] >= upTo[i - 1]
              ELSE upTo[i] = upTo[i - 1] + 1 /\ pattern[i] \in {One, tokens[upTo[i]]}

\* Where a pattern that takes something up begins, and where what is behind its first token.
LEMMA TakeUpStep ==
    ASSUME NEW pattern, NEW tokens, Len(pattern) \in Nat, Len(tokens) \in Nat,
           NEW p \in 1..Len(pattern), NEW t \in 1..(Len(tokens) + 1)
    PROVE  TakeUp(pattern, tokens, p, t) <=>
             \E k \in 1..(Len(tokens) + 1) :
                /\ TakeUp(pattern, tokens, p + 1, k)
                /\ IF pattern[p] = Many THEN t <= k
                   ELSE k = t + 1 /\ pattern[p] \in {One, tokens[t]}
<1> DEFINE m == Len(pattern)
           Behind(u, i) == IF pattern[i] = Many THEN u[i] >= u[i - 1]
                           ELSE u[i] = u[i - 1] + 1 /\ pattern[i] \in {One, tokens[u[i]]}
<1>1. ASSUME TakeUp(pattern, tokens, p, t)
      PROVE  \E k \in 1..(Len(tokens) + 1) :
                /\ TakeUp(pattern, tokens, p + 1, k)
                /\ IF pattern[p] = Many THEN t <= k ELSE k = t + 1 /\ pattern[p] \in {One, tokens[t]}
  <2>1. PICK u \in [(p - 1)..m -> 0..Len(tokens)] :
            u[p - 1] = t - 1 /\ u[m] = Len(tokens) /\ \A i \in p..m : Behind(u, i)
    BY <1>1 DEF TakeUp
  <2> DEFINE v == [i \in p..m |-> u[i]]
  <2>2. u[p] \in 0..Len(tokens) /\ u[p - 1] \in 0..Len(tokens) /\ p \in p..m
    OBVIOUS
  <2>3. \A i \in (p + 1)..m : Behind(v, i)
    <3> SUFFICES ASSUME NEW i \in (p + 1)..m PROVE Behind(v, i)
      OBVIOUS
    <3>1. v[i] = u[i] /\ v[i - 1] = u[i - 1] /\ i \in p..m
      OBVIOUS
    <3> QED
      BY <2>1, <3>1
  <2>4. TakeUp(pattern, tokens, p + 1, u[p] + 1)
    <3>1. v \in [((p + 1) - 1)..m -> 0..Len(tokens)]
      OBVIOUS
    <3>2. v[(p + 1) - 1] = (u[p] + 1) - 1 /\ v[m] = Len(tokens)
      BY <2>1, <2>2
    <3> HIDE DEF v
    <3> QED
      BY <2>3, <3>1, <3>2 DEF TakeUp
  <2>5. Behind(u, p)
    BY <2>1, <2>2
  <2>6. IF pattern[p] = Many THEN t <= u[p] + 1 ELSE u[p] + 1 = t + 1 /\ pattern[p] \in {One, tokens[t]}
    BY <2>1, <2>2, <2>5
  <2>7. u[p] + 1 \in 1..(Len(tokens) + 1)
    BY <2>2
  <2> QED
    BY <2>4, <2>6, <2>7
<1>2. ASSUME NEW k \in 1..(Len(tokens) + 1), TakeUp(pattern, tokens, p + 1, k),
             IF pattern[p] = Many THEN t <= k ELSE k = t + 1 /\ pattern[p] \in {One, tokens[t]}
      PROVE  TakeUp(pattern, tokens, p, t)
  <2>1. PICK v \in [((p + 1) - 1)..m -> 0..Len(tokens)] :
            v[(p + 1) - 1] = k - 1 /\ v[m] = Len(tokens) /\ \A i \in (p + 1)..m : Behind(v, i)
    BY <1>2 DEF TakeUp
  <2> DEFINE u == [i \in (p - 1)..m |-> IF i = p - 1 THEN t - 1 ELSE v[i]]
  <2>2. v \in [p..m -> 0..Len(tokens)] /\ v[p] = k - 1
    BY <2>1
  <2>3. u \in [(p - 1)..m -> 0..Len(tokens)]
    BY <2>2
  <2>4. u[p - 1] = t - 1 /\ u[m] = Len(tokens)
    BY <2>1
  <2>5. ASSUME NEW i \in p..m PROVE Behind(u, i)
    <3>1. CASE i = p
      <4>1. u[i] = k - 1 /\ u[i - 1] = t - 1
        BY <2>2, <3>1
      <4> QED
        BY <1>2, <3>1, <4>1
    <3>2. CASE i # p
      <4>1. u[i] = v[i] /\ u[i - 1] = v[i - 1] /\ i \in (p + 1)..m
        BY <3>2
      <4> QED
        BY <2>1, <4>1
    <3> QED
      BY <3>1, <3>2
  <2> HIDE DEF u
  <2> QED
    BY <2>3, <2>4, <2>5 DEF TakeUp
<1> QED
  BY <1>1, <1>2

\* What matchTokens answers is whether the tokens of the pattern take up the path.
THEOREM MatchTokensFits ==
    ASSUME NEW pattern, NEW tokens, IsTokens(pattern), IsTokens(tokens)
    PROVE  MatchTokens(pattern, tokens) <=> Fits(pattern, tokens)
<1> DEFINE m == Len(pattern)
           L == Len(tokens)
           from == CHOOSE f : f = [p \in 1..(m + 1) |->
                      IF p > m THEN {L + 1} ELSE Begins(pattern[p], tokens, f[p + 1])]
           Right(p) == /\ from[p] \subseteq 1..(L + 1)
                       /\ \A t \in 1..(L + 1) : t \in from[p] <=> TakeUp(pattern, tokens, p, t)
           S == {k \in 0..m : Right(m + 1 - k)}
<1>1. m \in Nat /\ L \in Nat
  BY TokensType
<1>2. MatchTokens(pattern, tokens) <=> 1 \in from[1]
  BY DEF MatchTokens
<1>3. from = [p \in 1..(m + 1) |-> IF p > m THEN {L + 1} ELSE Begins(pattern[p], tokens, from[p + 1])]
  <2>1. PICK f : f = [p \in 1..(m + 1) |-> Rest(pattern, tokens, f, p)]
    BY <1>1, RestsExist
  <2>2. f = [p \in 1..(m + 1) |-> IF p > m THEN {L + 1} ELSE Begins(pattern[p], tokens, f[p + 1])]
    BY <2>1 DEF Rest
  <2> QED
    BY <2>2
<1> HIDE DEF from
<1>4. from[m + 1] = {L + 1}
  BY <1>1, <1>3
<1>5. ASSUME NEW p \in 1..m PROVE from[p] = Begins(pattern[p], tokens, from[p + 1])
  <2>1. p \in 1..(m + 1) /\ ~ (p > m)
    BY <1>1
  <2> QED
    BY <1>3, <2>1
<1>6. Right(m + 1)
  <2> SUFFICES ASSUME NEW t \in 1..(L + 1) PROVE t = L + 1 <=> TakeUp(pattern, tokens, m + 1, t)
    BY <1>1, <1>4
  <2>1. ASSUME t = L + 1 PROVE TakeUp(pattern, tokens, m + 1, t)
    <3> DEFINE u == [i \in ((m + 1) - 1)..m |-> L]
    <3>1. u \in [((m + 1) - 1)..m -> 0..L] /\ u[(m + 1) - 1] = t - 1 /\ u[m] = L /\ (m + 1)..m = {}
      BY <1>1, <2>1
    <3> HIDE DEF u
    <3> QED
      BY <3>1 DEF TakeUp
  <2>2. ASSUME TakeUp(pattern, tokens, m + 1, t) PROVE t = L + 1
    <3>1. PICK u : u[(m + 1) - 1] = t - 1 /\ u[m] = L
      BY <2>2 DEF TakeUp
    <3>2. (m + 1) - 1 = m
      BY <1>1
    <3> QED
      BY <1>1, <3>1, <3>2
  <2> QED
    BY <2>1, <2>2
<1>7. ASSUME NEW p \in 1..m, Right(p + 1) PROVE Right(p)
  <2>1. from[p] \subseteq 1..(L + 1)
    <3>1. Begins(pattern[p], tokens, from[p + 1]) \subseteq 1..(L + 1)
      BY <1>1 DEF Begins
    <3> QED
      BY <1>5, <3>1
  <2>2. ASSUME NEW t \in 1..(L + 1) PROVE t \in from[p] <=> TakeUp(pattern, tokens, p, t)
    <3>1. TakeUp(pattern, tokens, p, t) <=>
             \E k \in 1..(L + 1) :
                /\ TakeUp(pattern, tokens, p + 1, k)
                /\ IF pattern[p] = Many THEN t <= k ELSE k = t + 1 /\ pattern[p] \in {One, tokens[t]}
      BY <1>1, TakeUpStep
    <3>2. \A k : k \in from[p + 1] <=> k \in 1..(L + 1) /\ TakeUp(pattern, tokens, p + 1, k)
      BY <1>7
    <3>3. t \in from[p] <=> t \in Begins(pattern[p], tokens, from[p + 1])
      BY <1>5
    <3>4. CASE pattern[p] = Many
      <4>1. t \in from[p] <=> \E k \in from[p + 1] : t <= k
        BY <3>3, <3>4 DEF Begins
      <4> QED
        BY <3>1, <3>2, <3>4, <4>1
    <3>5. CASE pattern[p] # Many
      <4>1. t \in from[p] <=> t \in 1..L /\ pattern[p] \in {One, tokens[t]} /\ t + 1 \in from[p + 1]
        BY <3>3, <3>5 DEF Begins
      <4>2. t + 1 \in 1..(L + 1) => t \in 1..L
        BY <1>1
      <4> QED
        BY <3>1, <3>2, <3>5, <4>1, <4>2
    <3> QED
      BY <3>4, <3>5
  <2> QED
    BY <2>1, <2>2
<1>8. 0..m \subseteq S
  <2>1. ASSUME NEW k \in 0..m, \A j \in 0..(k - 1) : j \in S PROVE k \in S
    <3>1. CASE k = 0
      <4>1. m + 1 - k = m + 1
        BY <1>1, <3>1
      <4> QED
        BY <1>6, <4>1
    <3>2. CASE k # 0
      <4>1. k - 1 \in 0..(k - 1) /\ m + 1 - k \in 1..m /\ m + 1 - (k - 1) = (m + 1 - k) + 1
        BY <1>1, <3>2
      <4>2. Right(m + 1 - (k - 1))
        BY <2>1, <4>1
      <4> QED
        BY <1>7, <4>1, <4>2
    <3> QED
      BY <3>1, <3>2
  <2> HIDE DEF S
  <2>2. \A k \in 0..m : (\A j \in 0..(k - 1) : j \in S) => k \in S
    BY <2>1
  <2> HIDE DEF m
  <2> QED
    BY <1>1, <2>2, UpTo
<1>9. Right(1)
  <2>1. m \in S /\ m + 1 - m = 1
    BY <1>1, <1>8
  <2> QED
    BY <2>1
<1>10. TakeUp(pattern, tokens, 1, 1) <=> Fits(pattern, tokens)
  BY <1>1 DEF TakeUp, Fits
<1> QED
  BY <1>1, <1>2, <1>9, <1>10

LEMMA OneToken ==
    ASSUME NEW a
    PROVE  IsTokens(<<a>>)
BY DEF IsTokens

\* One of finitely many numbers is the greatest.
LEMMA GreatestOf ==
    ASSUME NEW n \in Nat, NEW M, M \subseteq 1..n, M # {}
    PROVE  \E i \in M : \A j \in M : j <= i
<1> DEFINE R == OpToRel(<, Nat)
           D == {n - i : i \in M}
<1>1. IsWellFoundedOn(R, Nat)
  BY NatLessThanWellFounded
<1>2. \A x, y \in Nat : x < y => <<x, y>> \in R
  BY DEF OpToRel
<1>3. \A i \in M : i \in Nat /\ n - i \in Nat
  OBVIOUS
<1> HIDE DEF R
<1>4. PICK d \in D : \A e \in D : ~ (<<e, d>> \in R)
  <2>1. D \subseteq Nat
    BY <1>3
  <2>2. D # {}
    OBVIOUS
  <2> HIDE DEF D
  <2> QED BY <1>1, <2>1, <2>2, WFMin
<1>5. PICK i \in M : d = n - i
  OBVIOUS
<1>6. ASSUME NEW j \in M PROVE j <= i
  <2>1. n - j \in D /\ n - j \in Nat /\ n - i \in Nat /\ i \in Nat /\ j \in Nat
    BY <1>3
  <2>2. ~ (<<n - j, d>> \in R)
    <3> HIDE DEF D
    <3> QED BY <1>4, <2>1
  <2>3. ~ (n - j < n - i)
    BY <1>2, <1>5, <2>1, <2>2
  <2> QED
    BY <2>1, <2>3
<1> QED
  BY <1>6

\* What is left of a text without the slashes at its ends is tokens.
LEMMA SplitIsTokens ==
    ASSUME NEW text, IsText(text)
    PROVE  IsTokens(Split(text))
<1> DEFINE named == {i \in DOMAIN text : text[i] # ""}
           first == IF text[1] = "" THEN 2 ELSE 1
           last == CHOOSE i \in named : \A j \in named : j <= i
           s == SubSeq(text, first, last)
           S == {text[i] : i \in DOMAIN text}
<1>1. Len(text) \in Nat /\ DOMAIN text = 1..Len(text)
  BY TokensType DEF IsText
<1>2. \E i \in named : \A j \in named : j <= i
  <2>1. named \subseteq 1..Len(text) /\ named # {}
    BY <1>1 DEF IsText
  <2> HIDE DEF named
  <2> QED BY <1>1, <2>1, GreatestOf
<1>3. last \in named
  <2> HIDE DEF named
  <2> QED BY <1>2
<1>4. last \in 1..Len(text) /\ first \in {1, 2}
  <2> HIDE DEF last
  <2> QED BY <1>1, <1>3
<1>5. \A i \in first..last : text[i] \in S
  <2> HIDE DEF first, last, S
  <2>1. ASSUME NEW i \in first..last PROVE i \in DOMAIN text
    BY <1>1, <1>4, <2>1
  <2> QED
    BY <2>1 DEF S
<1>6. s \in Seq(S)
  <2> HIDE DEF first, last, S
  <2>1. first \in Int /\ last \in Int
    BY <1>1, <1>4
  <2> QED
    BY <1>5, <2>1, SubSeqProperties
<1>7. IsTokens(s)
  <2> HIDE DEF s, S
  <2> QED BY <1>6 DEF IsTokens
<1> QED
  BY <1>7 DEF Split

\* A pattern matches the permissions that it means.
LEMMA MatchesTakesIn ==
    ASSUME NEW pattern, NEW perm, IsPattern(pattern), IsText(perm[2])
    PROVE  Matches(pattern, perm) <=> TakesIn(pattern, perm)
<1>1. MatchTokens(pattern.action, <<perm[1]>>) <=> Fits(pattern.action, <<perm[1]>>)
  BY OneToken, MatchTokensFits DEF IsPattern
<1>2. pattern.resource.kind = "path" =>
         (MatchTokens(pattern.resource.path, Split(perm[2])) <=> Fits(pattern.resource.path, Split(perm[2])))
  BY MatchTokensFits, SplitIsTokens DEF IsPattern
<1>3. ActionMatches(pattern.action, perm[1]) <=> pattern.action = <<>> \/ Fits(pattern.action, <<perm[1]>>)
  BY <1>1 DEF ActionMatches
<1>4. pattern.resource.kind \in {"all", "end", "path", "name"}
  BY DEF IsPattern
<1> QED
  BY <1>2, <1>3, <1>4 DEF Matches, TakesIn, ResourceMatches

-------------------------------------------------------------------------------
(* Who counts at the guard, and for what.                                  *)

\* Realm::match and Realm::same together find the realms that concern a medium.
LEMMA CountedConcerns ==
    ASSUME NEW ids, NEW m
    PROVE  Counted(ids, RealmOf(m)) = {i \in ids : i.login => Concerns(i.realm, m)}
<1>1. ASSUME NEW r
      PROVE  (Match(r, RealmOf(m)) \/ Same(r, RealmOf(m))) <=> Concerns(r, m)
  <2> DEFINE s == RealmOf(m)
  <2>1. s.type = VolumeType /\ s.uuid = m.uuid /\ VolumeType # Empty
    BY GuardAssumption DEF RealmOf
  <2>2. /\ BothHave(r, s, "type") <=> r.type # Empty
        /\ BothHave(r, s, "uuid") <=> r.uuid # Empty /\ m.uuid # Empty
        /\ BothHave(r, s, "name") <=> r.name # Empty /\ s.name # Empty
    BY <2>1 DEF BothHave
  <2> HIDE DEF s
  <2>3. Same(r, s) <=> IsEmpty(r) \/ KeysAgree(r, s, FALSE)
    BY <2>1 DEF Same, IsEmpty, HasKey
  <2>4. Match(r, s) <=> /\ r.type = VolumeType
                        /\ m.uuid # Empty => r.uuid = m.uuid
                        /\ m.uuid = Empty /\ s.name # Empty => r.name = s.name
    BY <2>1 DEF Match
  <2>5. KeysAgree(r, s, FALSE) <=>
           /\ r.type # Empty => r.type = VolumeType
           /\ IF r.uuid # Empty /\ m.uuid # Empty THEN r.uuid = m.uuid
              ELSE IF r.name # Empty /\ s.name # Empty THEN r.name = s.name
              ELSE r.type # Empty
    BY <2>1, <2>2 DEF KeysAgree
  <2>6. Concerns(r, m) <=>
           /\ r.type \in {Empty, VolumeType}
           /\ IF r.uuid # Empty /\ m.uuid # Empty THEN r.uuid = m.uuid
              ELSE IF r.name # Empty /\ s.name # Empty THEN r.name = s.name
              ELSE r.type # Empty \/ IsEmpty(r)
    BY DEF Concerns, s
  <2>7. IsEmpty(r) <=> r.type = Empty /\ r.uuid = Empty /\ r.name = Empty
    BY DEF IsEmpty, HasKey
  <2> QED
    BY <2>1, <2>3, <2>4, <2>5, <2>6, <2>7 DEF s
<1> QED
  BY <1>1 DEF Counted

\* The entries found are those that mean a permission.
LEMMA BearingMeant == Bearing = Meant
<1>1. ASSUME NEW policy \in Policies, NEW perm \in Permissions, NEW g \in policy
      PROVE  Matches(g.pattern, perm) <=> TakesIn(g.pattern, perm)
  <2>1. IsPattern(g.pattern) /\ IsText(perm[2])
    BY GuardAssumption
  <2> QED
    BY <2>1, MatchesTakesIn
<1>2. ASSUME NEW policy \in Policies, NEW perm \in Permissions
      PROVE  {Entry(g, perm) : g \in {e \in policy : Matches(e.pattern, perm)}}
             = {Entry(g, perm) : g \in {e \in policy : TakesIn(e.pattern, perm)}}
  <2>1. {e \in policy : Matches(e.pattern, perm)} = {e \in policy : TakesIn(e.pattern, perm)}
    BY <1>1
  <2> QED
    BY <2>1
<1>3. ASSUME NEW policy \in Policies
      PROVE  [perm \in Permissions |-> {Entry(g, perm) : g \in {e \in policy : Matches(e.pattern, perm)}}]
             = [perm \in Permissions |-> {Entry(g, perm) : g \in {e \in policy : TakesIn(e.pattern, perm)}}]
  BY <1>2
<1> QED
  BY <1>3 DEF Bearing, Meant

\* As long as the realm of the guard is that of the root, what it lets pass is permitted.
LEMMA DecidedPermitted ==
    ASSUME realm = RealmOf(inner.medium), NEW ids, NEW perm, Decided(ids, perm) = "Allow"
    PROVE  Permitted(ids, perm)
BY CountedConcerns, BearingMeant DEF Decided, Permitted

-------------------------------------------------------------------------------
(* What a call may have come to at any point.                              *)

Passed(o, perm) == \E ids \in o.by : Decided(ids, perm) = "Allow"

\* Everything that was made had passed, a guard that was lent a subject has had nobody
\* log in, and paths have changed only by what was made.
Proper(o) ==
    /\ o = [active |-> o.active, nodes |-> o.nodes, made |-> o.made, by |-> o.by, ok |-> o.ok]
    /\ o.nodes = [p \in Nodes |-> o.nodes[p]]
    /\ \A c \in o.made : \A n \in DOMAIN Needed(c[1], c[2], c[3]) : Passed(o, Needed(c[1], c[2], c[3])[n])
    /\ lent # {} => o.active = active
    /\ \A p \in Nodes : o.nodes[p] # nodes[p] => \E c \in o.made : Reached(c, p)

\* What was asked for on the way from o to x changes nothing.
Asks(o, x) == Proper(x) /\ x.nodes = o.nodes /\ x.made = o.made /\ o.by \subseteq x.by

LEMMA AsksOn ==
    ASSUME NEW o, NEW x, Proper(o),
           x = [active |-> x.active, nodes |-> x.nodes, made |-> x.made, by |-> x.by, ok |-> x.ok],
           x.nodes = o.nodes, x.made = o.made, o.by \subseteq x.by, lent # {} => x.active = active
    PROVE  Asks(o, x)
BY DEF Asks, Proper, Passed

LEMMA RequireAsks ==
    ASSUME NEW o, NEW perm, NEW x \in Require(o, perm), Proper(o)
    PROVE  Asks(o, x) /\ (x.ok => Passed(x, perm) /\ o.ok)
<1>0. o = [active |-> o.active, nodes |-> o.nodes, made |-> o.made, by |-> o.by, ok |-> o.ok]
      /\ (lent # {} => o.active = active)
  BY DEF Proper
<1>1. CASE Decided(o.active, perm) = "Allow"
  <2>1. x = [o EXCEPT !.by = @ \cup {o.active}]
    BY <1>1 DEF Require
  <2>2. x = [active |-> o.active, nodes |-> o.nodes, made |-> o.made, by |-> o.by \cup {o.active}, ok |-> o.ok]
    BY <1>0, <2>1
  <2>3. Asks(o, x)
    BY <1>0, <2>2, AsksOn
  <2> QED
    BY <1>1, <2>2, <2>3 DEF Passed
<1>2. CASE Decided(o.active, perm) # "Allow" /\ (Decided(o.active, perm) = "Deny" \/ lent # {})
  <2>1. x = [o EXCEPT !.ok = FALSE]
    BY <1>2 DEF Require
  <2>2. x = [active |-> o.active, nodes |-> o.nodes, made |-> o.made, by |-> o.by, ok |-> FALSE]
    BY <1>0, <2>1
  <2>3. Asks(o, x)
    BY <1>0, <2>2, AsksOn
  <2> QED
    BY <2>2, <2>3
<1>3. CASE Decided(o.active, perm) # "Allow" /\ ~ (Decided(o.active, perm) = "Deny" \/ lent # {})
  <2>1. PICK ids : x = IF Decided(ids, perm) = "Allow"
                       THEN [o EXCEPT !.active = ids, !.by = @ \cup {ids}]
                       ELSE [o EXCEPT !.active = ids, !.ok = FALSE]
    BY <1>3 DEF Require
  <2>2. CASE Decided(ids, perm) = "Allow"
    <3>1. x = [active |-> ids, nodes |-> o.nodes, made |-> o.made, by |-> o.by \cup {ids}, ok |-> o.ok]
      BY <1>0, <2>1, <2>2
    <3>2. Asks(o, x)
      BY <1>3, <3>1, AsksOn
    <3> QED
      BY <2>2, <3>1, <3>2 DEF Passed
  <2>3. CASE Decided(ids, perm) # "Allow"
    <3>1. x = [active |-> ids, nodes |-> o.nodes, made |-> o.made, by |-> o.by, ok |-> FALSE]
      BY <1>0, <2>1, <2>3
    <3>2. Asks(o, x)
      BY <1>3, <3>1, AsksOn
    <3> QED
      BY <3>1, <3>2
  <2> QED
    BY <2>2, <2>3
<1> QED
  BY <1>1, <1>2, <1>3

\* What one more permission comes to, of outcomes S.
OneMore(S, perm) == UNION {IF x.ok THEN Require(x, perm) ELSE {x} : x \in S}

\* Outcomes after n permissions, by a function that tells those before.
Then(o, perms, f, n) == IF n = 0 THEN {o} ELSE OneMore(f[n - 1], perms[n])

\* The recursion of RequireAll ends.
LEMMA RequiresExist ==
    ASSUME NEW o, NEW perms, Len(perms) \in Nat
    PROVE  \E f : f = [n \in 0..Len(perms) |-> Then(o, perms, f, n)]
<1> DEFINE m == Len(perms)
           Good(f, k) == /\ f = [n \in 0..k |-> f[n]]
                         /\ \A n \in 0..k : f[n] = IF n = 0 THEN {o} ELSE OneMore(f[n - 1], perms[n])
           S == {k \in 0..m : \E f : Good(f, k)}
<1>1. 0 \in S
  <2> DEFINE f == [n \in 0..0 |-> {o}]
  <2>1. f = [n \in 0..0 |-> f[n]] /\ \A n \in 0..0 : f[n] = {o} /\ n = 0
    OBVIOUS
  <2> HIDE DEF f
  <2>2. Good(f, 0)
    BY <2>1
  <2> QED
    BY <2>2
<1>2. ASSUME NEW k \in 1..m, k - 1 \in S PROVE k \in S
  <2>1. PICK f : Good(f, k - 1)
    BY <1>2
  <2> DEFINE g == [n \in 0..k |-> IF n = k THEN OneMore(f[k - 1], perms[k]) ELSE f[n]]
  <2>2. ASSUME NEW n \in 0..k PROVE g[n] = IF n = 0 THEN {o} ELSE OneMore(g[n - 1], perms[n])
    <3>1. CASE n = k
      <4>1. g[k - 1] = f[k - 1] /\ n # 0
        BY <3>1
      <4> QED
        BY <3>1, <4>1
    <3>2. CASE n # k
      <4>1. n \in 0..(k - 1) /\ g[n] = f[n]
        BY <3>2
      <4>2. n # 0 => g[n - 1] = f[n - 1]
        BY <4>1
      <4> QED
        BY <2>1, <4>1, <4>2
    <3> QED
      BY <3>1, <3>2
  <2>3. g = [n \in 0..k |-> g[n]]
    OBVIOUS
  <2> HIDE DEF g
  <2> QED
    BY <2>2, <2>3
<1>3. \A k \in 0..m : (\A j \in 0..(k - 1) : j \in S) => k \in S
  <2> SUFFICES ASSUME NEW k \in 0..m, \A j \in 0..(k - 1) : j \in S PROVE k \in S
    OBVIOUS
  <2> HIDE DEF S
  <2>1. CASE k = 0
    BY <1>1, <2>1
  <2>2. CASE k # 0
    <3>1. k \in 1..m /\ k - 1 \in 0..(k - 1)
      BY <2>2
    <3> QED
      BY <1>2, <3>1
  <2> QED
    BY <2>1, <2>2
<1>4. 0..m \subseteq S
  <2> HIDE DEF S, m
  <2>1. m \in Nat
    BY DEF m
  <2> QED
    BY <1>3, <2>1, UpTo
<1>5. PICK f : Good(f, m)
  <2>1. m \in 0..m
    OBVIOUS
  <2>2. m \in S
    <3> HIDE DEF S
    <3> QED BY <1>4, <2>1
  <2> QED
    BY <2>2
<1>6. f = [n \in 0..m |-> Then(o, perms, f, n)]
  BY <1>5 DEF Then
<1> QED
  BY <1>6

\* What has asked for one permission after another, and may go on, has all of them.
LEMMA RequireAllAsks ==
    ASSUME NEW o, NEW perms, Len(perms) \in Nat, Proper(o), NEW x \in RequireAll(o, perms)
    PROVE  Asks(o, x) /\ (x.ok => \A n \in 1..Len(perms) : Passed(x, perms[n]))
<1>0. \E f : f = [n \in 0..Len(perms) |-> Then(o, perms, f, n)]
  BY RequiresExist
<1> DEFINE m == Len(perms)
           after == CHOOSE f : f = [n \in 0..m |-> IF n = 0 THEN {o}
                       ELSE UNION {IF y.ok THEN Require(y, perms[n]) ELSE {y} : y \in f[n - 1]}]
           Right(k) == \A y \in after[k] : Asks(o, y) /\ (y.ok => \A n \in 1..k : Passed(y, perms[n]))
           S == {k \in 0..m : Right(k)}
<1>1. x \in after[m]
  BY DEF RequireAll
<1>2. after = [n \in 0..m |-> IF n = 0 THEN {o} ELSE OneMore(after[n - 1], perms[n])]
  <2>1. PICK f : f = [n \in 0..m |-> Then(o, perms, f, n)]
    BY <1>0
  <2>2. f = [n \in 0..m |-> IF n = 0 THEN {o}
               ELSE UNION {IF y.ok THEN Require(y, perms[n]) ELSE {y} : y \in f[n - 1]}]
    BY <2>1 DEF Then, OneMore
  <2>3. after = [n \in 0..m |-> IF n = 0 THEN {o}
                   ELSE UNION {IF y.ok THEN Require(y, perms[n]) ELSE {y} : y \in after[n - 1]}]
    BY <2>2
  <2> HIDE DEF after
  <2> QED
    BY <2>3 DEF OneMore
<1> HIDE DEF after
<1>3. Right(0)
  <2>1. after[0] = {o}
    BY <1>2
  <2>2. Asks(o, o)
    BY DEF Asks
  <2> QED
    BY <2>1, <2>2
<1>4. ASSUME NEW k \in 1..m, Right(k - 1) PROVE Right(k)
  <2> SUFFICES ASSUME NEW y \in after[k]
               PROVE  Asks(o, y) /\ (y.ok => \A n \in 1..k : Passed(y, perms[n]))
    OBVIOUS
  <2>1. after[k] = OneMore(after[k - 1], perms[k])
    <3>1. k \in 0..m /\ k # 0
      OBVIOUS
    <3> HIDE DEF m
    <3> QED
      BY <1>2, <3>1
  <2>2. PICK z \in after[k - 1] : y \in IF z.ok THEN Require(z, perms[k]) ELSE {z}
    BY <2>1 DEF OneMore
  <2>3. Asks(o, z) /\ (z.ok => \A n \in 1..(k - 1) : Passed(z, perms[n])) /\ Proper(z)
    BY <1>4 DEF Asks
  <2>4. CASE z.ok
    <3>1. Asks(z, y) /\ (y.ok => Passed(y, perms[k]))
      BY <2>2, <2>3, <2>4, RequireAsks
    <3>2. Asks(o, y)
      BY <2>3, <3>1 DEF Asks
    <3>3. \A n \in 1..(k - 1) : Passed(y, perms[n])
      BY <2>3, <2>4, <3>1 DEF Asks, Passed
    <3> QED
      BY <3>1, <3>2, <3>3
  <2>5. CASE ~ z.ok
    BY <2>2, <2>3, <2>5
  <2> QED
    BY <2>4, <2>5
<1>5. \A k \in 0..m : (\A j \in 0..(k - 1) : j \in S) => k \in S
  <2> SUFFICES ASSUME NEW k \in 0..m, \A j \in 0..(k - 1) : j \in S PROVE k \in S
    OBVIOUS
  <2>1. CASE k = 0
    BY <1>3, <2>1
  <2>2. CASE k # 0
    <3>1. k \in 1..m /\ k - 1 \in 0..(k - 1)
      BY <2>2
    <3>2. Right(k - 1)
      BY <3>1
    <3> HIDE DEF Right
    <3> QED
      BY <1>4, <3>1, <3>2
  <2> QED
    BY <2>1, <2>2
<1>6. 0..m \subseteq S
  <2> HIDE DEF S, m
  <2>1. m \in Nat
    BY DEF m
  <2> QED
    BY <1>5, <2>1, UpTo
<1> QED
  BY <1>1, <1>6

-------------------------------------------------------------------------------
(* Calls.                                                                  *)

Ops == {"list", "read", "open", "write", "stream", "mkdir", "remove", "rmdir", "copy", "move"}

LEMMA NeededType ==
    ASSUME NEW op \in Ops, NEW p, NEW q
    PROVE  Len(Needed(op, p, q)) \in Nat /\ DOMAIN Needed(op, p, q) = 1..Len(Needed(op, p, q))
<1>1. \/ \E a : Needed(op, p, q) = <<a>>
      \/ \E a, b : Needed(op, p, q) = <<a, b>>
      \/ \E a, b, c : Needed(op, p, q) = <<a, b, c>>
  <2>1. CASE op \in {"list", "read", "open"}
    BY <2>1 DEF Needed
  <2>2. CASE op \in {"write", "stream", "mkdir", "remove", "rmdir"}
    BY <2>2 DEF Needed
  <2>3. CASE op = "copy"
    BY <2>3 DEF Needed
  <2>4. CASE op = "move"
    BY <2>4 DEF Needed
  <2> QED
    BY <2>1, <2>2, <2>3, <2>4 DEF Ops
<1> QED
  BY <1>1

\* A call makes of the paths p and q what it makes, and leaves the others.
LEMMA AppliedAt ==
    ASSUME NEW ns, NEW op \in Ops, NEW p, NEW q, ns = [x \in Nodes |-> ns[x]]
    PROVE  /\ Applied(ns, op, p, q) = [x \in Nodes |-> Applied(ns, op, p, q)[x]]
           /\ \A x \in Nodes : x \notin {p, q} => Applied(ns, op, p, q)[x] = ns[x]
<1> DEFINE b == Applied(ns, op, p, q)
<1>1. \/ b = ns
      \/ \E v : b = [ns EXCEPT ![p] = v]
      \/ \E v, w : b = [ns EXCEPT ![q] = v, ![p] = w]
  <2>1. CASE op \in {"write", "stream"} /\ HasPlace(ns, p) /\ ns[p] # "dir"
    BY <2>1 DEF Applied
  <2>2. CASE op = "mkdir" /\ HasPlace(ns, p) /\ IsNone(ns, p)
    BY <2>2 DEF Applied
  <2>3. CASE op \in {"remove", "rmdir"} /\ ~ Full(ns, p)
    BY <2>3 DEF Applied
  <2>4. CASE op \in {"copy", "move"} /\ HoldsFile(ns, p) /\ HasPlace(ns, q) /\ ns[q] # "dir" /\ p # q
    BY <2>4 DEF Applied
  <2>5. CASE /\ ~ (op \in {"write", "stream"} /\ HasPlace(ns, p) /\ ns[p] # "dir")
             /\ ~ (op = "mkdir" /\ HasPlace(ns, p) /\ IsNone(ns, p))
             /\ ~ (op \in {"remove", "rmdir"} /\ ~ Full(ns, p))
             /\ ~ (op \in {"copy", "move"} /\ HoldsFile(ns, p) /\ HasPlace(ns, q) /\ ns[q] # "dir" /\ p # q)
    BY <2>5 DEF Applied
  <2> QED
    BY <2>1, <2>2, <2>3, <2>4, <2>5
<1> HIDE DEF b
<1>2. b = [x \in Nodes |-> b[x]] /\ \A x \in Nodes : x \notin {p, q} => b[x] = ns[x]
  BY <1>1
<1> QED
  BY <1>2 DEF b

\* What a text is resolved to, name by name.
Steps(text, f, n) ==
    IF n = 0 THEN Root
    ELSE IF text[n] = ".." THEN Above(f[n - 1])
    ELSE IF text[n] \in {"", "."} THEN f[n - 1]
    ELSE Append(f[n - 1], text[n])

\* The text of a path that is resolved: a slash before its names, of which none is "" or
\* goes elsewhere.
LEMMA PathIs ==
    ASSUME NEW p \in Nodes
    PROVE  /\ Len(p) \in Nat
           /\ Len(Path(p)) = Len(p) + 1
           /\ Path(p)[1] = ""
           /\ \A n \in 1..Len(p) : Path(p)[n + 1] = p[n]
           /\ \A n \in 1..Len(p) : p[n] \notin {"", ".", ".."}
<1> DEFINE S == {p[i] : i \in DOMAIN p}
           T == S \cup {""}
           t == Path(p)
<1>1. IsTokens(p) /\ \A i \in DOMAIN p : p[i] \notin {"", ".", ".."}
  BY GuardAssumption
<1>2. Len(p) \in Nat /\ DOMAIN p = 1..Len(p)
  BY <1>1, TokensType
<1>3. p \in Seq(S)
  BY <1>1 DEF IsTokens
<1>4. p \in Seq(T)
  <2>1. S \subseteq T
    OBVIOUS
  <2> HIDE DEF S, T
  <2> QED BY <1>3, <2>1
<1>5. <<"">> \in Seq(T)
  <2> DEFINE e == ""
  <2>1. e \in T
    OBVIOUS
  <2> HIDE DEF T, e
  <2>2. <<e>> \in Seq(T)
    BY <2>1
  <2> QED
    BY <2>2 DEF e
<1>6. /\ Len(t) = Len(<<"">>) + Len(p)
      /\ \A i \in 1..Len(<<"">>) + Len(p) : t[i] = IF i <= Len(<<"">>) THEN <<"">>[i] ELSE p[i - Len(<<"">>)]
  <2> HIDE DEF T
  <2> QED BY <1>4, <1>5, ConcatProperties DEF Path
<1>7. Len(<<"">>) = 1 /\ <<"">>[1] = ""
  OBVIOUS
<1> HIDE DEF t
<1>8. Len(t) = Len(p) + 1
  <2>1. Len(t) = 1 + Len(p)
    BY <1>6, <1>7
  <2> QED
    BY <1>2, <2>1
<1>9. ASSUME NEW i \in 1..Len(p) + 1 PROVE t[i] = IF i <= 1 THEN <<"">>[i] ELSE p[i - 1]
  <2>1. i \in 1..1 + Len(p)
    BY <1>2
  <2> QED
    BY <1>6, <1>7, <2>1
<1>10. t[1] = ""
  <2>1. 1 \in 1..Len(p) + 1 /\ 1 <= 1
    BY <1>2
  <2>2. t[1] = <<"">>[1]
    BY <1>9, <2>1
  <2> QED
    BY <1>7, <2>2
<1>11. ASSUME NEW n \in 1..Len(p) PROVE t[n + 1] = p[n]
  <2>1. n + 1 \in 1..Len(p) + 1 /\ ~ (n + 1 <= 1) /\ (n + 1) - 1 = n
    BY <1>2
  <2> QED
    BY <1>9, <2>1
<1>12. ASSUME NEW n \in 1..Len(p) PROVE p[n] \notin {"", ".", ".."}
  BY <1>1, <1>2
<1> QED
  BY <1>2, <1>8, <1>10, <1>11, <1>12 DEF t

\* The names of a path up to one of them.
LEMMA UpToAName ==
    ASSUME NEW p \in Nodes, NEW n \in 1..Len(p)
    PROVE  SubSeq(p, 1, n) = Append(SubSeq(p, 1, n - 1), p[n])
<1> DEFINE S == {p[i] : i \in DOMAIN p}
<1>1. IsTokens(p)
  BY GuardAssumption
<1>2. p \in Seq(S)
  BY <1>1 DEF IsTokens
<1>3. Len(p) \in Nat /\ DOMAIN p = 1..Len(p)
  BY <1>1, TokensType
<1>4. p[n] \in S /\ \A i \in 1..n - 1 : p[i] \in S
  BY <1>3
<1> HIDE DEF S
<1>5. 1 \in 1..Len(p) /\ n \in 1..Len(p) /\ 1 \in Int /\ n - 1 \in Int
  BY <1>3
<1>6. SubSeq(p, 1, n) = SubSeq(p, 1, n - 1) \o <<p[n]>>
  BY <1>2, <1>5, SubSeqRecursiveSecond
<1>7. SubSeq(p, 1, n - 1) \in Seq(S)
  BY <1>4, <1>5, SubSeqProperties
<1> QED
  BY <1>4, <1>6, <1>7, AppendIsConcat

\* Two functions that resolve a text name by name agree.
LEMMA ResolvedOnce ==
    ASSUME NEW text, NEW l \in Nat, NEW f, NEW w,
           \A n \in 0..l : f[n] = Steps(text, f, n),
           \A n \in 0..l : w[n] = Steps(text, w, n)
    PROVE  f[l] = w[l]
<1> DEFINE agree == {n \in 0..l : f[n] = w[n]}
<1>1. ASSUME NEW k \in 0..l, \A j \in 0..(k - 1) : j \in agree PROVE k \in agree
  <2>1. k # 0 => f[k - 1] = w[k - 1]
    <3>1. k # 0 => k - 1 \in 0..(k - 1)
      OBVIOUS
    <3> QED
      BY <1>1, <3>1
  <2>2. Steps(text, f, k) = Steps(text, w, k)
    BY <2>1 DEF Steps
  <2> QED
    BY <2>2
<1>2. 0..l \subseteq agree
  <2> HIDE DEF agree
  <2> QED BY <1>1, UpTo
<1>3. l \in 0..l
  OBVIOUS
<1> QED
  BY <1>2, <1>3

\* What is written for a path once it is resolved is resolved to that path.
LEMMA ResolvedPath ==
    ASSUME NEW p \in Nodes
    PROVE  Resolved(Path(p)) = p
<1> DEFINE l == Len(p) + 1
           w == [n \in 0..l |-> IF n = 0 THEN Root ELSE SubSeq(p, 1, n - 1)]
           upTo == CHOOSE f : f = [n \in 0..l |->
                      IF n = 0 THEN Root
                      ELSE IF Path(p)[n] = ".." THEN Above(f[n - 1])
                      ELSE IF Path(p)[n] \in {"", "."} THEN f[n - 1]
                      ELSE Append(f[n - 1], Path(p)[n])]
<1>1. Len(p) \in Nat
  BY PathIs
<1>2. Path(p)[1] = ""
  BY PathIs
<1>3. \A n \in 1..Len(p) : Path(p)[n + 1] = p[n]
  BY PathIs
<1>4. \A n \in 1..Len(p) : p[n] \notin {"", ".", ".."}
  BY PathIs
<1>5. w[0] = Root
  <2>1. 0 \in 0..Len(p) + 1
    BY <1>1
  <2> QED
    BY <2>1
<1>6. ASSUME NEW n \in 1..Len(p) + 1 PROVE w[n] = SubSeq(p, 1, n - 1)
  <2>1. n \in 0..Len(p) + 1 /\ n # 0
    BY <1>1
  <2> QED
    BY <2>1
<1>7. w = [n \in 0..l |-> w[n]]
  OBVIOUS
<1> HIDE DEF w
<1>8. ASSUME NEW n \in 0..l PROVE w[n] = Steps(Path(p), w, n)
  <2>1. CASE n = 0
    BY <1>5, <2>1 DEF Steps
  <2>2. CASE n = 1
    <3>1. 1 \in 1..Len(p) + 1 /\ 1 - 1 = 0
      BY <1>1
    <3>2. w[1] = SubSeq(p, 1, 0)
      BY <1>6, <3>1
    <3>3. SubSeq(p, 1, 0) = Root
      BY SubSeqEmpty DEF Root
    <3>4. Path(p)[1] # ".." /\ Path(p)[1] \in {"", "."}
      BY <1>2, Zenon
    <3>5. Steps(Path(p), w, 1) = w[1 - 1]
      <4>1. 1 # 0
        OBVIOUS
      <4> QED
        BY <3>4, <4>1, Zenon DEF Steps
    <3> QED
      BY <1>5, <2>2, <3>1, <3>2, <3>3, <3>5
  <2>3. CASE n \notin {0, 1}
    <3>1. n - 1 \in 1..Len(p) /\ n \in 1..Len(p) + 1 /\ n - 1 \in 1..Len(p) + 1 /\ (n - 1) + 1 = n
      BY <1>1, <2>3
    <3>2. Path(p)[n] = p[n - 1] /\ p[n - 1] \notin {"", ".", ".."}
      BY <1>3, <1>4, <3>1
    <3>3. w[n] = SubSeq(p, 1, n - 1) /\ w[n - 1] = SubSeq(p, 1, (n - 1) - 1)
      BY <1>6, <3>1
    <3>4. SubSeq(p, 1, n - 1) = Append(SubSeq(p, 1, (n - 1) - 1), p[n - 1])
      BY <3>1, UpToAName
    <3>5. Steps(Path(p), w, n) = Append(w[n - 1], Path(p)[n])
      BY <2>3, <3>2 DEF Steps
    <3> QED
      BY <3>2, <3>3, <3>4, <3>5
  <2> QED
    BY <2>1, <2>2, <2>3
<1>9. \E f : f = [n \in 0..l |-> Steps(Path(p), f, n)]
  <2> HIDE DEF l
  <2> QED BY <1>7, <1>8
<1>10. upTo = [n \in 0..l |-> Steps(Path(p), upTo, n)]
  <2> HIDE DEF l
  <2>1. \E f : f = [n \in 0..l |->
                      IF n = 0 THEN Root
                      ELSE IF Path(p)[n] = ".." THEN Above(f[n - 1])
                      ELSE IF Path(p)[n] \in {"", "."} THEN f[n - 1]
                      ELSE Append(f[n - 1], Path(p)[n])]
    BY <1>9 DEF Steps
  <2>2. upTo = [n \in 0..l |->
                  IF n = 0 THEN Root
                  ELSE IF Path(p)[n] = ".." THEN Above(upTo[n - 1])
                  ELSE IF Path(p)[n] \in {"", "."} THEN upTo[n - 1]
                  ELSE Append(upTo[n - 1], Path(p)[n])]
    BY <2>1, Zenon
  <2> HIDE DEF upTo
  <2> QED
    BY <2>2 DEF Steps
<1>11. Resolved(Path(p)) = upTo[l]
  <2>1. Len(Path(p)) = l
    BY PathIs
  <2> HIDE DEF l
  <2> QED BY <2>1 DEF Resolved
<1>12. l \in Nat /\ l \in 1..Len(p) + 1 /\ l - 1 = Len(p)
  BY <1>1
<1> HIDE DEF upTo, l
<1>13. upTo[l] = w[l]
  <2>1. \A n \in 0..l : upTo[n] = Steps(Path(p), upTo, n)
    BY <1>10
  <2>2. \A n \in 0..l : w[n] = Steps(Path(p), w, n)
    BY <1>8
  <2>3. l \in Nat
    BY <1>12
  <2> QED
    BY <2>1, <2>2, <2>3, ResolvedOnce
<1>14. w[l] = SubSeq(p, 1, Len(p))
  BY <1>6, <1>12
<1>15. SubSeq(p, 1, Len(p)) = p
  <2>1. p \in Seq({p[i] : i \in DOMAIN p})
    BY GuardAssumption DEF IsTokens
  <2> QED
    BY <2>1, SubSeqFull
<1> QED
  BY <1>11, <1>13, <1>14, <1>15

\* The calls whose texts say what they change: it is nothing, or what the one text of a
\* write is resolved to, or their texts are those of paths.
Straight(op, t, u) ==
    \/ op \in {"list", "read", "open"}
    \/ op \in {"write", "stream"} /\ t = u
    \/ \E p, q \in Nodes : t = Path(p) /\ u = Path(q)

\* Such a call reaches what it changes.
LEMMA ChangedIsReached ==
    ASSUME NEW ns, ns = [x \in Nodes |-> ns[x]], NEW op \in Ops, NEW t, NEW u, Straight(op, t, u),
           NEW y \in Nodes, Applied(ns, op, Resolved(t), Resolved(u))[y] # ns[y]
    PROVE  Reached(<<op, t, u>>, y)
<1>1. y \in {Resolved(t), Resolved(u)}
  BY AppliedAt
<1>2. CASE op \in {"list", "read", "open"}
  <2>1. Applied(ns, op, Resolved(t), Resolved(u)) = ns
    BY <1>2 DEF Applied
  <2> QED
    BY <2>1
<1>3. CASE op \in {"write", "stream"} /\ t = u
  BY <1>1, <1>3 DEF Reached
<1>4. CASE \E p, q \in Nodes : t = Path(p) /\ u = Path(q)
  <2>1. PICK p \in Nodes, q \in Nodes : t = Path(p) /\ u = Path(q)
    BY <1>4
  <2>2. Resolved(t) = p /\ Resolved(u) = q
    BY <2>1, ResolvedPath
  <2>3. Path(y) \in {t, u}
    BY <1>1, <2>1, <2>2
  <2> QED
    BY <2>3 DEF Reached
<1> QED
  BY <1>2, <1>3, <1>4 DEF Straight

\* A guarded call that was let through had everything it needs.
LEMMA DoneKeeps ==
    ASSUME NEW o, Proper(o), NEW op \in Ops, NEW t, NEW u, Straight(op, t, u), NEW d \in Done(o, op, t, u)
    PROVE  Proper(d) /\ (d.ok => d.made # {})
<1> DEFINE b == [o EXCEPT !.ok = TRUE]
           needed == Needed(op, t, u)
           p == Resolved(t)
           q == Resolved(u)
<1>1. PICK x \in RequireAll(b, needed) :
         d = IF x.ok THEN [x EXCEPT !.nodes = Applied(@, op, p, q), !.made = @ \cup {<<op, t, u>>}] ELSE x
  BY DEF Done
<1> HIDE DEF p, q
<1>2. Proper(b)
  <2>0. o = [active |-> o.active, nodes |-> o.nodes, made |-> o.made, by |-> o.by, ok |-> o.ok]
    BY DEF Proper
  <2>1. b = [active |-> o.active, nodes |-> o.nodes, made |-> o.made, by |-> o.by, ok |-> TRUE]
    <3>1. ASSUME NEW y, y = [o EXCEPT !.ok = TRUE]
          PROVE  y = [active |-> o.active, nodes |-> o.nodes, made |-> o.made, by |-> o.by, ok |-> TRUE]
      BY <2>0, <3>1
    <3> QED
      BY <3>1
  <2> HIDE DEF b
  <2>2. Asks(o, b)
    <3>1. lent # {} => o.active = active
      BY DEF Proper
    <3> QED
      BY <2>1, <3>1, AsksOn
  <2> QED
    BY <2>2 DEF Asks
<1> HIDE DEF b
<1>3. Len(needed) \in Nat /\ DOMAIN needed = 1..Len(needed)
  BY NeededType
<1>4. Proper(x) /\ (x.ok => \A n \in 1..Len(needed) : Passed(x, needed[n]))
  <2> HIDE DEF needed
  <2> QED BY <1>1, <1>2, <1>3, RequireAllAsks DEF Asks
<1>5. CASE ~ x.ok
  BY <1>1, <1>4, <1>5
<1>6. CASE x.ok
  <2>1. d = [active |-> x.active, nodes |-> Applied(x.nodes, op, p, q),
             made |-> x.made \cup {<<op, t, u>>}, by |-> x.by, ok |-> x.ok]
    BY <1>1, <1>4, <1>6 DEF Proper
  <2>2. /\ d.nodes = [y \in Nodes |-> d.nodes[y]]
        /\ \A y \in Nodes : y \notin {p, q} => d.nodes[y] = x.nodes[y]
    <3>1. x.nodes = [y \in Nodes |-> x.nodes[y]]
      BY <1>4 DEF Proper
    <3> QED
      BY <2>1, <3>1, AppliedAt
  <2>3. \A c \in d.made : \A n \in DOMAIN Needed(c[1], c[2], c[3]) : Passed(d, Needed(c[1], c[2], c[3])[n])
    <3> SUFFICES ASSUME NEW c \in d.made, NEW n \in DOMAIN Needed(c[1], c[2], c[3])
                 PROVE  Passed(d, Needed(c[1], c[2], c[3])[n])
      OBVIOUS
    <3>1. \A perm : Passed(x, perm) => Passed(d, perm)
      BY <2>1 DEF Passed
    <3>2. CASE c \in x.made
      BY <1>4, <3>1, <3>2 DEF Proper
    <3>3. CASE c = <<op, t, u>>
      <4>1. Needed(c[1], c[2], c[3]) = needed
        BY <3>3
      <4> HIDE DEF needed
      <4> QED
        BY <1>3, <1>4, <1>6, <3>1, <4>1
    <3> QED
      BY <2>1, <3>2, <3>3
  <2>4. ASSUME NEW y \in Nodes, d.nodes[y] # nodes[y] PROVE \E c \in d.made : Reached(c, y)
    <3>1. CASE d.nodes[y] # x.nodes[y]
      <4>1. <<op, t, u>> \in d.made
        BY <2>1
      <4>2. x.nodes = [z \in Nodes |-> x.nodes[z]]
        BY <1>4 DEF Proper
      <4>3. Applied(x.nodes, op, p, q)[y] # x.nodes[y]
        BY <2>1, <3>1
      <4>4. Reached(<<op, t, u>>, y)
        BY <4>2, <4>3, ChangedIsReached DEF p, q
      <4> QED
        BY <4>1, <4>4
    <3>2. CASE d.nodes[y] = x.nodes[y]
      <4>1. PICK c \in x.made : Reached(c, y)
        BY <1>4, <2>4, <3>2 DEF Proper
      <4>2. c \in d.made
        BY <2>1
      <4> QED
        BY <4>1, <4>2
    <3> QED
      BY <3>1, <3>2
  <2>5. lent # {} => d.active = active
    BY <1>4, <2>1 DEF Proper
  <2> QED
    BY <2>1, <2>2, <2>3, <2>4, <2>5 DEF Proper
<1> QED
  BY <1>5, <1>6

NodesTyped == nodes = [p \in Nodes |-> nodes[p]]

LEMMA StartProper ==
    ASSUME NodesTyped
    PROVE  Proper(Start) /\ Start.made = {} /\ Proper([Start EXCEPT !.ok = FALSE]) /\ ~ ([Start EXCEPT !.ok = FALSE]).ok
<1>1. [Start EXCEPT !.ok = FALSE] = [active |-> active, nodes |-> nodes, made |-> {}, by |-> {}, ok |-> FALSE]
  <2>1. ASSUME NEW x, x = [Start EXCEPT !.ok = FALSE]
        PROVE  x = [active |-> active, nodes |-> nodes, made |-> {}, by |-> {}, ok |-> FALSE]
    BY <2>1 DEF Start
  <2> QED
    BY <2>1
<1>2. Proper(Start) /\ Start.made = {}
  BY DEF Start, Proper, NodesTyped
<1>3. Proper([active |-> active, nodes |-> nodes, made |-> {}, by |-> {}, ok |-> FALSE])
  BY DEF Proper, NodesTyped
<1> HIDE DEF Start
<1> QED
  BY <1>1, <1>2, <1>3

\* What ends well and properly was allowed.
LEMMA EndsAllowed ==
    ASSUME NEW o, NEW told, Proper(o), told = "done" => o.made # {}, EndsWith(o, told)
    PROVE  AllowedOnly /\ NodesTyped'
<1>1. said' = [made |-> o.made, by |-> o.by, checked |-> {}, told |-> told] /\ active' = o.active /\ nodes' = o.nodes
  BY DEF EndsWith
<1>2. ASSUME realm = RealmOf(inner.medium), NEW c \in o.made, NEW n \in DOMAIN Needed(c[1], c[2], c[3])
      PROVE  \E ids \in o.by : Permitted(ids, Needed(c[1], c[2], c[3])[n])
  <2>1. PICK ids \in o.by : Decided(ids, Needed(c[1], c[2], c[3])[n]) = "Allow"
    BY DEF Proper, Passed
  <2> QED
    BY <1>2, <2>1, DecidedPermitted
<1>3. nodes' = [p \in Nodes |-> nodes'[p]]
  BY <1>1 DEF Proper
<1> QED
  BY <1>1, <1>2, <1>3 DEF AllowedOnly, Proper, NodesTyped

\* A guarded call that ends as it did.
LEMMA DoneEnds ==
    ASSUME NEW o, NEW d, Proper(d), d.ok => d.made # {}, Ends(d)
    PROVE  AllowedOnly /\ NodesTyped'
<1> DEFINE told == IF d.ok THEN "done" ELSE "failed"
<1>1. told = "done" => d.made # {}
  OBVIOUS
<1>2. EndsWith(d, told)
  BY DEF Ends
<1> HIDE DEF told
<1> QED
  BY <1>1, <1>2, EndsAllowed

Calls == ReadCalls \cup StreamCalls \cup WriteCalls \cup DirectoryCalls

LEMMA CallsType ==
    ASSUME NEW c \in Calls
    PROVE  c.op \in Ops \ {"copy", "move"} /\ c.unset # "done" /\ c.refused # "done"
BY DEF Calls, ReadCalls, StreamCalls, WriteCalls, DirectoryCalls, Forwarded, Ops

LEMMA CallAllowed ==
    ASSUME NodesTyped, NEW c, c.op \in Ops \ {"copy", "move"}, c.refused # "done",
           NEW text \in Texts, Call(c, text)
    PROVE  AllowedOnly /\ NodesTyped'
<1> DEFINE t == AskedFor(c.op, text)
<1>1. CASE ~ Looks(c.op, Resolved(text))
  <2>1. EndsWith(Start, c.refused)
    BY <1>1 DEF Call
  <2> QED
    BY <2>1, StartProper, EndsAllowed
<1>2. CASE Looks(c.op, Resolved(text))
  <2>1. PICK o \in Done(Start, c.op, t, t) : EndsWith(o, IF o.ok THEN "done" ELSE c.refused)
    BY <1>2 DEF Call
  <2>2. Straight(c.op, t, t)
    <3>1. CASE c.op \in {"mkdir", "rmdir", "remove"}
      <4>1. t = Path(Resolved(text)) /\ Resolved(text) \in Nodes
        BY <3>1, GuardAssumption DEF AskedFor
      <4> HIDE DEF t
      <4> QED
        BY <4>1 DEF Straight
    <3>2. CASE c.op \notin {"mkdir", "rmdir", "remove"}
      <4>1. c.op \in {"list", "read", "open", "write", "stream"}
        BY <3>2 DEF Ops
      <4> HIDE DEF t
      <4> QED
        BY <4>1 DEF Straight
    <3> QED
      BY <3>1, <3>2
  <2> HIDE DEF t
  <2>3. Proper(o) /\ (o.ok => o.made # {})
    BY <2>2, StartProper, DoneKeeps
  <2> DEFINE told == IF o.ok THEN "done" ELSE c.refused
  <2>4. told = "done" => o.made # {}
    BY <2>3
  <2>5. EndsWith(o, told)
    BY <2>1
  <2> HIDE DEF told
  <2> QED
    BY <2>3, <2>4, <2>5, EndsAllowed
<1> QED
  BY <1>1, <1>2

LEMMA ExportAllowed ==
    ASSUME NodesTyped, NEW text \in Texts, Export(text)
    PROVE  AllowedOnly /\ NodesTyped'
<1>1. CASE Resolved(text) \in Locals
  <2>1. EndsWith(Start, "name")
    BY <1>1 DEF Export
  <2> QED
    BY <2>1, StartProper, EndsAllowed
<1>2. CASE Resolved(text) \notin Locals
  <2> DEFINE c == Forwarded("read", "default", "default")
  <2>1. c.op \in Ops \ {"copy", "move"} /\ c.refused # "done"
    BY DEF Forwarded, Ops
  <2>2. Call(c, text)
    BY <1>2 DEF Export
  <2> HIDE DEF c
  <2> QED
    BY <2>1, <2>2, CallAllowed
<1> QED
  BY <1>1, <1>2

LEMMA MakeDirectoriesAllowed ==
    ASSUME NodesTyped, NEW p \in Nodes, MakeDirectories(p)
    PROVE  AllowedOnly /\ NodesTyped'
<1>1. PICK o \in IF HasPlace(nodes, p) THEN Done(Start, "mkdir", Path(p), Path(p))
                 ELSE IF ~ IsNone(nodes, Above(p)) THEN {[Start EXCEPT !.ok = FALSE]}
                 ELSE UNION {IF y.ok THEN Done(y, "mkdir", Path(p), Path(p)) ELSE {y} :
                                y \in Done(Start, "mkdir", Path(Above(p)), Path(Above(p)))} :
         Ends(o)
  BY DEF MakeDirectories
<1>2. "mkdir" \in Ops
  BY DEF Ops
<1>3. Straight("mkdir", Path(p), Path(p))
  BY DEF Straight
<1>4. Proper(o) /\ (o.ok => o.made # {})
  <2>1. CASE HasPlace(nodes, p)
    <3>1. o \in Done(Start, "mkdir", Path(p), Path(p))
      BY <2>1
    <3> QED
      BY <1>2, <1>3, <3>1, StartProper, DoneKeeps
  <2>2. CASE ~ HasPlace(nodes, p) /\ ~ IsNone(nodes, Above(p))
    <3>1. o = [Start EXCEPT !.ok = FALSE]
      BY <2>2
    <3> QED
      BY <3>1, StartProper
  <2>3. CASE ~ HasPlace(nodes, p) /\ IsNone(nodes, Above(p))
    <3>1. PICK y \in Done(Start, "mkdir", Path(Above(p)), Path(Above(p))) : o \in IF y.ok THEN Done(y, "mkdir", Path(p), Path(p)) ELSE {y}
      BY <2>3
    <3>2. Proper(y) /\ (y.ok => y.made # {})
      <4>1. Above(p) \in Nodes
        <5>1. IsTokens(p) /\ p # Root /\ Len(p) # 1
          BY <2>3, GuardAssumption DEF HasPlace
        <5>2. Len(p) \in Nat /\ (Len(p) = 0 => p = Root)
          BY <5>1 DEF IsTokens, Root
        <5>3. Len(p) > 1
          <6> DEFINE l == Len(p)
          <6>1. l \in Nat /\ l # 0 /\ l # 1
            BY <5>1, <5>2
          <6> HIDE DEF l
          <6>2. l > 1
            BY <6>1
          <6> QED
            BY <6>2 DEF l
        <5>4. Len(p) > 1 => Above(p) \in Nodes
          BY GuardAssumption
        <5> QED
          BY <5>3, <5>4
      <4>2. Straight("mkdir", Path(Above(p)), Path(Above(p)))
        BY <4>1 DEF Straight
      <4> QED
        BY <1>2, <4>2, StartProper, DoneKeeps
    <3> QED
      BY <1>2, <1>3, <3>1, <3>2, DoneKeeps
  <2> QED
    BY <2>1, <2>2, <2>3
<1> QED
  BY <1>1, <1>4, DoneEnds

LEMMA TransferAllowed ==
    ASSUME NodesTyped, NEW op \in {"copy", "move"}, NEW p \in Nodes, NEW q, NEW overwrite, Transfer(op, p, q, overwrite)
    PROVE  AllowedOnly /\ NodesTyped'
<1>1. op \in Ops /\ "remove" \in Ops
  BY DEF Ops
<1>2. Straight(op, Path(p), Path(q)) /\ Straight("remove", Path(q), Path(q))
  <2>1. q \in Nodes
    BY DEF Transfer
  <2> QED
    BY <2>1 DEF Straight
<1>3. CASE IsNone(nodes, q)
  <2>1. PICK o \in Done(Start, op, Path(p), Path(q)) : Ends(o)
    BY <1>3 DEF Transfer
  <2>2. Proper(o) /\ (o.ok => o.made # {})
    BY <1>1, <1>2, StartProper, DoneKeeps
  <2> QED
    BY <2>1, <2>2, DoneEnds
<1>4. CASE ~ IsNone(nodes, q)
  <2>1. PICK o \in UNION {IF x.ok \/ op = "copy" THEN Done(x, op, Path(p), Path(q)) ELSE {x} :
                             x \in IF HoldsFile(nodes, q) THEN Done(Start, "remove", Path(q), Path(q))
                                   ELSE {[Start EXCEPT !.ok = FALSE]}} :
           Ends(o)
    BY <1>4 DEF Transfer
  <2>2. PICK x \in IF HoldsFile(nodes, q) THEN Done(Start, "remove", Path(q), Path(q)) ELSE {[Start EXCEPT !.ok = FALSE]} :
           o \in IF x.ok \/ op = "copy" THEN Done(x, op, Path(p), Path(q)) ELSE {x}
    BY <2>1
  <2>3. Proper(x)
    BY <1>1, <1>2, <2>2, StartProper, DoneKeeps
  <2>4. Proper(o) /\ (o.ok => o.made # {})
    BY <1>1, <1>2, <2>2, <2>3, DoneKeeps
  <2> QED
    BY <2>1, <2>4, DoneEnds
<1> QED
  BY <1>3, <1>4

LEMMA CheckAllowed ==
    ASSUME NodesTyped, NEW perm, Check(perm)
    PROVE  AllowedOnly /\ NodesTyped'
<1> DEFINE said1 == [Silent EXCEPT !.checked = IF Normalize(Decided(active, perm)) = "Allow" THEN {perm} ELSE {}]
<1>1. said' = said1 /\ UNCHANGED <<active, nodes>>
  BY DEF Check
<1>2. said1 = [made |-> {}, by |-> {}, told |-> "nothing",
               checked |-> IF Normalize(Decided(active, perm)) = "Allow" THEN {perm} ELSE {}]
  BY DEF Silent
<1>3. Normalize(Decided(active, perm)) = "Allow" => Decided(active, perm) = "Allow"
  BY DEF Normalize
<1>4. ASSUME realm = RealmOf(inner.medium), NEW k \in said'.checked PROVE Permitted(active, k)
  <2>1. k = perm /\ Decided(active, perm) = "Allow"
    BY <1>1, <1>2, <1>3
  <2> QED
    BY <1>4, <2>1, DecidedPermitted
<1>5. said'.made = {} /\ said'.by = {} /\ said'.told = "nothing"
  BY <1>1, <1>2
<1>6. nodes' = nodes
  BY <1>1
<1> QED
  BY <1>4, <1>5, <1>6 DEF AllowedOnly, NodesTyped

\* Steps that are no calls change no path, and tell nothing.
LEMMA SilentAllowed ==
    ASSUME NodesTyped, said' = Silent, nodes' = nodes
    PROVE  AllowedOnly /\ NodesTyped'
BY DEF AllowedOnly, NodesTyped, Silent

LEMMA GuardStep ==
    ASSUME NodesTyped, GuardNext
    PROVE  AllowedOnly /\ NodesTyped'
<1>1. CASE \E c \in Calls : UnsetCall(c) \/ \E text \in Texts : Call(c, text)
  <2>1. PICK c \in Calls : UnsetCall(c) \/ \E text \in Texts : Call(c, text)
    BY <1>1
  <2>2. CASE UnsetCall(c)
    <3>1. EndsWith(Start, c.unset)
      BY <2>2 DEF UnsetCall
    <3> QED
      BY <3>1, CallsType, StartProper, EndsAllowed
  <2>3. CASE \E text \in Texts : Call(c, text)
    BY <2>3, CallsType, CallAllowed
  <2> QED
    BY <2>1, <2>2, <2>3
<1>2. CASE \E text \in Texts : Export(text)
  BY <1>2, ExportAllowed
<1>3. CASE \E p \in Nodes : MakeDirectories(p)
  BY <1>3, MakeDirectoriesAllowed
<1>4. CASE \E op \in {"copy", "move"}, p \in Nodes, q \in Nodes, over \in BOOLEAN : Transfer(op, p, Into(nodes, p, q), over)
  BY <1>4, TransferAllowed
<1>5. CASE \E perm \in Permissions : Check(perm)
  BY <1>5, CheckAllowed
<1>6. CASE (\E s \in Lendable : Lend(s)) \/ ClearElevation
  <2>1. said' = Silent /\ nodes' = nodes
    BY <1>6 DEF Lend, ClearElevation
  <2> QED
    BY <2>1, SilentAllowed
<1>7. CASE (\E u \in Uuids : SetUuid(u)) \/ (\E m \in Media, policy \in Policies : Insert(m, policy))
  <2>1. said' = Silent /\ nodes' = nodes
    BY <1>7 DEF SetUuid, Insert
  <2> QED
    BY <2>1, SilentAllowed
<1>8. CASE (\E new \in BOOLEAN : Guard(new)) \/ LogInElsewhere
  <2>1. said' = Silent /\ nodes' = nodes
    BY <1>8 DEF Guard, LogInElsewhere
  <2> QED
    BY <2>1, SilentAllowed
<1> QED
  BY <1>1, <1>2, <1>3, <1>4, <1>5, <1>6, <1>7, <1>8 DEF GuardNext, Calls

\* Whatever a guarded call does inside was allowed, for the text it was given, to those
\* logged in for the volume or to the one the guard was lent, by a pattern that means
\* what it needs; and what it changed is the path of that text, or what a write's text
\* is resolved to.
THEOREM GuardsLetInTheAllowed == GuardSpec => OnlyAllowedCalls
<1>1. GuardInit => NodesTyped
  BY GuardAssumption DEF GuardInit, NodesTyped
<1>2. NodesTyped /\ [GuardNext]_guardVars => NodesTyped'
  <2>1. ASSUME NodesTyped, UNCHANGED guardVars PROVE NodesTyped'
    BY <2>1 DEF guardVars, NodesTyped
  <2> QED
    BY <2>1, GuardStep
<1>3. NodesTyped /\ [GuardNext]_guardVars => [AllowedOnly]_guardVars
  BY GuardStep
<1> QED
  BY <1>1, <1>2, <1>3, PTL DEF GuardSpec, OnlyAllowedCalls

-------------------------------------------------------------------------------
(* Archives.                                                               *)

LEMMA ListType ==
    ASSUME NEW s, IsList(s)
    PROVE  Len(s) \in Nat /\ DOMAIN s = 1..Len(s) /\ \E S : s \in Seq(S)
BY DEF IsList

\* The directory of a path, and what is below it.
LEMMA ParentIs ==
    ASSUME NEW q, IsList(q), q # <<>>
    PROVE  Len(Parent(q)) = Len(q) - 1 /\ \A i \in 1..(Len(q) - 1) : Parent(q)[i] = q[i]
<1>1. PICK S : q \in Seq(S)
  BY ListType
<1>2. Len(q) \in Nat /\ Len(q) # 0
  BY <1>1
<1>3. ASSUME NEW n \in 0..Len(q)
      PROVE  Len(SubSeq(q, 1, n)) = n /\ \A i \in 1..n : SubSeq(q, 1, n)[i] = q[i]
  BY <1>1, <1>2
<1>4. Len(q) - 1 \in 0..Len(q)
  BY <1>2
<1> QED
  BY <1>3, <1>4 DEF Parent

LEMMA PrefixIs ==
    ASSUME NEW p, NEW q, IsList(p), IsList(q)
    PROVE  IsPrefix(p, q) <=> Len(p) <= Len(q) /\ \A i \in 1..Len(p) : p[i] = q[i]
<1>1. PICK S : p \in Seq(S)
  BY ListType
<1>2. PICK T : q \in Seq(T)
  BY ListType
<1>3. ASSUME Len(p) <= Len(q)
      PROVE  SubSeq(q, 1, Len(p)) = p <=> \A i \in 1..Len(p) : p[i] = q[i]
  <2> DEFINE s == SubSeq(q, 1, Len(p))
  <2>1. s \in Seq(T) /\ Len(s) = Len(p) /\ \A i \in 1..Len(p) : s[i] = q[i]
    BY <1>1, <1>2, <1>3
  <2> HIDE DEF s
  <2>2. (\A i \in 1..Len(p) : p[i] = s[i]) => s = p
    BY <1>1, <2>1
  <2> QED
    BY <2>1, <2>2 DEF s
<1> QED
  BY <1>3 DEF IsPrefix

LEMMA ListsEqual ==
    ASSUME NEW p, NEW q, IsList(p), IsList(q), Len(p) = Len(q), \A i \in 1..Len(p) : p[i] = q[i]
    PROVE  p = q
<1>1. PICK S : p \in Seq(S)
  BY ListType
<1>2. PICK T : q \in Seq(T)
  BY ListType
<1> QED
  BY <1>1, <1>2

LEMMA ParentList ==
    ASSUME NEW q, IsList(q), q # <<>>
    PROVE  IsList(Parent(q))
<1>1. PICK S : q \in Seq(S)
  BY ListType
<1>2. Parent(q) \in Seq(S)
  BY <1>1 DEF Parent
<1>3. ASSUME NEW s \in Seq(S) PROVE s \in Seq({s[i] : i \in DOMAIN s})
  OBVIOUS
<1> QED
  BY <1>2, <1>3 DEF IsList

\* What is in a directory is below it, and so is the directory of what is deeper down.
LEMMA BelowIs ==
    ASSUME NEW p, NEW q, IsList(p), IsList(q)
    PROVE  /\ q # <<>> /\ Parent(q) = p => IsPrefix(p, q) /\ q # p
           /\ IsPrefix(p, q) /\ q # p => q # <<>>
           /\ IsPrefix(p, q) /\ q # p /\ Parent(q) # p =>
                 Len(q) > 1 /\ IsPrefix(p, Parent(q)) /\ Parent(q) # <<>>
<1>0. Len(p) \in Nat /\ Len(q) \in Nat /\ (Len(q) = 0 <=> q = <<>>) /\ (Len(p) = 0 <=> p = <<>>)
  BY ListType
<1>1. ASSUME q # <<>>, Parent(q) = p PROVE IsPrefix(p, q) /\ q # p
  BY <1>0, <1>1, ParentIs, PrefixIs
<1>2. ASSUME IsPrefix(p, q), q # p PROVE q # <<>>
  BY <1>0, <1>2, PrefixIs
<1>3. ASSUME IsPrefix(p, q), q # p, Parent(q) # p
      PROVE  Len(q) > 1 /\ IsPrefix(p, Parent(q)) /\ Parent(q) # <<>>
  <2>1. q # <<>> /\ IsList(Parent(q))
    BY <1>2, <1>3, ParentList
  <2>2. Len(Parent(q)) = Len(q) - 1 /\ \A i \in 1..(Len(q) - 1) : Parent(q)[i] = q[i]
    BY <2>1, ParentIs
  <2>3. Len(p) <= Len(q) /\ \A i \in 1..Len(p) : p[i] = q[i]
    BY <1>3, PrefixIs
  <2>4. Len(p) # Len(q)
    BY <1>0, <1>3, <2>3, ListsEqual
  <2>5. Len(p) # Len(q) - 1
    <3>1. Len(p) = Len(q) - 1 => p = Parent(q)
      BY <2>1, <2>2, <2>3, ListsEqual
    <3> QED
      BY <1>3, <3>1
  <2>6. Len(p) <= Len(q) - 1 /\ Len(q) - 1 > 0
    BY <1>0, <2>3, <2>4, <2>5
  <2>7. IsPrefix(p, Parent(q))
    BY <1>0, <2>1, <2>2, <2>3, <2>6, PrefixIs
  <2>8. Parent(q) # <<>>
    BY <2>2, <2>6
  <2> QED
    BY <1>0, <2>6, <2>7, <2>8
<1> QED
  BY <1>1, <1>2, <1>3

\* The volume has the directory of the archive that was there when it was made.
Mounted ==
    /\ archive \in Archives /\ mounted \in Archives
    /\ entries = Parsed(mounted)

\* What a plain archive is.
LEMMA PlainFacts ==
    ASSUME Mounted, Plain
    PROVE  /\ DOMAIN entries = {Name(Records[k]) : k \in DOMAIN Records}
           /\ \A n \in DOMAIN entries :
                 entries[n] = Records[Greatest({k \in DOMAIN Records : Name(Records[k]) = n})]
           /\ \A k \in DOMAIN Records : IsList(Records[k].path) /\ Records[k].slash \in BOOLEAN
           /\ ProcessEnds \notin {Records[k].path : k \in DOMAIN Records}
<1>1. archive = mounted /\ Len(archive.ends) = 1 /\ archive.ends[1].fits /\ WholeRecords(Records) = DOMAIN Records
  BY DEF Plain
<1>2. archive.ends # <<>> /\ 1 \in DOMAIN archive.ends /\ Records = archive.ends[1].records
  BY <1>1, ListType, ArchivesAssumption DEF Records, Mounted
<1>3. entries = Indexed(Records)
  BY <1>1, <1>2 DEF Mounted, Parsed
<1>4. \A k \in DOMAIN Records : IsList(Records[k].path) /\ Records[k].slash \in BOOLEAN
  BY <1>2, ArchivesAssumption DEF Mounted
<1>5. ProcessEnds \notin {Records[k].path : k \in DOMAIN Records}
  BY <1>2, ArchivesAssumption DEF Mounted
<1> QED
  BY <1>1, <1>3, <1>4, <1>5 DEF Indexed

\* The names there are are those of records.
LEMMA NamesAreRecords ==
    ASSUME Mounted, Plain, NEW q
    PROVE  /\ (\E k \in DOMAIN Records : Records[k].path = q) <=> (\E n \in DOMAIN entries : n[1] = q)
           /\ (\E k \in DOMAIN Records : Records[k].path = q) <=> HasFileName(q) \/ HasDirName(q)
<1>1. \A n : n \in DOMAIN entries <=> \E k \in DOMAIN Records : n = <<Records[k].path, Records[k].slash>>
  BY PlainFacts DEF Name
<1>2. \A k \in DOMAIN Records : Records[k].slash \in BOOLEAN
  BY PlainFacts
<1>3. ASSUME NEW k \in DOMAIN Records, Records[k].path = q PROVE HasFileName(q) \/ HasDirName(q)
  <2>1. Records[k].slash = TRUE \/ Records[k].slash = FALSE
    BY <1>2
  <2>2. <<q, Records[k].slash>> \in DOMAIN entries
    BY <1>1, <1>3
  <2> QED
    BY <2>1, <2>2 DEF HasFileName, HasDirName
<1>4. ASSUME NEW n \in DOMAIN entries, n[1] = q PROVE \E k \in DOMAIN Records : Records[k].path = q
  BY <1>1, <1>4
<1>5. HasFileName(q) \/ HasDirName(q) => \E n \in DOMAIN entries : n[1] = q
  BY DEF HasFileName, HasDirName
<1> QED
  BY <1>3, <1>4, <1>5

-------------------------------------------------------------------------------

LEMMA AsksShow ==
    ASSUME Mounted, Plain, NEW p, Ask(p)
    PROVE  AnswersShow
<1>1. shown'.call = "ask" /\ shown'.path = p
      /\ shown'.result.exists = Exists(p) /\ shown'.result.stat = Stat(p)
  BY DEF Ask, Called
<1>2. Stat(p) # Nothing <=> HasFileName(p) \/ HasDirName(p)
  BY ArchivesAssumption DEF Stat
<1> QED
  BY <1>1, <1>2, NamesAreRecords DEF AnswersShow, Exists

LEMMA ReadDirShows ==
    ASSUME Mounted, Plain, NEW p \in Paths, NEW recursive \in BOOLEAN, ReadDir(p, recursive)
    PROVE  ListingsShow
<1>0. shown'.call = (IF recursive THEN "tree" ELSE "list") /\ shown'.path = p /\ shown'.result = Listing(p, recursive)
  BY DEF ReadDir, Called
<1>1. IsList(p)
  BY ArchivesAssumption
<1>2. \A n \in DOMAIN entries : IsList(n[1]) /\ n[1] # ProcessEnds
  BY PlainFacts DEF Name
<1>3. \A n : n \in Below(p) <=> n \in DOMAIN entries /\ IsPrefix(p, n[1]) /\ n[1] # p
  BY DEF Below
<1>4. CASE recursive /\ Unparented(p) # {}
  <2>1. PICK n \in Below(p) : Parent(n[1]) # p /\ \A m \in Below(p) : m[1] # Parent(n[1])
    BY <1>4 DEF Unparented
  <2>2. Len(n[1]) > 1 /\ IsPrefix(p, Parent(n[1])) /\ Parent(n[1]) # <<>>
    BY <1>1, <1>2, <1>3, <2>1, BelowIs
  <2>3. ~ Exists(Parent(n[1]))
    <3>1. ASSUME NEW m \in DOMAIN entries PROVE m[1] # Parent(n[1])
      BY <1>3, <2>1, <2>2
    <3> QED
      BY <2>2, <3>1 DEF Exists, HasFileName, HasDirName
  <2>4. PICK k \in DOMAIN Records : Records[k].path = n[1]
    BY <1>3, <2>1, NamesAreRecords
  <2>5. shown'.result = {ProcessEnds}
    BY <1>0, <1>4 DEF Listing
  <2> QED
    BY <2>2, <2>3, <2>4, <2>5 DEF ListingsShow
<1>5. CASE ~ (recursive /\ Unparented(p) # {})
  <2>1. shown'.result = {n[1] : n \in {m \in Below(p) : recursive \/ Parent(m[1]) = p}}
    BY <1>0, <1>5 DEF Listing
  <2>2. ProcessEnds \notin shown'.result
    BY <1>2, <1>3, <2>1
  <2>3. ASSUME NEW k \in DOMAIN Records
        PROVE  (IF ~ recursive THEN Records[k].path # <<>> /\ Parent(Records[k].path) = p
                ELSE IsPrefix(p, Records[k].path) /\ Records[k].path # p) <=> Records[k].path \in shown'.result
    <3> DEFINE q == Records[k].path
    <3>1. PICK n \in DOMAIN entries : n[1] = q
      BY NamesAreRecords
    <3>2. IsList(q)
      BY <1>2, <3>1
    <3> HIDE DEF q
    <3>3. q \in shown'.result <=> IsPrefix(p, q) /\ q # p /\ (recursive \/ Parent(q) = p)
      BY <1>3, <2>1, <3>1
    <3>4. q # <<>> /\ Parent(q) = p => IsPrefix(p, q) /\ q # p
      BY <1>1, <3>2, BelowIs
    <3>5. IsPrefix(p, q) /\ q # p => q # <<>>
      BY <1>1, <3>2, BelowIs
    <3> QED
      BY <3>3, <3>4, <3>5 DEF q
  <2> QED
    BY <1>0, <2>2, <2>3 DEF ListingsShow
<1> QED
  BY <1>4, <1>5

-------------------------------------------------------------------------------
(* Readings.                                                               *)

\* A sum that wraps is less than what it is the sum of.
LEMMA Sums ==
    ASSUME NEW from \in 0..SizeMax, NEW len \in 0..SizeMax
    PROVE  /\ from + len <= SizeMax => (from + len) % (SizeMax + 1) = from + len
           /\ from + len > SizeMax => (from + len) % (SizeMax + 1) < from
<1>1. SizeMax \in Nat
  BY ArchivesAssumption
<1> DEFINE m == SizeMax + 1
           x == from + len
<1>2. m \in Nat /\ m > 0 /\ x \in Nat /\ x < 2 * m
  BY <1>1
<1>3. x < m => x % m = x
  BY <1>2
<1>4. x >= m => x % m = x - m
  BY <1>2
<1> QED
  BY <1>1, <1>2, <1>3, <1>4

\* A part that is taken is the one asked for, and none is taken where its end wraps.
LEMMA PartIsAsked ==
    ASSUME NEW h \in Contents, NEW off \in ReadOffsets, NEW len \in Lengths
    PROVE  \/ Part(h, off, len) = Throws /\ h.size + len > SizeMax
           \/ /\ Part(h, off, len) # Throws
              /\ \/ Given(Part(h, off, len)) = Asked(h, off, len)
                 \/ Given(Part(h, off, len)).bytes = {} /\ Asked(h, off, len).bytes = {}
<1>1. SizeMax \in Nat /\ off \in Int /\ len \in 0..SizeMax /\ h.value \in Values /\ h.size \in 0..SizeMax
  BY ArchivesAssumption DEF Contents
<1> DEFINE n == h.size
           from == IF off >= 0 THEN off ELSE IF n + off + 1 < 0 THEN 0 ELSE n + off + 1
           sum == (from + len) % (SizeMax + 1)
           to == IF len > 0 /\ sum < n THEN sum ELSE n
           Bytes == {b \in 0..(n - 1) : b >= from /\ (len = 0 \/ b < from + len)}
<1>2. Part(h, off, len) = IF from >= n THEN [value |-> Nothing, from |-> 0, to |-> 0]
                          ELSE IF to < from THEN Throws
                          ELSE [value |-> h.value, from |-> from, to |-> to]
  BY DEF Part
<1>3. from \in Nat
  BY <1>1
<1>4. Asked(h, off, len) = [value |-> h.value, bytes |-> Bytes]
  <2>1. CASE off >= 0
    BY <1>1, <2>1 DEF Asked
  <2>2. CASE ~ (off >= 0)
    <3>1. Greatest({0, n + 1 + off}) = from
      <4>1. from \in {0, n + 1 + off} /\ \A j \in {0, n + 1 + off} : from >= j
        <5>1. n \in Nat /\ n + off + 1 = n + 1 + off /\ n + 1 + off \in Int
          BY <1>1
        <5>2. CASE n + 1 + off < 0
          BY <2>2, <5>1, <5>2
        <5>3. CASE n + 1 + off >= 0
          BY <2>2, <5>1, <5>3
        <5> QED
          BY <5>1, <5>2, <5>3
      <4>2. \A k \in {0, n + 1 + off} : (\A j \in {0, n + 1 + off} : k >= j) => k = from
        BY <1>1, <4>1
      <4> HIDE DEF from
      <4> QED
        BY <4>1, <4>2 DEF Greatest
    <3> HIDE DEF from
    <3> QED
      BY <2>2, <3>1 DEF Asked
  <2> QED
    BY <2>1, <2>2
<1> HIDE DEF from
<1>5. CASE from >= n
  <2>1. Part(h, off, len) = [value |-> Nothing, from |-> 0, to |-> 0]
    BY <1>2, <1>5
  <2>2. [value |-> Nothing, from |-> 0, to |-> 0] \in Parts
    BY <1>1 DEF Parts
  <2>3. Given(Part(h, off, len)).bytes = {}
    BY <2>1 DEF Given
  <2>4. Bytes = {}
    BY <1>1, <1>3, <1>5
  <2> QED
    BY <1>4, <2>1, <2>2, <2>3, <2>4, ArchivesAssumption
<1>6. CASE from < n
  <2>1. from \in 0..SizeMax
    BY <1>1, <1>3, <1>6
  <2>2. CASE from + len > SizeMax
    <3>1. sum < from
      BY <1>1, <2>1, <2>2, Sums
    <3>2. sum \in Int /\ len > 0
      BY <1>1, <2>1, <2>2
    <3>3. to < from
      BY <1>1, <1>6, <2>1, <3>1, <3>2
    <3>4. Part(h, off, len) = Throws
      BY <1>1, <1>2, <1>6, <2>1, <3>3
    <3> QED
      BY <1>1, <1>6, <2>1, <2>2, <3>4
  <2>3. CASE from + len <= SizeMax
    <3>1. sum = from + len
      BY <1>1, <2>1, <2>3, Sums
    <3> HIDE DEF sum
    <3>2. to >= from /\ to \in 0..SizeMax
      BY <1>1, <1>6, <2>1, <3>1
    <3>3. Part(h, off, len) = [value |-> h.value, from |-> from, to |-> to]
      BY <1>1, <1>2, <1>6, <2>1, <3>2
    <3>4. Part(h, off, len) \in Parts
      BY <1>1, <2>1, <3>2, <3>3 DEF Parts
    <3>5. Given(Part(h, off, len)) = [value |-> h.value, bytes |-> from..(to - 1)]
      BY <3>3 DEF Given
    <3>6. from..(to - 1) = Bytes
      <4>1. CASE len > 0 /\ from + len < n
        BY <1>1, <2>1, <3>1, <4>1
      <4>2. CASE ~ (len > 0 /\ from + len < n)
        BY <1>1, <2>1, <3>1, <4>2
      <4> QED
        BY <4>1, <4>2
    <3> QED
      BY <1>4, <3>4, <3>5, <3>6, ArchivesAssumption
  <2> QED
    BY <1>1, <2>1, <2>2, <2>3
<1> QED
  BY <1>1, <1>3, <1>5, <1>6

\* What is read is the record that was written last.
LEMMA NewestRead ==
    ASSUME Mounted, Plain, NEW p, NEW k \in Newest(p)
    PROVE  k \in DOMAIN Records /\ HasFileName(p) /\ entries[<<p, FALSE>>] = Records[k] /\ ~ Records[k].slash
<1> DEFINE S == {j \in DOMAIN Records : Name(Records[j]) = <<p, FALSE>>}
<1>1. k \in S /\ \A j \in S : j <= k
  BY DEF Newest
<1>2. S \subseteq Nat
  <2>1. \A e \in DOMAIN archive.ends : IsList(archive.ends[e].records)
    BY ArchivesAssumption DEF Mounted
  <2>2. Len(archive.ends) = 1 /\ IsList(archive.ends)
    BY ArchivesAssumption DEF Plain, Mounted
  <2>3. archive.ends # <<>> /\ 1 \in DOMAIN archive.ends
    BY <2>2, ListType
  <2>4. Records = archive.ends[1].records
    BY <2>2, <2>3 DEF Records
  <2>5. IsList(Records)
    BY <2>1, <2>3, <2>4
  <2>6. \A j \in DOMAIN Records : j \in Nat
    BY <2>5, ListType
  <2> QED
    BY <2>6
<1> HIDE DEF S
<1>3. Greatest(S) = k
  <2>1. \A j \in S : k >= j
    BY <1>1, <1>2
  <2>2. \A i \in S : (\A j \in S : i >= j) => i = k
    BY <1>1, <1>2
  <2> QED
    BY <1>1, <2>1, <2>2 DEF Greatest
<1>4. k \in DOMAIN Records /\ Name(Records[k]) = <<p, FALSE>>
  BY <1>1 DEF S
<1>5. <<p, FALSE>> \in DOMAIN entries
  BY <1>4, PlainFacts
<1>6. entries[<<p, FALSE>>] = Records[Greatest(S)]
  BY <1>5, PlainFacts DEF S
<1>7. Records[k].slash = FALSE
  BY <1>4 DEF Name
<1> QED
  BY <1>3, <1>4, <1>5, <1>6, <1>7 DEF HasFileName

LEMMA ReadFileShows ==
    ASSUME Mounted, Plain, NEW p, NEW off \in ReadOffsets, NEW len \in Lengths, ReadFile(p, off, len)
    PROVE  ReadsShow
<1>0. /\ shown'.call = "read" /\ shown'.path = p
      /\ shown'.result.off = off /\ shown'.result.len = len /\ shown'.result.part = Read(p, off, len)
  BY DEF ReadFile, Called
<1> SUFFICES ASSUME NEW k \in Newest(p)
             PROVE  LET h == archive.headers[Records[k].place] IN
                    IF Read(p, off, len) = Throws THEN h.size = 0 \/ h.size + len > SizeMax
                    ELSE \/ Given(Read(p, off, len)) = Asked(h, off, len)
                         \/ Given(Read(p, off, len)).bytes = {} /\ Asked(h, off, len).bytes = {}
  BY <1>0 DEF ReadsShow, ReadIsRight
<1> DEFINE r == Records[k]
           h == archive.headers[r.place]
<1>1. k \in DOMAIN Records /\ HasFileName(p) /\ entries[<<p, FALSE>>] = r /\ ~ r.slash
  BY NewestRead
<1>2. r.place \in DOMAIN archive.headers /\ r.size = h.size /\ r.method \in {"stored", "deflated"}
  BY <1>1 DEF Plain
<1>3. h \in Contents
  BY <1>2, ArchivesAssumption DEF Mounted
<1> HIDE DEF r
<1>4. Decompressed(r) = IF r.method = "stored" /\ r.size = 0 THEN Throws ELSE [value |-> h.value, size |-> h.size]
  BY <1>2 DEF Decompressed
<1>5. [value |-> h.value, size |-> h.size] = h
  BY <1>3 DEF Contents
<1>6. Read(p, off, len) = ReadPart(Decompressed(r), off, len)
  BY <1>1 DEF Read
<1> HIDE DEF h
<1>7. CASE r.method = "stored" /\ r.size = 0
  <2>1. Read(p, off, len) = Throws
    BY <1>4, <1>6, <1>7 DEF ReadPart
  <2> QED
    BY <1>2, <1>7, <2>1 DEF h, r
<1>8. CASE ~ (r.method = "stored" /\ r.size = 0)
  <2>1. Read(p, off, len) = Part(h, off, len)
    BY <1>3, <1>4, <1>5, <1>6, <1>8, ArchivesAssumption DEF ReadPart
  <2> QED
    BY <1>3, <2>1, PartIsAsked DEF h, r
<1> QED
  BY <1>7, <1>8

-------------------------------------------------------------------------------

Showing == Plain' => ReadsShow /\ ListingsShow /\ AnswersShow

\* A call that changes nothing finds the archive as plain as it leaves it.
LEMMA StaysPlain ==
    ASSUME UNCHANGED <<archive, entries, mounted>>, Plain'
    PROVE  Plain
BY DEF Plain, Records, WholeRecords

LEMMA ArchiveStep ==
    ASSUME Mounted, ArchiveNext
    PROVE  Mounted' /\ Showing
<1>1. CASE \E p \in Paths : Ask(p)
  <2>1. PICK p \in Paths : Ask(p)
    BY <1>1
  <2>2. UNCHANGED <<archive, entries, mounted>> /\ shown'.call = "ask"
    BY <2>1 DEF Ask, Called
  <2>3. Plain' => AnswersShow
    BY <2>1, <2>2, AsksShow, StaysPlain
  <2>4. Mounted'
    BY <2>2 DEF Mounted
  <2> QED
    BY <2>2, <2>3, <2>4 DEF Showing, ReadsShow, ListingsShow
<1>2. CASE \E p \in Paths : Change(p)
  <2>1. PICK p \in Paths : Change(p)
    BY <1>2
  <2>2. UNCHANGED <<archive, entries, mounted>> /\ shown'.call = "change"
    BY <2>1 DEF Change, Called
  <2>3. Mounted'
    BY <2>2 DEF Mounted
  <2> QED
    BY <2>2, <2>3 DEF Showing, ReadsShow, ListingsShow, AnswersShow
<1>3. CASE \E p \in Paths, recursive \in BOOLEAN : ReadDir(p, recursive)
  <2>1. PICK p \in Paths, recursive \in BOOLEAN : ReadDir(p, recursive)
    BY <1>3
  <2>2. UNCHANGED <<archive, entries, mounted>> /\ shown'.call \in {"list", "tree"}
    BY <2>1 DEF ReadDir, Called
  <2>3. Plain' => ListingsShow
    BY <2>1, <2>2, ReadDirShows, StaysPlain
  <2>4. Mounted'
    BY <2>2 DEF Mounted
  <2> QED
    BY <2>2, <2>3, <2>4 DEF Showing, ReadsShow, AnswersShow
<1>4. CASE \E p \in Paths, off \in ReadOffsets, len \in Lengths : ReadFile(p, off, len)
  <2>1. PICK p \in Paths, off \in ReadOffsets, len \in Lengths : ReadFile(p, off, len)
    BY <1>4
  <2>2. UNCHANGED <<archive, entries, mounted>> /\ shown'.call = "read"
    BY <2>1 DEF ReadFile, Called
  <2>3. Plain' => ReadsShow
    BY <2>1, <2>2, ReadFileShows, StaysPlain
  <2>4. Mounted'
    BY <2>2 DEF Mounted
  <2> QED
    BY <2>2, <2>3, <2>4 DEF Showing, ListingsShow, AnswersShow
<1>5. CASE \E a \in Archives : Rewrite(a)
  <2>1. shown'.call = "rewrite" /\ archive' \in Archives /\ UNCHANGED <<entries, mounted>>
    BY <1>5 DEF Rewrite, Called
  <2>2. Mounted'
    BY <2>1 DEF Mounted
  <2> QED
    BY <2>1, <2>2 DEF Showing, ReadsShow, ListingsShow, AnswersShow
<1>6. CASE Mount
  <2>1. shown'.call = "mount" /\ entries' = Parsed(archive) /\ mounted' = archive /\ archive' = archive
    BY <1>6 DEF Mount, Called
  <2>2. Mounted'
    BY <2>1 DEF Mounted
  <2> QED
    BY <2>1, <2>2 DEF Showing, ReadsShow, ListingsShow, AnswersShow
<1> QED
  BY <1>1, <1>2, <1>3, <1>4, <1>5, <1>6 DEF ArchiveNext

\* A volume of a plain archive shows what the archive holds, whatever is asked of it.
THEOREM ArchivesAreShown == ArchiveSpec => ShowsWhatItHolds
<1>1. ArchiveInit => Mounted
  BY DEF ArchiveInit, Mounted
<1>2. Mounted /\ [ArchiveNext]_archiveVars => Mounted'
  <2>1. ASSUME Mounted, UNCHANGED archiveVars PROVE Mounted'
    BY <2>1 DEF archiveVars, Mounted
  <2> QED
    BY <2>1, ArchiveStep
<1>3. Mounted /\ [ArchiveNext]_archiveVars => [Showing]_archiveVars
  BY ArchiveStep
<1> QED
  BY <1>1, <1>2, <1>3, PTL DEF ArchiveSpec, ShowsWhatItHolds, Showing

===============================================================================
