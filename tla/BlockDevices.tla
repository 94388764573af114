----------------------------- MODULE BlockDevices -----------------------------
(***************************************************************************)
(* Block devices over one file (FileDevice, MMapDevice), over another      *)
(* device (LoopDevice) and in memory (MemDevice), what they say they hold  *)
(* (loadInfo, probeFsMagic), and the channels that ext4 volumes of several *)
(* threads open on them (Ext4IoManager).  A place stands for the bytes     *)
(* between two of the offsets that a probe looks at, and the file may end  *)
(* after any of them.                                                      *)
(***************************************************************************)
EXTENDS Naturals, Sequences, FiniteSets

CONSTANTS Devices,    \* the devices a program may have at one time
          Windows,    \* what devices are asked for: [kind, off, len, ro, cached]
          Volumes,    \* the ext4 volumes, each of which may have a device open
          Marks,      \* what is written: the signatures of probes, and anything else
          Blank,      \* what a file grows by
          NoDevice, NoInfo, Fail,
          Stored,     \* what the file may hold at first
          MaxPlaces   \* bound: the file does not grow beyond

\* Windows are what they are said to be, a file is its bytes from the first on, and
\* a volume is no device.
ASSUME BlocksAreSane ==
    /\ Windows \subseteq [kind : {"file", "mmap", "loop", "mem"}, off : Nat, len : Nat, ro : BOOLEAN, cached : BOOLEAN]
    /\ \A f \in Stored : IsFiniteSet(DOMAIN f) /\ DOMAIN f = 0..(Cardinality(DOMAIN f) - 1)
    /\ Volumes \cap Devices = {}
    /\ MaxPlaces \in Nat

VARIABLES file,   \* place -> what is there
          dev,    \* device -> its fields, or Closed
          info,   \* device -> m_info once it is valid, else NoInfo
          map,    \* g_map: devices that channels find by address
          chan,   \* ext4 volume -> [dev, step]: what openFsFromBlockDevice has done
          wrote,  \* place -> [by, value]: writes that succeeded and were not flushed yet
          sure    \* place -> what was written there and flushed, with success

vars == <<file, dev, info, map, chan, wrote, sure>>

Size == Cardinality(DOMAIN file)

Closed == [kind |-> "closed"]

NoChannel == [dev |-> NoDevice, step |-> "closed"]

-------------------------------------------------------------------------------
(* What a probe looks for and where.  The places are the bytes from 0, 512, *)
(* 4096, 32768, 65536 and 131072 on.                                        *)

Probe(type, place) == [type |-> type, place |-> place]

Containers == <<Probe("crypto_LUKS", 0), Probe("LVM2_member", 1), Probe("linux_raid_member", 2), Probe("swap", 1)>>

Distinct == <<Probe("xfs", 0), Probe("btrfs", 4), Probe("zfs_member", 5), Probe("apfs", 0), Probe("ext", 1),
              Probe("f2fs", 1), Probe("erofs", 1), Probe("nilfs2", 1), Probe("jfs", 3), Probe("reiserfs", 4),
              Probe("squashfs", 0), Probe("minix", 1), Probe("hfs", 1)>>

Discs == <<Probe("iso9660", 3), Probe("udf", 3)>>

BootSectors == <<Probe("fat", 0)>>

Probes == Containers \o Distinct \o Discs \o BootSectors

\* probeFsMagic of what was read from the start of a device
Probed(places) ==
    LET hits == {k \in DOMAIN Probes : /\ Probes[k].place \in DOMAIN places
                                       /\ places[Probes[k].place] = Probes[k].type}
    IN  IF hits = {} THEN "none" ELSE Probes[CHOOSE k \in hits : \A j \in hits : k <= j].type

-------------------------------------------------------------------------------

\* A loop's place is that of the device below it, down to the base: the one that is no loop.
Bottom(d, p) ==
    IF p >= dev[d].size THEN [dev |-> NoDevice, place |-> 0] ELSE [dev |-> dev[d].base, place |-> dev[d].at + p]

\* The bytes are kept in the device.
Holds(v) == v.kind = "mem" \/ (v.kind = "file" /\ v.cached)

\* read
ReadAt(d, p) ==
    LET b == Bottom(d, p)
    IN  IF b.dev = NoDevice THEN Fail
        ELSE LET v == dev[b.dev]
             IN  IF Holds(v) THEN v.data[b.place]
                 ELSE IF v.off + b.place < Size THEN file[v.off + b.place] ELSE Fail

\* A place of a mapping that the file does not reach: the process ends there.
BeyondMapping(d, p) ==
    LET b == Bottom(d, p)
    IN  b.dev # NoDevice /\ dev[b.dev].kind = "mmap" /\ dev[b.dev].off + b.place >= Size

\* What is read to be probed, all of it or nothing
ProbeRead(d) ==
    IF \E p \in 0..(dev[d].size - 1) : ReadAt(d, p) = Fail THEN [p \in {} |-> Fail]
    ELSE [p \in 0..(dev[d].size - 1) |-> ReadAt(d, p)]

-------------------------------------------------------------------------------

Init ==
    /\ file \in Stored
    /\ dev = [d \in Devices |-> Closed]
    /\ info = [d \in Devices |-> NoInfo]
    /\ map = {}
    /\ chan = [c \in Volumes |-> NoChannel]
    /\ wrote = [p \in {} |-> Fail]
    /\ sure = [p \in {} |-> Fail]

\* The size of a device on the file: the offset is not taken off it.
SizeAsked(w) == IF w.len > 0 /\ w.len < Size - w.off THEN w.len ELSE Size

\* What is preloaded must be there to its last byte, and a mapping cannot be empty.
Opens(w) == w.off < Size /\ (w.kind = "file" /\ w.cached => w.off + SizeAsked(w) <= Size)

\* FileDevice, MMapDevice
OpenOnFile(d, w) ==
    /\ dev[d] = Closed /\ w.kind \in {"file", "mmap"}
    /\ Opens(w)
    /\ dev' = [dev EXCEPT ![d] =
          [kind |-> w.kind, off |-> w.off, size |-> SizeAsked(w), ro |-> w.ro,
           cached |-> w.cached, dirty |-> FALSE, base |-> d, at |-> 0, below |-> {},
           data |-> [p \in (IF w.cached THEN 0..(SizeAsked(w) - 1) ELSE {}) |-> file[w.off + p]]]]
    /\ UNCHANGED <<file, info, map, chan, wrote, sure>>

\* LoopDevice
OpenLoop(d, w, o) ==
    /\ dev[d] = Closed /\ w.kind = "loop"
    /\ dev[o] # Closed /\ w.off < dev[o].size
    /\ LET rest == dev[o].size - w.off
       IN  dev' = [dev EXCEPT ![d] =
              [kind |-> "loop", off |-> w.off, size |-> IF w.len > 0 /\ w.len < rest THEN w.len ELSE rest,
               ro |-> FALSE, cached |-> FALSE, dirty |-> FALSE, base |-> dev[o].base, at |-> dev[o].at + w.off,
               below |-> dev[o].below \cup {o}, data |-> [p \in {} |-> Fail]]]
    /\ UNCHANGED <<file, info, map, chan, wrote, sure>>

\* MemDevice, on memory of its own or in view of what is read only
OpenMem(d, w) ==
    /\ dev[d] = Closed /\ w.kind = "mem" /\ w.len > 0
    /\ dev' = [dev EXCEPT ![d] =
          [kind |-> "mem", off |-> 0, size |-> w.len, ro |-> w.ro, cached |-> FALSE, dirty |-> FALSE,
           base |-> d, at |-> 0, below |-> {}, data |-> [p \in 0..(w.len - 1) |-> Blank]]]
    /\ UNCHANGED <<file, info, map, chan, wrote, sure>>

\* The file with v written at q, as far as it has to grow
Grown(q, v) == [p \in DOMAIN file \cup 0..q |-> IF p = q THEN v ELSE IF p \in DOMAIN file THEN file[p] ELSE Blank]

\* The end of the process: no destructor runs.
AllGone ==
    /\ dev' = [d \in Devices |-> Closed]
    /\ info' = [d \in Devices |-> NoInfo]
    /\ map' = {}
    /\ chan' = [c \in Volumes |-> NoChannel]
    /\ wrote' = [p \in {} |-> Fail]
    /\ UNCHANGED <<file, sure>>

Crash == AllGone

\* A read or a write of a mapping where the file has ended
EndBeyondMapping(d, p) == dev[d] # Closed /\ BeyondMapping(d, p) /\ AllGone

But(f, places) == [p \in DOMAIN f \ places |-> f[p]]

Noted(by, q, v) == [p \in DOMAIN wrote \cup {q} |-> IF p = q THEN [by |-> by, value |-> v] ELSE wrote[p]]

\* mutant of Taken: the cache is not marked
TakenUnmarked(v, p, x) == [v EXCEPT !.data[p] = x]

\* write, of a device that keeps its bytes
Taken(v, p, x) == [v EXCEPT !.data[p] = x, !.dirty = v.kind = "file"]

\* write
Write(d, p, x) ==
    /\ dev[d] # Closed
    /\ LET b == Bottom(d, p)
           v == dev[b.dev]
           q == v.off + b.place
       IN  /\ b.dev # NoDevice /\ ~v.ro /\ ~BeyondMapping(d, p)
           /\ IF Holds(v)
              THEN dev' = [dev EXCEPT ![b.dev] = Taken(v, b.place, x)] /\ UNCHANGED file
              ELSE q < MaxPlaces /\ file' = Grown(q, x) /\ UNCHANGED dev
           /\ IF v.kind = "mem" THEN UNCHANGED <<wrote, sure>>
              ELSE wrote' = Noted(b.dev, q, x) /\ sure' = But(sure, {q})
    /\ UNCHANGED <<info, map, chan>>

\* The file after the first n places of a cache were written
Flushed(v, n) == [p \in DOMAIN file |-> IF p >= v.off /\ p < v.off + n THEN v.data[p - v.off] ELSE file[p]]

\* Places that the first n of a cache change
Overwritten(v, n) == {p \in v.off..(v.off + n - 1) : file[p] # v.data[p - v.off]}

WrittenBy(b) == {p \in DOMAIN wrote : wrote[p].by = b}

IsDirty(v) == v.kind = "file" /\ v.cached /\ v.dirty

\* What writing back n places of b changes, and whose writes that undoes: not those that
\* another device still holds.
Lost(b, n) == IF IsDirty(dev[b]) THEN Overwritten(dev[b], n) ELSE {}

Undone(b, n) == {p \in Lost(b, n) \ WrittenBy(b) : p \notin DOMAIN wrote \/ wrote[p].by \notin Devices
                                                  \/ ~Holds(dev[wrote[p].by])}

\* n places of b are written back, and the writes at the places of mine have been flushed by it
Settled(b, n, mine) ==
    /\ file' = IF IsDirty(dev[b]) THEN Flushed(dev[b], n) ELSE file
    /\ sure' = [p \in (DOMAIN sure \ Lost(b, n)) \cup mine |-> IF p \in mine THEN wrote[p].value ELSE sure[p]]

\* flush
Flush(d) ==
    /\ dev[d] # Closed
    /\ \E b \in {dev[d].base} : \E mine \in {IF dev[b].kind = "file" /\ dev[b].ro THEN {} ELSE WrittenBy(b)} :
          /\ Settled(b, dev[b].size, mine)
          /\ wrote' = But(wrote, mine \cup Undone(b, dev[b].size))
          /\ dev' = [dev EXCEPT ![b].dirty = FALSE]
    /\ UNCHANGED <<info, map, chan>>

\* flush of a cache of which only n places could be written: false, and the cache stays marked
FlushShort(d, n) ==
    /\ dev[d] # Closed
    /\ \E b \in {dev[d].base} :
          /\ IsDirty(dev[b]) /\ n < dev[b].size
          /\ Settled(b, n, {})
          /\ wrote' = But(wrote, Undone(b, n))
    /\ UNCHANGED <<dev, info, map, chan>>

Unused(d) ==
    /\ \A o \in Devices : dev[o] # Closed => d \notin dev[o].below
    /\ \A c \in Volumes : chan[c].dev # d
    /\ d \notin map

\* The destructor of a device that nothing holds any more, whose flush may fail after n
\* places.  That is not told.
Close(d, n) ==
    /\ dev[d] # Closed /\ Unused(d)
    /\ n <= dev[d].size /\ (~IsDirty(dev[d]) => n = dev[d].size)
    /\ Settled(d, n, IF IsDirty(dev[d]) /\ n = dev[d].size THEN WrittenBy(d) ELSE {})
    /\ wrote' = But(wrote, WrittenBy(d) \cup Undone(d, n))
    /\ dev' = [dev EXCEPT ![d] = Closed]
    /\ info' = [info EXCEPT ![d] = NoInfo]
    /\ UNCHANGED <<map, chan>>

\* loadInfo, for fsInfo, uuid, label, capacity and available: asked for once
LoadInfo(d) ==
    /\ dev[d] # Closed /\ info[d] = NoInfo
    /\ \A p \in 0..(dev[d].size - 1) : ~BeyondMapping(d, p)
    /\ info' = [info EXCEPT ![d] = Probed(ProbeRead(d))]
    /\ UNCHANGED <<file, dev, map, chan, wrote, sure>>

-------------------------------------------------------------------------------
(* Channels of ext4                                                        *)

\* The name of a device in memory is not what mem_open reads, so that it is never opened.
ByAddress(v) == v.kind \in {"mmap", "loop"}

\* openFsFromBlockDevice up to ext2fs_open.  A file is opened by its path, from its start.
Register(c, d) ==
    /\ chan[c] = NoChannel /\ dev[d] # Closed /\ ByAddress(dev[d])
    /\ map' = map \cup {d}
    /\ chan' = [chan EXCEPT ![c] = [dev |-> d, step |-> "registered"]]
    /\ UNCHANGED <<file, dev, info, wrote, sure>>

OpenPath(c, d) ==
    /\ chan[c] = NoChannel /\ dev[d] # Closed /\ dev[d].kind = "file"
    /\ Size > 1 /\ file[1] = "ext"
    /\ chan' = [chan EXCEPT ![c] = [dev |-> d, step |-> "path"]]
    /\ UNCHANGED <<file, dev, info, map, wrote, sure>>

\* bd_open and the reading of the superblock; what does not open is taken out again.
OpenChannel(c) ==
    /\ chan[c].step = "registered"
    /\ dev[chan[c].dev].size > 1 => ~BeyondMapping(chan[c].dev, 1)
    /\ IF chan[c].dev \in map /\ ReadAt(chan[c].dev, 1) = "ext"
       THEN chan' = [chan EXCEPT ![c].step = "open"] /\ UNCHANGED map
       ELSE chan' = [chan EXCEPT ![c] = NoChannel] /\ map' = map \ {chan[c].dev}
    /\ UNCHANGED <<file, dev, info, wrote, sure>>

\* bd_close, and that of a path
CloseChannel(c) ==
    /\ chan[c].step \in {"open", "path"}
    /\ map' = IF chan[c].step = "open" THEN map \ {chan[c].dev} ELSE map
    /\ chan' = [chan EXCEPT ![c] = NoChannel]
    /\ UNCHANGED <<file, dev, info, wrote, sure>>

\* bd_write_blk goes to the device, and ext2fs's own manager to the file from its start.
ChannelWrite(c, p, x) ==
    /\ chan[c].step \in {"open", "path"}
    /\ IF chan[c].step = "open" THEN Write(chan[c].dev, p, x)
       ELSE /\ p < Size
            /\ file' = [file EXCEPT ![p] = x]
            /\ wrote' = Noted(c, p, x)
            /\ sure' = But(sure, {p})
            /\ UNCHANGED <<dev, info, map, chan>>

Next ==
    \/ \E d \in Devices, w \in Windows : OpenOnFile(d, w)
    \/ \E d, o \in Devices, w \in Windows : OpenLoop(d, w, o)
    \/ \E d \in Devices, w \in Windows : OpenMem(d, w)
    \/ \E d \in Devices, p \in 0..(MaxPlaces - 1), x \in Marks : Write(d, p, x)
    \/ \E d \in Devices, p \in 0..(MaxPlaces - 1) : EndBeyondMapping(d, p)
    \/ \E d \in Devices : Flush(d)
    \/ \E d \in Devices, n \in 0..(MaxPlaces - 1) : FlushShort(d, n)
    \/ \E d \in Devices, n \in 0..MaxPlaces : Close(d, n)
    \/ \E d \in Devices : LoadInfo(d)
    \/ \E c \in Volumes, d \in Devices : Register(c, d)
    \/ \E c \in Volumes, d \in Devices : OpenPath(c, d)
    \/ \E c \in Volumes : OpenChannel(c)
    \/ \E c \in Volumes : CloseChannel(c)
    \/ \E c \in Volumes, p \in 0..(MaxPlaces - 1), x \in Marks : ChannelWrite(c, p, x)
    \/ Crash

Spec == Init /\ [][Next]_vars

-------------------------------------------------------------------------------

\* What was written through a device whose flush has succeeded is in the file, whatever the
\* other devices on it do, until somebody writes there, or writes back a cache that was
\* loaded before.
FlushedIsKept == \A p \in DOMAIN sure : p \in DOMAIN file /\ file[p] = sure[p]
===============================================================================
