---------------------------- MODULE MountedVolumes ----------------------------
(***************************************************************************)
(* Volumes on directories of this machine (LocalVolume), what they say of  *)
(* the mount they stand on (mountinfo), how a path of the machine becomes  *)
(* a volume and a path on it, and the list a VolumeManager keeps.          *)
(*                                                                         *)
(* Others mount and unmount at any time.  The mount table is a sequence of *)
(* entries in the order they were made; a path is a sequence of names, the *)
(* root is <<>>.  Paths are canonical: there are no symbolic links.        *)
(***************************************************************************)
EXTENDS Integers, Sequences, FiniteSets

CONSTANTS Fs,          \* of every file system: its device, type, number and names
          First,       \* the entry of the mount table the machine starts with
          Mountings,   \* what can be mounted: a tree, a directory of it, its options
          Points,      \* where
          Dirs, Files, \* the directories and files there are: <<tree, path in it>>
          Configs,     \* directories that have a /.rc
          Targets,     \* the paths a user gives
          NewNames,    \* uuids and labels a user gives
          SystemDirs,  \* dev, proc, run, sys, tmp
          MaxMounts, MaxVolumes

VARIABLES mounts,      \* the mount table
          dirs,        \* the directories there are
          soft,        \* /.rc/UUID and /.rc/LABEL of the directories with a /.rc
          vol,         \* the LocalVolumes there are
          at,          \* LocalVolume::at's cache, by the root asked for
          list,        \* VolumeManager::m_volumes
          refused,     \* roots the manager's transformers refuse
          real,        \* of every volume: what was mounted at its root when it looked
          told         \* the last call and its answer

vars == <<mounts, dirs, soft, vol, at, list, refused, real, told>>

Image == 0             \* a volume on an image file, in the manager's list
Names == {"uuid", "label"}

-------------------------------------------------------------------------------
(* The machine.                                                            *)

IsPrefixOf(p, q) == Len(p) <= Len(q) /\ SubSeq(q, 1, Len(p)) = p
ParentOf(p) == SubSeq(p, 1, Len(p) - 1)
Beyond(p, q) == SubSeq(q, Len(p) + 1, Len(q))

Last(ms, is(_)) ==
    LET is_in == {i \in DOMAIN ms : is(ms[i])} IN
    {ms[i] : i \in {i \in is_in : \A j \in is_in : j <= i}}

\* The mount a path lies on: the last one made at a directory above it.
Covering(ms, p) == CHOOSE e \in Last(ms, LAMBDA e : IsPrefixOf(e.point, p)) : TRUE

Place(ms, p) == LET e == Covering(ms, p) IN <<e.tree, e.sub \o Beyond(e.point, p)>>
IsDir(ms, ds, p) == Place(ms, p) \in ds
Exists(ms, ds, p) == Place(ms, p) \in ds \cup Files
Serial(ms, p) == Fs[Covering(ms, p).tree].serial       \* st_dev

\* create_directories: the places made, none when the file system is read-only.
Made(ms, ds, p) ==
    IF Exists(ms, ds, p) \/ Covering(ms, p).opt = "ro" THEN {}
    ELSE {Place(ms, SubSeq(p, 1, n)) : n \in 0..Len(p)} \ ds
CanBe(ms, ds, p) == Exists(ms, ds, p) \/ Covering(ms, p).opt # "ro"

-------------------------------------------------------------------------------
(* What a volume finds out about its root.                                 *)

Unsaid == [device |-> "", point |-> {}, loop |-> FALSE, logical |-> "none", ro |-> FALSE]

Fresh(p) == [root |-> p, loaded |-> FALSE, says |-> Unsaid, type |-> "other",
             own |-> [w \in Names |-> <<>>], cached |-> [w \in Names |-> {}]]

\* Directly below the root everything is taken for a mount point, and looked up.
IsMountPoint(ms, ds, p) ==
    Exists(ms, ds, p) /\ (Len(p) <= 1 \/ Serial(ms, p) # Serial(ms, ParentOf(p)))

\* The first line of the table for that directory.
Lookup(ms, p) ==
    LET there == {i \in DOMAIN ms : ms[i].point = p} IN
    {ms[i] : i \in {i \in there : \A j \in there : i <= j}}

Said(e) ==
    [device |-> Fs[e.tree].device, point |-> {e.point}, loop |-> Fs[e.tree].loop, ro |-> e.opt = "ro",
     logical |-> IF Fs[e.tree].type = "overlay" THEN "overlay"
                 ELSE IF e.sub # <<>> THEN "bind" ELSE "none"]

TypeAt(p, e) ==
    IF Len(p) > 1 /\ p[1] \in SystemDirs THEN "system" ELSE Fs[e.tree].class

NameOf(w, e) ==
    IF w = "uuid" THEN Fs[e.tree].uuid
    ELSE IF Fs[e.tree].loop THEN <<"loop">> \o Beyond(ParentOf(e.point), e.point)
    ELSE IF e.sub # <<>> THEN <<"bind">> \o Beyond(ParentOf(e.sub), e.sub)
    ELSE Fs[e.tree].label

Loaded(v, ms, ds) ==
    IF v.loaded THEN v
    ELSE IF ~IsMountPoint(ms, ds, v.root) \/ Lookup(ms, v.root) = {} THEN [v EXCEPT !.loaded = TRUE]
    ELSE LET e == CHOOSE e \in Lookup(ms, v.root) : TRUE IN
         [v EXCEPT !.loaded = TRUE, !.says = Said(e), !.type = TypeAt(v.root, e),
                   !.own = [w \in Names |-> NameOf(w, e)]]

DefaultName(w) == IF w = "label" THEN <<"Local Volume">> ELSE <<>>
SoftName(ms, w, p, s) == IF <<Place(ms, p), w>> \in DOMAIN s THEN s[<<Place(ms, p), w>>] ELSE <<>>
OrElse(name, other) == IF name # <<>> THEN name ELSE other

\* readUuid, readLabel of a volume that has looked.
NameRead(v, w, ms, s) ==
    OrElse(v.own[w], OrElse(SoftName(ms, w, v.root, s), DefaultName(w)))

\* mutant of Rerooted: what was found of the old root counts as found
RerootedLoaded(v, p) == [v EXCEPT !.root = p, !.says = Unsaid]
\* setRootPath: the type and the names of the old root stay.
Rerooted(v, p) == [v EXCEPT !.root = p, !.says = Unsaid, !.loaded = FALSE]

-------------------------------------------------------------------------------
(* From a path of the machine to a volume.                                 *)

\* The part of a path that can be asked for a device: itself or its parent.
Asked(ms, ds, p) == IF Exists(ms, ds, p) \/ p = <<>> THEN p ELSE ParentOf(p)

\* The longest directory above a path that is in the table and on the same device;
\* entries that others hide are in the table as well.
MountFor(ms, ds, p) ==
    LET above == {ms[i].point : i \in {i \in DOMAIN ms :
            /\ IsPrefixOf(ms[i].point, p)
            /\ Exists(ms, ds, ms[i].point)
            /\ Serial(ms, ms[i].point) = Serial(ms, Asked(ms, ds, p))}}
    IN CHOOSE c \in above : \A d \in above : Len(d) <= Len(c)

\* LocalVolume::file: the root of the volume; a path of which nothing exists has its
\* parent, which the volume then makes.
RootFor(ms, ds, p) ==
    IF Exists(ms, ds, Asked(ms, ds, p)) THEN MountFor(ms, ds, p) ELSE ParentOf(p)

-------------------------------------------------------------------------------
(* VolumeManager::addLocalVolumes.                                         *)

\* The lines it takes.  flags: what it includes.
Wanted(e, flags) ==
    /\ ~(Len(e.point) > 1 /\ e.point[1] \in SystemDirs)
    /\ Fs[e.tree].node                                    \* a device with a "/"
    /\ Fs[e.tree].loop => "loops" \in flags
    /\ Fs[e.tree].type # "pseudo"
    /\ Fs[e.tree].type = "overlay" \/ e.sub # <<>> => "symbols" \in flags
    /\ e.opt # "rw" => "readonly" \in flags               \* an option with "ro" in it

\* Their directories, each once.
Scanned(ms, flags) ==
    LET wanted == SelectSeq(ms, LAMBDA e : Wanted(e, flags))
        firsts == SelectSeq([i \in 1..Len(wanted) |-> i],
                            LAMBDA i : \A j \in 1..(i - 1) : wanted[j].point # wanted[i].point)
    IN [i \in 1..Len(firsts) |-> wanted[firsts[i]].point]

-------------------------------------------------------------------------------

Unlooked == [there |-> {}, plain |-> TRUE, moved |-> FALSE, asked |-> {}]
Entry(p, k) == [point |-> p, tree |-> k.tree, sub |-> k.sub, opt |-> k.opt]

Init ==
    /\ mounts = <<Entry(<<>>, First)>>
    /\ dirs = Dirs
    /\ soft = [c \in Configs \X Names |-> <<>>]
    /\ vol = <<>> /\ at = <<>> /\ list = <<>> /\ refused = {} /\ real = <<>>
    /\ told = [op |-> "none"]

Did(answer) == told' = answer

\* Others mount and unmount; what lies above another mount cannot be unmounted.
MountOther(p, k) ==
    /\ Len(mounts) < MaxMounts
    /\ IsDir(mounts, dirs, p)
    /\ <<k.tree, k.sub>> \in dirs
    /\ mounts' = Append(mounts, Entry(p, k))
    /\ Did([op |-> "mount"])
    /\ UNCHANGED <<dirs, soft, vol, at, list, refused, real>>

Unmount(i) ==
    /\ i > 1
    /\ \A j \in (i + 1)..Len(mounts) : ~IsPrefixOf(mounts[i].point, mounts[j].point)
                                       /\ ~IsPrefixOf(mounts[j].point, mounts[i].point)
    /\ mounts' = SubSeq(mounts, 1, i - 1) \o SubSeq(mounts, i + 1, Len(mounts))
    /\ Did([op |-> "unmount"])
    /\ UNCHANGED <<dirs, soft, vol, at, list, refused, real>>

\* The constructor makes the directory it does not find.
Construct(ps) ==
    /\ Len(vol) + Len(ps) <= MaxVolumes
    /\ vol' = vol \o [i \in 1..Len(ps) |-> Fresh(ps[i])]
    /\ real' = real \o [i \in 1..Len(ps) |-> Unlooked]
    /\ dirs' = dirs \cup UNION {Made(mounts, dirs, ps[i]) : i \in 1..Len(ps)}

\* LocalVolume::at: one volume for a root, for as long as the process lives.
AtRoot(p) ==
    IF p \in DOMAIN at THEN UNCHANGED <<dirs, vol, at, real>>
    ELSE /\ CanBe(mounts, dirs, p)
         /\ Construct(<<p>>)
         /\ at' = [q \in DOMAIN at \cup {p} |-> IF q = p THEN Len(vol) + 1 ELSE at[q]]

OpenAt(p) ==
    /\ AtRoot(p)
    /\ Did([op |-> "at", vol |-> at'[p]])
    /\ UNCHANGED <<mounts, soft, list, refused>>

File(p) ==
    \E r \in {RootFor(mounts, dirs, p)} :
        /\ AtRoot(r)
        /\ Did([op |-> "file", vol |-> at'[r], path |-> Beyond(r, p), of |-> p])
        /\ UNCHANGED <<mounts, soft, list, refused>>

\* A root that is set has not to exist.
SetRootPath(v, p) ==
    /\ vol[v].root # p
    /\ vol' = [vol EXCEPT ![v] = Rerooted(@, p)]
    /\ real' = [real EXCEPT ![v].moved = @ \/ vol[v].loaded, ![v].asked = {}]
    /\ Did([op |-> "reroot"])
    /\ UNCHANGED <<mounts, dirs, soft, at, list, refused>>

\* What is visible at a directory, and whether the code can see it: nothing is
\* stacked there, and a directory deeper down is not on its parent's device.
There(ms, p) == IF Covering(ms, p).point = p THEN {Covering(ms, p)} ELSE {}
Plain(ms, p) ==
    /\ Cardinality({i \in DOMAIN ms : ms[i].point = p}) <= 1
    /\ There(ms, p) # {} /\ Len(p) > 1 => Serial(ms, p) # Serial(ms, ParentOf(p))

Looked(v, r, ms) ==
    IF v.loaded THEN r ELSE [r EXCEPT !.there = There(ms, v.root), !.plain = Plain(ms, v.root)]

\* getDevice, getMountPoint, isLoop, getLogicalType, isReadOnly, getType, getMountInfo.
Ask(v) ==
    \E looked \in {Loaded(vol[v], mounts, dirs)} :
        /\ vol' = [vol EXCEPT ![v] = looked]
        /\ real' = [real EXCEPT ![v] = Looked(vol[v], @, mounts)]
        /\ Did([op |-> "ask", vol |-> v, says |-> looked.says, type |-> looked.type])
        /\ UNCHANGED <<mounts, dirs, soft, at, list, refused>>

\* getUuid, getLabel: kept from the first time, whatever happens to the root.
GetName(v, w) ==
    /\ IF vol[v].cached[w] # {}
       THEN /\ UNCHANGED <<vol, real>>
            /\ \E name \in vol[v].cached[w] : Did([op |-> "name", vol |-> v, of |-> w, name |-> name])
       ELSE \E looked \in {Loaded(vol[v], mounts, dirs)} :
            \E name \in {NameRead(looked, w, mounts, soft)} :
                /\ vol' = [vol EXCEPT ![v] = [looked EXCEPT !.cached[w] = {name}]]
                /\ real' = [real EXCEPT ![v] = [Looked(vol[v], @, mounts) EXCEPT !.asked = @ \cup {w}]]
                /\ Did([op |-> "name", vol |-> v, of |-> w, name |-> name])
    /\ UNCHANGED <<mounts, dirs, soft, at, list, refused>>

\* setUuid, setLabel: a file of the root, which the device's own name will hide.
SetName(v, w, name) ==
    LET place == <<Place(mounts, vol[v].root), w>> IN
    /\ IF place \in DOMAIN soft /\ Covering(mounts, vol[v].root).opt # "ro"
       THEN /\ soft' = [soft EXCEPT ![place] = name]
            /\ vol' = [vol EXCEPT ![v].cached[w] = {name}]
            /\ real' = [real EXCEPT ![v].asked = @ \cup {w}, ![v].moved = TRUE]
            /\ Did([op |-> "set"])
       ELSE UNCHANGED <<soft, vol, real>> /\ Did([op |-> "throws"])
    /\ UNCHANGED <<mounts, dirs, at, list, refused>>

-------------------------------------------------------------------------------
(* The manager.                                                            *)

AddVolume(p) ==
    /\ CanBe(mounts, dirs, p)
    /\ Construct(<<p>>)
    /\ list' = IF p \in refused THEN list ELSE Append(list, Len(vol) + 1)
    /\ Did([op |-> "add"])
    /\ UNCHANGED <<mounts, soft, at, refused>>

AddImage ==
    /\ Image \notin {list[i] : i \in DOMAIN list}
    /\ list' = Append(list, Image)
    /\ Did([op |-> "add"])
    /\ UNCHANGED <<mounts, dirs, soft, vol, at, refused, real>>

\* A volume that cannot be made is left out, and one that is refused is let go.
AddLocalVolumes(flags) ==
    \E ps \in {SelectSeq(Scanned(mounts, flags), LAMBDA p : CanBe(mounts, dirs, p))} :
    \E kept \in {SelectSeq(ps, LAMBDA p : p \notin refused)} :
        /\ Construct(kept)
        /\ list' = list \o [i \in 1..Len(kept) |-> Len(vol) + i]
        /\ Did([op |-> "scan", flags |-> flags])
        /\ UNCHANGED <<mounts, soft, at, refused>>

RemoveVolume(i) ==
    /\ list' = SubSeq(list, 1, i - 1) \o SubSeq(list, i + 1, Len(list))
    /\ Did([op |-> "remove"])
    /\ UNCHANGED <<mounts, dirs, soft, vol, at, refused, real>>

Clear ==
    /\ list # <<>> /\ list' = <<>>
    /\ Did([op |-> "clear"])
    /\ UNCHANGED <<mounts, dirs, soft, vol, at, refused, real>>

AddTransformer(p) ==
    /\ refused = {} /\ refused' = {p}
    /\ Did([op |-> "refuse"])
    /\ UNCHANGED <<mounts, dirs, soft, vol, at, list, real>>

Next ==
    \/ \E p \in Points, k \in Mountings : MountOther(p, k)
    \/ \E i \in DOMAIN mounts : Unmount(i)
    \/ \E p \in Points : OpenAt(p) \/ AddVolume(p) \/ AddTransformer(p)
    \/ \E p \in Targets : File(p)
    \/ \E v \in DOMAIN vol : Ask(v) \/ \E p \in Points : SetRootPath(v, p)
    \/ \E v \in DOMAIN vol, w \in Names : GetName(v, w) \/ \E name \in NewNames : SetName(v, w, name)
    \/ \E flags \in SUBSET {"loops", "symbols", "readonly"} : AddLocalVolumes(flags)
    \/ AddImage \/ Clear
    \/ \E i \in DOMAIN list : RemoveVolume(i)

Spec == Init /\ [][Next]_vars

-------------------------------------------------------------------------------
(* Properties: of every step.                                              *)

\* What a volume says of its mount is what was visible at its root when it first
\* looked since it got that root.
AnswersRight ==
    told'.op = "ask" /\ real'[told'.vol].plain =>
        LET v == vol'[told'.vol]  r == real'[told'.vol] IN
        /\ told'.says \in (IF r.there = {} THEN {Unsaid} ELSE {Said(e) : e \in r.there})
        /\ ~r.moved => told'.type \in
               (IF r.there = {} THEN {"other"} ELSE {TypeAt(v.root, e) : e \in r.there})

\* The uuid and the label it tells first are the device's, or those of the root.
NamesRight ==
    told'.op = "name" /\ real'[told'.vol].plain /\ ~real'[told'.vol].moved
        /\ told'.of \notin real[told'.vol].asked =>
    LET given == {NameOf(told'.of, e) : e \in real'[told'.vol].there} \ {<<>>} IN
    IF given # {} THEN told'.name \in given
    ELSE told'.name = OrElse(SoftName(mounts, told'.of, vol[told'.vol].root, soft), DefaultName(told'.of))

\* The volume a path is given is on the path's device, and its path on the volume
\* names it, unless the volume shared by all was given another root.
FilesInPlace ==
    told'.op = "file" =>
        LET root == vol'[told'.vol].root IN
        root \in DOMAIN at' /\ at'[root] = told'.vol =>
            /\ root \o told'.path = told'.of
            /\ Serial(mounts, root) = Serial(mounts, Asked(mounts, dirs, told'.of))

\* The volumes a scan adds say of themselves what the scan was to leave in.
ScanAgrees ==
    told'.op = "scan" => \A v \in (Len(vol) + 1)..Len(vol') : Plain(mounts, vol'[v].root) =>
        LET says == Loaded(vol'[v], mounts, dirs').says IN
        /\ says.ro => "readonly" \in told'.flags
        /\ says.loop => "loops" \in told'.flags
        /\ says.logical # "none" => "symbols" \in told'.flags

\* Volumes on directories tell what is mounted there, and paths go where they say;
\* left out are stacked mounts, mounts deeper down on their parent's device, and the
\* names and the type of a volume whose root or names were set.
MountsAreTold == AnswersRight /\ NamesRight /\ FilesInPlace /\ ScanAgrees
===============================================================================
