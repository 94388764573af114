-------------------------------- MODULE MCMedia --------------------------------
(***************************************************************************)
(* What bytes come from and how they are reached: the devices under        *)
(* volumes, a volume on one of them (exFAT), one over an archive, those    *)
(* over the directories of the machine, the guard before a volume, and the *)
(* readers.  They share no state here, so that one of them moves in a      *)
(* behaviour and the others stay as they began.                            *)
(***************************************************************************)
EXTENDS BlockDevices, VolumeGuard, ZipVolume, TLC

CONSTANTS a, NoName,                                       \* exFAT
          d1, d2, c1, c2                                   \* devices

VARIABLES part,
          mem, disk, root, index, stream, job, ended,      \* exFAT
          kind, la, dec, rev, due, given,                  \* readers
          mounts, dirs, soft, vol, at, list, refused, real, told    \* directories

exfatVars == <<mem, disk, root, index, stream, job, ended>>
deviceVars == vars
readerVars == <<kind, la, dec, rev, due, given>>
directoryVars == <<mounts, dirs, soft, vol, at, list, refused, real, told>>

-------------------------------------------------------------------------------
(* exFAT: six clusters of four slots; the root has its first slots taken.  *)

Names == {a}
LastCluster == 6
PerCluster == 4
MaxBlocks == 2
Heap2To6 == 2..LastCluster

Blanks == [type |-> 0, name |-> NoName, first |-> 0, blocks |-> 0]
Table(chains) == [c \in Heap2To6 |-> IF c \in DOMAIN chains THEN chains[c] ELSE 0]
Heap(f) == [c \in Heap2To6 |-> [i \in 1..PerCluster |->
               IF c \in DOMAIN f THEN [Blanks EXCEPT !.type = f[c][i]] ELSE Blanks]]

EndMark == 268435448
BitmapSlot == 129
DeletedSlot == 229
NameSlot == 193

\* The bitmap in cluster 2 and the root behind it, with one entry; the root with
\* deleted slots and one left; a root between free clusters, with a single slot left.
Images == {
    [fat |-> Table(2 :> EndMark @@ 3 :> EndMark), bitmap |-> {2, 3}, root |-> 3,
     heap |-> Heap(2 :> <<1, 1, 1, 1>> @@ 3 :> <<BitmapSlot, 0, 0, 0>>)],
    [fat |-> Table(2 :> EndMark @@ 3 :> 4 @@ 4 :> EndMark), bitmap |-> {2, 3, 4}, root |-> 3,
     heap |-> Heap(2 :> <<1, 1, 1, 1>> @@ 3 :> <<BitmapSlot, DeletedSlot, DeletedSlot, DeletedSlot>>
                   @@ 4 :> <<NameSlot, NameSlot, 0, 0>>)],
    [fat |-> Table(2 :> EndMark @@ 4 :> EndMark), bitmap |-> {2, 4}, root |-> 4,
     heap |-> Heap(2 :> <<1, 1, 1, 1>> @@ 4 :> <<BitmapSlot, NameSlot, NameSlot, 0>>)]}

Exfat == INSTANCE ExfatVolume WITH dev <- disk, last <- ended

-------------------------------------------------------------------------------
(* Two devices on a file of two places, and two ext4 volumes.              *)

Window(k, o, l, r, c) == [kind |-> k, off |-> o, len |-> l, ro |-> r, cached |-> c]

TwoDevices == {d1, d2}
TwoVolumes == {c1, c2}
FiveWindows == {Window("file", 0, 0, FALSE, TRUE), Window("file", 1, 0, FALSE, FALSE),
            Window("mmap", 1, 0, FALSE, FALSE), Window("loop", 0, 0, FALSE, FALSE),
            Window("mem", 0, 1, TRUE, FALSE)}
OneMark == {"ext"}
BlankFiles == {[p \in 0..1 |-> Blank]}

Interchangeable == Permutations(Devices) \cup Permutations(Volumes)

\* Volumes are open, or a device has a cache, or one alone was asked what it holds.
Narrow ==
    \/ \A c \in Volumes : chan[c].dev = NoDevice /\ \A d \in Devices : info[d] = NoInfo
    \/ \A d \in Devices : dev[d] # Closed => ~dev[d].cached /\ info[d] = NoInfo
    \/ Cardinality({d \in Devices : dev[d] # Closed}) = 1 /\ \A c \in Volumes : chan[c].dev = NoDevice

-------------------------------------------------------------------------------
(* Archives with a file, directories with and without an entry, two records *)
(* of a name, two end records, a record cut off, and no archive at all.     *)

Rec(p, s, m, n, pl) == [path |-> p, slash |-> s, method |-> m, size |-> n, place |-> pl, whole |-> TRUE]
Cut(p) == [Rec(p, FALSE, "other", 2, 2) EXCEPT !.whole = FALSE]
EndOf(records) == [records |-> records, fits |-> TRUE]
Content(v, n) == [value |-> v, size |-> n]
Headers == 1 :> Content("old", 2) @@ 2 :> Content("new", 2) @@ 3 :> Content("void", 0)

FiveArchives == {
    [ends |-> <<EndOf(<<Rec(<<"a">>, FALSE, "stored", 2, 1), Rec(<<"d">>, TRUE, "stored", 0, 9),
                        Rec(<<"d", "b">>, FALSE, "deflated", 2, 2)>>)>>, headers |-> Headers],
    [ends |-> <<EndOf(<<Rec(<<"a">>, FALSE, "stored", 2, 1), Rec(<<"a">>, FALSE, "stored", 2, 2),
                        Rec(<<"d", "b">>, FALSE, "stored", 0, 3)>>)>>, headers |-> Headers],
    [ends |-> <<EndOf(<<Rec(<<"a">>, FALSE, "stored", 2, 1)>>),
                EndOf(<<Rec(<<"a">>, FALSE, "deflated", 2, 2), Rec(<<"a">>, TRUE, "stored", 0, 9)>>)>>,
     headers |-> Headers],
    [ends |-> <<EndOf(<<Rec(<<"a">>, TRUE, "stored", 0, 9), Cut(<<"d">>)>>)>>,
     headers |-> (2 :> Content("new", 1))],
    [ends |-> <<>>, headers |-> <<>>]}

Held == {"old", "new", "void"}
FourPaths == {<<>>, <<"a">>, <<"d">>, <<"d", "b">>}
ThreeOffsets == {0, 1, -2}
ThreeLengths == {0, 1, 7}

-------------------------------------------------------------------------------
(* Six bytes, of which the second and third are one character.             *)

Kinds == {"bytes", "text", "backward"}
N == 6
Starts == {1, 2, 4, 5, 6}
Newlines == {1, 4, 5}
Capacities == {0, 1, 3}
Block == 2
Counts == {1, 2, 4}

Reading == INSTANCE Readers WITH last <- given

-------------------------------------------------------------------------------
(* A disk with directories of it bound elsewhere, an image of a disc on a   *)
(* loop device, and an overlay.                                             *)

Tree(n, c, d) == [serial |-> n, class |-> c, device |-> d, type |-> "plain", node |-> TRUE,
                  loop |-> FALSE, uuid |-> <<>>, label |-> <<>>]
Fs == [disk |-> [Tree(1, "harddisk", "sda") EXCEPT !.uuid = <<"u1">>],
       iso |-> [Tree(2, "harddisk", "loop0") EXCEPT !.uuid = <<"u2">>, !.loop = TRUE],
       over |-> [Tree(3, "other", "overlay") EXCEPT !.type = "overlay", !.node = FALSE]]
First == [tree |-> "disk", sub |-> <<>>, opt |-> "remount-ro"]
Mountings == {[tree |-> "disk", sub |-> <<"n">>, opt |-> "rw"], [tree |-> "iso", sub |-> <<>>, opt |-> "ro"],
              [tree |-> "over", sub |-> <<>>, opt |-> "rw"]}
Points == {<<"m">>, <<"m", "n">>, <<"tmp", "t">>}
Dirs == {"disk"} \X {<<>>, <<"m">>, <<"n">>, <<"m", "n">>, <<"tmp">>, <<"tmp", "t">>}
        \cup {<<"iso", <<>>>>, <<"iso", <<"n">>>>, <<"over", <<>>>>}
Files == {<<"iso", <<"n", "f">>>>, <<"disk", <<"m", "f">>>>}
Configs == {<<"disk", <<"n">>>>, <<"over", <<>>>>}
Targets == {<<>>, <<"m", "n", "f">>, <<"m", "f">>, <<"q", "r", "f">>}
NewNames == {<<"new">>}
SystemDirs == {"tmp"}
MaxMounts == 3
MaxVolumes == 2

OnDirectories == INSTANCE MountedVolumes

\* One of these at a time: a manager's list, a transformer, two volumes, directories
\* that were made, a name that was set, a volume that has looked; three mounts only
\* while no volume has looked, and one label or uuid.
Single ==
    LET looked == \E v \in DOMAIN vol : vol[v].loaded \/ real[v].moved
        used == <<list # <<>>, refused # {}, Len(vol) > 1, dirs # Dirs, at # <<>> \/ looked,
                  \E p \in DOMAIN soft : soft[p] # <<>>>>
    IN
    /\ Cardinality({i \in DOMAIN used : used[i]}) <= 1
    /\ Len(list) <= 2
    /\ looked => Len(mounts) < MaxMounts
    /\ Len(mounts) = MaxMounts => \A i \in DOMAIN mounts : mounts[i].point # <<"tmp", "t">>
    /\ \A v \in DOMAIN vol :
          vol[v].cached.label = {} /\ (real[v].moved => vol[v].cached.uuid = {} /\ mounts[Len(mounts)].tree # "iso")

-------------------------------------------------------------------------------
(* A guard before a medium, two users and those who need not log in.       *)

OneType == {"volume"}
TwoUuids == {"u1", "u2"}
TwoNames == {"usb", "url"}
AllNames == {"ann", "bob", "default"}
UpTo50 == 0..50
ThreePaths == {<<"f">>, <<"d">>, <<"d", "f">>}
\* Each as it is resolved; two without the slash at the start; one by way of the directory.
SixTexts == {<<"", "f">>, <<"", "d">>, <<"", "d", "f">>, <<"f">>, <<"d", "", "f">>, <<"", "d", "..", "f">>}
OnTheseTexts == Actions \X SixTexts
At(f, d, df) == [n \in ThreePaths |-> IF n = <<"f">> THEN f ELSE IF n = <<"d">> THEN d ELSE df]
TwoLayouts == {At("one", "dir", "two"), At("one", "none", "none")}
Medium(u) == [uuid |-> u, label |-> "usb", url |-> "url"]
TwoMedia == {Medium("u1"), Medium("u2")}
SecondUuid == {"u2"}
OneLocal == {<<"f">>}
Nowhere == [type |-> "", uuid |-> "", name |-> ""]
On(u) == [type |-> "volume", uuid |-> u, name |-> "usb"]
Anyone == [type |-> "anonymous", name |-> "default", realm |-> Nowhere, login |-> FALSE]
OneAuto == {Anyone}
TwoUsers == {"ann", "bob"}
OneSubject == {{[type |-> "user", name |-> "ann", realm |-> On("u2"), login |-> TRUE], Anyone}}
TextEndings == [t \in {"d", "f"} |-> IF t = "f" THEN {".txt"} ELSE {}]
All == [kind |-> "all"]
OnPath(path) == [kind |-> "path", path |-> path]
NamedLike(end) == [kind |-> "end", end |-> end]
Named(name) == [kind |-> "name", name |-> name]
To(t, n, r, action, resource, e) ==
    [type |-> t, name |-> n, realm |-> r, effect |-> e,
     pattern |-> [action |-> action, resource |-> resource]]
\* All may list; ann does everything on the first medium but take away what is in the
\* directory, or the directory; bob removes on any medium, but on the first nothing
\* that is named like a text; there he writes what is said to be in the directory, and
\* reads the file, if that is all that is said.
OnePolicy == {{To("anonymous", "default", Nowhere, <<"list">>, All, "Allow"),
              To("user", "ann", On("u1"), <<"*">>, OnPath(<<"**">>), "Allow"),
              To("user", "ann", On("u1"), <<"delete">>, OnPath(<<"d", "**">>), "Deny"),
              To("user", "bob", Nowhere, <<"delete">>, All, "Allow"),
              To("user", "bob", On("u1"), <<>>, NamedLike(".txt"), "Deny"),
              To("user", "bob", On("u1"), <<"write">>, OnPath(<<"d", "**">>), "Allow"),
              To("user", "bob", On("u1"), <<"read">>, Named("f"), "Allow")}}

-------------------------------------------------------------------------------

MediaInit ==
    /\ part \in {"exfat", "devices", "archive", "readers", "directories", "guard"}
    /\ OnDirectories!Init
    /\ GuardInit /\ (part # "guard" => inner.medium.uuid = "u1" /\ nodes[<<"d">>] = "none")
    /\ Exfat!Init /\ (part # "exfat" => root = 3 /\ disk.bitmap = {2, 3})
    /\ Init
    /\ ArchiveInit /\ (part # "archive" => archive.ends = <<>>)
    /\ Reading!Init /\ (part # "readers" => kind = "backward" /\ la.cap = 0)

MediaNext ==
    \/ part = "exfat" /\ Exfat!Next /\ UNCHANGED <<part, deviceVars, archiveVars, readerVars, directoryVars, guardVars>>
    \/ part = "devices" /\ Next /\ UNCHANGED <<part, exfatVars, archiveVars, readerVars, directoryVars, guardVars>>
    \/ part = "archive" /\ ArchiveNext /\ UNCHANGED <<part, exfatVars, deviceVars, readerVars, directoryVars, guardVars>>
    \/ part = "readers" /\ Reading!Next /\ UNCHANGED <<part, exfatVars, deviceVars, archiveVars, directoryVars, guardVars>>
    \/ part = "directories" /\ OnDirectories!Next /\ UNCHANGED <<part, exfatVars, deviceVars, archiveVars, readerVars, guardVars>>
    \/ part = "guard" /\ GuardNext /\ UNCHANGED <<part, exfatVars, deviceVars, archiveVars, readerVars, directoryVars>>

allVars == <<part, exfatVars, deviceVars, archiveVars, readerVars, directoryVars, guardVars>>

MediaSpec == MediaInit /\ [][MediaNext]_allVars

\* What follows a damage is left out, and so is what follows a lost place.
Explored ==
    /\ part = "exfat" => Exfat!Sound
    /\ part = "devices" => Narrow
    /\ part = "readers" => Reading!InOrder
    /\ part = "directories" => Single

\* The last calls of an exFAT volume, a directory's and a guard are left out.
MediaView == <<part, mem, disk, root, index.entries, stream, job, deviceVars, archiveVars, readerVars,
               mounts, dirs, soft, vol, at, list, refused, real, inner, realm, active, lent, grants, nodes>>

-------------------------------------------------------------------------------
(* The properties of the parts, which those modules state; those of the    *)
(* devices, FlushedIsKept, of the guard, OnlyAllowedCalls, and of archives, *)
(* ShowsWhatItHolds, are theirs as they are.                               *)

\* exFAT: files are damaged and clusters lost only by steps that are known.
OnlyKnownStepsDamage == [][part = "exfat" => Exfat!OnlyKnownStepsDamage]_allVars

\* Readers: a reader stays where its user takes it to be.
StaysInPlace == [][part = "readers" => Reading!StaysInPlace]_allVars

\* Directories: volumes tell what is mounted there, and paths go where they say.
MountsAreTold == [][part = "directories" => OnDirectories!MountsAreTold]_allVars
===============================================================================
