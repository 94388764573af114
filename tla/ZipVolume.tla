------------------------------- MODULE ZipVolume -------------------------------
(***************************************************************************)
(* A volume over an archive (ZipVolume).  The central directory is read    *)
(* once, when the volume is made; what a file holds is read from the       *)
(* device each time, which another program may have written meanwhile.     *)
(***************************************************************************)
EXTENDS Integers, Sequences, FiniteSets

CONSTANTS Archives,     \* what may be in the file: [ends, headers]
          Values,       \* what files may hold
          Paths,        \* paths that calls name; <<>> is the root
          ReadOffsets,  \* where a reading in parts begins: before the end if negative
          Lengths,      \* how much it asks for, 0 for all
          SizeMax,      \* bound: the largest size_t
          Throws, Nothing, ProcessEnds

\* An archive has in its last bytes the end records ends, from the first to the last,
\* each with its directory: [records, fits]; and at places of the file the headers, with
\* what is behind them: [value, size].  A record is [path, slash, method, size, place, whole].

VARIABLES archive,   \* what is in the file
          entries,   \* m_entries: <<path, slash>> -> record
          mounted,   \* the archive that the directory was read from
          shown      \* the last call and what came of it

archiveVars == <<archive, entries, mounted, shown>>

IsList(s) == s \in Seq({s[i] : i \in DOMAIN s})

Contents == [value : Values, size : 0..SizeMax]

Parts == [value : Values \cup {Nothing}, from : 0..SizeMax, to : 0..SizeMax]

\* Paths are sequences of names, and calls ask for sizes that there are; that a call
\* throws, ends the process or finds nothing is no other answer.
ASSUME ArchivesAssumption ==
    /\ SizeMax \in Nat /\ Lengths \subseteq 0..SizeMax /\ ReadOffsets \subseteq Int
    /\ Throws \notin Contents \cup Parts /\ Nothing \notin {"file", "directory"}
    /\ \A p \in Paths : IsList(p)
    /\ \A a \in Archives :
          /\ IsList(a.ends)
          /\ \A x \in DOMAIN a.headers : a.headers[x] \in Contents
          /\ \A e \in DOMAIN a.ends :
                LET records == a.ends[e].records IN
                /\ IsList(records)
                /\ \A k \in DOMAIN records : IsList(records[k].path) /\ records[k].slash \in BOOLEAN
                /\ ProcessEnds \notin {records[k].path : k \in DOMAIN records}

-------------------------------------------------------------------------------
(* parseZip                                                                *)

Least(S) == CHOOSE k \in S : \A j \in S : k <= j

Greatest(S) == CHOOSE k \in S : \A j \in S : k >= j

\* The records up to the first that does not fit into the directory
WholeRecords(records) ==
    {k \in DOMAIN records : \A j \in 1..k : records[j].whole}

Name(r) == <<r.path, r.slash>>

\* mutant of Indexed: of two records with one name the first stays
IndexedFirst(records) ==
    [n \in {Name(records[k]) : k \in WholeRecords(records)} |->
        records[Least({k \in WholeRecords(records) : Name(records[k]) = n})]]

\* m_entries[entry.name] = entry
Indexed(records) ==
    [n \in {Name(records[k]) : k \in WholeRecords(records)} |->
        records[Greatest({k \in WholeRecords(records) : Name(records[k]) = n})]]

\* The tail is looked through from its beginning: the first end record is believed.
Parsed(a) ==
    IF a.ends = <<>> \/ ~a.ends[1].fits THEN Indexed(<<>>) ELSE Indexed(a.ends[1].records)

-------------------------------------------------------------------------------
(* What a path is                                                          *)

\* findEntry of a path without and with its slash
HasFileName(p) == <<p, FALSE>> \in DOMAIN entries

HasDirName(p) == <<p, TRUE>> \in DOMAIN entries

Exists(p) == p = <<>> \/ HasFileName(p) \/ HasDirName(p)

\* A name is that of a directory by its slash.
IsFile(p) == HasFileName(p)

IsDirectory(p) == p = <<>> \/ HasDirName(p)

\* stat: the root has no entry
Stat(p) ==
    IF HasFileName(p) THEN "file" ELSE IF HasDirName(p) THEN "directory" ELSE Nothing

-------------------------------------------------------------------------------
(* readDir_inplace                                                         *)

IsPrefix(p, q) == Len(p) <= Len(q) /\ SubSeq(q, 1, Len(p)) = p

Parent(q) == SubSeq(q, 1, Len(q) - 1)

\* Entries below p; in the order of the map a directory is before what is in it.
Below(p) == {n \in DOMAIN entries : IsPrefix(p, n[1]) /\ n[1] # p}

\* resolve makes the directories on the way, but not the last one: where that has no
\* entry, the node is put into a null pointer.
Unparented(p) ==
    {n \in Below(p) : /\ Parent(n[1]) # p
                      /\ \A m \in Below(p) : m[1] # Parent(n[1])}

Listing(p, recursive) ==
    IF recursive /\ Unparented(p) # {} THEN {ProcessEnds}
    ELSE {n[1] : n \in {m \in Below(p) : recursive \/ Parent(m[1]) = p}}

-------------------------------------------------------------------------------
(* readFile, and the streams, which read all of it                         *)

\* decompressEntry: a reading of no bytes fails on every device, so that an empty file
\* that is only stored cannot be read.
Decompressed(r) ==
    IF r.place \notin DOMAIN archive.headers THEN Throws
    ELSE LET h == archive.headers[r.place]
         IN  IF r.method = "stored" THEN IF r.size = 0 THEN Throws ELSE [value |-> h.value, size |-> r.size]
             ELSE IF r.method = "deflated" /\ h.size = r.size THEN [value |-> h.value, size |-> r.size]
             ELSE Throws

\* The part from off on of len bytes: a sum of size_t wraps, and a range that ends before
\* it begins is refused by the vector.
Part(content, off, len) ==
    LET from == IF off >= 0 THEN off ELSE IF content.size + off + 1 < 0 THEN 0 ELSE content.size + off + 1
        sum == (from + len) % (SizeMax + 1)
        to == IF len > 0 /\ sum < content.size THEN sum ELSE content.size
    IN  IF from >= content.size THEN [value |-> Nothing, from |-> 0, to |-> 0]
        ELSE IF to < from THEN Throws
        ELSE [value |-> content.value, from |-> from, to |-> to]

ReadPart(content, off, len) == IF content = Throws THEN Throws ELSE Part(content, off, len)

\* readFile refuses what is not a file.
Read(p, off, len) ==
    IF ~HasFileName(p) THEN Throws ELSE ReadPart(Decompressed(entries[<<p, FALSE>>]), off, len)

-------------------------------------------------------------------------------

Called(call, p, result) == shown' = [call |-> call, path |-> p, result |-> result]

ArchiveInit ==
    /\ archive \in Archives
    /\ entries = Parsed(archive)
    /\ mounted = archive
    /\ shown = [call |-> "none", path |-> <<>>, result |-> Nothing]

\* exists, isFile, isDirectory and stat together
Ask(p) ==
    /\ Called("ask", p, [exists |-> Exists(p), file |-> IsFile(p), dir |-> IsDirectory(p), stat |-> Stat(p)])
    /\ UNCHANGED <<archive, entries, mounted>>

ReadDir(p, recursive) ==
    /\ Called(IF recursive THEN "tree" ELSE "list", p, Listing(p, recursive))
    /\ UNCHANGED <<archive, entries, mounted>>

ReadFile(p, off, len) ==
    /\ Called("read", p, [off |-> off, len |-> len, part |-> Read(p, off, len)])
    /\ UNCHANGED <<archive, entries, mounted>>

\* writeFile, createDirectory, remove..., copy..., move..., rename, newOutputStream, newWriter
Change(p) ==
    /\ Called("change", p, Throws)
    /\ UNCHANGED <<archive, entries, mounted>>

\* Another program writes the file.
Rewrite(a) ==
    /\ archive' = a
    /\ Called("rewrite", <<>>, Nothing)
    /\ UNCHANGED <<entries, mounted>>

\* Another volume is made of the device.
Mount ==
    /\ entries' = Parsed(archive)
    /\ mounted' = archive
    /\ Called("mount", <<>>, Nothing)
    /\ UNCHANGED archive

ArchiveNext ==
    /\ shown.call = "tree" => shown.result # {ProcessEnds}
    /\ \/ \E p \in Paths : Ask(p) \/ Change(p)
       \/ \E p \in Paths, recursive \in BOOLEAN : ReadDir(p, recursive)
       \/ \E p \in Paths, off \in ReadOffsets, len \in Lengths : ReadFile(p, off, len)
       \/ \E a \in Archives : Rewrite(a)
       \/ Mount

ArchiveSpec == ArchiveInit /\ [][ArchiveNext]_archiveVars

-------------------------------------------------------------------------------

\* The records of the archive, as its last end record has them
Records == IF archive.ends = <<>> THEN <<>> ELSE archive.ends[Len(archive.ends)].records

\* The record that was written last of a file
Newest(p) ==
    {k \in DOMAIN Records : /\ Name(Records[k]) = <<p, FALSE>>
                            /\ \A j \in DOMAIN Records : Name(Records[j]) = <<p, FALSE>> => j <= k}

\* The part of a file that is asked for; before the beginning is at the beginning.
Asked(content, off, len) ==
    LET from == IF off >= 0 THEN off ELSE Greatest({0, content.size + 1 + off})
    IN  [value |-> content.value,
         bytes |-> {b \in 0..(content.size - 1) : b >= from /\ (len = 0 \/ b < from + len)}]

Given(part) ==
    [value |-> part.value, bytes |-> part.from..(part.to - 1)]

ReadIsRight(p, off, len, part) ==
    \A k \in Newest(p) :
        LET h == archive.headers[Records[k].place]
        IN  IF part = Throws THEN h.size = 0 \/ h.size + len > SizeMax
            ELSE Given(part) = Asked(h, off, len) \/ (Given(part).bytes = {} /\ Asked(h, off, len).bytes = {})

\* The file is as it was when the volume was made, nothing in its tail only looks like an
\* end record, and its records are whole and tell where a file is, how large and how packed.
Plain ==
    /\ archive = mounted /\ Len(archive.ends) = 1 /\ archive.ends[1].fits
    /\ WholeRecords(Records) = DOMAIN Records
    /\ \A k \in DOMAIN Records :
          LET r == Records[k] IN
          \/ r.slash
          \/ /\ r.place \in DOMAIN archive.headers /\ r.size = archive.headers[r.place].size
             /\ r.method \in {"stored", "deflated"}

ReadsShow ==
    shown'.call = "read" =>
        ReadIsRight(shown'.path, shown'.result.off, shown'.result.len, shown'.result.part)

ListingsShow ==
    /\ shown'.call \in {"list", "tree"} /\ shown'.result # {ProcessEnds} =>
          \A k \in DOMAIN Records :
              LET q == Records[k].path
              IN  (IF shown'.call = "list" THEN q # <<>> /\ Parent(q) = shown'.path
                   ELSE IsPrefix(shown'.path, q) /\ q # shown'.path) <=> q \in shown'.result
    /\ shown'.call = "tree" /\ shown'.result = {ProcessEnds} =>
          \E k \in DOMAIN Records : Len(Records[k].path) > 1 /\ ~Exists(Parent(Records[k].path))

AnswersShow ==
    shown'.call = "ask" /\ shown'.path # <<>> =>
        /\ shown'.result.exists <=> \E k \in DOMAIN Records : Records[k].path = shown'.path
        /\ shown'.result.exists <=> shown'.result.stat # Nothing

\* A plain archive shows what it holds: what a reading gives is the part asked for of the
\* record written last, and it throws only for an empty file and a range whose end is
\* beyond the largest size; what is listed exists, and what exists is listed in its
\* directory if that exists; stat tells a path as exists does, but for the root.
ShowsWhatItHolds == [][Plain' => ReadsShow /\ ListingsShow /\ AnswersShow]_archiveVars
===============================================================================
