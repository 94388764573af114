----------------------------- MODULE ValueRegistry -----------------------------
(***************************************************************************)
(* A registry of values on a volume (VolumeRegistry, IContainerManager,    *)
(* RRL::parse) and the processes that use it.  A path has two readings: a  *)
(* place in the document of its directory, and a directory of its own.     *)
(* A process keeps the documents it has read under the name it read them   *)
(* by, which need not be the only name of the file.                        *)
(***************************************************************************)
EXTENDS JsonDocument, FiniteSets

CONSTANTS Processes,
          PathsOf,     \* process -> paths it uses, each [dir, frag, whole]: the container and
                       \* the place of the one reading, and the container of the other
          FileOf,      \* container -> its DATA.json
          StoredFiles  \* what the files may hold at first

Containers == DOMAIN FileOf

Paths == UNION {PathsOf[p] : p \in Processes}

Files == {FileOf[c] : c \in Containers}

ASSUME ValuesAssumption ==
    /\ \A q \in Paths : {q.dir, q.whole} \subseteq Containers /\ q.frag \in Seq(Tokens) \ {<<>>}
    /\ \A stored \in StoredFiles :
          /\ DOMAIN stored = Files
          /\ \A f \in Files : stored[f] = Nothing \/ IsTree(stored[f])

VARIABLES files,  \* file -> document, Nothing when there is no file or no JSON in it
          cache,  \* process -> m_containerCache: container -> document
          dirty,  \* process -> the containers whose m_containerDirty is true
          recent  \* the last call

valueVars == <<files, cache, dirty, recent>>

NoContainers == [c \in {} |-> Nothing]

-------------------------------------------------------------------------------

\* readContainer
Readable(k) == files[FileOf[k]]

With(c, k, d) == [x \in DOMAIN c \cup {k} |-> IF x = k THEN d ELSE c[x]]

\* mutant of Cached: what is kept is read again
CachedAgain(c, k) == IF Readable(k) = Nothing THEN c ELSE With(c, k, Readable(k))

\* cacheLoadContainer: only what there is, is kept
Cached(c, k) == IF k \in DOMAIN c \/ Readable(k) = Nothing THEN c ELSE With(c, k, Readable(k))

InCache(c, k) == IF k \in DOMAIN c THEN c[k] ELSE Nothing

InFragment(c, q) == Located(InCache(Cached(c, q.dir), q.dir), q.frag)

\* getOption: the first reading that has something, null included
Answer(c, q) ==
    IF InFragment(c, q) # Nothing THEN Option(InFragment(c, q))
    ELSE Option(InCache(Cached(c, q.whole), q.whole))

AfterGet(c, q) ==
    IF InFragment(c, q) # Nothing THEN Cached(c, q.dir) ELSE Cached(Cached(c, q.dir), q.whole)

-------------------------------------------------------------------------------

ValuesInit ==
    /\ files \in StoredFiles
    /\ cache = [p \in Processes |-> NoContainers]
    /\ dirty = [p \in Processes |-> {}]
    /\ recent = [op |-> "none"]

Did(op, p, q) == recent' = [op |-> op, proc |-> p, path |-> q]

\* getOption, has, get
Get(p, q) ==
    /\ cache' = [cache EXCEPT ![p] = AfterGet(@, q)]
    /\ Did("get", p, q)
    /\ UNCHANGED <<files, dirty>>

\* stat, list, listKeys read the documents of both readings
List(p, q) ==
    /\ cache' = [cache EXCEPT ![p] = Cached(Cached(@, q.dir), q.whole)]
    /\ Did("list", p, q)
    /\ UNCHANGED <<files, dirty>>

\* cacheSaveFragment: a file without an object is written anew, empty, at once
SaveFragment(p, q, v, before) ==
    LET c == Cached(before, q.dir)
        fresh == ~IsObject(InCache(c, q.dir))
        d == IF fresh THEN EmptyObject ELSE c[q.dir]
    IN  /\ files' = IF fresh THEN [files EXCEPT ![FileOf[q.dir]] = EmptyObject] ELSE files
        /\ cache' = [cache EXCEPT ![p] = With(c, q.dir, Put(d, q.frag, Leaf(v)))]
        /\ dirty' = [dirty EXCEPT ![p] = @ \cup {q.dir}]

\* setOption writes the reading with a place in it
Set(p, q, v) ==
    /\ SaveFragment(p, q, v, cache[p])
    /\ Did("set", p, q)

\* remove: has, and then null takes the place of the value
RemoveOption(p, q) ==
    /\ IF Answer(cache[p], q) = Nothing
       THEN /\ cache' = [cache EXCEPT ![p] = AfterGet(@, q)]
            /\ UNCHANGED <<files, dirty>>
       ELSE SaveFragment(p, q, Null, AfterGet(cache[p], q))
    /\ Did("remove", p, q)

\* delTree.  The directory of the first reading is no file, so that reading is passed over;
\* of the other the document leaves the cache, and its file stays.
DelTree(p, q) ==
    /\ cache' = [cache EXCEPT ![p] = [k \in DOMAIN @ \ {q.whole} |-> @[k]]]
    /\ dirty' = [dirty EXCEPT ![p] = @ \ {q.whole}]
    /\ Did("delTree", p, q)
    /\ UNCHANGED files

\* The files after the containers in done were written, in the order of the map
WrittenFiles(p, done) ==
    {new \in [Files -> {cache[p][k] : k \in done} \cup {files[f] : f \in Files}] :
        \A f \in Files :
            LET named == {k \in done : FileOf[k] = f}
            IN  IF named = {} THEN new[f] = files[f] ELSE new[f] \in {cache[p][k] : k \in named}}

\* flush, save: it ends where a file cannot be written.  A container that is dirty and not
\* cached is passed over.
FlushContainers(p, done) ==
    /\ done # {}
    /\ files' \in WrittenFiles(p, done)
    /\ dirty' = [dirty EXCEPT ![p] = @ \ done]
    /\ recent' = [op |-> "flush", proc |-> p, done |-> done]
    /\ UNCHANGED cache

\* cacheClear, and the end of a process, with the next in its place
Forget(p) ==
    /\ cache' = [cache EXCEPT ![p] = NoContainers]
    /\ dirty' = [dirty EXCEPT ![p] = {}]
    /\ recent' = [op |-> "end", proc |-> p]
    /\ UNCHANGED files

ValuesNext ==
    \E p \in Processes :
        \/ \E q \in PathsOf[p] : Get(p, q)
        \/ \E q \in PathsOf[p] : List(p, q)
        \/ \E q \in PathsOf[p], v \in Values : Set(p, q, v)
        \/ \E q \in PathsOf[p] : RemoveOption(p, q)
        \/ \E q \in PathsOf[p] : DelTree(p, q)
        \/ \E done \in SUBSET dirty[p] : FlushContainers(p, done)
        \/ Forget(p)

ValuesSpec == ValuesInit /\ [][ValuesNext]_valueVars

-------------------------------------------------------------------------------

\* A write at r may change what is answered at q.
Overlap(r, q) ==
    \/ r.dir = q.dir /\ (IsAtOrUnder(r.frag, q.frag) \/ IsAtOrUnder(q.frag, r.frag))
    \/ r.dir = q.whole

\* What a process is answered at a path changes only when the process writes at, above or
\* below it, drops the document of it, which brings back what the file has (delTree), or
\* ends; and by another's write to a file that the process has not read.
AnswersChange ==
    \A p \in Processes, q \in Paths :
        Answer(cache[p], q)' # Answer(cache[p], q) =>
            \/ /\ recent'.proc = p
               /\ \/ recent'.op \in {"set", "remove"} /\ Overlap(recent'.path, q)
                  \/ recent'.op = "delTree" /\ recent'.path.whole \in {q.dir, q.whole}
                  \/ recent'.op = "end"
            \/ \E k \in {q.dir, q.whole} \ DOMAIN cache[p] : files'[FileOf[k]] # files[FileOf[k]]

\* The documents a process holds and has no need to write, that are not those of the files
Behind(p) == {k \in DOMAIN cache[p] \ dirty[p] : cache[p][k] # Readable(k)}

\* A document that a process holds and need not write comes to differ from its file only by
\* a write of another process, or of its own under another name of the file: a restart
\* finds everything else that was flushed.
FallsBehind ==
    \A p \in Processes : \A k \in Behind(p)' \ Behind(p) :
        /\ recent'.op \in {"set", "remove", "flush"}
        /\ \/ recent'.proc # p
           \/ \E other \in Containers \ {k} : FileOf[other] = FileOf[k] /\ other \in DOMAIN cache'[p]

\* Values are changed by those who write them, and what was flushed is in the files
\* until somebody else writes them.
AnswersChangeKnowingly ==
    [][UNCHANGED <<files, cache, dirty>> \/ (AnswersChange /\ FallsBehind)]_valueVars
===============================================================================
