---------------------------- MODULE CredentialStore ----------------------------
(***************************************************************************)
(* The file-backed credential cache: FileCredentialManager over            *)
(* DefaultCredentialManager (CredentialManager.cpp).  Every change goes to *)
(* memory first and then rewrites the whole file: the file is truncated    *)
(* when it is opened and filled afterwards, so a crash or a full disk      *)
(* between the two leaves nothing to read.  The file may be shared by      *)
(* several managers, each in a process of its own.                         *)
(*                                                                         *)
(* The order of m_credentials, which only decides which of several usable  *)
(* credentials get() returns, is left open: memory is a set.               *)
(***************************************************************************)
EXTENDS Naturals, FiniteSets

CONSTANTS
    Managers,
    Data,        \* what a credential holds besides its reference
    MaxId,       \* bound on the ids a manager generates
    MaxHeld,     \* bound on the credentials of a manager
    NoManager

ASSUME CredentialAssumption ==
    /\ MaxId \in Nat \ {0} /\ MaxHeld \in Nat
    /\ NoManager \notin Managers

VARIABLES
    mem,      \* m_credentials of each manager
    nextId,   \* m_nextId of each manager
    pc,       \* where a manager stands in saveToDisk
    file,     \* the file at m_path
    fault,    \* how the last save ended: "none", "thrown" (the caller knows), "damaged"
    writer    \* the manager that changed the file last

credentialVars == <<mem, nextId, pc, file, fault, writer>>

\* The number in "cred-<n>"; the store part of a reference is the same for all.
Ids == 1..MaxId

Credential == [id : Ids, data : Data]

File == [state : {"absent", "empty", "torn", "whole"}, held : SUBSET Credential]

Absent == [state |-> "absent", held |-> {}]

Truncated == [state |-> "empty", held |-> {}]

\* Cut short, or with a rest of something else: it does not parse.
Torn == [state |-> "torn", held |-> {}]

Whole(held) == [state |-> "whole", held |-> held]

CredentialTypes ==
    /\ mem \in [Managers -> SUBSET Credential]
    /\ nextId \in [Managers -> 1..(MaxId + 1)]
    /\ pc \in [Managers -> {"down", "ready", "opening", "writing"}]
    /\ file \in File
    /\ fault \in [Managers -> {"none", "thrown", "damaged"}]
    /\ writer \in Managers \cup {NoManager}

CredentialInit ==
    /\ mem = [m \in Managers |-> {}]
    /\ nextId = [m \in Managers |-> 1]
    /\ pc = [m \in Managers |-> "down"]
    /\ file = Absent
    /\ fault = [m \in Managers |-> "none"]
    /\ writer = NoManager

\* loadFromDisk: what is not there or does not parse loads as nothing.
Loaded == IF file.state = "whole" THEN file.held ELSE {}

\* The constructor: a new process counts its ids from one.
Start(m) ==
    /\ pc[m] = "down"
    /\ pc' = [pc EXCEPT ![m] = "ready"]
    /\ mem' = [mem EXCEPT ![m] = Loaded]
    /\ nextId' = [nextId EXCEPT ![m] = 1]
    /\ fault' = [fault EXCEPT ![m] = "none"]
    /\ UNCHANGED <<file, writer>>

\* A process ends, at any point of a save.
Crash(m) ==
    /\ pc[m] # "down"
    /\ pc' = [pc EXCEPT ![m] = "down"]
    /\ UNCHANGED <<mem, nextId, file, fault, writer>>

-------------------------------------------------------------------------------
(* Changes: memory first, then the file.                                   *)

ReplacingByData(held, c) == {o \in held : o # c} \cup {c}   \* mutant of Replacing

\* DefaultCredentialManager::put: the credential of that reference goes first.
Replacing(held, c) == {o \in held : o.id # c.id} \cup {c}

BeginSave(m) == pc[m] = "ready" /\ pc' = [pc EXCEPT ![m] = "opening"]

\* put() of a credential without an id.
PutNew(m) ==
    /\ BeginSave(m)
    /\ nextId[m] \in Ids
    /\ \E d \in Data : mem' = [mem EXCEPT ![m] = Replacing(@, [id |-> nextId[m], data |-> d])]
    /\ Cardinality(mem'[m]) <= MaxHeld
    /\ nextId' = [nextId EXCEPT ![m] = @ + 1]
    /\ UNCHANGED <<file, fault, writer>>

\* put() of a credential the manager handed out, changed.
PutAgain(m) ==
    /\ BeginSave(m)
    /\ \E o \in mem[m], d \in Data :
        mem' = [mem EXCEPT ![m] = Replacing(@, [o EXCEPT !.data = d])]
    /\ UNCHANGED <<nextId, file, fault, writer>>

RemoveUnsaved(m) ==                  \* mutant of Remove
    /\ pc[m] = "ready"
    /\ \E i \in Ids : mem' = [mem EXCEPT ![m] = {o \in @ : o.id # i}]
    /\ UNCHANGED <<nextId, pc, file, fault, writer>>

Remove(m) ==
    /\ BeginSave(m)
    /\ \E i \in Ids : mem' = [mem EXCEPT ![m] = {o \in @ : o.id # i}]
    /\ UNCHANGED <<nextId, file, fault, writer>>

Clear(m) ==
    /\ BeginSave(m)
    /\ mem' = [mem EXCEPT ![m] = {}]
    /\ UNCHANGED <<nextId, file, fault, writer>>

Flush(m) ==
    /\ BeginSave(m)
    /\ UNCHANGED <<mem, nextId, file, fault, writer>>

-------------------------------------------------------------------------------
(* saveToDisk.                                                             *)

\* The file cannot be opened: an exception, with memory already changed.
OpenFails(m) ==
    /\ pc[m] = "opening"
    /\ pc' = [pc EXCEPT ![m] = "ready"]
    /\ fault' = [fault EXCEPT ![m] = "thrown"]
    /\ UNCHANGED <<mem, nextId, file, writer>>

\* Opening truncates.
OpenFile(m) ==
    /\ pc[m] = "opening"
    /\ pc' = [pc EXCEPT ![m] = "writing"]
    /\ file' = Truncated
    /\ writer' = m
    /\ UNCHANGED <<mem, nextId, fault>>

Ends(m, outcome) ==
    /\ pc[m] = "writing"
    /\ pc' = [pc EXCEPT ![m] = "ready"]
    /\ fault' = [fault EXCEPT ![m] = outcome]
    /\ writer' = m
    /\ UNCHANGED <<mem, nextId>>

Write(m) ==
    /\ Ends(m, "none")
    /\ file' = Whole(mem[m])

\* Over what another manager has written since the file was truncated, the
\* text may leave a rest that does not parse.
WriteOver(m) ==
    /\ Ends(m, "damaged")
    /\ file \notin {Truncated, Whole(mem[m])}
    /\ file' = Torn

\* The disk is full: nobody looks at the state of the stream.
WriteShort(m) ==
    /\ Ends(m, "damaged")
    /\ file' \in {file, Torn}

\* reload(): nextId stays.
Reload(m) ==
    /\ pc[m] = "ready"
    /\ mem' = [mem EXCEPT ![m] = Loaded]
    /\ UNCHANGED <<nextId, pc, file, fault, writer>>

CredentialNext ==
    \E m \in Managers :
        \/ Start(m) \/ Crash(m)
        \/ PutNew(m) \/ PutAgain(m) \/ Remove(m) \/ Clear(m) \/ Flush(m)
        \/ OpenFails(m) \/ OpenFile(m) \/ Write(m) \/ WriteOver(m) \/ WriteShort(m)
        \/ Reload(m)

CredentialSpec == CredentialInit /\ [][CredentialNext]_credentialVars

-------------------------------------------------------------------------------
(* Properties.                                                             *)

\* A reference names one credential, in memory and in the file, whatever was
\* put, put again, saved and loaded by whom (put, CredentialManager.cpp:188).
RefsAreUnique ==
    /\ \A m \in Managers : \A a, b \in mem[m] : a.id = b.id => a = b
    /\ \A a, b \in Loaded : a.id = b.id => a = b

\* A manager at rest that changed the file last, and whose last save neither
\* threw nor was damaged, has nothing to lose: a restart or a reload would find
\* exactly the credentials it holds, whatever other processes did before
\* (saveToDisk after every change, CredentialManager.cpp:365-389).
RestartFindsMemory ==
    \A m \in Managers :
        pc[m] = "ready" /\ writer = m /\ fault[m] = "none" => Loaded = mem[m]

===============================================================================
