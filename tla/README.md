# bas-cpp in TLA+

Models, model-checking runs and machine-checked proofs about `bas-cpp`, a C++
library of storage volumes, streams and access control with a few applications
over it. Every definition here is translated from the source under `src/`;
`PROJECT.json` names, for every definition that models code, the file and the
lines it stands for.

1. [The system](#1-the-system): its components, what each keeps and does, what is hard about it
2. [The modules](#2-the-modules): how each model corresponds to the code
3. [The runs](#3-the-runs): what TLC checks, with which bounds and why they are enough
4. [The proofs](#4-the-proofs): what holds for every value of the constants, and by which argument
5. [Where documents and code disagree](#5-where-documents-and-code-disagree)
6. [What is not modelled](#6-what-is-not-modelled)
7. [The plan](#7-the-plan)

To repeat a run or a proof, in this directory:

    tlc -workers 2 -config SecuritySession.cfg MCSecuritySession
    tlapm SecuritySessionProofs.tla

## 1. The system

The components modelled here start no threads and share nothing between
threads; locks are found in the log buffer, in observable properties and around
the table of open ext4 devices only. What interleaves is of another kind. A login
prompt waits for a person while user stores change; several processes share one
file in the user's home; a process ends between any two writes; a stream on a
volume is open while other calls change the same volume; two devices have windows
on one file; somebody mounts a disk while a volume is in use. Those are the
behaviours the models keep.

### Access control (`src/src/bas/security`, 9.1k lines)

| Component | State | Operations | Uses |
|---|---|---|---|
| `Realm`, `Identity` | none, values | `match`, `same`, `scopedEqual`, `storageKey`, reference equality, parsing and formatting | |
| `AccessPolicy`, `ACResolvePolicy`, `PermissionMatcher` | none | whether entries allow or deny a permission, which permissions a pattern takes in | realms |
| `SecurityManager` | active identities, suppression of auto-login, the open prompt | `start`, `activate`, four logouts, `authenticate`, `requestPermission`, `login`, `activateCachedCredentials` | all the others |
| `IdentityService` (anonymous, store) | the user store behind it | log in with a credential, or ask for one | `UserStore` |
| `IdentityRegistry` | realm slots bound to services, services without a slot, a cached list of the realms | `add`, two `remove`, `load`, `list`, find by realm, resolve a hint | realms |
| `CredentialManager` | credentials kept by the client, a counter of ids, a file | `put`, `get`, `list`, `remove`, `clear`, `flush`, `reload` | the file |
| `PolicyStore` | ACLs, bindings, grants of a store; one store per realm and a global one; a file per store | add, remove and update each; what is in force for an identity; `clear`, `load`, `save` | realms, files |
| `UserStore` | users with keys and roles, a file or a registry behind them | add, change, remove, verify a password, `load`, `save`; the commands of the shell | a file, a registry of values |
| `VolumeAccessor` | the realm it was made for, a subject lent to it | every operation of a volume, behind a permission | `SecurityManager`, a volume |
| the tanks game | two tanks, a screen, a log | keys, dialogs, resizes; a batch mode | `SecurityManager` and what it uses |
| `cmd` | none of their own | command lines | all |

What makes them correct. A session never mixes two logins of one realm. An
anonymous principal outlives logins. What is allowed is allowed by the session
as it is, not as it was before the login a request performed. A replayed or
typed credential opens a session only for an account that is good at that
moment. A request returns. The registry answers a realm with the service bound
to it, in whatever order a hash map is walked. What was put into a cache, a user
store or a policy is found after a restart, unless the caller was told otherwise.
A password stays one until somebody changes it, and a replaced one does not come
back. Taking rights away gives none. Policies of devices do not mix. What a guard
lets through was allowed to the one it is done for, for what the call was given.

What is hard. Realm comparison is not transitive (`Realm.cpp:66`), and three
different comparisons decide three different things. `requestPermission` and
`login` loop over services and cached credentials, change the session in the
loop and read it again. The prompt returns to a store that has changed. Every
file is truncated when it is opened and written afterwards, without looking at
the stream; a store that has not seen the last change of another writes it over.

### Volumes (`src/src/bas/volume`, 14.5k lines)

| Component | State | Operations | Uses |
|---|---|---|---|
| `Volume`, `VolumeFile`, local volumes | none beyond the operating system's | list, stat, read, write, append, copy, move, rename, remove | system calls |
| mounts (`LocalVolume`, `mountinfo`, `VolumeManager`) | what a volume found out about its mount; a volume per root; the manager's list | find the volume of a path, ask its device and names, scan the mount table | the mount table |
| block devices (`dev`) | an open file, mapping or array, a cache, what was found out about the contents | read and write at an offset, flush, close, probe | the file, another device |
| FAT32 clusters | allocation table in memory, marks of what is to be written, the hint where to look for free clusters; the table on the device | `get`, `set`, `flushDirty`, `allocateCluster`, `allocateClusterChain`, `findContiguousFreeRun`, `freeClusterChain`, `reallocClusters` | the device |
| FAT32 volume | index of paths to entries and their clusters; directory entries on the device | write, remove, create and remove directories, copy, move, rename, list | clusters |
| FAT32 streams | a buffer, a position, a list of clusters | write, flush, close; append; read | volume, clusters |
| exFAT | bitmap, table, index; all three on the device | as FAT32 | the device |
| ext4 | a handle of libext2fs per call, three caches; a stream with a handle of its own | as `Volume` | libext2fs, a device |
| ZIP | a directory read once | list, stat, read | the archive |
| Overlay | a stack of volumes | as `Volume`, reading from the top down and writing to the top | volumes |

What makes them correct. Files do not share clusters and keep their chains.
Clusters are not lost. A flush writes all that changed. What was flushed is there
after a restart. What a volume shows from its index or caches is what it would
show after a restart. A call on a volume changes no file it was not asked
to change; a file that was to be moved is at its source or at its destination,
whatever failed; an overlay writes to its top layer only. A volume tells the
device and the names of what is mounted where it stands.

What is hard. An allocation may fail half-way, with clusters already taken. The
table, the entries and the index are three copies of one fact, written at
different times. A file is moved when it does not fit where it is. The search
for free clusters wraps around, and looks behind the end of the table. Names are
shortened, and two may become one. An overlay decides on what its layers show
together and acts on one of them; a move or a copy is several operations of the
system, each of which may fail, and what is written last may be lost after the writing
was found good. Two devices on one file each have a cache, and
closing one writes it back.

### Streams, values and the rest

| Component | State | What it does |
|---|---|---|
| readers (`io`, 5.3k) | positions and look-ahead buffers of streams | byte and character streams, decoding, looking ahead, reading backward |
| registries (`reg`, 2.1k) | JSON documents in memory, marks of changed ones, watchers; files | values under paths, on one file or on a volume |
| `net` (1.4k) | a transfer of libcurl | URLs, data URIs, streams over HTTP |
| `script` (0.8k) | none | properties and methods to JSON and back |
| `time` (2.9k) | none | calendar values, their parsing and formatting |
| `util`, `fmt`, `proc` (3.3k) | a log buffer behind a mutex | paths, file types, logging, uuids, a read-eval-print loop |
| `app`, `tests`, `po`, `packaging` | | example programs, tests, translations, packages |

What makes the first two correct: a reader gives every byte once and stays where
its user takes it to be; a value changes by those who write it, what was flushed
is in the file, and those who watch are told of every change. What is hard: several
buffers stand on one another, and a step back may have to leave them; a path of a
registry has two readings, and a file may have two names.

### How they interact

`SecurityManager` asks `IdentityRegistry` for the services of a realm, each
`IdentityService` for a login, `CredentialManager` for credentials to try and a
`PolicyStore` for the entries of the identities that come out of it. It calls a
prompt, which calls back into the application. `VolumeAccessor` puts
`requestPermission` in front of every operation of a volume. Volumes share the
interface `Volume`, so that an overlay stacks any of them and a registry may
live on one; a `UserStore` may live on a registry. A FAT32 volume and its streams
share one `Fat32ClusterManager`; the streams change the volume's index when they
flush. Volumes of a format stand on a `BlockDevice`, which may be a window on
another; ext4 volumes find theirs by an address, in a table that all threads share.

## 2. The modules

| Module | Models | Built from |
|---|---|---|
| `Realms` | the realm algebra | |
| `AccessPolicy` | the decision over entries | `Realms` |
| `PermissionPatterns` | which permissions a pattern takes in | |
| `RegistryLookup` | lookups of the registry, as operators on its containers | `Realms` |
| `SecuritySession` | `SecurityManager`, its services, its use of the cache | `RegistryLookup`, `AccessPolicy` |
| `IdentityRegistry` | the registry as its callers change it | `Realms`, an instance of `RegistryLookup` |
| `CredentialStore` | the credential file and the managers on it | |
| `UserStore` | stores of users on a file or a registry, and the commands on them | |
| `PolicyStore` | the policy stores of several realms | `Realms` |
| `VolumeGuard` | `VolumeAccessor` and what users do through it | `AccessPolicy`, `PermissionPatterns` |
| `Fat32Clusters` | clusters of a FAT32 volume, its calls and streams | |
| `Fat32Volume` | names, directory entries and the index of a FAT32 volume | |
| `ExfatVolume` | an exFAT volume, write by write | |
| `Ext4Volume` | calls, caches and streams of an ext4 volume | |
| `BlockDevices` | devices on one file, and the channels ext4 opens on them | |
| `ZipVolume` | a volume over an archive | |
| `OverlayVolume` | the calls of `Volume` on local volumes and on an overlay of them | |
| `MountedVolumes` | what volumes on directories know of their mounts; the manager | |
| `Readers` | readers that keep back what they have read | |
| `JsonDocument` | places in JSON documents | |
| `ValueRegistry` | a registry on a volume and its processes | `JsonDocument` |
| `JsonRegistry` | a registry in one document and its watchers | `JsonDocument` |
| `TankLayout`, `TankGame` | the tanks game: its windows; its keys, dialogs and logins | |

`MC...` modules give the constants values for TLC, `...Proofs` modules hold the
theorems. `MCStores` and `MCMedia` run several components that share no state: one
of them, `part`, moves in a behaviour, and the others stay as they began. Definitions
whose comment says "mutant of" are plausible mistakes in the code; each property is
shown to be violated when one of them takes the place of the definition it is a
mutant of. A variable like `last`, `told` or `said` is what the last call was and what
came of it; only properties read it.

### Realms, AccessPolicy, PermissionPatterns, RegistryLookup

A realm is a record of type, uuid and name, each possibly empty. `Match`,
`Same`, `ScopedEqual` and `StorageKey` are the functions of those names in
`Realm.cpp`; display data (description, image) is left out and taken to be
empty. `RefEq` is the equality of identity references.

`Decide` is `policyCheckAny` with `DefaultACResolvePolicy`: the most specific
matching entries count, and one Deny among them outweighs every Allow. In the
session, that a pattern matches a permission and how specific it is are part of the
entry; `PermissionPatterns` has `DefaultPermissionMatcher` itself, over patterns that
are tokens for the action and a resource of one of four kinds, and over texts of paths
as they are written; the guard uses it.

The registry's `m_bindings` is an `unordered_map`. The iteration order is a
constant or a variable (`Rank`, `order`), so that "the first slot that answers"
is what the code would find in that order. Services are compared by `id()`, as
in the code: two objects may be one service.

### SecuritySession

| Variable | Code |
|---|---|
| `active` | `m_activeIdentities` |
| `suppress` | `m_suppressAutoLogin` |
| `creds` | credentials in the cache, as `get()` and `list()` filter them |
| `accounts` | the user stores behind the services: secret, enabled, roles |
| `held` | what `authenticate()` returned and the application has not activated |
| `call` | the locals of the call in progress, and its result at the end |

An identity also carries the account (`owner`) and the service object
(`service`) its session was opened with. The code keeps neither; no action reads
them, properties do.

`start`, `authenticate` and the logouts are one step each. `requestPermission`,
`login` and `activateCachedCredentials` are sequences of steps, one per iteration
of their loops: `RequestCheck` is what stands before the service loop of
`requestPermission`, with the copy of the scope it decides on; `TryAnonymous`,
`TryCached`, `OpenPrompt` are an iteration of `tryLoginWithService`, according
to what the service does; `SubmitPrompt` and `CancelPrompt` end the prompt;
`LoopEnd` is what follows the loop; `CachedService`, `CachedOne`, `CachedEnd`
are `activateCachedCredentials` and what `login` does with its result. `Deliver`
hands the result to the caller. No call starts before that: the library is
called by one thread. Only `ChangeAccount`, administration by somebody else, may
happen while a prompt is open.

Left out: expiry of credentials, the digest of passwords (a check is equality),
identity types other than those the two services produce.

### IdentityRegistry

`bindings`, `realmKeys` and `unbound` are `m_bindings`, `m_realmKeys`,
`m_unbound`; `order` is the iteration order of the map, chosen anew after every
insertion and kept by an erasure, as the standard has it. `Add`, `AddUnbound`,
`RemoveService` and `RemoveRealm` are the four calls; `last` is what the last of
them returned.

### CredentialStore

Each manager has `mem` (`m_credentials`), `nextId` (`m_nextId`) and a place `pc`
in `saveToDisk`. Changes go to memory first (`PutNew`, `PutAgain`, `Remove`,
`Clear`, `Flush`) and stand before the opening of the file. `OpenFails` is the
exception, `OpenFile` truncates, `Write` ends the save; `WriteOver` and `WriteShort`
are the ways the text may be damaged without anybody looking: another process
wrote meanwhile, or the disk is full. `Crash` may come at any point, and
`Start` is the constructor of the next process. The file is absent, empty, torn
or whole; the first three load as no credentials, as in `loadFromDisk`. `fault`
and `writer` remember how the last save ended and whose file it is; only
properties read them.

### UserStore

`kind` is the backing of a behaviour: a JSON file written whole (`FileUserStore`), or
a registry with a node for each user (`RegistryUserStore`) over a `JsonRegistry` or a
`VolumeRegistry`. `disk` is what the file holds; `store` are the open stores, each with
its users, what its registry has in memory (`doc`), and `job`, the changes that a
command still has to make. A command of the shell (`Plan`) is a list of changes, each
written as it is made: `Ask` makes the first and `Continue` the next, so that a process
may end between two (`End`). `Changed` is a change in memory, `Saved` is what the backing
writes of it, and a write may fail in every way the backing has: not opened, cut,
lost, or stopped after it emptied the file (`Outcomes`). A `JsonRegistry` takes a dot in a name for a step down, so that the node of "a"
holds that of "a.b" (`Node`); `rootless` is one whose prefix is empty. `Open` is the
constructor and "reload", `Expire` the time at which keys expire. `synced` are the
stores that nobody overtook since their last load or write; only properties read it.

Left out: the text of profiles, roles named twice, digests (a password matches a key
or does not).

### PolicyStore

A store is a record of ACLs, grants and bindings (`DefaultPolicyStore`); there
is one per storage key and `Global`, each with a file (`FilePolicyStore`), and
`registered` are the keys of `RealmPolicyStore::m_byKey`. Every change takes one
store through `Change`, which chooses how the save ends: saved; not opened, with
an exception; broken off, with an exception; broken off with nobody told. A
truncated file loads as an empty store. `RemoveAcl` asks the stores one by one,
in any order, and stops at the first save that throws. `UpdateAcl` saves
nothing: `FilePolicyStore` does not override it. `AddRealmStore` replaces a
store by what its file holds, `Reload` is `load()`, `Restart` the end of the
process. `unsaved` and `last` are for properties only.

### VolumeGuard

`realm` is `m_realm`, fixed when the guard is made from what is then at the root
(`realmForVolume`); `inner` is the medium at the root and what the volume's object
keeps of it, so that another medium (`Insert`) or another uuid (`SetUuid`) leaves the
realm behind. `lent` is `m_elevation`, `active` the identities of the session, `grants`
the policy, and `nodes` what is at the paths. A call is given the text of a path:
`Texts` has several for one path, with "..", with two slashes or without the first one.
`Resolved` is `Volume::normalize`, by which the volume inside finds the path, and `Path`
what it writes for one. `Needed` is the permission each guarded call asks for, and it is
one on the text the call was given. The calls that make, remove, copy and move resolve
their texts before they ask (`AskedFor`, `MakeDirectories`, `Transfer`); those that read,
write, stream and list pass them on as they are. `Call`, `MakeDirectories`, `Transfer` and `Export` are the calls a user
makes through `Volume` or a `VolumeFile`: a look at the volume that is not asked for,
and then guarded calls, each of which may have somebody log in. `UnsetCall` is a
handle without a path or a volume. A login is what `SecurityManager::login` comes to;
its steps are those of `SecuritySession`.

Left out: `stat`, labels, temporary files and names of local files, which the guard
passes on unasked, except where a call makes use of them; directories with something
in them are not moved. No call is made for the root.

### Fat32Clusters

`vol` is a record of what `Fat32ClusterManager` and the device hold: `fat`
(`m_entries`), `dirty` (`m_dirtyClusters`), `disk` (the table on the device),
`hint` (`m_allocHint`). The operations of the manager are operators from a
volume to a volume: `Set`, `Flushed`, `Picked` (calls of `allocateCluster` in the
order `findFreeFromHint` gives), `FindRun`, `Freed`, `Linked`. `Realloc` is
`reallocClusters` with its strategies: grow behind the tail (`GrownInPlace`),
move to a contiguous run (`Moved`), take what there is (`Scattered`), and what
each does when there is no room.

`list` are the clusters of each file, as the index of the volume has them;
`entry` is the first cluster in its directory entry on the device; `open` are
files a stream is rewriting. `WriteFile` is `writeFileUnchecked`, `Remove` and
`CreateDirectory` the calls of those names, `Placed` and `Entered` write a
directory entry and extend the root directory when no slot is left. `Rewrite` is
the first flush of a stream, `Continue` another flush of it, `Close` its end,
`AppendFile` a stream opened to append, flushed and closed. `Mount` is the end
of the process and a new mount, with the table and the entries read from the
device.

Simplifications: lengths count whole clusters; every file is in the root
directory and has one entry, the one written last; the table has an entry for
every cluster of the device; writes to the device do not fail; an append stream
flushes once. A file or directory is one owner: how names become entries is the
matter of `Fat32Volume`.

### Fat32Volume

`vol` is the volume object and the device: `fat` and `disk`, the table and what each
cluster holds (slots of a directory, or a content), and the index of paths to entries,
which is filled as directories are listed. Names have an 8.3 form (`Short`) that two may
share, and a long entry as well when it has a dot. `LookAt` is every call that only
looks; `WriteFile`, `RemoveFile`, `RemoveDirectory`, `CreateDirectory` and `Transfer`
(copy, move, rename) are the calls of `Volume` with the checks that class makes before
the unchecked operation; `OpenStream` and `CloseStream` are an output stream, whose file
may be removed meanwhile; `Mount` is a restart. A file has one cluster, or none when it
is empty; longer chains and the copy of the table on the device are in `Fat32Clusters`.

### ExfatVolume

`mem` is `ExfatClusterManager` (table, bitmap, hint), `dev` the device, `index`
`m_dirents`, `job` the call under way. A call is as many steps as it writes to the
device (`AllocateData`, `FlushBitmap`, `Extend`, `BlankNew`, `Enter`, and `DataFails`,
`GaveBack`, `EntryFails` where one stops), and `Crash` may come between any two. The
runs of table entries of one flush are one step, and so are the three slots of an entry.
Nothing is ever found in the index (section 5), so everything is made in the root,
and reading, listing and appending are never reached.

### Ext4Volume

`disk` are entries, inodes and bitmaps, `cache` the three caches `m_files`, `m_nodes`,
`m_rtnodes`, `stream` an `Ext4FileOutputStream` with the bitmaps it read when it was
opened. Each call has a handle of its own. What the calls rely on of libext2fs is modelled
under a heading of its own and marked external. `Lookup`, `ReadTree`, `WriteFile`,
`CreateDirectory`, `RemoveFile`, `RemoveDirectory` and `Transfer` are the calls, with their
error paths; `OpenStream`, `PutChunk` and `CloseStream` the stream; `Remount` the end of
the process, between calls.

Left out: owner and mode (the context is always that of root), reading in parts,
contents of files, and what nobody calls (`appendFileUnchecked`, `planWriteLayout`).

### BlockDevices

`file` is the file below, in places that stand for the bytes between two of the offsets
a probe looks at; `dev` the devices, each a `FileDevice`, `MMapDevice`, `LoopDevice` or
`MemDevice` with the window it was opened on, the place of its cache (`base`, `at`,
`below`) and its mark of a change; `info` what `loadInfo` found out; `map` the table
`g_map` by which ext4 finds a device, `chan` how far `openFsFromBlockDevice` of each ext4
volume has come. `OpenOnFile`, `OpenLoop`, `OpenMem`, `Write`, `Flush` and `FlushShort`
(a write-back that stops half-way), `Close`, `LoadInfo` are the operations; the `Channel`
ones, `Register` and `OpenPath` those of `Ext4IoManager`; `EndBeyondMapping` is a write
through a mapping behind the end of the file, which ends the process. `wrote` and `sure`
are what was written and not flushed, and written and flushed; only the property reads
them.

### ZipVolume

`archive` is what the file holds, `entries` what `parseZip` made of its directory when
the volume was made, `mounted` the archive it was read from. `Ask` (`exists`, `isFile`,
`isDirectory`, `stat`), `ReadDir`, `ReadFile` in whole or in part, and `Change` for the
calls that throw; `Rewrite` is another program that replaces the archive, and `Mount`
makes the volume anew.

### OverlayVolume

`trees` is what each local volume holds: for each path a directory, the contents of
a file, or nothing. `stack` is `m_layers`, the top layer last. `last` is the last
call with its resolved paths and whether it succeeded; only properties read it.

The operations of a local volume (`LocalVolume::...Unchecked`) are operators from
a tree to the set of ways they can end, each a tree and whether it succeeded:
`Put` (open, which truncates unless it appends, and write), `Copied` (`fs::copy_file`),
`Made`, `Removed`, `Renamed`, `MovedOver` with `CopiedAndRemoved` for what it does when renaming fails.
Each may fail at any time. `Put` may also succeed with a part of what was written: the
stream is asked whether it is good, and flushed when it is closed or destroyed, after
which nobody asks (`LocalVolume.cpp:469`, `LocalOutputStream.cpp:35`); `fs::copy_file`
answers with any error it meets. A volume, local or overlay, is a record of its layers;
`Look` is `exists`, `isFile` and `isDirectory`, `Read` is `layerForFile`, and
`Copy`, `Move`, `Rename`, `Remove` are the unchecked operations of the two classes.
Over them stand the calls of `Volume`, which look at the view and clear the
destination first: `WriteFile`, `CreateDirectory`, `CreateDirectories`,
`CreateDirectoriesThrows`, `RemoveDirectory`, `RemoveFile`, `CopyFile`, `MoveFile`,
`RenameFile`; `StreamFile` and `AppendFile` are output streams, which look at the
top layer only. A call that throws and its twin that returns false are one: they
differ in how they say that they failed. Steps are calls on the overlay, calls on
one of its layers behind its back, and `ChangeLayers`.

Left out: listing, `stat`, labels, temporary files, symbolic links and
permissions; layers that are not local volumes; a stack that the constructor was
given with one volume in it twice, which it does not look for.

### MountedVolumes

`mounts` is the mount table, which others change (`MountOther`, `Unmount`); `vol` are the
`LocalVolume` objects with what they found out and keep, `at` the one shared object per
root of `LocalVolume::at`, `list` and `refused` a `VolumeManager`'s volumes and what its
transformers refuse. `OpenAt`, `File` (`VolumeFile` of a path of the machine), `Ask`
(device, mount point, type, read-only), `GetName` and `SetName` (uuid and label, from `/.rc` files or the
device), `SetRootPath`, `AddVolume`, `RemoveVolume`, `Clear`, `AddLocalVolumes` (the
scan, with its flags), `AddImage` and `AddTransformer` are the calls. Paths are canonical.

### Readers

A byte is known by its place in the source. `la` is a `LAInputStream` (its buffer, the
position in it and below), `dec` a `DecodingReadStream` on one, `rev` a
`ReversedReader`; a behaviour uses one `kind` of them. `due` is how many bytes the
reader's user takes to be behind; only the property reads it.

### JsonDocument, ValueRegistry, JsonRegistry

A document is a function from places, sequences of keys, to what is there. `Located`,
`Put` and `Erased` are `json::locate` and what callers do with its result; arrays are left
out, as no operation of a registry makes one.

In a registry on a volume a path has two readings, a place in the document of its
directory, and a directory of its own. `cache` is `m_containerCache` of each process,
under the name it read a file by, and `dirty` its marks; `Get`, `List`, `Set`,
`RemoveOption`, `DelTree` are the calls, `FlushContainers` writes some of the marked
documents, as a flush that fails half-way does, and `Forget` is `cacheClear` or the end of
a process. A file that is not there and one that holds no JSON are alike to a reader, and
both are `Nothing`.

In a registry in one document, `content` is `m_doc`, `onDisk` what `m_load` and `m_save`
read and write, and `told` what those who watch were told by the last call: the place, the new
and the old value.

### TankGame

Two tanks are driven from one keyboard. A step is what the program does from one key to
the next time it waits for one, the redraw included. `screen` is what waits for a key:
the game, a login or elevation dialog, or the batch mode; `session` the user of each
device, `creds` the credential manager's list, `sims` the tanks, `layout` the windows
that `computeLayout` gave the size `term`. `OpKey` carries out an operation or opens the
dialog that asks for somebody who may; `SubmitElevate` and `AfterDenied` are what follows.
The manager's part is what this program can see of it: both devices register a
`StoreIdentityService`, all of which share one id, so that `IdentityRegistry::list`
answers the one it meets first (`listed`). `proven` remembers who gave a right password
where; only a property reads it. The text of the panels, colours and the editing of a
field are left out.

## 3. The runs

A run marked *violation* checks one statement that a document, a comment or the
interface makes and the code does not keep: section 5 says what TLC finds.

| Run | Module, configuration | Properties | States |
|---|---|---|---|
| `session` | `MCSecuritySession`, `SecuritySession.cfg` | `SessionsDoNotMix`, `AutoSurvivesLogin`, `LiftedByLogin` | 1 062 516 |
| `session_calls` | `MCSecuritySession`, `SessionCalls.cfg` | `AllowIsCurrent`, `LoginsAreBacked`, `CallReturns` | 964 |
| `registry` | `MCIdentityRegistry`, `IdentityRegistry.cfg` | `SlotsApart`, `LoadFindsBound`, `AnswersHold` | 42 583 |
| `stores` | `MCStores`, `Stores.cfg` | `RefsAreUnique`, `RestartFindsMemory`, `DiskFollowsMemory`, `PasswordsChangeKnowingly`, `AnswersChangeKnowingly`, `WatchersFollow` | 441 235 |
| `policy` | `MCPolicyStore`, `PolicyStore.cfg` | `AclIdsAreUnique`, `OnlyUpdatesAreLost`, `Isolation`, `RevocationsHold` | 83 160 |
| `fat32_clusters` | `MCFat32Clusters`, `Fat32Clusters.cfg` | `DirtyCovers`, `OnlyKnownStepsDamage`, `FlushedFilesSurvive` | 44 677 |
| `fat32_volume` | `MCFat32Volume`, `Fat32Volume.cfg` | `OnlyKnownStepsSpoil`, `WritesAreRead`, `FilesGoWhereTold` | 15 223 |
| `ext4` | `MCExt4Volume`, `Ext4Volume.cfg` | `OnlyStreamsDamage`, `StaleOnlyKnowingly`, `OthersKept` | 32 059 |
| `media` | `MCMedia`, `Media.cfg` | `FlushedIsKept`, `OnlyKnownStepsDamage`, `ShowsWhatItHolds`, `StaysInPlace`, `MountsAreTold`, `OnlyAllowedCalls` | 102 678 |
| `overlay` | `MCOverlayVolume`, `OverlayVolume.cfg` | `LowerLayersKept`, `FilesSurvive`, `SuccessDelivers` | 9 604 |
| `move_in_place` | `MCOverlayVolume`, `OverlayInPlace.cfg` | *violation* `InPlaceKeeps` | |
| `tanks` | `MCTankGame`, `TankGame.cfg` | `WindowsTile`, `TanksObey`, `SessionsChangeByLogin` | 1 160 018 |

The last column counts distinct states. What the passing runs show, and why their
bounds are enough:

**session, session_calls.** Two devices with a user store each, as in the tanks
demo: both stores know bob, alice is known to one; both services answer the same
`id()`; the anonymous service has no slot. That is the least in which a user may
be switched in one realm while another realm stays, in which a service can be
mistaken for another, and in which a credential without a realm fits both. The
policy allows something to the anonymous principal, something to a role, and
denies something to a user, so that a decision can go every way and can change
with each login a request performs. `session` has a cache of two credentials,
the fewest among which a replay can choose; its accounts stay as they are.
`session_calls` lets an account be disabled and enabled again, also while a
prompt is open, and keeps one credential at most: one stale credential is what
locks a service's form. Role names and realms occur in no arithmetic, so larger
sets repeat these cases.

- `SessionsDoNotMix`: the login identities in one realm were opened by one
  account of one service.
- `AutoSurvivesLogin`: an anonymous principal leaves the session by an explicit
  logout only.
- `LiftedByLogin`: the suppression of auto-login ends with a login, not with an
  attempt.
- `AllowIsCurrent`: an Allow agrees with the session it is returned in.
- `LoginsAreBacked`: a session is opened for an account that exists, is enabled
  and has the role at that moment, however long the prompt was open.
- `CallReturns`: every call returns. Fairness: `WF_vars(CallStep)`. A call is a
  synchronous loop in one thread, so its next iteration is taken; a prompt is a
  modal dialogue that the person answers or cancels. Nothing else is assumed fair.

**registry.** Five realms: two devices, a realm with only a type, one with only
a name, and one of another type with the same name. Between them they answer to
one another in every way `scopedEqual` allows, in particular as A to B and B to
C but not A to C. Three services, two of one id. Every iteration order of the
map is taken after every insertion.

- `SlotsApart`, `LoadFindsBound`: bound realms never answer to one another, so
  `load()` does not depend on the order.
- `AnswersHold`: what `add` and `remove` returned is true of the registry.

**stores.** Four components that keep their state in files of text, one at a time.

*Credentials*: two processes on one file, two ids and two contents each, two
credentials at most: enough for a put that replaces, one that adds, and the two
processes in the middle of a save at once, at every point of it. Two processes
are all that one file needs to be written over; a third is like a restart of one.

- `RefsAreUnique`: one credential per reference in memory and in the file.
- `RestartFindsMemory`: after a save that went well, and until another process
  writes, a restart finds what was in memory.

*Users*: two stores on one file of each kind, two users of whom one has a dot in the
name, one write that fails, at most three keys in a record, and two commands of every
kind. A third command is asked for only where it is needed, a change of roles of "a.b"
over JSON without a fault: that is the least in which a node that was overwritten is
written again. Who is overtaken by whom takes two stores and one write of each.

- `DiskFollowsMemory`: a store whose last write or load went well, and which nobody
  overtook, would load what it has in memory.
- `PasswordsChangeKnowingly`: in the file, a refused password is accepted again only by a
  change that gives it, and an accepted one is refused only by one that takes it, by its
  expiry or a write that was cut; but for a store that had not seen the last change, and
  for what a JSON registry overwrites (section 5).

*Values*: two processes use a registry on three files, of which one has two names, and
one may hold no JSON. *Documents*: a document of four places, one below another, whose
file is absent or filled.

- `AnswersChangeKnowingly`: what a process is answered changes only by its own writes,
  and what is in a file falls behind what was flushed there only by another process.
- `WatchersFollow`: those who watch are told of every value that changes but in a load,
  and the value they are told is there now is there; the call that tells otherwise is named
  in it.

**policy.** One device with its own store, one without, and a principal of no
realm; one list name, one entry, and one grant or binding per store. A route
leads to a store of its own or to the global one, and each of the three
identities takes another way there. The device's file holds a list and a
binding at first, so that a list may come into force by a reload.

- `AclIdsAreUnique`: one list per name in every store and file.
- `OnlyUpdatesAreLost`: a restart undoes `updateAcl` and failed saves, nothing else.
- `Isolation`: a change for one device is none for identities of another store.
- `RevocationsHold`: taking away gives nobody anything, failed saves and
  `clear()` included; a removal of a list that returned left neither the list nor a
  binding of it anywhere.

**fat32_clusters.** Five clusters, a file, a directory and the root directory;
calls ask for up to two clusters and an append reserves one more. The file can
fill the device, have to move, find room only in scattered clusters, be
stopped by the end of the table, and meet a full root directory. The constraint
`Whole` goes on only from volumes that are neither damaged nor have lost
clusters, and in which the root directory has at most two; the steps that lead
out of it are checked, and that is where the properties say which calls may
damage a volume or lose clusters.

- `DirtyCovers`: what differs from the device is marked to be written.
- `OnlyKnownStepsDamage`: chains break, or are shared, only by an overwrite that
  finds no room after it freed the old clusters, and by the end of a process
  before its table or its entries were written; clusters are lost only by a stream
  that rewrites a file with clusters, by an overwrite through another spelling of the
  path, by an entry for which the root directory has no room, and by such an end.
- `FlushedFilesSurvive`: what a stream flushed is read back after a restart.

**fat32_volume.** Five clusters of two slots and three devices: a tree with a long name
written by another system; a root directory of two clusters with deleted slots before its
file; a device without a free slot. Two of the names share their 8.3 form and one has a
long entry. Three calls that change something, and any number that look, with a stream
open across them: a change that goes wrong needs one call to prepare the slots and two to
meet in them. `Whole` goes on from sound volumes only, as above.

- `OnlyKnownStepsSpoil`: entries without clusters, names that are there twice, and an
  index that shows something else than a restart would, come only by the steps it names.
- `WritesAreRead`: what was written is what is read, except where another system's long
  name, or a deleted slot before the old entry, brings the old one back.
- `FilesGoWhereTold`: copies, moves and removals do what they say, to no other file.

**ext4.** Three paths, two in the root and one in the other; three inodes, three
blocks with room for a name or a chunk each; a stream open during other calls, and
another mount at any moment. `OneTrouble` stops at the first damage of the device, and
goes on with one path at a time that the caches answer wrongly.

- `OnlyStreamsDamage`: two names come to share an inode, or two files a block, only by
  a stream's unmarked or outdated bitmap, or by a path the caches answer wrongly.
- `StaleOnlyKnowingly`: and they answer wrongly only after a call that failed, a
  directory that was renamed, or while a stream is open.
- `OthersKept`: a name goes only by a call that names it, or by those it lists.

**media.** Six components, one at a time.

*exFAT*: five clusters of four slots, one name, files of two clusters at most, and
three devices: an almost empty one, a root with deleted slots and one left, a root
between free clusters. One name is enough, as nothing is ever found again by name.
*Devices*: two devices of five windows on a file of two places, which may grow by one,
and two ext4 volumes. Two devices are what it takes for one to write over the other;
`Narrow` leaves out states in which caches, channels and probes are all in use at once.
*Archives*: five, among them two records of one name, two end records, a record cut off
and no archive. *Readers*: six bytes, a character of two of them, blocks of two,
capacities of none, one and three: a step then ends before, in and behind a block, and
the look-ahead is full before it, at it or never. *Directories*: a disk, directories of
it bound elsewhere, an image on a loop device and an overlay; three mounts and two
volumes; `Single` lets one of the features of a volume be used at a time. *Guard*: two
media, two users, subjects lent, one policy with allowing and denying entries on paths,
endings, a name and everything; three paths and six texts of them, among them one that
begins with a directory the path is not in, so that an entry takes in the text of a call
and not the path, or the path and not the text.

- `FlushedIsKept`: what was written and flushed with success is in the file, until
  somebody writes there or writes back a cache that was loaded before.
- `OnlyKnownStepsDamage` (exFAT): files are damaged and clusters lost only by the steps
  it names.
- `ShowsWhatItHolds`: a plain archive reads, lists and tells what its directory says.
- `StaysInPlace`: a reader stays where its user takes it to be and gives every byte there
  is, but for the calls it names.
- `MountsAreTold`: a volume tells what was visible at its root when it first looked;
  paths go to the right device; a scan leaves out what it is to leave out.
- `OnlyAllowedCalls`: what a guard does inside was allowed to the one it is lent to, or to
  those logged in when it was asked for, for the text the guarded call was given. What
  makes, removes, copies or moves a path was allowed for the path's own text. What writes
  one was allowed for a text of it, and that is all: see section 5. Nobody is told
  something was done that was not.

**overlay.** Two volumes, the paths a, b, a/b and b/b, a chunk to write. Either
volume may be the only layer, the top or the bottom, and calls reach both through
the overlay and directly, so each path is a file, a directory or nothing in each
layer independently of the other. A file above a directory, a directory to be
removed with something in it, a destination that stands for an entry in a
directory, a directory that is renamed over something that hides what another layer
has below, and a source and destination in one layer or in two need no more; a path of
three names was checked as well. An appended chunk and a rewritten one tell files
apart. What the last call was is left out of the state (`VIEW`): no step and no
invariant reads it, and the action properties read the one of the step itself. A third
layer is one more that is read and never written.

- `LowerLayersKept`: nothing is written to a layer below the top.
- `FilesSurvive`: a file no call named looks the same afterwards, with two exceptions
  (`createDirectoriesThrows` over a file of a lower layer, a directory renamed to the
  place of a file); and a file to be moved is whole at the source or at the destination,
  whatever failed.
- `SuccessDelivers`: after a copy, move or renaming that succeeded there is a file at the
  destination, with nothing but what the source had; it has all of it, unless an overlay
  copied it, whose copies are written by a stream and may be short without a word. An
  append that succeeded kept what the top layer had.

**tanks.** The accounts and policies of the demo: alice may drive and bob may fire on one
tank, charlie drives the other. A large terminal, the smallest that is accepted and one
that is too small, with a resize at any moment. One login and one operation carried out
in the game, two logins in the batch mode: a second operation of the same user meets the
session of the first, and a login of another user its refusal.

- `WindowsTile`: the windows tile the terminal they were laid out for.
- `TanksObey`: a tank moves only by an operation that the policy allows to somebody who
  gave a right password at that device.
- `SessionsChangeByLogin`: lending a permission to one operation never replaces who is
  logged in, and never touches the other device.

## 4. The proofs

TLAPS checks the following for every value of the constants that the named
assumptions allow. The assumptions say of constants what their types are, that
distinguished values differ, and of structured ones what the code guarantees of them:
`StoresAreSane` (commands are those of the shell, what a file holds at first is records), `BlocksAreSane` (windows are offsets and lengths, a
file begins at its first byte, a volume is no device), `DocumentAssumption` and
`ValuesAssumption` (what files hold at first is trees, and paths are not empty),
`PathAssumption` (with a path its
beginnings are paths), `RankAssumption`, `SessionAssumption`, `RegistryAssumption`,
`CredentialAssumption`, `PolicyAssumption`, `ClusterAssumption`, `ValueAssumption`,
`TankAssumption`, `GuardAssumption` (paths have a name and a text, texts are of paths, a grant has a pattern), `ArchivesAssumption` (sizes are
bounded and records a sequence) and those of the modules below them. TLC evaluates each in a run.

| Theorem | Statement |
|---|---|
| `SecuritySessionProofs!TypeCorrect` | `Spec => []TypeOK` |
| `NoMixedSessions` | `Spec => []SessionsDoNotMix` |
| `AllowOnCurrentSession` | `Spec => []AllowIsCurrent` |
| `AnonymousOutlivesLogins` | `Spec => AutoSurvivesLogin` |
| `LiftedOnlyByLogin` | `Spec => LiftedByLogin` |
| `SessionsAreBacked` | `Spec => LoginsAreBacked` |
| `IdentityRegistryProofs!SlotsStayApart` | `Spec => []SlotsApart` |
| `LoadOfABoundRealm` | `Spec => []LoadFindsBound` |
| `RealmKeysInStep` | `Spec => []KeysInStep`: lookups by name go through a list of the realms that is never stale |
| `AnswersAreTrue` | `Spec => []AnswersHold` |
| `StoresProofs!RefsStayUnique` | `CredentialSpec => []RefsAreUnique` |
| `SavedIsFound` | `CredentialSpec => []RestartFindsMemory` |
| `MemoryIsLoaded` | `Spec => []DiskFollowsMemory` (users) |
| `PasswordsAreKept` | `Spec => PasswordsChangeKnowingly` (users) |
| `DocumentsAreTrees` | `DocumentSpec => []DocumentInv`: a registry's document has a root, and objects on the way to every value |
| `WatchersAreTold` | `DocumentSpec => WatchersFollow` |
| `AnswersAreKept` | `ValuesSpec => AnswersChangeKnowingly` |
| `PolicyStoreProofs!AclIdsStayUnique` | `Spec => []AclIdsAreUnique` |
| `LossesAreKnown` | `Spec => []OnlyUpdatesAreLost` |
| `StoresAreIsolated` | `Spec => Isolation` |
| `RevocationsNeverGrant` | `Spec => RevocationsHold` |
| `Fat32ClustersProofs!FlushMissesNothing` | `Spec => []DirtyCovers` |
| `StreamsFlushEverything` | `Spec => StreamsWriteAll`: after a flush of a stream that succeeded the device has the whole table |
| `OnlyKnownStepsDo` | `Spec => OnlyKnownStepsDamage` |
| `FlushedFilesDo` | `Spec => FlushedFilesSurvive` |
| `MediaProofs!FlushedStays` | `Spec => []FlushedIsKept` (block devices) |
| `MatchTokensFits` | the matching of a pattern's tokens against a path, of any length, answers what their layout says |
| `GuardsLetInTheAllowed` | `GuardSpec => OnlyAllowedCalls` |
| `ArchivesAreShown` | `ArchiveSpec => ShowsWhatItHolds` |
| `OverlayVolumeProofs!TypeCorrect` | `Spec => []TypeOK` |
| `OnlyTheTopChanges` | `Spec => LowerLayersKept` |
| `DirectoriesHold` | `Spec => []IInv`: what has an entry is in a directory, in every volume |
| `FilesAreNeverLost` | `Spec => FilesSurvive` |
| `SuccessIsTrue` | `Spec => SuccessDelivers` |
| `TankGameProofs!LayoutTiles` | for any size of the terminal the windows computed for it lie on it, none over another |
| `WindowsAlwaysTile` | `Spec => []WindowsTile` |
| `SessionsOnlyByLogin` | `Spec => SessionsChangeByLogin` |
| `TanksAreObeyed` | `Spec => TanksObey` |

Every invariant that a run checks is proved, and so are seventeen of the action properties.

**The session.** The invariants are not inductive. What is missing is what the
code relies on without saying: `CallShape` (where a call stands tells what its
locals may hold: a prompt is that of a store service, only a request returns
Allow), `TypesBySource` (an identity of type user or role, and no other, came
from a login), `ReplayLeavesLogin` (a replay that reports success has left a
login), and `OneLogin(held)` (what `authenticate` returned is one login of one
realm). With them, `IInv` is kept by every action. The core is
`ActivatedLoginDoesNotMix`: `activate` clears the sessions scoped equal to the
new realm, and since all new identities have that very realm, two identities in
one slot are both old or both new. It holds although `scopedEqual` is not
transitive, which is why it is stated for pairs. The action properties
follow from `IInv`; `AutoSurvivesLogin` from `ActivatedKeepsAuto`: what an auto-login
replaces it replaces by an equal; `LoginsAreBacked` from what each step that opens a
session has just asked the store (the cached credential it verified, the prompt it
submitted), and from the fact that the other steps of a call open none.

**The registry.** `IInv` is `TypeOK /\ SlotsApart /\ KeysInStep`. A slot is bound
only if nothing answers to it, and `scopedEqual` is symmetric; erasing brings no
two together. `AnswersHold` is about one step, on `IInv`: of the slots `load` may find
for a realm that was added there is one only, in any order of iteration, and after a
removal no slot and no place of the list has a service of that id.

**The credential file.** `CredentialsInv` says of the file what is said of each memory,
also while it does not parse: whatever is in it was some memory.
`RestartFindsMemory` is itself inductive with the types, since whoever writes
takes `writer`.

**The user stores.** `DiskFollowsMemory` is about stores in step with the file; its
invariant adds what memory must hold for the next write to keep them so: that the
document a store has in memory beside its records is the file's while it is in step
(`Follows`, `SyncedFollow`); that a document over JSON has the node of every user that is
in memory, or has lost it to a user whose node was written over it, and has that of every
user with a node of its own (`JsonKeeps`, `JsonInMemory`); and that only a running store
has a command under way (`JobsRun`). So writing the node of one user leaves every other
as it was that a load would list.
`PasswordsChangeKnowingly` follows one write of a command (`Made`): `EditedGives` and
`EditedTakes` say for each change of a record which passwords it may add or take,
`Gains` and `Losses` for the records of all users in all backings. An attempt at it found
that the property as first written was false of a longer run: a user whose node was
overwritten comes back with its next change (`Revives`), which the bounds of the run had
left out.

**The registries of values.** Both rest on lemmas about places: which are above which
(`UnderProperties`, `UnderBoth`), that what is put at a place is found there
(`PutIsFound`), that what lies beside it is found as before (`PutElsewhere`), and that a
tree put into a tree makes a tree (`PutIsTree`). `DocumentInv` says that documents are
trees. It is needed where a root that is no object makes way for one: nothing else can be
lost there (`BareRoot`). `ValuesInv` says it of every file and cache, and that nothing is
marked that is not cached. What a container comes to for a process (`View`) is then
followed through the three kinds of steps: those that load (`LoadingStep`), those that take
out of the cache (`DroppingStep`) and those that write (`SavingStep`), and through a flush.

**The policy.** `IInv` is `TypeOK /\ AclIdsAreUnique /\ OnlyUpdatesAreLost`. Every
change maps a sound store to a sound one (`ChangesSound`), and `SaveKeeps` shows
for any set of saves with any outcomes that memory and file agree wherever
`unsaved` does not say otherwise. `Isolation`: what is in force for an identity is
read from the store of its route and, for nothing else, from no other
(`EffectiveFrame`), and a call changes one store however its save ends
(`ChangeIsLocal`). `RevocationsHold`: what is in force grows with the store it is read
from (`EffectiveIsMonotone`), each removal shrinks its store (`RemovalsShrink`), and a
step that shrinks stores, or leaves them, gives nobody anything; `clear` routes
identities to the global store only where theirs was emptied.

**FAT32.** `Covers(v)`, the marks of one volume record, is kept by each operation
of the manager, so by every operation built from them; neither types nor the
course of chains is needed.

What the calls do to files needs both. The invariant is small: types, `Covers(vol)`, and
that the root directory begins with its cluster (`Types`); that the files are whole is
what the property assumes of the state before a step. The work is to turn "reading the
table from here gives this list" into "the table links this list" (`Holds`), which says
nothing of how far a reading goes: `FollowAdds` follows the recursion of `Chain` for every
number of steps, by the least counterexample (`UpTo`) as the guard's; `HoldsOnce` shows
that a chain that ends comes by no cluster twice, so it is no longer than there are
clusters (`HoldsFits`); `HoldsReads` and `ReadsHold` are the two directions. After that no
chain is followed any more. `Puts(fat, old, g, s)` says what an operation does to a table:
the clusters of `s` were free or in `old`, they are linked now, what else was in `old` is
free, and nothing else changes. Freeing, picking and linking, growing in place, moving,
scattering and the cluster the root directory may need are each shown to do that, or to
leave the table as it was when they fail (`Grows`, `GivenBack`); that a search comes by
every free cluster once is `RanksCount`, a count of ranks. `PutsTable` and `PutsOwned`
carry it to all files: no other list is touched, and nothing is lost unless `old` is less
than what the file had, which are exactly the calls the property excepts. So a call is one
to three of them in a row (`WriteCareful`, `RewriteCareful` and the others).
`FlushedFilesSurvive` puts together that a stream's step keeps the files, that the device
then has the whole table, and that its entry names its list (`StreamStepNames`).

**Block devices.** `FlushedIsKept` is about places of the file that devices, their caches
and channels reach by several ways. `IInv` adds `OnBases` (a place of a device is a
place of its base, which is open below it and is no loop itself), `ChannelsTyped`,
`FileFromItsStart` (the file has no holes, so a length says what is in it),
`CachesInFile` (what is in a cache has its place in the file) and `WritesWait`: a write
that was not flushed is in the cache of its device, which is marked, or is in the file
already. The core is
`FlushedAfter`: when a flush writes a cache back, what of it was known to be flushed by
others stays known only where the cache has the same (`Lost`), and what this device had
waiting becomes known (`SettledKeeps`).

**The guard.** `Needed` says what a call asks for; the property says it with what patterns
mean (`Fits`: their tokens lie over the path one behind the other), the code with a
recursion over tokens. `MatchTokensFits` brings the two together. Induction is had from a
least counterexample: `UpTo` says of a set of numbers that holds every number whose
predecessors it holds that it holds them all, and `RestsExist` that the recursion is one
function. `RequireAllAsks` follows a list of permissions through the guard, with somebody
logged in at any of them: each has been allowed to one of the pools that were asked
(`by`), and with a subject lent nobody was logged in (`Asks`). `DoneKeeps` carries this
through each call, which may be several guarded ones, and `EndsAllowed` to its end. What
is allowed is a text, what is changed a path: a path's own text is resolved to it, name
by name (`ResolvedPath`; `ResolvedOnce` is once more by `UpTo`), so that a call whose
texts are those of paths reaches nothing else, and one that writes reaches what its text
is resolved to (`ChangedIsReached`).

**Archives.** The invariant is only that entries are what was parsed of the archive that
was mounted (`Mounted`); the rest is what one answer says of a plain one. Of the records
of one name the last counts, in the index as in the property; a path is listed below
another by its beginning (`PrefixIs`) and in a directory by its parent (`ParentIs`); and
of a part that is asked for with an offset from the end, or with a sum that leaves the
range of numbers, the arithmetic is done case by case.

**The overlay.** `Confined(T, v, outcomes)` says of the ways a call can end that
they are well typed and differ from `T` on the top layer of `v` at most. It holds
of every operation that acts on the top layer (`OnTopConfined`), and of what
follows on an outcome of which it holds (`ConfinedAfter`), so of a call that clears
its destination and then copies or moves. The types need that a file that is read
is one (`ReadType`), and so that a set of layers has a highest one (`Greatest`).

That files survive needs more: a file must not stand where something is thought to be
below it. `IInv` is `TypeOK` with every volume closed: what has an entry is in a
directory (`Closed`, `NothingBelow`). Every operation of a local volume is shown to keep
it and to change one entry (`Alters`: `Put`, `Made`, `Removed`), the entries on the way
to a place (`OnTheWayLooks`), or everything below one place (`RenamedTree`). `LookKept`
turns what is the same in the top layer into what looks the same through all layers,
`LookIsRead` what is seen into what is read. Over these, each call is shown to keep
(`...Relocates`, `RelocatedKeeps`) and to deliver (`RenamingDelivers`, `CopyAlters`) what
the two properties ask: a clearing that fails leaves nothing but the destination changed
(`ClearedSurvives`), a move that cannot rename copies before it removes
(`CopiedAndRemovedTree`), and a renaming takes every file below its source along
(`RenamingKeeps`). The exceptions named in `FilesSurvive` are those the proof could not
do without, and TLC finds each of them.

**The game.** `LayoutTiles` is arithmetic over the case distinctions of `computeLayout`;
only a resize lays windows out, and each key that changes a session is one of those
named. `TanksObey` needs `GameInv`: the tanks are on their fields, or a relayout for a
terminal with the same layout would move them; and every user of a session, and every user
of a credential that some store accepts, has given a right password at that device
(`LoginsProven`), which is what a replay of old credentials relies on (`LoggedInIsProven`).

**Model-checked only.**

- `CallReturns` is liveness under fairness, which the prover does not reach.
- The properties of `Fat32Volume` and that of `ExfatVolume` speak of what a walk along
  the slots of a directory finds, those of `Ext4Volume` of what is reached from the root.
  What their recursions compute would have to be brought to a statement without them, as
  `Holds` is for the chains of `Fat32Clusters`; that is not done.
- `StaysInPlace` compares readers with what recursive operators read of the bytes, and
  `MountsAreTold` walks the lines of a mount table by a filter.
- The type invariants not listed are part of the inductive invariants above or, of the
  modules without proofs, not stated.

## 5. Where documents and code disagree

`move_in_place` is a run: `moveFile` and `rename` remove the destination before they move
the source there (`Volume.cpp:395`), so a file that is moved to where it is is lost;
`Volume.hpp:165` says "false if dest is the same as src".

Met on the way, kept by the models, and checked by no run of their own:

*The session*

- `requestPermission` takes the identities it decides on before the auto-login and looks
  at the same copy afterwards (`SecurityManager.cpp:234`, `245`). It denies what the
  auto-login has just granted. `SecurityArch.md:202` says "then recheck".
- Services are compared by `id()`, and all store services share one, so a cached
  credential for one device is verified by the store of another and opens a session in the
  first one's realm (`SecurityManager.cpp:405`, `SecurityArch.md:230`).
- After a logout a request that may not prompt logs the anonymous principals in
  again (`SecurityManager.cpp:344`), while `SecurityArch.md:279` says that a logout
  suppresses auto-login.
- `login()` for a named user returns once cached credentials activated anybody
  (`SecurityManager.cpp:462`).
- A login in a realm that has only a type ends the sessions of all realms of
  that type (`Realm.cpp:66`), where `SecurityArch.md:277` speaks of the same realm.
- `authenticate()` moves the credential into the request of the first service:
  the others see an empty one (`SecurityManager.cpp:208`).
- `add()` says true for a taken slot when the service there has the same id, and
  `list()` drops the second of two services with one id (`IdentityRegistry.cpp:46`,
  `141`).

*Stores*

- The counter of ids starts at one in every process and takes no notice of what was
  loaded: a new credential replaces an old one (`CredentialManager.cpp:193`,
  `CredentialManager.hpp:150`).
- `addAcl` stores a list globally, bindings go to the store of the realm, and a
  binding there finds no list (`PolicyStore.cpp:481`); `SecurityArch.md:141` counts
  the lists bound to an identity among what is in force for it.
- A user store over a JSON registry drops "a.b" when it writes "a", does not load names
  with dots, and loads nobody when its prefix is empty. A user that was overwritten so
  comes back with its next change (`UserStore.cpp:779`).
- `setJson` tells watchers the value it has moved from, which is null. `watch` looks for
  a prefix with "." in paths that are told with "/".
- A container of a registry that is known by two spellings is kept twice, and one
  overwrites the other. A file that cannot be parsed is overwritten with `{}` at once.
  `delTree` of a container drops it from memory only. `delTree("")` leaves null as the root.

*The guard*

- Reading, writing, streams and listing are asked for by the text of the path as the
  caller wrote it (`VolumeAccessor.cpp:178`, `Volume.cpp:573`), and the volume resolves
  ".", ".." and repeated slashes only behind the guard (`Volume.cpp:111`). An entry that
  is about a path is therefore not asked for another text of it, whether it allows or
  denies. Making, removing, copying and moving resolve first. `OnlyAllowedCalls` says what
  holds: everything was allowed for the text that was given.
- The realm of a guard is fixed when it is made: another medium or uuid leaves it behind,
  and the uuid the inner volume keeps makes even a new guard's realm the old one.
- A copy that may overwrite removes the destination first and goes on when that was
  refused. A read that was refused looks like missing data in the variants with a
  default. The permissions of one call may be granted to different users who log in one
  after another.
- `setUuid`, `setLabel`, temporary files and the names of local files are not asked for,
  where `VolumeAccessor.hpp:28` says that every mutating operation is checked.
- `SecurityManager::login` takes no notice of `allowAutoLogin`.

*FAT32 and exFAT*

- An append that needs its file moved gets other clusters and copies nothing into them
  (`Fat32FileOutputStream.cpp:80`, `Volume.hpp:186`).
- A file near the end of the table cannot grow: looking behind its tail reads
  past the table and throws, though there is room elsewhere
  (`Fat32Volume_write.cpp:347`).
- A run of free clusters is found to choose the strategy and then searched once
  more from behind itself (`Fat32Volume_write.cpp:406`); the second search may
  find none.
- Nothing an exFAT volume writes is ever indexed: the types of slots are compared under a
  mask that their constants do not survive (`ExfatVolume.cpp:418`, `431`,
  `ExfatVolume_write.cpp:385`). So an overwrite takes new clusters and a new entry each
  time. Slots of an entry are written on into the cluster that is next on the device,
  whichever directory it belongs to.

*ext4*

- The inode of a file that a stream made is never marked as taken, and the next new file
  gets it too. A stream's bitmap of blocks is written over those of calls in between.
- A rename of a directory into itself detaches it; one into a full directory loses the
  old name. A directory that was renamed leaves its old paths in the cache. A call that
  failed leaves caches that answer for what is not there.

*Devices, archives, mounts*

- Sizes of a `FileDevice` and `MMapDevice` with an offset do not deduct it, so that the
  window ends behind the file. A flush of a cached device writes its whole window over
  what others wrote. ext4 on a `FileDevice` opens the path from its start, whatever offset
  and cache the device has; on a `MemDevice` it never opens (`Ext4IoManager.cpp:148`,
  `376`). Closing one ext4 volume takes the device of another out of the table.
- The first end record in the tail of an archive is believed. An empty stored file cannot
  be read. `start + len` wraps. A recursive listing below a directory without an entry
  ends the process.
- Of stacked mounts the first line of the table answers. A mount two levels down on
  its parent's device is not seen. A volume keeps its type and names when its root is
  set. `LocalVolume::at` shares one volume per root, so that `setRootPath` on it moves
  everybody's files. Options with "ro" in them, as in `errors=remount-ro`, count as
  read-only. `VolumeManager.hpp` says that bind mounts are always included; the scan
  skips those of a root "/" without `includeSymbols`, and overlays always.

*Overlays and local volumes*

- A move that could not rename and was done by copying succeeds, and throws
  nevertheless (`LocalVolume.cpp:523`). An empty directory that is moved into
  itself is removed by the same lines.
- `createDirectoriesThrows` on an overlay makes a directory of the top layer over a
  file of a lower one (`Volume.cpp:267`); `createDirectories` does not. A directory that
  is renamed to the place of a file covers what lower layers have below it.
- An append on an overlay starts from nothing when only a lower layer has the file
  (`OverlayVolume.cpp:240`). A removal from the top layer shows the file of a lower
  one, and a copy of a file onto itself replaces it by that one.
- What is written to a local file may be lost when the stream is closed, after it was
  found good, and the call succeeds (`LocalVolume.cpp:470`, `LocalOutputStream.cpp:35`).
  So does a copy on an overlay, which is written this way (`OverlayVolume.cpp:291`), and
  which has zeros for what could not be read (`LocalVolume.cpp:442`).
- `Volume::readLines` stops at the first empty line.

*Readers*

- A seek from the beginning lands wrong while something before it is in the buffer; a
  step back is refused inside the buffer and accepted before it; dropping what was read
  ahead loses it; bytes asked for after characters skip some or give some twice;
  characters across two blocks are replaced.

*The game*

- A wrong password after a right one logs the earlier user in at that device; on the
  device that is not listed, one mistyped password hides the later right one; a user of
  the listed device can log in on the other (`tanks_game.cpp:906`, `tanks_rbac.cpp:185`).

## 6. What is not modelled

- **`net`, `script`, `time`, `fmt`, `util`, parsing and formatting of realms, identities,
  permissions and policies, digests**: transfers, and functions of values; the models
  take their results as inputs.
- **Within components that are modelled**: listings and attributes of overlays and guards,
  owners and modes in ext4 and everything of libext2fs, expiry dates of credentials, the
  text of every file, conversions of values and arrays in registries. Section 2 says it
  module by module.
- **Command lines and applications** other than the game: call the components one at a
  time and print.
- **Tests, translations, packaging.**

## 7. The plan

The modules are those of section 2. What is left to prove, in this order:

1. The property of `ExfatVolume`, whose chains and bits are those of a table and could be
   treated as the ones of FAT32 are, and those of `Fat32Volume` and `Ext4Volume`.
2. `StaysInPlace` and `MountsAreTold`, once their recursions and filters are functions too.

Beyond it: listings of overlays, the owners and modes of ext4, arrays of registries.
