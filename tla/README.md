# TLA+ models of qsfs (QingStor FUSE file system)

This directory holds TLA+ models of the qsfs sources under `src/`, along with
the TLC configurations that check them. `PROJECT.json` lists the components,
the runs, the mutants, the map from each definition to its source lines, the
findings and the hazards.

## The system and how its parts interact

qsfs mounts a QingStor bucket as a FUSE file system.

- **FUSE callbacks** call into **Drive**, a singleton. Drive lives in
  `src/src/data/FileMetaData.cpp`, after FileMetaData.
- Drive keeps a **DirectoryTree** of `Node`s (`src/cmake/templates/config.cmake.in`).
  - Each node holds an `Entry`, which is a `weak_ptr` to a **FileMetaData**.
  - The FileMetaData objects are owned by the **FileMetaDataManager** (header only).
  - The tree grows from the results of HEAD (`QSClient::Stat`) and LIST
    requests. Those results can arrive in any order: a child before its
    parent, or a second time.
- File contents go through a page **Cache** (not in `src/`). A **QSTransferManager**
  runs downloads and uploads as tasks on an executor. The callbacks of those
  tasks write into the cache and the node concurrently with the FUSE thread.
- Client requests and transfer parts are retried according to a
  **RetryStrategy** (`src/src/client/RetryStrategy.cpp`).
- A release uploads the file: `Drive::UploadFile` submits a task to the
  transfer manager's executor. The task downloads the ranges missing from
  the cache and calls the transfer manager's `UploadFile`. Its callback runs
  on the same worker and records a multipart handle in
  `m_unfinishedMultipartUploadHandles`. It then waits for the handle and
  erases the record. `~Drive` aborts every handle left in that map.

## Modules

| Module | Models | State | Actions |
|---|---|---|---|
| `DirectoryTree` | `Entry`, `Node::Insert`, `Node::Remove`, `Node::RenameChild`, `Node::~Node`, `DirectoryTree::Grow` (one and many), `Find`, `DirectoryTree::Remove` and `Rename` (from the spec), plus the FileMetaData constructor's link count and `MyDirName` | `tree`: the node objects, `m_map`, `m_parentToChildrenMap`, the live set and `m_currentNode`. `metas`: the paths the metadata manager holds | `Grow(p)` is a HEAD result. `GrowBatch(d, ps)` is a LIST result (d and its keys under one lock). `NodeBoundReached` stutters once the node bound is hit |
| `Namespace` | Drive's namespace operations composed with `DirectoryTree`: `Connect`, `GetNode` (getattr), `GetChildren`, `DeleteFile`, `DeleteDir`, `MakeFile`, `MakeDir`, `RenameFile`/`RenameDir`, `SymLink`; the client calls they make (modelled from the spec) and the executor that runs the asynchronous ones | the tree's `tree` and `metas`, plus `bucket` (key to mtime; a directory is its marker key), `tasks` (the set of HEAD, LIST and DELETE calls submitted and not yet run; a HEAD or LIST carries the store's answer once it was given), `clock`, `ops`, and the histories `made` and `removed` (paths a DELETE removed) | one action per Drive operation, each a whole request with its synchronous client calls; `RunTask(k)` runs one submitted call: a DELETE in one step, a HEAD or LIST as `RunRequest` (the store answers) then `RunResponse` (the answer is grown); `Done` stutters at the bounds |
| `Drive` | `OpenFile`, `ReadFile`, `WriteFile`, `UploadFile`, `DownloadFileContentRanges` and `GetNode`'s If-Modified-Since refresh, for one file | `store` (the object), `node` (size, mtime, needUpload, fileOpen), `cache` (pages plus mtime tag), bags `dls`/`uls` of executor tasks, `fuse`, `handles`, `clock`, and history variables (`latest` is the data last written to each block) | `OpenFile`, `ReadStart`/`ReadFinish`, `WriteFile`, `UploadFile` (release); `DownloadGet`/`DownloadStore` (task and callback); `UploadFill`, `UploadSend`, `UploadPut`, `UploadCallback`, `UploadErase`; `Evict`; `Quiescent` |
| `FileAccess` | `FileMetaData::FileAccess` as a pure operator (Bitwise `&` on the mode), with `SpecAccess` as the reference check. Node creation: `Drive::MakeFile`'s decoding of the type from the mknod mode, `MakeDir`, `SymLink`, and the `st_mode` that `GetFileTypeAndMode` gives `ToStat`, with POSIX `S_ISxxx` as the reference | `meta` (uid, gid, mode, has a path), `last` (the last request and its answer) and `made` (the last creation: the mode asked for, the node grown, whether an object was PUT, whether the client call failed) | `Access(uid, gid, amode)`, `MakeFile(mode)` for each mknod type, `MakeDir(mode)`, `SymLink` |
| `RetryStrategy` | `ShouldRetry`, `CalculateDelayBeforeNextRetry`, and `GetCustomRetryStrategy`. The client's retry loop is modelled from the spec | the strategy, the attempt count, the delays waited, and the result | `Call` (one attempt with any outcome). `Upload` instantiates the module for `ShouldRetry` |
| `Upload` | `Drive::UploadFile`'s task and callback for several uploads at once, `m_unfinishedMultipartUploadHandles`, and `~Drive`. It is composed with the transfer manager's upload (spec 4.4), a part task per part with `RetryStrategy`'s `ShouldRetry`, and the executor (spec 5) as a FIFO queue served by `Threads` workers | `file`, `unloaded`, `multipart` (fixed at submission), `pc` (where each task and callback is), `queue`, `part`/`tries`, `hs` (handle states), `sessions` (multipart sessions open on the store), `handles` (the map), `copy` (the map as a callback read it), `down` | `UploadFile(f)`; `StartTask`, `RunGet`, `SendFile`, `PutObject`; `EmplaceRead`/`EmplaceWrite`, `WaitUntilFinished`, `EraseRead`/`EraseWrite`; `StartPart`, `UploadPart`, `FinishMultipart`; `DriveDestructor`, `Exited` |

Each `MC_*` module instantiates one of these modules with small constants.

### How the models follow the code

- **Node ownership.** In DirectoryTree a node dies as soon as it is no
  longer reachable from `m_root` or `m_currentNode` through `m_children`.
  This is the shared_ptr semantics. Its destructor then decrements the
  entry's link count and may erase the metadata.
  - `m_map` and `m_parentToChildrenMap` keep weak pointers, so they can name
    dead nodes, as in the code.
  - `emplace` on an existing key is a no-op.
- **The FUSE thread.** In Drive there is one FUSE thread.
  - ReadFile is split into `ReadStart` and `ReadFinish`. `ReadStart` covers
    GetNode, the HasFileData check and the blocking download. `ReadFinish`
    covers the cache write, the async prefetch and `Cache::Read`. Other
    threads' callbacks can run between the check and the read.
  - Every other request is one step.
- **Executor tasks.** A submitted task (GET or PUT) is one step, and its
  callback is another. In Namespace a submitted client call (HEAD, LIST,
  DELETE) is a member of `tasks`; the executor runs any of them next, as
  its pool of threads and priority queue allow.
- **Namespace requests.** Each Drive operation is one step: its GetNode,
  its synchronous client calls (the PUT of MakeFile, the MOVE of a rename
  and the GetNode after it, the prioritized LIST that GetChildren waits for)
  and the tree updates they cause. The kernel creates a name only in a
  directory its lookup found (`ParentFound`). Renames stay in one
  directory, because `Node::RenameChild` re-keys a child within one parent.
- **Time and mtime.** The clock counts whole seconds. `WriteFile` tags the
  cache with `time(NULL)` and leaves the node's mtime unchanged, as the code
  does. `UploadPut` gives the object an mtime of the current second.
- **Uploads and the executor.** In Upload a worker is busy from the moment
  it takes the upload task until the callback has erased the record. The task
  and its callback hold the same worker (`SubmitAsync(callback, task)`).
  Meanwhile it waits twice for other tasks of the same executor. The first
  wait is the synchronous range download (`DownloadFileContentRanges(...,
  false)`, line 1011). The second is `WaitUntilFinished` on the part tasks
  (line 998). `emplace` and `erase` on the unlocked map are each a read step
  and a write step. A concurrent pair is undefined behaviour, and this split
  gives it the outcome of a lost update. `~Drive` is the last step of a
  behaviour: the process ends with it.
- **Failed transfers.** Every ranged GET may fail: the async task
  (`DownloadGet`), ReadFile's synchronous download (`ReadStart`) and the
  upload task's synchronous fill (`UploadFill`, any subset of its ranges).
  A failed GET leaves its stream as it was made, zero-filled (`Streams`).
  None of the three callers looks at the handle's status, so the stream
  is written to the cache all the same.
- **Node creation.** In FileAccess, `MakeFile` is the whole of
  `Drive::MakeFile`. The type is decoded by testing `mode & S_IFxxx` in the
  code's order. A File is PUT and its node comes from the asynchronous Stat
  with the configured file mode. Any other type is grown locally with the
  mode as given. The client call may fail. The kernel's mknod passes only
  the five types in `MknodKinds`.
- **Environment assumptions.** The kernel sends read, write and release only
  for a file that has an open handle. Reads start inside the size the node
  knows.

Cache, TransferManager, QSClient, the executor, `Node::IsEmpty`,
`DirectoryTree::Remove`/`Rename`, and the retry loop are not in `src/`. Their definitions are modelled from `spec.md` and marked
`spec_modelled` in the map.

## Runs

| Run | Expect | What it shows |
|---|---|---|
| `namespace_safety` | pass | Paths `/`, `/a/`, `/a/x`, `/a/y`, `/b/`, `/b/x`, `/b/y`; the bucket holds `/a/` and `/a/x` at mount; renames `/a/x -> /a/y` and `/a/ -> /b/`; 4 requests, 7 node objects, a clock of 2 s. `NamespaceTypeOK` and `NamespaceRootedPersist`: no request and no executor call destroys a node held under the root, except the nodes at or under the path of a DELETE that the step runs. About 525k states in 45 s. |
| `namespace_acknowledged` | violation | `NamespaceAcknowledged` is `BucketKeepsNamespace` and `DeletedStaysDeleted`. Connect lists `/`, which grows `/a/` but not `/a/x`; rmdir `/a/` finds no children in the tree, and its DELETE removes the marker while `/a/x` stays in the bucket. After an unlink of `/a/x` and a create of `/a/x`, the unlink's queued DELETE removes the file just created. And the store answers connect's asynchronous LIST of `/` with `/a/`, an rmdir's DELETE then removes `/a/`, and the LIST response arriving afterwards regrows `/a/` in the tree (`DeletedStaysDeleted`, spec 5's ordering of a write before a later read). Each part was checked alone and fails. |
| `dirtree_path_lookups` | violation | `PathLookupsConsistent` is `GrownNodeFindable` and `RootedNodesHaveMeta`. First, a Grow can leave its own node unfindable. A node grown before its parent is owned only by `m_currentNode` and dies on the next Grow. Its stale `m_map` key then blocks the emplace of the node built for the same path later. Second, a duplicate node of a path dies, and `~Node` erases by path the metadata that the rooted node of that path still uses. Each half was checked alone and fails. |
| `dirtree_linkcount` | violation | `DirLinkCount`: growing an existing directory resets its link count to 2, so the count of subdirectories that `Node::Insert` kept is lost. |
| `drive_types` | pass | The whole data path with NB=2 blocks, 2 user values, a transfer buffer of 1 block, 5 FUSE requests and a clock of up to 3 s. It covers two handles, writes that extend the file, overlapping uploads, downloads finishing after uploads, failed transfers, and eviction. Every action fires, nothing deadlocks, and `TypeOK` holds. About 966k states in 30 s. |
| `drive_read_latest` | violation | `ReadReturnsLatest`: open, write, read returns the object's old data, because the cache tag written by WriteFile (`time(NULL)`) differs from the node's mtime whenever the write lands in a later second than the object's mtime. The property's other half fails too. After an upload, a late download callback puts the old data back with the old mtime tag. The whole-second If-Modified-Since check does not see the change, so the stale page is served. The third part fails as well. A failed GET's zero-filled stream is cached and read back as the content of a block of the original object. With transfers that never fail, this third part holds in the same model. |
| `drive_writes_persist` | violation | `WritesPersist` is `UnsavedWriteMarked`, `WritesReachStore` and `OpenHandlesWritable`. A write through a second handle, past the size captured at release, is neither in the PUT nor marked needUpload once the callback runs. `WritesReachStore` says that once no upload is left and nothing is marked, the object holds the last data written. It is checked with 6 requests, which is enough for two releases that each carry a write. A copy of the model takes out the callback's clearing of needUpload, the stale download callback and the `time(NULL)` cache tag. TLC still breaks `WritesReachStore` there: the PUTs of two upload tasks land in the opposite order. The third part, `OpenHandlesWritable`, fails too. The callback of one release clears fileOpen while a second handle is open, and writes through that handle then return 0. |
| `drive_cache_copy` | violation | `CacheCopyComplete`: a copy out of the cache misses a block. A read that passed `HasFileData` returns no data, because an erase or an eviction ran before `Cache::Read`. Likewise, with two releases the second upload reads a cache that the first callback erased. |
| `entry_answers` | violation | `EntryAnswersAsSpecified` is `AccessAsSpecified` and `MadeAsRequested`. FileAccess disagrees with the specified check. F_OK is refused (`amode & F_OK` is always 0), and X_OK never reaches the execute branch, which is gated by `W_OK`. MakeFile decodes the type codes as if they were flags. A character device (`0020000`) matches `S_IFBLK` (`0060000`) and stats as a block device. A socket (`0140000`) matches `S_IFREG` (`0100000`), so it is PUT to the bucket and stats as a regular file, where spec 4.5 says a socket is created only locally. ToStat puts the mknod device number in `st_dev` and never sets `st_rdev`. The struct is not initialised, so the model gives `st_rdev` any value, and a block device reports the wrong device. Each part was checked alone and fails. |
| `upload_lifecycle` | pass | Two releases, of one file or two files, each small or multipart, with or without ranges to download, on three workers. Multipart uploads have one part, and a part gets 1 retry. The check is `UploadTypeOK`: every state the tasks, part tasks, callbacks and `~Drive` reach is well formed, including a part's retry count staying within the bound `ShouldRetry` enforces. Every action fires. About 331k states. |
| `upload_pool_deadlock` | violation | `UploadsFinish` with two workers: two releases of files with uncached ranges. Each task waits for a range download queued behind it on the same executor, so both workers wait forever. |
| `upload_shutdown_leak` | violation | `ShutdownAbortsInflight`: a multipart upload initiates its session, and `~Drive` runs before the callback's emplace. The map is empty, so the session of the handle in progress is never aborted. The same happens through the emplace that keeps an older handle of the same key, the erase by key, and a lost update on the map. |
Each passing run has a mutant in `PROJECT.json`. The mutant is a plausible bug
in a mapped definition, and it makes the run fail:

- `InitNumLinkZero` (a file's link count starts at 0, and a dying node's goes negative)
- `RemoveChildClearAll` (`Node::Remove` clears every child, not just the one it is given)
- `GrowToPastEnd`
- `ShouldRetryPastBound` (`ShouldRetry` tested with `>`: a part's retry
  count leaves its range) for `UploadTypeOK`

### Why the bounds are enough

- **Namespace.** Two directories with two files each are what a rename of a
  file within a directory and a rename of a directory need. Starting with
  `/a/` and `/a/x` in the bucket gives both a listed and an unlisted child.
  Four requests allow connect, a lookup, a delete or rename, and a create
  (the traces above need three). Seven node objects allow each path once plus
  rebuilds. A clock of two seconds lets a create or MOVE land in the mount
  second or the next one.
- **DirectoryTree.** Five paths on two directory levels are enough for each
  case Grow handles:
  - a child before its parent;
  - a grandchild before both;
  - a repeated Grow of a live node;
  - a re-grow after an orphan died.

  Eight nodes allow every path to be built once plus three rebuilds.
- **Drive.**
  - Two blocks with a one-block buffer give a download of two parts.
  - A write at block 1 extends a one-block file.
  - Five requests allow open, open, write, release, release, or
    open, write, read, release plus one more.
  - A clock of three seconds lets an upload land in the same second as the
    old mtime and also in a later one.

  Each violation above needs at most five requests, except two PUTs
  landing out of order, which needs six (two writes, each released).
- **FileAccess** enumerates every mode and amode exhaustively, and every
  type mknod(2) may pass, with the default file mode 0644.
- **Upload.** Two uploads are the least that can race on the map, and the
  least that can share a key. Two files give both the same-key case and the
  different-key case. Three workers are one more than the uploads can hold
  blocked, so the pass run has a free worker for part and download tasks.
  Two workers, as many as the uploads, show the deadlock. One retry gives a
  part both a retried failure and an exhausted one. One part per multipart
  upload keeps the liveness run of the deadlock small. A second part adds parallel parts of one upload, which no
  property tells apart from one part.

## Fairness

Only `UploadSpec` has fairness. It is weak fairness of each worker step of
each upload and part: taking a queued task when a worker is free, and each
step of a task or callback that is running. The executor's workers loop over
the queue, and a running task is never preempted for good (spec 5), which
justifies this. `UploadFile` (a release) and `DriveDestructor` (an unmount)
are the user's choices and get no fairness. `UploadsFinish` therefore
concludes `pc[u] = "done" \/ down`.

The other specifications check safety only. For Namespace, the liveness
worth stating is that a created path eventually becomes findable. It fails
through the stale `m_map` key of `GrownNodeFindable` and through the delete
race, so a run would only repeat those findings.

## Not modelled, and why

- `Drive::HardLink` only calls `DirectoryTree::HardLink`, which is not in
  `src/`. TruncateFile is an empty stub. The Drive constructor is the
  initial state. Of the destructor, Upload models the abort of the
  registered handles; deleting the temporary folder and resetting the
  members is teardown I/O.
- In Namespace, `ParentChildConsistent` (spec section 8, stated in DirectoryTree) fails,
  in two ways. First, a node removed from the tree is still held by
  `m_currentNode` and recorded in `m_parentToChildrenMap`; Grow of its
  directory adopts it (config.cmake.in:291), and `Node::Insert` then refuses
  the node grown later for the same path. Second, through the stale `m_map`
  key of `GrownNodeFindable`. The first way goes through
  `DirectoryTree::Remove`, which is not in `src/`. Spec scenario 4's rename
  postcondition fails through the second way. Both are listed as hazards, and
  the twelve runs go to the findings that rest on `src/` alone.
- Renaming onto an existing path: the tree's Rename aborts while the MOVE
  has replaced the target (a hazard).
- The older Drive in `src/unnamed/part_001` duplicates the current code. Its
  null dereference at line 165 is listed as a hazard.
- Only the header of FileMetaDataManager (LRU eviction with pinned
  entries) is in `src/`, and no source line uses its eviction. Only the
  paths it holds are modelled (in DirectoryTree).
- Of the transfer manager, `RetryUpload`, cancellation, the ETag list of
  Complete, and the failure of Initiate are not modelled, because qsfs calls
  none of them. A failed multipart upload leaves its session open (spec
  4.4). The callback erases its handle, so `~Drive` does not abort that
  session either; this is listed as a hazard. The spec does not say who
  should close it. Upload abstracts the data away. The object content of two uploads
  of one file finishing out of order is checked in Drive instead.
- The standalone retry loop of `RetryStrategy` has no run of its own, and
  no property restates the `>=` bound of `ShouldRetry`. Upload uses
  `ShouldRetry` for every part, and `UploadTypeOK` fails if a part's retry
  count passes the bound. The transfer handle's abstract state machine
  (spec 4.4) is not checked as a refinement: the transfer manager that
  drives it is not in `src/`, so only spec text would be checked against
  spec text.
- The adoption of orphans in Grow (config.cmake.in:291) has no property of
  its own. An orphan grown before its parent is owned only by
  `m_currentNode`. So the loop can only save the node of the Grow just
  before the parent's, and TLC finds `ParentChildConsistent` unchanged in
  the tree alone when the loop is taken out. The orphans that die show up as
  the stale `m_map` key of `GrownNodeFindable`.
- `CalculateDelayBeforeNextRetry` returns 0 for the first retry, where spec
  scenario 6 says 1x the scale factor. No run checks this, because the
  property would only restate that one formula.
- The overflow of `1 << n` (32-bit) is beyond TLC's integers at the real
  width.
- Logging, RegisterInitializers, the cmake files and the converter and
  constant headers are I/O, wiring or declarations.
