-------------------------------- MODULE Drive --------------------------------
(***************************************************************************)
(* The file data path of qsfs's Drive (src/data/FileMetaData.cpp, the     *)
(* Drive.cpp part): OpenFile, ReadFile, WriteFile, UploadFile and          *)
(* DownloadFileContentRanges, for one regular file, together with what    *)
(* they drive: the file's Node entry, its pages in the Cache, the tasks   *)
(* and callbacks run by the transfer executor, and the object in the      *)
(* bucket.                                                                 *)
(*                                                                         *)
(* One FUSE thread issues requests one after another; the executor runs   *)
(* the submitted tasks and their callbacks concurrently with it and with  *)
(* each other.  A request is cut into steps where it blocks or where it   *)
(* acts on a cache check made by an earlier call (ReadFile).  The task of *)
(* an async submission is one step and its callback another, as the      *)
(* callback waits for the transfer before it touches the cache.          *)
(*                                                                         *)
(* Contents are abstracted to blocks of one transfer unit and data to     *)
(* model values; time is a clock of whole seconds, as time_t is.          *)
(***************************************************************************)
EXTENDS Naturals, FiniteSets, FiniteSetsExt, Bags, BagsExt, TLC

CONSTANTS
  NB,         \* number of blocks the file may span
  InitSize,   \* size (in blocks) of the object when the model starts
  UserData,   \* data a FUSE write may carry
  Orig,       \* the object's original content
  Zero,       \* the bytes of a hole, or of a stream nothing was read into
  NoData,     \* a block the cache does not hold
  BufBlocks,  \* GetDefaultTransferMaxBufSize, in blocks
  MaxOps,     \* bound on the number of FUSE requests
  MaxTime     \* bound on the clock

ASSUME InitSize \in 1..NB /\ BufBlocks \in Nat \ {0}

Blocks == 0..NB-1
Values == UserData \cup {Orig, Zero}

VARIABLES
  store,    \* the object in the bucket: its blocks, size and mtime
  node,     \* the Node's FileMetaData: size, mtime, needUpload, fileOpen
  cache,    \* the Cache's pages of the file and their mtime tag
  dls,      \* bag of download tasks submitted to the executor
  uls,      \* bag of upload tasks submitted to the executor
  fuse,     \* the FUSE thread: idle, or blocked in ReadFile's download
  handles,  \* file handles open on the file (opens not yet released)
  clock,    \* time(NULL)
  ops,      \* FUSE requests issued so far
  written,  \* history: last data written per block since the cache was erased
  unsaved,  \* history: data written per block that no PUT has carried yet
  uploaded, \* history: data of the last finished upload, per block not
            \* written since
  lastRead, \* history: the block, data and expectation of the last read
  latest    \* history: the data last written to each block

vars == <<store, node, cache, dls, uls, fuse, handles, clock, ops, written, unsaved,
          uploaded, lastRead, latest>>

NoBlocks == [b \in Blocks |-> NoData]
Idle == [pc |-> "idle", blk |-> 0, mt |-> 0, dl |-> FALSE, buf |-> NoData,
         fsize |-> 0, uploaded |-> NoData]

TypeOK ==
  /\ store \in [data : [Blocks -> Values], size : 0..NB, mtime : 1..MaxTime]
  /\ node \in [size : 0..NB, mtime : 1..MaxTime, needUpload : BOOLEAN,
               fileOpen : BOOLEAN]
  /\ cache \in [data : [Blocks -> Values \cup {NoData}], mtime : 0..MaxTime]
  /\ IsABag(dls) /\ IsABag(uls)
  /\ fuse.pc \in {"idle", "read"}
  /\ handles \in 0..MaxOps
  /\ clock \in 1..MaxTime /\ ops \in 0..MaxOps
  /\ written \in [Blocks -> UserData \cup {NoData}]
  /\ unsaved \in [Blocks -> UserData \cup {NoData}]
  /\ latest \in [Blocks -> UserData \cup {NoData}]

(* The object exists with its original content; its Node was grown from   *)
(* a HEAD, so the entry carries the object's size and mtime; nothing of   *)
(* it is cached.                                                          *)
Init ==
  /\ store = [data |-> [b \in Blocks |-> IF b < InitSize THEN Orig ELSE Zero],
              size |-> InitSize, mtime |-> 1]
  /\ node = [size |-> InitSize, mtime |-> 1, needUpload |-> FALSE,
             fileOpen |-> FALSE]
  /\ cache = [data |-> NoBlocks, mtime |-> 0]
  /\ dls = EmptyBag /\ uls = EmptyBag
  /\ fuse = Idle /\ handles = 0
  /\ clock = 1 /\ ops = 0
  /\ written = NoBlocks /\ unsaved = NoBlocks /\ uploaded = NoBlocks
  /\ lastRead = [done |-> FALSE, blk |-> 0, val |-> NoData,
                 expected |-> NoData, uploaded |-> NoData]
  /\ latest = NoBlocks

Replace(B, x, y) == BagAdd(BagRemove(B, x), y)

(* The seconds time(NULL) may return next: the clock never goes back.     *)
Now == {t \in {clock, clock + 1} : t <= MaxTime}

(***************************************************************************)
(* QSClient::Stat(path, modifiedSince, &modified), as GetNode calls it    *)
(* for a node it found: a HEAD with If-Modified-Since the entry's mtime.  *)
(* A newer object grows the tree again, and Grow replaces the entry by a  *)
(* FileMetaData made from the HEAD (DirectoryTree's SetEntry): the size   *)
(* and mtime of the object, the status bits cleared.                      *)
(***************************************************************************)
Modified == store.mtime > node.mtime
Head == IF Modified
        THEN [size |-> store.size, mtime |-> store.mtime,
              needUpload |-> FALSE, fileOpen |-> FALSE]
        ELSE node

(* Cache::HasFileData: every block cached and the tag equal to the mtime  *)
(* of the entry.                                                          *)
HasFileData(c, S, mt) == (\A b \in S : c.data[b] # NoData) /\ c.mtime = mt

(* Cache::GetUnloadedRanges(path, fileSize) as a set of blocks, and its   *)
(* ranges: the maximal runs of consecutive blocks.                        *)
Unloaded(c, fsize) == {b \in 0..fsize-1 : c.data[b] = NoData}
Runs(S) == UNION {{lo..hi : hi \in {h \in S : lo <= h /\ lo..h \subseteq S /\
                                                h + 1 \notin S}} :
                   lo \in {l \in S : l - 1 \notin S}}

(* DownloadRange's loop: the parts of at most bufSize of a range.         *)
Parts(r) == {{j \in r : (j - Min(r)) \div BufBlocks = k} :
               k \in 0..((Cardinality(r) - 1) \div BufBlocks)}

(* What a ranged GET of block b puts in the stream: the object's data, or *)
(* nothing past the object's end (the stream stays zero-filled).          *)
Get(b) == IF b < store.size THEN store.data[b] ELSE Zero

(* The streams a transfer may leave: filled by the GET, or, when the     *)
(* transfer fails, as it was made (zero-filled).  No caller of           *)
(* DownloadFile looks at the handle's status before it writes the stream *)
(* to the cache.                                                          *)
Streams == {[b \in Blocks |-> Get(b)], [b \in Blocks |-> Zero]}

(* Cache::Write of a part: its blocks, and the mtime tag.                 *)
CacheWrite(c, part, data, mt) ==
  [data |-> [b \in Blocks |-> IF b \in part THEN data[b] ELSE c.data[b]],
   mtime |-> mt]

(* DownloadFileContentRanges(ranges, mtime, async = true): every part of *)
(* every range the cache does not hold becomes a task on the executor.   *)
AsyncDownloads(c, nd, ranges, mt) ==
  LET parts == UNION {Parts(r) : r \in {r \in Runs(ranges) :
                                          ~HasFileData(c, r, nd.mtime)}}
  IN SetToBag({[part |-> p, mt |-> mt, phase |-> "get", buf |-> NoBlocks] :
                 p \in parts})

(* DownloadFileContentRanges(ranges, mtime, async = false), run inside   *)
(* the upload task: range after range, the ones the cache does not hold  *)
(* are fetched and written to the cache, part after part.                 *)
(* The ranges in failed are the ones whose transfer fails.               *)
RECURSIVE FillRanges(_, _, _, _, _)
FillRanges(c, rs, nmt, mt, failed) ==
  IF rs = {} THEN c
  ELSE LET r == CHOOSE x \in rs : \A y \in rs : Min(x) <= Min(y)
           data == [b \in Blocks |-> IF r \in failed THEN Zero ELSE Get(b)]
           c1 == IF HasFileData(c, r, nmt) THEN c ELSE CacheWrite(c, r, data, mt)
       IN FillRanges(c1, rs \ {r}, nmt, mt, failed)

-----------------------------------------------------------------------------
(* FUSE requests.  Each one starts with GetNode, i.e. with Head.  FUSE   *)
(* sends read, write and release only on a handle an open returned.      *)
Request == fuse.pc = "idle" /\ ops < MaxOps /\ ops' = ops + 1

(* Drive::OpenFile: fetch the unloaded ranges asynchronously when the     *)
(* cache does not hold the whole file or the object changed, then mark   *)
(* the node open.                                                         *)
OpenFile ==
  LET n == Head
      mod == Modified
  IN /\ Request
     /\ dls' = IF ~HasFileData(cache, 0..n.size-1, n.mtime) \/ mod
               THEN dls (+) AsyncDownloads(cache, n, Unloaded(cache, n.size), n.mtime)
               ELSE dls
     /\ node' = [n EXCEPT !.fileOpen = TRUE]
     /\ handles' = handles + 1
     /\ UNCHANGED <<store, cache, uls, fuse, clock, written, unsaved, uploaded,
                    lastRead, latest>>

(* Drive::ReadFile of block b, first step: up to the synchronous download *)
(* of the requested part (issued when the cache misses it or the object   *)
(* changed), on which the caller then waits; on a hit, up to the          *)
(* Cache::Read that follows the HasFileData check.  The kernel reads      *)
(* inside the size it knows.                                              *)
ReadStart(b) ==
  LET n == Head
      miss == ~HasFileData(cache, {b}, n.mtime) \/ Modified
  IN /\ Request /\ handles > 0
     /\ b < n.size
     /\ \E s \in Streams :
          fuse' = [pc |-> "read", blk |-> b, mt |-> n.mtime, dl |-> miss,
                   buf |-> IF miss THEN s ELSE NoBlocks,
                   fsize |-> n.size, uploaded |-> uploaded[b]]
     /\ node' = n
     /\ UNCHANGED <<store, cache, dls, uls, handles, clock, written, unsaved,
                    uploaded, lastRead, latest>>

(* ReadFile after the download finished: write it to the cache, submit    *)
(* the unloaded ranges when the file has more after the read, and copy   *)
(* the block out of the cache.                                            *)
ReadFinish ==
  LET b == fuse.blk
      c1 == IF fuse.dl THEN CacheWrite(cache, {b}, fuse.buf, fuse.mt) ELSE cache
      more == fuse.fsize - (b + 1) > 0
  IN /\ fuse.pc = "read"
     /\ cache' = c1
     /\ dls' = IF more
               THEN dls (+) AsyncDownloads(c1, node, Unloaded(c1, fuse.fsize), fuse.mt)
               ELSE dls
     /\ lastRead' = [done |-> TRUE, blk |-> b, val |-> c1.data[b],
                     expected |-> written[b], uploaded |-> fuse.uploaded]
     /\ fuse' = Idle
     /\ UNCHANGED <<store, node, uls, handles, clock, ops, written, unsaved, uploaded,
                    latest>>

(* Mutant of GrowTo: the new size counts one block past the write.     *)
GrowToPastEnd(n, b) == Max({n.size, b + 2})

(* WriteFile's size update: the node grows to the end of the write.     *)
GrowTo(n, b) == Max({n.size, b + 1})

(* Drive::WriteFile of data v to block b: refused unless the node is     *)
(* open; otherwise the cache takes it tagged with time(NULL), the node is *)
(* marked for upload and grows to cover the write.                        *)
WriteFile(b, v) ==
  LET n == Head IN
  /\ Request /\ handles > 0
  /\ \/ /\ ~n.fileOpen
        /\ node' = n
        /\ UNCHANGED <<cache, clock, written, unsaved, uploaded, latest>>
     \/ /\ n.fileOpen
        /\ \E t \in Now :
             /\ cache' = CacheWrite(cache, {b}, [x \in Blocks |-> v], t)
             /\ clock' = t
        /\ node' = [n EXCEPT !.needUpload = TRUE, !.size = GrowTo(n, b)]
        /\ written' = [written EXCEPT ![b] = v]
        /\ unsaved' = [unsaved EXCEPT ![b] = v]
        /\ uploaded' = [uploaded EXCEPT ![b] = NoData]
        /\ latest' = [latest EXCEPT ![b] = v]
  /\ UNCHANGED <<store, dls, uls, fuse, handles, lastRead>>

(* Drive::UploadFile, on the release of an open handle: nothing unless  *)
(* the node needs upload; otherwise submit one task with the size,      *)
(* unloaded ranges and mtime read now.                                   *)
UploadFile ==
  LET n == Head IN
  /\ Request
  /\ handles > 0 /\ handles' = handles - 1
  /\ node' = n
  /\ uls' = IF n.needUpload
            THEN BagAdd(uls, [stage |-> "fill", ranges |-> Unloaded(cache, n.size),
                              mt |-> n.mtime, fsize |-> n.size,
                              snap |-> NoBlocks, put |-> FALSE])
            ELSE uls
  /\ UNCHANGED <<store, cache, dls, fuse, clock, written, unsaved, uploaded,
                 lastRead, latest>>

-----------------------------------------------------------------------------
(* The executor.                                                          *)

(* An async download task: TransferManager::DownloadFile fetches the    *)
(* part into the task's stream, or fails and leaves it unfilled.          *)
DownloadGet(t) ==
  /\ t.phase = "get"
  /\ \E s \in Streams :
       dls' = Replace(dls, t, [t EXCEPT !.phase = "store", !.buf = s])
  /\ UNCHANGED <<store, node, cache, uls, fuse, handles, clock, ops, written, unsaved,
                 uploaded, lastRead, latest>>

(* Its callback: after WaitUntilFinished, Cache::Write of the stream     *)
(* with the mtime read when the task was submitted.                       *)
DownloadStore(t) ==
  /\ t.phase = "store"
  /\ cache' = CacheWrite(cache, t.part, t.buf, t.mt)
  /\ dls' = BagRemove(dls, t)
  /\ UNCHANGED <<store, node, uls, fuse, handles, clock, ops, written, unsaved,
                 uploaded, lastRead, latest>>

(* The upload task, first half: download the ranges that were unloaded  *)
(* at submission (synchronously, into the cache).                        *)
UploadFill(u) ==
  /\ u.stage = "fill"
  /\ \E failed \in SUBSET Runs(u.ranges) :
       cache' = FillRanges(cache, Runs(u.ranges), node.mtime, u.mt, failed)
  /\ uls' = Replace(uls, u, [u EXCEPT !.stage = "send"])
  /\ UNCHANGED <<store, node, dls, fuse, handles, clock, ops, written, unsaved,
                 uploaded, lastRead, latest>>

(* Second half: TransferManager::UploadFile(filePath, fileSize) reads   *)
(* the file out of the cache and starts the PUT; the handle it returns  *)
(* goes to the callback.                                                  *)
UploadSend(u) ==
  /\ u.stage = "send"
  /\ uls' = Replace(uls, u, [u EXCEPT !.stage = "cb",
                 !.snap = [b \in Blocks |-> IF b < u.fsize THEN cache.data[b]
                                                             ELSE NoData]])
  /\ UNCHANGED <<store, node, cache, dls, fuse, handles, clock, ops, written, unsaved,
                 uploaded, lastRead, latest>>

(* The PUT completes: the object becomes what was read from the cache    *)
(* (a block the cache no longer held is read as nothing), with the time *)
(* of the upload as its mtime.                                            *)
UploadPut(u) ==
  /\ u.stage \in {"cb", "wait"} /\ ~u.put
  /\ \E t \in Now :
       /\ store' = [data |-> [b \in Blocks |-> IF u.snap[b] \in Values
                                               THEN u.snap[b] ELSE Zero],
                    size |-> u.fsize, mtime |-> t]
       /\ clock' = t
  /\ uls' = Replace(uls, u, [u EXCEPT !.put = TRUE])
  /\ unsaved' = [b \in Blocks |-> IF unsaved[b] = u.snap[b] THEN NoData
                                  ELSE unsaved[b]]
  /\ UNCHANGED <<node, cache, dls, fuse, handles, ops, written, uploaded,
                 lastRead, latest>>

(* UploadFile's callback, up to WaitUntilFinished: the node no longer    *)
(* needs upload and is no longer open.                                    *)
UploadCallback(u) ==
  /\ u.stage = "cb"
  /\ node' = [node EXCEPT !.needUpload = FALSE, !.fileOpen = FALSE]
  /\ uls' = Replace(uls, u, [u EXCEPT !.stage = "wait"])
  /\ UNCHANGED <<store, cache, dls, fuse, handles, clock, ops, written, unsaved,
                 uploaded, lastRead, latest>>

(* The rest of the callback, once the PUT finished: Cache::Erase.        *)
UploadErase(u) ==
  /\ u.stage = "wait" /\ u.put
  /\ cache' = [data |-> NoBlocks, mtime |-> 0]
  /\ written' = NoBlocks
  /\ uploaded' = [b \in Blocks |-> IF u.snap[b] \in Values THEN u.snap[b] ELSE NoData]
  /\ uls' = BagRemove(uls, u)
  /\ UNCHANGED <<store, node, dls, fuse, handles, clock, ops, unsaved, lastRead,
                 latest>>

(* Cache eviction frees a page of a file that is neither dirty nor open. *)
Evict(b) ==
  /\ cache.data[b] # NoData
  /\ ~node.needUpload /\ ~node.fileOpen
  /\ cache' = [cache EXCEPT !.data[b] = NoData]
  /\ UNCHANGED <<store, node, dls, uls, fuse, handles, clock, ops, written, unsaved,
                 uploaded, lastRead, latest>>

(* Every request issued and every task run: the behaviour stutters.     *)
Quiescent ==
  /\ ops = MaxOps /\ fuse.pc = "idle" /\ dls = EmptyBag /\ uls = EmptyBag
  /\ UNCHANGED vars

Next ==
  \/ OpenFile
  \/ \E b \in Blocks : ReadStart(b)
  \/ ReadFinish
  \/ \E b \in Blocks, v \in UserData : WriteFile(b, v)
  \/ UploadFile
  \/ \E t \in BagToSet(dls) : DownloadGet(t) \/ DownloadStore(t)
  \/ \E u \in BagToSet(uls) : \/ UploadFill(u) \/ UploadSend(u)
                              \/ UploadPut(u) \/ UploadCallback(u)
                              \/ UploadErase(u)
  \/ \E b \in Blocks : Evict(b)
  \/ Quiescent

Spec == Init /\ [][Next]_vars

-----------------------------------------------------------------------------
(* Some upload whose PUT has not completed carries data d for block b.   *)
InFlight(b, d) == \E u \in BagToSet(uls) : ~u.put /\ u.snap[b] = d

(***************************************************************************)
(* Spec section 8: a read returns the latest content the file was given:  *)
(* the data last written to the block (as long as the file was not        *)
(* uploaded, its cache erased, in between), or, for a read begun after an *)
(* upload ended and a block not written since, the data the upload       *)
(* carried; and a block of the original object, never a hole, is never  *)
(* read as zeros.  About WriteFile's time(NULL) tag, ReadFile's          *)
(* re-download on a miss, the HEAD's If-Modified-Since of whole seconds,  *)
(* the async download callbacks that write the cache after the FUSE      *)
(* write or after UploadFile's callback erased it, and the callbacks     *)
(* that write a failed transfer's unfilled stream to the cache.          *)
(***************************************************************************)
ReadReturnsLatest ==
  /\ lastRead.expected # NoData => lastRead.val = lastRead.expected
  /\ lastRead.uploaded # NoData /\ lastRead.val # NoData =>
       lastRead.val = lastRead.uploaded
  /\ lastRead.done /\ lastRead.blk < InitSize => lastRead.val # Zero

(***************************************************************************)
(* Data written to the file and carried by no PUT, finished or under way, *)
(* keeps the node marked for upload, so that the next release uploads it.*)
(* About UploadFile's callback clearing needUpload and fileOpen after    *)
(* the cache was read, and GetNode replacing the entry on a newer object.*)
(***************************************************************************)
UnsavedWriteMarked ==
  \A b \in Blocks :
    unsaved[b] # NoData /\ ~InFlight(b, unsaved[b]) => node.needUpload

(***************************************************************************)
(* Every copy out of the cache finds the blocks it copies: a read of a    *)
(* block inside the file returns data, and an upload reads every block of *)
(* the file (spec 4.5: UploadFile makes every range cache-resident before *)
(* it uploads from the cache).  About the HasFileData check or the ranges *)
(* computed at submission, and the copy made after them, with an upload   *)
(* callback's Cache::Erase or an eviction able to run in between.         *)
(***************************************************************************)
CacheCopyComplete ==
  /\ lastRead.done => lastRead.val # NoData
  /\ \A u \in BagToSet(uls) :
       u.stage \in {"cb", "wait"} => \A b \in 0..u.fsize-1 : u.snap[b] # NoData

(***************************************************************************)
(* Spec section 4.5 (uploadFile on release, then the next access re-reads *)
(* authoritative data): once no upload task is left and the node does not *)
(* need upload, the object holds the data last written to every block.   *)
(* About upload tasks of the same file whose PUTs finish in either order, *)
(* failed transfers whose unfilled streams are uploaded, and the callback *)
(* that clears needUpload for writes its upload did not carry.           *)
(***************************************************************************)
WritesReachStore ==
  uls = EmptyBag /\ ~node.needUpload =>
    \A b \in Blocks : latest[b] # NoData => store.data[b] = latest[b]

(***************************************************************************)
(* Spec section 4.5 (writeFile requires the node is open; openFile marks  *)
(* it open): while the kernel holds an open handle on the file, the node *)
(* is marked open, so a write through that handle is taken.  About       *)
(* UploadFile's callback, which clears fileOpen on the release of one     *)
(* handle while others stay open, and GetNode's refresh, which replaces  *)
(* the entry with its status bits cleared.                               *)
(***************************************************************************)
OpenHandlesWritable == handles > 0 => node.fileOpen

(* Writes through an open handle are taken, kept until saved, and saved  *)
(* data is the latest: the three properties above.                       *)
WritesPersist == UnsavedWriteMarked /\ WritesReachStore /\ OpenHandlesWritable
=============================================================================
