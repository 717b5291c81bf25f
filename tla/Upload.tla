-------------------------------- MODULE Upload --------------------------------
(***************************************************************************)
(* The upload path of qsfs: Drive::UploadFile (src/data/FileMetaData.cpp  *)
(* 965-1016) submits a task to the transfer manager's executor that first *)
(* downloads the ranges of the file not in the cache and then calls       *)
(* TransferManager::UploadFile; its callback, run by the same worker once *)
(* the task returned the handle, records a multipart handle in           *)
(* m_unfinishedMultipartUploadHandles, waits until the handle finished,  *)
(* and erases the record.  ~Drive (380-398) aborts every handle left in   *)
(* the map.  The transfer manager and the executor are outside src/ and  *)
(* follow spec sections 4.4 and 5: a multipart upload initiates a        *)
(* session, submits one task per part to the same executor, retries a     *)
(* part as RetryStrategy says, and completes once every part succeeded.  *)
(*                                                                         *)
(* Data is abstracted away.  The map is shared by the workers without a  *)
(* lock; a concurrent emplace and erase on a std::unordered_map is        *)
(* undefined, and the model gives it the outcome of a lost update by      *)
(* splitting each into a read of the map and a write of the modified     *)
(* copy.                                                                  *)
(***************************************************************************)
EXTENDS Naturals, Sequences, FiniteSets

CONSTANTS
  Files,       \* object keys of the files released
  Threads,     \* worker threads of the transfer executor
  NumParts,    \* parts of a file above the multipart threshold
  MaxUploads,  \* uploads submitted in a behaviour
  MaxRetries,  \* m_maxRetryTimes of the retry strategy
  None         \* no handle

ASSUME Threads \in Nat \ {0} /\ NumParts \in Nat \ {0}
ASSUME MaxUploads \in Nat \ {0} /\ MaxRetries \in Nat

Uploads == 1..MaxUploads

Retry == INSTANCE RetryStrategy WITH
           RetryBound <- MaxRetries, Scales <- {1},
           strategy <- [maxRetryTimes |-> MaxRetries, scaleFactor |-> 1],
           attempted <- 0, delays <- <<>>, calls <- 0, result <- "none"

VARIABLES
  file,       \* the file each submitted upload is for
  unloaded,   \* its ranges missing from the cache at submission
  multipart,  \* its size above the multipart threshold at submission
  pc,         \* where its task and callback are
  queue,      \* the executor's task queue
  part,       \* the state of each part of a multipart upload
  tries,      \* retries made for each part
  hs,         \* the outer state of each upload's TransferHandle
  sessions,   \* multipart sessions open on the object store
  handles,    \* m_unfinishedMultipartUploadHandles: key -> handle
  copy,       \* the map as a callback read it, before writing it back
  down        \* ~Drive has run

vars == <<file, unloaded, multipart, pc, queue, part, tries, hs, sessions,
          handles, copy, down>>

Stages == {"idle", "queued", "fetch", "send", "put", "register",
           "registering", "wait", "unregister", "unregistering", "done"}
(* Stages in which the upload's task or callback holds a worker.         *)
Holding == Stages \ {"idle", "queued", "done"}
PartStates == {"none", "queued", "run", "done", "failed", "exhausted"}
Task(kind, u, i) == [kind |-> kind, u |-> u, i |-> i]
Tasks == {Task(k, u, 0) : k \in {"upload", "get"}, u \in Uploads}
           \cup {Task("part", u, i) : u \in Uploads, i \in 1..NumParts}
HandleMap == [Files -> Uploads \cup {None}]
NoHandles == [f \in Files |-> None]

UploadTypeOK ==
  /\ file \in [Uploads -> Files \cup {None}]
  /\ unloaded \in [Uploads -> BOOLEAN]
  /\ multipart \in [Uploads -> BOOLEAN]
  /\ pc \in [Uploads -> Stages]
  /\ queue \in Seq(Tasks)
  /\ part \in [Uploads -> [1..NumParts -> PartStates]]
  /\ tries \in [Uploads -> [1..NumParts -> 0..MaxRetries]]
  /\ hs \in [Uploads -> {"NotStarted", "InProgress", "Completed", "Failed",
                         "Canceled", "Aborted"}]
  /\ sessions \subseteq Uploads
  /\ handles \in HandleMap
  /\ copy \in [Uploads -> HandleMap \cup {None}]
  /\ down \in BOOLEAN

UploadInit ==
  /\ file = [u \in Uploads |-> None]
  /\ unloaded = [u \in Uploads |-> FALSE]
  /\ multipart = [u \in Uploads |-> FALSE]
  /\ pc = [u \in Uploads |-> "idle"]
  /\ queue = <<>>
  /\ part = [u \in Uploads |-> [i \in 1..NumParts |-> "none"]]
  /\ tries = [u \in Uploads |-> [i \in 1..NumParts |-> 0]]
  /\ hs = [u \in Uploads |-> "NotStarted"]
  /\ sessions = {}
  /\ handles = NoHandles
  /\ copy = [u \in Uploads |-> None]
  /\ down = FALSE

(* Workers busy with an upload's task or callback, or with a part.       *)
Busy == Cardinality({u \in Uploads : pc[u] \in Holding})
          + Cardinality({<<u, i>> \in Uploads \X (1..NumParts) :
                           part[u][i] = "run"})

(* A free worker takes the task at the head of the queue.                *)
Take(t) ==
  /\ Busy < Threads
  /\ queue # <<>> /\ Head(queue) = t

SetPc(u, s) == pc' = [pc EXCEPT ![u] = s]

(***************************************************************************)
(* Drive::UploadFile on a release of file f (FileMetaData.cpp 965-1016):  *)
(* the unloaded ranges and the size are read when the task is submitted;  *)
(* the checks on the node (lines 966-987) are those of a dirty file.      *)
(***************************************************************************)
UploadFile(f) ==
  \E u \in Uploads :
    /\ pc[u] = "idle" /\ \A v \in 1..u-1 : pc[v] # "idle"
    /\ file' = [file EXCEPT ![u] = f]
    /\ \E ul, mp \in BOOLEAN :
         /\ unloaded' = [unloaded EXCEPT ![u] = ul]
         /\ multipart' = [multipart EXCEPT ![u] = mp]
    /\ SetPc(u, "queued")
    /\ queue' = Append(queue, Task("upload", u, 0))
    /\ UNCHANGED <<part, tries, hs, sessions, handles, copy, down>>

(* A worker starts the submitted task: DownloadFileContentRanges with     *)
(* async false (lines 1096-1145) hands each missing range to the transfer *)
(* manager, whose download is a task of the same executor, and waits.    *)
StartTask(u) ==
  /\ Take(Task("upload", u, 0))
  /\ IF unloaded[u]
     THEN /\ queue' = Append(Tail(queue), Task("get", u, 0))
          /\ SetPc(u, "fetch")
     ELSE /\ queue' = Tail(queue)
          /\ SetPc(u, "send")
  /\ UNCHANGED <<file, unloaded, multipart, part, tries, hs, sessions,
                 handles, copy, down>>

(* A worker runs a range download; the waiting task goes on.             *)
RunGet(u) ==
  /\ Take(Task("get", u, 0))
  /\ queue' = Tail(queue)
  /\ UNCHANGED <<file, unloaded, multipart, pc, part, tries, hs, sessions,
                 handles, copy, down>>

Fetched(u) == pc[u] = "fetch" /\ \A k \in 1..Len(queue) : queue[k] # Task("get", u, 0)

(***************************************************************************)
(* TransferManager::UploadFile (spec 4.4): a small file is PUT in one     *)
(* request; a large one initiates a multipart session and submits a task *)
(* per part.  The handle is then given to the callback (line 990).       *)
(***************************************************************************)
SendFile(u) ==
  /\ pc[u] = "send" \/ Fetched(u)
  /\ hs' = [hs EXCEPT ![u] = "InProgress"]
  /\ IF multipart[u]
     THEN /\ sessions' = sessions \cup {u}
          /\ part' = [part EXCEPT ![u] = [i \in 1..NumParts |-> "queued"]]
          /\ queue' = queue \o [k \in 1..NumParts |-> Task("part", u, k)]
          /\ SetPc(u, "register")
     ELSE /\ SetPc(u, "put")
          /\ UNCHANGED <<sessions, part, queue>>
  /\ UNCHANGED <<file, unloaded, multipart, tries, handles, copy, down>>

(* The single-part PUT, retried by the client; the callback then has a   *)
(* handle that is not multipart and goes straight to WaitUntilFinished.  *)
PutObject(u) ==
  /\ pc[u] = "put"
  /\ hs' \in {[hs EXCEPT ![u] = s] : s \in {"Completed", "Failed"}}
  /\ SetPc(u, "wait")
  /\ UNCHANGED <<file, unloaded, multipart, queue, part, tries, sessions,
                 handles, copy, down>>
(***************************************************************************)
(* The callback (lines 990-1004) on the worker that ran the task.  Both   *)
(* map operations are a read of the map and a write of the changed copy, *)
(* so that another worker's operation can fall in between.               *)
(***************************************************************************)
(* m_unfinishedMultipartUploadHandles.emplace(key, handle), line 995: a   *)
(* key already present keeps its handle.                                 *)
EmplaceRead(u) ==
  /\ pc[u] = "register"
  /\ copy' = [copy EXCEPT ![u] = handles]
  /\ SetPc(u, "registering")
  /\ UNCHANGED <<file, unloaded, multipart, queue, part, tries, hs, sessions,
                 handles, down>>

EmplaceWrite(u) ==
  /\ pc[u] = "registering"
  /\ handles' = IF copy[u][file[u]] = None
                THEN [copy[u] EXCEPT ![file[u]] = u] ELSE copy[u]
  /\ copy' = [copy EXCEPT ![u] = None]
  /\ SetPc(u, "wait")
  /\ UNCHANGED <<file, unloaded, multipart, queue, part, tries, hs, sessions,
                 down>>

(* handle->WaitUntilFinished(), line 998: blocks the worker until the     *)
(* handle reached a terminal state.                                      *)
WaitUntilFinished(u) ==
  /\ pc[u] = "wait"
  /\ hs[u] \in {"Completed", "Failed", "Canceled", "Aborted"}
  /\ SetPc(u, "unregister")
  /\ UNCHANGED <<file, unloaded, multipart, queue, part, tries, hs, sessions,
                 handles, copy, down>>

(* m_unfinishedMultipartUploadHandles.erase(key), line 999, for every     *)
(* handle, multipart or not, and whatever handle the key holds; then the *)
(* cache of the file is erased (line 1002, data the model leaves out).   *)
EraseRead(u) ==
  /\ pc[u] = "unregister"
  /\ copy' = [copy EXCEPT ![u] = handles]
  /\ SetPc(u, "unregistering")
  /\ UNCHANGED <<file, unloaded, multipart, queue, part, tries, hs, sessions,
                 handles, down>>

EraseWrite(u) ==
  /\ pc[u] = "unregistering"
  /\ handles' = [copy[u] EXCEPT ![file[u]] = None]
  /\ copy' = [copy EXCEPT ![u] = None]
  /\ SetPc(u, "done")
  /\ UNCHANGED <<file, unloaded, multipart, queue, part, tries, hs, sessions,
                 down>>

(***************************************************************************)
(* A part task (spec 4.4): uploadPart, retried while RetryStrategy's      *)
(* ShouldRetry allows it; a part that cannot be retried fails, on a       *)
(* permanent error or with its retries exhausted.                         *)
(***************************************************************************)
StartPart(u, i) ==
  /\ Take(Task("part", u, i))
  /\ queue' = Tail(queue)
  /\ part' = [part EXCEPT ![u][i] = "run"]
  /\ UNCHANGED <<file, unloaded, multipart, pc, tries, hs, sessions,
                 handles, copy, down>>

UploadPart(u, i) ==
  /\ part[u][i] = "run"
  /\ \E err \in Retry!Outcomes :
       IF err # "ok" /\ Retry!ShouldRetry(err, tries[u][i])
       THEN /\ tries' = [tries EXCEPT ![u][i] = @ + 1]
            /\ UNCHANGED part
       ELSE /\ part' = [part EXCEPT ![u][i] = CASE err = "ok" -> "done"
                                                  [] err = "retryable" -> "exhausted"
                                                  [] OTHER -> "failed"]
            /\ UNCHANGED tries
  /\ UNCHANGED <<file, unloaded, multipart, pc, queue, hs, sessions,
                 handles, copy, down>>

(* No part of the upload is queued or running any more.                  *)
AllPartsEnded(u) ==
  \A i \in 1..NumParts : part[u][i] \in {"done", "failed", "exhausted"}

(* Every part of the upload was uploaded.                                 *)
AllPartsDone(u) == \A i \in 1..NumParts : part[u][i] = "done"

(* Once no part is queued or running: Complete with parts 1..NumParts if  *)
(* all succeeded; otherwise, or if Complete is refused, the handle fails  *)
(* and the session stays open for                                         *)
(* retryUpload or abortMultipartUpload (spec 4.4 step 2).                 *)
FinishMultipart(u) ==
  /\ multipart[u] /\ hs[u] = "InProgress"
  /\ AllPartsEnded(u)
  /\ \E ok \in BOOLEAN :
       IF ok /\ AllPartsDone(u)
       THEN /\ hs' = [hs EXCEPT ![u] = "Completed"]
            /\ sessions' = sessions \ {u}
       ELSE /\ hs' = [hs EXCEPT ![u] = "Failed"]
            /\ UNCHANGED sessions
  /\ UNCHANGED <<file, unloaded, multipart, pc, queue, part, tries,
                 handles, copy, down>>

(***************************************************************************)
(* ~Drive (lines 380-398): AbortMultipartUpload for every handle in the   *)
(* map, which issues Abort for its session and moves a handle still in    *)
(* progress to Aborted (a terminal state is permanent); then the map is   *)
(* cleared.  The process ends with it: no worker step follows.           *)
(***************************************************************************)
DriveDestructor ==
  LET live == {handles[f] : f \in Files} \ {None}
  IN /\ sessions' = sessions \ live
     /\ hs' = [u \in Uploads |-> IF u \in live /\ hs[u] = "InProgress"
                                 THEN "Aborted" ELSE hs[u]]
     /\ handles' = NoHandles
     /\ down' = TRUE
     /\ UNCHANGED <<file, unloaded, multipart, pc, queue, part, tries, copy>>

(* After ~Drive nothing happens.                                          *)
Exited == down /\ UNCHANGED vars

WorkerStep(u) ==
  \/ StartTask(u) \/ RunGet(u) \/ SendFile(u) \/ PutObject(u)
  \/ EmplaceRead(u) \/ EmplaceWrite(u) \/ WaitUntilFinished(u)
  \/ EraseRead(u) \/ EraseWrite(u) \/ FinishMultipart(u)
  \/ \E i \in 1..NumParts : StartPart(u, i) \/ UploadPart(u, i)

UploadNext ==
  \/ ~down /\ \E f \in Files : UploadFile(f)
  \/ ~down /\ \E u \in Uploads : WorkerStep(u)
  \/ ~down /\ DriveDestructor
  \/ Exited

(* The executor's workers take queued tasks while any is free, and a      *)
(* running task or callback is never preempted for good (spec 5).         *)
Fairness ==
  \A u \in Uploads :
    /\ WF_vars(~down /\ StartTask(u)) /\ WF_vars(~down /\ RunGet(u))
    /\ WF_vars(~down /\ SendFile(u)) /\ WF_vars(~down /\ PutObject(u))
    /\ WF_vars(~down /\ EmplaceRead(u)) /\ WF_vars(~down /\ EmplaceWrite(u))
    /\ WF_vars(~down /\ WaitUntilFinished(u))
    /\ WF_vars(~down /\ EraseRead(u)) /\ WF_vars(~down /\ EraseWrite(u))
    /\ WF_vars(~down /\ FinishMultipart(u))
    /\ \A i \in 1..NumParts : /\ WF_vars(~down /\ StartPart(u, i))
                              /\ WF_vars(~down /\ UploadPart(u, i))

UploadSpec == UploadInit /\ [][UploadNext]_vars /\ Fairness

-----------------------------------------------------------------------------
(***************************************************************************)
(* Every upload that UploadFile submitted has its callback return (the    *)
(* file's cache erased) unless the drive is destroyed first.  About the   *)
(* callback blocking its worker in WaitUntilFinished (line 998) and the   *)
(* synchronous range download of the task (line 1011), both waiting for  *)
(* tasks of the executor they occupy.                                    *)
(***************************************************************************)
UploadsFinish ==
  \A u \in Uploads : pc[u] = "queued" ~> (pc[u] = "done" \/ down)

(***************************************************************************)
(* Spec 4.5 and 5: ~Drive aborts every multipart upload still in flight,  *)
(* so that no session of a handle in progress stays open on the store.   *)
(* About the callback registering the handle only after the task returned *)
(* (line 995), the emplace that keeps an older handle of the same key, the*)
(* erase by key (line 999), and the unsynchronized map.                   *)
(***************************************************************************)
ShutdownAbortsInflight ==
  down => \A u \in sessions : hs[u] # "InProgress"
=============================================================================
