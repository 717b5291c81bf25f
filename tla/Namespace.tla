------------------------------ MODULE Namespace ------------------------------
(***************************************************************************)
(* The namespace operations of qsfs's Drive (src/data/FileMetaData.cpp,  *)
(* the Drive.cpp part): Connect, GetNode, GetChildren, DeleteFile,        *)
(* DeleteDir, MakeFile, MakeDir, RenameFile, RenameDir and SymLink, over  *)
(* the DirectoryTree they update and the bucket they change through the   *)
(* client.                                                                 *)
(*                                                                         *)
(* The FUSE thread issues one request at a time; a request's synchronous  *)
(* client calls are part of its step.  Calls submitted with SubmitAsync   *)
(* run later on the executor, in any order: a DELETE as one step, a HEAD  *)
(* or LIST as the store's answer and, later, the Grow of it.  The client *)
(* (QSClient, not in src/) is modelled from the spec: a HEAD or LIST that *)
(* finds objects grows the tree, a DELETE that succeeds removes the path  *)
(* from the tree, a MOVE that succeeds renames it there.                  *)
(*                                                                         *)
(* A directory is a marker object whose key ends with '/'; the bucket     *)
(* maps every key to its mtime, in whole seconds.                         *)
(***************************************************************************)
EXTENDS DirectoryTree

CONSTANTS
  InitObjects,  \* the objects in the bucket at mount, with their mtime 1
  Renames,      \* the <<old, new>> pairs a rename request may name
  MaxOps,       \* bound on the number of FUSE requests
  MaxTime       \* bound on the clock

ASSUME InitObjects \subseteq Paths \ {RootPath}
ASSUME \A r \in Renames : r[1] # RootPath /\ r[1].dir = r[2].dir

VARIABLES
  bucket,  \* the objects in the bucket: path -> mtime
  tasks,   \* the client calls submitted to the executor and not yet run
  clock,   \* time(NULL), and the clock of the object store
  ops,     \* FUSE requests issued so far
  made,    \* history: paths a FUSE create made that no later request removed
  removed  \* history: paths a DELETE removed that no local create regrew

nsvars == <<tree, metas, bucket, tasks, clock, ops, made, removed>>

(* A submitted call.  A HEAD or LIST is a request and its response: once  *)
(* the store answered, snap holds the keys it reported, with their mtime, *)
(* until the response is grown into the tree.                             *)
NoSnap == [q \in {} |-> 1]
Call(op, p) == [op |-> op, path |-> p, rec |-> FALSE, got |-> FALSE, snap |-> NoSnap]

NamespaceTypeOK ==
  /\ TypeOK
  /\ IsMapInto(bucket, 1..MaxTime) /\ RootPath \notin DOMAIN bucket
  /\ \A k \in tasks : /\ k.op \in {"stat", "list", "delete", "rmdir"}
                    /\ k.path \in Paths /\ k.rec \in BOOLEAN /\ k.got \in BOOLEAN
                    /\ IsMapInto(k.snap, 1..MaxTime)
  /\ clock \in 1..MaxTime /\ ops \in 0..MaxOps
  /\ made \subseteq Paths /\ removed \subseteq Paths

(* Drive's constructor made the tree with its root; nothing is listed.   *)
NamespaceInit ==
  /\ Init
  /\ bucket = [p \in InitObjects |-> 1]
  /\ tasks = {} /\ clock = 1 /\ ops = 0 /\ made = {} /\ removed = {}

Now == {t \in {clock, clock + 1} : t <= MaxTime}

(* The keys at or under path p (only p itself for a file).                *)
Under(B, p) == {q \in B : q = p \/ (p.dir /\ IsPrefix(p.segs, q.segs))}

MTimeOf(B) == [q \in Paths |-> IF q \in DOMAIN B THEN B[q] ELSE 0]

-----------------------------------------------------------------------------
(* The client, from the spec.  Each takes and returns the tree's state.  *)

(* QSClient::Stat(path, modifiedSince) on bucket B: a HEAD; an object    *)
(* newer than modifiedSince (any object, for an unconditional HEAD) is    *)
(* grown.                                                                  *)
Stat(s, B, p, since) ==
  IF p \in DOMAIN B /\ B[p] > since THEN GrowOn(s, p, B[p]) ELSE s

(* QSClient::ListDirectory(d): the directory and its keys, in one batch.  *)
ListDirectory(s, B, d) ==
  IF d \notin DOMAIN B /\ d # RootPath THEN s
  ELSE GrowAll(s, <<d>> \o SetToSeq({q \in DOMAIN B : MyDirName(q) = d}),
               MTimeOf(B))

-----------------------------------------------------------------------------
(* Drive::GetNode(path, updateIfDirectory), as a function of the state:  *)
(* the tree it leaves, the node it returns, the modified flag, and the   *)
(* LIST it submits for a modified directory.                              *)
GetNodeIn(s, B, p, upd) ==
  LET n0    == Lock(s.tree, p)
      since == IF p \in DOMAIN s.metas THEN s.metas[p] ELSE 0
      mod   == n0 # NoNode /\ p \in DOMAIN B /\ B[p] > since
      s1    == IF n0 # NoNode THEN Stat(s, B, p, since) ELSE Stat(s, B, p, 0)
      n     == IF n0 # NoNode THEN n0 ELSE Lock(s1.tree, p)
      valid == n # NoNode /\ p \in DOMAIN s1.metas
  IN [st |-> s1, node |-> n, valid |-> valid, modified |-> mod,
      list |-> IF valid /\ p.dir /\ upd /\ mod THEN {Call("list", p)} ELSE {}]

GetNodeOn(p, upd) == GetNodeIn(State, bucket, p, upd)

(* Node::IsEmpty: no children in the tree.                                *)
IsEmptyNode(s, n) == DOMAIN s.tree.node[n].children = {}

Request == ops < MaxOps /\ ops' = ops + 1

(* The kernel creates a name only in a directory its lookup found: a      *)
(* valid node in the tree.                                                *)
ParentFound(p) ==
  Lock(tree, MyDirName(p)) # NoNode /\ MyDirName(p) \in DOMAIN metas

(* Drive::Connect(async): HEAD bucket, the root exists since the tree was *)
(* built, and LIST "/" asynchronously or synchronously.                   *)
Connect(async) ==
  /\ Request
  /\ IF async THEN /\ tasks' = tasks \cup {Call("list", RootPath)}
                   /\ UNCHANGED <<tree, metas>>
              ELSE /\ Apply(ListDirectory(State, bucket, RootPath))
                   /\ UNCHANGED tasks
  /\ UNCHANGED <<bucket, clock, made, removed>>

(* A getattr: Drive::GetNode(path, true).                                *)
GetAttr(p) ==
  LET r == GetNodeOn(p, TRUE) IN
  /\ Request
  /\ Apply(r.st)
  /\ tasks' = tasks \cup r.list
  /\ UNCHANGED <<bucket, clock, made, removed>>

(* Drive::GetChildren(dir): GetNode(dir, false), then a synchronous LIST *)
(* when the directory was modified or has no children in the tree.       *)
GetChildren(d) ==
  LET r == GetNodeOn(d, FALSE) IN
  /\ Request
  /\ Apply(IF r.node # NoNode /\ (r.modified \/ IsEmptyNode(r.st, r.node))
              THEN ListDirectory(r.st, bucket, d) ELSE r.st)
  /\ UNCHANGED <<bucket, tasks, clock, made, removed>>

(* Drive::DeleteFile(path, doCheck = true): GetNode; an existing file is *)
(* deleted asynchronously.                                                *)
DeleteFile(p) ==
  LET r == GetNodeOn(p, FALSE)
      ok == r.valid /\ ~p.dir
  IN /\ Request
     /\ Apply(r.st)
     /\ tasks' = IF ok THEN tasks \cup {Call("delete", p)} ELSE tasks
     /\ made' = IF ok THEN made \ {p} ELSE made
     /\ UNCHANGED <<bucket, clock, removed>>

(* Drive::DeleteDir(path, recursive, doCheck = true): GetNode(path, true);*)
(* an existing directory with no children in the tree is deleted          *)
(* asynchronously.                                                        *)
DeleteDir(d, rec) ==
  LET r == GetNodeOn(d, TRUE)
      ok == r.valid /\ IsEmptyNode(r.st, r.node)
  IN /\ Request /\ d.dir /\ d # RootPath
     /\ Apply(r.st)
     /\ tasks' = tasks \cup r.list \cup
                   (IF ok THEN {[Call("rmdir", d) EXCEPT !.rec = rec]} ELSE {})
     /\ made' = IF ok THEN made \ (IF rec THEN Under(made, d) ELSE {d}) ELSE made
     /\ UNCHANGED <<bucket, clock, removed>>

(* Drive::MakeFile(path, mode): a regular file is created in the bucket  *)
(* (QSClient::MakeFile) and then HEADed asynchronously; a device, FIFO   *)
(* or socket is only grown in the tree.                                    *)
MakeFile(p, regular) ==
  /\ Request /\ ~p.dir /\ ParentFound(p)
  /\ \E t \in Now :
       /\ clock' = t
       /\ IF regular
          THEN /\ bucket' = (p :> t) @@ bucket
               /\ tasks' = tasks \cup {Call("stat", p)}
               /\ made' = made \cup {p}
               /\ UNCHANGED <<tree, metas, removed>>
          ELSE /\ Apply(GrowOn(State, p, t))
               /\ removed' = removed \ {p}
               /\ UNCHANGED <<bucket, tasks, made>>

(* Drive::MakeDir(path, mode): QSClient::MakeDirectory, then an async HEAD.*)
MakeDir(d) ==
  /\ Request /\ d.dir /\ d # RootPath /\ ParentFound(d)
  /\ \E t \in Now : clock' = t /\ bucket' = (d :> t) @@ bucket
  /\ tasks' = tasks \cup {Call("stat", d)}
  /\ made' = made \cup {d}
  /\ UNCHANGED <<tree, metas, removed>>

(* QSClient::MoveFile / MoveDirectory: the server moves every key at or  *)
(* under old, stamping it with the time of the move; then the tree's      *)
(* Rename.  Nothing happens when old is not in the bucket.                *)
MoveKeys(B, old, new, t) ==
  LET moved == Under(DOMAIN B, old) IN
  [q \in (DOMAIN B \ moved) \cup {Moved(k, old, new) : k \in moved} |->
     IF q \in {Moved(k, old, new) : k \in moved} THEN t ELSE B[q]]

(* Drive::RenameFile / RenameDir(old, new, doCheck = true): GetNode(old) *)
(* must find a file (a directory); the synchronous MOVE; then             *)
(* GetNode(new, false) (true for a directory) refreshes the metadata.    *)
Rename(old, new) ==
  LET r  == GetNodeOn(old, FALSE)
      ok == r.valid /\ old \in DOMAIN bucket
  IN /\ Request
     /\ \/ /\ ~ok
           /\ Apply(r.st)
           /\ UNCHANGED <<bucket, tasks, clock, made, removed>>
        \/ /\ ok
           /\ \E t \in Now :
                LET B  == MoveKeys(bucket, old, new, t)
                    r2 == GetNodeIn(RenameOn(r.st, old, new), B, new, new.dir)
                IN /\ bucket' = B /\ clock' = t
                   /\ Apply(r2.st)
                   /\ tasks' = tasks \cup r2.list
           /\ made' = {IF q \in Under(made, old) THEN Moved(q, old, new) ELSE q : q \in made}
           /\ removed' = removed \ Under(removed, new)

(* Drive::SymLink(target, link): the link is only grown in the tree.     *)
SymLink(l) ==
  /\ Request /\ ~l.dir /\ ParentFound(l)
  /\ \E t \in Now : clock' = t /\ Apply(GrowOn(State, l, t))
  /\ removed' = removed \ {l}
  /\ UNCHANGED <<bucket, tasks, made>>

-----------------------------------------------------------------------------
(* The executor runs one submitted client call.                           *)

(* QSClient::DeleteFile / DeleteDirectory(path, recursive): the DELETE    *)
(* removes the key (with every key under it when recursive); on success   *)
(* the tree's Remove.                                                     *)
RunDelete(k) ==
  /\ k.op \in {"delete", "rmdir"}
  /\ IF k.path \in DOMAIN bucket
     THEN LET gone == IF k.rec THEN Under(DOMAIN bucket, k.path) ELSE {k.path} IN
          /\ bucket' = Restrict(bucket, DOMAIN bucket \ gone)
          /\ Apply(RemoveOn(State, k.path))
          /\ removed' = removed \cup {k.path}
     ELSE UNCHANGED <<bucket, tree, metas, removed>>

(* The keys a HEAD of p or a LIST of directory p reports.                 *)
Reported(k) ==
  IF k.op = "stat" THEN {k.path}
  ELSE {k.path} \cup {q \in Paths : MyDirName(q) = k.path /\ q # RootPath}

(* The store answers a HEAD or a LIST: what it holds now of the keys.    *)
RunRequest(k) ==
  /\ k.op \in {"stat", "list"} /\ ~k.got
  /\ tasks' = (tasks \ {k}) \cup
       {[k EXCEPT !.got = TRUE,
                  !.snap = Restrict(bucket, Reported(k) \cap DOMAIN bucket)]}
  /\ UNCHANGED <<tree, metas, bucket, clock, ops, made, removed>>

(* The response is grown into the tree: QSClient::Stat's Grow of the      *)
(* object HEAD found, QSClient::ListDirectory's Grow of the listed batch. *)
RunResponse(k) ==
  /\ k.got
  /\ \/ k.op = "stat" /\ Apply(Stat(State, k.snap, k.path, 0))
     \/ k.op = "list" /\ Apply(ListDirectory(State, k.snap, k.path))
  /\ UNCHANGED <<bucket, removed>>

RunTask(k) ==
  \/ RunRequest(k)
  \/ /\ tasks' = tasks \ {k}
     /\ RunDelete(k) \/ RunResponse(k)
     /\ UNCHANGED <<clock, ops, made>>

(* Every request issued and every call run, or the model's bound on Node *)
(* objects reached: the behaviour stutters.                               *)
Done == /\ (ops = MaxOps /\ tasks = {}) \/ Len(tree.node) = MaxNodes
        /\ UNCHANGED nsvars

FilePaths == {p \in Paths : ~p.dir}
DirPaths == {p \in Paths \ {RootPath} : p.dir}

NamespaceNext ==
  \/ \E async \in BOOLEAN : Connect(async)
  \/ \E p \in Paths \ {RootPath} : GetAttr(p)
  \/ \E d \in DirPaths \cup {RootPath} : GetChildren(d)
  \/ \E p \in FilePaths : DeleteFile(p)
  \/ \E d \in DirPaths, rec \in BOOLEAN : DeleteDir(d, rec)
  \/ \E p \in FilePaths, regular \in BOOLEAN : MakeFile(p, regular)
  \/ \E d \in DirPaths : MakeDir(d)
  \/ \E r \in Renames : Rename(r[1], r[2])
  \/ \E l \in FilePaths : SymLink(l)
  \/ \E k \in tasks : RunTask(k)
  \/ Done

NamespaceSpec == NamespaceInit /\ [][NamespaceNext]_nsvars

-----------------------------------------------------------------------------
(* Properties.                                                             *)

(***************************************************************************)
(* No step destroys a node hanging under the root, except the nodes at or *)
(* under the path of a DELETE the step runs: a GetNode that re-grows a    *)
(* path, a LIST that adopts orphans and a MOVE that re-keys a subtree    *)
(* keep every node the tree holds alive, and Node::Remove detaches only   *)
(* the one child it is given.                                             *)
(***************************************************************************)
NamespaceRootedPersist ==
  [][\A n \in Rooted \ tree'.alive :
       \E k \in tasks \ tasks' :
         k.op \in {"delete", "rmdir"} /\ tree.node[n].path \in Under(Paths, k.path)]_nsvars

(***************************************************************************)
(* The bucket keeps the namespace the requests acknowledged: an object a  *)
(* create request (MakeFile, MakeDir, or the target of a rename) put into *)
(* the bucket stays there until a later request removes it, and every     *)
(* object stays under a directory that exists (spec 4.5: deleteDir        *)
(* requires the directory to be empty unless recursive).  About the       *)
(* asynchronous DELETE that DeleteFile and DeleteDir leave queued on the  *)
(* executor, and DeleteDir's IsEmpty check on a tree that may never have  *)
(* listed the directory.                                                  *)
(***************************************************************************)
BucketKeepsNamespace ==
  /\ made \subseteq DOMAIN bucket
  /\ \A o \in DOMAIN bucket :
       MyDirName(o) = RootPath \/ MyDirName(o) \in DOMAIN bucket


(***************************************************************************)
(* Spec section 5: a caller observes another caller's successful write    *)
(* before its own later read when both go through Drive.  Once a DELETE   *)
(* removed a path from the store and the tree, the tree shows the path    *)
(* again only if the store holds it again (or a local create regrew it).  *)
(* About the responses of GetNode's asynchronous LIST (line 502) and of  *)
(* MakeFile's and MakeDir's asynchronous HEAD (lines 677, 712), grown    *)
(* into the tree whenever they arrive, after a DELETE that followed them. *)
(***************************************************************************)
DeletedStaysDeleted ==
  \A p \in removed : Find(p) # NoNode => p \in DOMAIN bucket

(* What the store and the tree keep of the requests acknowledged: both    *)
(* properties above.                                                      *)
NamespaceAcknowledged == BucketKeepsNamespace /\ DeletedStaysDeleted
=============================================================================
