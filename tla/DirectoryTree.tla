---------------------------- MODULE DirectoryTree ----------------------------
(***************************************************************************)
(* The in-memory directory tree of qsfs (Directory.cpp: Entry, Node,      *)
(* DirectoryTree) together with the part of the FileMetaDataManager it    *)
(* drives (Entry's constructor adds metadata, ~Node erases it), and the  *)
(* tree's Remove and Rename, which the client calls after a DELETE or a  *)
(* MOVE succeeded.                                                         *)
(*                                                                         *)
(* Ownership is modelled as in the C++: a Node is kept alive by shared     *)
(* pointers from m_root, m_currentNode and its parent's m_children map.   *)
(* m_map and m_parentToChildrenMap hold weak pointers, so they may name a *)
(* node that has been destroyed.  A node is destroyed the moment it is no *)
(* longer reachable from m_root or m_currentNode, and its destructor runs *)
(* then.  Node identities are never reused, as a weak pointer to a        *)
(* destroyed node never locks again.                                       *)
(*                                                                         *)
(* A path is abstracted to the sequence of its names plus the directory   *)
(* flag (the trailing '/').                                                *)
(***************************************************************************)
EXTENDS Naturals, Sequences, SequencesExt, FiniteSets, Functions, TLC

CONSTANTS
  Paths,     \* the paths the object store may report, root included
  RootPath,  \* the root "/"
  MaxNodes,  \* bound on the number of Node objects ever constructed
  MTimes,    \* the mtimes a HEAD or a LIST may report
  NoNode     \* a null (or expired) Node pointer

ASSUME RootPath \in Paths /\ RootPath.segs = <<>> /\ RootPath.dir
ASSUME MaxNodes \in Nat \ {0}

(* FileMetaData::MyDirName: drop the last name; the result ends with '/'. *)
MyDirName(p) == [segs |-> SubSeq(p.segs, 1, Len(p.segs) - 1), dir |-> TRUE]

ASSUME \A p \in Paths \ {RootPath} : MyDirName(p) \in Paths

(* Mutant of InitNumLink: a file's entry starts with no link.           *)
InitNumLinkZero(p) == IF p.dir THEN 2 ELSE 0

(* FileMetaData constructor: link count 2 for a directory, 1 otherwise.   *)
InitNumLink(p) == IF p.dir THEN 2 ELSE 1

NodeIds == 1..MaxNodes
Root == 1

VARIABLES
  tree,   \* the DirectoryTree object and every Node it constructed
  metas   \* the FileMetaDataManager: path -> mtime of the metadata it holds

vars == <<tree, metas>>

(* A Node: its path, m_children (child path -> node), its weak m_parent  *)
(* and the link count of its entry.                                       *)
NewNode(p) == [path |-> p, children |-> [c \in {} |-> Root],
               parent |-> NoNode, numLink |-> InitNumLink(p)]

IsMapInto(f, T) == DOMAIN f \subseteq Paths /\ Range(f) \subseteq T

TypeOK ==
  /\ Len(tree.node) <= MaxNodes
  /\ \A n \in DOMAIN tree.node :
       /\ tree.node[n].path \in Paths
       /\ IsMapInto(tree.node[n].children, NodeIds)
       /\ tree.node[n].parent \in NodeIds \cup {NoNode}
       /\ tree.node[n].numLink \in Nat
  /\ IsMapInto(tree.map, NodeIds)
  /\ tree.p2c \subseteq Paths \X NodeIds
  /\ tree.alive \subseteq DOMAIN tree.node
  /\ tree.current \in tree.alive
  /\ IsMapInto(metas, Nat)

(* DirectoryTree::DirectoryTree: the root node, registered in m_map and  *)
(* held by m_root and m_currentNode; its Entry adds the root metadata.   *)
Init ==
  /\ tree = [node |-> <<NewNode(RootPath)>>, map |-> (RootPath :> Root),
             p2c |-> {}, alive |-> {Root}, current |-> Root]
  /\ metas = (RootPath :> 0)

(* weak_ptr::lock on an entry of m_map.                                   *)
Lock(t, p) == IF p \in DOMAIN t.map /\ t.map[p] \in t.alive
              THEN t.map[p] ELSE NoNode

(* Node::Insert: emplace keyed by the child's path (no-op if that path is *)
(* already a child); a directory child increases the parent's link count.*)
InsertChild(nodes, n, c) ==
  LET cp == nodes[c].path IN
  IF cp \in DOMAIN nodes[n].children THEN nodes
  ELSE [nodes EXCEPT ![n].children = @ @@ (cp :> c),
                     ![n].numLink = IF cp.dir THEN @ + 1 ELSE @]

(* Grow's "hook up with children" loop: every live node recorded under   *)
(* the new directory in m_parentToChildrenMap gets it as m_parent and is *)
(* inserted into its m_children, in the order they were recorded.        *)
RECURSIVE AdoptChildren(_, _, _)
AdoptChildren(nodes, id, cs) ==
  IF cs = {} THEN nodes
  ELSE LET c == CHOOSE x \in cs : \A y \in cs : x <= y
       IN AdoptChildren([InsertChild(nodes, id, c) EXCEPT ![c].parent = id],
                        id, cs \ {c})

(* The nodes still owned after the shared pointers change: those         *)
(* reachable from m_root or m_currentNode through m_children.             *)
RECURSIVE Owned(_, _)
Owned(nodes, reached) ==
  LET next == reached \cup UNION {Range(nodes[n].children) : n \in reached}
  IN IF next = reached THEN reached ELSE Owned(nodes, next)

(* Node::~Node for every node that lost its last owner: nothing if its   *)
(* entry's metadata is gone; otherwise decrease the link count and erase  *)
(* the path's metadata when it drops to 0 (<= 1 for a directory).         *)
Release(s) ==
  LET t     == s.tree
      kept  == Owned(t.node, {Root, t.current})
      dead  == {d \in t.alive \ kept : t.node[d].path \in DOMAIN s.metas}
      left(n) == t.node[n].numLink - 1
      erased == {t.node[n].path : n \in {d \in dead : left(d) = 0 \/
                                       (left(d) <= 1 /\ t.node[d].path.dir)}}
  IN [tree  |-> [t EXCEPT !.alive = kept,
                   !.node = [n \in DOMAIN t.node |->
                              IF n \in dead THEN [t.node[n] EXCEPT !.numLink = left(n)]
                              ELSE t.node[n]]],
      metas |-> Restrict(s.metas, DOMAIN s.metas \ erased)]

(* DirectoryTree::Grow(meta) for a node newly made for path p (Find     *)
(* failed): emplace into m_map (a no-op when a stale entry is there),    *)
(* hook up with the parent if it is alive, adopt every live node         *)
(* recorded under p in m_parentToChildrenMap (first recorded first),     *)
(* record p under its dirname.                                            *)
GrowNew(t, p) ==
  LET id     == Len(t.node) + 1
      dir    == MyDirName(p)
      map1   == IF p \in DOMAIN t.map THEN t.map ELSE t.map @@ (p :> id)
      t1     == [t EXCEPT !.node = Append(@, NewNode(p)), !.map = map1,
                          !.alive = @ \cup {id}]
      par    == Lock(t1, dir)
      nodes2 == IF par = NoNode THEN t1.node
                ELSE [InsertChild(t1.node, par, id) EXCEPT ![id].parent = par]
      orphans == {c \in t.alive : <<p, c>> \in t.p2c}
      nodes3 == IF p.dir THEN AdoptChildren(nodes2, id, orphans) ELSE nodes2
  IN [t1 EXCEPT !.node = nodes3, !.p2c = @ \cup {<<dir, id>>}, !.current = id]

(* DirectoryTree::Grow(meta) as a function of the state, for the         *)
(* metadata of path p with mtime mt: update the entry of the live node at *)
(* p (the new FileMetaData has a fresh link count) or make a new node;    *)
(* Entry's constructor adds the metadata (overwriting the path's entry);  *)
(* the assignment to m_currentNode may destroy the previous one.         *)
GrowOn(s, p, mt) ==
  LET t == s.tree
      n == Lock(t, p)
      t2 == IF n # NoNode
            THEN [t EXCEPT !.node[n].numLink = InitNumLink(p), !.current = n]
            ELSE GrowNew(t, p)
  IN Release([tree |-> t2, metas |-> (p :> mt) @@ s.metas])

(* DirectoryTree::Grow(vector): one Grow after another under the lock;   *)
(* mt gives the mtime of every listed path.                               *)
RECURSIVE GrowAll(_, _, _)
GrowAll(s, ps, mt) ==
  IF ps = <<>> THEN s ELSE GrowAll(GrowOn(s, Head(ps), mt[Head(ps)]), Tail(ps), mt)

State == [tree |-> tree, metas |-> metas]

Apply(s) == /\ Len(s.tree.node) <= MaxNodes
            /\ tree' = s.tree
            /\ metas' = s.metas

(* A HEAD (QSClient::Stat) or a single listed key grows one path.        *)
Grow(p, mt) == Apply(GrowOn(State, p, mt))

(* A LIST of directory d grows d itself and its keys in one batch.       *)
GrowBatch(d, ps, mt) == Apply(GrowAll(State, <<d>> \o ps, mt))

RemoveChildClearAll(nodes, n, cp) ==
  [nodes EXCEPT ![n].children = [c \in {} |-> Root]]

(* Node::Remove(child): erase the child's path from m_children (the      *)
(* link count is left as it is).                                          *)
RemoveChild(nodes, n, cp) ==
  [nodes EXCEPT ![n].children = Restrict(@, DOMAIN @ \ {cp})]

(* Node::RenameChild(old, new): nothing if the names are equal or new is *)
(* already a child; otherwise the child takes the new path and is        *)
(* re-keyed in m_children.                                                *)
RenameChild(nodes, n, old, new) ==
  LET ch == nodes[n].children IN
  IF old = new \/ new \in DOMAIN ch \/ old \notin DOMAIN ch THEN nodes
  ELSE [nodes EXCEPT ![n].children = Restrict(ch, DOMAIN ch \ {old}) @@ (new :> ch[old]),
                     ![ch[old]].path = new]

(* DirectoryTree::Remove(path): detach the node from its parent and drop *)
(* its m_map entry; the shared pointers that are left decide what dies.  *)
RemoveOn(s, p) ==
  LET t   == s.tree
      n   == Lock(t, p)
      par == IF n = NoNode THEN NoNode ELSE t.node[n].parent
      nodes1 == IF par \in t.alive THEN RemoveChild(t.node, par, p) ELSE t.node
  IN IF n = NoNode THEN s
     ELSE Release([s EXCEPT !.tree = [t EXCEPT !.node = nodes1,
                                      !.map = Restrict(@, DOMAIN @ \ {p})]])

(* The path q takes when the subtree at old is renamed to new.           *)
Moved(q, old, new) ==
  IF IsPrefix(old.segs, q.segs)
  THEN [segs |-> new.segs \o SubSeq(q.segs, Len(old.segs) + 1, Len(q.segs)),
        dir |-> q.dir]
  ELSE q

(* DirectoryTree::Rename(old, new): abort if new exists or old does not;  *)
(* otherwise the parent's RenameChild, and every node of the subtree gets *)
(* its moved path in the node, its parent's m_children, m_map (emplace),  *)
(* m_parentToChildrenMap and the FileMetaDataManager.                    *)
RenameOn(s, old, new) ==
  LET t   == s.tree
      n   == Lock(t, old)
      par == t.node[n].parent
      sub == Owned(t.node, {n})
      mv(q) == Moved(q, old, new)
      nodes1 == IF par \in t.alive THEN RenameChild(t.node, par, old, new)
                ELSE [t.node EXCEPT ![n].path = new]
      nodes2 == [m \in DOMAIN nodes1 |->
                  IF m \in sub
                  THEN [nodes1[m] EXCEPT !.path = mv(@),
                          !.children = [c \in {mv(k) : k \in DOMAIN @} |->
                                          @[CHOOSE k \in DOMAIN @ : mv(k) = c]]]
                  ELSE nodes1[m]]
      oldKeys == {q \in DOMAIN t.map : t.map[q] \in sub}
      kept == Restrict(t.map, DOMAIN t.map \ oldKeys)
      map2 == kept @@ [q \in {mv(k) : k \in oldKeys} |->
                         t.map[CHOOSE k \in oldKeys : mv(k) = q]]
      p2c2 == {IF e[2] \in sub THEN <<MyDirName(nodes2[e[2]].path), e[2]>> ELSE e :
                 e \in t.p2c}
      metaKeys == {t.node[m].path : m \in sub} \cap DOMAIN s.metas
      metas2 == Restrict(s.metas, DOMAIN s.metas \ metaKeys) @@
                  [q \in {mv(k) : k \in metaKeys} |->
                     s.metas[CHOOSE k \in metaKeys : mv(k) = q]]
  IN IF old = new \/ Lock(t, new) # NoNode \/ n = NoNode \/
        (par \in t.alive /\ new \in DOMAIN t.node[par].children)
     THEN s
     ELSE [tree |-> [t EXCEPT !.node = nodes2, !.map = map2, !.p2c = p2c2],
           metas |-> metas2]

Listing(d) == {<<c>> : c \in {q \in Paths \ {RootPath} : MyDirName(q) = d}}

(* The model's bound: once MaxNodes nodes were constructed and no Grow   *)
(* can reuse a live one, the behaviour stutters.                          *)
NodeBoundReached == Len(tree.node) = MaxNodes /\ UNCHANGED vars

Next ==
  \/ NodeBoundReached
  \/ \E p \in Paths \ {RootPath}, mt \in MTimes : Grow(p, mt)
  \/ \E d \in {q \in Paths : q.dir /\ q # RootPath}, mt \in MTimes :
        \E ps \in Listing(d) : GrowBatch(d, ps, [q \in Paths |-> mt])

Spec == Init /\ [][Next]_vars

-----------------------------------------------------------------------------
(* DirectoryTree::Find(path).lock() *)
Find(p) == Lock(tree, p)

(* The nodes the tree owns through m_root. *)
Rooted == Owned(tree.node, {Root})

(***************************************************************************)
(* Spec section 8: for every path p whose node Find returns, if Find also  *)
(* returns a node D for dirname(p), then D is p's m_parent and D's         *)
(* m_children maps p to that same node.  Breaks if Grow's hook-up with the *)
(* parent or its adoption of orphans recorded in m_parentToChildrenMap    *)
(* goes wrong for some order of HEAD and LIST results.                    *)
(***************************************************************************)
ParentChildConsistent ==
  \A p \in DOMAIN tree.map \ {RootPath} :
    LET n == Find(p)
        d == Find(MyDirName(p))
    IN n # NoNode /\ d # NoNode =>
         /\ tree.node[n].parent = d
         /\ p \in DOMAIN tree.node[d].children
         /\ tree.node[d].children[p] = n

(***************************************************************************)
(* A node hanging under the root (owned through m_children) is never      *)
(* destroyed by any Grow: growing a path again, or a path whose stale     *)
(* m_map entry makes Grow build a second node, must not drop a node the   *)
(* tree already holds.                                                    *)
(***************************************************************************)
RootedNodesPersist == [][Rooted \subseteq tree'.alive]_vars

(***************************************************************************)
(* Spec section 8: after a successful Grow the path-map lookup of the     *)
(* grown path returns the node (m_currentNode) within the same critical   *)
(* section.                                                               *)
(***************************************************************************)
GrownNodeFindable == Find(tree.node[tree.current].path) = tree.current

(***************************************************************************)
(* Spec section 3: the FileMetaDataManager holds the metadata of every    *)
(* node the tree holds.  About ~Node, which erases the metadata by path  *)
(* when any node of that path dies: a second node grown for a path (its  *)
(* stale m_map entry) or a node the tree dropped dies and erases the     *)
(* metadata the live node of the same path still uses.                   *)
(***************************************************************************)
RootedNodesHaveMeta == \A n \in Rooted : tree.node[n].path \in DOMAIN metas

(* A grown node is found by its path, and the metadata of every node the  *)
(* tree holds is kept: both properties above.                             *)
PathLookupsConsistent == GrownNodeFindable /\ RootedNodesHaveMeta

(***************************************************************************)
(* The link count of a live directory is 2 plus its subdirectories, the   *)
(* count Node::Insert maintains (st_nlink, and what ~Node relies on to    *)
(* decide whether to erase the metadata).                                 *)
(***************************************************************************)
DirLinkCount ==
  \A n \in tree.alive :
    tree.node[n].path.dir =>
      tree.node[n].numLink =
        2 + Cardinality({c \in DOMAIN tree.node[n].children : c.dir})
=============================================================================
