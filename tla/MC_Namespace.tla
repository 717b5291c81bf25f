---------------------------- MODULE MC_Namespace ----------------------------
(* Instantiates Namespace with the paths /, /a/, /a/x, /a/y, /b/, /b/x, /b/y, *)
(* the bucket holding /a/ and /a/x at mount, and the renames /a/x -> /a/y *)
(* and /a/ -> /b/.                                                        *)
EXTENDS Namespace

MCRoot == [segs |-> <<>>, dir |-> TRUE]
DirA   == [segs |-> <<"a">>, dir |-> TRUE]
FileAX == [segs |-> <<"a", "x">>, dir |-> FALSE]
FileAY == [segs |-> <<"a", "y">>, dir |-> FALSE]
DirB   == [segs |-> <<"b">>, dir |-> TRUE]
FileBX == [segs |-> <<"b", "x">>, dir |-> FALSE]
FileBY == [segs |-> <<"b", "y">>, dir |-> FALSE]

MCPaths == {MCRoot, DirA, FileAX, FileAY, DirB, FileBX, FileBY}
MCInitObjects == {DirA, FileAX}
MCRenames == {<<FileAX, FileAY>>, <<DirA, DirB>>}
MCMTimes == 0..MaxTime
=============================================================================
