-------------------------- MODULE MC_DirectoryTree --------------------------
(* Instantiates DirectoryTree with the paths /, /a/, /a/x, /a/b/, /a/b/y. *)
EXTENDS DirectoryTree

MCRoot == [segs |-> <<>>, dir |-> TRUE]
MCPaths == {MCRoot,
            [segs |-> <<"a">>, dir |-> TRUE],
            [segs |-> <<"a", "x">>, dir |-> FALSE],
            [segs |-> <<"a", "b">>, dir |-> TRUE],
            [segs |-> <<"a", "b", "y">>, dir |-> FALSE]}
=============================================================================
