---------------------------- MODULE MC_PathCalls ----------------------------
\* A directory d, a two-block file a beside it, and two free names.
EXTENDS PathCalls

MCPaths == {"a", "b", "d", "d/x"}
MCParent == [p \in MCPaths |-> IF p = "d/x" THEN "d" ELSE p]
MCInitNode == [p \in MCPaths |-> CASE p = "a" -> "file" [] p = "d" -> "dir" [] OTHER -> "none"]
MCInitData == [p \in MCPaths |-> IF p = "a" THEN <<"x", "y">> ELSE <<>>]
MCAllCalls == {"dir_make", "dir_make_recursive", "dir_remove", "file_remove",
               "file_copy", "file_append", "file_rename", "file_attrs_set"}
MCAttrKeys == {"readonly", "executable", "bogus", NonString}
=============================================================================
