--------------------------- MODULE MC_TreeDelete ---------------------------
(***************************************************************************)
(* A tree for TreeDelete: the argument `root' holds three files, a link   *)
(* to the directory `out' next to it, and a subdirectory `a' that holds a *)
(* file and the empty directory `b'.  `out' holds the file `h'.  A flat  *)
(* tree of ten files exercises allocation_counter past INT_MAX.           *)
(***************************************************************************)
EXTENDS TreeDelete, TLC

MCNodes == {"top", "root", "f1", "f2", "f3", "l", "a", "g1", "b", "out", "h"}

MCParent == [n \in MCNodes |->
              CASE n \in {"top", "root", "out"}   -> "top"
                [] n \in {"f1", "f2", "f3", "l", "a"} -> "root"
                [] n \in {"g1", "b"}              -> "a"
                [] n = "h"                        -> "out"]

MCKind == [n \in MCNodes |->
            CASE n \in {"top", "root", "a", "b", "out"} -> "dir"
              [] n = "l"                                -> "link"
              [] OTHER                                  -> "file"]

MCTarget == [n \in MCNodes |-> "out"]

\* A second tree: `root' holds ten files and nothing else.
MCFlatNodes == {"top", "root"} \cup {"f" \o ToString(i) : i \in 1..10}

MCFlatParent == [n \in MCFlatNodes |-> IF n = "root" THEN "top" ELSE
                                        IF n = "top" THEN "top" ELSE "root"]

MCFlatKind == [n \in MCFlatNodes |-> IF n \in {"top", "root"} THEN "dir" ELSE "file"]

MCFlatTarget == [n \in MCFlatNodes |-> "top"]

AllFaults == {"pool_create", "alloc", "dir_open", "dir_read", "merge",
              "file_remove", "dir_close", "dir_remove"}
=============================================================================
