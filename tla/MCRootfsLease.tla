--------------------------- MODULE MCRootfsLease ---------------------------
(* One directory with one file in it, two more names of that file (one next  *)
(* to it, one above it) and a symbolic link: every kind of entry, and a      *)
(* hardlink group whose generations change together.                         *)
EXTENDS RootfsLease

MCDirs == <<"dir">>
MCFiles == <<"file">>
MCAliases == <<"alias1", "alias2">>
MCSymlinks == <<"link">>
MCParentOf == [p \in {"dir", "file", "alias1", "alias2", "link"} |->
                  IF p \in {"file", "alias1"} THEN "dir" ELSE "rootfs"]
=============================================================================
