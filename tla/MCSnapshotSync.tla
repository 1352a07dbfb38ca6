--------------------------- MODULE MCSnapshotSync ---------------------------
(* Small instances of SnapshotSync.  The paths are spelled out here because *)
(* a .cfg cannot write a sequence.                                          *)
EXTENDS SnapshotSync

\* A directory with a note in it.
MCPaths    == {<<"d">>, <<"d", "f.md">>}
MCDirs     == {<<"d">>}

\* A note at the top, for runs that are about one file.
MCOneFile  == {<<"f.md">>}

\* A hidden directory beside them.
MCTrash      == {<<".trash">>}
MCMixedPaths == MCPaths \cup MCTrash
MCMixedDirs  == MCDirs \cup MCTrash

ClientSymmetry == Permutations(Clients)
=============================================================================
