------------------------------ MODULE MCStartup ------------------------------
(* Small instances of Startup.                                              *)
EXTENDS Startup

CONSTANTS c1, c2

\* A directory with a note in it.
MCPaths == {<<"d">>, <<"d", "f.md">>}
MCDirs  == {<<"d">>}

\* Either time passes or something fails, but not both.
TimeOrFault == now = 0 \/ faults = 0

MCClientSymmetry == Permutations(Clients)
=============================================================================
