----------------------------- MODULE MCLiveSync -----------------------------
(* Small instances of LiveSync.                                             *)
EXTENDS LiveSync

CONSTANTS c1, c2

\* Two directories, each with a note of the same name.
MCTwoDirs == {<<"a">>, <<"b">>, <<"a", "n">>, <<"b", "n">>}
MCDirs    == {<<"a">>, <<"b">>}
=============================================================================
