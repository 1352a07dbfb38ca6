---------------------------- MODULE MCClientWatch ----------------------------
(* Small instances of ClientWatch.                                          *)
EXTENDS ClientWatch, TLC

NoteSymmetry == Permutations(Notes)

\* Either the user acts or another client does, but not both.
OneSided == edits = 0 \/ remote = 0
=============================================================================
