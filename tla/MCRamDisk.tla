----------------------------- MODULE MCRamDisk -----------------------------
(***************************************************************************)
(* Instances of RamDisk for TLC: payloads that end inside a page, at its   *)
(* end and in the second page.                                             *)
(***************************************************************************)
EXTENDS RamDisk

CONSTANTS a, b

SomeData == {<<a>>, <<b, a, a>>}
AnyData  == SomeData \cup {<<>>, <<a, b>>}
OneValue == {<<a>>, <<a, a, a>>}
Around == {-1, 0, 1}
Alike == Permutations(Frames) \cup Permutations(Procs)
=============================================================================
