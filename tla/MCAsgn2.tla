------------------------------ MODULE MCAsgn2 ------------------------------
(***************************************************************************)
(* Instances of Asgn2 for TLC: each run takes some manners from the world. *)
(***************************************************************************)
EXTENDS Asgn2

OnePin == {{}, {24}}
OnlyNested == {Nested}
NoManners == {}
Alike == Permutations(Readers) \cup Permutations(Frames)
=============================================================================
