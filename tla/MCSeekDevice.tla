---------------------------- MODULE MCSeekDevice ----------------------------
(***************************************************************************)
(* The instance of SeekDevice for TLC.                                     *)
(***************************************************************************)
EXTENDS SeekDevice, TLC

MCOffsets == {-1, 1, 4}
Symmetric == Permutations(Files) \cup Permutations(Others)
=============================================================================
