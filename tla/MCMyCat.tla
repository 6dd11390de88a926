------------------------------ MODULE MCMyCat ------------------------------
(***************************************************************************)
(* The instance of MyCat for TLC.                                          *)
(***************************************************************************)
EXTENDS MyCat

MCRooms == {0, FileSize - 1, FileSize}
=============================================================================
