---------------------------- MODULE MCWaitEvent ----------------------------
(***************************************************************************)
(* The instance of WaitEvent for TLC.                                      *)
(***************************************************************************)
EXTENDS WaitEvent
=============================================================================
