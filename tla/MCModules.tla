----------------------------- MODULE MCModules -----------------------------
(***************************************************************************)
(* The instance of Modules for TLC: each module alone, the two drivers of  *)
(* major 700 together, and the modules that share a lock.                  *)
(***************************************************************************)
EXTENDS Modules

MCGroups == {{"asgn1"}, {"asgn2"}, {"lab03_seek", "lab04_seek"}, {"wait_event"},
             {"lab4_proc"}, {"my_proc"}, {"list"},
             {"mutex1", "mutex2", "mutex3"}, {"semaphore1", "semaphore2", "semaphore3"}}
=============================================================================
