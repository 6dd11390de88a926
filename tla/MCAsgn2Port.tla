---------------------------- MODULE MCAsgn2Port ----------------------------
(***************************************************************************)
(* Instances of Asgn2Port for TLC.  Two pin levels give four bytes: NUL    *)
(* and three that differ, enough to see one overwrite another.             *)
(***************************************************************************)
EXTENDS Asgn2Port, TLC

OnePin == {{}, {24}}
OnlyNested == {Nested}
AnyArrival == {Nested, Remote}
Identical == Permutations(Frames)
=============================================================================
