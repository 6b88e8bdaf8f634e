--------------------------- MODULE MCLockstepFair ---------------------------
(***************************************************************************)
(* Instances of LockstepFair for TLC.                                      *)
(***************************************************************************)
EXTENDS LockstepFair

CONSTANTS p1, p2, go

TwoNodes == {p1, p2}
OneCommand == {go}
=============================================================================
