------------------------------ MODULE MCAtClient ------------------------------
(***************************************************************************)
(* The application task and the user interface task, which the lock treats *)
(* alike.                                                                  *)
(***************************************************************************)
EXTENDS AtClient, TLC

CallerSymmetry == Permutations(Caller)
=============================================================================
