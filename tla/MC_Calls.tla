------------------------------ MODULE MC_Calls ------------------------------
(***************************************************************************)
(* Calls between three parties.  Nothing tells the two callers apart.      *)
(***************************************************************************)
EXTENDS Calls, TLC

CallerSymmetry == Permutations(Caller)
=============================================================================
