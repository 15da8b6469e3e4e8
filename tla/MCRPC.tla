-------------------------------- MODULE MCRPC --------------------------------
(* Instances of RPC for TLC. *)
EXTENDS RPC, TLC

CallSymmetry == Permutations(Calls)
==============================================================================
