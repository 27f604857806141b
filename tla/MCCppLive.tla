------------------------------- MODULE MCCppLive -------------------------------
(* Instances of CppLive for TLC. *)
EXTENDS CppLive, TLC

Symmetry == Permutations(Debuggers)
=============================================================================
