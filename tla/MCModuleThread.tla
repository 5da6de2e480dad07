-------------------------- MODULE MCModuleThread --------------------------
(* ModuleThread for TLC: two callers, which are interchangeable.           *)
EXTENDS ModuleThread, TLC

NoThreads == {}
CallerSymmetry == Permutations(Callers)
=============================================================================
