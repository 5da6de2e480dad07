-------------------------- MODULE MCModuleAccess --------------------------
(* ModuleAccess for TLC: three modules.                                    *)
EXTENDS ModuleAccess

CONSTANTS game, worldgen, voxelworld

\* Each module depends on the next, as in games/: game on worldgen on
\* voxelworld.
ChainDeps ==
  [m \in Modules |-> CASE m = game -> {worldgen}
                       [] m = worldgen -> {voxelworld}
                       [] OTHER -> {}]

\* No meta.json declares a dependency.
NoDeps == [m \in Modules |-> {}]

\* Every module tries to access every module, itself included.
AllAccesses == [m \in Modules |-> Modules]

=============================================================================
