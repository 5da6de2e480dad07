\* Three modules in a chain of dependencies; all try to access all.
SPECIFICATION FairAccessSpec
CONSTANTS
  game = game
  worldgen = worldgen
  voxelworld = voxelworld
  Modules = {game, worldgen, voxelworld}
  NoModule = NoModule
  Deps <- ChainDeps
  Accesses <- AllAccesses
  EventsEach = 1
  MaxAccesses = 2
INVARIANTS
  NoWaitCycle
  CallersWait
PROPERTIES
  AccessesReturn
