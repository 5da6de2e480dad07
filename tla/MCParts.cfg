\* The bounds of the parts are in MCParts.
SPECIFICATION MCSpec
CONSTANTS
  x1 = x1
  x2 = x2
  p1 = p1
  VoxelNodes = {1}
  PlaceOf <- MCPlaceOf
  CameraPlaces = {0, 105, 720}
  FarClip = 500
  MaxVolumes = 2
  MaxTasks = 2
  PoolThreads = 2
  Size <- MCSize
  Volumes <- MCVolumes
  ByteVolumes <- MCByteVolumes
  Registry <- MCRegistry
  LowerLods = {2, 3}
  OldShapes = 1
  Images <- MCImages
  MaxResolution = 8
  Blocks <- MCBlocks
  Tasks = 2
  Columns = {x1, x2}
  SectorOf <- MCSectorOf
  Levels = 3
  ChunkHeight = 1
  Clients = {p1}
  MaxEdits = 3
  Modules = {1, 2, 3}
  Main = {1, 2}
  Metas <- MCMetas
  MaxReloads = 1
  IntMax = 2147483647
\* Volumes, tasks, blocks, edits and reloads are bounded.
CHECK_DEADLOCK FALSE
INVARIANTS
  QueueIsIndexed
  NodesAreCurrent
  ShapesFillSolid
  SurfaceIsSeen
  ImagesAreShown
  ClientsSeeGround
  LoadsInOrder
  RoundTrip
  WordsSuffice
