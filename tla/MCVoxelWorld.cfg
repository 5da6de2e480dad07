\* One peer, two chunks of which one may be loaded, one scene.
SPECIFICATION VWSpec
CONSTANTS
  c1 = c1
  c2 = c2
  NoData = NoData
  Peers = {p1}
  Chunks <- MCChunks
  SectionOf <- MCSectionOf
  MaxBuffers = 1
  MaxScenes = 1
  MaxEdits = 2
  MaxTypes = 1
  MaxWire = 1
CHECK_DEADLOCK FALSE
INVARIANTS
  WritesSurvive
  BoxesFollow
  MeshesFollow
PROPERTIES
  TypesComeFirst
