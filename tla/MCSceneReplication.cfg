\* One peer, a parent and its child, four changes.
SPECIFICATION SRSpec
CONSTANTS
  n1 = n1
  n2 = n2
  NoNode = NoNode
  Peers = {p1}
  Nodes <- MCNodes
  Parent <- MCParent
  MaxEdits = 4
  MaxWire = 1
CHECK_DEADLOCK FALSE
INVARIANTS
  CopiesAreWellFormed
PROPERTIES
  CopiesCatchUp
  EmittedAfterSync
