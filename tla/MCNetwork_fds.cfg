\* The smallest case of a reload and a second connection.
SPECIFICATION Spec
CONSTANTS
  c1 = c1
  c2 = c2
  Clients <- TwoClients
  Names = {look}
  Fds <- TwoSockets
  None = None
  FirstType = 1
  SignBit = 2
  MaxPackets <- Two
  MaxReloads = 1
  MaxGarbage = 1
CHECK_DEADLOCK FALSE
INVARIANTS
  FdsMatch
