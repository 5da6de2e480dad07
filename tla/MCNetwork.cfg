\* Two clients, two names of which the second has a type beyond the sign bit,
\* one reload.
SPECIFICATION FairSpec
CONSTANTS
  c1 = c1
  c2 = c2
  Clients <- TwoClients
  Names = {look, move}
  Fds <- TwoSockets
  None = None
  FirstType = 1
  SignBit = 2
  MaxPackets <- Two
  MaxReloads = 1
  MaxGarbage = 1
\* A crash of the thread shuts the server down.
CHECK_DEADLOCK FALSE
INVARIANTS
  PacketsInOrder
PROPERTIES
  PacketsArrive
