\* A module, the main thread and two other threads that call in.
SPECIFICATION FairSpec
CONSTANTS
  Callers = {c1, c2}
  Main = main
  None = None
  Helpers <- NoThreads
  Dependents <- NoThreads
  EarlyAccess = FALSE
  MaxCalls = 1
  MaxEvents = 2
\* The main thread ends with the module, and calls and events are bounded.
CHECK_DEADLOCK FALSE
INVARIANTS
  CallerWaitsWhileRun
  ResultIsOwn
PROPERTIES
  ImplementsModuleCalls
  WorkIsDone
  StopCompletes
