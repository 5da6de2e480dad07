\* As MCModuleThread.cfg, for what thread_request_stop() says of its callers.
SPECIFICATION FairSpec
CONSTANTS
  Callers = {c1, c2}
  Main = main
  None = None
  Helpers <- NoThreads
  Dependents <- NoThreads
  EarlyAccess = FALSE
  MaxCalls = 1
  MaxEvents = 2
\* The main thread ends with the module, and calls and events are bounded.
CHECK_DEADLOCK FALSE
PROPERTIES
  CallsEndOnStop
