\* Two modules, each loaded three times at most, two requests, two events.
SPECIFICATION FairSpec
CONSTANTS
  a = a
  b = b
  e1 = e1
  Modules <- TwoModules
  BootOrder <- Order
  Emitters <- OneEmitter
  MaxLoads = 3
  MaxEvents = 2
  MaxRequests = 2
INVARIANTS
  SubscribersAreLoaded
  StateSurvives
  CrashesHaveACause
  StopsNewestFirst
PROPERTIES
  ReloadsFinish
