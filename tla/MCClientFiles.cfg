\* Two files, two contents and the empty one, two changes, one reload.
SPECIFICATION FairSpec
CONSTANTS
  onDisk = onDisk
  ofModule = ofModule
  c1 = c1
  c2 = c2
  Empty = empty
  None = None
  Files <- TwoFiles
  Physical <- OneOnDisk
  Contents <- ThreeContents
  InitialDisk <- FirstContent
  InitialCaches <- Caches
  MaxWrites = 2
  MaxAdds = 2
  MaxReloads = 1
\* Changes and reloads are bounded, and then nothing is left to do.
CHECK_DEADLOCK FALSE
INVARIANTS
  NothingMissing
  FilesSurvive
PROPERTIES
  UpToDate
  TellAnswered
