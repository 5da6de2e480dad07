\* Two scenes with worlds of two sections, two deletions.
SPECIFICATION FairSpec
CONSTANTS
  Scenes = {s1, s2}
  Size = 2
  MaxDeletes = 2
  MaxTokens = 4
\* Deletions are bounded, and then nothing is left to do.
CHECK_DEADLOCK FALSE
INVARIANTS
  TokensSuffice
PROPERTIES
  SectionsAreGenerated
