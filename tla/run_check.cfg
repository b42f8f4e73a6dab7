SPECIFICATION FairSpec
CONSTANTS
  Children = {c1, c2}
  OutputCap = 3
  ChunkBytes = 2
  PipeBytes = 3
  MaxOutput = 5
INVARIANTS
  NoneSurvive
  GroupIdOurs
  
  OutputAccounted
PROPERTIES
  CallEnds
CHECK_DEADLOCK FALSE
