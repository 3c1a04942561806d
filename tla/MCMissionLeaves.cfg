CONSTANTS
  Leaves <- MCLeaves
  Deadline = 3
  Frames = 3
  Steps = 2
SPECIFICATION FairSpec
INVARIANTS
  TypeOK
  SucceedsOnEvidence
  MediansOfSome
PROPERTIES
  KeepsContract
  MovesOnRow
  TimeRunsOut
  EveryLeafEnds
