\* Two lines in one address space.
CONSTANTS
  v1 = v1
  v2 = v2
  v3 = v3
  p1 = p1
  p2 = p2
  p3 = p3
  VLines = {v1, v2}
  PLines = {p1, p2}
  Translations <- MCTwoLines
  Sets = {0}
  NumWays = 1
  VSet <- MCVSet
  PSet <- MCPSet
  TMshrSize = 2
  NumMshrs = 2
  DemandReserve = 0
  Sources = {src}
  NoSource = NoSource
  NoLine = NoLine
  QueueSize = 1
  MaxTargets = 2

SPECIFICATION Spec

INVARIANT DemandedIsAccessed
