\* Two processes whose code differs at the same virtual line.
CONSTANTS
  v1 = v1
  v2 = v2
  v3 = v3
  p1 = p1
  p2 = p2
  p3 = p3
  VLines = {v1}
  PLines = {p1, p2}
  Translations <- MCHomonym
  Sets = {0}
  NumWays = 2
  VSet <- MCVSet
  PSet <- MCPSet
  TMshrSize = 2
  NumMshrs = 2
  DemandReserve = 0
  Sources = {src}
  NoSource = NoSource
  NoLine = NoLine
  QueueSize = 1
  MaxTargets = 2

SPECIFICATION Spec

INVARIANT MissNotInTimingCache
