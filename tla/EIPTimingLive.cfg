\* Two lines that share one way, under fairness of the memory side; with three
\* MSHRs a prefetch may be issued while a miss is in flight.
CONSTANTS
  v1 = v1
  v2 = v2
  v3 = v3
  p1 = p1
  p2 = p2
  p3 = p3
  VLines = {v1, v2}
  PLines = {p1, p2}
  Translations <- MCTwoLines
  Sets = {0}
  NumWays = 1
  VSet <- MCVSet
  PSet <- MCPSet
  TMshrSize = 3
  NumMshrs = 3
  DemandReserve = 0
  Sources = {src}
  NoSource = NoSource
  NoLine = NoLine
  QueueSize = 1
  MaxTargets = 2

SPECIFICATION FairSpec

PROPERTIES
  TimedRequestCompletes
  SourceCarried
  ImplementsLines
