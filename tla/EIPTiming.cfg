\* One set of two ways, three lines, at most two misses in flight.
CONSTANTS
  v1 = v1
  v2 = v2
  v3 = v3
  p1 = p1
  p2 = p2
  p3 = p3
  VLines = {v1, v2, v3}
  PLines = {p1, p2, p3}
  Translations <- MCOneToOne
  Sets = {0}
  NumWays = 2
  VSet <- MCVSet
  PSet <- MCPSet
  TMshrSize = 2
  NumMshrs = 2
  DemandReserve = 0
  Sources = {src}
  NoSource = NoSource
  NoLine = NoLine
  QueueSize = 1
  MaxTargets = 2

SPECIFICATION Spec

SYMMETRY MCSymmetry

INVARIANTS
  TypeOK
  TimingCacheMirrorsL1I
  TimingMshrBacked
  FreeEntryWhenNeeded
  NoMissForResidentLine
  MissNotInTimingCache

PROPERTIES
  SourceCarried
  ImplementsLines
