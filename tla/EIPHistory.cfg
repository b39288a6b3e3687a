\* Three lines, two of them consecutive, in a ring of three slots.
CONSTANTS
  Lines = {12, 13, 16}
  HistSize = 3
  MergeEntries = 2
  NumSearches = 2
  BbSizeOverflow = 4
  TimeDiffOverflow = 3
  TimeOverflow = 3
  NumFormats = 2
  Format <- MCFormat
  TableFormats <- MCUnknown
  TableSizes = {0}
  InstrIds = {0, 1}
  SquashIds = {0}
  NumMshrs = 1
  MaxTime = 3
  MaxEvents = 4

SPECIFICATION Spec

CHECK_DEADLOCK FALSE

INVARIANTS
  TypeOK
  BlockHeadInHistory
  TimeKept
  LearntIsLegal

PROPERTY EntangledInTime
