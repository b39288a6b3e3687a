\* Three ways and four tags, one of them that of empty entries: allocation,
\* relocation and eviction.
CONSTANTS
  Lines = {1, 2, 3, 8}
  NumFormats = 1
  Span <- MCOneFormat
  Sets = {0}
  NumWays = 3
  SetOf <- MCOneSet
  TagOf <- MCTags
  ConfMax = 1
  MaxBB = 1

SPECIFICATION Spec

INVARIANT NothingHidden

PROPERTY EvictsOnlyWhenFull
