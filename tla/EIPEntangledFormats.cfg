\* One entry and three formats: compression, eviction by confidence, aliases.
CONSTANTS
  Lines = {1, 4, 5, 6, 7, 9}
  NumFormats = 3
  Span <- MCThreeFormats
  Sets = {0}
  NumWays = 1
  SetOf <- MCOneSet
  TagOf <- MCTags
  ConfMax = 3
  MaxBB = 1

SPECIFICATION Spec

INVARIANTS
  TypeOK
  FormatAssertion
  DistinctDestinations

PROPERTY NothingInvented
