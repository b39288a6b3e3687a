\* Two lines that can be fetched, one whose translation faults and one
\* outside memory; two lines in the queue, two requests alive.
CONSTANTS
  a = a
  b = b
  c = c
  x = x
  None = None
  Lines = {a, b, c, x}
  FaultLines = {b}
  BadLines = {x}
  MaxFtq = 2
  MaxReqs = 2

SPECIFICATION FairSpec

INVARIANTS
  TypeOK
  BuffersFollowQueue
  HeadAtPc
  CompletionFindsBuffer
  CutIsListed
  RetryIsHead
  NoLineForgotten

PROPERTY FetchProgress
