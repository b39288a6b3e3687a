\* One line and one request: a drain is enough.
CONSTANTS
  a = a
  b = b
  c = c
  x = x
  None = None
  Lines = {a}
  FaultLines = {}
  BadLines = {}
  MaxFtq = 1
  MaxReqs = 2

SPECIFICATION Spec

INVARIANT DrainedIsQuiet
