CONSTANTS
  None = None
  NotAString = NotAString
  p1 = p1
  p2 = p2
  c1 = c1
  Pods = {p1, p2}
  Settings <- OnQueue
  MaxStarts = 1
  Cores = {c1}
  Manifests <- NewManifest
SPECIFICATION Spec
INVARIANT MismatchesAbort
CHECK_DEADLOCK FALSE
