SPECIFICATION Spec
CONSTANTS
  None = None
  main = main  fix = fix  next = next
  p = p  q = q
  old = old  new = new  empty = empty
  c0 = c0  c1 = c1  c2 = c2  c3 = c3
  x1 = x1  x2 = x2
  Executions <- MCExecutions
  Branches <- MCBranches
  Main = main
  WrongType = WrongType
  Paths <- MCPaths
  Contents <- MCContents
  Empty = empty
  CommitIDs <- MCCommitIDs
  Root = c0
  InitialFiles <- MCInitialFiles
  Requests <- OneRequest
  HumanBranches = {}
  Deletable = {}
  MaxPushes = 0
  Faults = {"refused"}

CHECK_DEADLOCK FALSE
INVARIANT
  AtomicPullRequest
