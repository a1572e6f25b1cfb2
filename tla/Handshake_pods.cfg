CONSTANTS
  None = None
  NotAString = NotAString
  p1 = p1
  p2 = p2
  c1 = c1
  Pods = {p1, p2}
  Settings <- AnySettings
  MaxStarts = 2
  Cores = {c1}
  Manifests <- MCManifests
SPECIFICATION FairSpec
INVARIANTS
  TypeOK
  DescribesItsTransport
  FailuresShow
  VerifiedIsExecuted
  SomePodMatched
PROPERTIES
  ProbesOutliveTheAdapter
  EveryStartSettles
  SignalEndsThePod
CHECK_DEADLOCK FALSE
