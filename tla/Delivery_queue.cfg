SPECIFICATION FairSpec
CONSTANTS
  None = None
  acme = acme  beta = beta  app = app  deploy = deploy  dev = dev
  prod = prod  ops = ops  fix = fix  main = main
  t1 = t1  t2 = t2  one = one  two = two
  d1 = d1  d2 = d2  d3 = d3
  Main = main
  WrongType = WrongType
  Names <- MCNames
  Deliveries <- QueueDeliveries
  Bodies <- QueueBodies
  Concurrency = 2
  MaxHung = 1
  Faults = {"hang", "crash"}
  MaxCrashes = 1
VIEW QueueView
CHECK_DEADLOCK FALSE
INVARIANTS
  FailureMeansNothingDone
PROPERTIES
  EveryDeliveryEnds
