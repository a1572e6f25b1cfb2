SPECIFICATION Spec
CONSTANTS
  None = None
  acme = acme  beta = beta  app = app  deploy = deploy  dev = dev
  prod = prod  ops = ops  fix = fix  main = main
  t1 = t1  t2 = t2  one = one  two = two
  d1 = d1  d2 = d2  d3 = d3
  Main = main
  WrongType = WrongType
  Names <- MCNames
  Deliveries <- MCDeliveries
  Bodies <- AllBodies
  Concurrency = 2
  MaxHung = 0
  Faults = {"refused", "lost", "late", "timeout", "crash"}
  MaxCrashes = 1
SYMMETRY Symmetry
CHECK_DEADLOCK FALSE
INVARIANTS
  TypeOK
  OkIsTrue
  UnsupportedStaysOut
  ShapesAgree
  OneCreator
  LastAnswerStands
  NoRepeatWithoutCrash
PROPERTIES
  ReplayChangesNothing
