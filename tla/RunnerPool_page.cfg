CONSTANTS
  None = None
  m1 = m1
  m2 = m2
  m3 = m3
  linux = linux
  gpu = gpu
  tpu = tpu
  Label = {linux, gpu}
  NotAString = NotAString
  NotAList = NotAList
  Machines <- MCMachines
  Labels <- MCLabels
  Expectations <- TwoLinux
  PageSize = 2
  Faults = {}
  MaxFaults = 0
SPECIFICATION FairSpec
PROPERTY WaitEnds
CHECK_DEADLOCK FALSE
