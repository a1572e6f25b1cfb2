CONSTANTS
  None = None
  m1 = m1
  m2 = m2
  m3 = m3
  linux = linux
  gpu = gpu
  tpu = tpu
  Label = {linux, gpu}
  NotAString = NotAString
  NotAList = NotAList
  Machines <- MCMachines
  Labels <- MCLabels
  Expectations <- MCExpectations
  PageSize = 2
  Faults = {"refused", "lost", "blank", "expired"}
  MaxFaults = 1
SPECIFICATION FairSpec
INVARIANTS TypeOK GateIsExact TruncationShows
PROPERTIES EveryMachineRegisters WaitEndsOnOnePage
CHECK_DEADLOCK FALSE
