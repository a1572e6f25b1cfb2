CONSTANTS
  None = None
  NotAList = NotAList
  Repositories <- MCRepositories
  SiteWords = {"host"}
  DefaultLimit = 3
  MaxLimit = 4
  Inputs <- MCInputs
  BodyLimit = 3
  MaxExisting = 4
SPECIFICATION Spec
INVARIANTS TypeOK NothingIsMissed IntegrationsArePlaced ConventionKeepsApart
CHECK_DEADLOCK FALSE
