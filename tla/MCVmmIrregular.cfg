SPECIFICATION Spec
CONSTANTS
  Slots = 2
  MaxUploads = 2
  GroupCount = 3
  Budget = 2
  Threads = {"main", "worker"}
  Nobody = Nobody
  ReadsFail = TRUE
  MaxLaunches = 3
  MaxAborts = 1
  MaxSkips = 1
INVARIANTS TypeOK KernelsSeeLoadedWeights TakesPendingGroup
PROPERTIES MainReturns DetachLetsGo ImplementsResidency
