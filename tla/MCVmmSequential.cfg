SPECIFICATION Spec
CONSTANTS
  Slots = 2
  MaxUploads = 3
  GroupCount = 4
  Budget = 2
  Threads = {"main", "worker"}
  Nobody = Nobody
  ReadsFail = TRUE
  MaxLaunches = 4
  MaxAborts = 0
  MaxSkips = 0
INVARIANTS LeasesAccounted FilledSlotStays BudgetSuffices LooksOneAhead RestsEmpty
