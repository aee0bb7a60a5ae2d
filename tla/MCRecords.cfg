SPECIFICATION MCSpec
CONSTANTS
  Runner = {r1, r2}
  Total = 6
  Headroom = 2
  Ceiling = 0
  ProbeCeiling = 4
  ProbeMinSafe = 1
  Limits = {1, 2}
  VmmBytes = 2
  MaxRuns = 4
  Journal = {j1, j2}
  Step = {before_denoise, step_0000}
  MaxRecords = 4
  Timer = {t1, t2}
  Gauge = {g1, g2}
  Detached = Detached
  MaxSteps = 2
  p1 = p1
  p2 = p2
  Probe = {p1, p2}
  Requested <- TwoProbes
  Nobody = Nobody
  Elsewhere = Elsewhere
  MaxForwards = 3
INVARIANTS RecordsTypeOK HeadroomKept SettledWasTried ProfileWhole RecordsMine RecordsWhole
  ScopesLetGo CompleteIsMeasured OwnerIsHooked CompleteIsCaptured
CHECK_DEADLOCK FALSE
