SPECIFICATION MCSpec
CONSTANTS
  Slices <- MCSlices
  FileBytes = 4
  SlotBytes = 4
  ChunkBytes = 2
  RequestWorkers = 2
  MaxEntries = 3
  MaxBatches = 2
  MaxFaults = 1
  a1 = a1
  a2 = a2
  Tensor = {t1, t2}
  Address = {a1, a2, a3, a4}
  SourceRange = {d1, d2}
  Overlaps <- MCOverlaps
  CopyLimit = 2
  Other = Other
  Free = Free
  Nothing = Nothing
  w1 = w1
  w2 = w2
  w3 = w3
  Weight = {w1, w2, w3}
  PageOf <- MCPages
  Bytes <- MCBytes
  MaxBytes = 3
  MaxErrors = 2
  Load = {l1, l2, l3}
  Importer = {i1, i2}
  EarlyImports = {i1, i2}
  Shard = {s1, s2}
  Original = Original
  NotImported = NotImported
  LargeTensor = {"q0", "q1", "q2", "r0", "r1", "e"}
  TensorBytes <- MCTensorBytes
  Trees <- MCTrees
  Configs <- MCConfigs
  Reconfigs <- MCReconfigs
  Pinner = {"g", "h", "k"}
  PinList <- MCPinList
  Configured <- MCConfigured
  ClassName <- MCClassName
  PinWorkers = 2
  PinCached = TRUE
  PinFallback = TRUE
  Layer = {"lin", "emb", "pk", "cv"}
  KindOf <- MCKindOf
  ParametersOf <- MCParametersOf
  OnDevice = {"s"}
  Swap = TRUE
  MaxDepth = 3
  Component = {"c1", "c2"}
  Quantized = {"c2"}
  FromFiles = {"c1"}
  Blocks = {"c1"}
  Requests <- MCRequests
  MaxHooks = 1
  MaxRaises = 0
INVARIANT ActiveDetachRefused
CHECK_DEADLOCK FALSE
