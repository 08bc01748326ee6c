SPECIFICATION Spec
CONSTANTS
  f1 = f1
  f2 = f2
  g1 = g1
  g2 = g2
  NoGPU = NoGPU
  NoFunc = NoFunc
  Func = {f1}
  GPU = {g1, g2}
  Profile <- ResnetProfile
  FuncParts <- WordNames
  FuncType <- AllResnet
  InitialConfig <- ResnetConfig
  RappFunc = {}
  ForeignFunc = {}
  Preds = {50, 110, 200, 260, 500}
  Topologies <- AllGPUs
  MaxPods = 4
  MaxQuota = 90
  FaultyCalls = {"topology", "listFuncs", "create"}
  MaxFaults = 2
  MaxCrashes = 0
  MaxChurn = 0
INVARIANT PlannedCapacity
INVARIANT LedgerInSync
PROPERTY RaisesFit
CHECK_DEADLOCK FALSE
