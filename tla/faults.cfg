SPECIFICATION Spec
CONSTANTS
  f1 = f1
  f2 = f2
  g1 = g1
  g2 = g2
  NoGPU = NoGPU
  NoFunc = NoFunc
  Func = {f1}
  GPU = {g1}
  Profile <- BertProfile
  FuncParts <- WordNames
  FuncType <- AllBert
  InitialConfig <- BertConfig
  RappFunc = {}
  ForeignFunc = {}
  Preds = {50, 160, 200}
  Topologies <- AllGPUs
  MaxPods = 3
  MaxQuota = 100
  FaultyCalls = {"create", "update", "delete", "check", "topology", "lookup"}
  MaxFaults = 2
  MaxCrashes = 1
  MaxChurn = 0
INVARIANT TypeOK
INVARIANT LedgerNamed
INVARIANT RowSMAgrees
INVARIANT RealNamesOnce
INVARIANT PlannedCapacity
INVARIANT NilMapNeverWritten
INVARIANT ServablePods
PROPERTY KeepsOneInstance
PROPERTY OneFirstInstance
PROPERTY RowSMStable
PROPERTY ImplementsLifecycle
