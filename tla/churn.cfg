SPECIFICATION Spec
CONSTANTS
  f1 = f1
  f2 = f2
  g1 = g1
  g2 = g2
  NoGPU = NoGPU
  NoFunc = NoFunc
  Func = {f1, f2}
  GPU = {g1}
  Profile <- BertProfile
  FuncParts <- WordNames
  FuncType <- AllBert
  InitialConfig <- BertConfig
  RappFunc = {}
  ForeignFunc = {f2}
  Preds = {50, 200}
  Topologies <- AllGPUs
  MaxPods = 3
  MaxQuota = 100
  FaultyCalls = {"delete", "update", "lookup"}
  MaxFaults = 1
  MaxCrashes = 1
  MaxChurn = 1
INVARIANT RealNamesOnce
INVARIANT NothingForgotten
PROPERTY OneFirstInstance
PROPERTY ImplementsLifecycle
