SPECIFICATION Spec
CONSTANTS
  f1 = f1
  f2 = f2
  g1 = g1
  g2 = g2
  NoGPU = NoGPU
  NoFunc = NoFunc
  Func = {f1, f2}
  GPU = {g1, g2}
  Profile <- BertProfile
  FuncParts <- WordNames
  FuncType <- AllBert
  InitialConfig <- RappConfig
  RappFunc = {f2}
  ForeignFunc = {}
  Preds = {50, 200}
  Topologies <- AllGPUs
  MaxPods = 3
  MaxQuota = 100
  FaultyCalls = {}
  MaxFaults = 0
  MaxCrashes = 0
  MaxChurn = 0
INVARIANT HGOIsOccupancy
