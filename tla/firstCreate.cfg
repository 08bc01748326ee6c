SPECIFICATION FairSpec
CONSTANTS
  f1 = f1
  f2 = f2
  g1 = g1
  g2 = g2
  NoGPU = NoGPU
  NoFunc = NoFunc
  Func = {f1}
  GPU = {g1}
  Profile <- BertProfile
  FuncParts <- WordNames
  FuncType <- AllBert
  InitialConfig <- BertConfig
  RappFunc = {}
  ForeignFunc = {}
  Preds = {50}
  Topologies <- AllGPUs
  MaxPods = 3
  MaxQuota = 100
  FaultyCalls = {"create"}
  MaxFaults = 1
  MaxCrashes = 0
  MaxChurn = 0
PROPERTY ScaleToOne
