SPECIFICATION FairSpec
CONSTANTS
  f1 = f1
  f2 = f2
  Function <- Functions
  Rates <- IdleToBusy
  MaxRestarts = 1
INVARIANT TypeOK
INVARIANT BoundedByPeak
PROPERTY BurstsFade
PROPERTY SettlesAlone
