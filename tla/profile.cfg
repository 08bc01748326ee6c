SPECIFICATION Spec
CONSTANTS
  NoName = NoName
  Names <- ManyNames
  RemoteLatency <- Latencies
INVARIANT ChoiceIsAllowed
INVARIANT ChoiceIsEfficient
INVARIANT TablesGiveDefault
CHECK_DEADLOCK FALSE
