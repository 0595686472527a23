CONSTANTS
  MaxN = 12
  MaxThr = 8
  Strides <- MC_Strides
  KWs <- MC_KWs
  IWs <- MC_IWs
  Pads <- MC_Pads
SPECIFICATION IndexSpec
CHECK_DEADLOCK FALSE
INVARIANTS
  PartitionMatchesReference
  ConvOwRangeExact
  ConvIwRangeExact
