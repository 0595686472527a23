CONSTANTS
  outer_size = 5
  channels = 2
  inner_size = 2
  NThr = 3
  Layout = "channels_last"
SPECIFICATION FwdSpec
CHECK_DEADLOCK FALSE
INVARIANTS
  TypeOK
  SoftmaxNoSharedCells
  SoftmaxRowIntegrity
  DenseNoSharedCells
PROPERTIES
  SoftmaxFwdRefinesRows
  DenseRefinesRows
