\* Three outer rows of five channels, two inner positions, on four threads:
\* the blocked branch runs with chunks of two and a one-channel tail, the
\* item ranges split rows between workers, and diff_src aliases diff_dst.
SPECIFICATION Spec
CONSTANTS
  outer_size = 3
  channels = 5
  inner_size = 2
  NThr = 4
  MEDIUM = 2
  DiffLayout = "channels_last"
  InPlace = TRUE
CHECK_DEADLOCK FALSE
INVARIANTS
  TypeOK
  SoftmaxBwdFullSum
  SoftmaxBwdNoSharedCells
PROPERTIES
  SoftmaxBwdRefinesRows
