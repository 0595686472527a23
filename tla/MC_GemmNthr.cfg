CONSTANTS
  Ms <- MC_Ms
  Ns <- MC_Ns
  Ks <- MC_Ks
  Nthrs <- MC_Nthrs
  Isas <- MC_Isas
SPECIFICATION Spec
CHECK_DEADLOCK FALSE
INVARIANTS
  TypeOK
  NthrGridFits
  NthrBlocksCover
PROPERTIES
  NthrTerminates
