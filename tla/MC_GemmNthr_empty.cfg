CONSTANTS
  Ms <- MC_Ms0
  Ns <- MC_Ns0
  Ks <- MC_Ks
  Nthrs <- MC_Nthrs
  Isas <- MC_Isas
SPECIFICATION Spec
CHECK_DEADLOCK FALSE
INVARIANT
  NthrNoDivByZero
