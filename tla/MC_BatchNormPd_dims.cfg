CONSTANTS
  DimsSet <- MC_DimsSet
  BwdPropKinds = {"backward"}
  Bits = {1, 8}
  MaxFwd = 1
  MaxBwd = 1
SPECIFICATION Spec
INVARIANT
  BnormWsFromSameDims
