CONSTANTS
  c1 = c1  c2 = c2  g1 = g1  g2 = g2  sA = sA  sB = sB
  Null = Null
  Engines <- MC_Engines
  CpuEngines <- MC_CpuEngines
  Shapes <- MC_Shapes
  PaddedShapes <- MC_PaddedShapes
  DataTypes <- MC_DataTypes
  AllocCanFail = TRUE
SYMMETRY Symmetry
SPECIFICATION Spec
INVARIANT TypeOK
INVARIANT ReorderFirstMatch
INVARIANT ReorderReferenceIsLastResort
INVARIANT ReorderEngineChoice
INVARIANT ReorderNoLeak
INVARIANT ReorderFailureIsClean
PROPERTY ReorderRefinesContract
