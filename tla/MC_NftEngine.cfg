CONSTANTS
  A = A
  B = B
  Farms <- MCFarms
  Family <- MCFamily
  Mode <- MCMode
  Shape <- MCShape
  NElems <- MCNElems
  NBcks <- MCNBcksB2
  SrcAddr <- MCSrcAddr
  Valid <- MCValid
  Serialize = FALSE
  MaxSvcCount = 3
  Fwd <- MCFarmB
  Flow <- MCNone
  Out <- MCFarmB
  MaxFtPrio = 2
SPECIFICATION Spec
INVARIANTS
  BatchAccepted
  DispatchMatchesFarms
  TableRefcount
  TablesTracked
  CounterMatchesKernel
  ExtraStagesMatchFarms
PROPERTIES
  StartIdempotent
  FarmServiceRefined
