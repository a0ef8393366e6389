CONSTANTS
  A = A
  B = B
  Farms <- MCFarms
  Family <- MCFamily
  Mode <- MCMode
  Shape <- MCShape
  NElems <- MCNElems
  NBcks <- MCNBcksB2
  SrcAddr <- MCSrcAddr
  Valid <- MCValid
  Serialize = FALSE
  MaxSvcCount = 3
  Fwd <- MCFarmB
  Flow <- MCFarmB
  Out <- MCFarmB
  MaxFtPrio = 2
SPECIFICATION Spec
INVARIANT
  BatchAccepted
