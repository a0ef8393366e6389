CONSTANTS
  A = A
  B = B
  Farms <- MCFarms
  Family <- MCFamilyInet
  Mode <- MCMode
  Shape <- MCShape
  NElems <- MCNElems
  NBcks <- MCNBcks
  SrcAddr <- MCSrcAddr
  Valid <- MCValid
  Serialize = FALSE
  MaxSvcCount = 3
  Fwd <- MCNone
  Flow <- MCNone
  Out <- MCNone
  MaxFtPrio = 2
SPECIFICATION Spec
INVARIANT
  BatchAccepted
