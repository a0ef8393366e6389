CONSTANTS
  A = A
  B = B
  E0 = E0
  P = P
  Q = Q
  X = X
  Farms <- MCFarms
  Family <- MCFamily
  Mode <- MCMode
  Shape <- MCShape
  NElems <- MCNElems
  NBcks <- MCNBcks
  SrcAddr <- MCSrcAddr
  Valid <- MCValid
  Iface <- MCIface
  Oface <- MCIface
  IfLen <- MCIfLen
  Pols = {P, Q}
  Elems = {X}
  FarmPols <- MCFarmPols
  Serialize = FALSE
  MaxSvcCount = 3
  Fwd <- MCNone
  Flow <- MCNone
  Out <- MCNone
  MaxFtPrio = 2
  MaxIfaces = 1
  MaxPolCount = 2
SPECIFICATION SpecP
INVARIANTS
  PoliciesEnforced
