CONSTANTS
  A = A
  B = B
  C = C
  E0 = E0
  E1 = E1
  Farms <- MCFarms
  Family <- MCFamily
  Mode <- MCMode
  Shape <- MCShape
  NElems <- MCNElems
  NBcks <- MCNBcks
  SrcAddr <- MCSrcAddr
  Valid <- MCValid
  Iface <- MCIface
  Oface <- MCOface
  IfLen <- MCIfLen
  Serialize = FALSE
  MaxSvcCount = 3
  Fwd <- MCNone
  Flow <- MCNone
  Out <- MCNone
  MaxFtPrio = 2
  MaxIfaces = 2
SPECIFICATION SpecI
INVARIANTS
  IfnameFits
