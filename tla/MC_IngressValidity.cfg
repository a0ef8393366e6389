CONSTANTS
  A = A
  B = B
  E0 = E0
  Farms <- MCFarms
  Family <- MCFamily
  Mode <- MCMode
  Shape <- MCShape
  NElems <- MCOne
  NBcks <- MCOne
  SrcAddr = {}
  Valid <- MCFarms
  Iface <- MCIface
  Oface <- MCIface
  IfLen <- MCIfLen
  Serialize = FALSE
  MaxSvcCount = 3
  Fwd <- MCNone
  Flow <- MCNone
  Out <- MCNone
  MaxFtPrio = 2
  MaxIfaces = 1
SPECIFICATION SpecV
INVARIANTS
  ConferrNotServed
