CONSTANTS
  MaxBackends = 3
  MaxWeight = 3
SPECIFICATION Spec
INVARIANTS
  MapPartitionsWeight
