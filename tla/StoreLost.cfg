CONSTANTS
  Writers = {w1, w2}
  Connections = {k1, k2, k3, k4}
  MaxFaults = 0
  Null = Null
SPECIFICATION Spec
INVARIANT ReturnedIsStored
