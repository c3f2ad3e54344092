SPECIFICATION Spec
CONSTANTS
  RPs = {rp1, rp2}
  Users = {u1}
  Ids = {k1, k2, k3, k4}
  Hosts = {h1, h2}
  Inodes = {i1, i2, i3, i4}
  Faults = {}
  MaxStored = 2
  None = None
INVARIANT FileIsWhole
