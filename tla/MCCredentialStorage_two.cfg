SPECIFICATION Spec
CONSTANTS
  RPs = {rp1}
  Users = {u1, u2}
  Ids = {k1, k2, k3}
  Hosts = {h1, h2}
  Inodes = {i1, i2, i3, i4}
  Faults = {"write", "read"}
  MaxStored = 2
  None = None
INVARIANT OneCredentialPerAccount
SYMMETRY StorageSymmetry
