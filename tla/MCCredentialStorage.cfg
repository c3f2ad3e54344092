SPECIFICATION Spec
CONSTANTS
  RPs = {rp1, rp2}
  Users = {u1, u2}
  Ids = {k1, k2, k3, k4}
  Hosts = {h1}
  Inodes = {i1, i2}
  Faults = {"open", "write", "rename"}
  MaxStored = 2
  None = None
INVARIANTS
  TypeOK
  OneCredentialPerAccount
  OkMeansDurable
  FileIsWhole
PROPERTIES
  OthersSurvive
  ImplementsResidentKeys
SYMMETRY IdSymmetry
