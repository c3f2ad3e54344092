SPECIFICATION Spec
CONSTANTS
  RPs = {rp1, rp2}
  Users = {u1, u2}
  Ids = {k1, k2}
  Challenges = {c1}
  Lists <- MCLists
  Backends = {"tpm", "memory"}
  SignerFaults = FALSE
  StorageFaults = FALSE
  Requests = {r1}
  None = None
  Timeouts <- MCTimeouts
  PromptTimeout <- MCPromptTimeout
  SendGrace <- MCSendGrace
  DefaultTimeout <- MCDefaultTimeout
PROPERTY ExcludeRespected
