SPECIFICATION Spec
CONSTANTS
  Requests = {r1, r2}
  Params = {p1, p2}
  None = None
  Timeouts <- MCTimeouts
  PromptTimeout <- MCPromptTimeout
  SendGrace <- MCSendGrace
  DefaultTimeout <- MCDefaultTimeout
PROPERTY ExpiryIsATimeout
