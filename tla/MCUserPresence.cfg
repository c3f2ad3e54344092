SPECIFICATION FairSpec
CONSTANTS
  Requests = {r1, r2}
  Params = {p1, p2}
  None = None
  Timeouts <- MCTimeouts
  PromptTimeout <- MCPromptTimeout
  SendGrace <- MCSendGrace
  DefaultTimeout <- MCDefaultTimeout
INVARIANTS
  TypeOK
  OnePromptAtATime
  WaitsForOwnOperation
PROPERTIES
  ConsentIsSpentOnce
  GateRunsOut
  ClientAnswered
  GateReopens
