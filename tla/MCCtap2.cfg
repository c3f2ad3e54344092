SPECIFICATION Spec
CONSTANTS
  RPs = {"rp1", "rp2"}
  Users = {"u1", "u2"}
  Ids = {1, 2, 3}
  MaxByte = 3
  Separator <- MCSeparator
  Wrapped <- MCWrapped
  None = None
  Hashes = {h1}
  Registrations <- MCRegistrations
  Lists <- MCLists
  AgreementKeys = {a1, a2}
  Immediate = {"Success"}
  StorageFaults = FALSE
  Requests = {r1}
  PromptTimeout = 1
  SendGrace = 1
INVARIANTS
  TypeOK
  HandlesExact
  AssertionIsOwn
  AnnouncedKeyWorks
PROPERTIES
  ConsentForEachOperation
  NoAssertionTwice
  AllAnnouncedTried
  CommandAnswered
