CONSTANTS
  c1 = c1
  c2 = c2
  UAC = UAC
  UAS = UAS
  CallID = {c1}
  Addr = {UAC, UAS}
  Caller = UAC
  Target = UAS
  Scenario <- CancelWith100
  StatusLine <- MCStatusLine
  NoSession = NoSession
SPECIFICATION Spec
INVARIANT NothingUnexpected
