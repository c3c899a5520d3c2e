CONSTANTS
  c1 = c1
  c2 = c2
  UAC = UAC
  UAS = UAS
  CallID = {c1, c2}
  Addr = {UAC, UAS}
  Caller = UAC
  Target = UAS
  StatusLine <- MCStatusLine
  Scenario <- MCScenario
  NoSession = NoSession
  Capacity = 2
SPECIFICATION LoadSpec
INVARIANT LoadTypeOK NothingUnexpected SessionOutlivesCall
PROPERTY CallsComplete
