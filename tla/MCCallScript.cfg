CONSTANTS
  c1 = c1
  c2 = c2
  UAC = UAC
  UAS = UAS
  CallID = {c1, c2}
  Addr = {UAC, UAS}
  Caller = UAC
  Target = UAS
  Scenario <- BothCalls
  StatusLine <- MCStatusLine
  NoSession = NoSession
SPECIFICATION Spec
INVARIANT TypeOK NothingUnexpected QuietMeansComplete
PROPERTY CallsComplete
