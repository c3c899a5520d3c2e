CONSTANTS
  Caller1 = Caller1
  Caller2 = Caller2
  Callee = Callee
  CallID <- MCCallID
  Addr = {Caller1, Caller2, Callee}
  Target = Callee
  StatusLine <- MCStatusLine
  NoSession = NoSession
  Datagram <- MCDatagram
  Meant <- MCMeant
  FirstLine <- MCFirstLine
  Layout <- MCLayout
  Limit = 40
SPECIFICATION RawSpec
INVARIANT ServerTypeOK WireMeansSent AgreesWithSender
PROPERTY PartiesFixed ClosedByForwarding OneCallPerStep
