CONSTANTS
  c1 = c1
  c2 = c2
  Caller1 = Caller1
  Caller2 = Caller2
  Callee = Callee
  CallID = {c1, c2}
  Addr = {Caller1, Caller2, Callee}
  Target = Callee
  StatusLine <- MCStatusLine
  NoSession = NoSession
  MaxDatagrams = 7
SPECIFICATION Spec
CONSTRAINT FewDatagrams
INVARIANT OnlyPartiesAreSent OutcomeAgreement
