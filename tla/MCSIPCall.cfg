CONSTANTS
  c1 = c1
  Caller = Caller
  Callee = Callee
  CallID = {c1}
  Addr = {Caller, Callee}
  Target = Callee
  StatusLine <- MCStatusLine
  NoSession = NoSession
SPECIFICATION Spec
INVARIANT TypeOK NothingInvented StateIsJustified ForgottenOnlyWhenTold
PROPERTY IsARelay
