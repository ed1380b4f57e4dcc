CONSTANTS
  Caller = {app, user}
  NoCaller = NoCaller
  MaxCmds = 2
  BufSize = 2
  MaxData = 0
  MaxWire = 1
SPECIFICATION Spec
PROPERTY ExecReturns
