SYMMETRY CallerSymmetry
CONSTANTS
  Caller = {app, user}
  NoCaller = NoCaller
  MaxCmds = 2
  BufSize = 2
  MaxData = 1
  MaxWire = 2
SPECIFICATION Spec
INVARIANTS
  RespBelongsToHolder
  CalmResultIsAnswer
  CalmResponseIsOwn
