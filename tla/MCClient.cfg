CONSTANTS
  n1 = n1 n2 = n2 p1 = p1 p2 = p2 a = a b = b c = c d = d x = x y = y
  Name <- MCName
  Password <- MCPassword
  None = None
  Call <- MCCall
  Boot = Boot
  FirstFile <- MCFirstFile
  MaxCrashes = 1
  MaxFails = 1
  Op = {o}
  Channel <- MCChannel
  Peer <- MCPeer
  FirstKnown = {c}
  FirstCreated = {c}
SYMMETRY MCSymmetry
SPECIFICATION Spec
CHECK_DEADLOCK FALSE
INVARIANTS OwnObject SecretsKept BootedUsable ActsAsItself SuccessIsDone
