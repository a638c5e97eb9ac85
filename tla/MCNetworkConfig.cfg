CONSTANTS
  Org <- MCOrg
  Peer <- MCPeer
  Orderer = {"x"}
  Channel = {"c", "d"}
  myOrgIndex = "me"
  None = None
  Initial <- MCInitial
  MaxCalls = 3
  MaxCloses = 1
  MaxCrashes = 1
SPECIFICATION Spec
CHECK_DEADLOCK FALSE
INVARIANTS FileFollows Starts ObjectsFollow
