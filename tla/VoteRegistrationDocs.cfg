SPECIFICATION Spec
CONSTANTS
  Script = Script
  NoKey = NoKey
  Seeds = {"dev", "other"}
  Paths <- MCPaths
  Type <- MCType
  VoteKeys = {"v1", "v2"}
  ByronPaths = {"byron"}
  MaxSafe = 4
  Commands <- MCCommands
INVARIANT DocumentedVoteKeyParses
CHECK_DEADLOCK FALSE
