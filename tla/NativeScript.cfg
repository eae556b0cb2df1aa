SPECIFICATION Spec
CONSTANTS
  Script = Script
  NoKey = NoKey
  Seeds = {"dev", "other"}
  Paths <- MCPaths
  Type <- MCType
  MaxSafe = 7
  ScriptFiles <- MCScriptFiles
  FileLists <- MCFileLists
INVARIANT TypeOK
INVARIANT PolicyIdIsScripts
CHECK_DEADLOCK FALSE
