SPECIFICATION Spec
CONSTANTS
  Script = Script
  NoKey = NoKey
  MaxSafe = 7
  Seeds <- MCSeeds
  Paths <- MCPaths
  Type <- MCType
  Files <- MCFiles
  DeviceSeed = "dev"
  Jobs <- MCJobs
INVARIANT TypeOK
INVARIANT SignedBodyIsTxBody
INVARIANT WitnessesVerify
INVARIANT PoolOwnerSignsAlone
INVARIANT SuccessSignsEverything
INVARIANT OutFilesAllOrNothing
INVARIANT ProvidersAgree
INVARIANT SignaturesKept
INVARIANT OwnFilesNeverMismatch
CHECK_DEADLOCK FALSE
