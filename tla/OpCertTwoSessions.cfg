SPECIFICATION Spec
CONSTANTS
  a1 = a1
  a2 = a2
  a3 = a3
  a4 = a4
  d1 = d1
  d2 = d2
  NoDevice = NoDevice
  Runs = {a1, a2, a3, a4}
  Devices = {d1, d2}
  Ledgers = {d1, d2}
  Files <- MCFiles
  Paths <- MCPaths
  ColdPaths <- MCCold
  Seeds <- MCSeeds
  Seed <- MCSeed
  KeyGenJobs <- OneKeyGenJobs
  IssueJobs <- OneKeyIssueJobs
  MayDie = FALSE
SYMMETRY Symmetry
INVARIANT NextNumberUnissued
CHECK_DEADLOCK FALSE
