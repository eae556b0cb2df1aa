SPECIFICATION Spec
CONSTANTS
  a1 = a1
  a2 = a2
  a3 = a3
  a4 = a4
  d1 = d1
  d2 = d2
  NoDevice = NoDevice
  Runs = {a1, a2, a3}
  Devices = {d1}
  Ledgers = {d1}
  Files <- MCFiles
  Paths <- MCPaths
  ColdPaths <- MCCold
  Seeds <- MCSeeds
  Seed <- MCSeed
  KeyGenJobs <- MCKeyGenJobs
  IssueJobs <- MCIssueJobs
  MayDie = TRUE
SYMMETRY Symmetry
INVARIANT NextNumberUnissued
CHECK_DEADLOCK FALSE
