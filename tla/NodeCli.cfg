SPECIFICATION FairSpec
CONSTANTS
  a1 = a1
  a2 = a2
  Nobody = Nobody
  Runs = {a1, a2}
  Files <- MCFiles
  Paths <- MCPaths
  ColdPaths <- MCCold
  Seeds <- MCSeeds
  Seed <- MCSeed
  KeyGenJobs <- MCKeyGenJobs
  IssueJobs <- MCIssueJobs
  MayDie = TRUE
INVARIANT TypeOK
PROPERTY ImplementsNode
PROPERTY ImplementsFairness
CHECK_DEADLOCK FALSE
