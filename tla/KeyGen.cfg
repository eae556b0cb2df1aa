SPECIFICATION Spec
CONSTANTS
  a1 = a1
  a2 = a2
  a3 = a3
  d1 = d1
  NoDevice = NoDevice
  HardenedThreshold = 2000
  Runs = {a1, a2, a3}
  Devices = {d1}
  Derivations = {"icarus", "ledger"}
  Seeds = {"s1", "s2"}
  Files <- MCFiles
  Seed <- MCSeed
  KeyGenJobs <- MCKeyGenJobs
  VKeyJobs <- MCVKeyJobs
  InitialFiles <- MCInitialFiles
INVARIANT TypeOK
INVARIANT SigningFilesReadBack
INVARIANT OneVerificationKeyPerKey
INVARIANT SigningFilesFirst
PROPERTY SuccessLeavesPairs
SYMMETRY Symmetry
CHECK_DEADLOCK FALSE
