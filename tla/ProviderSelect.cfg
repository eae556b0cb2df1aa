SPECIFICATION FairSpec
CONSTANTS
  p1 = p1
  p2 = p2
  p3 = p3
  Nobody = Nobody
  Procs = {p1, p2, p3}
INVARIANT TypeOK
PROPERTY GivesUpEmptyHanded
PROPERTY ImplementsSession
PROPERTY SelectionEnds
CHECK_DEADLOCK FALSE
