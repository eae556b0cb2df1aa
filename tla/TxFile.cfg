SPECIFICATION Spec
CONSTANTS
  r1 = r1
  r2 = r2
  r3 = r3
  f1 = f1
  f2 = f2
  w1 = w1
  w2 = w2
  A = A
  B = B
  Runs = {r1, r2}
  TxFiles = {f1, f2}
  WitnessFiles = {w1}
  Contents = {A, B}
  MaxCli = 3
SYMMETRY Symmetry
INVARIANT TypeOK
INVARIANT HwWitnessFits
PROPERTY TransformKeepsWitnesses
CHECK_DEADLOCK FALSE
