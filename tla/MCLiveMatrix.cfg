\* Every grid of three fixtures by two families, and the files of two runs of
\* three fixtures in one directory.
SPECIFICATION Spec
CONSTANTS
  family1 = family1
  family2 = family2
  Absent = Absent
  Torn = Torn
  Matrices <- MCMatrices
INVARIANTS
  TypeOK
  VerdictIsEarned
  FinalIsComplete
  PairsAgree
  CheckpointIsCurrent
PROPERTY
  VerdictIsStable
CHECK_DEADLOCK FALSE
