\* What the gate's own documentation says of unsupported claims.
SPECIFICATION GatedSpec
CONSTANTS
  Configs <- FewConfigs
  MaxChunks = 3
  Answers <- MCAnswers
  NotAnObject = NotAnObject
  NoAnswer = NoAnswer
  Elsewhere = Elsewhere
  Missing = Missing
INVARIANT
  UnsupportedClaimsAreRejected
CHECK_DEADLOCK FALSE
