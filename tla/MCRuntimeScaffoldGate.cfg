\* The scaffold loop over every small run configuration, and the gate after it.
SPECIFICATION GatedFairSpec
CONSTANTS
  Configs <- MCConfigs
  MaxChunks = 3
  Answers <- MCAnswers
  NotAnObject = NotAnObject
  NoAnswer = NoAnswer
  Elsewhere = Elsewhere
  Missing = Missing
INVARIANTS
  GateTypeOK
  Converged
  SynthesisSeesEveryChild
  TreesAgree
  LimitIsExact
  GateIsExact
PROPERTIES
  RunEnds
  ScaffoldGathers
CHECK_DEADLOCK FALSE
