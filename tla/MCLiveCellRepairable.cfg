\* The repair call the gate schedules can succeed: it need not.
SPECIFICATION Spec
CONSTANTS
  f1 = f1
  f2 = f2
  omitted = omitted
  c1 = c1
  c2 = c2
  c3 = c3
  p1 = p1
  p2 = p2
  said = said
  other = other
  Missing = Missing
  Malformed = Malformed
  Facts <- MCFacts
  RetainedFacts <- MCRetainedFacts
  Chunks <- MCChunks
  HomeChunk <- MCHomeChunk
  Paths <- MCPaths
  Bodies <- MCBodies
  ChildOrder <- MCChildOrder
  SelectedChunks <- MCSelectedChunks
  Reports <- MCReports
  Syntheses <- MCSyntheses
  CanWrite = TRUE
INVARIANT
  EligibleIsRepairable
CHECK_DEADLOCK FALSE
