\* Two interleaved runs, cut writes and damaged seeds.
SPECIFICATION Spec
CONSTANTS
  run1 = run1
  run2 = run2
  family1 = family1
  category1 = category1
  category2 = category2
  Anything = Anything
  AList = AList
  Unlisted = Unlisted
  Junk = Junk
  Runs <- MCRuns
  Reading <- MCReading
  Writing <- MCWriting
  Families <- MCFamilies
  Categories <- MCCategories
  Seeds <- MCSeeds
  MaxStores = 2
INVARIANTS
  TypeOK
  LossIsBounded
  PriorsAreGuarded
PROPERTIES
  AppendOnly
  RecallIsComplete
CHECK_DEADLOCK FALSE
