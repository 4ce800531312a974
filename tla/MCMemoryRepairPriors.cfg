\* What a cell reported about repairs, at the next recall.
SPECIFICATION Spec
CONSTANTS
  run1 = run1
  run2 = run2
  family1 = family1
  category1 = category1
  category2 = category2
  Anything = Anything
  AList = AList
  Unlisted = Unlisted
  Junk = Junk
  Runs <- MCRuns
  Reading <- MCReading
  Writing <- MCWriting
  Families <- MCFamilies
  Categories <- MCCategories
  Seeds <- MCSeeds
  MaxStores = 2
INVARIANT
  RepairPriorsAreRecalled
CHECK_DEADLOCK FALSE
