\* A store seeded without a final newline, as the repository's own test does.
SPECIFICATION Spec
CONSTANTS
  run1 = run1
  run2 = run2
  family1 = family1
  category1 = category1
  category2 = category2
  Anything = Anything
  AList = AList
  Unlisted = Unlisted
  Junk = Junk
  Runs <- MCRuns
  Reading <- MCReading
  Writing <- MCWriting
  Families <- MCFamilies
  Categories <- MCCategories
  Seeds <- JsonlSeeds
  MaxStores = 2
INVARIANT
  ReportedIsPersisted
CHECK_DEADLOCK FALSE
