\* Finding: an error noted before a request stamps the rows of its answer too early.
SPECIFICATION Spec
CONSTANTS
  Missing = Missing
  c1 = c1
  c2 = c2
  Commands = {c1, c2}
  Matches = {1}
  Markets = {"SECOND_HALF_OVER_0_5", "HOME_OR_DRAW"}
  Windows = {{0, 1, 2, 3, 4}}
  Reports <- MCReports
  Scores <- MCScores
  MaxTime = 2
  MaxRows = 3
  MaxBatch = 1
  MaxTargets = 1
  MaxSettled = 1
  MinimumSample = 2
  MaxSegments = 1
SYMMETRY MCSymmetry
INVARIANT
  StoredInOrder
