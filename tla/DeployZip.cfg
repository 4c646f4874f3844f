SPECIFICATION ZipFairSpec
CONSTANTS
  Files = {f1, f2, f3, f4, f5}
  Workers = 2
  CallerLeaves = TRUE
CHECK_DEADLOCK FALSE
INVARIANTS TokensMatch SuccessIsComplete
PROPERTIES NothingAfterReturn Returns
