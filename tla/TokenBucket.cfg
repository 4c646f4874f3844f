SPECIFICATION BucketSpec
CONSTANTS
  Keys = {"k1", "k2"}
  Cost = 3
  Rate = 2
  Burst = 7
  Expiry = 4
  MaxTime = 7
INVARIANT WindowIsBounded
PROPERTY PacedIsAdmitted
