SPECIFICATION FairSpec
CONSTANTS
  Threads = {"t1", "t2"}
  Instances = {"i1", "i2"}
  Home <- MCHome
  LockTTL = 1
  CopyTTL = 2
  Redis = {"r1", "r2"}
  Postgres = {"p1", "p2"}
  MySQL = {}
  Mongo = {}
  SQLite = {}
  NoValue = NoValue
INVARIANT OneRunWithoutRaces
PROPERTIES FoundOnlyWhileHeld LockIsFreed
