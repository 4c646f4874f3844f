SPECIFICATION FairSpec
CONSTANTS
  Threads = {"t1", "t2"}
  Json = {"a"}
  TTLs = {0, 1}
  CopyTTL = 2
  Redis = {"r1"}
  Postgres = {"p1", "p2"}
  MySQL = {}
  Mongo = {}
  SQLite = {"s1"}
  Flaky = TRUE
  NoValue = NoValue
PROPERTIES FindsTheLast DisagreementEnds
