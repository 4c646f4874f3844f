SPECIFICATION FairSpec
CONSTANTS
  t1 = t1
  t2 = t2
  t3 = t3
  Threads <- MCPair
  Sites = {"blog", "shop"}
  MaxSites = 1
  SiteTTL = 0
  MaxVersion <- MCVersions
  ProxySites = {"shop"}
  LostAnswers = TRUE
  NoSite = NoSite
  NoThread = NoThread
INVARIANTS MutualExclusion DownloadOnlyOnMiss StaleOnlyIfExposed
PROPERTIES NeverOlder EveryRequestEnds
