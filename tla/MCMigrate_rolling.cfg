SPECIFICATION FairSpec
CONSTANTS
  s1 = s1
  s2 = s2
  s3 = s3
  Nobody = Nobody
  DefaultTable = "schema_migrations"
  Tables = {"schema_migrations"}
  Keys = {"schema_migrations"}
  Ops = {"up"}
  Sessions <- ThreeSessions
  LockKey <- OwnKeys
  UpFiles <- MixedReleases
  DownFiles <- MixedReleases
INVARIANT NeverTwice
PROPERTY EveryCallReturns
