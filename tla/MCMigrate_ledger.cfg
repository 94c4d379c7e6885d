SPECIFICATION Spec
CONSTANTS
  s1 = s1
  s2 = s2
  s3 = s3
  Nobody = Nobody
  DefaultTable = "schema_migrations"
  Tables = {"schema_migrations", "custom"}
  Keys = {"schema_migrations", "custom"}
  Ops = {"up", "down"}
  Sessions <- ThreeSessions
  LockKey <- OwnKeys
  UpFiles <- OneRelease
  DownFiles <- DownButOne
INVARIANTS LedgerAccurate ScriptsFit NilIsTrue
PROPERTIES DirtyCloses ImplementsHistory
