\* S3DownloadConcurrency = 2: two listKeys goroutines of one chunk append to
\* oCtx.files concurrently.
CONSTANTS
  a1 = a1
  a2 = a2
  a3 = a3
  x = x
  r1 = r1
  r2 = r2
  k1 = k1
  k2 = k2
  k3 = k3
  k4 = k4
  k5 = k5
  k6 = k6
  Short = Short
  Raw = Raw
  NoTS = NoTS
  NoTime = NoTime
  D = 2
  Shapes = {"org"}
  Acct0 = a1
  AccountListStrs <- NoAccountList
  OrgDirs <- OrgDirsDef
  Accounts = {a1, a2}
  RegionsOf <- RegionsDef
  Pages <- PagesDef
  Ext <- ExtDef
  TS <- TSDef
  DayOf <- DayOfDef
  Intervals <- NoInterval
  MayFail <- FailNone

SPECIFICATION Spec
CHECK_DEADLOCK FALSE
INVARIANT ListedExactlyOnce
