\* A prefix of neither AWSLogs shape with an interval set: the interval
\* is formatted only when region prefixes were found (line 370).
CONSTANTS
  a1 = a1
  a2 = a2
  a3 = a3
  x = x
  r1 = r1
  r2 = r2
  k1 = k1
  k2 = k2
  k3 = k3
  k4 = k4
  k5 = k5
  k6 = k6
  Short = Short
  Raw = Raw
  NoTS = NoTS
  NoTime = NoTime
  D = 1
  Shapes = {"other"}
  Acct0 = a1
  AccountListStrs <- NoAccountList
  OrgDirs <- OrgDirsDef
  Accounts = {a1, a2}
  RegionsOf <- RegionsDef
  Pages <- PagesDef
  Ext <- ExtDef
  TS <- TSDef
  DayOf <- DayOfDef
  Intervals <- Window
  MayFail <- FailNone

SPECIFICATION Spec
CHECK_DEADLOCK FALSE
INVARIANT WindowRespected
