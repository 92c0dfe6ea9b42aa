\* Single-account or organization prefix, with S3AccountList unset (accounts
\* discovered by a delimited listing), well-formed or malformed; one listKeys
\* goroutine at a time, every interval; account discovery and list pages
\* may fail.
CONSTANTS
  a1 = a1
  a2 = a2
  a3 = a3
  x = x
  r1 = r1
  r2 = r2
  k1 = k1
  k2 = k2
  k3 = k3
  k4 = k4
  k5 = k5
  k6 = k6
  Short = Short
  Raw = Raw
  NoTS = NoTS
  NoTime = NoTime
  D = 1
  Shapes = {"acct", "org"}
  Acct0 = a1
  AccountListStrs <- AccountListDef
  OrgDirs <- OrgDirsDef
  Accounts = {a1, a2}
  RegionsOf <- RegionsDef
  Pages <- PagesDef
  Ext <- ExtDef
  TS <- TSDef
  DayOf <- DayOfDef
  Intervals <- IntervalsDef
  MayFail <- FailOpen

SPECIFICATION Spec
CHECK_DEADLOCK FALSE
INVARIANT ListedExactlyOnce
INVARIANT NoErrorSwallowed
INVARIANT AccountPrefixesWellFormed
INVARIANT ChunksPartitionOrigins
PROPERTY OpenReturns
