\* SQS mode, S3 event notification whose records name two buckets: the
\* download of the first key uses the bucket of the last record.
CONSTANTS
  b1 = b1
  b2 = b2
  k1 = k1
  k2 = k2
  k3 = k3
  k4 = k4
  m1 = m1
  m2 = m2
  m3 = m3
  NoObj = NoObj
  Modes = {"sqs"}
  D = 2
  Buckets = {b1, b2}
  Keys = {k1, k2}
  GzKeys = {k2}
  Corrupt = {}
  Recs <- RecsPair
  Objects <- ObjectsMultiBucket
  MayFail = {}
  Bucket0 = b1
  Walks = {}
  InitFileLists = {}
  MsgIds = {m1}
  Msgs <- MsgsMultiBucket
  Configs <- SNSConfig
  QueueMayFail = FALSE
  MaxRedeliveries = 1

SPECIFICATION Spec
INVARIANT FetchesNotifiedObject
