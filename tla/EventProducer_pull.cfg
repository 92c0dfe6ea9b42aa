\* All three open modes and every UseS3SNS / SQSDelete setting.  Local and
\* S3: every order of every subset of four files, two download batches
\* (D = 2), transient read and download failures, an empty file, a corrupt
\* and a good gzip file, every record skip path and an oversized record.
\* Queue: three notifications (two buckets, one malformed) in any order,
\* receive and delete errors, one redelivery.
CONSTANTS
  b1 = b1
  b2 = b2
  k1 = k1
  k2 = k2
  k3 = k3
  k4 = k4
  m1 = m1
  m2 = m2
  m3 = m3
  NoObj = NoObj
  Modes = {"file", "s3", "sqs"}
  D = 2
  Buckets = {b1, b2}
  Keys = {k1, k2, k3, k4}
  GzKeys = {k3, k4}
  Corrupt = {k3}
  Recs <- RecsPull
  Objects <- ObjectsAll
  MayFail = {k1, k3}
  Bucket0 = b1
  Walks <- AnyWalk
  InitFileLists <- AnyFileList
  MsgIds = {m1, m2, m3}
  Msgs <- MsgsAll
  Configs <- AnyConfig
  QueueMayFail = TRUE
  MaxRedeliveries = 1

SPECIFICATION Spec
INVARIANT TypeOK
INVARIANT FetchesNotifiedObject
INVARIANT DeletedMessagesListed
PROPERTY ImplementsRecordStream
