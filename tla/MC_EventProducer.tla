-------------------------- MODULE MC_EventProducer --------------------------
(***************************************************************************)
(* Instances of EventProducer for TLC.  Buckets, keys and messages are     *)
(* model values declared in the .cfg files; the record contents of each   *)
(* key and the notification bodies are defined here.                      *)
(***************************************************************************)
EXTENDS EventProducer

CONSTANTS b1, b2, k1, k2, k3, k4, m1, m2, m3

\* Files covering every path of nextEvent: k1 may fail to read, k2 is empty,
\* k3 is a corrupt gzip, k4 a good gzip with every skip path and, last, an
\* oversized record.
RecsPull == [k \in Keys |->
               CASE k = k1 -> <<"ok", "notype", "ok">>
               []   k = k2 -> <<>>
               []   k = k3 -> <<"ok">>
               []   k = k4 -> <<"notime", "badtime", "badjson", "insight", "ok", "big">>]
\* Every order of every subset of the keys: S3 listing order is the order
\* of the listing workers' appends, local order the directory walk's.
AnyFileList == UNION {SetToSeqs(S) : S \in SUBSET Keys}
\* A local directory: its own visit, the files of a file list (".json.gz"
\* for GzKeys, ".json" otherwise) and a file of another extension.
Visit(k) == [kind |-> "file", path |-> k, ext |-> IF k \in GzKeys THEN "gz" ELSE "json"]
AnyWalk == {<<[kind |-> "dir", path |-> "dir", ext |-> "none"]>>
              \o [i \in 1 .. Len(fl) |-> Visit(fl[i])]
              \o <<[kind |-> "file", path |-> "notes.txt", ext |-> "txt"]>>
            : fl \in AnyFileList}
ObjectsB1 == {b1} \X Keys

\* Two files in one batch, so a failure of one leaves the other's slot.
FilesPair == {<<k1, k2>>}
RecsPair == [k \in Keys |-> <<"ok">>]

\* Notifications read under either shape: two in bucket b1, one in b2, one
\* malformed; the b2 object exists too.
MsgsAll == [m \in MsgIds |->
              CASE m = m1 -> [ok |-> TRUE, bucket |-> b1,
                              recs |-> <<<<b1, k1>>, <<b1, k2>>>>]
              []   m = m2 -> [ok |-> TRUE, bucket |-> b2,
                              recs |-> <<<<b2, k1>>>>]
              []   m = m3 -> [ok |-> FALSE, bucket |-> b1, recs |-> <<>>]]
ObjectsAll == ({b1} \X Keys) \cup {<<b2, k1>>}

\* Every setting of UseS3SNS and SQSDelete.
AnyConfig == [UseS3SNS : BOOLEAN, SQSDelete : BOOLEAN]
DefaultConfig == {[UseS3SNS |-> FALSE, SQSDelete |-> FALSE]}
SNSConfig == {[UseS3SNS |-> TRUE, SQSDelete |-> FALSE]}

\* An S3 event notification whose records name two buckets.
MsgsMultiBucket == [m \in MsgIds |->
                      [ok |-> TRUE, bucket |-> b1,
                       recs |-> <<<<b1, k1>>, <<b2, k2>>>>]]
ObjectsMultiBucket == {<<b1, k1>>, <<b2, k2>>}

=============================================================================
