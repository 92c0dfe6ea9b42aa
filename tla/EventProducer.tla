--------------------------- MODULE EventProducer ---------------------------
(***************************************************************************)
(* The pull state machine of the CloudTrail source (source.go): nextEvent  *)
(* with the three ways it obtains file bytes (readFileLocal,               *)
(* readNextFileS3 with its batch of s3Download goroutines, and the SQS     *)
(* poll getMoreSQSFiles), gzip inflation and the per-record checks.        *)
(*                                                                         *)
(* Data is abstracted: an object is a <<bucket, key>> pair, its bytes are  *)
(* identified with the object, and the records the splitter extracts from *)
(* it are the sequence Recs[key] of record kinds (RecordSplitter.tla      *)
(* checks the splitter itself).  A record is identified by <<object, i>>.  *)
(*                                                                         *)
(* One pull is one step: the plugin host serialises calls to nextEvent,   *)
(* and the download goroutines of a batch write disjoint slots and are    *)
(* joined (DownloadWg.Wait) before nextEvent reads any of them, so their  *)
(* interleaving is invisible; which of them fail is a nondeterministic    *)
(* choice.                                                                 *)
(***************************************************************************)
EXTENDS Integers, Sequences, SequencesExt, FiniteSets

CONSTANTS
  Modes,           \* open modes to check: "file", "s3", "sqs"
  D,               \* config.S3DownloadConcurrency
  Buckets,         \* bucket names (model values)
  Keys,            \* object keys / local file names (model values)
  GzKeys,          \* keys ending in ".json.gz"
  Corrupt,         \* keys whose gzip stream is truncated or corrupt
  Recs,            \* [Keys -> Seq(Kinds)]: records the splitter extracts
  Objects,         \* existing <<bucket, key>> objects
  MayFail,         \* keys whose read or download may fail transiently
  Bucket0,         \* bucket of an "s3://" locator (or the local directory)
  Walks,           \* visits of filepath.Walk over the local directory, in
                   \* walk order: [kind : {"dir", "file"}, path, ext]
  InitFileLists,   \* file lists openS3 can build, in list order
  MsgIds,          \* SQS messages (model values)
  Msgs,            \* [MsgIds -> [ok, bucket, recs]]: notification bodies
  Configs,         \* [UseS3SNS, SQSDelete] settings to check: S3 event
                   \* vs custom notification shape, delete on read
  QueueMayFail,    \* ReceiveMessage / DeleteMessage may return an error
  MaxRedeliveries, \* bound on visibility-timeout redeliveries
  NoObj            \* content of a never-filled download slot

\* Outcomes of the record checks of nextEvent (lines 711-759).
Kinds == {"ok", "badjson", "notime", "badtime", "notype", "insight", "big"}

VARIABLES
  openMode,              \* oCtx.openMode, set by the open
  config,                \* oCtx.config: [UseS3SNS, SQSDelete]
  files,                 \* oCtx.files: Seq([name, bucket]); bucket is a
                         \* ghost: the bucket the file was announced in
  curFileNum,            \* oCtx.curFileNum
  evtJSONStrings,        \* oCtx.evtJSONStrings: Seq(<<object, index>>)
  evtJSONListPos,        \* oCtx.evtJSONListPos
  bucket,                \* oCtx.s3.bucket
  bufs,                  \* oCtx.s3.DownloadBufs: [0..D-1 -> object]
  lastDownloadedFileNum, \* oCtx.s3.lastDownloadedFileNum
  nFilledBufs,           \* oCtx.s3.nFilledBufs
  curBuf,                \* oCtx.s3.curBuf
  pending,               \* messages not yet sent to the queue
  visible,               \* messages ReceiveMessage can return
  inflight,              \* received, not deleted, invisible
  redeliveries,          \* visibility timeouts so far
  result,                \* outcome of the last pull
  emitted,               \* history: records written to the host, in order
  lastFetch              \* history: <<announced, fetched>> objects of the
                         \* last download batch

\* oCtx.s3 (s3State, lines 68-77) and the PluginInstance fields (86-100) the
\* pull loop reads; the clients, queue URL and parser only address services.
s3vars == <<bucket, bufs, lastDownloadedFileNum, nFilledBufs, curBuf>>
qvars == <<pending, visible, inflight, redeliveries>>
vars == <<openMode, config, files, curFileNum, evtJSONStrings, evtJSONListPos, s3vars, qvars,
          result, emitted, lastFetch>>

Slots == 0 .. D - 1
\* fileInfo (lines 62-65); isCompressed is membership of the name in GzKeys.
FileInfo == [name : Keys, bucket : Buckets]
Obj(f) == <<f.bucket, f.name>>
Kind(r) == Recs[r[1][2]][r[2]]

\* extractRecordStrings applied to the bytes of object o (lines 704-705).
Split(o) == [i \in 1 .. Len(Recs[o[2]]) |-> <<o, i>>]

-----------------------------------------------------------------------------
(* getMoreSQSFiles (lines 420-539), as the set of its possible results     *)
(* from the given file list, bucket and queue.                             *)
Appended_replaces(fs, m) ==
  [i \in 1 .. Len(Msgs[m].recs) |->
     [name |-> Msgs[m].recs[i][2],
      bucket |-> IF config.UseS3SNS THEN Msgs[m].recs[i][1] ELSE Msgs[m].bucket]]
Appended(fs, m) ==
  fs \o [i \in 1 .. Len(Msgs[m].recs) |->
           [name |-> Msgs[m].recs[i][2],
            bucket |-> IF config.UseS3SNS THEN Msgs[m].recs[i][1] ELSE Msgs[m].bucket]]

\* s3.bucket after the loop of lines 490-510, or line 525.
BucketAfter_snsKeeps(b, m) == IF config.UseS3SNS THEN b ELSE Msgs[m].bucket
BucketAfter_customKeeps(b, m) ==
  IF config.UseS3SNS
  THEN IF Msgs[m].recs = <<>> THEN b ELSE Last(Msgs[m].recs)[1]
  ELSE b
BucketAfter(b, m) ==
  IF config.UseS3SNS
  THEN IF Msgs[m].recs = <<>> THEN b ELSE Last(Msgs[m].recs)[1]
  ELSE Msgs[m].bucket

GetMoreSQSFiles(fs, b, vis, infl) ==
  LET Same(err) == [err |-> err, files |-> fs, bucket |-> b,
                    visible |-> vis, inflight |-> infl]
      Received(m, err, infl2) ==
        [err |-> err, visible |-> vis \ {m}, inflight |-> infl2,
         files |-> IF err THEN fs ELSE Appended(fs, m),
         bucket |-> IF err THEN b ELSE BucketAfter(b, m)]
  IN  (IF QueueMayFail THEN {Same(TRUE)} ELSE {})          \* line 433
      \cup (IF vis = {} THEN {Same(FALSE)} ELSE {})        \* line 437
      \cup UNION {
        IF config.SQSDelete
        THEN (IF QueueMayFail                              \* line 450
              THEN {Received(m, TRUE, infl \cup {m})} ELSE {})
             \cup {Received(m, ~Msgs[m].ok, infl)}         \* lines 461-474
        ELSE {Received(m, ~Msgs[m].ok, infl \cup {m})}
        : m \in vis}

-----------------------------------------------------------------------------
\* nFilledBufs of a new batch: line 593.
BatchSize_oneShort(fs) ==
  LET rest == Len(fs) - lastDownloadedFileNum
  IN IF D < rest THEN D ELSE rest - 1
BatchSize(fs) ==
  LET rest == Len(fs) - lastDownloadedFileNum
  IN IF D < rest THEN D ELSE rest

(* readNextFileS3 (lines 584-610) with its s3Download goroutines (566-582) *)
(* as the set of possible [err, content, s3 state, fetch] results.         *)
ReadNextFileS3(fs, b) ==
  IF curBuf < nFilledBufs
  THEN {[err |-> FALSE, crash |-> FALSE, content |-> bufs[curBuf],
         bufs |-> bufs, last |-> lastDownloadedFileNum, n |-> nFilledBufs,
         cur |-> curBuf + 1, fetch |-> lastFetch]}
  ELSE
    LET k == lastDownloadedFileNum
        n == BatchSize(fs)
        batch == 0 .. n - 1
        Fetched(j) == <<b, fs[k + j + 1].name>>
        MustFail == {j \in batch : Fetched(j) \notin Objects}
        CanFail == {j \in batch : fs[k + j + 1].name \in MayFail}
        fetch == {<<Obj(fs[k + j + 1]), Fetched(j)>> : j \in batch}
    IN
    {LET newBufs == [j \in Slots |->
                       IF j \in batch \ F THEN Fetched(j) ELSE bufs[j]]
     IN IF F # {}
        THEN [err |-> TRUE, crash |-> FALSE, content |-> NoObj,
              bufs |-> newBufs, last |-> k, n |-> n, cur |-> curBuf,
              fetch |-> fetch]
        ELSE [err |-> FALSE, crash |-> D = 0,    \* DownloadBufs[0], line 609
              content |-> IF D = 0 THEN NoObj ELSE newBufs[0],
              bufs |-> newBufs, last |-> k + n, n |-> n, cur |-> 1,
              fetch |-> fetch]
     : F \in {MustFail \cup G : G \in SUBSET CanFail}}

\* readFileLocal (lines 612-614): the named file or an I/O error.
ReadFileLocal(f) ==
  {[err |-> FALSE, crash |-> FALSE, content |-> Obj(f), bufs |-> bufs,
    last |-> lastDownloadedFileNum, n |-> nFilledBufs, cur |-> curBuf,
    fetch |-> lastFetch]}
  \cup (IF f.name \in MayFail
        THEN {[err |-> TRUE, crash |-> FALSE, content |-> NoObj,
               bufs |-> bufs, last |-> lastDownloadedFileNum,
               n |-> nFilledBufs, cur |-> curBuf, fetch |-> lastFetch]}
        ELSE {})

-----------------------------------------------------------------------------
(* The pull actions.  The host stops pulling after a fatal error (or a    *)
(* panic).                                                                 *)
CanPull == result \notin {"error", "crash"}

\* Every listed file has been opened: lines 647 and 659.
AllFilesRead_lastSkipped(fs) == curFileNum + 1 >= Len(fs)
AllFilesRead(fs) == curFileNum >= Len(fs)

NoPoll == [err |-> FALSE, files |-> files, bucket |-> bucket,
           visible |-> visible, inflight |-> inflight]

\* The record cursor after extracting at pos: lines 712-725 advance it
\* on a parse failure (717) and after a parse (721), not on an empty list.
NextPos_badJsonStays(strs, pos) ==
  IF strs = <<>> \/ Kind(strs[pos + 1]) = "badjson" THEN pos ELSE pos + 1
NextPos_twice(strs, pos) == IF strs = <<>> THEN pos ELSE pos + 2
NextPos(strs, pos) == IF strs = <<>> THEN pos ELSE pos + 1

\* The pull's result for record r: lines 713-767.  Unparsable JSON, a
\* missing or non-RFC3339 eventTime, a missing eventType and an insight
\* event are skipped with a timeout; a record longer than the host's event
\* buffer is a fatal write error.
Outcome_noInsightCheck(r) ==
  CASE Kind(r) \in {"ok", "insight"} -> "event"
  []   Kind(r) = "big"                -> "error"
  []   OTHER                          -> "timeout"
Outcome(r) ==
  CASE Kind(r) = "ok"  -> "event"
  []   Kind(r) = "big" -> "error"
  []   OTHER           -> "timeout"

\* Lines 710-767 for the record at position pos of strs.
Extract(strs, pos) ==
  /\ evtJSONListPos' = NextPos(strs, pos)
  /\ IF strs = <<>>
     THEN /\ result' = "timeout"                            \* line 724
          /\ emitted' = emitted
     ELSE LET r == strs[pos + 1] IN
          /\ result' = Outcome(r)
          /\ emitted' = IF Outcome(r) = "event" THEN Append(emitted, r)
                                               ELSE emitted

\* A record is still buffered: lines 710-769.
NextRecord ==
  /\ CanPull
  /\ evtJSONListPos < Len(evtJSONStrings)
  /\ Extract(evtJSONStrings, evtJSONListPos)
  /\ UNCHANGED <<openMode, config, files, curFileNum, evtJSONStrings, s3vars, qvars,
                 lastFetch>>

\* All files consumed, file or s3 mode: line 663.
EndOfStream ==
  /\ CanPull
  /\ openMode # "sqs"
  /\ evtJSONListPos >= Len(evtJSONStrings)
  /\ AllFilesRead(files)
  /\ result' = "eof"
  /\ UNCHANGED <<openMode, config, files, curFileNum, evtJSONStrings, evtJSONListPos, s3vars,
                 qvars, emitted, lastFetch>>

\* All files consumed, sqs mode, and the poll fails or brings no file:
\* lines 651-661.
PollNoFile ==
  /\ CanPull
  /\ openMode = "sqs"
  /\ evtJSONListPos >= Len(evtJSONStrings)
  /\ AllFilesRead(files)
  /\ \E p \in GetMoreSQSFiles(files, bucket, visible, inflight) :
       /\ p.err \/ AllFilesRead(p.files)
       /\ result' = IF p.err THEN "error" ELSE "timeout"
       /\ files' = p.files
       /\ bucket' = p.bucket
       /\ visible' = p.visible
       /\ inflight' = p.inflight
  /\ UNCHANGED <<openMode, config, curFileNum, evtJSONStrings, evtJSONListPos, bufs,
                 lastDownloadedFileNum, nFilledBufs, curBuf, pending,
                 redeliveries, emitted, lastFetch>>

\* Open the next file (after a poll that brought files, in sqs mode),
\* read, inflate and split it, then extract its first record:
\* lines 645-724.
OpenFile ==
  /\ CanPull
  /\ evtJSONListPos >= Len(evtJSONStrings)
  /\ \E p \in IF ~AllFilesRead(files) THEN {NoPoll}
              ELSE IF openMode = "sqs"
                   THEN {q \in GetMoreSQSFiles(files, bucket, visible, inflight) :
                           ~q.err /\ ~AllFilesRead(q.files)}
                   ELSE {} :
     LET f == p.files[curFileNum + 1] IN
     \E rd \in IF openMode = "file" THEN ReadFileLocal(f)
               ELSE ReadNextFileS3(p.files, p.bucket) :
       LET o == rd.content
           \* a slot never filled holds nil bytes
           inflated == o # NoObj /\ o[2] \in GzKeys /\ o[2] \notin Corrupt
       IN
       /\ files' = p.files
       /\ curFileNum' = curFileNum + 1                       \* line 668
       /\ bucket' = p.bucket
       /\ visible' = p.visible
       /\ inflight' = p.inflight
       /\ bufs' = rd.bufs
       /\ lastDownloadedFileNum' = rd.last
       /\ nFilledBufs' = rd.n
       /\ curBuf' = rd.cur
       /\ lastFetch' = rd.fetch
       /\ UNCHANGED <<openMode, config, pending, redeliveries>>
       /\ CASE rd.crash ->                                   \* index panic
                 /\ result' = "crash"
                 /\ UNCHANGED <<evtJSONStrings, evtJSONListPos, emitted>>
            [] ~rd.crash /\ rd.err ->                        \* line 676
                 /\ result' = "error"
                 /\ UNCHANGED <<evtJSONStrings, evtJSONListPos, emitted>>
            [] ~rd.crash /\ ~rd.err /\ f.name \in GzKeys /\ ~inflated ->
                 \* lines 681-690
                 /\ result' = "timeout"
                 /\ UNCHANGED <<evtJSONStrings, evtJSONListPos, emitted>>
            [] OTHER ->
                 \* nil bytes, or gzip bytes read as JSON, hold no record
                 LET strs == IF o = NoObj \/ (o[2] \in GzKeys /\ f.name \notin GzKeys)
                             THEN <<>> ELSE Split(o)
                 IN /\ evtJSONStrings' = strs
                    /\ Extract(strs, 0)

-----------------------------------------------------------------------------
(* The queue's own behaviour.                                              *)
Send ==
  /\ \E m \in pending :
       /\ pending' = pending \ {m}
       /\ visible' = visible \cup {m}
  /\ UNCHANGED <<openMode, config, files, curFileNum, evtJSONStrings, evtJSONListPos, s3vars,
                 inflight, redeliveries, result, emitted, lastFetch>>

\* A received, undeleted message becomes visible again.
VisibilityTimeout ==
  /\ redeliveries < MaxRedeliveries
  /\ \E m \in inflight :
       /\ inflight' = inflight \ {m}
       /\ visible' = visible \cup {m}
  /\ redeliveries' = redeliveries + 1
  /\ UNCHANGED <<openMode, config, files, curFileNum, evtJSONStrings, evtJSONListPos, s3vars,
                 pending, result, emitted, lastFetch>>

\* The host has stopped pulling after a fatal error or a crash.
\* Lines 129-142, the filepath.Walk callback of openLocal: directories are
\* skipped, and files ending in .json or .json.gz are appended in walk
\* order.  The callback returns nil whatever error Walk passes it, so a
\* directory Walk cannot read is skipped with its contents, and Walks holds
\* only what Walk visited.
WalkFiles(walk) ==
  LET kept == SelectSeq(walk, LAMBDA v : v.kind = "file" /\ v.ext \in {"json", "gz"})
  IN [i \in 1 .. Len(kept) |-> kept[i].path]

Stopped ==
  /\ ~CanPull
  /\ UNCHANGED vars

-----------------------------------------------------------------------------
(* openSQS (lines 541-564): the successful opens over a queue holding the *)
(* messages sent.  A GetQueueUrl error (line 557) and an error of the     *)
(* first getMoreSQSFiles (line 563) both fail the open, so no session     *)
(* starts; the queue name and owner account only address the queue.      *)
OpenSQS(sent) == {p \in GetMoreSQSFiles(<<>>, Bucket0, sent, {}) : ~p.err}

\* State right after a successful openLocal / openS3 / openSQS.
Init ==
  /\ curFileNum = 0
  /\ evtJSONStrings = <<>>
  /\ evtJSONListPos = 0
  /\ bufs = [j \in Slots |-> NoObj]
  /\ lastDownloadedFileNum = 0
  /\ nFilledBufs = 0
  /\ curBuf = 0
  /\ redeliveries = 0
  /\ result = "none"
  /\ emitted = <<>>
  /\ lastFetch = {}
  /\ openMode \in Modes
  /\ config \in Configs
  /\ IF openMode = "sqs"
     THEN \E sent \in SUBSET MsgIds :
            \E p \in OpenSQS(sent) :
              /\ files = p.files
              /\ bucket = p.bucket
              /\ pending = MsgIds \ sent
              /\ visible = p.visible
              /\ inflight = p.inflight
     ELSE /\ \E fl \in IF openMode = "file" THEN {WalkFiles(w) : w \in Walks}
                          ELSE InitFileLists :
               /\ openMode = "file" => fl # <<>>             \* line 146
               /\ files = [i \in 1 .. Len(fl) |-> [name |-> fl[i], bucket |-> Bucket0]]
          /\ bucket = Bucket0
          /\ pending = {}
          /\ visible = {}
          /\ inflight = {}

Pull == NextRecord \/ EndOfStream \/ PollNoFile \/ OpenFile

Next == Pull \/ Send \/ VisibilityTimeout \/ Stopped

Spec == Init /\ [][Next]_vars /\ WF_vars(Pull)

-----------------------------------------------------------------------------
TypeOK ==
  /\ openMode \in Modes
  /\ config \in Configs
  /\ files \in Seq(FileInfo)
  /\ curFileNum \in 0 .. Len(files)
  /\ evtJSONListPos \in 0 .. Len(evtJSONStrings)
  /\ bufs \in [Slots -> (Buckets \X Keys) \cup {NoObj}]
  /\ lastDownloadedFileNum \in 0 .. Len(files)
  /\ nFilledBufs \in 0 .. D
  /\ curBuf \in 0 .. D
  /\ pending \cup visible \cup inflight \subseteq MsgIds
  /\ result \in {"none", "event", "timeout", "eof", "error", "crash"}

\* The records a correct reader delivers from file number i: the "ok"
\* records of the announced object, none of a corrupt gzip file.
Readable(i) ==
  LET f == files[i] IN
  IF f.name \in GzKeys /\ f.name \in Corrupt
  THEN <<>>
  ELSE SelectSeq(Split(Obj(f)), LAMBDA r : Kind(r) = "ok")

\* The abstract source seen through the pull loop's state: every good
\* record of the file list, what the host received, and the pull result.
Stream == INSTANCE RecordStream
            WITH kind <- IF openMode = "sqs" THEN "queue" ELSE "finite",
                 src <- FlattenSeq([i \in 1 .. Len(files) |-> Readable(i)]),
                 out <- emitted,
                 status <- CASE result = "eof" -> "eof"
                           []   result \in {"error", "crash"} -> "failed"
                           []   OTHER -> "open"

(* Every object a download batch fetched is the object its file was       *)
(* announced as: the bucket s3Download uses is the one the notification   *)
(* named for that key.                                                    *)
FetchesNotifiedObject == \A p \in lastFetch : p[1] = p[2]

(* With SQSDelete, getMoreSQSFiles deletes a message before it parses it  *)
(* (lines 441-474).  A message that has left the queue for good (received *)
(* and deleted, so never redelivered) has every object it notified in the *)
(* file list, in the bucket its shape names, unless the session has ended *)
(* in a fatal error: delete-on-read may lose a notification only through  *)
(* an error the host sees, never silently by a later receive or append.   *)
Deleted(m) == m \in MsgIds \ (pending \cup visible \cup inflight)
Notified(m) ==
  {[name |-> r[2], bucket |-> IF config.UseS3SNS THEN r[1] ELSE Msgs[m].bucket]
   : r \in ToSet(Msgs[m].recs)}
DeletedMessagesListed ==
  openMode = "sqs" /\ result \notin {"error", "crash"} =>
    \A m \in MsgIds : Deleted(m) => Notified(m) \subseteq ToSet(files)

(* The pull loop implements the record stream the host is promised: each *)
(* pull returns the next good record of the file list or none, end of    *)
(* stream comes only after the last one and stays, queue mode only       *)
(* appends, and a host that keeps pulling is served to the end.  This    *)
(* covers the slot cursors of readNextFileS3 across batches, every skip   *)
(* path of nextEvent, polls between batches, and termination.            *)
ImplementsRecordStream == Stream!Spec

=============================================================================
