# TLA+ models of the CloudTrail source plugin

This directory holds TLA+ models of the event source of the CloudTrail plugin,
`src/plugins/cloudtrail/pkg/cloudtrail/source.go`, and the TLC configurations
that check them. The repository's other source files are build scripts, CI
configuration and a unit test, which have no behaviour to model (see
"Not modelled").

## The system

`source.go` turns CloudTrail log files into events that the plugin host pulls
one at a time. It has these parts:

| Part | Code | What it does |
|---|---|---|
| Local open | `openLocal`, 116-151 | Walks a directory into `oCtx.files`. An empty result is an error. |
| S3 open | `openS3`, 228-418 | Classifies the prefix as account (`.../AWSLogs/<id>/`), organization (`.../AWSLogs/<org>/`) or other. It finds the account prefixes, either from `S3AccountList` or by a delimited listing, then lists each account's regions. It formats the interval bounds and lists keys with one `listKeys` goroutine per region prefix, in chunks of `S3DownloadConcurrency` (`chunkListOrigin`, 164-180). Listing errors go through the global `dlErrChan`. |
| Key lister | `listKeys`, 182-226 | Pages through `ListObjectsV2`. It drops keys outside the interval and keys that are neither `.json` nor `.json.gz`, and appends the rest to the shared `oCtx.files`. |
| Queue open and poll | `openSQS`, 541-564; `getMoreSQSFiles`, 420-539 | Receives one message and optionally deletes it. It parses an S3 event notification or a custom `{bucket, keys}` body, switches `s3.bucket` and appends the keys. |
| Downloader | `readNextFileS3` and `s3Download`, 566-610 | Downloads the next `min(D, remaining)` files concurrently into `DownloadBufs`, joins on `DownloadWg` and hands the slots out one per call (`curBuf`, `nFilledBufs`, `lastDownloadedFileNum`). |
| Record splitter | `extractRecordStrings`, 616-636 | Cuts `{"Records":[{..},{..}]}` into records by counting braces. |
| Pull loop | `nextEvent`, 639-770 | When the buffered records are used up, it moves to the next file. In queue mode it polls first. It reads, inflates and splits the file. Then it parses one record, skips bad, undated, untyped or Insight records, and writes a good one to the host. |

The parts meet through `oCtx`:
- The open builds `files`.
- `nextEvent` consumes `files` with `curFileNum`.
- The downloader keeps its own cursors into `files`.
- In queue mode, polls append to `files` between download batches.
- The host serialises `nextEvent` calls.
- Concurrency exists only inside `openS3` (listing goroutines) and inside one `readNextFileS3` call (download goroutines).

## Modules

### `EventProducer.tla`: the pull loop, downloader, decompression and SQS poll

**State.** The variables are the fields of `oCtx`:
- `openMode` (`oCtx.openMode`) and `config` (the `UseS3SNS` and `SQSDelete` fields of `oCtx.config`), both fixed at Init
- `files`, `curFileNum`, `evtJSONStrings`, `evtJSONListPos`
- `s3.bucket`, `DownloadBufs`, `lastDownloadedFileNum`, `nFilledBufs`, `curBuf`

The SQS queue adds the message sets `pending`, `visible` and `inflight`. There are also two history variables:
- `emitted`: records written to the host
- `lastFetch`: objects announced and fetched by the last download batch

**Data.** An object is a `<<bucket, key>>` pair. Its records are the sequence `Recs[key]` of record kinds (ok, bad json, no time, bad time, no type, Insight, too big). The splitter itself is checked separately, in `RecordSplitter`.

**Actions.** One pull is one action:
- `NextRecord`: a buffered record.
- `EndOfStream`: file and S3 modes.
- `PollNoFile`: queue mode, when a poll fails or brings nothing.
- `OpenFile`: the rest of `nextEvent`. That is the poll when needed, the read through `readFileLocal` or `readNextFileS3`, gzip inflation, the split and the first record.

A download batch is one step inside `ReadNextFileS3`. Its goroutines write disjoint slots and are joined before any slot is read, so their order cannot be observed. Which downloads fail is a nondeterministic choice.

**Helpers.** These pure operators return every possible result:
- `GetMoreSQSFiles`: poll outcomes as records. It covers receive errors, delete errors, malformed bodies and both notification shapes.
- `ReadNextFileS3`: download outcomes.
- `Outcome`: the record checks.

**Queue environment.** `Send` and `VisibilityTimeout` model the SQS queue. Redelivery is bounded by `MaxRedeliveries`. `Stopped` is the host no longer calling after a fatal result (`CanPull`): the plugin host ends the event source on an error.

**Init.** Init is the state right after a successful open, with `openMode` picked from `Modes` and `config` from `Configs`:
- file mode: `WalkFiles(w)` for a walk `w` of `Walks`, which must be nonempty (line 146). `WalkFiles` is the `filepath.Walk` callback of `openLocal` (lines 129-142): it skips directories and keeps `.json` and `.json.gz` files in walk order. A walk is the sequence of entries Walk visits; `MC_EventProducer` builds one per file list, with the directory itself and a `.txt` file;
- S3 mode: any file list from `InitFileLists`, the lists `openS3` builds (`S3Open` checks how they are built);
- queue mode: `OpenSQS(sent)`, the successful opens of `openSQS` (lines 541-564) over a queue holding the messages `sent`. A `GetQueueUrl` error or an error of the first poll fails the open, so no session starts.

`MC_EventProducer.tla` defines the record contents and notification bodies that the cfgs use.

**Refinement.** `EventProducer` defines `Stream == INSTANCE RecordStream WITH ...` (see below) and checks `ImplementsRecordStream == Stream!Spec`. The mapping is:
- `kind` is `"queue"` in SQS mode and `"finite"` otherwise;
- `src` is the good records of every readable file of `files`, in list order (`Readable`: a corrupt gzip file has none);
- `out` is `emitted`;
- `status` is `"eof"` after end of stream, `"failed"` after an error or a crash, and `"open"` otherwise.

A file whose download or read failed still counts in `src`, so the host is never promised that its records are skipped; it is the `Fail` step of the abstract spec that allows the stream to stop there.

### `RecordStream.tla`: what the host is promised

This is the abstract specification of the event source, from spec sections 3 and 4.5. Its state is the session kind, the good records of the file list (`src`), the records returned (`out`) and a status. Its actions are:
- `Emit`: return the next record not yet returned;
- `TryAgain`: return nothing;
- `End`: end of stream, only in a finite session, only once everything was returned, and repeatable;
- `Fail`: a fatal error.

In a queue session `src` may grow between steps, but only by appending (`Grow`). `Served` is the liveness: a finite session ends, and a queue session catches up with every file it has been told about unless it fails.

### `ErrorSlot.tla`: the package-level `dlErrChan`

`EventProducer` treats a download batch as one step, which is right for one plugin instance. `ErrorSlot` instead models the goroutines, for one or more `PluginInstance`s, with no file contents:
- `chans` is every channel made so far, each a sequence of the instances that sent to it; `dlErrChan` is the index of the channel the package variable names (0 for nil, line 102).
- `MakeChan(i)` is lines 591-598: a new channel of capacity D becomes `dlErrChan`, and D `s3Download` goroutines start.
- `Download(i, j)` is one goroutine's download (566-582). It succeeds, or it fails and evaluates `dlErrChan` for its send.
- `Send(i, j)` is the send at line 577. It blocks while that channel is full.
- `Select(i)` is lines 598-609: after `Wait`, take one error from the channel `dlErrChan` names now, or report success.

Each instance runs its batches one after another, as the host serialises its pulls. Distinct instances interleave freely. `failed` and `reported` are history variables. An instance stops after `MaxBatches` batches, so the cfgs say `CHECK_DEADLOCK FALSE`; a batch that never returns is caught by `BatchesReturn` instead.

`openS3` waits on its listing goroutines with the same protocol (lines 388-416), and it also replaces `dlErrChan`. A listing wave of one instance is therefore one more batch as far as this module is concerned.

### `RecordSplitter.tla`: `extractRecordStrings`

Bytes are reduced to four classes: `{`, `}`, a quote and any other byte. `Step` is the loop body and `Scan` is the loop (RECURSIVE). The reference is generative: `Envelope` builds a CloudTrail file from a sequence of well-formed records. The property requires the scan to return exactly those records.

### `S3Open.tla`: `openS3`, `chunkListOrigin`, `listKeys`

**Open phases.** The opener is a sequence of phases:
- `ResolvePrefixes` (lines 263-341). It first checks `S3AccountList` against `accountListRE` (lines 264-268; a mismatch fails the open), then resolves the prefix shape. For an organization prefix with a list, the list is split on commas and each part trimmed (lines 297-306).
- `ListRegions`, one account per step (343-365)
- `MakeParams` (367-385)
- `StartChunk` (387-393), over the chunks `ChunkListOrigin(inputParams, D)`
- `Join`, which is `DownloadWg.Wait` followed by the `dlErrChan` check (395-415)

**Listing workers.** Each `listKeys` goroutine of a chunk is a worker with four actions:
- `FetchPage`: one `ListObjectsV2` page, or its error.
- `SendErr`: the send of that error on `dlErrChan` (line 196). It blocks while the chunk's channel, of capacity `ErrChanCap` = D (line 389), is full.
- `ScanKey`: filter one key. A kept key reads `oCtx.files` into `wSnap`.
- `AppendKey`: write back `append(snapshot, key)`.

`ScanKey` and `AppendKey` together are `oCtx.files = append(oCtx.files, fi)`. They are separate steps because the Go statement is a read and a write of a shared slice header with no lock, so another goroutine can run between them.

**Abstractions.**
- Prefixes are reduced to account ids and `<<account, region>>` origins.
- A key has an extension class and a small integer timestamp, or none.
- Every key lies in a day folder (`DayOf`); a dated key lies in its timestamp's day (an ASSUME). `StartAfter` `<region>/YYYY/MM/DD/` hides exactly the keys of earlier folders, dated or not, since S3 compares whole key paths (`PagesOf`).
- A prefix of neither shape is kept verbatim as `Raw` (line 341). Regions are listed under it only if it ends in `/CloudTrail/`, which a cfg expresses by putting `Raw` in the domain of `RegionsOf`; none does.
- The prefix's shape is chosen from `Shapes`. The interval is chosen from `Intervals`.
- The account list is a sequence of tokens: an account id (a run of 12 digits), `Short` (a digit run of another length), a space and a comma. `accountListRE` becomes the three-state automaton `MatchFrom`, and `strings.Split` and `strings.TrimSpace` become `SplitComma` and `TrimSpace`. A part that is one id names that account's directory. Any other part (empty, or several ids) gives a prefix with no region directories under it.

**Recursion.** `ChunkListOrigin` translates the loop of `chunkListOrigin` (lines 164-180) as a recursive `Loop(prev)`. `ChunksPartitionOrigins` checks it against the reference partition for the configured D and every chunk size up to 3.

Once `openS3` has returned nothing is enabled, so the cfgs say `CHECK_DEADLOCK FALSE`. A hang is caught by `OpenReturns` instead.

## Runs

| Run | Cfg | Expect | What it shows |
|---|---|---|---|
| ep_pull | EventProducer_pull.cfg | pass | All three modes, all four `UseS3SNS`/`SQSDelete` configurations, every order of every subset of 4 files with D = 2, and a queue with two buckets, a malformed message, errors and redelivery. The pull loop refines `RecordStream` (`ImplementsRecordStream`), every fetch reads the notified object (`FetchesNotifiedObject`), and a message deleted on receive has all its objects in the file list unless the session failed (`DeletedMessagesListed`). |
| ep_sns_multibucket | EventProducer_sns_multibucket.cfg | violation | One S3 event names two buckets. |
| errslot_one | ErrorSlot_one.cfg | pass | One instance, three batches of two goroutines. Each batch reports an error exactly when one of its own downloads failed (`ErrorsReported`), and every batch returns (`BatchesReturn`). |
| errslot_two_instances | ErrorSlot_two_instances.cfg | violation | Two instances, one download each: a failed download is lost. |
| errslot_three_instances | ErrorSlot_three_instances.cfg | violation | Three instances, one download each: a batch never returns. |
| splitter | RecordSplitter.cfg | pass | Every file of up to 3 records, drawn from 5 shapes including nested objects, is split exactly. |
| open_s3 | S3Open_s3.cfg | pass | Account or organization prefix. The account list is unset (accounts discovered), well-formed (`"a2, a1"`, `" a1 "`) or malformed (`"a1,,a2"`, a short id, `" "`, `",a1"`). Every interval, with failing discovery and page calls. The undated key k4 lies in a day folder no start day passes, so `StartAfter` cannot hide it here; `open_start_after` shows the other case. On success the file list is exactly the in-window JSON keys of each origin, in page order (`ListedExactlyOnce`), and there was no failed call (`NoErrorSwallowed`). Regions are listed only under 12-digit account prefixes (`AccountPrefixesWellFormed`). `chunkListOrigin` partitions the origins (`ChunksPartitionOrigins`), and the open always returns (`OpenReturns`). |
| open_race | S3Open_race.cfg | violation | Two listing goroutines lose a key. |
| open_region_error | S3Open_region_error.cfg | violation | A failed region listing is dropped and the open succeeds. |
| open_account_list | S3Open_account_list.cfg | violation | `S3AccountList` = `"a1,"` is accepted and yields an empty account. |
| open_other_window | S3Open_other_window.cfg | violation | The verbatim-prefix fallback ignores the interval. |
| open_start_after | S3Open_start_after.cfg | violation | `StartAfter` hides an undated key in an earlier day folder, which the spec keeps (`ListedExactlyOnce`). |

### What the violations show

These are the `findings` of PROJECT.json.

- **ep_sns_multibucket.** In the S3-event loop (lines 490-510), `s3.bucket` is overwritten per record (line 494) and ends as the last record's bucket; it is read only later, at download time. Keys of any other bucket are then fetched from the wrong one. Spec section 4.6 says the active bucket switches per key.
- **errslot_two_instances.** `dlErrChan` is one package variable for all plugin instances (line 102). The trace is:
  1. Instance 1 makes channel 1 and its download fails, so it sends to channel 1.
  2. Instance 2 makes channel 2, and `dlErrChan` now names channel 2.
  3. Instance 1's `select` (line 600) finds channel 2 empty and returns `DownloadBufs[0]` as the contents of a file that was never downloaded.

  In other orders an instance receives the other instance's error. Spec line 59 makes the buffer pool exclusive to one session and describes the error slot per wave; sharing it between sessions is not one of the documented quirks.
- **errslot_three_instances.** The same global also hangs a batch. The trace is:
  1. Two instances start batches in turn and make channels 1 and 2; `dlErrChan` names channel 2.
  2. Both downloads fail, and both goroutines send to channel 2, which has capacity 1. The first error fills it, and the other goroutine blocks.
  3. The third instance makes channel 3. The instance whose goroutine completed its send reaches its `select`, which reads the empty channel 3.

  Channel 2 is never named again, so nothing drains it. The blocked goroutine's instance never returns from `DownloadWg.Wait` (line 598), and neither does its `nextEvent`. Which model value plays which instance depends on TLC's search order (the instances are interchangeable).
- **open_account_list.** `accountListRE` is `^(?: *\d{12} *,?)*$`. It accepts a trailing comma, ids separated only by spaces, and ids written together. Split and trim then give an empty account (`"a1,"`, the run) or a multi-id account, and line 305 builds a prefix with no logs under it. Spec lines 63 and 68 define the list as comma-separated 12-digit ids and make a malformed list fatal. With `"a1 a2"` no region prefix is found at all, so `openS3` lists the whole organization prefix verbatim with no interval filter. This was checked by hand: TLC reports `WindowRespected` violated for that list and the interval [2, 3].
- **open_start_after.** With a start time, each region prefix is listed with `StartAfter` `<region>/YYYY/MM/DD/` of the start day (lines 355-359). S3 compares whole key paths, so a key in an earlier day folder is never returned, whether or not its name holds a timestamp. The undated JSON key k4 lies in the day-0 folder; the window [2, 3] starts on day 1, so the open succeeds without k4. Spec section 4.2 presents `startAfter` as a way "to reduce pages fetched" and says that keys without a recognizable timestamp "are retained unfiltered".
- **open_race.** The unsynchronized append at line 222 loses keys. The trace is:
  1. Worker 1 reads `files`.
  2. Worker 2 appends.
  3. Worker 1 writes back its stale slice.
- **open_region_error.** The error at line 352 is ignored. Spec section 4.2 says listing failures abort the open.
- **open_other_window.** When no region prefix is found, `startTS` and `endTS` are left empty (lines 370-385), so the whole prefix is listed regardless of the interval.

Section 9 of the spec already names one more caveat: a `}` inside a JSON string breaks `extractRecordStrings`. Adding `{"a":"}"}` to `RecordShapes` makes TLC report it on the initial state. It is listed as a hazard, not as a run.

### Mutants

Every property of a passing run has a mutant in PROJECT.json: a plausible bug in a mapped definition that TLC must catch. Examples:
- `BatchSize_oneShort` is an off-by-one in the batch size.
- `Join_ignoresErrors` drops the `dlErrChan` check.
- `PagesOf_sameDayHidden` uses `>` instead of `>=` on the `StartAfter` day.
- `BucketAfter_customKeeps` forgets to switch bucket.
- `Appended_replaces` replaces the file list by the new message's keys instead of appending them, so the keys of an earlier, already deleted message are lost.
- `MakeChan_reuses` keeps the old channel instead of making a new one per batch, so a leftover error is reported by the next batch.
- `Send_capacityOneShort` gives the download channel capacity D - 1, and `ErrChanCap_unbuffered` makes the listing channel unbuffered: a second error, or any error, then blocks forever.
- `TrimSpace_leftOnly` trims only the left end of an account.
- `ChunkListOrigin_lastInLoop` loops while `prev <= till`, which adds an empty chunk when the length is a multiple of the chunk size.

## Bounds and why they suffice

**EventProducer.**
- 4 files and D = 2 give two batches, one of them short. That exercises every slot cursor transition.
- Each record path (every skip kind, an empty file, corrupt and good gzip, a read failure, the oversized record) appears in some file, and every order of every subset is an initial state. So each path occurs in first, middle and last position, and before and after a batch boundary.
- The queue part of `ep_pull` has 3 messages, one of them malformed and one naming two keys, over 2 buckets, and 1 redelivery. That is enough for a poll between batches, a duplicate, a malformed body and a receive or delete error.

**ErrorSlot.** One instance with D = 2 and 3 batches covers a failure left in a channel from an earlier batch, two failures in one batch (the second send fills the channel) and a failure-free batch after a failed one. Two instances with D = 1 and one batch each are the smallest case of the lost error; symmetry over the two instances is sound there, because they are interchangeable model values and the property is an invariant. The hang needs a third instance: with two, the instance whose error filled the channel always drains it. That run has no symmetry, since it checks a liveness property.

**RecordSplitter.** Up to 3 records, so there is a first, a middle and a last record, with depth-2 nesting and strings.

**S3Open.**
- 2 accounts plus one non-account directory, and 3 region origins.
- A 2-page origin, keys on both sides of each window edge, and a key without a timestamp, in a later day folder (`open_s3`) or an earlier one (`open_start_after`).
- 5 intervals: none, closed, open-ended, wide and inverted.
- 7 account lists: unset, two well-formed ones (one with surrounding spaces) and four malformed ones, which cover each way the automaton rejects.
- Up to 3 origins, so `ChunksPartitionOrigins` covers lengths below, equal to and above each chunk size 1 to 3.
- D = 1 for the passing runs, because the lost update needs only two workers and is reported by `open_race`. With D = 2, `ListedExactlyOnce` fails for the known reason, and no other property can be checked past it.

## Fairness

`EventProducer` assumes `WF_vars(Pull)`. The plugin host calls `next` in a loop while it keeps getting events or timeouts, and stops only on EOF or on an error. Queue behaviour (`Send`, `VisibilityTimeout`) gets no fairness.

`S3Open` assumes `WF_vars(Next)`:
- every SDK call returns;
- Go schedules runnable goroutines;
- `openS3` runs to completion.

With D = 1 there is one goroutine at a time, so weak fairness of the whole next-state relation does not starve any goroutine.

The absence of timeouts on SDK calls is listed as a hazard and is not assumed away in the properties.

`ImplementsRecordStream` carries the liveness as the `Served` conjunct of `RecordStream!Spec`: in file and S3 modes the session ends, and in queue mode it keeps up with the list, since the loop never ends by design there.

`ErrorSlot` gives each step of each instance and goroutine its own fairness:
- `MakeChan(i)` and `Select(i)` get weak fairness, because each host keeps pulling;
- `Download(i, j)` gets weak fairness, because Go runs runnable goroutines;
- `Send(i, j)` gets strong fairness. A blocked sender is enabled only while its channel has room. The Go runtime queues blocked senders and hands a freed slot to the first of them, so a send enabled again and again does complete.

## Not modelled

- **`ParseInterval`.** It is not in this tree, so its results are the constant `Intervals`.
- **Prefix regular expressions and string building.** These are abstracted to the shape and to the origins.
- **The `filepath.Walk` traversal itself.** A walk is given as the sequence of entries it visits, and `WalkFiles` translates the callback. Which files an unreadable directory would hold is not represented. The callback ignores the error Walk passes for such a directory, which is listed as a hazard (line 129).
- **Hosts that pull after a fatal error.** The plugin host ends the event source on an error (`CanPull`). After a failed batch the download cursors are inconsistent (line 593): a further pull would serve the first file's bytes under the second file's name. That is listed as a hazard and is not a run.
- **JSON parsing of a record.** This is abstracted to the record's kind.
- **Other files under `src/`.** They are `engine_test.go` (tests), the k8smeta cmake modules and the krsi Makefile (build), and `release.yml` (CI).
- **A plugin restart in queue mode.** Nothing is persisted (spec line 6), so a restart is a new session with an empty list. The messages lost by delete-on-read are accepted by spec line 56.
- **`S3DownloadConcurrency` 0 in queue mode.** `openSQS` lacks the check `openS3` makes (line 231), and with 0 the first download indexes an empty `DownloadBufs` (line 609). The runs use D = 2, as spec line 63 requires, so this crash is listed as a hazard only.
- **Hung SDK calls.** No call has a deadline (line 569). A hang is outside any fairness the code can justify, so it is listed as a hazard only.

## Plan for the next sittings

1. Compose `S3Open` with `EventProducer`: the file list that `openS3` produces (including the racy one) feeds the pull loop.
2. The oversized record (lines 762-767) ends the stream with a fatal error. Spec line 54 makes only malformed payloads non-fatal, and an oversized record is well formed, so this is listed as a hazard, not a divergence.
3. Represent the contents of unreadable directories in the local walk, so that the error ignored by the Walk callback can be stated as a property.
