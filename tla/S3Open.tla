------------------------------ MODULE S3Open ------------------------------
(***************************************************************************)
(* openS3 (source.go lines 228-418): classify the prefix, derive the       *)
(* account prefixes, list their regions, then list the keys of every      *)
(* region prefix with one listKeys goroutine per prefix, in chunks of     *)
(* S3DownloadConcurrency (chunkListOrigin, lines 164-180; listKeys,       *)
(* lines 182-226).                                                         *)
(*                                                                         *)
(* Strings are abstracted: an account prefix is an account id, a region   *)
(* prefix is an <<account, region>> pair, the verbatim prefix is Raw, and  *)
(* a key is a model value with an extension class and an embedded         *)
(* timestamp (a small integer, or NoTS when the name has none).  The       *)
(* goroutines run concurrently with the opener blocked in                 *)
(* DownloadWg.Wait; `oCtx.files = append(oCtx.files, fi)` is a read of    *)
(* the slice followed by a write of it, two steps another goroutine can    *)
(* come between.                                                           *)
(***************************************************************************)
EXTENDS Integers, Sequences, SequencesExt, FiniteSets

CONSTANTS
  D,            \* config.S3DownloadConcurrency (>= 1, checked on line 231)
  Shapes,       \* shapes the configured prefix may have: "acct" (awsLogsRE),
                \* "org" (awsLogsOrgRE), "other" (neither)
  Acct0,        \* the account of an "acct" prefix
  AccountListStrs, \* config.S3AccountList values, as token sequences: an
                   \* account id (a run of 12 digits), Short (a digit run of
                   \* another length), " " and ","
  OrgDirs,      \* sub-prefixes of an "org" prefix, in listing order
  Accounts,     \* the sub-prefixes that are 12-digit account ids
  RegionsOf,    \* [account or Raw -> Seq(region)]: regions under .../CloudTrail/
  Pages,        \* [origin -> Seq(Seq(key))]: ListObjectsV2 pages
  Raw,          \* the verbatim prefix, used when no region prefix is found
  Ext,          \* [key -> {"json", "gz", "other"}]
  TS,           \* [key -> Nat \cup {NoTS}]: timestamp in the key name
  NoTS,
  DayOf,        \* [key -> Nat]: the YYYY/MM/DD/ folder the key lies in
  Intervals,    \* <<start, end>> results of ParseInterval(S3Interval)
  NoTime,
  MayFail       \* listing calls that may fail: <<"accounts">>, <<"regions", a>>,
                \* <<"page", origin, i>>

\* A CloudTrail file lies in the folder of its own timestamp's day (two
\* timestamp units a day); a key without a timestamp may lie in any folder.
ASSUME \A k \in DOMAIN TS : TS[k] # NoTS => DayOf[k] = TS[k] \div 2

VARIABLES
  accountList,        \* config.S3AccountList
  interval,           \* ParseInterval(config.S3Interval), line 258
  phase,              \* where openS3 is
  intervalPrefixList, \* account prefixes (Seq of accounts)
  ipIdx,              \* index of the next account prefix to list regions of
  inputParams,        \* listOrigin list: Seq of <<account, region>> or Raw
  startTS, endTS,     \* formatted interval bounds ("" is NoTime)
  chunkIdx,           \* chunk being listed
  wpc,                \* [worker -> "fetch" | "scan" | "write" | "send" | "idle"]
  wPage,              \* next page of the worker's origin
  wKeys,              \* keys of the current page not yet scanned
  wSnap,              \* oCtx.files as the worker read it for append
  files,              \* oCtx.files
  errCount,           \* errors in the chunk's dlErrChan
  failedCalls         \* history: listing calls that returned an error

vars == <<accountList, interval, phase, intervalPrefixList, ipIdx, inputParams, startTS, endTS,
          chunkIdx, wpc, wPage, wKeys, wSnap, files, errCount, failedCalls>>

Workers == 1 .. D
Start == interval[1]
End == interval[2]

\* Lines 164-180: cut orgList into chunks of chunkSize; the loop takes a
\* full chunk while prev < len - chunkSize, then the rest.
ChunkListOrigin_lastInLoop(orgList, chunkSize) ==
  IF Len(orgList) = 0 \/ chunkSize < 1 THEN <<>>
  ELSE LET till == Len(orgList) - chunkSize
           RECURSIVE Loop(_)
           Loop(prev) ==
             IF prev <= till
             THEN <<SubSeq(orgList, prev + 1, prev + chunkSize)>> \o Loop(prev + chunkSize)
             ELSE <<SubSeq(orgList, prev + 1, Len(orgList))>>
       IN Loop(0)
ChunkListOrigin(orgList, chunkSize) ==
  IF Len(orgList) = 0 \/ chunkSize < 1 THEN <<>>
  ELSE LET till == Len(orgList) - chunkSize
           RECURSIVE Loop(_)
           Loop(prev) ==
             IF prev < till
             THEN <<SubSeq(orgList, prev + 1, prev + chunkSize)>> \o Loop(prev + chunkSize)
             ELSE <<SubSeq(orgList, prev + 1, Len(orgList))>>
       IN Loop(0)

\* Line 388: the chunks of inputParams; worker w lists origin w of a chunk.
Chunks == ChunkListOrigin(inputParams, D)
NumChunks == Len(Chunks)
ChunkOrigin(c, w) == Chunks[c][w]
InChunk(c, w) == w <= Len(Chunks[c])

\* Lines 264-268: accountListRE `^(?: *\d{12} *,?)*$`, run as an automaton
\* over the tokens.  "group": at a group start (accepting); "lead": spaces
\* before the id; "id": after the id, in its trailing spaces (accepting).
\* A comma may only follow an id; an id may follow an id directly.
RECURSIVE MatchFrom(_, _)
MatchFrom(str, q) ==
  IF str = <<>> THEN q \in {"group", "id"}
  ELSE LET t == Head(str) IN
       CASE t = " " -> MatchFrom(Tail(str), IF q = "id" THEN "id" ELSE "lead")
       []   t = "," -> q = "id" /\ MatchFrom(Tail(str), "group")
       []   t \in Accounts -> MatchFrom(Tail(str), "id")
       []   OTHER -> FALSE
AccountListOK(str) == MatchFrom(str, "group")

\* Lines 297-300: strings.Split(str, ","), one more part than commas.
RECURSIVE SplitComma(_)
SplitComma(str) ==
  IF \A i \in 1 .. Len(str) : str[i] # ","
  THEN <<str>>
  ELSE LET i == SelectInSeq(str, LAMBDA t : t = ",")
       IN <<SubSeq(str, 1, i - 1)>> \o SplitComma(SubSeq(str, i + 1, Len(str)))

\* Lines 301-303: strings.TrimSpace of every part.
TrimSpace_leftOnly(str) ==
  LET nz == {i \in 1 .. Len(str) : str[i] # " "}
  IN IF nz = {} THEN <<>> ELSE SubSeq(str, Min(nz), Len(str))
TrimSpace(str) ==
  LET nz == {i \in 1 .. Len(str) : str[i] # " "}
  IN IF nz = {} THEN <<>> ELSE SubSeq(str, Min(nz), Max(nz))

\* Lines 304-306: intervalPrefix + account + "/CloudTrail/".  A part that is
\* one id names that account's directory; any other part (empty, or
\* several ids) is a prefix under which no region directory exists.
AccountPrefix(part) == IF Len(part) = 1 THEN part[1] ELSE part

-----------------------------------------------------------------------------
(* Lines 279-341: the account prefixes a prefix of the given shape leads  *)
(* to, as the set of [err, list] results (account discovery may fail).    *)
(* A prefix of neither shape is kept verbatim; ListRegions lists regions  *)
(* under it only if it ends in /CloudTrail/, i.e. Raw \in DOMAIN RegionsOf.*)
Resolve(Shape) ==
  CASE Shape = "acct" -> {[err |-> FALSE, list |-> <<Acct0>>]}
  []   Shape = "org" ->
         IF accountList # <<>>
         THEN LET parts == SplitComma(accountList) IN
              {[err |-> FALSE,
                list |-> [i \in DOMAIN parts |-> AccountPrefix(TrimSpace(parts[i]))]]}
         ELSE {[err |-> FALSE,
                list |-> SelectSeq(OrgDirs, LAMBDA d : d \in Accounts)]}
              \cup (IF <<"accounts">> \in MayFail
                    THEN {[err |-> TRUE, list |-> <<>>]} ELSE {})
  []   OTHER -> {[err |-> FALSE, list |-> <<Raw>>]}      \* line 341

\* Lines 264-341: a malformed account list ends the open before the
\* prefix is classified.
ResolvePrefixes ==
  /\ phase = "resolve"
  /\ IF ~AccountListOK(accountList)
     THEN /\ phase' = "failed"
          /\ UNCHANGED <<intervalPrefixList, failedCalls>>
     ELSE \E shape \in Shapes : \E r \in Resolve(shape) :
            /\ phase' = IF r.err THEN "failed" ELSE "regions"
            /\ intervalPrefixList' = r.list
            /\ failedCalls' = IF r.err THEN {<<"accounts">>} ELSE {}
  /\ UNCHANGED <<accountList, interval, ipIdx, inputParams, startTS, endTS, chunkIdx, wpc, wPage,
                 wKeys, wSnap, files, errCount>>

\* Lines 343-365, one account prefix per step: list its regions; an error
\* of this call is dropped (line 352).
ListRegions ==
  /\ phase = "regions"
  /\ ipIdx <= Len(intervalPrefixList)
  /\ LET a == intervalPrefixList[ipIdx]
         regions == IF a \in DOMAIN RegionsOf THEN RegionsOf[a] ELSE <<>>
     IN \/ /\ inputParams' = inputParams \o [i \in 1 .. Len(regions) |->
                                                <<a, regions[i]>>]
           /\ UNCHANGED failedCalls
        \/ /\ <<"regions", a>> \in MayFail
           /\ failedCalls' = failedCalls \cup {<<"regions", a>>}
           /\ UNCHANGED inputParams
  /\ ipIdx' = ipIdx + 1
  /\ UNCHANGED <<accountList, interval, phase, intervalPrefixList, startTS, endTS, chunkIdx, wpc,
                 wPage, wKeys, wSnap, files, errCount>>

\* Lines 367-385: the interval bounds are formatted only when region
\* prefixes were found; otherwise the verbatim prefix is listed alone.
MakeParams ==
  /\ phase = "regions"
  /\ ipIdx > Len(intervalPrefixList)
  /\ IF inputParams # <<>>
     THEN /\ startTS' = Start
          /\ endTS' = IF Start = NoTime THEN NoTime ELSE End
          /\ phase' = IF Start # NoTime /\ End # NoTime /\ End < Start
                      THEN "failed" ELSE "chunk"              \* line 376
          /\ UNCHANGED inputParams
     ELSE /\ inputParams' = <<Raw>>
          /\ startTS' = NoTime
          /\ endTS' = NoTime
          /\ phase' = "chunk"
  /\ chunkIdx' = 1
  /\ UNCHANGED <<accountList, interval, intervalPrefixList, ipIdx, wpc, wPage, wKeys, wSnap, files,
                 errCount, failedCalls>>

\* Line 389: the capacity of each chunk's dlErrChan.
ErrChanCap_unbuffered == 0
ErrChanCap == D

\* Lines 388-393: a fresh dlErrChan and one listKeys goroutine per origin
\* of the chunk.
StartChunk ==
  /\ phase = "chunk"
  /\ chunkIdx <= NumChunks
  /\ wpc' = [w \in Workers |-> IF InChunk(chunkIdx, w) THEN "fetch" ELSE "idle"]
  /\ wPage' = [w \in Workers |-> 1]
  /\ errCount' = 0
  /\ phase' = "wait"
  /\ UNCHANGED <<accountList, interval, intervalPrefixList, ipIdx, inputParams, startTS, endTS,
                 chunkIdx, wKeys, wSnap, files, failedCalls>>

-----------------------------------------------------------------------------
(* listKeys, one goroutine per worker slot w of the current chunk.        *)

\* The ListObjectsV2 pages seen from origin o (lines 187-191).  With a
\* start time a region origin carries StartAfter <region>/YYYY/MM/DD/ of
\* the start day (lines 355-359), and S3 returns only the keys after it in
\* byte order: a key <region>/<day>/<name> sorts after it exactly when its
\* folder day is the start day or later, whether or not its name holds a
\* timestamp.
PagesOf_sameDayHidden(o) ==
  IF o # Raw /\ startTS # NoTime
  THEN [i \in 1 .. Len(Pages[o]) |->
          SelectSeq(Pages[o][i], LAMBDA k : DayOf[k] > startTS \div 2)]
  ELSE Pages[o]
PagesOf(o) ==
  IF o # Raw /\ startTS # NoTime
  THEN [i \in 1 .. Len(Pages[o]) |->
          SelectSeq(Pages[o][i], LAMBDA k : DayOf[k] >= startTS \div 2)]
  ELSE Pages[o]

\* Lines 193-198: fetch the next page, or get an error and go to send it.
FetchPage(w) ==
  /\ wpc[w] = "fetch"
  /\ LET o == ChunkOrigin(chunkIdx, w) IN
     IF wPage[w] > Len(PagesOf(o))
     THEN /\ wpc' = [wpc EXCEPT ![w] = "idle"]
          /\ UNCHANGED <<wPage, wKeys, errCount, failedCalls>>
     ELSE \/ /\ wKeys' = [wKeys EXCEPT ![w] = PagesOf(o)[wPage[w]]]
             /\ wPage' = [wPage EXCEPT ![w] = @ + 1]
             /\ wpc' = [wpc EXCEPT ![w] = "scan"]
             /\ UNCHANGED <<errCount, failedCalls>>
          \/ /\ <<"page", o, wPage[w]>> \in MayFail
             /\ failedCalls' = failedCalls \cup {<<"page", o, wPage[w]>>}
             /\ wpc' = [wpc EXCEPT ![w] = "send"]
             /\ UNCHANGED <<errCount, wPage, wKeys>>
  /\ UNCHANGED <<accountList, interval, phase, intervalPrefixList, ipIdx, inputParams, startTS,
                 endTS, chunkIdx, wSnap, files>>

\* Lines 196-197: the send on dlErrChan blocks while the channel is full
\* (nothing receives before Wait returns); then the goroutine returns.
SendErr(w) ==
  /\ wpc[w] = "send"
  /\ errCount < ErrChanCap
  /\ errCount' = errCount + 1
  /\ wpc' = [wpc EXCEPT ![w] = "idle"]
  /\ UNCHANGED <<accountList, interval, phase, intervalPrefixList, ipIdx, inputParams, startTS,
                 endTS, chunkIdx, wPage, wKeys, wSnap, files, failedCalls>>

\* Lines 202-219: the key is kept.
KeepKey(k) ==
  /\ (startTS # NoTime /\ TS[k] # NoTS) =>
        /\ TS[k] >= startTS
        /\ endTS # NoTime => TS[k] <= endTS
  /\ Ext[k] \in {"json", "gz"}

\* Lines 199-222 up to the append: take the next key of the page; drop it,
\* or read oCtx.files to append to it.
ScanKey(w) ==
  /\ wpc[w] = "scan"
  /\ IF wKeys[w] = <<>>
     THEN /\ wpc' = [wpc EXCEPT ![w] = "fetch"]
          /\ UNCHANGED <<wKeys, wSnap>>
     ELSE IF KeepKey(Head(wKeys[w]))
          THEN /\ wSnap' = [wSnap EXCEPT ![w] = files]
               /\ wpc' = [wpc EXCEPT ![w] = "write"]
               /\ UNCHANGED wKeys
          ELSE /\ wKeys' = [wKeys EXCEPT ![w] = Tail(@)]
               /\ UNCHANGED <<wpc, wSnap>>
  /\ UNCHANGED <<accountList, interval, phase, intervalPrefixList, ipIdx, inputParams, startTS,
                 endTS, chunkIdx, wPage, files, errCount, failedCalls>>

\* Line 222: write back the appended slice.
AppendKey(w) ==
  /\ wpc[w] = "write"
  /\ files' = Append(wSnap[w], Head(wKeys[w]))
  /\ wKeys' = [wKeys EXCEPT ![w] = Tail(@)]
  /\ wpc' = [wpc EXCEPT ![w] = "scan"]
  /\ UNCHANGED <<accountList, interval, phase, intervalPrefixList, ipIdx, inputParams, startTS,
                 endTS, chunkIdx, wPage, wSnap, errCount, failedCalls>>

\* Lines 395-415: after DownloadWg.Wait, one error of the chunk, if any,
\* aborts the open; otherwise the next chunk starts.
Join_ignoresErrors ==
  /\ phase = "wait"
  /\ \A w \in Workers : wpc[w] = "idle"
  /\ phase' = IF chunkIdx = NumChunks THEN "done" ELSE "chunk"
  /\ chunkIdx' = chunkIdx + 1
  /\ UNCHANGED <<accountList, interval, intervalPrefixList, ipIdx, inputParams, startTS, endTS, wpc,
                 wPage, wKeys, wSnap, files, errCount, failedCalls>>
Join ==
  /\ phase = "wait"
  /\ \A w \in Workers : wpc[w] = "idle"
  /\ phase' = CASE errCount > 0 -> "failed"
               []   chunkIdx = NumChunks -> "done"
               []   OTHER -> "chunk"
  /\ chunkIdx' = chunkIdx + 1
  /\ UNCHANGED <<accountList, interval, intervalPrefixList, ipIdx, inputParams, startTS, endTS, wpc,
                 wPage, wKeys, wSnap, files, errCount, failedCalls>>

-----------------------------------------------------------------------------
Init ==
  /\ accountList \in AccountListStrs
  /\ interval \in Intervals
  /\ phase = "resolve"
  /\ intervalPrefixList = <<>>
  /\ ipIdx = 1
  /\ inputParams = <<>>
  /\ startTS = NoTime
  /\ endTS = NoTime
  /\ chunkIdx = 0
  /\ wpc = [w \in Workers |-> "idle"]
  /\ wPage = [w \in Workers |-> 1]
  /\ wKeys = [w \in Workers |-> <<>>]
  /\ wSnap = [w \in Workers |-> <<>>]
  /\ files = <<>>
  /\ errCount = 0
  /\ failedCalls = {}

Worker(w) == FetchPage(w) \/ SendErr(w) \/ ScanKey(w) \/ AppendKey(w)

Next ==
  \/ ResolvePrefixes \/ ListRegions \/ MakeParams \/ StartChunk \/ Join
  \/ \E w \in Workers : Worker(w)

\* Go schedules every runnable goroutine and every SDK call returns (no
\* deadline is set, line 183); once openS3 has returned nothing is enabled.
Spec == Init /\ [][Next]_vars /\ WF_vars(Next)

-----------------------------------------------------------------------------
\* The spec's acceptance filter (section 4.2): a JSON or gzipped-JSON key,
\* and, when an interval is set, an embedded timestamp in [Start, End]
\* inclusive; keys without a timestamp are kept.
InWindow(k) ==
  \/ TS[k] = NoTS
  \/ /\ Start # NoTime => Start <= TS[k]
     /\ End # NoTime => TS[k] <= End
SpecAccepts(k) == Ext[k] \in {"json", "gz"} /\ InWindow(k)

KeysOf(o) == ToSet(FlattenSeq(Pages[o]))
Listed(o) == SelectSeq(FlattenSeq(Pages[o]), SpecAccepts)

(* When openS3 succeeds, oCtx.files holds every accepted key of every     *)
(* origin it decided to list, each once, and in page order per origin:     *)
(* no append of one listKeys goroutine is lost to another's, and the       *)
(* StartAfter and timestamp filters drop no key of the window.             *)
ListedExactlyOnce ==
  phase = "done" =>
    /\ \A o \in ToSet(inputParams) :
         SelectSeq(files, LAMBDA k : k \in KeysOf(o)) = Listed(o)
    /\ \A i \in 1 .. Len(files) : \E o \in ToSet(inputParams) : files[i] \in KeysOf(o)

(* openS3 succeeds only if no listing call it made failed (spec section   *)
(* 4.2: listing failures abort the open).                                  *)
NoErrorSwallowed == phase = "done" => failedCalls = {}

(* With an interval set, every key with an embedded timestamp that a      *)
(* successful openS3 lists lies inside the interval, whatever the prefix. *)
WindowRespected ==
  (phase = "done" /\ Start # NoTime) =>
    \A i \in 1 .. Len(files) : TS[files[i]] # NoTS => InWindow(files[i])

(* Every account prefix openS3 goes on to list regions under names one   *)
(* 12-digit account: the account list, "comma-separated 12-digit account *)
(* identifiers, whitespace-trimmed" (spec line 63), is either rejected as *)
(* malformed, which is fatal (line 68), or split into exactly such ids;  *)
(* a prefix of neither shape is the verbatim Raw.                         *)
AccountPrefixesWellFormed ==
  phase \notin {"resolve", "failed"} =>
    \A i \in 1 .. Len(intervalPrefixList) : intervalPrefixList[i] \in Accounts \cup {Raw}

(* openS3 always returns: every listKeys goroutine of a chunk finishes,   *)
(* including its blocking send of an error on dlErrChan, so Wait returns  *)
(* for every chunk, and the open ends in success or failure.              *)
OpenReturns == <>(phase \in {"done", "failed"})

(* chunkListOrigin cuts the origin list openS3 built, for the configured *)
(* S3DownloadConcurrency and every other one up to 3, into               *)
(* ceil(len / size) consecutive nonempty chunks of at most size origins  *)
(* whose concatenation is the list: no origin is listed twice or skipped, *)
(* and no chunk index runs past the slice allocated on line 168.          *)
ChunksPartitionOrigins ==
  phase \in {"chunk", "wait", "done"} =>
    \A c \in {D} \cup (1 .. 3) :
      LET ch == ChunkListOrigin(inputParams, c) IN
      /\ FlattenSeq(ch) = inputParams
      /\ Len(ch) = (Len(inputParams) + c - 1) \div c
      /\ \A k \in DOMAIN ch : 1 <= Len(ch[k]) /\ Len(ch[k]) <= c

=============================================================================
