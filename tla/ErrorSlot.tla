------------------------------ MODULE ErrorSlot ------------------------------
(***************************************************************************)
(* The error channel of a download batch (readNextFileS3 and s3Download,  *)
(* source.go lines 566-610; openS3 and listKeys use the same protocol for *)
(* a listing chunk, lines 193-197 and 388-416).                            *)
(*                                                                         *)
(* dlErrChan is a package variable (line 102).  A batch assigns it a new  *)
(* channel of capacity D, starts one goroutine per file, waits for them,  *)
(* then takes at most one error from whatever channel dlErrChan names at  *)
(* that moment.  A failing goroutine reads dlErrChan when it sends, and a *)
(* send to a full channel blocks.  Each PluginInstance runs its batches   *)
(* sequentially (the host serialises its pulls), but distinct instances   *)
(* are pulled independently, so their steps interleave.                   *)
(*                                                                         *)
(* Download contents are left to EventProducer.tla; here a goroutine just *)
(* succeeds or fails, and an error carries the instance that sent it.    *)
(***************************************************************************)
EXTENDS Integers, Sequences, FiniteSets

CONSTANTS
  Instances,   \* PluginInstance values pulling at the same time
  D,           \* config.S3DownloadConcurrency: files per batch
  MaxBatches   \* batches each instance runs

VARIABLES
  chans,       \* contents of every channel made so far, Seq(Seq(Instances))
  dlErrChan,   \* index in chans of the channel the package variable names
  pc,          \* [instance -> "idle" | "wait"]
  g,           \* [instance -> [1..D -> "run" | "send" | "done"]]
  target,      \* [instance -> [1..D -> channel]]: dlErrChan as the failing
               \* goroutine read it for its send
  batches,     \* [instance -> batches started]
  failed,      \* history: goroutines of the current batch that failed
  reported     \* history: [instance -> "none" | "ok" | "error"], the
               \* result of the last batch

vars == <<chans, dlErrChan, pc, g, target, batches, failed, reported>>

Slots == 1 .. D

-----------------------------------------------------------------------------
\* Lines 591-598: a new channel becomes dlErrChan, and one s3Download
\* goroutine per slot is started; the caller then blocks in Wait.
MakeChan_reuses(i) ==
  /\ pc[i] = "idle"
  /\ batches[i] < MaxBatches
  /\ IF chans = <<>>
     THEN /\ chans' = <<<<>>>>
          /\ dlErrChan' = 1
     ELSE UNCHANGED <<chans, dlErrChan>>
  /\ pc' = [pc EXCEPT ![i] = "wait"]
  /\ g' = [g EXCEPT ![i] = [j \in Slots |-> "run"]]
  /\ batches' = [batches EXCEPT ![i] = @ + 1]
  /\ failed' = [failed EXCEPT ![i] = {}]
  /\ UNCHANGED <<target, reported>>
MakeChan(i) ==
  /\ pc[i] = "idle"
  /\ batches[i] < MaxBatches
  /\ chans' = Append(chans, <<>>)
  /\ dlErrChan' = Len(chans) + 1
  /\ pc' = [pc EXCEPT ![i] = "wait"]
  /\ g' = [g EXCEPT ![i] = [j \in Slots |-> "run"]]
  /\ batches' = [batches EXCEPT ![i] = @ + 1]
  /\ failed' = [failed EXCEPT ![i] = {}]
  /\ UNCHANGED <<target, reported>>

\* Lines 571-580: the download returns; on error the goroutine evaluates
\* dlErrChan for its send.
Download(i, j) ==
  /\ g[i][j] = "run"
  /\ \/ g' = [g EXCEPT ![i][j] = "done"]                  \* DownloadWg.Done
        /\ UNCHANGED <<target, failed>>
     \/ g' = [g EXCEPT ![i][j] = "send"]
        /\ target' = [target EXCEPT ![i][j] = dlErrChan]
        /\ failed' = [failed EXCEPT ![i] = @ \cup {j}]
  /\ UNCHANGED <<chans, dlErrChan, pc, batches, reported>>

\* Line 577: the send completes once the channel has room.
Send_capacityOneShort(i, j) ==
  /\ g[i][j] = "send"
  /\ Len(chans[target[i][j]]) < D - 1
  /\ chans' = [chans EXCEPT ![target[i][j]] = Append(@, i)]
  /\ g' = [g EXCEPT ![i][j] = "done"]
  /\ UNCHANGED <<dlErrChan, pc, target, batches, failed, reported>>
Send(i, j) ==
  /\ g[i][j] = "send"
  /\ Len(chans[target[i][j]]) < D
  /\ chans' = [chans EXCEPT ![target[i][j]] = Append(@, i)]
  /\ g' = [g EXCEPT ![i][j] = "done"]
  /\ UNCHANGED <<dlErrChan, pc, target, batches, failed, reported>>

\* Lines 598-609: after Wait, take one error if dlErrChan's channel holds
\* one, else return the first slot as the next file.
Select_skipsCheck(i) ==
  /\ pc[i] = "wait"
  /\ \A j \in Slots : g[i][j] = "done"
  /\ reported' = [reported EXCEPT ![i] = "ok"]
  /\ pc' = [pc EXCEPT ![i] = "idle"]
  /\ UNCHANGED <<chans, dlErrChan, g, target, batches, failed>>
Select(i) ==
  /\ pc[i] = "wait"
  /\ \A j \in Slots : g[i][j] = "done"
  /\ IF chans[dlErrChan] # <<>>
     THEN /\ chans' = [chans EXCEPT ![dlErrChan] = Tail(@)]
          /\ reported' = [reported EXCEPT ![i] = "error"]
     ELSE /\ reported' = [reported EXCEPT ![i] = "ok"]
          /\ UNCHANGED chans
  /\ pc' = [pc EXCEPT ![i] = "idle"]
  /\ UNCHANGED <<dlErrChan, g, target, batches, failed>>

Init ==
  /\ chans = <<>>
  /\ dlErrChan = 0                       \* nil until the first batch
  /\ pc = [i \in Instances |-> "idle"]
  /\ g = [i \in Instances |-> [j \in Slots |-> "done"]]
  /\ target = [i \in Instances |-> [j \in Slots |-> 0]]
  /\ batches = [i \in Instances |-> 0]
  /\ failed = [i \in Instances |-> {}]
  /\ reported = [i \in Instances |-> "none"]

Next ==
  \/ \E i \in Instances :
       \/ MakeChan(i)
       \/ Select(i)
       \/ \E j \in Slots : Download(i, j) \/ Send(i, j)

\* Each instance's host keeps pulling, and Go runs every runnable goroutine;
\* a sender blocked on a full channel is handed the first free slot (the
\* runtime queues blocked senders), so a send enabled infinitely often
\* completes.  An instance stops after MaxBatches batches.
Spec ==
  /\ Init /\ [][Next]_vars
  /\ \A i \in Instances :
       /\ WF_vars(MakeChan(i)) /\ WF_vars(Select(i))
       /\ \A j \in Slots : WF_vars(Download(i, j)) /\ SF_vars(Send(i, j))

-----------------------------------------------------------------------------
(* A batch reports an error exactly when one of its own downloads failed: *)
(* an error is neither lost (the batch would hand an empty or stale slot  *)
(* to nextEvent as file contents) nor delivered to another batch, whether *)
(* it is left over from an earlier batch or sent by another instance.     *)
ErrorsReported ==
  \A i \in Instances :
    (pc[i] = "idle" /\ reported[i] # "none") =>
      (reported[i] = "error" <=> failed[i] # {})

(* Every batch returns: once an instance waits on DownloadWg, all of its  *)
(* goroutines complete their sends, so Wait and the select return.  Each  *)
(* goroutine sends at most once and a batch has D goroutines, the         *)
(* capacity of the channel it made.                                       *)
BatchesReturn == \A i \in Instances : pc[i] = "wait" ~> pc[i] = "idle"

=============================================================================
