---------------------------- MODULE RecordStream ----------------------------
(***************************************************************************)
(* What the CloudTrail event source promises the plugin host, independent *)
(* of how it reads, downloads or splits files (spec sections 3 and 4.5).  *)
(*                                                                         *)
(* src is the sequence of good records of the session's file list, file   *)
(* by file and in file order; out is what the host has received.  Each    *)
(* pull returns the next record, "try again", end of stream or a fatal    *)
(* error.  A finite session (local directory, direct S3) has a fixed file *)
(* list and ends with end of stream once every record was returned, and   *)
(* end of stream is terminal and idempotent.  A queue session's file list *)
(* only grows, and it never ends except by a fatal error.                 *)
(***************************************************************************)
EXTENDS Sequences, SequencesExt

VARIABLES
  kind,    \* "finite" or "queue", fixed at open
  src,     \* good records of the file list, in delivery order
  out,     \* records returned to the host, in order
  status   \* "open", "eof" or "failed"

vars == <<kind, src, out, status>>

\* The file list is fixed in a finite session and append-only in a queue
\* session.
Grow == IF kind = "queue" THEN IsPrefix(src, src') ELSE src' = src

Init ==
  /\ kind \in {"finite", "queue"}
  /\ out = <<>>
  /\ status = "open"

\* A pull returns the next record not yet returned.
Emit ==
  /\ status = "open"
  /\ Grow
  /\ Len(out) < Len(src')
  /\ out' = Append(out, src'[Len(out) + 1])
  /\ UNCHANGED <<kind, status>>

\* A pull returns "try again" (possibly after the queue announced files).
TryAgain ==
  /\ status = "open"
  /\ Grow
  /\ UNCHANGED <<kind, out, status>>

\* End of stream, once every record was returned; repeatable.
End ==
  /\ kind = "finite"
  /\ status \in {"open", "eof"}
  /\ Len(out) = Len(src)
  /\ status' = "eof"
  /\ UNCHANGED <<kind, src, out>>

\* A pull returns a fatal error; the host stops.
Fail ==
  /\ status = "open"
  /\ Grow
  /\ status' = "failed"
  /\ UNCHANGED <<kind, out>>

Next == Emit \/ TryAgain \/ End \/ Fail

(* The host that keeps pulling is served: a finite session eventually     *)
(* ends, and a queue session always eventually catches up with the files  *)
(* it has been told about, unless it fails.                               *)
Served ==
  /\ kind = "finite" => <>(status # "open")
  /\ []<>(Len(out) = Len(src) \/ status = "failed")

Spec == Init /\ [][Next]_vars /\ Served

=============================================================================
