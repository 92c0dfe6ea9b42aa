--------------------------- MODULE RecordSplitter ---------------------------
(***************************************************************************)
(* extractRecordStrings (source.go lines 616-636): the byte scan that cuts *)
(* the records out of a CloudTrail file {"Records":[{...},{...}]} by       *)
(* counting braces, without parsing JSON.                                  *)
(*                                                                         *)
(* Bytes are abstracted to four classes: "{", "}", "q" (a double quote)    *)
(* and "c" (any other byte).  The reference is generative: an envelope is  *)
(* built from a sequence of well-formed record objects, and the scan must  *)
(* return exactly those objects, in order.                                 *)
(***************************************************************************)
EXTENDS Integers, Sequences, SequencesExt

CONSTANTS
  RecordShapes,  \* well-formed JSON objects, as byte-class sequences
  MaxRecords     \* most records per file

VARIABLE recs    \* the records the CloudTrail file holds

-----------------------------------------------------------------------------
\* The loop body for the byte at position pos (1-based) with nesting depth
\* indentation, current record start entryStart and result res; returns
\* the loop state after it.  A record ending at the last byte is dropped
\* (pos < len(jsonStr)-1 on line 629).
Step_startAnyDepth(s, pos, st) ==
  CASE s[pos] = "{" ->
         [st EXCEPT !.entryStart = pos, !.indentation = @ + 1]
  []   s[pos] = "}" /\ st.indentation - 1 = 1 /\ pos < Len(s) ->
         [st EXCEPT !.indentation = @ - 1,
                    !.res = Append(@, <<st.entryStart, pos>>)]
  []   s[pos] = "}" -> [st EXCEPT !.indentation = @ - 1]
  []   OTHER -> st
Step(s, pos, st) ==
  CASE s[pos] = "{" ->
         [st EXCEPT !.entryStart = IF st.indentation = 1 THEN pos ELSE @,
                    !.indentation = @ + 1]
  []   s[pos] = "}" /\ st.indentation - 1 = 1 /\ pos < Len(s) ->
         [st EXCEPT !.indentation = @ - 1,
                    !.res = Append(@, <<st.entryStart, pos>>)]
  []   s[pos] = "}" -> [st EXCEPT !.indentation = @ - 1]
  []   OTHER -> st

\* extractRecordStrings: the [first, last] byte range of each record.
RECURSIVE Scan(_, _, _)
Scan(s, pos, st) ==
  IF pos > Len(s) THEN st.res ELSE Scan(s, pos + 1, Step(s, pos, st))

ExtractRecordStrings(s) ==
  Scan(s, 1, [indentation |-> 0, entryStart |-> 0, res |-> <<>>])

-----------------------------------------------------------------------------
\* {"Records":[ r1 , r2 , ... ]} : the envelope around a record sequence.
Separated(rs) ==
  IF rs = <<>> THEN <<>>
  ELSE FoldLeft(LAMBDA acc, r : acc \o <<"c">> \o r, Head(rs), Tail(rs))

Envelope(rs) == <<"{", "q", "c", "q", "c", "c">> \o Separated(rs) \o <<"c", "}">>

Init == recs \in BoundedSeq(RecordShapes, MaxRecords)

Next == UNCHANGED recs

Spec == Init /\ [][Next]_recs

-----------------------------------------------------------------------------
(* Splitting the file built from K records returns exactly K byte ranges, *)
(* and the i-th range holds exactly the i-th record's bytes, for every    *)
(* record sequence up to the bound (spec section 8).                      *)
SplitReturnsRecords ==
  LET env == Envelope(recs)
      ranges == ExtractRecordStrings(env)
  IN /\ Len(ranges) = Len(recs)
     /\ \A i \in 1 .. Len(recs) :
          SubSeq(env, ranges[i][1], ranges[i][2]) = recs[i]

=============================================================================
