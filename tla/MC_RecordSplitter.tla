-------------------------- MODULE MC_RecordSplitter -------------------------
EXTENDS RecordSplitter

\* {}, {"a":1}, {"a":{"b":1}}, {"a":{}}, {"a":"x"}
BraceFreeStrings ==
  { <<"{", "}">>,
    <<"{", "q", "c", "q", "c", "c", "}">>,
    <<"{", "q", "c", "q", "c", "{", "q", "c", "q", "c", "c", "}", "}">>,
    <<"{", "q", "c", "q", "c", "{", "}", "}">>,
    <<"{", "q", "c", "q", "c", "q", "c", "q", "}">> }

=============================================================================
