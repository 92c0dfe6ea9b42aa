\* Every file of up to three records drawn from five object shapes with
\* nesting and string values that hold no brace.
CONSTANTS
  RecordShapes <- BraceFreeStrings
  MaxRecords = 3

SPECIFICATION Spec
INVARIANT SplitReturnsRecords
