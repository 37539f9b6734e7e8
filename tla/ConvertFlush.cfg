\* Files of up to five lines of up to three letters, records of four.
SPECIFICATION Spec
CONSTANTS
  Text = 4
  MaxLines = 5
  MaxLen = 3
INVARIANTS
  DefinitionFlushed
CHECK_DEADLOCK FALSE
