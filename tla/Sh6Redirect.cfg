\* Lines of four tokens: a command, a redirection and one token behind it.
SPECIFICATION SpecEarlier
CONSTANTS
  MaxLen = 4
INVARIANTS
  MarksRemoved
CHECK_DEADLOCK FALSE
