\* All lines of five tokens in four versions of the shell: three stages, or
\* redirections around a bar.
SPECIFICATION SpecEarlier
CONSTANTS
  MaxLen = 5
INVARIANTS
  TypeOK
  OwnEndsOnly
  CommandsNamed
  TokensKept
PROPERTIES
  PipelineEnds
CHECK_DEADLOCK FALSE
