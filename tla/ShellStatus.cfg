\* Two commands: what the shell says of how they ended.
SPECIFICATION Spec
CONSTANTS
  p1 = p1
  p2 = p2
  ok = ok
  failed = failed
  Pid <- TwoPids
  Status <- TwoStatuses
  Garbage = garbage
  NoPid = nopid
INVARIANTS
  TruthfulStatus
CHECK_DEADLOCK FALSE
