\* Three commands of sh9, in the foreground or the background; sessions of
\* three lines and two processes with four versions of the shell.
SPECIFICATION SpecShells
CONSTANTS
  p1 = p1
  p2 = p2
  p3 = p3
  ok = ok
  failed = failed
  home = home
  away = away
  Pid <- ThreePids
  Status <- TwoStatuses
  SessionPid <- TwoPids
  Dir <- TwoDirs
  Home = home
  MaxLines = 3
  MaxBreaks = 1
  Garbage = garbage
  NoPid = nopid
INVARIANTS
  TypeOK
  NoneForgotten
  StatusKept
  SessionKept
PROPERTIES
  PromptsComeBack
CHECK_DEADLOCK FALSE
