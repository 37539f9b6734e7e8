\* Two pushers and two poppers on a stack of three; the other programs of
\* the module with small sets of their own.
SPECIFICATION SpecMod11
CONSTANTS
  push1 = push1
  pop1 = pop1
  c1 = c1
  t1 = t1
  p1 = p1
  p2 = p2
  None = none
  NoProcess = noprocess
  Pusher = {push1, push2}
  Popper = {pop1, pop2}
  StackSize = 3
  MaxCount = 4
  MaxSpurious = 1
  Process = {p1, p2}
  Home <- HomeOf
  ProcStackSize = 2
  ProcMaxCount = 2
  Client = {c1, c2, c3, c4}
  NumTellers = 2
  ProcClient = {c1, c2, c3}
  FewTellers = 1
  Reader = {t1, t2}
  Writer = {c1, c2}
  Counting = {p1, p2, p3}
  Rounds = 1
  NumThreads = 6
  N = 5
  MaxCores = 3
INVARIANTS
  TypeOK
  OneSideSleeps
  OthersTypeOK
  TellersServe
  TellersShared
  StackKept
  CountKept
  WriterAlone
  ResourcesKept
PROPERTIES
  ReportIsOwn
  AllFinish
CHECK_DEADLOCK FALSE
