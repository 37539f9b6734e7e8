\* Any mix of departures, kills, stops and restarts, and any handles.
SPECIFICATION Spec
CONSTANTS
  c1 = c1
  c2 = c2
  c3 = c3
  w1 = w1
  w2 = w2
  w3 = w3
  Server = srv
  Absent = absent
  Blank = blank
  Client <- TwoClients
  Word <- TwoWords
  Known <- OneKnown
  MaxCalls = 2
  SemAem = 2
  SemVmx = 4
  LaterHandles <- AnyHandles
  Events <- AllEvents
SYMMETRY Symmetry
INVARIANTS
  TypeOK
  MutualExclusion
  MutexReturned
  AnswerInTime
PROPERTIES
  StableRequest
CHECK_DEADLOCK FALSE
