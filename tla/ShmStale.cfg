\* Two clients, one call each: the answer is read after the release.
SPECIFICATION Spec
CONSTANTS
  c1 = c1
  c2 = c2
  c3 = c3
  w1 = w1
  w2 = w2
  w3 = w3
  Server = srv
  Absent = absent
  Blank = blank
  Client <- TwoClients
  Word <- TwoWords
  Known <- OneKnown
  MaxCalls = 1
  SemAem = 8
  SemVmx = 32
  LaterHandles <- Kept
  Events <- NoEvents
INVARIANTS
  ResultIsAnswer
CHECK_DEADLOCK FALSE
