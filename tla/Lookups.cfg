\* The queue: three pids, a client is killed and its pid used again, a server
\* stops and may start again.  Capacity 10 is the reply of the killed client,
\* one more reply and two requests, so that both sides may wait for room.
\* The shared memory: three clients, two calls each, left alone.
SPECIFICATION SpecLookups
CONSTANTS
  c1 = c1
  c2 = c2
  c3 = c3
  w1 = w1
  w2 = w2
  Server = srv
  Absent = absent
  Blank = blank
  Client <- ThreeClients
  Word <- TwoWords
  Known <- OneKnown
  MaxCalls = 1
  Capacity = 10
  RequestSize = 2
  FoundSize = 3
  AbsentSize = 1
  MaxKills = 1
  MaxStops = 1
  ShmCalls = 2
  SemAem = 12
  SemVmx = 32
INVARIANTS
  TypeOK
  OneUnderWay
  ResultIsAnswer
PROPERTIES
  Implements
  MemoryImplements
CHECK_DEADLOCK FALSE
