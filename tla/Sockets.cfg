\* Stream sockets: two clients, two calls each, departures and deaths anywhere,
\* and one accept that fails, so that the last fork may find no process left.
\* The other programs with small sets of their own.
SPECIFICATION SpecSockets
CONSTANTS
  None = none
  Absent = absent
  Blank = blank
  Bad = bad
  Client = {c1, c2}
  Word = {w1, w2}
  Known = {w1}
  MaxCalls = 2
  MaxChildren = 2
  MaxBad = 1
  UdpCalls = 2
  UdpFaults = 1
  UdpEnds = 1
  Visitor = {v1, v2, v3}
  MaxKills = 1
  MaxStops = 2
  MaxTicks = 7
  Room = 3
  Text = 4
  MaxLines = 5
  MaxLen = 3
  MaxWord = 3
  MaxRecords = 3
  LocalCalls = 3
INVARIANTS
  TypeOK
  ResultIsAnswer
  OthersTypeOK
  AnswersOwnWord
  ClientsServed
  RecordsKept
  RecordsFound
PROPERTIES
  Implements
  AllFinish
CHECK_DEADLOCK FALSE
