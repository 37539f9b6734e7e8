\* Three clients, none of them killed, and a queue with room for two requests
\* but not for a definition besides: 2 + 2 + 3 > 6.
SPECIFICATION FairSpec
CONSTANTS
  c1 = c1
  c2 = c2
  c3 = c3
  w1 = w1
  w2 = w2
  Server = srv
  Absent = absent
  Blank = blank
  Client <- ThreeClients
  Word <- TwoWords
  Known <- OneKnown
  MaxCalls = 1
  Capacity = 6
  RequestSize = 2
  FoundSize = 3
  AbsentSize = 1
  MaxKills = 0
  MaxStops = 0
PROPERTIES
  ServerGoesOn
CHECK_DEADLOCK FALSE
