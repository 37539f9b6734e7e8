------------------------------ MODULE MCSockets ------------------------------
(* The programs of lookup_proj and examples/mod12-sockets whose state is   *)
(* small, one run for all of them: program says which one it is.  The      *)
(* variables of the others rest; those of the stream sockets keep their    *)
(* initial state, so that their properties speak of it.                    *)
EXTENDS StreamLookup

CONSTANTS
  None,                          \* nobody, and no number
  UdpCalls, UdpFaults, UdpEnds,
  Visitor,                       \* who runs clnt1, clnt2, clnt3 or fifo_client
  MaxKills, MaxStops,
  MaxTicks, Room,
  Text, MaxLines, MaxLen,
  MaxWord, MaxRecords, LocalCalls

ASSUME SocketsAssumption ==
  /\ None \notin Visitor /\ None \notin Nat
  /\ UdpCalls \in Nat /\ UdpFaults \in Nat /\ UdpEnds \in Nat
  /\ MaxKills \in Nat /\ MaxStops \in Nat
  /\ MaxTicks \in Nat /\ Room \in Nat
  /\ Text \in Nat \ (0..2) /\ MaxLines \in Nat /\ MaxLen \in Nat
  /\ MaxWord \in Nat /\ MaxRecords \in Nat /\ LocalCalls \in Nat

VARIABLES
  program,
  net, uPc, asked, uResult, uSpc, hold, faults, ends, lost, mixed,
  name, nWhere, inbox, answer, nSpc, queue, peer, nKills, apart,
  service, iWhere, sent, iReply, dub2, iBacklog, iSpc, comm, dub, iKills,
  ticks, alarm, hpc, counter, q, pSpc, revents, size, shown, pLost,
  lines, in, out, step, word, text, off, newoff, eof, line,
  file, prog, first_time, pos, numrec, count, table, lCalls, typed, lSought, lStep,
  fPc, fSpc, stops

udpVars == <<net, uPc, asked, uResult, uSpc, hold, faults, ends, lost, mixed>>
nameVars == <<name, nWhere, inbox, answer, nSpc, queue, peer, nKills, apart>>
iterVars == <<service, iWhere, sent, iReply, dub2, iBacklog, iSpc, comm, dub, iKills>>
pollVars == <<ticks, alarm, hpc, counter, q, pSpc, revents, size, shown, pLost>>
convVars == <<lines, in, out, step, word, text, off, newoff, eof, line>>
localVars == <<file, prog, first_time, pos, numrec, count, table, lCalls, typed,
               lSought, lStep>>
fifoVars == <<fPc, fSpc, stops>>
allVars == <<program, vars, udpVars, nameVars, iterVars, pollVars, convVars, localVars,
             fifoVars>>

Udp == INSTANCE UdpLookup WITH
  MaxCalls <- UdpCalls, MaxFaults <- UdpFaults, MaxEnds <- UdpEnds,
  pc <- uPc, result <- uResult, spc <- uSpc
Names == INSTANCE DatagramNames WITH
  Client <- Visitor,
  where <- nWhere, spc <- nSpc, kills <- nKills
Iter == INSTANCE IterativeServer WITH
  Client <- Visitor, Garbage <- None,
  where <- iWhere, reply <- iReply, backlog <- iBacklog, spc <- iSpc,
  kills <- iKills
Poller == INSTANCE PollServer WITH spc <- pSpc, lost <- pLost
Converter == INSTANCE Convert
Local == INSTANCE LocalLookup WITH
  MaxCalls <- LocalCalls,
  calls <- lCalls, sought <- lSought, step <- lStep
Fifo == INSTANCE FifoLookup WITH
  Client <- Visitor, pc <- fPc, spc <- fSpc

Programs == {"stream", "udp", "names", "iterative", "poll", "convert", "local",
             "fifo"}

\* The variables of a program that is not the one that runs.
InitUdp ==
  IF program = "udp" THEN Udp!Init
  ELSE /\ net = None /\ uPc = None /\ asked = None
       /\ uResult = None /\ uSpc = None /\ hold = None /\ faults = None
       /\ ends = None /\ lost = None /\ mixed = None
InitNames ==
  IF program = "names" THEN Names!Init
  ELSE /\ name = None /\ nWhere = None /\ inbox = None /\ answer = None
       /\ nSpc = None /\ queue = None /\ peer = None /\ nKills = None
       /\ apart = None
InitIter ==
  IF program = "iterative" THEN Iter!Init
  ELSE /\ service = None /\ iWhere = None /\ sent = None /\ iReply = None
       /\ dub2 = None /\ iBacklog = None /\ iSpc = None /\ comm = None
       /\ dub = None /\ iKills = None
InitPoll ==
  IF program = "poll" THEN Poller!Init
  ELSE /\ ticks = None /\ alarm = None /\ hpc = None /\ counter = None
       /\ q = None /\ pSpc = None /\ revents = None /\ size = None
       /\ shown = None /\ pLost = None
InitConv ==
  IF program = "convert" THEN Converter!Init
  ELSE /\ lines = None /\ in = None /\ out = None /\ step = None
       /\ word = None /\ text = None /\ off = None /\ newoff = None
       /\ eof = None /\ line = None
InitLocal ==
  IF program = "local" THEN Local!Init
  ELSE /\ file = None /\ prog = None /\ first_time = None /\ pos = None
       /\ numrec = None /\ count = None /\ table = None /\ lCalls = None
       /\ typed = None /\ lSought = None /\ lStep = None
InitFifo ==
  IF program = "fifo" THEN Fifo!Init
  ELSE fPc = None /\ fSpc = None /\ stops = None

InitSockets ==
  /\ program \in Programs
  /\ Init /\ InitUdp /\ InitNames /\ InitIter /\ InitPoll /\ InitConv /\ InitLocal
  /\ InitFifo

\* Only this program moves.
Runs(p) ==
  /\ program = p /\ UNCHANGED program
  /\ IF p = "stream" THEN TRUE ELSE UNCHANGED vars
  /\ IF p = "udp" THEN TRUE ELSE UNCHANGED udpVars
  /\ IF p = "names" THEN TRUE ELSE UNCHANGED nameVars
  /\ IF p = "iterative" THEN TRUE ELSE UNCHANGED iterVars
  /\ IF p = "poll" THEN TRUE ELSE UNCHANGED pollVars
  /\ IF p = "convert" THEN TRUE ELSE UNCHANGED convVars
  /\ IF p = "local" THEN TRUE ELSE UNCHANGED localVars
  /\ IF p = "fifo" THEN TRUE ELSE UNCHANGED fifoVars

NextSockets ==
  \/ Runs("stream") /\ Next
  \/ Runs("udp") /\ Udp!Next
  \/ Runs("names") /\ Names!Next
  \/ Runs("iterative") /\ Iter!Next
  \/ Runs("poll") /\ Poller!Next
  \/ Runs("convert") /\ Converter!Next
  \/ Runs("local") /\ Local!Next
  \/ Runs("fifo") /\ Fifo!Next

\* What the processes do by themselves; users, signals and the network are
\* left out.
Work ==
  \/ Runs("stream") /\ (ServerRuns \/ \E c \in Client : ClientStep(c) \/ ChildStep(c))
  \/ Runs("udp") /\ (Udp!ServerStep \/ \E c \in Client : Udp!ClientStep(c))
  \/ Runs("iterative") /\ (Iter!ServerStep \/ \E c \in Visitor : Iter!ClientStep(c))
  \/ Runs("poll") /\ Poller!Step
  \/ Runs("convert") /\ Converter!Next
  \/ Runs("fifo") /\ (Fifo!ServerStep \/ \E c \in Visitor : Fifo!ClientStep(c))

\* Calls, deaths and faults are counted, so that no behaviour goes on for ever
\* and one fairness for all processes says as much as one for each.
SpecSockets == InitSockets /\ [][NextSockets]_allVars /\ WF_allVars(Work)
-----------------------------------------------------------------------------
(* The variables of the other programs keep their types.                   *)
OthersTypeOK ==
  /\ program = "udp" => Udp!TypeOK
  /\ program = "names" => Names!TypeOK
  /\ program = "iterative" => Iter!TypeOK
  /\ program = "poll" => Poller!TypeOK
  /\ program = "fifo" => Fifo!TypeOK /\ Fifo!NoneWaitsForTheOther

(* The datagram dictionary: a call returns the answer to its own word,     *)
(* though replies carry neither the word nor a number (lookup9.c:46),      *)
(* unless the network doubled a datagram or the port was used again.       *)
AnswersOwnWord == program = "udp" => Udp!AnswersOwnWord

(* srvr2 and clnt2: clients that come one after the other are each told    *)
(* the reply to their own request, and the server stays; clients that      *)
(* share the name at one time may take each other's reply, no reply twice. *)
(* srvr1 and clnt1: a client is told the double of its own number, though  *)
(* clients before it went away between connect and write.  pollProg, once  *)
(* it has taken all that pokeit sent, has displayed it, but for what it    *)
(* may drop for want of an address size or of room at a socket.            *)
ClientsServed ==
  /\ program = "names" => Names!ServedApart /\ Names!RepliesOnce
  /\ program = "iterative" => Iter!Doubled
  /\ program = "poll" => Poller!AllShown

(* convert.c: each word and its definition become a record, unless a line  *)
(* of a long definition ends where the record is full.                     *)
RecordsKept == program = "convert" => Converter!RecordsKept

(* What file_lookup, isam_lookup and mmap_lookup print is a record of the  *)
(* word typed, at the first call and at later ones (the stream of lookup1.c*)
(* and the index of lookup2.c are static), and "Not Found!" (main.c:37)    *)
(* only when there is none; lookup5 wants the file in order.               *)
RecordsFound == program = "local" => Local!RecordsFound

Waits(c) == program = "udp" /\ Udp!Unanswered(c)

(* A call over UDP waits for ever only if one of its datagrams was lost;   *)
(* each client of srvr1 comes to an end, though the server may go first;   *)
(* pollProg takes each datagram that pokeit sends, and never waits in      *)
(* recvfrom for one that is not there; convert ends, for a file that does; *)
(* the clients of the FIFO come back, and its server waits for the next.   *)
AllFinish ==
  <>[] /\ \A c \in Client : ~Waits(c)
       /\ program = "iterative" => Iter!AllEnd
       /\ program = "poll" => Poller!AllTaken
       /\ program = "convert" => Converter!Ends
       /\ program = "fifo" => Fifo!AllBack
=============================================================================
