---------------------------- MODULE StreamLookup ----------------------------
(***************************************************************************)
(* Dictionary lookup over stream sockets: the clients of                   *)
(* lookup_proj/lookup7.c and lookup8.c (driven by main.c) and the servers  *)
(* usock_server.c and isock_server.c, which differ only in the address     *)
(* family.  A client connects at its first call and keeps its connection.  *)
(* The server forks a child for each connection it accepts, and a          *)
(* connection is closed when no process of the server has it open.         *)
(*                                                                         *)
(* No child is ever waited for: a child that has ended stays a zombie, and *)
(* takes one of the processes the user may have, as long as the server     *)
(* lives.  When a fork fails the server ends; its children go on.          *)
(***************************************************************************)
EXTENDS Integers, FiniteSets, Sequences

CONSTANTS
  Client,      \* processes running usock_client or isock_client
  Word,        \* words that users type
  Known,       \* those with a record in the dictionary
  Absent,      \* the text "XXXX"
  Blank,       \* no word or text
  MaxCalls,    \* words a user types before end of input
  MaxChildren, \* processes the server may have (RLIMIT_NPROC)
  MaxBad,      \* times accept fails in a run
  Bad          \* the descriptor -1

ASSUME StreamAssumption ==
  /\ IsFiniteSet(Client) /\ Bad \notin Client
  /\ Known \subseteq Word
  /\ Absent \notin Word /\ Blank \notin Word /\ Absent # Blank
  /\ MaxCalls \in Nat /\ MaxChildren \in Nat /\ MaxBad \in Nat

VARIABLES
  pc,      \* pc[c]: the next statement of client c's lookup
  calls,   \* calls[c]: calls of lookup that c has begun
  sought,  \* sought[c]: the word of c's current call
  result,  \* result[c]: c's tryit.text, what its last call returned
  request, \* request[c]: what the stream to the server holds
  reply,   \* reply[c]: what the stream to the client holds
  conn,    \* conn[c]: how far c's connection has come
  open,    \* open[c]: the server's processes that have it open
  child,   \* child[c]: the next step of the process forked for c
  todo,    \* todo[c]: the word that process works on
  spc,     \* the next statement of the server
  cd,      \* what accept has returned
  backlog, \* connections that wait for accept
  bad      \* children that were forked with a bad descriptor

client == <<pc, calls, sought, result>>
stream == <<request, reply>>
server == <<spc, cd, backlog, bad>>
vars == <<pc, calls, sought, result, request, reply, conn, open, child, todo,
          spc, cd, backlog, bad>>

AnswerTo(w) == IF w \in Known THEN w ELSE Absent
Closed(c) == conn[c] = "made" /\ open[c] = {}

Init ==
  /\ pc = [c \in Client |-> "start"]
  /\ calls = [c \in Client |-> 0]
  /\ sought = [c \in Client |-> Blank]
  /\ result = [c \in Client |-> Blank]
  /\ request = [c \in Client |-> Blank]
  /\ reply = [c \in Client |-> Blank]
  /\ conn = [c \in Client |-> "none"]
  /\ open = [c \in Client |-> {}]
  /\ child = [c \in Client |-> "none"]
  /\ todo = [c \in Client |-> Blank]
  /\ spc = "accept" /\ cd = Bad /\ backlog = <<>> /\ bad = 0
-----------------------------------------------------------------------------
\* main reads a word and calls lookup; the first call connects.
Call(c, w) ==
  /\ pc[c] \in {"start", "idle"}
  /\ calls[c] < MaxCalls
  /\ pc' = [pc EXCEPT ![c] = IF @ = "start" THEN "connect" ELSE "write"]
  /\ calls' = [calls EXCEPT ![c] = @ + 1]
  /\ sought' = [sought EXCEPT ![c] = w]
  /\ UNCHANGED <<result, stream, conn, open, child, todo, server>>

\* The client process ends, of itself or by a signal.
Gone(c) ==
  /\ pc' = [pc EXCEPT ![c] = "gone"]
  /\ UNCHANGED <<calls, sought, result, stream, conn, open, child, todo, server>>

\* The connection waits in the backlog; without a server, UNAVAIL.
Connect(c) ==
  /\ pc[c] = "connect"
  /\ \/ /\ spc # "dead"
        /\ pc' = [pc EXCEPT ![c] = "write"]
        /\ conn' = [conn EXCEPT ![c] = "queued"]
        /\ backlog' = Append(backlog, c)
        /\ UNCHANGED <<calls, sought, result, stream, open, child, todo, spc,
                       cd, bad>>
     \/ spc = "dead" /\ Gone(c)

\* A word written to a closed connection ends the client by SIGPIPE, or (the
\* first time, over TCP) goes nowhere.
Write(c) ==
  /\ pc[c] = "write"
  /\ \/ /\ pc' = [pc EXCEPT ![c] = "read"]
        /\ request' = [request EXCEPT ![c] = sought[c]]
        /\ UNCHANGED <<calls, sought, result, reply, conn, open, child, todo,
                       server>>
     \/ Closed(c) /\ Gone(c)

\* The reply; or, on a closed connection, either UNAVAIL (a reset) or the
\* end of the stream, which is taken for a reply: the text is the old one.
Read(c) ==
  /\ pc[c] = "read"
  /\ \/ /\ reply[c] # Blank
        /\ pc' = [pc EXCEPT ![c] = "idle"]
        /\ result' = [result EXCEPT ![c] = reply[c]]
        /\ reply' = [reply EXCEPT ![c] = Blank]
        /\ UNCHANGED <<calls, sought, request, conn, open, child, todo, server>>
     \/ /\ reply[c] = Blank /\ Closed(c)
        /\ pc' = [pc EXCEPT ![c] = "idle"]
        /\ UNCHANGED <<calls, sought, result, stream, conn, open, child, todo,
                       server>>
     \/ reply[c] = Blank /\ Closed(c) /\ Gone(c)

\* End of input, a signal.
Leave(c) == pc[c] # "gone" /\ Gone(c)
-----------------------------------------------------------------------------
\* The oldest connection; or accept fails, and nobody looks at cd.
Accept ==
  /\ spc = "accept"
  /\ \/ /\ backlog # <<>>
        /\ cd' = Head(backlog)
        /\ backlog' = Tail(backlog)
        /\ conn' = [conn EXCEPT ![Head(backlog)] = "made"]
        /\ open' = [open EXCEPT ![Head(backlog)] = {"server"}]
     \/ /\ bad < MaxBad
        /\ cd' = Bad
        /\ UNCHANGED <<backlog, conn, open>>
  /\ spc' = "fork"
  /\ UNCHANGED <<client, stream, child, todo, bad>>

\* The server's children, zombies too; those that were forked with a bad
\* descriptor spin for ever (read fails with -1, which is true).
Children == Cardinality({c \in Client : child[c] # "none"}) + bad

\* fork, with the child for c about to read its first request.
Fork ==
  /\ spc = "fork"
  /\ Children < MaxChildren
  /\ IF cd = Bad
     THEN bad' = bad + 1 /\ UNCHANGED <<child, open>>
     ELSE /\ child' = [child EXCEPT ![cd] = "read"]
          /\ open' = [open EXCEPT ![cd] = @ \cup {"child"}]
          /\ UNCHANGED bad
  /\ spc' = "close"
  /\ UNCHANGED <<client, stream, conn, todo, cd, backlog>>

\* What the server had open is closed, the backlog too.
ServerEnds ==
  /\ spc' = "dead"
  /\ open' = [c \in Client |-> open[c] \ {"server"}]
  /\ conn' = [c \in Client |-> IF conn[c] = "queued" THEN "made" ELSE conn[c]]
  /\ backlog' = <<>>
  /\ UNCHANGED <<client, stream, child, todo, cd, bad>>

\* fork fails: DIE.
ForkFails ==
  /\ spc = "fork"
  /\ Children >= MaxChildren
  /\ ServerEnds

\* A signal ends the server anywhere; its children go on.
ServerDies == spc # "dead" /\ ServerEnds

\* Mutant: the server keeps the connection open.
CloseNothing ==
  /\ spc = "close"
  /\ spc' = "accept"
  /\ UNCHANGED <<client, stream, conn, open, child, todo, cd, backlog, bad>>

\* close(cd): the connection is left to the child.
Close ==
  /\ spc = "close"
  /\ IF cd = Bad
     THEN UNCHANGED open
     ELSE open' = [open EXCEPT ![cd] = @ \ {"server"}]
  /\ spc' = "accept"
  /\ UNCHANGED <<client, stream, conn, child, todo, cd, backlog, bad>>
-----------------------------------------------------------------------------
\* The child of c ends and becomes a zombie.
Exit(c) ==
  /\ child' = [child EXCEPT ![c] = "zombie"]
  /\ open' = [open EXCEPT ![c] = @ \ {"child"}]
  /\ UNCHANGED <<client, stream, conn, todo, server>>

\* Mutant: no exit(0): the child goes on to accept connections.
ChildReadOn(c) ==
  /\ child[c] = "read"
  /\ \/ /\ request[c] # Blank
        /\ child' = [child EXCEPT ![c] = "answer"]
        /\ todo' = [todo EXCEPT ![c] = request[c]]
        /\ request' = [request EXCEPT ![c] = Blank]
     \/ /\ request[c] = Blank /\ pc[c] = "gone"
        /\ child' = [child EXCEPT ![c] = "accept"]
        /\ UNCHANGED <<todo, request>>
  /\ UNCHANGED <<client, reply, conn, open, server>>

\* read of a request; the end of the stream ends the dialogue.
ChildRead(c) ==
  /\ child[c] = "read"
  /\ \/ /\ request[c] # Blank
        /\ child' = [child EXCEPT ![c] = "answer"]
        /\ todo' = [todo EXCEPT ![c] = request[c]]
        /\ request' = [request EXCEPT ![c] = Blank]
        /\ UNCHANGED <<client, reply, conn, open, server>>
     \/ request[c] = Blank /\ pc[c] = "gone" /\ Exit(c)

\* Mutant: the child answers but does not go on to its next read.
ChildAnswerAgain(c) ==
  /\ child[c] = "answer"
  /\ reply[c] = Blank
  /\ reply' = [reply EXCEPT ![c] = AnswerTo(todo[c])]
  /\ UNCHANGED <<client, request, conn, open, child, todo, server>>

\* lookup and write of the reply; SIGPIPE if the client has gone.
ChildAnswer(c) ==
  /\ child[c] = "answer"
  /\ \/ /\ pc[c] # "gone"
        /\ child' = [child EXCEPT ![c] = "read"]
        /\ reply' = [reply EXCEPT ![c] = AnswerTo(todo[c])]
        /\ UNCHANGED <<client, request, conn, open, todo, server>>
     \/ pc[c] = "gone" /\ Exit(c)

\* The child is killed, or DIEs because the dictionary cannot be opened.
ChildDies(c) == child[c] \in {"read", "answer"} /\ Exit(c)
-----------------------------------------------------------------------------
ClientStep(c) == Connect(c) \/ Write(c) \/ Read(c)
ChildStep(c) == ChildRead(c) \/ ChildAnswer(c)
ServerStep == Accept \/ Fork \/ ForkFails \/ Close

Next ==
  \/ \E c \in Client :
       \/ \E w \in Word : Call(c, w)
       \/ ClientStep(c)
       \/ Leave(c)
       \/ ChildStep(c)
       \/ ChildDies(c)
  \/ ServerStep
  \/ ServerDies

Spec == Init /\ [][Next]_vars

\* The system schedules every process that can run; nothing makes accept fail.
ServerRuns == ServerStep /\ (spc = "accept" => cd' # Bad)
FairSpec ==
  /\ Spec
  /\ WF_vars(ServerRuns)
  /\ \A c \in Client : WF_vars(ClientStep(c)) /\ WF_vars(ChildStep(c))
-----------------------------------------------------------------------------
TypeOK ==
  /\ pc \in [Client -> {"start", "connect", "write", "read", "idle", "gone"}]
  /\ calls \in [Client -> 0..MaxCalls]
  /\ sought \in [Client -> Word \cup {Blank}]
  /\ result \in [Client -> Known \cup {Absent, Blank}]
  /\ request \in [Client -> Word \cup {Blank}]
  /\ reply \in [Client -> Known \cup {Absent, Blank}]
  /\ conn \in [Client -> {"none", "queued", "made"}]
  /\ open \in [Client -> SUBSET {"server", "child"}]
  /\ child \in [Client -> {"none", "read", "answer", "zombie"}]
  /\ todo \in [Client -> Word \cup {Blank}]
  /\ spc \in {"accept", "fork", "close", "dead"}
  /\ cd \in Client \cup {Bad}
  /\ backlog \in Seq(Client)
  /\ bad \in 0..MaxBad
  /\ Children <= MaxChildren

(* What a user is told is the dictionary's answer to the word typed        *)
(* (lookup_proj/READ_ME:2-4), whatever happens to the server and to other  *)
(* clients, as long as the child for this client lives.                    *)
ResultIsAnswer ==
  \A c \in Client :
    ~Closed(c) /\ pc[c] = "idle" => result[c] = AnswerTo(sought[c])

(* Where each client's call stands for LookupService: it has failed once   *)
(* its connection is closed with no reply in the stream.                   *)
CallBar ==
  [c \in Client |->
     IF reply[c] # Blank /\ pc[c] = "read"
     THEN [state |-> "answered", word |-> sought[c], text |-> reply[c]]
     ELSE IF pc[c] \in {"connect", "write", "read"} /\ ~Closed(c)
     THEN [state |-> "asked", word |-> sought[c]]
     ELSE [state |-> "idle"]]

Service ==
  INSTANCE LookupService
  WITH Answer <- AnswerTo, MayFail <- TRUE, call <- CallBar

(* The sockets are a dictionary service that may fail: no call is answered *)
(* with anything but the definition of its own word, and each is answered  *)
(* or fails, the ones in progress when the server ends too.                *)
Implements == Service!FairSpec
=============================================================================
