----------------------------- MODULE MsgqLookup -----------------------------
(***************************************************************************)
(* Dictionary lookup through one System V message queue: the client of     *)
(* lookup_proj/lookup4.c (driven by main.c) and the server of              *)
(* lookup_proj/msgq_server.c.                                              *)
(*                                                                         *)
(* Requests and replies share the queue: a request has type 1 and carries  *)
(* the client's pid, its reply has that pid as its type.  The queue holds  *)
(* a bounded number of bytes, and whoever would exceed it waits.  It       *)
(* outlives every process, so what a client that was killed leaves there   *)
(* is found by the next process that has its pid.                          *)
(***************************************************************************)
EXTENDS Integers, FiniteSets, SequencesExt

CONSTANTS
  Client,       \* pids of processes that run msgq_client
  Server,       \* message type 1, for the server
  Word,         \* words that users type
  Known,        \* those with a record in the dictionary
  Absent,       \* the text "XXXX"
  Blank,        \* contents of a fresh record
  MaxCalls,     \* words a user types before end of input
  Capacity,     \* bytes the queue holds (msg_qbytes)
  RequestSize,  \* bytes of a request (sizeof(Client))
  FoundSize,    \* bytes of a definition (strlen + 1)
  AbsentSize,   \* bytes of "XXXX"
  MaxKills,     \* clients killed in a run
  MaxStops      \* servers stopped in a run

ASSUME MsgqAssumption ==
  /\ IsFiniteSet(Client) /\ Server \notin Client
  /\ Known \subseteq Word
  /\ Absent \notin Word /\ Blank \notin Word /\ Absent # Blank
  /\ MaxCalls \in Nat /\ MaxKills \in Nat /\ MaxStops \in Nat
  /\ Capacity \in Nat /\ RequestSize \in 1..Capacity
  /\ FoundSize \in 1..Capacity /\ AbsentSize \in 1..FoundSize

VARIABLES
  queue,   \* the message queue
  pc,      \* pc[c]: the next statement of the process with pid c
  calls,   \* calls[c]: calls of lookup that it has begun
  sought,  \* sought[c]: the word of its current call
  result,  \* result[c]: what its last finished call returned
  spc,     \* the next statement of the server
  hold,    \* the request the server works on
  kills,   \* clients killed so far
  stops,   \* servers stopped so far
  stale,   \* history: pids whose earlier process died waiting for a reply
  lost     \* history: pids whose request died with the server

client == <<pc, calls, sought, result>>
server == <<spc, hold>>
ghost == <<kills, stops, stale, lost>>
vars == <<queue, pc, calls, sought, result, spc, hold, kills, stops, stale, lost>>

AnswerTo(w) == IF w \in Known THEN w ELSE Absent

Request(c, w) == [to |-> Server, from |-> c, body |-> w]
Reply(c, t) == [to |-> c, from |-> Server, body |-> t]
Message ==
  [to : {Server}, from : Client, body : Word]
    \cup [to : Client, from : {Server}, body : Known \cup {Absent}]

Size(m) ==
  IF m.to = Server THEN RequestSize
  ELSE IF m.body = Absent THEN AbsentSize ELSE FoundSize

-----------------------------------------------------------------------------
(* The kernel's msgsnd and msgrcv.                                         *)

Bytes == FoldSeq(LAMBDA m, n : Size(m) + n, 0, queue)
Fits(m) == Bytes + Size(m) <= Capacity

\* The first message of type t is at i.
FirstOf(t, i) ==
  /\ queue[i].to = t
  /\ \A j \in 1..(i - 1) : queue[j].to # t

Init ==
  /\ queue = <<>>
  /\ pc = [c \in Client |-> "idle"]
  /\ calls = [c \in Client |-> 0]
  /\ sought = [c \in Client |-> Blank]
  /\ result = [c \in Client |-> Blank]
  /\ spc = "receive"
  /\ hold = [to |-> Server, from |-> Server, body |-> Blank]
  /\ kills = 0 /\ stops = 0
  /\ stale = {} /\ lost = {}

\* main reads a word and calls lookup.
Call(c, w) ==
  /\ pc[c] = "idle"
  /\ calls[c] < MaxCalls
  /\ pc' = [pc EXCEPT ![c] = "send"]
  /\ calls' = [calls EXCEPT ![c] = @ + 1]
  /\ sought' = [sought EXCEPT ![c] = w]
  /\ UNCHANGED <<queue, result, server, ghost>>

\* msgsnd of the request; it waits for room.
Send(c) ==
  /\ pc[c] = "send"
  /\ Fits(Request(c, sought[c]))
  /\ queue' = Append(queue, Request(c, sought[c]))
  /\ pc' = [pc EXCEPT ![c] = "receive"]
  /\ UNCHANGED <<calls, sought, result, server, ghost>>

\* Mutants: the reply is left in the queue, and any reply is taken.
ReceiveCopy(c) ==
  /\ pc[c] = "receive"
  /\ \E i \in DOMAIN queue :
       /\ FirstOf(c, i)
       /\ result' = [result EXCEPT ![c] = queue[i].body]
  /\ pc' = [pc EXCEPT ![c] = "idle"]
  /\ UNCHANGED <<queue, calls, sought, server, ghost>>

ReceiveAny(c) ==
  /\ pc[c] = "receive"
  /\ \E i \in DOMAIN queue :
       /\ queue[i].to # Server
       /\ result' = [result EXCEPT ![c] = queue[i].body]
       /\ queue' = RemoveAt(queue, i)
  /\ pc' = [pc EXCEPT ![c] = "idle"]
  /\ UNCHANGED <<calls, sought, server, ghost>>

\* msgrcv of the first message whose type is the process's pid.
Receive(c) ==
  /\ pc[c] = "receive"
  /\ \E i \in DOMAIN queue :
       /\ FirstOf(c, i)
       /\ result' = [result EXCEPT ![c] = queue[i].body]
       /\ queue' = RemoveAt(queue, i)
  /\ pc' = [pc EXCEPT ![c] = "idle"]
  /\ UNCHANGED <<calls, sought, server, ghost>>
-----------------------------------------------------------------------------
\* msgrcv of the first message of type 1.
ServerReceive ==
  /\ spc = "receive"
  /\ \E i \in DOMAIN queue :
       /\ FirstOf(Server, i)
       /\ hold' = queue[i]
       /\ queue' = RemoveAt(queue, i)
  /\ spc' = "reply"
  /\ UNCHANGED <<client, ghost>>

\* Mutant: the reply keeps the request's type.
ServerReplyToSelf ==
  /\ spc = "reply"
  /\ Fits(Reply(Server, AnswerTo(hold.body)))
  /\ queue' = Append(queue, Reply(Server, AnswerTo(hold.body)))
  /\ spc' = "receive"
  /\ UNCHANGED <<client, hold, ghost>>

\* lookup, and msgsnd of the reply: the server waits for room like a client.
ServerReply ==
  /\ spc = "reply"
  /\ Fits(Reply(hold.from, AnswerTo(hold.body)))
  /\ queue' = Append(queue, Reply(hold.from, AnswerTo(hold.body)))
  /\ spc' = "receive"
  /\ UNCHANGED <<client, hold, ghost>>
-----------------------------------------------------------------------------
\* A client is killed; the queue keeps what it sent and what it is sent.
Kill(c) ==
  /\ kills < MaxKills
  /\ pc[c] # "gone"
  /\ pc' = [pc EXCEPT ![c] = "gone"]
  /\ kills' = kills + 1
  /\ stale' = IF pc[c] = "receive" THEN stale \cup {c} ELSE stale
  /\ UNCHANGED <<queue, calls, sought, result, server, stops, lost>>

\* A new msgq_client is given the pid of one that was killed.
Reuse(c) ==
  /\ pc[c] = "gone"
  /\ pc' = [pc EXCEPT ![c] = "idle"]
  /\ calls' = [calls EXCEPT ![c] = 0]
  /\ sought' = [sought EXCEPT ![c] = Blank]
  /\ result' = [result EXCEPT ![c] = Blank]
  /\ UNCHANGED <<queue, server, ghost>>

\* The server is killed, or DIEs because its dictionary cannot be opened.
Stop ==
  /\ stops < MaxStops
  /\ spc # "dead"
  /\ spc' = "dead"
  /\ stops' = stops + 1
  /\ lost' = IF spc = "reply" THEN lost \cup {hold.from} ELSE lost
  /\ UNCHANGED <<queue, client, hold, kills, stale>>

\* Mutant: a new server starts with an empty queue.
RestartEmpty ==
  /\ spc = "dead"
  /\ spc' = "receive"
  /\ queue' = <<>>
  /\ UNCHANGED <<client, hold, ghost>>

\* A new server opens the queue the last one left (IPC_CREAT, no IPC_EXCL).
Restart ==
  /\ spc = "dead"
  /\ spc' = "receive"
  /\ UNCHANGED <<queue, client, hold, ghost>>
-----------------------------------------------------------------------------
ClientStep(c) == Send(c) \/ Receive(c)
ServerStep == ServerReceive \/ ServerReply

Next ==
  \/ \E c \in Client :
       \/ \E w \in Word : Call(c, w)
       \/ ClientStep(c)
       \/ Kill(c)
       \/ Reuse(c)
  \/ ServerStep
  \/ Stop
  \/ Restart

Spec == Init /\ [][Next]_vars

\* The system schedules every process that can run.
FairSpec ==
  Spec /\ WF_vars(ServerStep) /\ \A c \in Client : WF_vars(ClientStep(c))
-----------------------------------------------------------------------------
TypeOK ==
  /\ queue \in Seq(Message)
  /\ Bytes <= Capacity
  /\ pc \in [Client -> {"idle", "send", "receive", "gone"}]
  /\ calls \in [Client -> 0..MaxCalls]
  /\ sought \in [Client -> Word \cup {Blank}]
  /\ result \in [Client -> Known \cup {Absent, Blank}]
  /\ spc \in {"receive", "reply", "dead"}
  /\ hold \in [to : {Server}, from : Client \cup {Server},
              body : Word \cup {Blank}]
  /\ kills \in 0..MaxKills /\ stops \in 0..MaxStops
  /\ stale \subseteq Client /\ lost \subseteq Client

\* What is under way for pid c: its requests and replies in the queue, and
\* the one in the server's hands.
InQueue(c) == {i \in DOMAIN queue : c \in {queue[i].to, queue[i].from}}
InHand(c) == IF spc = "reply" /\ hold.from = c THEN 1 ELSE 0
UnderWay(c) == Cardinality(InQueue(c)) + InHand(c)

(* A client that waits in msgrcv (lookup4.c:44) has exactly one message    *)
(* under way and any other has none, unless its pid was used before by a   *)
(* process that died waiting, or the server died with its request.         *)
OneUnderWay ==
  \A c \in Client \ (stale \cup lost) :
    UnderWay(c) = IF pc[c] = "receive" THEN 1 ELSE 0

(* What a user is told is the dictionary's answer to the word typed, even  *)
(* though all replies lie in one queue (lookup4.c:5, "The client only      *)
(* reads messages whose type matches their own pid").  Only a pid that a   *)
(* process left while it waited spoils it.                                 *)
ResultIsAnswer ==
  \A c \in Client \ stale :
    pc[c] = "idle" /\ calls[c] > 0 => result[c] = AnswerTo(sought[c])

(* "Await client messages; reply immediately" (msgq_server.c:44): a server *)
(* that has a reply gets rid of it.                                        *)
ServerGoesOn == spc = "reply" ~> spc # "reply"

(* Where each client's call stands for LookupService: it is served when    *)
(* its reply is in the queue, and fails when its client is killed or its   *)
(* request dies with a server.                                             *)
Served(c) == pc[c] = "receive" /\ \E i \in DOMAIN queue : queue[i].to = c
ReplyOf(c) == (CHOOSE i \in DOMAIN queue : queue[i].to = c)

CallBar ==
  [c \in Client |->
     IF pc[c] \in {"idle", "gone"} \/ c \in stale \cup lost
     THEN [state |-> "idle"]
     ELSE IF Served(c)
     THEN [state |-> "answered", word |-> sought[c],
           text |-> queue[ReplyOf(c)].body]
     ELSE [state |-> "asked", word |-> sought[c]]]

Service ==
  INSTANCE LookupService
  WITH Answer <- AnswerTo, MayFail <- TRUE, call <- CallBar

(* The queue is a dictionary service: each call is answered with the       *)
(* definition of its own word, once, or fails because its client was       *)
(* killed or its request died with a server.  While some server stays up   *)
(* and the queue, besides a reply for each killed client, has room for one *)
(* reply and the other clients' requests, no call waits for ever.          *)
Largest == IF RequestSize > FoundSize THEN RequestSize ELSE FoundSize
EnoughRoom ==
  Capacity >= Largest * (MaxKills + 1) + RequestSize * (Cardinality(Client) - 1)
Implements ==
  /\ Service!Spec
  /\ <>[](spc # "dead") /\ EnoughRoom => Service!Fairness
=============================================================================
