------------------------------ MODULE UdpLookup ------------------------------
(***************************************************************************)
(* Dictionary lookup over UDP: the client of lookup_proj/lookup9.c (driven *)
(* by main.c) and the server of lookup_proj/udp_server.c.  A call is one   *)
(* datagram each way.  The network may lose a datagram, deliver it twice   *)
(* or out of order; nothing is numbered, repeated or timed.                *)
(*                                                                         *)
(* A client is known to the server by its port.  The port of a client that *)
(* has ended may be given to the next one, with what is still on its way.  *)
(***************************************************************************)
EXTENDS Integers, SequencesExt

CONSTANTS
  Client,    \* the clients' ports
  Word,      \* words that users type
  Known,     \* those with a record in the dictionary
  Absent,    \* the text "XXXX"
  Blank,     \* no word or text
  MaxCalls,  \* words that users type at one port
  MaxFaults, \* datagrams the network loses or doubles
  MaxEnds    \* clients and servers that end in a run

VARIABLES
  net,    \* the datagrams on their way or waiting at a socket
  pc,     \* pc[c]: the next step of the client at port c
  asked,  \* asked[c]: the words asked for from port c, in order
  result, \* result[c]: what its last finished call returned
  spc,    \* the next step of the server
  hold,   \* the request the server works on
  faults, \* faults of the network so far
  ends,   \* clients and servers that have ended
  lost,   \* history: ports a datagram of whose call was lost
  mixed   \* history: ports that may be sent a reply to an earlier call

client == <<pc, asked, result>>
server == <<spc, hold>>
ghost == <<faults, ends, lost, mixed>>
vars == <<net, pc, asked, result, spc, hold, faults, ends, lost, mixed>>

AnswerTo(w) == IF w \in Known THEN w ELSE Absent
Request(c, w) == [kind |-> "request", port |-> c, body |-> w]
Reply(c, t) == [kind |-> "reply", port |-> c, body |-> t]

\* The network: a bag of datagrams, each of which is at its socket at once or
\* later.
Put(d) == [net EXCEPT ![d] = @ + 1]
Taken(d) == [net EXCEPT ![d] = @ - 1]

Datagram ==
  [kind : {"request"}, port : Client, body : Word]
    \cup [kind : {"reply"}, port : Client, body : Known \cup {Absent}]

Init ==
  /\ net = [d \in Datagram |-> 0]
  /\ pc = [c \in Client |-> "idle"]
  /\ asked = [c \in Client |-> <<>>]
  /\ result = [c \in Client |-> Blank]
  /\ spc = "receive" /\ hold = Blank
  /\ faults = 0 /\ ends = 0
  /\ lost = {} /\ mixed = {}
-----------------------------------------------------------------------------
\* main reads a word and calls lookup; the first call makes the socket.
Call(c, w) ==
  /\ pc[c] = "idle"
  /\ Len(asked[c]) < MaxCalls
  /\ pc' = [pc EXCEPT ![c] = "send"]
  /\ asked' = [asked EXCEPT ![c] = Append(@, w)]
  /\ UNCHANGED <<net, result, server, ghost>>

\* sendto.
Send(c) ==
  /\ pc[c] = "send"
  /\ net' = Put(Request(c, Last(asked[c])))
  /\ pc' = [pc EXCEPT ![c] = "await"]
  /\ UNCHANGED <<asked, result, server, ghost>>

\* recvfrom: whatever is at the client's port, from whomever.
Receive(c) ==
  /\ pc[c] = "await"
  /\ \E t \in Known \cup {Absent} :
       /\ net[Reply(c, t)] > 0
       /\ net' = Taken(Reply(c, t))
       /\ result' = [result EXCEPT ![c] = t]
  /\ pc' = [pc EXCEPT ![c] = "idle"]
  /\ UNCHANGED <<asked, server, ghost>>

\* End of input, a signal, or a socket call that fails (UNAVAIL).
End(c) ==
  /\ pc[c] # "gone"
  /\ ends < MaxEnds
  /\ pc' = [pc EXCEPT ![c] = "gone"]
  /\ ends' = ends + 1
  /\ mixed' = IF pc[c] = "await" THEN mixed \cup {c} ELSE mixed
  /\ UNCHANGED <<net, asked, result, server, faults, lost>>

\* A new client is given the port of one that has ended.
Reuse(c) ==
  /\ pc[c] = "gone"
  /\ pc' = [pc EXCEPT ![c] = "idle"]
  /\ result' = [result EXCEPT ![c] = Blank]
  /\ UNCHANGED <<net, asked, server, ghost>>

\* A reply for a port that nobody has is dropped.
Unclaimed(c) ==
  /\ pc[c] = "gone"
  /\ \E t \in Known \cup {Absent} :
       net[Reply(c, t)] > 0 /\ net' = Taken(Reply(c, t))
  /\ UNCHANGED <<client, server, ghost>>
-----------------------------------------------------------------------------
\* recvfrom of any client's request.
ServerReceive ==
  /\ spc = "receive"
  /\ \E c \in Client, w \in Word :
       /\ net[Request(c, w)] > 0
       /\ net' = Taken(Request(c, w))
       /\ hold' = Request(c, w)
  /\ spc' = "answer"
  /\ UNCHANGED <<client, ghost>>

\* Mutant: the address is that of any client.
ServerAnswerOne ==
  /\ spc = "answer"
  /\ \E c \in Client : net' = Put(Reply(c, AnswerTo(hold.body)))
  /\ spc' = "receive"
  /\ UNCHANGED <<client, hold, ghost>>

\* lookup, and sendto of the reply to where the request came from.
ServerAnswer ==
  /\ spc = "answer"
  /\ net' = Put(Reply(hold.port, AnswerTo(hold.body)))
  /\ spc' = "receive"
  /\ UNCHANGED <<client, hold, ghost>>

\* The server is killed or DIEs (no dictionary): its request is lost.
Stop ==
  /\ spc # "down"
  /\ ends < MaxEnds
  /\ spc' = "down"
  /\ ends' = ends + 1
  /\ lost' = IF spc = "answer" THEN lost \cup {hold.port} ELSE lost
  /\ UNCHANGED <<net, client, hold, faults, mixed>>

\* A request at the port of a server that is down is dropped.
Refuse ==
  /\ spc = "down"
  /\ \E c \in Client, w \in Word :
       /\ net[Request(c, w)] > 0
       /\ net' = Taken(Request(c, w))
       /\ lost' = lost \cup {c}
  /\ UNCHANGED <<client, server, faults, ends, mixed>>

\* A new server binds the well-known port.
Restart ==
  /\ spc = "down"
  /\ spc' = "receive"
  /\ UNCHANGED <<net, client, hold, ghost>>
-----------------------------------------------------------------------------
\* The network loses a datagram ...
Lose(d) ==
  /\ net[d] > 0 /\ faults < MaxFaults
  /\ net' = Taken(d)
  /\ faults' = faults + 1
  /\ lost' = lost \cup {d.port}
  /\ UNCHANGED <<client, server, ends, mixed>>

\* ... or makes two of one.
Double(d) ==
  /\ net[d] > 0 /\ faults < MaxFaults
  /\ net' = Put(d)
  /\ faults' = faults + 1
  /\ mixed' = mixed \cup {d.port}
  /\ UNCHANGED <<client, server, ends, lost>>
-----------------------------------------------------------------------------
ClientStep(c) == Send(c) \/ Receive(c) \/ Unclaimed(c)
ServerStep == ServerReceive \/ ServerAnswer \/ Refuse

Next ==
  \/ \E c \in Client :
       \/ \E w \in Word : Call(c, w)
       \/ ClientStep(c)
       \/ End(c)
       \/ Reuse(c)
  \/ ServerStep
  \/ Stop
  \/ Restart
  \/ \E d \in Datagram : Lose(d) \/ Double(d)
-----------------------------------------------------------------------------
TypeOK ==
  /\ net \in [Datagram -> Nat]
  /\ pc \in [Client -> {"idle", "send", "await", "gone"}]
  /\ asked \in [Client -> Seq(Word)]
  /\ result \in [Client -> Known \cup {Absent, Blank}]
  /\ spc \in {"receive", "answer", "down"}
  /\ hold \in {d \in Datagram : d.kind = "request"} \cup {Blank}
  /\ faults \in 0..MaxFaults /\ ends \in 0..MaxEnds
  /\ lost \subseteq Client /\ mixed \subseteq Client

\* What a call at port c returned is the answer to the word of that call, or,
\* if a datagram was doubled or the port used again while a reply was due, to
\* another word that was asked for from this port.
AnswersOwnWord ==
  \A c \in Client :
    pc[c] = "idle" /\ result[c] # Blank =>
      /\ \E i \in DOMAIN asked[c] : result[c] = AnswerTo(asked[c][i])
      /\ c \notin mixed => result[c] = AnswerTo(Last(asked[c]))

\* A call waits for ever only if its request or its reply was lost.
Unanswered(c) == pc[c] = "await" /\ c \notin lost
=============================================================================
