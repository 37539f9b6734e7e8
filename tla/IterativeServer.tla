--------------------------- MODULE IterativeServer ---------------------------
(***************************************************************************)
(* A server that takes one connection at a time: mod12-sockets/srvr1.c and *)
(* clnt1.c (a client writes a number and reads its double), and srvr3.c    *)
(* and clnt3.c (a client reads the time).  No call's failure on the        *)
(* connection is looked at by srvr1 or clnt1, so that a client which goes  *)
(* away leaves the server with the last client's number, and the server's  *)
(* write to it with SIGPIPE.                                               *)
(***************************************************************************)
EXTENDS Integers, Sequences

CONSTANTS
  Client,  \* processes that run clnt1 or clnt3
  Garbage, \* an uninitialised double
  MaxKills \* clients that are killed

VARIABLES
  service, \* "double" (srvr1, clnt1) or "time" (srvr3, clnt3)
  where,   \* where[c]: the next step of client c
  sent,    \* sent[c]: the number in the stream to the server, 0 if none
  reply,   \* reply[c]: what is in the stream to the client, 0 if nothing
  dub2,    \* dub2[c]: what the client has read
  backlog, \* connections that wait for accept
  spc,     \* the next step of the server
  comm,    \* the connection that accept has returned
  dub,     \* the server's number
  kills    \* clients killed so far

client == <<where, dub2>>
stream == <<sent, reply>>
vars == <<service, where, sent, reply, dub2, backlog, spc, comm, dub, kills>>

Number == 1 \* the client's 2.3
Twice(n) == IF n = Garbage THEN Garbage ELSE 2 * n
Left(c) == where[c] \in {"done", "killed"}

Init ==
  /\ service \in {"double", "time"}
  /\ where = [c \in Client |-> "connect"]
  /\ sent = [c \in Client |-> 0]
  /\ reply = [c \in Client |-> 0]
  /\ dub2 = [c \in Client |-> Garbage]
  /\ backlog = <<>>
  /\ spc = "accept" /\ comm = Garbage /\ dub = Garbage
  /\ kills = 0

\* srvr3 listens at its PORTNUM.
TimePort == 22023

\* clnt3's connect is to its own PORTNUM; refused, it exits.
TimeConnect(c) ==
  /\ service = "time" /\ where[c] = "connect"
  /\ where' = [where EXCEPT ![c] = IF TimePort = 2023 THEN "read" ELSE "refused"]
  /\ UNCHANGED <<service, stream, dub2, backlog, spc, comm, dub, kills>>

\* clnt1's connect; it exits when nobody listens.
Connect(c) ==
  /\ service = "double" /\ where[c] = "connect"
  /\ IF spc = "down"
     THEN where' = [where EXCEPT ![c] = "refused"] /\ UNCHANGED backlog
     ELSE /\ where' = [where EXCEPT ![c] = "write"]
          /\ backlog' = Append(backlog, c)
  /\ UNCHANGED <<service, stream, dub2, spc, comm, dub, kills>>

\* write; SIGPIPE if the server has gone.
Write(c) ==
  /\ where[c] = "write"
  /\ IF spc = "down"
     THEN where' = [where EXCEPT ![c] = "killed"] /\ UNCHANGED sent
     ELSE /\ where' = [where EXCEPT ![c] = "read"]
          /\ sent' = [sent EXCEPT ![c] = Number]
  /\ UNCHANGED <<service, reply, dub2, backlog, spc, comm, dub, kills>>

\* read; at the end of the stream dub2 stays as it was.
Read(c) ==
  /\ where[c] = "read"
  /\ reply[c] # 0 \/ spc = "down"
  /\ dub2' = [dub2 EXCEPT ![c] = IF reply[c] # 0 THEN reply[c] ELSE @]
  /\ where' = [where EXCEPT ![c] = "done"]
  /\ UNCHANGED <<service, stream, backlog, spc, comm, dub, kills>>

Kill(c) ==
  /\ where[c] \in {"write", "read"}
  /\ kills < MaxKills
  /\ where' = [where EXCEPT ![c] = "killed"]
  /\ kills' = kills + 1
  /\ UNCHANGED <<service, stream, dub2, backlog, spc, comm, dub>>
-----------------------------------------------------------------------------
Accept ==
  /\ spc = "accept" /\ backlog # <<>>
  /\ comm' = Head(backlog)
  /\ backlog' = Tail(backlog)
  /\ spc' = "read"
  /\ UNCHANGED <<service, client, stream, dub, kills>>

\* Mutant: the number is added to the one before.
ServerReadOn ==
  /\ spc = "read"
  /\ sent[comm] # 0 \/ Left(comm)
  /\ dub' = IF sent[comm] # 0 /\ dub = Garbage THEN sent[comm] ELSE dub
  /\ spc' = "write"
  /\ UNCHANGED <<service, client, stream, backlog, comm, kills>>

\* read; when the client has left without writing, dub is the old one.
ServerRead ==
  /\ spc = "read"
  /\ sent[comm] # 0 \/ Left(comm)
  /\ dub' = IF sent[comm] # 0 THEN sent[comm] ELSE dub
  /\ spc' = "write"
  /\ UNCHANGED <<service, client, stream, backlog, comm, kills>>

\* dub += dub, and write; SIGPIPE ends the server if the client has left.
ServerWrite ==
  /\ spc = "write"
  /\ dub' = Twice(dub)
  /\ IF Left(comm)
     THEN spc' = "down" /\ UNCHANGED reply
     ELSE spc' = "close" /\ reply' = [reply EXCEPT ![comm] = Twice(dub)]
  /\ UNCHANGED <<service, client, sent, backlog, comm, kills>>

ServerClose ==
  /\ spc = "close"
  /\ spc' = "accept"
  /\ UNCHANGED <<service, client, stream, backlog, comm, dub, kills>>
-----------------------------------------------------------------------------
ClientStep(c) == TimeConnect(c) \/ Connect(c) \/ Write(c) \/ Read(c)
ServerStep == Accept \/ ServerRead \/ ServerWrite \/ ServerClose

Next ==
  \/ \E c \in Client : ClientStep(c) \/ Kill(c)
  \/ ServerStep
-----------------------------------------------------------------------------
TypeOK ==
  /\ service \in {"double", "time"}
  /\ where \in [Client -> {"connect", "write", "read", "done", "refused", "killed"}]
  /\ sent \in [Client -> {0, Number}]
  /\ reply \in [Client -> 0..4 \cup {Garbage}]
  /\ dub2 \in [Client -> 1..4 \cup {Garbage}]
  /\ backlog \in Seq(Client)
  /\ spc \in {"accept", "read", "write", "close", "down"}
  /\ comm \in Client \cup {Garbage}
  /\ dub \in 0..4 \cup {Garbage}
  /\ kills \in 0..MaxKills

\* The clients that killed ones leave behind are told the double of their own
\* number or, once a killed client has ended the server, nothing at all.
Doubled ==
  /\ spc = "down" => kills > 0
  /\ \A c \in Client :
       where[c] = "done" => dub2[c] = Twice(Number) \/ (spc = "down" /\ dub2[c] = Garbage)

\* Every client comes to an end; clnt3 at once, since srvr3 has another port.
AllEnd == \A c \in Client : where[c] \in {"done", "refused", "killed"}
=============================================================================
