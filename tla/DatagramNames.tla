---------------------------- MODULE DatagramNames ----------------------------
(***************************************************************************)
(* Datagram sockets in the file system: mod12-sockets/srvr2.c and clnt2.c. *)
(* All clients bind their socket to the same name, /tmp/socket2clnt, each  *)
(* unlinking it before and after, and the server replies to that name: to  *)
(* whichever socket is bound to it by then.  A reply that cannot be sent   *)
(* ends the server.                                                        *)
(***************************************************************************)
EXTENDS Integers, Sequences

CONSTANTS
  Client,  \* processes that run clnt2
  None,    \* the name is not there
  MaxKills \* clients that are killed

VARIABLES
  name,   \* the client whose socket is bound to the clients' name
  where,  \* where[c]: the next step of client c
  inbox,  \* inbox[c]: whose requests the replies at c's socket answer
  answer, \* answer[c]: whose request the reply that c took answers
  spc,    \* the next step of the server
  queue,  \* the requests at the server's socket, by client
  peer,   \* the client whose request the server works on
  kills,  \* clients killed so far
  apart   \* history: no client began while another was at work

client == <<where, inbox, answer>>
server == <<spc, queue, peer>>
vars == <<name, where, inbox, answer, spc, queue, peer, kills, apart>>

Over == {"done", "failed"}
Open == {"bind", "send", "receive", "close"}

Init ==
  /\ name = None
  /\ where = [c \in Client |-> "new"]
  /\ inbox = [c \in Client |-> <<>>]
  /\ answer = [c \in Client |-> None]
  /\ spc = "receive" /\ queue = <<>> /\ peer = None
  /\ kills = 0 /\ apart = TRUE

\* socket, and unlink of the name, whoever has it.
Begin(c) ==
  /\ where[c] = "new"
  /\ where' = [where EXCEPT ![c] = "bind"]
  /\ name' = None
  /\ apart' = (apart /\ \A d \in Client : where[d] \in Over \cup {"new"})
  /\ UNCHANGED <<inbox, answer, server, kills>>

\* bind fails if another client has bound the name since.
Bind(c) ==
  /\ where[c] = "bind"
  /\ IF name = None
     THEN name' = c /\ where' = [where EXCEPT ![c] = "send"]
     ELSE UNCHANGED name /\ where' = [where EXCEPT ![c] = "failed"]
  /\ UNCHANGED <<inbox, answer, server, kills, apart>>

\* Mutant: the name is unlinked as soon as the request is sent.
SendUnlinked(c) ==
  /\ where[c] = "send"
  /\ IF spc = "down"
     THEN where' = [where EXCEPT ![c] = "failed"] /\ UNCHANGED queue
     ELSE where' = [where EXCEPT ![c] = "receive"] /\ queue' = Append(queue, c)
  /\ name' = None
  /\ UNCHANGED <<inbox, answer, spc, peer, kills, apart>>

\* sendto fails without a server, and the client exits; its name stays.
Send(c) ==
  /\ where[c] = "send"
  /\ IF spc = "down"
     THEN where' = [where EXCEPT ![c] = "failed"] /\ UNCHANGED queue
     ELSE where' = [where EXCEPT ![c] = "receive"] /\ queue' = Append(queue, c)
  /\ UNCHANGED <<name, inbox, answer, spc, peer, kills, apart>>

Receive(c) ==
  /\ where[c] = "receive" /\ inbox[c] # <<>>
  /\ answer' = [answer EXCEPT ![c] = Head(inbox[c])]
  /\ inbox' = [inbox EXCEPT ![c] = Tail(@)]
  /\ where' = [where EXCEPT ![c] = "close"]
  /\ UNCHANGED <<name, server, kills, apart>>

Close(c) ==
  /\ where[c] = "close"
  /\ where' = [where EXCEPT ![c] = "unlink"]
  /\ UNCHANGED <<name, inbox, answer, server, kills, apart>>

\* unlink of the name, whoever has it.
Unlink(c) ==
  /\ where[c] = "unlink"
  /\ where' = [where EXCEPT ![c] = "done"]
  /\ name' = None
  /\ UNCHANGED <<inbox, answer, server, kills, apart>>

\* The client's socket is closed, its name left.
Kill(c) ==
  /\ where[c] \in Open \cup {"unlink"}
  /\ kills < MaxKills
  /\ where' = [where EXCEPT ![c] = "failed"]
  /\ kills' = kills + 1
  /\ UNCHANGED <<name, inbox, answer, server, apart>>
-----------------------------------------------------------------------------
ServerReceive ==
  /\ spc = "receive" /\ queue # <<>>
  /\ peer' = Head(queue)
  /\ queue' = Tail(queue)
  /\ spc' = "send"
  /\ UNCHANGED <<name, client, kills, apart>>

\* sendto the name the request came from.  Without a name, or with that of a
\* socket that has been closed, it fails and the server exits.
ServerSend ==
  /\ spc = "send"
  /\ IF name # None /\ where[name] \in Open
     THEN /\ inbox' = [inbox EXCEPT ![name] = Append(@, peer)]
          /\ spc' = "receive"
     ELSE spc' = "down" /\ UNCHANGED inbox
  /\ UNCHANGED <<name, where, answer, queue, peer, kills, apart>>

\* A new server unlinks and binds its own name: the old queue is gone.
Restart ==
  /\ spc = "down"
  /\ spc' = "receive"
  /\ queue' = <<>>
  /\ UNCHANGED <<name, client, peer, kills, apart>>
-----------------------------------------------------------------------------
ClientStep(c) ==
  Begin(c) \/ Bind(c) \/ Send(c) \/ Receive(c) \/ Close(c) \/ Unlink(c)

ServerStep == ServerReceive \/ ServerSend

Next ==
  \/ \E c \in Client : ClientStep(c) \/ Kill(c)
  \/ ServerStep
  \/ Restart
-----------------------------------------------------------------------------
TypeOK ==
  /\ name \in Client \cup {None}
  /\ where \in [Client -> Open \cup Over \cup {"new", "unlink"}]
  /\ inbox \in [Client -> Seq(Client)]
  /\ answer \in [Client -> Client \cup {None}]
  /\ spc \in {"receive", "send", "down"}
  /\ queue \in Seq(Client) /\ peer \in Client \cup {None}
  /\ kills \in 0..MaxKills /\ apart \in BOOLEAN

\* One client at a time, none of them killed, is told the answer to its own
\* request by a server that stays.
ServedApart ==
  apart /\ kills = 0 =>
    /\ spc # "down"
    /\ \A c \in Client : where[c] = "done" => answer[c] = c

\* Whatever the clients do to each other, no reply is made up: whoever takes
\* one holds that of a client that asked, and no two hold the same.
RepliesOnce ==
  \A c, d \in Client :
    answer[c] # None =>
      /\ where[answer[c]] \notin {"new", "bind", "send"}
      /\ c # d => answer[c] # answer[d]
=============================================================================
