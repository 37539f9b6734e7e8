------------------------------ MODULE FifoLookup ------------------------------
(***************************************************************************)
(* Dictionary lookup over a named pipe, as far as it goes: the client of   *)
(* lookup_proj/lookup3.c (driven by fifo_client.c) and fifo_server.c.      *)
(*                                                                         *)
(* The program is not finished.  The client opens the server's pipe, but   *)
(* the name of its own, me.id, is empty: mkdtemp and mkfifo fail, lookup   *)
(* returns UNAVAIL and main DIEs.  Nothing is ever written, and the server *)
(* only sees writers come and go.  What is left is the rendezvous of two   *)
(* opens that each wait for the other side.                                *)
(***************************************************************************)
EXTENDS Integers

CONSTANTS
  Client,  \* processes running fifo_client
  MaxStops \* clients and servers that are killed in a run

VARIABLES
  pc,   \* pc[c]: the next step of client c; "wait" is inside its open
  spc,  \* the next step of the server; "wait" is inside its open
  stops \* clients and servers killed so far

vars == <<pc, spc, stops>>

Init ==
  /\ pc = [c \in Client |-> "start"]
  /\ spc = "open"
  /\ stops = 0

\* The pipe counts an end as open while its open still waits.
Writers == {c \in Client : pc[c] \in {"wait", "make"}}
HasReader == spc \in {"wait", "read", "close"}
-----------------------------------------------------------------------------
\* open(resource, O_WRONLY) waits for a reader, and lets one in that waits.
Open(c) ==
  /\ pc[c] = "start"
  /\ pc' = [pc EXCEPT ![c] = IF HasReader THEN "make" ELSE "wait"]
  /\ spc' = IF spc = "wait" THEN "read" ELSE spc
  /\ UNCHANGED stops

\* mkdtemp and mkfifo of an empty name: UNAVAIL, DIE.
Make(c) ==
  /\ pc[c] = "make"
  /\ pc' = [pc EXCEPT ![c] = "gone"]
  /\ UNCHANGED <<spc, stops>>

Kill(c) ==
  /\ pc[c] # "gone"
  /\ stops < MaxStops
  /\ pc' = [pc EXCEPT ![c] = "gone"]
  /\ stops' = stops + 1
  /\ UNCHANGED spc
-----------------------------------------------------------------------------
\* open(argv[2], O_RDONLY) waits for a writer, and lets all in that wait.
ServerOpen ==
  /\ spc = "open"
  /\ spc' = IF Writers = {} THEN "wait" ELSE "read"
  /\ pc' = [c \in Client |-> IF pc[c] = "wait" THEN "make" ELSE pc[c]]
  /\ UNCHANGED stops

\* read returns 0 when no writer is left ...
ServerRead ==
  /\ spc = "read"
  /\ Writers = {}
  /\ spc' = "close"
  /\ UNCHANGED <<pc, stops>>

\* ... and the pipe is closed and opened anew.
ServerClose ==
  /\ spc = "close"
  /\ spc' = "open"
  /\ UNCHANGED <<pc, stops>>

Stop ==
  /\ spc # "down"
  /\ stops < MaxStops
  /\ spc' = "down"
  /\ stops' = stops + 1
  /\ UNCHANGED pc

\* A new server; the pipe is still there.
Restart ==
  /\ spc = "down"
  /\ spc' = "open"
  /\ UNCHANGED <<pc, stops>>
-----------------------------------------------------------------------------
ClientStep(c) == Open(c) \/ Make(c)
ServerStep == ServerOpen \/ ServerRead \/ ServerClose

Next ==
  \/ \E c \in Client : ClientStep(c) \/ Kill(c)
  \/ ServerStep
  \/ Stop
  \/ Restart
-----------------------------------------------------------------------------
TypeOK ==
  /\ pc \in [Client -> {"start", "wait", "make", "gone"}]
  /\ spc \in {"open", "wait", "read", "close", "down"}
  /\ stops \in 0..MaxStops

\* Client and server never wait for each other's open at the same time.
NoneWaitsForTheOther == spc = "wait" => Writers = {}

\* Every client comes back, and a server that is up is ready for the next.
AllBack ==
  \/ spc = "down"
  \/ spc = "wait" /\ \A c \in Client : pc[c] = "gone"
=============================================================================
