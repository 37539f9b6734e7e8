----------------------------- MODULE ShmLookup -----------------------------
(***************************************************************************)
(* Dictionary lookup through one record of shared memory and two System V  *)
(* semaphores: the client of lookup_proj/lookup6.c (driven by main.c) and  *)
(* the server of lookup_proj/shm_server.c.                                 *)
(*                                                                         *)
(* Semaphore 0 lets one client at a time into the exchange.  Semaphore 1   *)
(* carries it: the client raises it by 2, the server takes 1 before and 1  *)
(* after its search, and the client waits for 0.  All operations but the   *)
(* last are made with SEM_UNDO, so the kernel keeps an adjustment for each *)
(* process and applies it when the process ends; those rules are modelled  *)
(* too, because the exchange depends on them.                              *)
(***************************************************************************)
EXTENDS Integers, FiniteSets

CONSTANTS
  Client,       \* processes running shm_client
  Server,       \* the process running shm_server
  Word,         \* words that users type
  Known,        \* those with a record in the dictionary
  Absent,       \* the text "XXXX"
  Blank,        \* the contents of a fresh segment
  MaxCalls,     \* words a user types before end of input
  SemAem,       \* the kernel's bound on an adjustment (SEMAEM)
  SemVmx,       \* the kernel's bound on a semaphore value (SEMVMX)
  LaterHandles, \* what the uninitialised shm and semid of a second call hold
  Events        \* what may happen to processes: see EventKind

EventKind == {"leave", "kill", "stop", "restart"}

ASSUME ShmAssumption ==
  /\ Server \notin Client
  /\ Known \subseteq Word
  /\ Absent \notin Word /\ Blank \notin Word /\ Absent # Blank
  /\ MaxCalls \in Nat /\ SemAem \in Nat /\ SemVmx \in Nat
  /\ SemAem >= 1 /\ SemVmx >= 2
  /\ LaterHandles \subseteq SUBSET {"sem", "shm"}
  /\ Events \subseteq EventKind

VARIABLES
  semval,   \* semval[n]: the value of semaphore n
  semadj,   \* semadj[p][n]: the kernel's adjustment of n when p ends
  shm,      \* the shared Dictrec
  pc,       \* pc[c]: the next statement of client c's lookup
  handles,  \* handles[c]: which of semid and shm are good in this call
  calls,    \* calls[c]: calls of lookup that c has begun
  sought,   \* sought[c]: the word of c's current call
  result,   \* result[c]: what c's last finished call returned
  spc,      \* the next statement of the server
  hit,      \* what the server's search found
  clean,    \* history: nothing has disturbed the exchange in progress
  torn      \* history: the mutex was reset under a client that held it

client == <<pc, handles, calls, sought, result>>
server == <<spc, hit>>
sems == <<semval, semadj>>
ghost == <<clean, torn>>
vars == <<semval, semadj, shm, pc, handles, calls, sought, result, spc, hit,
          clean, torn>>

Sem == {0, 1}
Proc == Client \cup {Server}
NoAdj == [n \in Sem |-> 0]
AnswerTo(w) == IF w \in Known THEN w ELSE Absent
-----------------------------------------------------------------------------
(* The kernel's semop on one semaphore, in the order of its tests: block,  *)
(* fail with ERANGE, or perform.                                           *)

Ready(n, op) == IF op = 0 THEN semval[n] = 0 ELSE semval[n] + op >= 0

InRange(p, n, op) ==
  /\ semval[n] + op <= SemVmx
  /\ semadj[p][n] - op \in (-SemAem - 1)..SemAem

Perform(p, n, op) ==
  /\ semval' = [semval EXCEPT ![n] = @ + op]
  /\ semadj' = [semadj EXCEPT ![p][n] = @ - op]

Clamp(v) == IF v < 0 THEN 0 ELSE IF v > SemVmx THEN SemVmx ELSE v

\* Mutant: the adjustments are applied unbounded.
ApplyUndoRaw(p) ==
  /\ semval' = [n \in Sem |-> semval[n] + semadj[p][n]]
  /\ semadj' = [semadj EXCEPT ![p] = NoAdj]

\* The end of a process: each adjustment is applied once and dropped.
ApplyUndo(p) ==
  /\ semval' = [n \in Sem |-> Clamp(semval[n] + semadj[p][n])]
  /\ semadj' = [semadj EXCEPT ![p] = NoAdj]
-----------------------------------------------------------------------------
Protected(c) == "sem" \in handles[c]
InSection == {"write", "alert", "await", "release"}
Inside(c) == pc[c] \in InSection /\ Protected(c)
Holders == {c \in Client : Inside(c)}

Init ==
  /\ semval = [n \in Sem |-> IF n = 0 THEN 1 ELSE 0]
  /\ semadj = [p \in Proc |-> NoAdj]
  /\ shm = [word |-> Blank, text |-> Blank]
  /\ pc = [c \in Client |-> "idle"]
  /\ handles = [c \in Client |-> {}]
  /\ calls = [c \in Client |-> 0]
  /\ sought = [c \in Client |-> Blank]
  /\ result = [c \in Client |-> Blank]
  /\ spc = "wait"
  /\ hit = Absent
  /\ clean = TRUE
  /\ torn = FALSE

\* main reads a word and calls lookup.  The first call attaches; a later one
\* finds in its uninitialised locals whatever the build left there.
Call(c, w, h) ==
  /\ pc[c] = "idle"
  /\ calls[c] < MaxCalls
  /\ h \in (IF calls[c] = 0 THEN {{"sem", "shm"}} ELSE LaterHandles)
  /\ pc' = [pc EXCEPT ![c] = "grab"]
  /\ handles' = [handles EXCEPT ![c] = h]
  /\ calls' = [calls EXCEPT ![c] = @ + 1]
  /\ sought' = [sought EXCEPT ![c] = w]
  /\ UNCHANGED <<sems, shm, result, server, ghost>>

\* A semop of client c.  Its return value is never looked at, so one that
\* fails, on a bad semid or with ERANGE, only lets the client go on.
SemStep(c, from, to, n, op) ==
  /\ pc[c] = from
  /\ pc' = [pc EXCEPT ![c] = to]
  /\ \/ /\ Protected(c)
        /\ Ready(n, op)
        /\ InRange(c, n, op)
        /\ Perform(c, n, op)
        /\ UNCHANGED clean
     \/ /\ Protected(c)
        /\ Ready(n, op)
        /\ ~InRange(c, n, op)
        /\ clean' = FALSE
        /\ UNCHANGED sems
     \/ /\ ~Protected(c)
        /\ UNCHANGED <<sems, clean>>
  /\ UNCHANGED <<shm, handles, calls, sought, result, server, torn>>

\* Mutants: the grab without SEM_UNDO, the alert on semaphore 0, the alert
\* by 1, and a release that gives nothing back.
GrabNoUndo(c) ==
  /\ pc[c] = "grab"
  /\ Protected(c) => Ready(0, -1)
  /\ pc' = [pc EXCEPT ![c] = "write"]
  /\ semval' = IF Protected(c) THEN [semval EXCEPT ![0] = @ - 1] ELSE semval
  /\ UNCHANGED <<semadj, shm, handles, calls, sought, result, server, ghost>>

AlertWrongSem(c) == SemStep(c, "alert", "await", 0, 2)
AlertByOne(c) == SemStep(c, "alert", "await", 1, 1)
ReleaseNothing(c) == SemStep(c, "release", "compare", 0, 0)

Grab(c) == SemStep(c, "grab", "write", 0, -1)
Alert(c) == SemStep(c, "alert", "await", 1, 2)
Release(c) == SemStep(c, "release", "compare", 0, 1)

\* Mutant: the client does not wait.
AwaitNothing(c) ==
  /\ pc[c] = "await"
  /\ pc' = [pc EXCEPT ![c] = "release"]
  /\ UNCHANGED <<sems, shm, handles, calls, sought, result, server, ghost>>

\* Wait for zero, the one operation without SEM_UNDO.
Await(c) ==
  /\ pc[c] = "await"
  /\ Protected(c) => Ready(1, 0)
  /\ pc' = [pc EXCEPT ![c] = "release"]
  /\ UNCHANGED <<sems, shm, handles, calls, sought, result, server, ghost>>

\* A word written from outside the section spoils the request of a client
\* inside that has written its own.
Spoils(c) ==
  /\ ~Protected(c)
  /\ \E d \in Holders : pc[d] \in {"alert", "await"}

\* strcpy of the word.  Through a wild pointer it reaches no other process
\* (if it does not end this one, see Kill).
WriteWord(c) ==
  /\ pc[c] = "write"
  /\ pc' = [pc EXCEPT ![c] = "alert"]
  /\ IF "shm" \in handles[c]
     THEN /\ shm' = [shm EXCEPT !.word = sought[c]]
          /\ clean' = (clean /\ ~Spoils(c))
     ELSE UNCHANGED <<shm, clean>>
  /\ UNCHANGED <<sems, handles, calls, sought, result, server, torn>>

\* The answer is read after the release: once to tell "XXXX" ...
Compare(c) ==
  /\ pc[c] = "compare"
  /\ IF "shm" \in handles[c] /\ shm.text = Absent
     THEN /\ pc' = [pc EXCEPT ![c] = "idle"]
          /\ result' = [result EXCEPT ![c] = Absent]
     ELSE /\ pc' = [pc EXCEPT ![c] = "copy"]
          /\ UNCHANGED result
  /\ UNCHANGED <<sems, shm, handles, calls, sought, server, ghost>>

\* ... and once to copy it.  A wild pointer yields some garbage.
Copy(c) ==
  /\ pc[c] = "copy"
  /\ pc' = [pc EXCEPT ![c] = "idle"]
  /\ result' = [result EXCEPT ![c] =
                  IF "shm" \in handles[c] THEN shm.text ELSE Blank]
  /\ UNCHANGED <<sems, shm, handles, calls, sought, server, ghost>>
-----------------------------------------------------------------------------
\* The end of a server, by DIE or by a signal: the kernel adds back all it
\* ever took from semaphore 1.
ServerEnds ==
  /\ ApplyUndo(Server)
  /\ spc' = "dead"
  /\ clean' = FALSE
  /\ UNCHANGED <<shm, client, hit, torn>>

\* semop(wait): before the search and after it.
ServerSemop(from, to) ==
  /\ spc = from
  /\ Ready(1, -1)
  /\ \/ /\ InRange(Server, 1, -1)
        /\ Perform(Server, 1, -1)
        /\ spc' = to
        /\ UNCHANGED <<shm, client, hit, ghost>>
     \/ /\ ~InRange(Server, 1, -1)
        /\ ServerEnds

ServerWait == ServerSemop("wait", "search")
ServerNotify == ServerSemop("notify", "wait")

\* lookup finds the record of the word in shared memory ...
ServerSearch ==
  /\ spc = "search"
  /\ spc' = "answer"
  /\ hit' = AnswerTo(shm.word)
  /\ UNCHANGED <<sems, shm, client, ghost>>

\* ... and its text, or "XXXX", goes into shared memory.
ServerAnswer ==
  /\ spc = "answer"
  /\ spc' = "notify"
  /\ shm' = [shm EXCEPT !.text = hit]
  /\ UNCHANGED <<sems, client, hit, ghost>>
-----------------------------------------------------------------------------
\* The undo of client c changes semaphore 1 in the middle of an exchange,
\* unless it takes back c's own request before the server has seen it.
Disturbs(c) ==
  /\ semval[1] > 0
  /\ semadj[c][1] < 0
  /\ ~(c \in Holders /\ spc = "wait")

ClientEnds(c) ==
  /\ ApplyUndo(c)
  /\ pc' = [pc EXCEPT ![c] = "gone"]
  /\ clean' = (clean /\ ~Disturbs(c))
  /\ UNCHANGED <<shm, handles, calls, sought, result, server, torn>>

\* main leaves its loop at end of input.
Leave(c) ==
  /\ "leave" \in Events
  /\ pc[c] = "idle"
  /\ ClientEnds(c)

\* A signal ends the client anywhere, or a wild pointer does at its strcpy.
Kill(c) ==
  /\ \/ "kill" \in Events /\ pc[c] # "gone"
     \/ pc[c] \in {"write", "compare", "copy"} /\ "shm" \notin handles[c]
  /\ ClientEnds(c)

\* A signal ends the server anywhere; so does DIE, when the dictionary
\* cannot be opened.
Stop ==
  /\ "stop" \in Events
  /\ spc # "dead"
  /\ ServerEnds

\* A new server finds the segment and the semaphores of the last one and
\* sets both values.  SETALL also drops every adjustment of every process.
Restart ==
  /\ "restart" \in Events
  /\ spc = "dead"
  /\ semval' = [n \in Sem |-> IF n = 0 THEN 1 ELSE 0]
  /\ semadj' = [p \in Proc |-> NoAdj]
  /\ spc' = "wait"
  /\ torn' = (Holders # {})
  /\ clean' = (Holders = {})
  /\ UNCHANGED <<shm, client, hit>>
-----------------------------------------------------------------------------
ClientStep(c) ==
  \/ Grab(c) \/ WriteWord(c) \/ Alert(c) \/ Await(c) \/ Release(c)
  \/ Compare(c) \/ Copy(c)

ServerStep == ServerWait \/ ServerSearch \/ ServerAnswer \/ ServerNotify

Next ==
  \/ \E c \in Client :
       \/ \E w \in Word, h \in SUBSET {"sem", "shm"} : Call(c, w, h)
       \/ ClientStep(c)
       \/ Leave(c)
       \/ Kill(c)
  \/ ServerStep
  \/ Stop
  \/ Restart

Spec == Init /\ [][Next]_vars

\* The system schedules every process that can run.
FairSpec ==
  Spec /\ WF_vars(ServerStep) /\ \A c \in Client : WF_vars(ClientStep(c))
-----------------------------------------------------------------------------
TypeOK ==
  /\ semval \in [Sem -> 0..SemVmx]
  /\ semadj \in [Proc -> [Sem -> (-SemAem - 1)..SemAem]]
  /\ shm \in [word : Word \cup {Blank}, text : Known \cup {Absent, Blank}]
  /\ pc \in [Client -> {"idle", "grab", "write", "alert", "await", "release",
                       "compare", "copy", "gone"}]
  /\ handles \in [Client -> SUBSET {"sem", "shm"}]
  /\ calls \in [Client -> Nat]
  /\ sought \in [Client -> Word \cup {Blank}]
  /\ result \in [Client -> Known \cup {Absent, Blank}]
  /\ spc \in {"wait", "search", "answer", "notify", "dead"}
  /\ hit \in Known \cup {Absent}
  /\ clean \in BOOLEAN /\ torn \in BOOLEAN

(* Semaphore 0 "excludes other clients while we talk to server"            *)
(* (lookup6.c:6): two clients with a good semid are never both between     *)
(* their grab and their release, whichever of them are killed on the way;  *)
(* only a server restarted under a holder can break it.                    *)
MutualExclusion == ~torn => \A c, d \in Holders : c = d

(* SEM_UNDO hands the mutex back for a client that dies inside: when no    *)
(* client is inside, the next grab (lookup6.c:54) succeeds at once.        *)
MutexReturned == ~torn /\ Holders = {} => semval[0] = 1

(* When await (lookup6.c:61) has returned to a client with good handles,   *)
(* the shared record holds the answer to that client's word.  What can     *)
(* spoil it is what clears the history variable: a semop that fails with   *)
(* ERANGE, an undo in the middle of an exchange, a word written without    *)
(* the mutex, the end of the server.                                       *)
AnswerInTime ==
  clean =>
    \A c \in Holders :
      pc[c] = "release" /\ "shm" \in handles[c] =>
        shm.text = AnswerTo(sought[c])

(* While the server searches for and copies a record (shm_server.c:93),    *)
(* the word it was asked for stays in the shared record.                   *)
StableRequest ==
  [][clean /\ clean' /\ spc \in {"search", "answer"}
       => shm.word' = shm.word]_vars

(* Where each client's call stands for LookupService: it is served from    *)
(* the moment the server has written the text until the client releases.   *)
Served(c) ==
  \/ pc[c] = "release"
  \/ pc[c] = "await" /\ (semval[1] = 0 \/ spc = "notify")

CallBar ==
  [c \in Client |->
     IF pc[c] \in {"idle", "compare", "copy", "gone"}
     THEN [state |-> "idle"]
     ELSE IF Served(c)
     THEN [state |-> "answered", word |-> sought[c], text |-> shm.text]
     ELSE [state |-> "asked", word |-> sought[c]]]

Service ==
  INSTANCE LookupService
  WITH Answer <- AnswerTo, MayFail <- FALSE, call <- CallBar

(* Left alone, with handles that survive from call to call, the exchange   *)
(* is a dictionary service up to the release: each call is answered with   *)
(* the definition of its own word, and each client takes its answer.       *)
Implements == Service!FairSpec

(* What a user is told is the dictionary's answer to the word typed        *)
(* (lookup_proj/READ_ME: "the user types in a word and gets, in reply, a   *)
(* dictionary definition").                                                *)
ResultIsAnswer ==
  \A c \in Client :
    pc[c] = "idle" /\ calls[c] > 0 => result[c] = AnswerTo(sought[c])

(* lookup6.c:60, "Wait for server to finish": a client comes back from its *)
(* wait only once the server has answered it.                              *)
AwaitsServer ==
  \A c \in Holders :
    pc[c] = "release" => shm.text = AnswerTo(sought[c])
=============================================================================
