---------------------------- MODULE ProcTellers ----------------------------
(***************************************************************************)
(* proc_sem.c: the clients of several processes share the tellers, the     *)
(* mutex and the condition variable of one area, which its creator sets    *)
(* up while others may be at work already.  A process may be killed.       *)
(***************************************************************************)
EXTENDS Integers, FiniteSets

CONSTANTS Process, NoProcess, Client, Home, NumTellers, None

VARIABLES
  bankLine, semMutex, where, inaHurry, spurious,
  file, creator, step, todo, early,
  killed  \* history: clients that were killed

bank == <<bankLine, semMutex, where, inaHurry, spurious>>
area == <<file, creator, step, todo, early>>
vars == <<bank, area, killed>>

Bank == INSTANCE BankTellers WITH MaxSpurious <- 0
Area == INSTANCE SharedArea
          WITH Inverted <- FALSE, AllExtend <- FALSE, Stages <- 4

\* A new file is all zeroes: no teller, a free mutex.
Init ==
  /\ Bank!Init /\ Area!Init
  /\ file = "absent"
  /\ killed = {}

\* Mutant: the area is wiped after the semaphore has been set.
SetUpAndWipe(p) ==
  /\ Area!SetUp(p)
  /\ bankLine' = CASE todo[p] = 4 -> NumTellers [] todo[p] = 3 -> 0
                   [] OTHER -> bankLine
  /\ semMutex' = IF todo[p] \in {3, 2} THEN None ELSE semMutex
  /\ UNCHANGED <<where, inaHurry, spurious, killed>>

\* memset, sem_init, pthread_mutex_init, pthread_cond_init, in this order.
\* A client that sleeps on a condition variable wiped under it sleeps on.
SetUp(p) ==
  /\ Area!SetUp(p)
  /\ bankLine' = CASE todo[p] = 4 -> 0 [] todo[p] = 3 -> NumTellers
                   [] OTHER -> bankLine
  /\ semMutex' = IF todo[p] \in {4, 2} THEN None ELSE semMutex
  /\ UNCHANGED <<where, inaHurry, spurious, killed>>

\* ftruncate fills the file with zeroes.
Join(p) ==
  /\ \/ Area!Open(p) /\ bankLine' = IF file = "absent" THEN 0 ELSE bankLine
     \/ Area!Extend(p) /\ UNCHANGED bankLine
     \/ Area!Fault(p) /\ UNCHANGED bankLine
  /\ UNCHANGED <<semMutex, where, inaHurry, spurious, killed>>

Business(c) ==
  /\ Area!Ready(Home[c]) /\ file = "sized"
  /\ Bank!ClientStep(c)
  /\ UNCHANGED <<area, killed>>

\* A signal ends a process that has opened the file: perhaps its creator, before
\* the file has a size or is set up.  Nothing is handed back: a teller or the
\* mutex stays with the dead.
Kill(p) ==
  /\ step[p] \in {"extend", "mapped"} /\ killed = {}
  /\ Area!End(p)
  /\ killed' = {c \in Client : Home[c] = p /\ where[c] # "gone"}
  /\ UNCHANGED bank

Next ==
  \/ \E p \in Process : Join(p) \/ SetUp(p) \/ Kill(p)
  \/ \E c \in Client : Business(c)
-----------------------------------------------------------------------------
(* Once the creator is ready, and if nobody was at work before, each       *)
(* teller is free, with a client, or with one that was killed, which keeps *)
(* it for good; and only a death strands a sleeper.                        *)
Undisturbed ==
  ~early /\ Area!Complete =>
    /\ Bank!TellersKept
    /\ killed = {} => Bank!NobodyStranded
=============================================================================
