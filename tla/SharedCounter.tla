--------------------------- MODULE SharedCounter ---------------------------
(***************************************************************************)
(* mutex.c: two threads add to a counter, under a mutex if the user says   *)
(* "sync".  proc_mutex.c: any number of processes do so, always under a    *)
(* mutex, in a shared area.  B_TRUE is 0 there, so that those who join     *)
(* extend the file and initialise the mutex, and the creator never does.   *)
(***************************************************************************)
EXTENDS Integers

CONSTANTS
  Process, NoProcess,
  Rounds,  \* LOOP_MAX; a bound for the endless loop of proc_mutex.c
  None     \* the owner of a free mutex

VARIABLES
  threads,       \* the threads of mutex.c, not processes
  synchronized,
  count,         \* commonCounter, or count in the shared area
  mutex,         \* who locked the mutex last, if it is locked
  where,         \* where[p]: what p does in its loop
  temp,          \* temp[p]: the value p is going to store
  left,          \* left[p]: rounds p has still to do
  file, creator, step, todo, early,
  increments,    \* history: stores to count
  broken         \* history: the mutex was reset under its holder

area == <<file, creator, step, todo, early>>
vars == <<threads, synchronized, count, mutex, where, temp, left, area,
          increments, broken>>

Area == INSTANCE SharedArea
          WITH Inverted <- TRUE, AllExtend <- FALSE, Stages <- 1

Init ==
  /\ threads \in BOOLEAN
  /\ synchronized \in IF threads THEN BOOLEAN ELSE {TRUE}
  /\ IF threads
     THEN /\ file = "sized" /\ creator = NoProcess /\ early = FALSE
          /\ step = [p \in Process |-> "mapped"]
          /\ todo = [p \in Process |-> 0]
     ELSE Area!Init
  /\ count = 0 /\ increments = 0
  /\ mutex = None
  /\ where = [p \in Process |-> "outside"]
  /\ temp = [p \in Process |-> 0]
  /\ left = [p \in Process |-> Rounds]
  /\ broken = FALSE

At(p, place) == where' = [where EXCEPT ![p] = place]
Running(p) == Area!Ready(p) /\ file = "sized"

\* open, ftruncate, mmap; the first touch of a file that is still empty.
Join(p) ==
  /\ Area!Open(p) \/ Area!Extend(p) \/ Area!Fault(p)
  /\ UNCHANGED <<threads, synchronized, count, mutex, where, temp, left,
                 increments, broken>>

\* pthread_mutex_init, whoever may hold the mutex.
SetUp(p) ==
  /\ Area!SetUp(p)
  /\ mutex' = None
  /\ broken' = (broken \/ mutex # None)
  /\ UNCHANGED <<threads, synchronized, count, where, temp, left, increments>>

Lock(p) ==
  /\ Running(p) /\ where[p] = "outside" /\ left[p] > 0
  /\ IF synchronized THEN mutex = None /\ mutex' = p ELSE UNCHANGED mutex
  /\ At(p, "load")
  /\ UNCHANGED <<threads, synchronized, count, temp, left, area, increments,
                 broken>>

\* Mutant: the mutex is given back before the new value is stored.
LoadAndUnlock(p) ==
  /\ Running(p) /\ where[p] = "load"
  /\ temp' = [temp EXCEPT ![p] = count + 1]
  /\ mutex' = IF synchronized THEN None ELSE mutex
  /\ At(p, "store")
  /\ UNCHANGED <<threads, synchronized, count, left, area, increments, broken>>

Load(p) ==
  /\ Running(p) /\ where[p] = "load"
  /\ temp' = [temp EXCEPT ![p] = count + 1]
  /\ At(p, "store")
  /\ UNCHANGED <<threads, synchronized, count, mutex, left, area, increments,
                 broken>>

Store(p) ==
  /\ Running(p) /\ where[p] = "store"
  /\ count' = temp[p]
  /\ increments' = increments + 1
  /\ At(p, "unlock")
  /\ UNCHANGED <<threads, synchronized, mutex, temp, left, area, broken>>

\* pthread_mutex_unlock frees the mutex whoever holds it.
Unlock(p) ==
  /\ Running(p) /\ where[p] = "unlock"
  /\ IF synchronized
     THEN mutex' = None /\ broken' = (broken \/ mutex \notin {None, p})
     ELSE UNCHANGED <<mutex, broken>>
  /\ At(p, "outside")
  /\ left' = [left EXCEPT ![p] = @ - 1]
  /\ UNCHANGED <<threads, synchronized, count, temp, area, increments>>

\* ^C: before signal() the process just ends, afterwards cleanup unlocks the
\* mutex first, whoever holds it.
Interrupt(p) ==
  /\ ~threads
  /\ Area!End(p)
  /\ IF step[p] = "mapped" /\ file = "sized"
     THEN mutex' = None /\ broken' = (broken \/ mutex \notin {None, p})
     ELSE UNCHANGED <<mutex, broken>>
  /\ UNCHANGED <<threads, synchronized, count, where, temp, left, increments>>

\* The loop of mutex.c's threadMain, and of proc_mutex.c's main.
Loop(p) == Lock(p) \/ Load(p) \/ Store(p) \/ Unlock(p)

Next == \E p \in Process : Join(p) \/ SetUp(p) \/ Loop(p) \/ Interrupt(p)

Spec == Init /\ [][Next]_vars
-----------------------------------------------------------------------------
(* No increment is lost while the mutex is kept: it "coordinate[s] access  *)
(* by multiple processes to a shared resource" (proc_mutex.c:3) until a    *)
(* process joins, or is interrupted, while another one holds it.           *)
CountKept == synchronized /\ ~broken => count = increments

Done == \A p \in Process : left[p] = 0
=============================================================================
