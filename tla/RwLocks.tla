------------------------------ MODULE RwLocks ------------------------------
(***************************************************************************)
(* rw.c and proc_rw.c: readers and one writer, under a read-write lock or  *)
(* a mutex, as the user says.  In proc_rw.c the choice lies in a shared    *)
(* area: the creator of the area makes it, and each thread reads it before *)
(* it locks and again before it unlocks.                                   *)
(***************************************************************************)
EXTENDS Integers

CONSTANTS
  Process, NoProcess,
  Reader, Writer, Home,  \* the threads; Home[t]: the process of thread t
  Rounds,                \* LOOP_MAX
  None                   \* the owner of a free mutex

Thread == Reader \cup Writer

VARIABLES
  shared,     \* proc_rw.c, not rw.c
  userwlock,  \* which lock to use
  writer,     \* the writer that holds the read-write lock
  readers,    \* the readers that hold it
  mutex,      \* the thread that holds the mutex
  where,      \* where[t]: what t does in its loop
  left,       \* left[t]: rounds t has still to do
  file, creator, step, todo, early,
  crossed     \* history: a lock was released by one that did not hold it

locks == <<writer, readers, mutex>>
area == <<file, creator, step, todo, early>>
vars == <<shared, userwlock, locks, where, left, area, crossed>>

Area == INSTANCE SharedArea
          WITH Inverted <- FALSE, AllExtend <- TRUE, Stages <- 2

Init ==
  /\ shared \in BOOLEAN
  /\ IF shared
     THEN Area!Init /\ file = "absent" /\ userwlock = FALSE
     ELSE /\ file = "sized" /\ creator = NoProcess /\ early = FALSE
          /\ step = [p \in Process |-> "mapped"]
          /\ todo = [p \in Process |-> 0]
          /\ userwlock \in BOOLEAN
  /\ writer = None /\ readers = {} /\ mutex = None
  /\ where = [t \in Thread |-> "outside"]
  /\ left = [t \in Thread |-> Rounds]
  /\ crossed = FALSE

At(t, place) == where' = [where EXCEPT ![t] = place]

Join(p) ==
  /\ Area!Open(p) \/ Area!Extend(p)
  /\ UNCHANGED <<shared, userwlock, locks, where, left, crossed>>

\* argv[1] is "rw" or "mutex".
Choose(p) ==
  /\ todo[p] = 2 /\ Area!SetUp(p)
  /\ userwlock' \in BOOLEAN
  /\ UNCHANGED <<shared, locks, where, left, crossed>>

\* It is neither: the creator leaves an area with nothing set up.
Usage(p) ==
  /\ step[p] = "mapped" /\ todo[p] = 2 /\ Area!End(p)
  /\ UNCHANGED <<shared, userwlock, locks, where, left, crossed>>

InitLock(p) ==
  /\ todo[p] = 1 /\ Area!SetUp(p)
  /\ IF userwlock THEN writer' = None /\ readers' = {} /\ UNCHANGED mutex
                  ELSE mutex' = None /\ UNCHANGED <<writer, readers>>
  /\ UNCHANGED <<shared, userwlock, where, left, crossed>>

\* if (userwlock), before the call it decides on.
Read(t) ==
  /\ Area!Ready(Home[t])
  /\ where[t] = "outside" /\ left[t] > 0
  /\ At(t, IF userwlock THEN "want rw" ELSE "want mutex")
  /\ UNCHANGED <<shared, userwlock, locks, left, area, crossed>>

\* Mutant: a writer only waits for writers.
LockRwWeak(t) ==
  /\ where[t] = "want rw" /\ writer = None
  /\ IF t \in Writer THEN writer' = t /\ UNCHANGED readers
     ELSE readers' = readers \cup {t} /\ UNCHANGED writer
  /\ At(t, "hold rw")
  /\ UNCHANGED <<shared, userwlock, mutex, left, area, crossed>>

\* pthread_rwlock_wrlock and pthread_rwlock_rdlock.
LockRw(t) ==
  /\ where[t] = "want rw" /\ writer = None
  /\ \/ t \in Writer /\ readers = {} /\ writer' = t /\ UNCHANGED readers
     \/ t \in Reader /\ readers' = readers \cup {t} /\ UNCHANGED writer
  /\ At(t, "hold rw")
  /\ UNCHANGED <<shared, userwlock, mutex, left, area, crossed>>

LockMutex(t) ==
  /\ where[t] = "want mutex" /\ mutex = None
  /\ mutex' = t
  /\ At(t, "hold mutex")
  /\ UNCHANGED <<shared, userwlock, writer, readers, left, area, crossed>>

\* doRead or doWrite is over.  What pthread_rwlock_unlock does for one that
\* does not hold the lock is undefined: it may free it, or not.
Unlock(t) ==
  /\ where[t] \in {"hold rw", "hold mutex"}
  /\ IF userwlock
     THEN /\ UNCHANGED mutex
          /\ IF t = writer \/ t \in readers
             THEN /\ writer' = IF t = writer THEN None ELSE writer
                  /\ readers' = readers \ {t}
             ELSE /\ writer' \in {writer, None}
                  /\ readers' \in {readers, {}}
     ELSE mutex' = None /\ UNCHANGED <<writer, readers>>
  /\ crossed' = (crossed \/ userwlock # (where[t] = "hold rw"))
  /\ At(t, "outside")
  /\ left' = [left EXCEPT ![t] = @ - 1]
  /\ UNCHANGED <<shared, userwlock, area>>

\* writerMain and readerMain.
Loop(t) == Read(t) \/ LockRw(t) \/ LockMutex(t) \/ Unlock(t)

Next ==
  \/ \E p \in Process : Join(p) \/ Choose(p) \/ Usage(p) \/ InitLock(p)
  \/ \E t \in Thread : Loop(t)
-----------------------------------------------------------------------------
Holding(t) == where[t] \in {"hold rw", "hold mutex"}

(* A writer is alone, and each thread gives back the lock it took, unless  *)
(* a process was at work before the creator had made its choice.           *)
WriterAlone ==
  ~early => /\ ~crossed
            /\ \A w \in Writer, t \in Thread :
                 w # t /\ Holding(w) => ~Holding(t)

Done == \A t \in Thread : left[t] = 0
=============================================================================
