----------------------------- MODULE SharedState -----------------------------
(***************************************************************************)
(* mod07-threads/exercise03.c, exercise04.c and exercise05.c: one thread   *)
(* for each core counts in a variable they share, with no lock, under a    *)
(* mutex and under a spin lock.                                            *)
(*                                                                         *)
(* Without a lock state++ is a load and a store, and the build may keep    *)
(* the count in a register for any number of rounds.  A thread that main   *)
(* has not created yet is one that has not moved.                          *)
(***************************************************************************)
EXTENDS Integers, FiniteSets

CONSTANTS Thread, Rounds, None

VARIABLES
  exercise, \* 3, 4 or 5
  state,    \* the count
  holder,   \* the thread that has the lock
  where,    \* where[t]: the next step of thread t
  held,     \* held[t]: the count in t's register
  left      \* left[t]: rounds t has still to do

vars == <<exercise, state, holder, where, held, left>>

Locked == exercise \in {4, 5}

Init ==
  /\ exercise \in 3..5
  /\ state = 0
  /\ holder = None
  /\ where = [t \in Thread |-> "lock"]
  /\ held = [t \in Thread |-> 0]
  /\ left = [t \in Thread |-> Rounds]

\* pthread_mutex_lock, pthread_spin_lock; exercise03 goes on at once.
Lock(t) ==
  /\ where[t] = "lock"
  /\ Locked => holder = None
  /\ holder' = IF Locked THEN t ELSE holder
  /\ where' = [where EXCEPT ![t] = "load"]
  /\ UNCHANGED <<exercise, state, held, left>>

Load(t) ==
  /\ where[t] = "load" /\ left[t] > 0
  /\ held' = [held EXCEPT ![t] = state]
  /\ where' = [where EXCEPT ![t] = "store"]
  /\ UNCHANGED <<exercise, state, holder, left>>

Store(t) ==
  /\ where[t] = "store"
  /\ \E n \in 1..left[t] :
       /\ state' = held[t] + n
       /\ left' = [left EXCEPT ![t] = @ - n]
  /\ where' = [where EXCEPT ![t] = "load"]
  /\ UNCHANGED <<exercise, holder, held>>

\* The end of the loop, and of the thread.
Unlock(t) ==
  /\ where[t] = "load" /\ left[t] = 0
  /\ holder' = IF Locked THEN None ELSE holder
  /\ where' = [where EXCEPT ![t] = "done"]
  /\ UNCHANGED <<exercise, state, held, left>>

Step(t) == Lock(t) \/ Load(t) \/ Store(t) \/ Unlock(t)
Next == \E t \in Thread : Step(t)
-----------------------------------------------------------------------------
Done == \A t \in Thread : where[t] = "done"

(* Under a lock no round is lost.  Without one all but two may be, and not *)
(* those: the last store is of a second round, or comes after one.         *)
StateKept ==
  Done =>
    /\ state <= Cardinality(Thread) * Rounds
    /\ state >= IF exercise # 3 \/ Cardinality(Thread) = 1
                THEN Cardinality(Thread) * Rounds
                ELSE IF Rounds < 2 THEN Rounds ELSE 2
=============================================================================
