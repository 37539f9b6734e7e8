----------------------------- MODULE CondStack -----------------------------
(***************************************************************************)
(* The bounded stack of examples/mod11-synchronization: threads that push  *)
(* and threads that pop under one mutex, all sleeping on one condition     *)
(* variable.  threadonly/stack.c is one pusher and one popper; each        *)
(* process of procnthread/proc_stack.c adds one of either, on a stack,     *)
(* mutex and condition variable they share.                                *)
(*                                                                         *)
(* What is on the stack is left out: all that threads wait for is index.   *)
(***************************************************************************)
EXTENDS Integers, FiniteSets

CONSTANTS
  Pusher, Popper, \* the threads
  StackSize,      \* STACK_SIZE
  MaxCount,       \* characters each thread pushes or pops (MAX_COUNT)
  MaxSpurious,    \* wakeups without a signal that the run allows
  None            \* the owner of a free mutex

Thread == Pusher \cup Popper

ASSUME StackAssumption ==
  /\ IsFiniteSet(Pusher) /\ IsFiniteSet(Popper) /\ Pusher \cap Popper = {}
  /\ StackSize \in Nat \ {0} /\ MaxCount \in Nat /\ MaxSpurious \in Nat
  /\ None \notin Thread

VARIABLES
  index,    \* characters on the stack
  mutex,    \* the thread that holds the mutex
  where,    \* where[t]: what thread t is doing
  left,     \* left[t]: calls of push or pop t has still to finish
  spurious  \* wakeups without a signal so far

vars == <<index, mutex, where, left, spurious>>

Init ==
  /\ index = 0
  /\ mutex = None
  /\ where = [t \in Thread |-> "outside"]
  /\ left = [t \in Thread |-> MaxCount]
  /\ spurious = 0

Asleep == {t \in Thread : where[t] = "asleep"}

\* The condition of the while loop that t is in.
MustWait(t) == IF t \in Pusher THEN index = StackSize ELSE index = 0

\* pthread_mutex_lock, on entry or on the way out of pthread_cond_wait.
Lock(t) ==
  /\ mutex = None
  /\ \/ where[t] = "outside" /\ left[t] > 0
     \/ where[t] = "woken"
  /\ mutex' = t
  /\ where' = [where EXCEPT ![t] = "inside"]
  /\ UNCHANGED <<index, left, spurious>>

\* pthread_cond_wait: the mutex is given up as the thread falls asleep.
Sleep(t) ==
  /\ where[t] = "inside"
  /\ MustWait(t)
  /\ mutex' = None
  /\ where' = [where EXCEPT ![t] = "asleep"]
  /\ UNCHANGED <<index, left, spurious>>

\* Mutant: no signal is sent.
SignalNobody(t) == where' = [where EXCEPT ![t] = "leaving"]

\* pthread_cond_signal resumes one sleeper, any one, if there is one.
Signal(t) ==
  IF Asleep = {}
  THEN where' = [where EXCEPT ![t] = "leaving"]
  ELSE \E w \in Asleep :
         where' = [where EXCEPT ![t] = "leaving", ![w] = "woken"]

\* Mutant: the condition is tested by an if, not again after a wakeup.
ChangeUntested(t) ==
  /\ where[t] = "inside"
  /\ index' = IF t \in Pusher THEN index + 1 ELSE index - 1
  /\ Signal(t)
  /\ UNCHANGED <<mutex, left, spurious>>

\* The loop is left, the stack changes and one sleeper is told.
Change(t) ==
  /\ where[t] = "inside"
  /\ ~MustWait(t)
  /\ index' = IF t \in Pusher THEN index + 1 ELSE index - 1
  /\ Signal(t)
  /\ UNCHANGED <<mutex, left, spurious>>

Unlock(t) ==
  /\ where[t] = "leaving"
  /\ mutex' = None
  /\ where' = [where EXCEPT ![t] = "outside"]
  /\ left' = [left EXCEPT ![t] = @ - 1]
  /\ UNCHANGED <<index, spurious>>

\* POSIX lets pthread_cond_wait return without a signal.
WakeUnasked(t) ==
  /\ where[t] = "asleep"
  /\ spurious < MaxSpurious
  /\ where' = [where EXCEPT ![t] = "woken"]
  /\ spurious' = spurious + 1
  /\ UNCHANGED <<index, mutex, left>>

Step(t) == Lock(t) \/ Sleep(t) \/ Change(t) \/ Unlock(t)

Next == \E t \in Thread : Step(t) \/ WakeUnasked(t)

Spec == Init /\ [][Next]_vars
-----------------------------------------------------------------------------
TypeOK ==
  /\ index \in 0..StackSize
  /\ mutex \in Thread \cup {None}
  /\ where \in [Thread -> {"outside", "inside", "asleep", "woken", "leaving"}]
  /\ left \in [Thread -> 0..MaxCount]
  /\ spurious \in 0..MaxSpurious

Finished(t) == where[t] = "outside" /\ left[t] = 0
Few == Cardinality(Pusher) + Cardinality(Popper) <= StackSize + 1

(* "Notify waiting threads (poppers in this case)", "(pushers in this      *)
(* case)" (stack.c:54, 90): pushers and poppers share one condition        *)
(* variable, so a signal reaches the right side only while the two sides   *)
(* never sleep together.  With at most StackSize + 1 threads they do not.  *)
OneSideSleeps == Few => ~(Pusher \cap Asleep # {} /\ Popper \cap Asleep # {})
=============================================================================
