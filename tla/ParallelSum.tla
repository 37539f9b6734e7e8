----------------------------- MODULE ParallelSum -----------------------------
(***************************************************************************)
(* mod07-threads/parallel.c: an array is added up by one thread for each   *)
(* core, each with a slice of it.  The threads choose their cores with a   *)
(* counter that they share without a lock.                                 *)
(*                                                                         *)
(* A sum is kept as the elements that it counts.                           *)
(***************************************************************************)
EXTENDS Integers, Sequences

CONSTANTS
  N,       \* elements of the array
  MaxCores \* most cores of a machine

VARIABLES
  cores,   \* number_of_cores
  tasks,   \* tasks of the threads created so far
  core,    \* get_sum's static counter
  n,       \* n[i]: thread i's core
  where,   \* where[i]: the next step of thread i
  partial, \* partial[i]: the elements that thread i's sum counts
  joined,  \* threads that main has joined
  sum      \* sum[e]: how often main's sum counts element e

vars == <<cores, tasks, core, n, where, partial, joined, sum>>

Element == 0..(N - 1)
Thread == 1..MaxCores
Size == N \div cores

Init ==
  /\ cores \in Thread
  /\ tasks = <<>>
  /\ core = 0
  /\ n = [i \in Thread |-> 0]
  /\ where = [i \in Thread |-> "none"]
  /\ partial = [i \in Thread |-> {}]
  /\ joined = 0
  /\ sum = [e \in Element |-> 0]

\* pthread_create, with the next slice.
Create ==
  /\ Len(tasks) < cores
  /\ tasks' = Append(tasks, [start |-> Len(tasks) * Size, size |-> Size])
  /\ where' = [where EXCEPT ![Len(tasks) + 1] = "load"]
  /\ UNCHANGED <<cores, core, n, partial, joined, sum>>

\* n = core++, which other threads may do at the same time.
LoadCore(i) ==
  /\ where[i] = "load"
  /\ n' = [n EXCEPT ![i] = core]
  /\ where' = [where EXCEPT ![i] = "store"]
  /\ UNCHANGED <<cores, tasks, core, partial, joined, sum>>

StoreCore(i) ==
  /\ where[i] = "store"
  /\ core' = n[i] + 1
  /\ where' = [where EXCEPT ![i] = "add"]
  /\ UNCHANGED <<cores, tasks, n, partial, joined, sum>>

\* The elements of the slice are added up.
AddUp(i) ==
  /\ where[i] = "add"
  /\ partial' = [partial EXCEPT ![i] =
                   tasks[i].start..(tasks[i].start + tasks[i].size - 1)]
  /\ where' = [where EXCEPT ![i] = "returned"]
  /\ UNCHANGED <<cores, tasks, core, n, joined, sum>>

\* pthread_join, in the order of creation.
Join ==
  /\ Len(tasks) = cores /\ joined < cores
  /\ where[joined + 1] = "returned"
  /\ sum' = [e \in Element |->
               IF e \in partial[joined + 1] THEN sum[e] + 1 ELSE sum[e]]
  /\ joined' = joined + 1
  /\ UNCHANGED <<cores, tasks, core, n, where, partial>>

Next ==
  \/ Create
  \/ \E i \in Thread : LoadCore(i) \/ StoreCore(i) \/ AddUp(i)
  \/ Join
-----------------------------------------------------------------------------
Done == joined = cores

(* No element is counted twice or read from beyond the array, and none is  *)
(* left out but the N % cores at its end (parallel.c:44); two threads may  *)
(* be bound to the same core, but to none that is not there.               *)
SumKept ==
  /\ \A i \in Thread : partial[i] \subseteq Element /\ n[i] \in 0..(cores - 1)
  /\ Done => \A e \in Element : sum[e] = IF e < N - (N % cores) THEN 1 ELSE 0
=============================================================================
