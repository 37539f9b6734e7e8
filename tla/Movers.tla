------------------------------- MODULE Movers -------------------------------
(***************************************************************************)
(* ipcsem.c: jobs of a moving company, a thread each, that take trucks,    *)
(* movers and insurance from three semaphores with one semop, and give     *)
(* them back with another.                                                 *)
(***************************************************************************)
EXTENDS Integers, Sequences, Functions

CONSTANT NumThreads  \* NUM_THREADS

Resource == 1..3  \* TRUCK_SEM, MOVER_SEM, INSUR_SEM
Total == <<5, 12, 1000>>
JobTable == << <<4, 5, 250>>, <<1, 2, 500>>, <<3, 5, 1000>>, <<2, 8, 250>> >>
Thread == 1..NumThreads
Job(t) == JobTable[((t - 1) % Len(JobTable)) + 1]

VARIABLES
  sem,   \* the three semaphores
  where  \* where[t]: "new", "asking", "running" or "done"

vars == <<sem, where>>

Init ==
  /\ sem = Total
  /\ where = [t \in Thread |-> "new"]

\* main creates the threads one after the other.
Spawn(t) ==
  /\ where[t] = "new" /\ \A u \in 1..(t - 1) : where[u] # "new"
  /\ where' = [where EXCEPT ![t] = "asking"]
  /\ UNCHANGED sem

\* Mutant: the trucks only are waited for.
ReserveTrucks(t) ==
  /\ where[t] = "asking"
  /\ sem[1] >= Job(t)[1]
  /\ sem' = [r \in Resource |->
               IF sem[r] >= Job(t)[r] THEN sem[r] - Job(t)[r] ELSE 0]
  /\ where' = [where EXCEPT ![t] = "running"]

\* semop waits until all of its operations can be done, and does them at once.
Reserve(t) ==
  /\ where[t] = "asking"
  /\ \A r \in Resource : sem[r] >= Job(t)[r]
  /\ sem' = [r \in Resource |-> sem[r] - Job(t)[r]]
  /\ where' = [where EXCEPT ![t] = "running"]

Release(t) ==
  /\ where[t] = "running"
  /\ sem' = [r \in Resource |-> sem[r] + Job(t)[r]]
  /\ where' = [where EXCEPT ![t] = "done"]

\* main and threadMain.
Step(t) == Spawn(t) \/ Reserve(t) \/ Release(t)

Next == \E t \in Thread : Step(t)
-----------------------------------------------------------------------------
Running == {t \in Thread : where[t] = "running"}
Taken(r) == SumFunctionOnSet([t \in Thread |-> Job(t)[r]], Running)

(* What is not free is with the jobs that run: never more than there is.   *)
ResourcesKept ==
  \A r \in Resource : sem[r] >= 0 /\ Total[r] = sem[r] + Taken(r)

Done == \A t \in Thread : where[t] = "done"
=============================================================================
