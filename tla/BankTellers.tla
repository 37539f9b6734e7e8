---------------------------- MODULE BankTellers ----------------------------
(***************************************************************************)
(* examples/mod11-synchronization, sem.c and proc_sem.c: a semaphore       *)
(* counts the free tellers.  As its value is to be reported too, a mutex   *)
(* makes each call and its sem_getvalue indivisible, and a client that     *)
(* finds no teller sleeps on a condition variable (proc_sem.c:44-57).      *)
(***************************************************************************)
EXTENDS Integers, FiniteSets

CONSTANTS
  Client,      \* the threads
  NumTellers,  \* NUM_TELLERS
  MaxSpurious, \* wakeups without a signal that the run allows
  None         \* the owner of a free mutex

VARIABLES
  bankLine,  \* value of the semaphore: tellers that are free
  semMutex,  \* the client that holds the mutex
  where,     \* where[c]: what client c is doing
  inaHurry,  \* inaHurry[c]
  spurious   \* wakeups without a signal so far

vars == <<bankLine, semMutex, where, inaHurry, spurious>>

Init ==
  /\ bankLine = NumTellers
  /\ semMutex = None
  /\ where = [c \in Client |-> "coming"]
  /\ inaHurry \in [Client -> BOOLEAN]
  /\ spurious = 0

At(c, place) == where' = [where EXCEPT ![c] = place]
Asleep == {c \in Client : where[c] = "asleep"}

\* pthread_mutex_lock, on entry or on the way out of pthread_cond_wait.
Enter(c) ==
  /\ where[c] \in {"coming", "woken"}
  /\ semMutex = None
  /\ semMutex' = c
  /\ At(c, "inside")
  /\ UNCHANGED <<bankLine, inaHurry, spurious>>

\* Mutant: the result of sem_trywait is not looked at.
TryWaitBlind(c) ==
  /\ where[c] = "inside"
  /\ bankLine' = bankLine - 1
  /\ At(c, "got")
  /\ UNCHANGED <<semMutex, inaHurry, spurious>>

\* sem_trywait finds a teller; sem_getvalue is still to come.
TryWait(c) ==
  /\ where[c] = "inside" /\ bankLine > 0
  /\ bankLine' = bankLine - 1
  /\ At(c, "got")
  /\ UNCHANGED <<semMutex, inaHurry, spurious>>

\* "in a hurry and no tellers available.  Skipping."
Skip(c) ==
  /\ where[c] = "inside" /\ bankLine = 0 /\ inaHurry[c]
  /\ semMutex' = None
  /\ At(c, "gone")
  /\ UNCHANGED <<bankLine, inaHurry, spurious>>

\* pthread_cond_wait.
Sleep(c) ==
  /\ where[c] = "inside" /\ bankLine = 0 /\ ~inaHurry[c]
  /\ semMutex' = None
  /\ At(c, "asleep")
  /\ UNCHANGED <<bankLine, inaHurry, spurious>>

\* sem_getvalue and pthread_mutex_unlock; doBusiness follows.
GoToTeller(c) ==
  /\ where[c] = "got"
  /\ semMutex' = None
  /\ At(c, "business")
  /\ UNCHANGED <<bankLine, inaHurry, spurious>>

\* Mutant: the teller is returned without the mutex.
ReturnUnlocked(c) ==
  /\ where[c] = "business"
  /\ At(c, "returning")
  /\ UNCHANGED <<bankLine, semMutex, inaHurry, spurious>>

Return(c) ==
  /\ where[c] = "business"
  /\ semMutex = None
  /\ semMutex' = c
  /\ At(c, "returning")
  /\ UNCHANGED <<bankLine, inaHurry, spurious>>

Post(c) ==
  /\ where[c] = "returning"
  /\ bankLine' = bankLine + 1
  /\ At(c, "posted")
  /\ UNCHANGED <<semMutex, inaHurry, spurious>>

\* Mutant: the client leaves without a signal.
SignalNobody(c) ==
  /\ where[c] = "posted"
  /\ At(c, "leaving")
  /\ UNCHANGED <<bankLine, semMutex, inaHurry, spurious>>

\* sem_getvalue and pthread_cond_signal, which wakes any one sleeper.
Signal(c) ==
  /\ where[c] = "posted"
  /\ IF Asleep = {} THEN At(c, "leaving")
     ELSE \E w \in Asleep :
            where' = [where EXCEPT ![c] = "leaving", ![w] = "woken"]
  /\ UNCHANGED <<bankLine, semMutex, inaHurry, spurious>>

Unlock(c) ==
  /\ where[c] = "leaving"
  /\ semMutex' = None
  /\ At(c, "gone")
  /\ UNCHANGED <<bankLine, inaHurry, spurious>>

\* POSIX lets pthread_cond_wait return without a signal.
WakeUnasked(c) ==
  /\ where[c] = "asleep" /\ spurious < MaxSpurious
  /\ spurious' = spurious + 1
  /\ At(c, "woken")
  /\ UNCHANGED <<bankLine, semMutex, inaHurry>>

\* clientMain.
ClientStep(c) ==
  \/ Enter(c) \/ TryWait(c) \/ Skip(c) \/ Sleep(c) \/ GoToTeller(c)
  \/ Return(c) \/ Post(c) \/ Signal(c) \/ Unlock(c)

Next == \E c \in Client : ClientStep(c) \/ WakeUnasked(c)

Spec == Init /\ [][Next]_vars
-----------------------------------------------------------------------------
Served == {c \in Client : where[c] \in {"got", "business", "returning"}}

\* Clients that will try for a teller or signal another before they sleep.
Coming ==
  {c \in Client : \/ where[c] \in {"woken", "posted"}
                  \/ where[c] = "inside" /\ ~inaHurry[c]}

TypeOK ==
  /\ bankLine \in Nat
  /\ semMutex \in Client \cup {None}
  /\ where \in [Client -> {"coming", "inside", "got", "business", "returning",
                           "posted", "leaving", "asleep", "woken", "gone"}]
  /\ inaHurry \in [Client -> BOOLEAN]
  /\ spurious \in 0..MaxSpurious

(* Each teller is free or with one client.                                 *)
TellersKept == bankLine + Cardinality(Served) = NumTellers

(* A client in a hurry may take the teller that a sleeper was signalled    *)
(* for (sem.c:134, 172).  Still nobody sleeps while a teller stays free:   *)
(* for each free teller there is a client that will take it or pass the    *)
(* signal on.                                                              *)
NobodyStranded == Asleep # {} => bankLine <= Cardinality(Coming)

(* The value reported is the one the call produced: "in effect making the  *)
(* sem_post() and sem_getvalue() indivisible" (proc_sem.c:44).             *)
ReportKept ==
  \A c \in Client :
    where[c] \in {"got", "posted"} /\ where'[c] = where[c]
      => bankLine' = bankLine

\* Everybody has been served or has skipped.
AllServed == \A c \in Client : where[c] = "gone"
=============================================================================
