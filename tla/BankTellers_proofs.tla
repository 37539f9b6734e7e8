-------------------------- MODULE BankTellers_proofs --------------------------
(***************************************************************************)
(* The bank for any number of clients, tellers and wakeups without a       *)
(* signal: each teller is free or with one client, and no client sleeps    *)
(* for good while a teller is free, though one in a hurry may take the     *)
(* teller that a sleeper was signalled for.                                *)
(***************************************************************************)
EXTENDS BankTellers, FiniteSetTheorems, TLAPS

\* What the programs start with: so many threads and tellers.
Bank ==
  /\ IsFiniteSet(Client) /\ None \notin Client
  /\ NumTellers \in Nat /\ MaxSpurious \in Nat

\* Who holds the mutex, and that a client in a hurry never sleeps.
Inside == {"inside", "got", "returning", "posted", "leaving"}
MutexInv ==
  /\ \A c \in Client : where[c] \in Inside <=> semMutex = c
  /\ \A c \in Client : where[c] \in {"asleep", "woken"} => ~inaHurry[c]

LEMMA TypeStep ==
  ASSUME Bank, TypeOK, [Next]_vars
  PROVE  TypeOK'
<1> USE DEF TypeOK, At, Bank
<1>1. ASSUME NEW c \in Client, ClientStep(c)
      PROVE  TypeOK'
  <2>1. CASE TryWait(c)
    BY <2>1 DEF TryWait
  <2>2. CASE Post(c)
    BY <2>2 DEF Post
  <2>3. CASE Signal(c)
    BY <2>3 DEF Signal, Asleep
  <2>4. CASE Enter(c) \/ Skip(c) \/ Sleep(c)
    BY <2>4 DEF Enter, Skip, Sleep
  <2>5. CASE GoToTeller(c) \/ Return(c) \/ Unlock(c)
    BY <2>5 DEF GoToTeller, Return, Unlock
  <2> QED
    BY <1>1, <2>1, <2>2, <2>3, <2>4, <2>5 DEF ClientStep
<1>2. ASSUME NEW c \in Client, WakeUnasked(c)
      PROVE  TypeOK'
  BY <1>2 DEF WakeUnasked
<1>3. CASE UNCHANGED vars
  BY <1>3 DEF vars
<1> QED
  BY <1>1, <1>2, <1>3 DEF Next

LEMMA MutexStep ==
  ASSUME Bank, TypeOK, MutexInv, [Next]_vars
  PROVE  MutexInv'
<1> USE DEF TypeOK, At, Bank, MutexInv, Inside
<1>1. ASSUME NEW c \in Client, ClientStep(c)
      PROVE  MutexInv'
  <2>1. CASE Enter(c) \/ Return(c)
    BY <2>1 DEF Enter, Return
  <2>2. CASE Skip(c) \/ Sleep(c)
    BY <2>2 DEF Skip, Sleep
  <2>3. CASE GoToTeller(c) \/ Unlock(c)
    BY <2>3 DEF GoToTeller, Unlock
  <2>4. CASE TryWait(c) \/ Post(c)
    BY <2>4 DEF TryWait, Post
  <2>5. CASE Signal(c)
    BY <2>5 DEF Signal, Asleep
  <2> QED
    BY <1>1, <2>1, <2>2, <2>3, <2>4, <2>5 DEF ClientStep
<1>2. ASSUME NEW c \in Client, WakeUnasked(c)
      PROVE  MutexInv'
  BY <1>2 DEF WakeUnasked
<1>3. CASE UNCHANGED vars
  BY <1>3 DEF vars
<1> QED
  BY <1>1, <1>2, <1>3 DEF Next
-----------------------------------------------------------------------------
\* A finite set that gains or loses one member, and one that may do either.
LEMMA OneMore ==
  ASSUME NEW S, IsFiniteSet(S), NEW x, x \notin S, NEW T, T = S \cup {x}
  PROVE  Cardinality(T) = Cardinality(S) + 1
BY FS_AddElement

LEMMA OneLess ==
  ASSUME NEW S, IsFiniteSet(S), NEW x \in S, NEW T, T = S \ {x}
  PROVE  Cardinality(T) = Cardinality(S) - 1
BY FS_RemoveElement

LEMMA Sizes ==
  ASSUME Bank
  PROVE  /\ IsFiniteSet(Served) /\ Cardinality(Served) \in Nat
         /\ IsFiniteSet(Coming) /\ Cardinality(Coming) \in Nat
<1>1. Served \subseteq Client /\ Coming \subseteq Client
  BY DEF Served, Coming
<1> QED
  BY <1>1, FS_Subset, FS_CardinalityType DEF Bank

LEMMA TellersStep ==
  ASSUME Bank, TypeOK, TellersKept, [Next]_vars
  PROVE  TellersKept'
<1> USE DEF TypeOK, At, TellersKept
<1>0. IsFiniteSet(Served) /\ Cardinality(Served) \in Nat
  BY Sizes
<1>1. ASSUME NEW c \in Client, ClientStep(c)
      PROVE  TellersKept'
  <2>1. CASE TryWait(c)
    <3>1. c \notin Served /\ Served' = Served \cup {c}
      BY <2>1 DEF TryWait, Served
    <3>2. Cardinality(Served') = Cardinality(Served) + 1
      BY <1>0, <3>1, OneMore
    <3> QED
      BY <1>0, <2>1, <3>2 DEF TryWait
  <2>2. CASE Post(c)
    <3>1. c \in Served /\ Served' = Served \ {c}
      BY <2>2 DEF Post, Served
    <3>2. Cardinality(Served') = Cardinality(Served) - 1
      BY <1>0, <3>1, OneLess
    <3> QED
      BY <1>0, <2>2, <3>2 DEF Post
  <2>3. CASE Signal(c)
    <3>1. Served' = Served
      BY <2>3 DEF Signal, Served, Asleep
    <3> QED
      BY <2>3, <3>1 DEF Signal
  <2>4. CASE Enter(c) \/ Skip(c) \/ Sleep(c)
    <3>1. Served' = Served
      BY <2>4 DEF Enter, Skip, Sleep, Served
    <3> QED
      BY <2>4, <3>1 DEF Enter, Skip, Sleep
  <2>5. CASE GoToTeller(c) \/ Return(c) \/ Unlock(c)
    <3>1. Served' = Served
      BY <2>5 DEF GoToTeller, Return, Unlock, Served
    <3> QED
      BY <2>5, <3>1 DEF GoToTeller, Return, Unlock
  <2> QED
    BY <1>1, <2>1, <2>2, <2>3, <2>4, <2>5 DEF ClientStep
<1>2. ASSUME NEW c \in Client, WakeUnasked(c)
      PROVE  TellersKept'
  <2>1. Served' = Served
    BY <1>2 DEF WakeUnasked, Served
  <2> QED
    BY <1>2, <2>1 DEF WakeUnasked
<1>3. CASE UNCHANGED vars
  BY <1>3 DEF vars, Served
<1> QED
  BY <1>1, <1>2, <1>3 DEF Next

\* When a client joins those who will try or signal, or leaves them, the count
\* of free tellers keeps up with it.
LEMMA StrandedStep ==
  ASSUME Bank, TypeOK, MutexInv, NobodyStranded, [Next]_vars
  PROVE  NobodyStranded'
<1> USE DEF TypeOK, At, NobodyStranded
<1>0. IsFiniteSet(Coming) /\ Cardinality(Coming) \in Nat
  BY Sizes
<1>1. ASSUME NEW c \in Client, ClientStep(c)
      PROVE  NobodyStranded'
  <2>1. CASE TryWait(c)
    <3>1. Asleep' = Asleep
      BY <2>1 DEF TryWait, Asleep
    <3>2. CASE inaHurry[c]
      <4>1. Coming' = Coming
        BY <2>1, <3>2 DEF TryWait, Coming
      <4> QED
        BY <1>0, <2>1, <3>1, <4>1 DEF TryWait
    <3>3. CASE ~inaHurry[c]
      <4>1. c \in Coming /\ Coming' = Coming \ {c}
        BY <2>1, <3>3 DEF TryWait, Coming
      <4>2. Cardinality(Coming') = Cardinality(Coming) - 1
        BY <1>0, <4>1, OneLess
      <4> QED
        BY <1>0, <2>1, <3>1, <4>2 DEF TryWait
    <3> QED
      BY <3>2, <3>3
  <2>2. CASE Post(c)
    <3>1. Asleep' = Asleep
      BY <2>2 DEF Post, Asleep
    <3>2. c \notin Coming /\ Coming' = Coming \cup {c}
      BY <2>2 DEF Post, Coming
    <3>3. Cardinality(Coming') = Cardinality(Coming) + 1
      BY <1>0, <3>2, OneMore
    <3> QED
      BY <1>0, <2>2, <3>1, <3>3 DEF Post
  <2>3. CASE Signal(c) /\ Asleep = {}
    <3>1. Asleep' = {}
      BY <2>3 DEF Signal, Asleep
    <3> QED
      BY <3>1
  <2>4. CASE Signal(c) /\ Asleep # {}
    <3>1. PICK w \in Asleep : where' = [where EXCEPT ![c] = "leaving", ![w] = "woken"]
      BY <2>4 DEF Signal
    <3>2. c \in Coming /\ w \in Client /\ w \notin Coming /\ w # c
      BY <2>4, <3>1 DEF Signal, Coming, Asleep
    <3>3. Coming' = (Coming \ {c}) \cup {w}
      BY <2>4, <3>1, <3>2 DEF Signal, Coming
    <3>4. IsFiniteSet(Coming \ {c}) /\ Cardinality(Coming \ {c}) = Cardinality(Coming) - 1
      BY <1>0, <3>2, OneLess, FS_RemoveElement
    <3>5. Cardinality(Coming') = (Cardinality(Coming) - 1) + 1
      BY <3>2, <3>3, <3>4, OneMore
    <3> QED
      BY <1>0, <2>4, <3>5 DEF Signal
  <2>5. CASE Enter(c)
    <3>1. Asleep' = Asleep /\ bankLine' = bankLine
      BY <2>5 DEF Enter, Asleep
    <3>2. CASE where[c] = "woken" \/ inaHurry[c]
      <4>1. Coming' = Coming
        BY <2>5, <3>2 DEF Enter, Coming, MutexInv
      <4> QED
        BY <3>1, <4>1
    <3>3. CASE where[c] = "coming" /\ ~inaHurry[c]
      <4>1. c \notin Coming /\ Coming' = Coming \cup {c}
        BY <2>5, <3>3 DEF Enter, Coming
      <4>2. Cardinality(Coming') = Cardinality(Coming) + 1
        BY <1>0, <4>1, OneMore
      <4> QED
        BY <1>0, <3>1, <4>2
    <3> QED
      BY <2>5, <3>2, <3>3 DEF Enter
  <2>6. CASE Skip(c) \/ Sleep(c)
    <3>1. bankLine' = 0
      BY <2>6 DEF Skip, Sleep
    <3>2. Cardinality(Coming)' \in Nat
      <4>1. Coming' \subseteq Client
        BY DEF Coming
      <4> QED
        BY <4>1, FS_Subset, FS_CardinalityType DEF Bank
    <3> QED
      BY <3>1, <3>2
  <2>7. CASE GoToTeller(c) \/ Return(c) \/ Unlock(c)
    <3>1. Asleep' = Asleep /\ Coming' = Coming /\ bankLine' = bankLine
      BY <2>7 DEF GoToTeller, Return, Unlock, Asleep, Coming
    <3> QED
      BY <3>1
  <2> QED
    BY <1>1, <2>1, <2>2, <2>3, <2>4, <2>5, <2>6, <2>7 DEF ClientStep
<1>2. ASSUME NEW c \in Client, WakeUnasked(c)
      PROVE  NobodyStranded'
  <2>1. /\ c \notin Coming /\ Coming' = Coming \cup {c}
        /\ Asleep # {} /\ bankLine' = bankLine
    BY <1>2 DEF WakeUnasked, Coming, Asleep
  <2>2. Cardinality(Coming') = Cardinality(Coming) + 1
    BY <1>0, <2>1, OneMore
  <2> QED
    BY <1>0, <2>1, <2>2
<1>3. CASE UNCHANGED vars
  BY <1>3 DEF vars, Asleep, Coming
<1> QED
  BY <1>1, <1>2, <1>3 DEF Next
-----------------------------------------------------------------------------
LEMMA Start ==
  ASSUME Bank
  PROVE  Init => TypeOK /\ MutexInv /\ TellersKept /\ NobodyStranded
<1> SUFFICES ASSUME Init
             PROVE  TypeOK /\ MutexInv /\ TellersKept /\ NobodyStranded
  OBVIOUS
<1>1. Served = {} /\ Asleep = {}
  BY DEF Init, Served, Asleep
<1>2. TellersKept /\ NobodyStranded
  BY <1>1, FS_EmptySet DEF Init, Bank, TellersKept, NobodyStranded
<1> QED
  BY <1>2 DEF Init, Bank, TypeOK, MutexInv, Inside

(* Each teller is free or with one client, whoever skips, sleeps or is     *)
(* woken (sem.c:144-197).                                                  *)
THEOREM TellersConserved ==
  ASSUME Bank
  PROVE  Spec => []TellersKept
BY Start, TypeStep, TellersStep, PTL DEF Spec

(* For each free teller there is a client that will take it or signal the  *)
(* next sleeper: no wakeup is lost to a client in a hurry (sem.c:134, 172, *)
(* 201).                                                                   *)
THEOREM NoneStranded ==
  ASSUME Bank
  PROVE  Spec => []NobodyStranded
BY Start, TypeStep, MutexStep, StrandedStep, PTL DEF Spec
=============================================================================
