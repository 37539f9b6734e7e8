------------------------------ MODULE Mod11_proofs ------------------------------
(***************************************************************************)
(* Proofs about the programs of MCMod11, for any sets of processes and     *)
(* threads and any sizes: first about the stack whose module it extends,   *)
(* then about the others, where each invariant speaks of the states in     *)
(* which program names its program, and the others' variables rest.        *)
(***************************************************************************)
EXTENDS MCMod11, Sequences, Library_proofs

BankP == INSTANCE BankTellers_proofs WITH where <- bWhere, spurious <- bSpurious
ProcBankP == INSTANCE BankTellers_proofs WITH
  Client <- ProcClient, NumTellers <- FewTellers, MaxSpurious <- 0,
  where <- bWhere, spurious <- bSpurious

(***************************************************************************)
(* The stack of CondStack stays within its bounds, and with at most        *)
(* StackSize + 1 threads pushers and poppers never sleep on the condition  *)
(* variable together.                                                      *)
(***************************************************************************)
SleepingPushers == Pusher \cap Asleep
SleepingPoppers == Popper \cap Asleep

(* A thread on its way through push or pop still has that call to finish.  *)
Busy == \A t \in Thread : where[t] # "outside" => left[t] > 0

(* Every pop since a pusher fell asleep has woken a pusher: the stack can  *)
(* be no emptier than the pushers awake account for.  And dually.          *)
SleepBound ==
  /\ SleepingPushers # {} =>
       index + Cardinality(Pusher) >= StackSize + Cardinality(SleepingPushers)
  /\ SleepingPoppers # {} =>
       index + Cardinality(SleepingPoppers) <= Cardinality(Popper)

IInv == TypeOK /\ Busy /\ (Few => SleepBound)
-----------------------------------------------------------------------------
(* The stack never overflows its buffer or underflows, no thread does more *)
(* than MAX_COUNT calls.                                                   *)
LEMMA TypeStep ==
  ASSUME TypeOK, Busy, [Next]_vars
  PROVE  TypeOK' /\ Busy'
  <1> USE StackAssumption
  <1>1. CASE UNCHANGED vars
    BY <1>1 DEF TypeOK, Busy, vars
  <1>2. ASSUME NEW t \in Thread, Lock(t)
        PROVE  TypeOK' /\ Busy'
    BY <1>2 DEF TypeOK, Busy, Lock
  <1>3. ASSUME NEW t \in Thread, Sleep(t)
        PROVE  TypeOK' /\ Busy'
    BY <1>3 DEF TypeOK, Busy, Sleep
  <1>4. ASSUME NEW t \in Thread, Change(t)
        PROVE  TypeOK' /\ Busy'
    <2>1. index' \in 0..StackSize
      BY <1>4 DEF TypeOK, Change, MustWait
    <2>2. /\ where' \in [Thread -> {"outside", "inside", "asleep", "woken",
                                    "leaving"}]
          /\ \A d \in Thread : where'[d] # "outside" => where[d] # "outside"
      BY <1>4 DEF TypeOK, Change, Signal, Asleep
    <2> QED
      BY <1>4, <2>1, <2>2 DEF TypeOK, Busy, Change
  <1>5. ASSUME NEW t \in Thread, Unlock(t)
        PROVE  TypeOK' /\ Busy'
    BY <1>5 DEF TypeOK, Busy, Unlock
  <1>6. ASSUME NEW t \in Thread, WakeUnasked(t)
        PROVE  TypeOK' /\ Busy'
    BY <1>6 DEF TypeOK, Busy, WakeUnasked
  <1> QED
    BY <1>1, <1>2, <1>3, <1>4, <1>5, <1>6 DEF Next, Step

THEOREM TypeCorrect == Spec => [](TypeOK /\ Busy)
  <1>1. Init => TypeOK /\ Busy
    BY StackAssumption DEF Init, TypeOK, Busy
  <1> QED
    BY <1>1, TypeStep, PTL DEF Spec
-----------------------------------------------------------------------------
LEMMA SleepersFinite ==
  /\ IsFiniteSet(SleepingPushers) /\ IsFiniteSet(SleepingPoppers)
  /\ Cardinality(SleepingPushers) \in Nat /\ Cardinality(SleepingPoppers) \in Nat
  /\ Cardinality(Pusher) \in Nat /\ Cardinality(Popper) \in Nat
  /\ Cardinality(SleepingPushers) <= Cardinality(Pusher)
  /\ Cardinality(SleepingPoppers) <= Cardinality(Popper)
  BY StackAssumption, FS_Subset, FS_CardinalityType
     DEF SleepingPushers, SleepingPoppers

(* What the bound is for: it leaves no room for both sides.                *)
LEMMA BoundSeparates ==
  ASSUME TypeOK, Few, SleepBound
  PROVE  SleepingPushers = {} \/ SleepingPoppers = {}
  <1> SUFFICES ASSUME SleepingPushers # {}, SleepingPoppers # {}
               PROVE  FALSE
    OBVIOUS
  <1>1. Cardinality(SleepingPushers) >= 1 /\ Cardinality(SleepingPoppers) >= 1
    BY SleepersFinite, FS_EmptySet
  <1> QED
    BY <1>1, SleepersFinite, StackAssumption DEF Few, SleepBound, TypeOK

(* Fewer sleepers and the same index keep the bound.                       *)
LEMMA BoundShrinks ==
  ASSUME TypeOK, SleepBound, index' = index,
         SleepingPushers' \subseteq SleepingPushers,
         SleepingPoppers' \subseteq SleepingPoppers
  PROVE  SleepBound'
  <1>1. /\ Cardinality(SleepingPushers') \in Nat
        /\ Cardinality(SleepingPushers') <= Cardinality(SleepingPushers)
        /\ Cardinality(SleepingPoppers') \in Nat
        /\ Cardinality(SleepingPoppers') <= Cardinality(SleepingPoppers)
    BY SleepersFinite, FS_Subset, FS_CardinalityType
  <1>2. /\ SleepingPushers' # {} => SleepingPushers # {}
        /\ SleepingPoppers' # {} => SleepingPoppers # {}
    OBVIOUS
  <1> QED
    BY <1>1, <1>2, SleepersFinite, StackAssumption DEF SleepBound, TypeOK

LEMMA BoundSleep ==
  ASSUME TypeOK, SleepBound, NEW t \in Thread, Sleep(t), TypeOK'
  PROVE  SleepBound'
  <1>1. index' = index
    BY DEF Sleep
  <1>2. Asleep' = Asleep \cup {t}
    BY DEF Sleep, Asleep, TypeOK
  <1>3. CASE t \in Pusher
    <2>1. SleepingPoppers' = SleepingPoppers
      BY <1>2, <1>3, StackAssumption DEF SleepingPoppers
    <2>2. index = StackSize
      BY <1>3 DEF Sleep, MustWait
    <2>3. /\ Cardinality(SleepingPushers') \in Nat
          /\ Cardinality(SleepingPushers') <= Cardinality(Pusher)
      BY StackAssumption, FS_Subset, FS_CardinalityType DEF SleepingPushers
    <2> QED
      BY <1>1, <2>1, <2>2, <2>3, SleepersFinite, StackAssumption
         DEF SleepBound, TypeOK
  <1>4. CASE t \in Popper
    <2>1. SleepingPushers' = SleepingPushers
      BY <1>2, <1>4, StackAssumption DEF SleepingPushers
    <2>2. index = 0
      BY <1>4, StackAssumption DEF Sleep, MustWait
    <2>3. /\ Cardinality(SleepingPoppers') \in Nat
          /\ Cardinality(SleepingPoppers') <= Cardinality(Popper)
      BY StackAssumption, FS_Subset, FS_CardinalityType DEF SleepingPoppers
    <2> QED
      BY <1>1, <2>1, <2>2, <2>3, SleepersFinite, StackAssumption
         DEF SleepBound, TypeOK
  <1> QED
    BY <1>3, <1>4 DEF Thread

(* A change moves index by one and, if anyone sleeps, wakes one: since one *)
(* side sleeps at most, the one that is woken is of the side that gains.   *)
LEMMA BoundChange ==
  ASSUME TypeOK, Few, SleepBound, NEW t \in Thread, Change(t)
  PROVE  SleepBound'
  <1> USE StackAssumption
  <1>1. index' = IF t \in Pusher THEN index + 1 ELSE index - 1
    BY DEF Change
  <1>2. CASE Asleep = {}
    <2>1. Asleep' = {}
      BY <1>2 DEF Change, Signal, Asleep, TypeOK
    <2> QED
      BY <2>1 DEF SleepBound, SleepingPushers, SleepingPoppers
  <1>3. CASE Asleep # {}
    <2>1. PICK w \in Asleep :
            where' = [where EXCEPT ![t] = "leaving", ![w] = "woken"]
      BY <1>3 DEF Change, Signal
    <2>2. Asleep' = Asleep \ {w} /\ w \in Thread
      BY <2>1 DEF Asleep, TypeOK, Change
    <2>3. CASE SleepingPoppers = {}
      <3>1. w \in SleepingPushers
        BY <2>2, <2>3 DEF SleepingPushers, SleepingPoppers, Thread
      <3>2. SleepingPushers' = SleepingPushers \ {w} /\ SleepingPoppers' = {}
        BY <2>2, <2>3 DEF SleepingPushers, SleepingPoppers
      <3>3. Cardinality(SleepingPushers') = Cardinality(SleepingPushers) - 1
        BY <3>1, <3>2, SleepersFinite, FS_RemoveElement
      <3>4. SleepingPushers # {}
        BY <3>1
      <3> QED
        BY <1>1, <3>2, <3>3, <3>4, SleepersFinite DEF SleepBound, TypeOK
    <2>4. CASE SleepingPushers = {}
      <3>1. w \in SleepingPoppers
        BY <2>2, <2>4 DEF SleepingPushers, SleepingPoppers, Thread
      <3>2. SleepingPoppers' = SleepingPoppers \ {w} /\ SleepingPushers' = {}
        BY <2>2, <2>4 DEF SleepingPushers, SleepingPoppers
      <3>3. Cardinality(SleepingPoppers') = Cardinality(SleepingPoppers) - 1
        BY <3>1, <3>2, SleepersFinite, FS_RemoveElement
      <3>4. SleepingPoppers # {}
        BY <3>1
      <3> QED
        BY <1>1, <3>2, <3>3, <3>4, SleepersFinite DEF SleepBound, TypeOK
    <2> QED
      BY <2>3, <2>4, BoundSeparates
  <1> QED
    BY <1>2, <1>3

(* The inductive invariant.                                                *)
THEOREM Inductive == Spec => []IInv
  <1>1. Init => IInv
    <2> SUFFICES ASSUME Init
                 PROVE  IInv
      OBVIOUS
    <2>1. TypeOK /\ Busy
      BY StackAssumption DEF Init, TypeOK, Busy
    <2>2. Asleep = {}
      BY DEF Init, Asleep
    <2> QED
      BY <2>1, <2>2 DEF IInv, SleepBound, SleepingPushers, SleepingPoppers
  <1>2. IInv /\ [Next]_vars => IInv'
    <2> SUFFICES ASSUME IInv, [Next]_vars
                 PROVE  IInv'
      OBVIOUS
    <2>1. TypeOK' /\ Busy'
      BY TypeStep DEF IInv
    <2> SUFFICES ASSUME Few
                 PROVE  SleepBound'
      BY <2>1 DEF IInv, Few
    <2>2. TypeOK /\ SleepBound
      BY DEF IInv
    <2>3. ASSUME NEW t \in Thread,
                 Lock(t) \/ Unlock(t) \/ WakeUnasked(t)
          PROVE  SleepBound'
      <3>1. index' = index /\ Asleep' \subseteq Asleep
        BY <2>2, <2>3 DEF Lock, Unlock, WakeUnasked, Asleep, TypeOK
      <3> QED
        BY <2>2, <3>1, BoundShrinks DEF SleepingPushers, SleepingPoppers
    <2>4. CASE UNCHANGED vars
      BY <2>2, <2>4 DEF vars, SleepBound, SleepingPushers, SleepingPoppers, Asleep
    <2> QED
      BY <2>1, <2>2, <2>3, <2>4, BoundSleep, BoundChange DEF Next, Step
  <1> QED
    BY <1>1, <1>2, PTL DEF Spec

(* A signal of push finds only poppers asleep and a signal of pop only     *)
(* pushers, as the comments of stack.c say, for up to StackSize + 1        *)
(* threads: two processes of proc_stackMain on a stack of three.           *)
THEOREM SignalsReachTheirSide == Spec => []OneSideSleeps
  <1>1. IInv => OneSideSleeps
    BY BoundSeparates
       DEF IInv, OneSideSleeps, SleepingPushers, SleepingPoppers
  <1> QED
    BY <1>1, Inductive, PTL
-----------------------------------------------------------------------------
\* What a step of MCMod11 is to the program that runs.
LEMMA Program ==
  ASSUME [NextMod11]_allVars
  PROVE  /\ program' = program
         /\ program = "bank" => Bank!Next \/ UNCHANGED bankVars
         /\ program = "procbank" => ProcBank!Next \/ UNCHANGED ProcBank!vars
         /\ program = "procstack" => ProcStack!Next \/ UNCHANGED ProcStack!vars
         /\ program = "counter" => Counter!Next \/ UNCHANGED Counter!vars
         /\ program = "rw" => Rw!Next \/ UNCHANGED Rw!vars
         /\ program = "parallel" => Parallel!Next \/ UNCHANGED sumVars
<1>1. CASE UNCHANGED allVars
  BY <1>1 DEF allVars, bankVars, ProcBank!vars, ProcBank!bank, ProcBank!area,
     procStackVars, ProcStack!vars, ProcStack!stack, ProcStack!area,
     counterVars, areaVars, Counter!vars, Counter!area, rwVars, Rw!vars,
     Rw!locks, Rw!area
<1>2. CASE Work
  BY <1>2 DEF Work, Runs, Bank!Next, Counter!Next, Rw!Next, Rw!Thread
<1>3. CASE Other
  BY <1>3 DEF Other, Runs, Bank!Next
<1> QED
  BY <1>1, <1>2, <1>3 DEF NextMod11
-----------------------------------------------------------------------------
\* The bank of one process: BankTellers_proofs speaks of the same operators.
LEMMA BankConstants == BankP!Bank
BY StackAssumption, Mod11Assumption DEF BankP!Bank, BankP!IsFiniteSet, IsFiniteSet

LEMMA SameBank ==
  /\ Bank!TypeOK <=> BankP!TypeOK
  /\ Bank!TellersKept <=> BankP!TellersKept
  /\ Bank!NobodyStranded <=> BankP!NobodyStranded
<1>1. Bank!TypeOK <=> BankP!TypeOK
  BY DEF Bank!TypeOK, BankP!TypeOK
<1>2. Bank!TellersKept <=> BankP!TellersKept
  BY DEF Bank!TellersKept, BankP!TellersKept, Bank!Served, BankP!Served,
     Bank!Cardinality, BankP!Cardinality
<1>3. Bank!NobodyStranded <=> BankP!NobodyStranded
  BY DEF Bank!NobodyStranded, BankP!NobodyStranded, Bank!Asleep, BankP!Asleep,
     Bank!Coming, BankP!Coming, Bank!Cardinality, BankP!Cardinality
<1> QED
  BY <1>1, <1>2, <1>3

LEMMA SameBankStep ==
  ASSUME Bank!Next \/ UNCHANGED bankVars
  PROVE  BankP!Next \/ UNCHANGED BankP!vars
<1>1. ASSUME NEW c \in Client, Bank!ClientStep(c)
      PROVE  BankP!ClientStep(c)
  BY <1>1 DEF Bank!ClientStep, BankP!ClientStep, Bank!At, BankP!At, Bank!Asleep,
     BankP!Asleep, Bank!Enter, BankP!Enter, Bank!TryWait, BankP!TryWait, Bank!Skip,
     BankP!Skip, Bank!Sleep, BankP!Sleep, Bank!GoToTeller, BankP!GoToTeller,
     Bank!Return, BankP!Return, Bank!Post, BankP!Post, Bank!Signal, BankP!Signal,
     Bank!Unlock, BankP!Unlock
<1>2. ASSUME NEW c \in Client, Bank!WakeUnasked(c)
      PROVE  BankP!WakeUnasked(c)
  BY <1>2 DEF Bank!WakeUnasked, BankP!WakeUnasked, Bank!At, BankP!At
<1> QED
  BY <1>1, <1>2 DEF Bank!Next, BankP!Next, bankVars, BankP!vars

BankInv ==
  program = "bank" =>
    /\ Bank!TypeOK /\ BankP!MutexInv
    /\ Bank!TellersKept /\ Bank!NobodyStranded

LEMMA BankStart == InitMod11 => BankInv
<1>1. InitMod11 /\ program = "bank" => BankP!Init
  BY DEF InitMod11, InitBank, Bank!Init, BankP!Init
<1> QED
  BY <1>1, BankConstants, BankP!Start, SameBank DEF BankInv

LEMMA BankStep == BankInv /\ [NextMod11]_allVars => BankInv'
<1> SUFFICES ASSUME BankInv, [NextMod11]_allVars, program = "bank"
             PROVE  BankInv'
  BY Program DEF BankInv
<1>1. BankP!Next \/ UNCHANGED BankP!vars
  BY Program, SameBankStep
<1>2. BankP!TypeOK /\ BankP!MutexInv /\ BankP!TellersKept /\ BankP!NobodyStranded
  BY SameBank DEF BankInv
<1>3. BankP!TypeOK' /\ BankP!MutexInv'
  BY <1>1, <1>2, BankConstants, BankP!TypeStep, BankP!MutexStep
<1>4. BankP!TellersKept' /\ BankP!NobodyStranded'
  BY <1>1, <1>2, BankConstants, BankP!TellersStep, BankP!StrandedStep
<1>5. Bank!TypeOK' /\ Bank!TellersKept' /\ Bank!NobodyStranded'
  BY <1>3, <1>4, SameBank, PTL
<1> QED
  BY <1>3, <1>5 DEF BankInv

(* Tellers: each is free or with one client, and nobody sleeps while one   *)
(* stays free (sem.c:144-197).                                             *)
THEOREM TellersServed == SpecMod11 => []TellersServe
<1>1. BankInv => TellersServe
  BY DEF BankInv, TellersServe
<1> QED
  BY <1>1, BankStart, BankStep, PTL DEF SpecMod11

\* The mutex is held from sem_trywait or sem_post to sem_getvalue.
LEMMA ReportStep ==
  ASSUME BankInv, [NextMod11]_allVars, program = "bank"
  PROVE  Bank!ReportKept
<1> SUFFICES ASSUME NEW c \in Client, bWhere[c] \in {"got", "posted"},
                    bWhere'[c] = bWhere[c]
             PROVE  bankLine' = bankLine
  BY DEF Bank!ReportKept
<1> USE DEF BankInv, Bank!TypeOK, Bank!At, BankP!MutexInv, BankP!Inside
<1>1. semMutex = c
  OBVIOUS
<1>2. ASSUME NEW d \in Client, Bank!TryWait(d) \/ Bank!Post(d)
      PROVE  FALSE
  <2>1. d = c
    BY <1>1, <1>2 DEF Bank!TryWait, Bank!Post
  <2> QED
    BY <1>2, <2>1 DEF Bank!TryWait, Bank!Post
<1>3. ASSUME NEW d \in Client, Bank!ClientStep(d) \/ Bank!WakeUnasked(d)
      PROVE  bankLine' = bankLine
  BY <1>2, <1>3 DEF Bank!ClientStep, Bank!WakeUnasked, Bank!Enter, Bank!Skip,
     Bank!Sleep, Bank!GoToTeller, Bank!Return, Bank!Signal, Bank!Unlock
<1> QED
  BY <1>3, Program DEF Bank!Next, bankVars

(* Tellers: the number reported is the one the call produced               *)
(* (proc_sem.c:44), for any number of clients.                             *)
THEOREM ReportOwn == SpecMod11 => ReportIsOwn
<1>1. BankInv /\ [NextMod11]_allVars
        => [program = "bank" => Bank!ReportKept]_allVars
  BY ReportStep
<1> QED
  BY <1>1, BankStart, BankStep, PTL DEF SpecMod11, ReportIsOwn
-----------------------------------------------------------------------------
\* The counter.  Flags that are the wrong way round: CreatedHere is true in
\* those that join.
CountTypes ==
  /\ Counter!Area!TypeOK
  /\ synchronized \in BOOLEAN /\ broken \in BOOLEAN
  /\ count \in Int /\ increments \in Int /\ temp \in [Counting -> Int]
  /\ cWhere \in [Counting -> {"outside", "load", "store", "unlock"}]

\* While the mutex is not reset, a process that works holds it, and what it
\* is going to store is one more than what it read.
CountHeld ==
  /\ count = increments
  /\ \A p \in Counting :
       cWhere[p] # "outside" /\ step[p] # "ended" =>
         /\ cMutex = p
         /\ cWhere[p] = "store" => temp[p] = count + 1

CountInv ==
  program = "counter" =>
    /\ CountTypes
    /\ \A p \in Counting : cWhere[p] # "outside" => step[p] \in {"mapped", "ended"}
    /\ synchronized /\ ~broken => CountHeld

LEMMA CountStart == InitMod11 => CountInv
<1> SUFFICES ASSUME Counter!Init
             PROVE  /\ CountTypes /\ CountHeld
                    /\ \A p \in Counting : cWhere[p] = "outside"
  BY DEF InitMod11, InitCounter, CountInv
<1>1. early \in BOOLEAN
  BY DEF Counter!Init, Counter!Area!Init
<1>2. Counter!Area!TypeOK
  <2>1. /\ file \in {"absent", "sized"} /\ creator = NoProcess
        /\ step \in [Counting -> {"open", "mapped"}]
        /\ todo = [p \in Counting |-> 0]
    BY DEF Counter!Init, Counter!Area!Init
  <2> QED
    BY <1>1, <2>1 DEF Counter!Area!TypeOK
<1>3. synchronized \in BOOLEAN /\ broken \in BOOLEAN
  BY DEF Counter!Init
<1>4. /\ count = 0 /\ increments = 0
      /\ cWhere = [p \in Counting |-> "outside"]
      /\ temp = [p \in Counting |-> 0]
  BY DEF Counter!Init
<1> QED
  BY <1>2, <1>3, <1>4 DEF CountTypes, CountHeld

LEMMA CountAreaStep ==
  ASSUME Counter!Area!TypeOK, NEW p \in Counting,
         \/ Counter!Area!Open(p) \/ Counter!Area!Extend(p)
         \/ Counter!Area!SetUp(p) \/ Counter!Area!End(p)
  PROVE  Counter!Area!TypeOK'
<1> USE DEF Counter!Area!TypeOK
<1>1. early' \in BOOLEAN
  BY DEF Counter!Area!Open, Counter!Area!Extend, Counter!Area!SetUp,
     Counter!Area!End, Counter!Area!NoteEarly
<1>2. CASE Counter!Area!Open(p) \/ Counter!Area!End(p)
  BY <1>1, <1>2 DEF Counter!Area!Open, Counter!Area!End
<1>3. CASE Counter!Area!Extend(p)
  BY <1>1, <1>3 DEF Counter!Area!Extend
<1>4. CASE Counter!Area!SetUp(p)
  BY <1>1, <1>4 DEF Counter!Area!SetUp
<1> QED
  BY <1>2, <1>3, <1>4

LEMMA CountTypeStep ==
  ASSUME CountTypes, Counter!Next \/ UNCHANGED Counter!vars
  PROVE  CountTypes'
<1>1. CASE UNCHANGED Counter!vars
  BY <1>1 DEF CountTypes, Counter!vars, Counter!area, Counter!Area!TypeOK
<1>2. ASSUME NEW p \in Counting, Counter!Join(p) \/ Counter!SetUp(p) \/ Counter!Interrupt(p)
      PROVE  CountTypes'
  <2>1. Counter!Area!TypeOK'
    BY <1>2, CountAreaStep DEF CountTypes, Counter!Join, Counter!SetUp,
       Counter!Interrupt, Counter!Area!Fault
  <2> QED
    BY <1>2, <2>1 DEF CountTypes, Counter!Join, Counter!SetUp, Counter!Interrupt
<1>3. ASSUME NEW p \in Counting, Counter!Loop(p)
      PROVE  CountTypes'
  <2>1. Counter!Area!TypeOK'
    BY <1>3 DEF CountTypes, Counter!Loop, Counter!Lock, Counter!Load,
       Counter!Store, Counter!Unlock, Counter!area, Counter!Area!TypeOK
  <2>2. cWhere' \in [Counting -> {"outside", "load", "store", "unlock"}]
    BY <1>3 DEF CountTypes, Counter!Loop, Counter!Lock, Counter!Load,
       Counter!Store, Counter!Unlock, Counter!At
  <2> QED
    BY <1>3, <2>1, <2>2 DEF CountTypes, Counter!Loop, Counter!Lock, Counter!Load,
       Counter!Store, Counter!Unlock
<1> QED
  BY <1>1, <1>2, <1>3 DEF Counter!Next

\* What a process does under the mutex, if it has it.
LEMMA CountLoop ==
  ASSUME CountTypes, synchronized, NEW p \in Counting, Counter!Loop(p),
         broken = FALSE => CountHeld, broken' = FALSE
  PROVE  CountHeld'
<1> USE DEF CountTypes, CountHeld, Counter!At, Counter!area, Counter!Running,
        Counter!Area!Ready
<1>0. CountHeld /\ step' = step /\ None \notin Counting
  BY Mod11Assumption DEF Counter!Loop, Counter!Lock, Counter!Load, Counter!Store,
     Counter!Unlock
<1>1. CASE Counter!Lock(p)
  BY <1>0, <1>1 DEF Counter!Lock
<1>2. CASE Counter!Load(p)
  BY <1>0, <1>2 DEF Counter!Load
<1>3. CASE Counter!Store(p)
  BY <1>0, <1>3 DEF Counter!Store
<1>4. CASE Counter!Unlock(p)
  BY <1>0, <1>4 DEF Counter!Unlock
<1> QED
  BY <1>1, <1>2, <1>3, <1>4 DEF Counter!Loop

\* A process that joins or ends where nobody else holds the mutex.
LEMMA CountJoin ==
  ASSUME CountTypes, NEW p \in Counting,
         \A q \in Counting : cWhere[q] # "outside" => step[q] \in {"mapped", "ended"},
         Counter!Join(p) \/ Counter!SetUp(p) \/ Counter!Interrupt(p),
         broken = FALSE => CountHeld, broken' = FALSE
  PROVE  CountHeld'
<1> USE DEF CountTypes, CountHeld
<1>0. None \notin Counting
  BY Mod11Assumption
<1>1. CASE Counter!Join(p)
  <2>1. CountHeld /\ UNCHANGED <<count, increments, cMutex, cWhere, temp>>
    BY <1>1 DEF Counter!Join
  <2>2. CASE Counter!Area!Open(p) \/ Counter!Area!Extend(p)
    <3>1. cWhere[p] = "outside"
      BY <2>2 DEF Counter!Area!Open, Counter!Area!Extend
    <3>2. \A q \in Counting : q # p => step'[q] = step[q]
      BY <2>2 DEF Counter!Area!Open, Counter!Area!Extend, Counter!Area!TypeOK
    <3> QED
      BY <2>1, <3>1, <3>2
  <2>3. CASE Counter!Area!Fault(p)
    <3>1. step' = [step EXCEPT ![p] = "ended"]
      BY <2>3 DEF Counter!Area!Fault, Counter!Area!End
    <3> QED
      BY <2>1, <3>1 DEF Counter!Area!TypeOK
  <2> QED
    BY <1>1, <2>2, <2>3 DEF Counter!Join
<1>2. CASE Counter!SetUp(p)
  BY <1>0, <1>2 DEF Counter!SetUp, Counter!Area!SetUp
<1>3. CASE Counter!Interrupt(p)
  <2>1. CountHeld /\ step' = [step EXCEPT ![p] = "ended"]
    BY <1>3 DEF Counter!Interrupt, Counter!Area!End
  <2>2. cMutex' = cMutex \/ cMutex \in {None, p}
    BY <1>3 DEF Counter!Interrupt
  <2> QED
    BY <1>0, <1>3, <2>1, <2>2 DEF Counter!Interrupt, Counter!Area!TypeOK
<1> QED
  BY <1>1, <1>2, <1>3

LEMMA CountStep == CountInv /\ [NextMod11]_allVars => CountInv'
<1> SUFFICES ASSUME CountInv, [NextMod11]_allVars, program = "counter"
             PROVE  CountInv'
  BY Program DEF CountInv
<1>1. CountTypes /\ CountTypes'
  BY Program, CountTypeStep DEF CountInv
<1>2. CASE UNCHANGED Counter!vars
  BY <1>1, <1>2 DEF CountInv, CountHeld, Counter!vars, Counter!area
<1>3. ASSUME NEW p \in Counting, Counter!Loop(p)
      PROVE  CountInv'
  <2>1. \A q \in Counting : cWhere'[q] # "outside" => step'[q] \in {"mapped", "ended"}
    BY <1>1, <1>3 DEF CountInv, CountTypes, Counter!Loop, Counter!Lock,
       Counter!Load, Counter!Store, Counter!Unlock, Counter!At, Counter!area,
       Counter!Running, Counter!Area!Ready
  <2>2. synchronized' = synchronized /\ (~broken' => ~broken)
    BY <1>1, <1>3 DEF CountTypes, Counter!Loop, Counter!Lock, Counter!Load,
       Counter!Store, Counter!Unlock
  <2> QED
    BY <1>1, <1>3, <2>1, <2>2, CountLoop DEF CountInv, CountTypes
<1>4. ASSUME NEW p \in Counting,
             Counter!Join(p) \/ Counter!SetUp(p) \/ Counter!Interrupt(p)
      PROVE  CountInv'
  <2>1. \A q \in Counting : cWhere'[q] # "outside" => step'[q] \in {"mapped", "ended"}
    BY <1>1, <1>4 DEF CountInv, CountTypes, Counter!Join, Counter!SetUp,
       Counter!Interrupt, Counter!Area!Open, Counter!Area!Extend,
       Counter!Area!Fault, Counter!Area!End, Counter!Area!SetUp, Counter!Area!TypeOK
  <2>2. synchronized' = synchronized /\ (~broken' => ~broken)
    BY <1>1, <1>4 DEF CountTypes, Counter!Join, Counter!SetUp, Counter!Interrupt
  <2> QED
    BY <1>1, <1>4, <2>1, <2>2, CountJoin DEF CountInv, CountTypes
<1> QED
  BY <1>2, <1>3, <1>4, Program DEF Counter!Next
-----------------------------------------------------------------------------
\* The array.  Size elements are a slice; slice i ends where slice i + 1 begins.
LEMMA Division ==
  ASSUME NEW a \in Nat, NEW b \in Nat \ {0}
  PROVE  /\ a \div b \in Nat /\ b * (a \div b) <= a
         /\ a - (a % b) = b * (a \div b)
OBVIOUS

LEMMA Products ==
  ASSUME NEW s \in Nat, NEW k \in Nat, NEW m \in Nat, k <= m
  PROVE  k * s \in Nat /\ k * s <= m * s
OBVIOUS

LEMMA NextProduct ==
  ASSUME NEW s \in Nat, NEW k \in Nat
  PROVE  (k + 1) * s = k * s + s /\ ((k + 1) - 1) * s = k * s
OBVIOUS

LEMMA Slices ==
  ASSUME cores \in 1..MaxCores
  PROVE  /\ Parallel!Size \in Nat /\ cores * Parallel!Size <= N
         /\ N - (N % cores) = cores * Parallel!Size
<1>1. N \in Nat /\ cores \in Nat \ {0}
  BY Mod11Assumption
<1> QED
  BY <1>1, Division DEF Parallel!Size

LEMMA SliceAt ==
  ASSUME cores \in 1..MaxCores, NEW k \in 1..cores
  PROVE  /\ (k - 1) * Parallel!Size \in Nat /\ Parallel!Size \in Nat
         /\ k * Parallel!Size = (k - 1) * Parallel!Size + Parallel!Size
         /\ k * Parallel!Size <= N
<1>1. N \in Nat /\ cores \in Nat /\ k \in Nat /\ k - 1 \in Nat /\ k <= cores
  BY Mod11Assumption
<1>2. Parallel!Size \in Nat /\ cores * Parallel!Size <= N
  BY Slices
<1>3. (k - 1) * Parallel!Size \in Nat
  BY <1>1, <1>2, Products
<1>4. ((k - 1) + 1) * Parallel!Size = (k - 1) * Parallel!Size + Parallel!Size
  BY <1>1, <1>2, NextProduct
<1>5. (k - 1) + 1 = k
  BY <1>1
<1>6. k * Parallel!Size <= cores * Parallel!Size /\ k * Parallel!Size \in Nat
  BY <1>1, <1>2, Products
<1>7. cores * Parallel!Size \in Nat
  BY <1>1, <1>2, Products
<1> QED
  BY <1>1, <1>2, <1>3, <1>4, <1>5, <1>6, <1>7

\* The threads that have counted themselves in.
Past == {k \in 1..MaxCores : sWhere[k] \in {"add", "returned"}}
Slice(k) == ((k - 1) * Parallel!Size)..((k - 1) * Parallel!Size + Parallel!Size - 1)

SumTypes ==
  /\ cores \in 1..MaxCores /\ joined \in 0..cores /\ core \in Nat
  /\ tasks \in Seq([start : Nat, size : Nat]) /\ Len(tasks) <= cores
  /\ n \in [1..MaxCores -> Nat]
  /\ sWhere \in [1..MaxCores -> {"none", "load", "store", "add", "returned"}]
  /\ partial \in [1..MaxCores -> SUBSET Int]
  /\ sum \in [0..(N - 1) -> Nat]

\* Each thread has the slice after the one before it, and main has added up
\* those of the threads it has joined.
SumSlices ==
  /\ \A k \in 1..Len(tasks) :
       tasks[k].start = (k - 1) * Parallel!Size /\ tasks[k].size = Parallel!Size
  /\ \A k \in 1..MaxCores :
       /\ sWhere[k] # "none" => k <= Len(tasks)
       /\ partial[k] = IF sWhere[k] = "returned" THEN Slice(k) ELSE {}
  /\ \A e \in 0..(N - 1) :
       sum[e] = IF e < joined * Parallel!Size THEN 1 ELSE 0

\* The counter of cores may fall back, but is never ahead of the threads that
\* have counted; nor is what a thread has read of it.
SumCores ==
  /\ core <= Cardinality(Past)
  /\ \A k \in 1..MaxCores :
       /\ n[k] <= cores - 1
       /\ sWhere[k] = "store" => n[k] <= Cardinality(Past)

SumInv == program = "parallel" => SumTypes /\ SumSlices /\ SumCores

LEMMA SumStart == InitMod11 => SumInv
<1> SUFFICES ASSUME Parallel!Init
             PROVE  SumTypes /\ SumSlices /\ SumCores
  BY DEF InitMod11, InitSum, SumInv
<1> USE DEF Parallel!Init, Parallel!Thread, Parallel!Element
<1>1. SumTypes
  BY Mod11Assumption DEF SumTypes
<1>2. Parallel!Size \in Nat
  BY Slices
<1>3. SumSlices
  BY <1>2, Mod11Assumption DEF SumSlices
<1>4. Past = {}
  BY DEF Past
<1>5. SumCores
  BY <1>4, FS_EmptySet DEF SumCores
<1> QED
  BY <1>1, <1>3, <1>5

LEMMA PastFinite ==
  ASSUME SumTypes
  PROVE  IsFiniteSet(Past) /\ Cardinality(Past) \in Nat
<1>1. IsFiniteSet(1..MaxCores) /\ Past \subseteq 1..MaxCores
  BY Mod11Assumption, FS_Interval DEF Past
<1> QED
  BY <1>1, FS_Subset, FS_CardinalityType

\* While one thread has still to count, fewer have than there are cores.
LEMMA PastFew ==
  ASSUME SumTypes, SumSlices, NEW k \in 1..MaxCores, sWhere[k] \in {"load", "store"}
  PROVE  Cardinality(Past) <= cores - 1
<1>1. cores \in Nat
  BY Mod11Assumption DEF SumTypes
<1>2. IsFiniteSet(1..cores) /\ Cardinality(1..cores) = cores
  BY <1>1, FS_Interval
<1>3. k \in 1..cores
  BY <1>1 DEF SumTypes, SumSlices
<1>4. Past \subseteq (1..cores) \ {k}
  BY <1>1 DEF SumTypes, SumSlices, Past
<1>5. IsFiniteSet((1..cores) \ {k}) /\ Cardinality((1..cores) \ {k}) = cores - 1
  BY <1>2, <1>3, FS_RemoveElement
<1>6. Cardinality(Past) <= Cardinality((1..cores) \ {k})
  BY <1>4, <1>5, FS_Subset
<1> QED
  BY <1>5, <1>6

\* The thread that main creates next has done nothing yet.
LEMMA NextIsNew ==
  ASSUME SumTypes, SumSlices, Len(tasks) < cores
  PROVE  Len(tasks) + 1 \in 1..MaxCores /\ sWhere[Len(tasks) + 1] = "none"
<1>1. Len(tasks) \in Nat
  BY DEF SumTypes
<1>2. cores \in Nat /\ cores <= MaxCores /\ MaxCores \in Nat
  BY Mod11Assumption DEF SumTypes
<1>3. Len(tasks) + 1 \in 1..MaxCores
  BY <1>1, <1>2
<1>4. ~(Len(tasks) + 1 <= Len(tasks))
  BY <1>1
<1> QED
  BY <1>3, <1>4 DEF SumSlices

LEMMA SumTypeStep ==
  ASSUME SumTypes, Parallel!Next
  PROVE  SumTypes' /\ Parallel!Size' = Parallel!Size /\ cores' = cores
<1> USE DEF SumTypes, Parallel!Thread, Parallel!Element
<1>1. cores' = cores /\ Parallel!Size \in Nat
  BY Slices DEF Parallel!Next, Parallel!Create, Parallel!LoadCore, Parallel!StoreCore,
     Parallel!AddUp, Parallel!Join
<1>2. Parallel!Size' = Parallel!Size
  BY <1>1 DEF Parallel!Size
<1>3. CASE Parallel!Create
  <2>1. [start |-> Len(tasks) * Parallel!Size, size |-> Parallel!Size]
          \in [start : Nat, size : Nat]
    BY <1>1, Products
  <2>2. tasks' \in Seq([start : Nat, size : Nat]) /\ Len(tasks') <= cores
    BY <1>3, <2>1 DEF Parallel!Create
  <2>3. UNCHANGED <<core, n, partial, joined, sum>>
    BY <1>3 DEF Parallel!Create
  <2>4. cores' \in 1..MaxCores /\ joined' \in 0..cores' /\ core' \in Nat
    BY <1>1, <2>3
  <2>5. sWhere' \in [1..MaxCores -> {"none", "load", "store", "add", "returned"}]
    BY <1>3 DEF Parallel!Create
  <2>6. /\ n' \in [1..MaxCores -> Nat] /\ partial' \in [1..MaxCores -> SUBSET Int]
        /\ sum' \in [0..(N - 1) -> Nat]
    BY <2>3
  <2> QED
    BY <1>1, <1>2, <2>2, <2>4, <2>5, <2>6
<1>4. ASSUME NEW i \in 1..MaxCores, Parallel!LoadCore(i) \/ Parallel!StoreCore(i)
      PROVE  SumTypes'
  <2>1. UNCHANGED <<cores, tasks, partial, joined, sum>>
    BY <1>4 DEF Parallel!LoadCore, Parallel!StoreCore
  <2>2. core' \in Nat /\ n' \in [1..MaxCores -> Nat]
    <3>1. CASE Parallel!LoadCore(i)
      BY <3>1 DEF Parallel!LoadCore
    <3>2. CASE Parallel!StoreCore(i)
      <4>1. n[i] \in Nat /\ n' = n /\ core' = n[i] + 1
        BY <3>2 DEF Parallel!StoreCore
      <4> QED
        BY <4>1
    <3> QED
      BY <1>4, <3>1, <3>2
  <2>3. sWhere' \in [1..MaxCores -> {"none", "load", "store", "add", "returned"}]
    BY <1>4 DEF Parallel!LoadCore, Parallel!StoreCore
  <2> QED
    BY <2>1, <2>2, <2>3
<1>5. ASSUME NEW i \in 1..MaxCores, Parallel!AddUp(i)
      PROVE  SumTypes'
  <2>1. partial' \in [1..MaxCores -> SUBSET Int]
    BY <1>5 DEF Parallel!AddUp
  <2> QED
    BY <1>1, <1>5, <2>1 DEF Parallel!AddUp
<1>6. CASE Parallel!Join
  <2>1. joined' \in 0..cores
    BY <1>6 DEF Parallel!Join
  <2>2. sum' \in [0..(N - 1) -> Nat]
    <3>1. \A e \in 0..(N - 1) :
            (IF e \in partial[joined + 1] THEN sum[e] + 1 ELSE sum[e]) \in Nat
      OBVIOUS
    <3> QED
      BY <1>6, <3>1 DEF Parallel!Join
  <2>3. UNCHANGED <<cores, tasks, core, n, sWhere, partial>>
    BY <1>6 DEF Parallel!Join
  <2>4. cores' \in 1..MaxCores /\ joined' \in 0..cores' /\ core' \in Nat
    BY <2>1, <2>3
  <2>5. tasks' \in Seq([start : Nat, size : Nat]) /\ Len(tasks') <= cores'
    BY <2>3
  <2>6. /\ n' \in [1..MaxCores -> Nat]
        /\ sWhere' \in [1..MaxCores -> {"none", "load", "store", "add", "returned"}]
    BY <2>3
  <2>7. partial' \in [1..MaxCores -> SUBSET Int]
    BY <2>3
  <2> QED
    BY <1>1, <1>2, <2>2, <2>4, <2>5, <2>6, <2>7
<1> QED
  BY <1>1, <1>2, <1>3, <1>4, <1>5, <1>6 DEF Parallel!Next

LEMMA SumSliceStep ==
  ASSUME SumTypes, SumSlices, Parallel!Next
  PROVE  SumSlices'
<1> USE DEF SumTypes, Parallel!Thread, Parallel!Element
<1>1. Parallel!Size' = Parallel!Size /\ cores' = cores /\ SumTypes'
  BY SumTypeStep
<1>2. \A k \in 1..MaxCores : Slice(k)' = Slice(k)
  BY <1>1 DEF Slice
<1>3. CASE Parallel!Create
  <2>1. ASSUME NEW k \in 1..Len(tasks')
        PROVE  tasks'[k].start = (k - 1) * Parallel!Size /\ tasks'[k].size = Parallel!Size
    <3>1. CASE k \in 1..Len(tasks)
      BY <1>3, <3>1 DEF Parallel!Create, SumSlices
    <3>2. CASE k = Len(tasks) + 1
      <4>1. tasks'[k] = [start |-> Len(tasks) * Parallel!Size, size |-> Parallel!Size]
        BY <1>3, <3>2 DEF Parallel!Create
      <4>2. k - 1 = Len(tasks)
        BY <3>2
      <4> QED
        BY <4>1, <4>2
    <3> QED
      BY <1>3, <2>1, <3>1, <3>2 DEF Parallel!Create
  <2>2. Len(tasks') = Len(tasks) + 1 /\ sWhere[Len(tasks) + 1] = "none"
    BY <1>3, NextIsNew DEF Parallel!Create
  <2>3. \A k \in 1..MaxCores :
          /\ sWhere'[k] # "none" => k <= Len(tasks')
          /\ sWhere'[k] = "returned" <=> sWhere[k] = "returned"
    BY <1>3, <2>2 DEF Parallel!Create, SumSlices
  <2> QED
    BY <1>1, <1>2, <1>3, <2>1, <2>3 DEF Parallel!Create, SumSlices
<1>4. ASSUME NEW i \in 1..MaxCores, Parallel!LoadCore(i) \/ Parallel!StoreCore(i)
      PROVE  SumSlices'
  BY <1>1, <1>2, <1>4 DEF Parallel!LoadCore, Parallel!StoreCore, SumSlices
<1>5. ASSUME NEW i \in 1..MaxCores, Parallel!AddUp(i)
      PROVE  SumSlices'
  <2>1. i \in 1..Len(tasks)
    BY <1>5 DEF Parallel!AddUp, SumSlices
  <2>2. partial' = [partial EXCEPT ![i] = Slice(i)]
    BY <1>5, <2>1 DEF Parallel!AddUp, SumSlices, Slice
  <2> QED
    BY <1>1, <1>2, <1>5, <2>2 DEF Parallel!AddUp, SumSlices
<1>6. CASE Parallel!Join
  <2>1. joined + 1 \in 1..cores /\ joined \in 0..(cores - 1) /\ joined' = joined + 1
    BY <1>6 DEF Parallel!Join
  <2>2. partial[joined + 1] = Slice(joined + 1)
    <3>1. joined + 1 \in 1..MaxCores /\ sWhere[joined + 1] = "returned"
      BY <1>6, <2>1, Mod11Assumption DEF Parallel!Join
    <3> QED
      BY <3>1 DEF SumSlices
  <2>3. Slice(joined + 1)
          = joined * Parallel!Size .. (joined * Parallel!Size + Parallel!Size - 1)
    BY <2>1 DEF Slice
  <2>4. /\ joined' * Parallel!Size = joined * Parallel!Size + Parallel!Size
        /\ joined * Parallel!Size \in Nat /\ Parallel!Size \in Nat
    <3>1. (joined + 1) - 1 = joined
      BY <2>1
    <3> QED
      BY <2>1, <3>1, SliceAt
  <2>5. ASSUME NEW e \in 0..(N - 1)
        PROVE  sum'[e] = IF e < joined' * Parallel!Size THEN 1 ELSE 0
    <3> DEFINE lower == joined * Parallel!Size
    <3>1. e \in partial[joined + 1]
            <=> lower <= e /\ e <= lower + Parallel!Size - 1
      BY <2>2, <2>3, <2>4
    <3>2. sum[e] = IF e < lower THEN 1 ELSE 0
      BY DEF SumSlices
    <3>3. e < joined' * Parallel!Size <=> e < lower + Parallel!Size
      BY <2>4
    <3>4. sum'[e] = IF e \in partial[joined + 1] THEN sum[e] + 1 ELSE sum[e]
      BY <1>6 DEF Parallel!Join
    <3>5. lower \in Nat /\ Parallel!Size \in Nat
      BY <2>4
    <3> HIDE DEF lower
    <3> QED
      BY <3>1, <3>2, <3>3, <3>4, <3>5
  <2> QED
    BY <1>1, <1>2, <1>6, <2>5 DEF Parallel!Join, SumSlices
<1> QED
  BY <1>3, <1>4, <1>5, <1>6 DEF Parallel!Next

LEMMA SumCoreStep ==
  ASSUME SumTypes, SumSlices, SumCores, Parallel!Next
  PROVE  SumCores'
<1> USE DEF SumTypes, Parallel!Thread
<1>0. cores' = cores /\ IsFiniteSet(Past) /\ Cardinality(Past) \in Nat
  BY SumTypeStep, PastFinite
<1>1. CASE Parallel!Create
  <2>1. sWhere[Len(tasks) + 1] = "none"
    BY <1>1, NextIsNew DEF Parallel!Create
  <2>2. Past' = Past
    BY <1>1, <2>1 DEF Parallel!Create, Past
  <2> QED
    BY <1>0, <1>1, <2>2 DEF Parallel!Create, SumCores
<1>2. ASSUME NEW i \in 1..MaxCores, Parallel!LoadCore(i)
      PROVE  SumCores'
  <2>1. Past' = Past
    BY <1>2 DEF Parallel!LoadCore, Past
  <2>2. Cardinality(Past) <= cores - 1
    BY <1>2, PastFew DEF Parallel!LoadCore
  <2> QED
    BY <1>0, <1>2, <2>1, <2>2 DEF Parallel!LoadCore, SumCores
<1>3. ASSUME NEW i \in 1..MaxCores, Parallel!StoreCore(i)
      PROVE  SumCores'
  <2>1. i \notin Past /\ Past' = Past \cup {i}
    BY <1>3 DEF Parallel!StoreCore, Past
  <2>2. Cardinality(Past') = Cardinality(Past) + 1
    BY <1>0, <2>1, FS_AddElement
  <2> QED
    BY <1>0, <1>3, <2>2 DEF Parallel!StoreCore, SumCores
<1>4. ASSUME NEW i \in 1..MaxCores, Parallel!AddUp(i)
      PROVE  SumCores'
  <2>1. Past' = Past
    BY <1>4 DEF Parallel!AddUp, Past
  <2> QED
    BY <1>0, <1>4, <2>1 DEF Parallel!AddUp, SumCores
<1>5. CASE Parallel!Join
  <2>1. Past' = Past
    BY <1>5 DEF Parallel!Join, Past
  <2> QED
    BY <1>0, <1>5, <2>1 DEF Parallel!Join, SumCores
<1> QED
  BY <1>1, <1>2, <1>3, <1>4, <1>5 DEF Parallel!Next

LEMMA SumStep == SumInv /\ [NextMod11]_allVars => SumInv'
<1> SUFFICES ASSUME SumInv, [NextMod11]_allVars, program = "parallel"
             PROVE  SumInv'
  BY Program DEF SumInv
<1>1. SumTypes /\ SumSlices /\ SumCores
  BY DEF SumInv
<1>2. CASE Parallel!Next
  BY <1>1, <1>2, SumTypeStep, SumSliceStep, SumCoreStep DEF SumInv
<1>3. CASE UNCHANGED sumVars
  BY <1>1, <1>3 DEF sumVars, SumInv, SumTypes, SumSlices, SumCores, Past, Slice,
     Parallel!Size
<1> QED
  BY <1>2, <1>3, Program

LEMMA SumInvKept ==
  ASSUME SumTypes, SumSlices, SumCores
  PROVE  Parallel!SumKept
<1> USE DEF SumTypes, Parallel!Thread, Parallel!Element
<1>1. ASSUME NEW k \in 1..MaxCores
      PROVE  partial[k] \subseteq 0..(N - 1)
  <2>1. CASE sWhere[k] = "returned"
    <3>1. k \in 1..cores
      BY <2>1 DEF SumSlices
    <3> DEFINE lower == (k - 1) * Parallel!Size
    <3>2. lower \in Nat /\ k * Parallel!Size = lower + Parallel!Size
      BY <3>1, SliceAt
    <3>3. k * Parallel!Size <= N /\ Parallel!Size \in Nat
      BY <3>1, SliceAt
    <3>4. partial[k] = lower .. (lower + Parallel!Size - 1)
      BY <2>1 DEF SumSlices, Slice
    <3> HIDE DEF lower
    <3> QED
      BY <3>2, <3>3, <3>4, Mod11Assumption
  <2>2. CASE sWhere[k] # "returned"
    BY <2>2 DEF SumSlices
  <2> QED
    BY <2>1, <2>2
<1>2. ASSUME NEW k \in 1..MaxCores
      PROVE  n[k] \in 0..(cores - 1)
  <2>1. n[k] \in Nat /\ n[k] <= cores - 1 /\ cores \in Nat
    BY Mod11Assumption DEF SumCores
  <2> QED
    BY <2>1
<1>3. joined = cores =>
        \A e \in 0..(N - 1) : sum[e] = IF e < N - (N % cores) THEN 1 ELSE 0
  BY Slices DEF SumSlices
<1> QED
  BY <1>1, <1>2, <1>3 DEF Parallel!SumKept, Parallel!Done

(* The counter and the array: no increment is lost, by any number of       *)
(* processes, while the mutex is not reset (proc_mutex.c:111); no element  *)
(* is added up twice or left out, for any array and any number of cores    *)
(* (parallel.c:44).                                                        *)
THEOREM CountsKept == SpecMod11 => []CountKept
<1>1. CountInv /\ SumInv => CountKept
  BY SumInvKept DEF CountInv, CountHeld, CountKept, Counter!CountKept, SumInv
<1> QED
  BY <1>1, CountStart, CountStep, SumStart, SumStep, PTL DEF SpecMod11
-----------------------------------------------------------------------------
\* The read-write lock.
RwThread == Reader \cup Writer

RwPlaces ==
  rWhere \in [RwThread -> {"outside", "want rw", "want mutex", "hold rw",
                           "hold mutex"}]
RwTypes ==
  /\ Rw!Area!TypeOK /\ RwPlaces
  /\ userwlock \in BOOLEAN /\ crossed \in BOOLEAN

\* A process at work while another sets the area up is noted; a thread that
\* has left its start belongs to a process at work.
RwEarly ==
  /\ \A p, q \in Process : Rw!Area!Ready(p) /\ Rw!Area!SettingUp(q) => early
  /\ \A t \in RwThread : rWhere[t] # "outside" => Rw!Area!Ready(Home[t])

\* The choice is the one that each thread has read.
RwChosen ==
  /\ ~crossed
  /\ \A t \in RwThread :
       /\ rWhere[t] \in {"want rw", "hold rw"} => userwlock
       /\ rWhere[t] \in {"want mutex", "hold mutex"} => ~userwlock

\* The locks are with the threads that hold them.
RwHeld ==
  /\ \A t \in RwThread : rWhere[t] = "hold mutex" <=> rMutex = t
  /\ writer \in Writer \cup {None}
  /\ \A w \in Writer : rWhere[w] = "hold rw" <=> writer = w
  /\ \A r \in Reader : rWhere[r] = "hold rw" <=> r \in readers
  /\ writer # None => readers \cap Reader = {}

RwInv ==
  program = "rw" => RwTypes /\ RwEarly /\ (~early => RwChosen /\ RwHeld)

LEMMA RwStart == InitMod11 => RwInv
<1> SUFFICES ASSUME Rw!Init
             PROVE  RwTypes /\ RwEarly /\ RwChosen /\ RwHeld
  BY DEF InitMod11, InitRw, RwInv
<1> USE DEF RwThread, Rw!Thread
<1>1. early \in BOOLEAN /\ userwlock \in BOOLEAN /\ crossed \in BOOLEAN
  BY DEF Rw!Init, Rw!Area!Init
<1>2. Rw!Area!TypeOK
  <2>1. /\ file \in {"absent", "sized"} /\ creator = NoProcess
        /\ step \in [Process -> {"open", "mapped"}]
        /\ todo = [p \in Process |-> 0]
    BY DEF Rw!Init, Rw!Area!Init
  <2> QED
    BY <1>1, <2>1 DEF Rw!Area!TypeOK
<1>3. /\ rWhere = [t \in RwThread |-> "outside"]
      /\ writer = None /\ readers = {} /\ rMutex = None /\ ~crossed
  BY DEF Rw!Init
<1>4. RwTypes
  BY <1>1, <1>2, <1>3 DEF RwTypes, RwPlaces
<1>5. RwEarly
  <2>1. \A q \in Process : ~Rw!Area!SettingUp(q)
    BY Mod11Assumption DEF Rw!Init, Rw!Area!Init, Rw!Area!SettingUp
  <2> QED
    BY <1>3, <2>1 DEF RwEarly
<1>6. RwChosen /\ RwHeld
  BY <1>3, Mod11Assumption DEF RwChosen, RwHeld
<1> QED
  BY <1>4, <1>5, <1>6

LEMMA RwAreaStep ==
  ASSUME Rw!Area!TypeOK, NEW p \in Process,
         \/ Rw!Area!Open(p) \/ Rw!Area!Extend(p)
         \/ Rw!Area!SetUp(p) \/ Rw!Area!End(p)
  PROVE  /\ Rw!Area!TypeOK' /\ (early => early')
         /\ \A q, r \in Process : Rw!Area!Ready(q)' /\ Rw!Area!SettingUp(r)' => early'
<1>1. Rw!Area!NoteEarly
  BY DEF Rw!Area!Open, Rw!Area!Extend, Rw!Area!SetUp, Rw!Area!End
<1>2. /\ early => early'
      /\ \A q, r \in Process : Rw!Area!Ready(q)' /\ Rw!Area!SettingUp(r)' => early'
  BY <1>1 DEF Rw!Area!NoteEarly
<1>3. early' \in BOOLEAN
  BY <1>1 DEF Rw!Area!NoteEarly, Rw!Area!TypeOK
<1>4. CASE Rw!Area!Open(p) \/ Rw!Area!End(p)
  BY <1>2, <1>3, <1>4 DEF Rw!Area!Open, Rw!Area!End, Rw!Area!TypeOK
<1>5. CASE Rw!Area!Extend(p)
  BY <1>2, <1>3, <1>5 DEF Rw!Area!Extend, Rw!Area!TypeOK
<1>6. CASE Rw!Area!SetUp(p)
  BY <1>2, <1>3, <1>6 DEF Rw!Area!SetUp, Rw!Area!TypeOK
<1> QED
  BY <1>4, <1>5, <1>6

\* What the processes do, and what their threads do.
RwSetUp(p) == Rw!Join(p) \/ Rw!Choose(p) \/ Rw!Usage(p) \/ Rw!InitLock(p)

LEMMA RwSetUpArea ==
  ASSUME RwTypes, NEW p \in Process, RwSetUp(p)
  PROVE  /\ Rw!Area!Open(p) \/ Rw!Area!Extend(p) \/ Rw!Area!SetUp(p) \/ Rw!Area!End(p)
         /\ rWhere' = rWhere /\ crossed' = crossed
BY DEF RwSetUp, Rw!Join, Rw!Choose, Rw!Usage, Rw!InitLock

LEMMA RwLoopArea ==
  ASSUME NEW t \in RwThread, Rw!Loop(t)
  PROVE  UNCHANGED Rw!area /\ userwlock' = userwlock
BY DEF Rw!Loop, Rw!Read, Rw!LockRw, Rw!LockMutex, Rw!Unlock

LEMMA RwTypeStep ==
  ASSUME RwTypes, Rw!Next
  PROVE  RwTypes'
<1>1. ASSUME NEW p \in Process, RwSetUp(p)
      PROVE  RwTypes'
  <2>1. Rw!Area!TypeOK'
    BY <1>1, RwSetUpArea, RwAreaStep DEF RwTypes
  <2>2. userwlock' \in BOOLEAN
    BY <1>1 DEF RwTypes, RwSetUp, Rw!Join, Rw!Choose, Rw!Usage, Rw!InitLock
  <2> QED
    BY <1>1, <2>1, <2>2, RwSetUpArea DEF RwTypes, RwPlaces
<1>2. ASSUME NEW t \in RwThread, Rw!Loop(t)
      PROVE  RwTypes'
  <2>1. Rw!Area!TypeOK' /\ userwlock' \in BOOLEAN
    BY <1>2, RwLoopArea DEF RwTypes, Rw!area, Rw!Area!TypeOK
  <2>2. crossed' \in BOOLEAN
    BY <1>2 DEF RwTypes, Rw!Loop, Rw!Read, Rw!LockRw, Rw!LockMutex, Rw!Unlock
  <2>3. RwPlaces'
    BY <1>2 DEF RwTypes, RwPlaces, Rw!Loop, Rw!Read, Rw!LockRw, Rw!LockMutex, Rw!Unlock, Rw!At
  <2> QED
    BY <2>1, <2>2, <2>3 DEF RwTypes
<1> QED
  BY <1>1, <1>2 DEF Rw!Next, RwSetUp, Rw!Thread, RwThread

\* A process that is ready stays so.
LEMMA RwEarlyStep ==
  ASSUME RwTypes, RwEarly, Rw!Next
  PROVE  RwEarly' /\ (early => early')
<1>1. ASSUME NEW p \in Process, RwSetUp(p)
      PROVE  RwEarly' /\ (early => early')
  <2>1. /\ early => early'
        /\ \A q, r \in Process : Rw!Area!Ready(q)' /\ Rw!Area!SettingUp(r)' => early'
    BY <1>1, RwSetUpArea, RwAreaStep DEF RwTypes
  <2>2. \A q \in Process : Rw!Area!Ready(q) => Rw!Area!Ready(q)'
    <3>1. CASE Rw!Join(p)
      BY <3>1 DEF Rw!Join, Rw!Area!Open, Rw!Area!Extend, Rw!Area!Ready, RwTypes,
         Rw!Area!TypeOK
    <3>2. CASE ~Rw!Join(p)
      <4>0. step \in [Process -> {"open", "extend", "mapped", "ended"}]
            /\ todo \in [Process -> 0..2]
        BY DEF RwTypes, Rw!Area!TypeOK
      <4>1. \A q \in Process : q # p => step'[q] = step[q] /\ todo'[q] = todo[q]
        BY <1>1, <3>2, <4>0 DEF RwSetUp, Rw!Choose, Rw!Usage, Rw!InitLock, Rw!Area!SetUp,
           Rw!Area!End
      <4>2. todo[p] # 0
        BY <1>1, <3>2 DEF RwSetUp, Rw!Choose, Rw!Usage, Rw!InitLock
      <4> QED
        BY <4>1, <4>2 DEF Rw!Area!Ready
    <3> QED
      BY <3>1, <3>2
  <2>3. \A t \in RwThread : Home[t] \in Process
    BY Mod11Assumption DEF RwThread
  <2> QED
    BY <1>1, <2>1, <2>2, <2>3, RwSetUpArea DEF RwEarly
<1>2. ASSUME NEW t \in RwThread, Rw!Loop(t)
      PROVE  RwEarly' /\ (early => early')
  <2>1. UNCHANGED <<file, creator, step, todo, early>>
    BY <1>2, RwLoopArea DEF Rw!area
  <2>2. \A u \in RwThread : rWhere'[u] # "outside" => Rw!Area!Ready(Home[u])
    BY <1>2 DEF RwTypes, RwPlaces, RwEarly, Rw!Loop, Rw!Read, Rw!LockRw, Rw!LockMutex,
       Rw!Unlock, Rw!At
  <2> QED
    BY <2>1, <2>2 DEF RwEarly, Rw!Area!Ready, Rw!Area!SettingUp, Rw!Area!CreatedHere
<1> QED
  BY <1>1, <1>2 DEF Rw!Next, RwSetUp, Rw!Thread, RwThread

\* Before the creator has done, nobody has done anything, unless it was early.
LEMMA RwSetUpHeld ==
  ASSUME RwTypes, RwEarly, RwChosen, RwHeld, ~early, NEW p \in Process, RwSetUp(p)
  PROVE  RwChosen' /\ RwHeld'
<1>1. CASE Rw!Join(p) \/ Rw!Usage(p)
  <2>1. UNCHANGED <<userwlock, writer, readers, rMutex, rWhere, crossed>>
    BY <1>1 DEF Rw!Join, Rw!Usage, Rw!locks
  <2> QED
    BY <2>1 DEF RwChosen, RwHeld
<1>2. CASE Rw!Choose(p) \/ Rw!InitLock(p)
  <2>1. Rw!Area!SettingUp(p)
    BY <1>2 DEF Rw!Choose, Rw!InitLock, Rw!Area!SetUp, Rw!Area!SettingUp
  <2>2. \A t \in RwThread : Home[t] \in Process
    BY Mod11Assumption DEF RwThread
  <2>3. \A t \in RwThread : rWhere[t] = "outside" /\ rWhere'[t] = "outside"
    BY <1>2, <2>1, <2>2, RwSetUpArea DEF RwEarly
  <2>4. writer = None /\ readers \cap Reader = {} /\ \A t \in RwThread : rMutex # t
    BY <2>3 DEF RwHeld, RwThread
  <2>5. writer' = None /\ readers' \cap Reader = {} /\ \A t \in RwThread : rMutex' # t
    BY <1>2, <2>4, Mod11Assumption DEF Rw!Choose, Rw!InitLock, Rw!locks, RwThread
  <2>6. ~crossed'
    BY RwSetUpArea DEF RwChosen
  <2>7. RwChosen'
    BY <2>3, <2>6 DEF RwChosen
  <2>8. RwHeld'
    BY <2>3, <2>5, Mod11Assumption DEF RwHeld, RwThread
  <2> QED
    BY <2>7, <2>8
<1> QED
  BY <1>1, <1>2 DEF RwSetUp

LEMMA RwLoopHeld ==
  ASSUME RwTypes, RwChosen, RwHeld, NEW t \in RwThread, Rw!Loop(t)
  PROVE  RwChosen' /\ RwHeld'
<1>0. /\ userwlock' <=> userwlock
      /\ \A u \in RwThread : u # t => rWhere'[u] = rWhere[u]
  <2>1. userwlock' <=> userwlock
    BY RwLoopArea
  <2>2. RwPlaces /\ \E place : Rw!At(t, place)
    BY DEF RwTypes, Rw!Loop, Rw!Read, Rw!LockRw, Rw!LockMutex, Rw!Unlock
  <2> QED
    BY <2>1, <2>2 DEF RwPlaces, Rw!At
<1>1. CASE Rw!Read(t)
  <2>1. UNCHANGED <<writer, readers, rMutex>> /\ (crossed' <=> crossed)
    BY <1>1 DEF Rw!Read, Rw!locks
  <2>2. rWhere'[t] = IF userwlock THEN "want rw" ELSE "want mutex"
    BY <1>1 DEF Rw!Read, Rw!At, RwTypes, RwPlaces
  <2>3. rWhere[t] = "outside"
    BY <1>1 DEF Rw!Read
  <2>4. RwChosen'
    BY <1>0, <2>1, <2>2 DEF RwChosen
  <2>5. RwHeld'
    BY <1>0, <2>1, <2>2, <2>3 DEF RwHeld, RwThread
  <2> QED
    BY <2>4, <2>5
<1>2. CASE Rw!LockMutex(t)
  <2>1. /\ rWhere[t] = "want mutex" /\ rMutex = None /\ (crossed' <=> crossed)
        /\ rMutex' = t /\ UNCHANGED <<writer, readers>>
    BY <1>2 DEF Rw!LockMutex
  <2>2. rWhere'[t] = "hold mutex"
    BY <1>2 DEF Rw!LockMutex, Rw!At, RwTypes, RwPlaces
  <2>3. RwChosen'
    BY <1>0, <2>1, <2>2 DEF RwChosen
  <2>4. RwHeld'
    BY <1>0, <2>1, <2>2, Mod11Assumption DEF RwHeld, RwThread
  <2> QED
    BY <2>3, <2>4
<1>3. CASE Rw!LockRw(t)
  <2>1. rWhere[t] = "want rw" /\ writer = None /\ (crossed' <=> crossed) /\ rMutex' = rMutex
    BY <1>3 DEF Rw!LockRw
  <2>2. rWhere'[t] = "hold rw"
    BY <1>3 DEF Rw!LockRw, Rw!At, RwTypes, RwPlaces
  <2>3. RwChosen'
    BY <1>0, <2>1, <2>2 DEF RwChosen
  <2>4. \A u \in RwThread : rWhere'[u] = "hold mutex" <=> rMutex' = u
    BY <1>0, <2>1, <2>2 DEF RwHeld
  <2>5. CASE t \in Writer /\ readers = {} /\ writer' = t /\ readers' = readers
    <3>1. \A w \in Writer : rWhere'[w] = "hold rw" <=> writer' = w
      BY <1>0, <2>1, <2>2, <2>5, Mod11Assumption DEF RwHeld, RwThread
    <3>2. \A r \in Reader : rWhere'[r] # "hold rw"
      BY <1>0, <2>5, Mod11Assumption DEF RwHeld, RwThread
    <3> QED
      BY <2>1, <2>3, <2>4, <2>5, <3>1, <3>2 DEF RwHeld
  <2>6. CASE t \in Reader /\ readers' = readers \cup {t} /\ writer' = writer
    <3>1. \A w \in Writer : w # t
      BY <2>6, Mod11Assumption
    <3>2. \A w \in Writer : rWhere'[w] = "hold rw" <=> writer' = w
      BY <1>0, <2>6, <3>1 DEF RwHeld, RwThread
    <3>3. \A r \in Reader : rWhere'[r] = "hold rw" <=> r \in readers'
      BY <1>0, <2>2, <2>6 DEF RwHeld, RwThread
    <3> QED
      BY <2>1, <2>3, <2>4, <2>6, <3>2, <3>3 DEF RwHeld
  <2> QED
    BY <1>3, <2>3, <2>5, <2>6 DEF Rw!LockRw
<1>4. CASE Rw!Unlock(t)
  <2>1. rWhere[t] \in {"hold rw", "hold mutex"} /\ rWhere'[t] = "outside"
    BY <1>4 DEF Rw!Unlock, Rw!At, RwTypes, RwPlaces
  <2>2. userwlock <=> rWhere[t] = "hold rw"
    BY <2>1 DEF RwChosen
  <2>3. ~crossed'
    BY <1>4, <2>2 DEF Rw!Unlock, RwChosen
  <2>4. RwChosen'
    BY <1>0, <2>1, <2>3 DEF RwChosen
  <2>5. RwHeld'
    BY <1>0, <1>4, <2>1, <2>2, Mod11Assumption DEF Rw!Unlock, RwHeld, RwThread
  <2> QED
    BY <2>4, <2>5
<1> QED
  BY <1>1, <1>2, <1>3, <1>4 DEF Rw!Loop

LEMMA RwStep == RwInv /\ [NextMod11]_allVars => RwInv'
<1> SUFFICES ASSUME RwInv, [NextMod11]_allVars, program = "rw"
             PROVE  RwInv'
  BY Program DEF RwInv
<1>1. RwTypes /\ RwEarly /\ (~early => RwChosen /\ RwHeld)
  BY DEF RwInv
<1>2. CASE Rw!Next
  <2>1. RwTypes' /\ RwEarly' /\ (early => early')
    BY <1>1, <1>2, RwTypeStep, RwEarlyStep
  <2>2. ASSUME NEW p \in Process, RwSetUp(p), ~early
        PROVE  RwChosen' /\ RwHeld'
    BY <1>1, <2>2, RwSetUpHeld
  <2>3. ASSUME NEW t \in RwThread, Rw!Loop(t), ~early
        PROVE  RwChosen' /\ RwHeld'
    BY <1>1, <2>3, RwLoopHeld
  <2>4. ~early => RwChosen' /\ RwHeld'
    BY <1>2, <2>2, <2>3 DEF Rw!Next, RwSetUp, Rw!Thread, RwThread
  <2> QED
    BY <2>1, <2>4 DEF RwInv
<1>3. CASE UNCHANGED Rw!vars
  <2>1. UNCHANGED <<userwlock, writer, readers, rMutex, rWhere, crossed, file,
                    creator, step, todo, early>>
    BY <1>3 DEF Rw!vars, Rw!locks, Rw!area
  <2>2. RwTypes'
    BY <1>1, <2>1 DEF RwTypes, RwPlaces, Rw!Area!TypeOK
  <2>3. RwEarly'
    BY <1>1, <2>1 DEF RwEarly, Rw!Area!Ready, Rw!Area!SettingUp, Rw!Area!CreatedHere
  <2>4. ~early' => RwChosen' /\ RwHeld'
    BY <1>1, <2>1 DEF RwChosen, RwHeld
  <2> QED
    BY <2>2, <2>3, <2>4 DEF RwInv
<1> QED
  BY <1>2, <1>3, Program

(* The read-write lock: a writer is alone and each thread gives back the   *)
(* lock it took, for any number of processes, readers and writers, unless  *)
(* a process was at work before the creator had made its choice            *)
(* (proc_rw.c).                                                            *)
THEOREM WritersAlone == SpecMod11 => []WriterAlone
<1>1. RwChosen /\ RwHeld => Rw!WriterAlone
  <2> SUFFICES ASSUME RwChosen, RwHeld, NEW w \in Writer, NEW t \in RwThread,
                      w # t, Rw!Holding(w), Rw!Holding(t)
               PROVE  FALSE
    BY DEF Rw!WriterAlone, Rw!Thread, RwThread, RwChosen
  <2> USE DEF RwThread, Rw!Holding
  <2>1. CASE rWhere[w] = "hold mutex"
    <3>1. ~userwlock
      BY <2>1 DEF RwChosen
    <3>2. rWhere[t] = "hold mutex"
      BY <3>1 DEF RwChosen
    <3> QED
      BY <2>1, <3>2 DEF RwHeld
  <2>2. CASE rWhere[w] = "hold rw"
    <3>1. rWhere[t] = "hold rw" /\ writer = w
      BY <2>2 DEF RwChosen, RwHeld
    <3> QED
      BY <3>1, Mod11Assumption DEF RwHeld
  <2> QED
    BY <2>1, <2>2
<1>2. RwInv => WriterAlone
  BY <1>1 DEF RwInv, WriterAlone, Rw!WriterAlone
<1> QED
  BY <1>2, RwStart, RwStep, PTL DEF SpecMod11
-----------------------------------------------------------------------------
\* The stack that processes share.
StackTypes ==
  /\ ProcStack!Area!TypeOK /\ ProcStack!Stack!TypeOK /\ net \in Int
  /\ \A t \in Thread : pWhere[t] # "outside" => pLeft[t] > 0

\* Threads at work belong to processes that are ready; only the creator of a
\* new file, which is empty, sets the stack up.
StackEarly ==
  /\ \A p, q \in Process :
       ProcStack!Area!Ready(p) /\ ProcStack!Area!SettingUp(q) => early
  /\ \A t \in Thread : pWhere[t] # "outside" => ProcStack!Area!Ready(Home[t])
StackNew ==
  /\ creator \in Process => step[creator] # "open"
  /\ \A p \in Process : todo[p] > 0 => p = creator
  /\ file = "absent" => /\ creator = NoProcess /\ pIndex = 0 /\ net = 0
                        /\ \A p \in Process : step[p] = "open"

\* Until the creator is through, the stack is as empty as the file was.
StackCounted ==
  /\ pIndex = net
  /\ \A p \in Process : ProcStack!Area!SettingUp(p) => pIndex = 0
  /\ \A t \in Thread : pWhere[t] \in {"inside", "leaving"} <=> pMutex = t

StackInv ==
  program = "procstack" =>
    StackTypes /\ StackEarly /\ StackNew /\ (~early => StackCounted)

LEMMA StackStart == InitMod11 => StackInv
<1> SUFFICES ASSUME ProcStack!Init
             PROVE  StackTypes /\ StackEarly /\ StackNew /\ StackCounted
  BY DEF InitMod11, InitProcStack, StackInv
<1> USE StackAssumption, Mod11Assumption DEF ProcStack!Thread, Thread
<1>1. early \in BOOLEAN
  BY DEF ProcStack!Init, ProcStack!Area!Init
<1>2. /\ file \in {"absent", "sized"} /\ creator = NoProcess
      /\ step = [p \in Process |-> "open"] /\ todo = [p \in Process |-> 0]
  BY DEF ProcStack!Init, ProcStack!Area!Init
<1>3. /\ pMutex = None /\ pWhere = [t \in Thread |-> "outside"] /\ pSpurious = 0
      /\ pLeft = [t \in Thread |-> ProcMaxCount]
  BY DEF ProcStack!Init
<1>4. /\ pIndex \in 0..ProcStackSize /\ net = pIndex
      /\ file = "absent" => pIndex = 0
  BY DEF ProcStack!Init
<1>5. ProcStack!Area!TypeOK
  BY <1>1, <1>2 DEF ProcStack!Area!TypeOK
<1>6. ProcStack!Stack!TypeOK
  BY <1>3, <1>4 DEF ProcStack!Stack!TypeOK, ProcStack!Stack!Thread
<1>7. \A q \in Process : ~ProcStack!Area!SettingUp(q)
  BY <1>2 DEF ProcStack!Area!SettingUp
<1>8. StackTypes
  BY <1>3, <1>4, <1>5, <1>6 DEF StackTypes
<1>9. StackEarly /\ StackNew
  BY <1>2, <1>3, <1>4, <1>7 DEF StackEarly, StackNew
<1>10. StackCounted
  BY <1>3, <1>4, <1>7 DEF StackCounted
<1> QED
  BY <1>8, <1>9, <1>10

StackSetUp(p) == ProcStack!Join(p) \/ ProcStack!SetUp(p)

LEMMA StackAreaStep ==
  ASSUME ProcStack!Area!TypeOK, NEW p \in Process,
         \/ ProcStack!Area!Open(p) \/ ProcStack!Area!Extend(p)
         \/ ProcStack!Area!SetUp(p)
  PROVE  /\ ProcStack!Area!TypeOK' /\ (early => early')
         /\ \A q, r \in Process :
              ProcStack!Area!Ready(q)' /\ ProcStack!Area!SettingUp(r)' => early'
         /\ \A q \in Process : ProcStack!Area!Ready(q) => ProcStack!Area!Ready(q)'
<1>1. ProcStack!Area!NoteEarly
  BY DEF ProcStack!Area!Open, ProcStack!Area!Extend, ProcStack!Area!SetUp
<1>2. /\ early => early'
      /\ \A q, r \in Process :
           ProcStack!Area!Ready(q)' /\ ProcStack!Area!SettingUp(r)' => early'
  BY <1>1 DEF ProcStack!Area!NoteEarly
<1>3. early' \in BOOLEAN
  BY <1>1 DEF ProcStack!Area!NoteEarly, ProcStack!Area!TypeOK
<1>4. /\ step \in [Process -> {"open", "extend", "mapped", "ended"}]
      /\ todo \in [Process -> 0..3]
  BY DEF ProcStack!Area!TypeOK
<1>5. CASE ProcStack!Area!Open(p)
  <2>1. ProcStack!Area!TypeOK'
    BY <1>3, <1>5 DEF ProcStack!Area!Open, ProcStack!Area!TypeOK
  <2>2. \A q \in Process : ProcStack!Area!Ready(q) => ProcStack!Area!Ready(q)'
    BY <1>4, <1>5 DEF ProcStack!Area!Open, ProcStack!Area!Ready
  <2> QED
    BY <1>2, <2>1, <2>2
<1>6. CASE ProcStack!Area!Extend(p)
  <2>1. ProcStack!Area!TypeOK'
    BY <1>3, <1>6 DEF ProcStack!Area!Extend, ProcStack!Area!TypeOK
  <2>2. \A q \in Process : ProcStack!Area!Ready(q) => ProcStack!Area!Ready(q)'
    BY <1>4, <1>6 DEF ProcStack!Area!Extend, ProcStack!Area!Ready
  <2> QED
    BY <1>2, <2>1, <2>2
<1>7. CASE ProcStack!Area!SetUp(p)
  <2>1. ProcStack!Area!TypeOK'
    BY <1>3, <1>7 DEF ProcStack!Area!SetUp, ProcStack!Area!TypeOK
  <2>2. \A q \in Process : ProcStack!Area!Ready(q) => ProcStack!Area!Ready(q)'
    BY <1>4, <1>7 DEF ProcStack!Area!SetUp, ProcStack!Area!Ready
  <2> QED
    BY <1>2, <2>1, <2>2
<1> QED
  BY <1>5, <1>6, <1>7

LEMMA StackTypeStep ==
  ASSUME StackTypes, ProcStack!Next
  PROVE  StackTypes'
<1> USE StackAssumption, Mod11Assumption
<1>1. ASSUME NEW p \in Process, StackSetUp(p)
      PROVE  StackTypes'
  <2>1. ProcStack!Area!TypeOK'
    BY <1>1, StackAreaStep DEF StackTypes, StackSetUp, ProcStack!Join, ProcStack!SetUp
  <2>2. /\ pIndex' \in 0..ProcStackSize /\ pMutex' \in Thread \cup {None}
        /\ UNCHANGED <<pWhere, pLeft, pSpurious, net>>
    BY <1>1 DEF StackTypes, StackSetUp, ProcStack!Join, ProcStack!SetUp,
       ProcStack!stack, ProcStack!Stack!TypeOK, ProcStack!Stack!Thread, Thread
  <2>3. ProcStack!Stack!TypeOK'
    BY <2>2 DEF StackTypes, ProcStack!Stack!TypeOK, ProcStack!Stack!Thread, Thread
  <2> QED
    BY <2>1, <2>2, <2>3 DEF StackTypes
<1>2. ASSUME NEW t \in Thread, ProcStack!PushOrPop(t)
      PROVE  StackTypes'
  <2> USE DEF StackTypes, ProcStack!Stack!TypeOK, ProcStack!Stack!Thread, Thread
  <2>1. ProcStack!Area!TypeOK'
    BY <1>2 DEF ProcStack!PushOrPop, ProcStack!area, ProcStack!Area!TypeOK
  <2>2. ProcStack!Stack!TypeOK' /\ \A u \in Thread : pWhere'[u] # "outside" => pLeft'[u] > 0
    <3>1. CASE ProcStack!Stack!Lock(t)
      BY <3>1 DEF ProcStack!Stack!Lock
    <3>2. CASE ProcStack!Stack!Sleep(t)
      BY <3>2 DEF ProcStack!Stack!Sleep
    <3>3. CASE ProcStack!Stack!Change(t)
      <4>1. pIndex' \in 0..ProcStackSize
        BY <3>3 DEF ProcStack!Stack!Change, ProcStack!Stack!MustWait
      <4>2. /\ pWhere' \in [Thread -> {"outside", "inside", "asleep", "woken", "leaving"}]
            /\ \A u \in Thread : pWhere'[u] # "outside" => pWhere[u] # "outside"
        BY <3>3 DEF ProcStack!Stack!Change, ProcStack!Stack!Signal, ProcStack!Stack!Asleep
      <4> QED
        BY <3>3, <4>1, <4>2 DEF ProcStack!Stack!Change
    <3>4. CASE ProcStack!Stack!Unlock(t)
      BY <3>4 DEF ProcStack!Stack!Unlock
    <3> QED
      BY <1>2, <3>1, <3>2, <3>3, <3>4 DEF ProcStack!PushOrPop, ProcStack!Stack!Step
  <2>3. net' \in Int
    BY <1>2, <2>2 DEF ProcStack!PushOrPop
  <2> QED
    BY <2>1, <2>2, <2>3
<1> QED
  BY <1>1, <1>2 DEF ProcStack!Next, StackSetUp, ProcStack!Thread, Thread

LEMMA StackEarlyStep ==
  ASSUME StackTypes, StackEarly, ProcStack!Next
  PROVE  StackEarly' /\ (early => early')
<1>1. ASSUME NEW p \in Process, StackSetUp(p)
      PROVE  StackEarly' /\ (early => early')
  <2>1. /\ early => early'
        /\ \A q, r \in Process :
             ProcStack!Area!Ready(q)' /\ ProcStack!Area!SettingUp(r)' => early'
        /\ \A q \in Process : ProcStack!Area!Ready(q) => ProcStack!Area!Ready(q)'
    BY <1>1, StackAreaStep DEF StackTypes, StackSetUp, ProcStack!Join, ProcStack!SetUp
  <2>2. pWhere' = pWhere /\ \A t \in Thread : Home[t] \in Process
    BY <1>1, Mod11Assumption DEF StackSetUp, ProcStack!Join, ProcStack!SetUp,
       ProcStack!stack
  <2> QED
    BY <2>1, <2>2 DEF StackEarly
<1>2. ASSUME NEW t \in Thread, ProcStack!PushOrPop(t)
      PROVE  StackEarly' /\ (early => early')
  <2>1. UNCHANGED <<file, creator, step, todo, early>>
    BY <1>2 DEF ProcStack!PushOrPop, ProcStack!area
  <2>2. \A u \in Thread : pWhere'[u] # "outside" => pWhere[u] # "outside" \/ u = t
    BY <1>2 DEF StackTypes, ProcStack!Stack!TypeOK, ProcStack!Stack!Thread, Thread,
       ProcStack!PushOrPop, ProcStack!Stack!Step, ProcStack!Stack!Lock,
       ProcStack!Stack!Sleep, ProcStack!Stack!Change, ProcStack!Stack!Unlock,
       ProcStack!Stack!Signal, ProcStack!Stack!Asleep
  <2>3. ProcStack!Area!Ready(Home[t])
    BY <1>2 DEF ProcStack!PushOrPop
  <2> QED
    BY <2>1, <2>2, <2>3 DEF StackEarly, ProcStack!Area!Ready,
       ProcStack!Area!SettingUp, ProcStack!Area!CreatedHere
<1> QED
  BY <1>1, <1>2 DEF ProcStack!Next, StackSetUp, ProcStack!Thread, Thread

LEMMA StackNewStep ==
  ASSUME StackTypes, StackNew, ProcStack!Next
  PROVE  StackNew'
<1>0. /\ step \in [Process -> {"open", "extend", "mapped", "ended"}]
      /\ todo \in [Process -> 0..3]
  BY DEF StackTypes, ProcStack!Area!TypeOK
<1>1. ASSUME NEW p \in Process, ProcStack!Area!Open(p), ProcStack!Join(p)
      PROVE  StackNew'
  BY <1>0, <1>1, Mod11Assumption DEF StackNew, ProcStack!Join, ProcStack!stack,
     ProcStack!Area!Open
<1>2. ASSUME NEW p \in Process, ProcStack!Area!Extend(p), ProcStack!Join(p)
      PROVE  StackNew'
  <2>1. ProcStack!Area!CreatedHere(p) => p = creator
    BY DEF ProcStack!Area!CreatedHere
  <2>2. step[p] = "extend" /\ file # "absent" /\ file' # "absent" /\ creator' = creator
    BY <1>2 DEF StackNew, ProcStack!Area!Extend
  <2>3. /\ step' = [step EXCEPT ![p] = "mapped"]
        /\ \A q \in Process : todo'[q] > 0 => todo[q] > 0 \/ q = creator
    BY <1>0, <1>2, <2>1 DEF ProcStack!Area!Extend
  <2> QED
    BY <1>0, <2>2, <2>3 DEF StackNew
<1>3. ASSUME NEW p \in Process, ProcStack!SetUp(p)
      PROVE  StackNew'
  <2>1. step[p] = "mapped" /\ file # "absent" /\ UNCHANGED <<file, creator, step>>
    BY <1>3 DEF StackNew, ProcStack!SetUp, ProcStack!Area!SetUp
  <2>2. \A q \in Process : todo'[q] > 0 => todo[q] > 0
    BY <1>0, <1>3 DEF ProcStack!SetUp, ProcStack!Area!SetUp
  <2> QED
    BY <2>1, <2>2 DEF StackNew
<1>4. ASSUME NEW t \in Thread, ProcStack!PushOrPop(t)
      PROVE  StackNew'
  <2>1. UNCHANGED <<file, creator, step, todo, early>>
    BY <1>4 DEF ProcStack!PushOrPop, ProcStack!area
  <2>2. file # "absent"
    BY <1>4, Mod11Assumption DEF ProcStack!PushOrPop, StackNew, ProcStack!Area!Ready
  <2> QED
    BY <2>1, <2>2 DEF StackNew
<1> QED
  BY <1>1, <1>2, <1>3, <1>4 DEF ProcStack!Next, ProcStack!Thread, Thread, ProcStack!Join

LEMMA StackSetUpCounted ==
  ASSUME StackTypes, StackEarly, StackNew, StackCounted, ~early,
         NEW p \in Process, StackSetUp(p)
  PROVE  StackCounted'
<1>0. /\ step \in [Process -> {"open", "extend", "mapped", "ended"}]
      /\ todo \in [Process -> 0..3]
  BY DEF StackTypes, ProcStack!Area!TypeOK
<1> USE DEF ProcStack!Area!SettingUp
<1>1. CASE ProcStack!Join(p)
  <2>1. UNCHANGED <<pIndex, pMutex, pWhere, net>>
    BY <1>1 DEF ProcStack!Join, ProcStack!stack
  <2>2. CASE ProcStack!Area!Open(p) /\ file = "absent"
    BY <2>1, <2>2 DEF StackCounted, StackNew
  <2>3. ASSUME NEW q \in Process, ProcStack!Area!SettingUp(q)',
               ProcStack!Area!Open(p), file # "absent"
        PROVE  ProcStack!Area!SettingUp(q)
    <3>1. UNCHANGED <<creator, todo>> /\ p # creator
      BY <2>3 DEF ProcStack!Area!Open, StackNew
    <3>2. ProcStack!Area!CreatedHere(q)' <=> q = creator
      BY <3>1 DEF ProcStack!Area!CreatedHere
    <3>3. ProcStack!Area!CreatedHere(q) <=> q = creator
      BY DEF ProcStack!Area!CreatedHere
    <3> QED
      BY <1>0, <2>3, <3>1, <3>2, <3>3 DEF ProcStack!Area!Open
  <2>4. ASSUME NEW q \in Process, ProcStack!Area!SettingUp(q)', ProcStack!Area!Extend(p)
        PROVE  ProcStack!Area!SettingUp(q)
    <3>1. creator' = creator
      BY <2>4 DEF ProcStack!Area!Extend
    <3>2. ProcStack!Area!CreatedHere(q)' <=> ProcStack!Area!CreatedHere(q)
      BY <3>1 DEF ProcStack!Area!CreatedHere
    <3> QED
      BY <1>0, <2>4, <3>1, <3>2 DEF ProcStack!Area!Extend
  <2> QED
    BY <1>1, <2>1, <2>2, <2>3, <2>4 DEF ProcStack!Join, StackCounted
<1>2. CASE ProcStack!SetUp(p)
  <2>1. ProcStack!Area!SettingUp(p)
    BY <1>2 DEF ProcStack!SetUp, ProcStack!Area!SetUp
  <2>2. \A t \in Thread : pWhere[t] = "outside"
    BY <2>1, Mod11Assumption DEF StackEarly
  <2>3. pIndex = 0 /\ net = 0 /\ \A t \in Thread : pMutex # t
    BY <2>1, <2>2 DEF StackCounted
  <2>4. pIndex' = 0 /\ net' = 0 /\ pWhere' = pWhere /\ \A t \in Thread : pMutex' # t
    BY <1>2, <2>3, StackAssumption DEF ProcStack!SetUp
  <2> QED
    BY <2>2, <2>4 DEF StackCounted
<1> QED
  BY <1>1, <1>2 DEF StackSetUp

LEMMA SameDifference ==
  ASSUME NEW a \in Int, NEW b \in Int
  PROVE  a + b - a = b
OBVIOUS

LEMMA StackThreadCounted ==
  ASSUME StackTypes, StackEarly, StackCounted, ~early,
         NEW t \in Thread, ProcStack!PushOrPop(t)
  PROVE  StackCounted'
<1>1. net' = pIndex'
  <2>1. pIndex' \in Int
    BY StackTypeStep DEF StackTypes, ProcStack!Stack!TypeOK, ProcStack!Next,
       ProcStack!Thread, Thread
  <2>2. net = pIndex /\ net \in Int
    BY DEF StackCounted, StackTypes
  <2>3. net' = net + pIndex' - pIndex
    BY DEF ProcStack!PushOrPop
  <2> QED
    BY <2>1, <2>2, <2>3, SameDifference
<1> USE StackAssumption DEF StackTypes, ProcStack!Stack!TypeOK, ProcStack!Stack!Thread, Thread
<1>2. \A p \in Process : ~ProcStack!Area!SettingUp(p)'
  <2>1. \A p \in Process : ~ProcStack!Area!SettingUp(p)
    BY Mod11Assumption DEF ProcStack!PushOrPop, StackEarly
  <2> QED
    BY <2>1 DEF ProcStack!PushOrPop, ProcStack!area, ProcStack!Area!SettingUp,
       ProcStack!Area!CreatedHere
<1>3. \A u \in Thread : pWhere'[u] \in {"inside", "leaving"} <=> pMutex' = u
  <2>1. CASE ProcStack!Stack!Lock(t)
    BY <2>1 DEF ProcStack!Stack!Lock, StackCounted
  <2>2. CASE ProcStack!Stack!Sleep(t)
    BY <2>2 DEF ProcStack!Stack!Sleep, StackCounted
  <2>3. CASE ProcStack!Stack!Change(t)
    BY <2>3 DEF ProcStack!Stack!Change, ProcStack!Stack!Signal,
       ProcStack!Stack!Asleep, StackCounted
  <2>4. CASE ProcStack!Stack!Unlock(t)
    BY <2>4 DEF ProcStack!Stack!Unlock, StackCounted
  <2> QED
    BY <2>1, <2>2, <2>3, <2>4 DEF ProcStack!PushOrPop, ProcStack!Stack!Step
<1> QED
  BY <1>1, <1>2, <1>3 DEF StackCounted

LEMMA StackStep == StackInv /\ [NextMod11]_allVars => StackInv'
<1> SUFFICES ASSUME StackInv, [NextMod11]_allVars, program = "procstack"
             PROVE  StackInv'
  BY Program DEF StackInv
<1>1. StackTypes /\ StackEarly /\ StackNew /\ (~early => StackCounted)
  BY DEF StackInv
<1>2. CASE ProcStack!Next
  <2>1. StackTypes' /\ StackEarly' /\ StackNew' /\ (early => early')
    BY <1>1, <1>2, StackTypeStep, StackEarlyStep, StackNewStep
  <2>2. ASSUME NEW p \in Process, StackSetUp(p), ~early
        PROVE  StackCounted'
    BY <1>1, <2>2, StackSetUpCounted
  <2>3. ASSUME NEW t \in Thread, ProcStack!PushOrPop(t), ~early
        PROVE  StackCounted'
    BY <1>1, <2>3, StackThreadCounted
  <2>4. ~early => StackCounted'
    BY <1>2, <2>2, <2>3 DEF ProcStack!Next, StackSetUp, ProcStack!Thread, Thread
  <2> QED
    BY <2>1, <2>4 DEF StackInv
<1>3. CASE UNCHANGED ProcStack!vars
  <2>1. UNCHANGED <<pIndex, pMutex, pWhere, pLeft, pSpurious, net, file, creator,
                    step, todo, early>>
    BY <1>3 DEF ProcStack!vars, ProcStack!stack, ProcStack!area
  <2>2. StackTypes'
    BY <1>1, <2>1 DEF StackTypes, ProcStack!Area!TypeOK, ProcStack!Stack!TypeOK
  <2>3. StackEarly' /\ StackNew'
    BY <1>1, <2>1 DEF StackEarly, StackNew, ProcStack!Area!Ready,
       ProcStack!Area!SettingUp, ProcStack!Area!CreatedHere
  <2>4. ~early' => StackCounted'
    BY <1>1, <2>1 DEF StackCounted, ProcStack!Area!SettingUp,
       ProcStack!Area!CreatedHere
  <2> QED
    BY <2>2, <2>3, <2>4 DEF StackInv
<1> QED
  BY <1>2, <1>3, Program

(* The shared stack: nobody's pushes or pops are undone, and one thread at *)
(* a time changes it, for any number of processes, threads and sizes and   *)
(* whatever an earlier run left, unless a process was at work before the   *)
(* creator had set it up (proc_stack.c).                                   *)
THEOREM StackUndisturbed == SpecMod11 => []StackKept
<1>1. StackInv => StackKept
  BY DEF StackInv, StackCounted, StackKept, ProcStack!StackKept, ProcStack!Thread, Thread
<1> QED
  BY <1>1, StackStart, StackStep, PTL DEF SpecMod11
-----------------------------------------------------------------------------
\* The tellers that processes share, with the lemmas of BankTellers_proofs.
LEMMA ProcBankConstants == ProcBankP!Bank
BY Mod11Assumption DEF ProcBankP!Bank, ProcBankP!IsFiniteSet, IsFiniteSet

LEMMA SameProcBank ==
  /\ ProcBank!Bank!TypeOK <=> ProcBankP!TypeOK
  /\ ProcBank!Bank!TellersKept <=> ProcBankP!TellersKept
  /\ ProcBank!Bank!NobodyStranded <=> ProcBankP!NobodyStranded
<1>1. ProcBank!Bank!TypeOK <=> ProcBankP!TypeOK
  BY DEF ProcBank!Bank!TypeOK, ProcBankP!TypeOK
<1>2. ProcBank!Bank!TellersKept <=> ProcBankP!TellersKept
  BY DEF ProcBank!Bank!TellersKept, ProcBankP!TellersKept, ProcBank!Bank!Served,
     ProcBankP!Served, ProcBank!Bank!Cardinality, ProcBankP!Cardinality
<1>3. ProcBank!Bank!NobodyStranded <=> ProcBankP!NobodyStranded
  BY DEF ProcBank!Bank!NobodyStranded, ProcBankP!NobodyStranded,
     ProcBank!Bank!Asleep, ProcBankP!Asleep, ProcBank!Bank!Coming, ProcBankP!Coming,
     ProcBank!Bank!Cardinality, ProcBankP!Cardinality
<1> QED
  BY <1>1, <1>2, <1>3

LEMMA SameBusiness ==
  ASSUME NEW c \in ProcClient, ProcBank!Bank!ClientStep(c)
  PROVE  ProcBankP!Next
<1>1. ProcBankP!ClientStep(c)
  BY DEF ProcBank!Bank!ClientStep, ProcBankP!ClientStep, ProcBank!Bank!At,
     ProcBankP!At, ProcBank!Bank!Asleep, ProcBankP!Asleep, ProcBank!Bank!Enter,
     ProcBankP!Enter, ProcBank!Bank!TryWait, ProcBankP!TryWait, ProcBank!Bank!Skip,
     ProcBankP!Skip, ProcBank!Bank!Sleep, ProcBankP!Sleep,
     ProcBank!Bank!GoToTeller, ProcBankP!GoToTeller, ProcBank!Bank!Return,
     ProcBankP!Return, ProcBank!Bank!Post, ProcBankP!Post, ProcBank!Bank!Signal,
     ProcBankP!Signal, ProcBank!Bank!Unlock, ProcBankP!Unlock
<1> QED
  BY <1>1 DEF ProcBankP!Next

\* Nobody has come yet.
Untouched ==
  semMutex = None /\ \A c \in ProcClient : bWhere[c] = "coming"

LEMMA UntouchedServes ==
  Untouched /\ bankLine = FewTellers
    => ProcBankP!MutexInv /\ ProcBankP!TellersKept /\ ProcBankP!NobodyStranded
<1> SUFFICES ASSUME Untouched, bankLine = FewTellers
             PROVE  /\ ProcBankP!MutexInv /\ ProcBankP!TellersKept
                    /\ ProcBankP!NobodyStranded
  OBVIOUS
<1>1. ProcBankP!Served = {} /\ ProcBankP!Asleep = {}
  BY DEF Untouched, ProcBankP!Served, ProcBankP!Asleep
<1>2. ProcBankP!TellersKept /\ ProcBankP!NobodyStranded
  BY <1>1, ProcBankP!FS_EmptySet, Mod11Assumption
     DEF ProcBankP!TellersKept, ProcBankP!NobodyStranded
<1>3. ProcBankP!MutexInv
  BY Mod11Assumption DEF Untouched, ProcBankP!MutexInv, ProcBankP!Inside
<1> QED
  BY <1>2, <1>3

TellTypes == ProcBank!Area!TypeOK /\ ProcBank!Bank!TypeOK

TellEarly ==
  \A p, q \in Process : ProcBank!Area!Ready(p) /\ ProcBank!Area!SettingUp(q) => early
TellNew ==
  /\ creator \in Process =>
       step[creator] # "open" /\ (step[creator] = "extend" => file = "empty")
  /\ \A p \in Process : todo[p] > 0 => p = creator
  /\ file = "absent" => /\ creator = NoProcess /\ Untouched
                        /\ \A p \in Process : step[p] = "open"

\* While the creator sets the tellers up nobody has come, and afterwards they
\* are as in the bank of one process, but for what the dead keep.
TellSetUp ==
  \A p \in Process : ProcBank!Area!SettingUp(p) =>
    Untouched /\ (step[p] = "mapped" /\ todo[p] <= 2 => bankLine = FewTellers)
TellServed ==
  ProcBank!Area!Complete =>
    /\ ProcBankP!MutexInv /\ ProcBankP!TellersKept
    /\ killed = {} => ProcBankP!NobodyStranded

TellInv ==
  program = "procbank" =>
    TellTypes /\ TellEarly /\ TellNew /\ (~early => TellSetUp /\ TellServed)

LEMMA TellStart == InitMod11 => TellInv
<1> SUFFICES ASSUME ProcBank!Init
             PROVE  TellTypes /\ TellEarly /\ TellNew /\ TellSetUp /\ TellServed
  BY DEF InitMod11, InitBank, TellInv
<1>1. early \in BOOLEAN
  BY DEF ProcBank!Init, ProcBank!Area!Init
<1>2. /\ file = "absent" /\ creator = NoProcess
      /\ step = [p \in Process |-> "open"] /\ todo = [p \in Process |-> 0]
  BY DEF ProcBank!Init, ProcBank!Area!Init
<1>3. ProcBank!Area!TypeOK
  BY <1>1, <1>2 DEF ProcBank!Area!TypeOK
<1>4. ProcBank!Bank!TypeOK /\ Untouched
  BY Mod11Assumption DEF ProcBank!Init, ProcBank!Bank!Init, ProcBank!Bank!TypeOK, Untouched
<1>5. \A q \in Process : ~ProcBank!Area!SettingUp(q)
  BY <1>2 DEF ProcBank!Area!SettingUp
<1>6. ~ProcBank!Area!Complete
  BY <1>2, Mod11Assumption DEF ProcBank!Area!Complete
<1>7. TellNew
  BY <1>2, <1>4, Mod11Assumption DEF TellNew
<1> QED
  BY <1>3, <1>4, <1>5, <1>6, <1>7 DEF TellTypes, TellEarly, TellSetUp, TellServed

TellSteps(p) == ProcBank!Join(p) \/ ProcBank!SetUp(p) \/ ProcBank!Kill(p)

LEMMA TellAreaStep ==
  ASSUME ProcBank!Area!TypeOK, NEW p \in Process, TellSteps(p)
  PROVE  /\ ProcBank!Area!TypeOK' /\ (early => early') /\ TellEarly'
<1>1. /\ ProcBank!Area!NoteEarly
      /\ \/ ProcBank!Area!Open(p) \/ ProcBank!Area!Extend(p)
         \/ ProcBank!Area!SetUp(p) \/ ProcBank!Area!End(p)
  BY DEF TellSteps, ProcBank!Join, ProcBank!SetUp, ProcBank!Kill,
     ProcBank!Area!Open, ProcBank!Area!Extend, ProcBank!Area!SetUp,
     ProcBank!Area!Fault, ProcBank!Area!End
<1>2. (early => early') /\ TellEarly'
  BY <1>1 DEF ProcBank!Area!NoteEarly, TellEarly
<1>3. early' \in BOOLEAN
  BY <1>1 DEF ProcBank!Area!NoteEarly, ProcBank!Area!TypeOK
<1>4. CASE ProcBank!Area!Open(p) \/ ProcBank!Area!End(p)
  BY <1>2, <1>3, <1>4 DEF ProcBank!Area!Open, ProcBank!Area!End, ProcBank!Area!TypeOK
<1>5. CASE ProcBank!Area!Extend(p)
  BY <1>2, <1>3, <1>5 DEF ProcBank!Area!Extend, ProcBank!Area!TypeOK
<1>6. CASE ProcBank!Area!SetUp(p)
  BY <1>2, <1>3, <1>6 DEF ProcBank!Area!SetUp, ProcBank!Area!TypeOK
<1> QED
  BY <1>1, <1>4, <1>5, <1>6

\* What a step of a process does to the tellers.
LEMMA TellBankStep ==
  ASSUME TellTypes, TellNew, NEW p \in Process, TellSteps(p)
  PROVE  /\ UNCHANGED <<bWhere, inaHurry, bSpurious>>
         /\ semMutex' \in {semMutex, None} /\ bankLine' \in Nat
         /\ ~ProcBank!SetUp(p) => semMutex' = semMutex
         /\ ~ProcBank!SetUp(p) /\ file # "absent" => bankLine' = bankLine
<1>1. CASE ProcBank!Join(p)
  BY <1>1 DEF ProcBank!Join, TellTypes, ProcBank!Bank!TypeOK
<1>2. CASE ProcBank!SetUp(p)
  BY <1>2, Mod11Assumption DEF ProcBank!SetUp, TellTypes, ProcBank!Bank!TypeOK
<1>3. CASE ProcBank!Kill(p)
  BY <1>3 DEF ProcBank!Kill, ProcBank!bank, TellTypes, ProcBank!Bank!TypeOK
<1> QED
  BY <1>1, <1>2, <1>3 DEF TellSteps

LEMMA TellTypeStep ==
  ASSUME TellTypes, TellNew, ProcBank!Next
  PROVE  TellTypes'
<1>1. ASSUME NEW p \in Process, TellSteps(p)
      PROVE  TellTypes'
  <2>1. ProcBank!Bank!TypeOK'
    BY <1>1, TellBankStep DEF TellTypes, ProcBank!Bank!TypeOK
  <2> QED
    BY <1>1, <2>1, TellAreaStep DEF TellTypes
<1>2. ASSUME NEW c \in ProcClient, ProcBank!Business(c)
      PROVE  TellTypes'
  <2>1. ProcBankP!TypeOK /\ ProcBankP!Next
    BY <1>2, SameBusiness, SameProcBank DEF TellTypes, ProcBank!Business
  <2>2. ProcBankP!TypeOK'
    BY <2>1, ProcBankConstants, ProcBankP!TypeStep
  <2>3. ProcBank!Bank!TypeOK'
    BY <2>2, SameProcBank, PTL
  <2> QED
    BY <1>2, <2>3 DEF TellTypes, ProcBank!Business, ProcBank!area, ProcBank!Area!TypeOK
<1> QED
  BY <1>1, <1>2 DEF ProcBank!Next, TellSteps

\* A step of a process leads it on, and leaves the others where they are.
LEMMA TellPath ==
  ASSUME TellTypes, TellNew, NEW p \in Process, TellSteps(p)
  PROVE  /\ \A q \in Process : q # p => step'[q] = step[q] /\ todo'[q] = todo[q]
         /\ step'[p] # "open" /\ file' # "absent"
         /\ creator' = IF file = "absent" THEN p ELSE creator
         /\ file = "absent" => step'[p] = "extend" /\ todo' = todo
         /\ todo'[p] > 0 => p = creator
         /\ p = creator => step[p] # "open" /\ step'[p] # "extend"
         /\ file = "absent" => file' = "empty"
         /\ file # "absent" /\ p # creator => file' = file
<1>0. /\ step \in [Process -> {"open", "extend", "mapped", "ended"}]
      /\ todo \in [Process -> 0..4] /\ file \in {"absent", "empty", "sized"}
  BY DEF TellTypes, ProcBank!Area!TypeOK
<1>1. ProcBank!Area!CreatedHere(p) <=> p = creator
  BY DEF ProcBank!Area!CreatedHere
<1>2. CASE ProcBank!Area!Open(p)
  BY <1>0, <1>2 DEF ProcBank!Area!Open, TellNew
<1>3. CASE ProcBank!Area!Extend(p)
  BY <1>0, <1>1, <1>3 DEF ProcBank!Area!Extend, TellNew
<1>4. CASE ProcBank!Area!SetUp(p)
  BY <1>0, <1>4 DEF ProcBank!Area!SetUp, TellNew
<1>5. CASE ProcBank!Area!End(p) /\ step[p] \in {"extend", "mapped"}
  BY <1>0, <1>5 DEF ProcBank!Area!End, TellNew
<1> QED
  BY <1>2, <1>3, <1>4, <1>5 DEF TellSteps, ProcBank!Join, ProcBank!SetUp,
     ProcBank!Kill, ProcBank!Area!Fault

LEMMA TellNewStep ==
  ASSUME TellTypes, TellNew, ProcBank!Next
  PROVE  TellNew'
<1>1. ASSUME NEW p \in Process, TellSteps(p)
      PROVE  TellNew'
  <2>1. creator' \in Process =>
          step'[creator'] # "open" /\ (step'[creator'] = "extend" => file' = "empty")
    <3>1. CASE file = "absent"
      BY <1>1, <3>1, TellPath
    <3>2. CASE file # "absent" /\ p = creator
      BY <1>1, <3>2, TellPath DEF TellNew
    <3>3. CASE file # "absent" /\ p # creator
      BY <1>1, <3>3, TellPath DEF TellNew
    <3> QED
      BY <3>1, <3>2, <3>3
  <2>2. \A q \in Process : todo'[q] > 0 => q = creator'
    BY <1>1, TellPath, Mod11Assumption DEF TellNew
  <2>3. file' # "absent"
    BY <1>1, TellPath
  <2> QED
    BY <2>1, <2>2, <2>3 DEF TellNew
<1>2. ASSUME NEW c \in ProcClient, ProcBank!Business(c)
      PROVE  TellNew'
  <2>1. UNCHANGED <<file, creator, step, todo>> /\ file # "absent"
    BY <1>2 DEF ProcBank!Business, ProcBank!area
  <2> QED
    BY <2>1 DEF TellNew
<1> QED
  BY <1>1, <1>2 DEF ProcBank!Next, TellSteps

\* Who sets the tellers up after a step did so before it, or has just created
\* the area.
LEMMA TellSetUpBefore ==
  ASSUME TellTypes, TellNew, NEW p \in Process, TellSteps(p), file # "absent",
         NEW q \in Process, ProcBank!Area!SettingUp(q)'
  PROVE  ProcBank!Area!SettingUp(q)
<1>0. /\ step \in [Process -> {"open", "extend", "mapped", "ended"}]
      /\ todo \in [Process -> 0..4] /\ creator' = creator
  BY TellPath DEF TellTypes, ProcBank!Area!TypeOK
<1>1. /\ ProcBank!Area!CreatedHere(q) <=> q = creator
      /\ ProcBank!Area!CreatedHere(q)' <=> q = creator
  BY <1>0 DEF ProcBank!Area!CreatedHere
<1>2. CASE q # p
  BY <1>1, <1>2, TellPath DEF ProcBank!Area!SettingUp
<1>3. CASE q = p
  <2>1. p = creator /\ step[p] # "open"
    BY <1>1, <1>3, TellPath DEF ProcBank!Area!SettingUp
  <2>2. CASE ProcBank!Area!Extend(p)
    BY <1>1, <1>3, <2>1, <2>2 DEF ProcBank!Area!Extend, ProcBank!Area!SettingUp
  <2>3. CASE ProcBank!Area!SetUp(p)
    BY <1>3, <2>3 DEF ProcBank!Area!SetUp, ProcBank!Area!SettingUp
  <2>4. CASE ProcBank!Area!End(p)
    BY <1>0, <1>3, <2>4 DEF ProcBank!Area!End, ProcBank!Area!SettingUp
  <2> QED
    BY <2>1, <2>2, <2>3, <2>4 DEF TellSteps, ProcBank!Join, ProcBank!SetUp,
       ProcBank!Kill, ProcBank!Area!Fault, ProcBank!Area!Open
<1> QED
  BY <1>2, <1>3

LEMMA TellSetUpStep ==
  ASSUME TellTypes, TellNew, TellSetUp, NEW p \in Process, TellSteps(p)
  PROVE  TellSetUp'
<1> SUFFICES ASSUME NEW q \in Process, ProcBank!Area!SettingUp(q)'
             PROVE  /\ Untouched'
                    /\ step'[q] = "mapped" /\ todo'[q] <= 2 => bankLine' = FewTellers
  BY DEF TellSetUp
<1>0. /\ step \in [Process -> {"open", "extend", "mapped", "ended"}]
      /\ todo \in [Process -> 0..4]
  BY DEF TellTypes, ProcBank!Area!TypeOK
<1>1. CASE file = "absent"
  <2>1. Untouched'
    BY <1>1, TellBankStep DEF TellNew, Untouched
  <2>2. step'[q] # "mapped"
    BY <1>1, TellPath DEF TellNew
  <2> QED
    BY <2>1, <2>2
<1>2. CASE file # "absent"
  <2>1. ProcBank!Area!SettingUp(q)
    BY <1>2, TellSetUpBefore
  <2>2. Untouched'
    BY <2>1, TellBankStep DEF TellSetUp, Untouched
  <2>3. CASE ~ProcBank!SetUp(p)
    <3>1. bankLine' = bankLine
      BY <1>2, <2>3, TellBankStep
    <3>2. step'[q] = "mapped" /\ todo'[q] <= 2 => step[q] = "mapped" /\ todo[q] <= 2
      <4>1. CASE q # p
        BY <4>1, TellPath
      <4>2. CASE q = p /\ ProcBank!Area!Extend(p)
        <5>1. q = creator
          BY <2>1, <4>2 DEF ProcBank!Area!SettingUp, ProcBank!Area!Extend,
             ProcBank!Area!CreatedHere
        <5>2. todo'[q] = 4
          BY <1>0, <4>2, <5>1 DEF ProcBank!Area!Extend, ProcBank!Area!CreatedHere
        <5> QED
          BY <5>2
      <4>3. CASE q = p /\ ~ProcBank!Area!Extend(p)
        BY <1>0, <2>3, <4>3 DEF TellSteps, ProcBank!Join, ProcBank!Kill,
           ProcBank!Area!Open, ProcBank!Area!Fault, ProcBank!Area!End
      <4> QED
        BY <4>1, <4>2, <4>3
    <3> QED
      BY <2>1, <2>2, <3>1, <3>2 DEF TellSetUp
  <2>4. CASE ProcBank!SetUp(p)
    <3>1. q = p
      <4>1. p = creator /\ q = creator
        BY <1>2, <2>1, <2>4 DEF TellNew, ProcBank!SetUp, ProcBank!Area!SetUp,
           ProcBank!Area!SettingUp, ProcBank!Area!CreatedHere
      <4> QED
        BY <4>1
    <3>2. step[p] = "mapped" /\ todo[p] \in 1..4 /\ todo'[p] = todo[p] - 1
      BY <1>0, <2>4 DEF ProcBank!SetUp, ProcBank!Area!SetUp
    <3>3. todo[p] = 3 => bankLine' = FewTellers
      BY <2>4 DEF ProcBank!SetUp
    <3>4. todo[p] \in 1..2 => bankLine' = bankLine /\ bankLine = FewTellers
      BY <2>1, <2>4, <3>1, <3>2 DEF ProcBank!SetUp, TellSetUp
    <3> QED
      BY <2>2, <3>1, <3>2, <3>3, <3>4
  <2> QED
    BY <2>3, <2>4
<1> QED
  BY <1>1, <1>2

LEMMA TellServedStep ==
  ASSUME TellTypes, TellNew, TellSetUp, TellServed, NEW p \in Process, TellSteps(p)
  PROVE  TellServed'
<1> SUFFICES ASSUME ProcBank!Area!Complete'
             PROVE  /\ ProcBankP!MutexInv' /\ ProcBankP!TellersKept'
                    /\ killed' = {} => ProcBankP!NobodyStranded'
  BY DEF TellServed
<1>0. /\ step \in [Process -> {"open", "extend", "mapped", "ended"}]
      /\ todo \in [Process -> 0..4]
  BY DEF TellTypes, ProcBank!Area!TypeOK
<1>1. /\ file # "absent" /\ creator' = creator /\ creator \in Process
      /\ file' = "sized" /\ file \in {"empty", "sized"}
  BY TellPath DEF ProcBank!Area!Complete, TellTypes, ProcBank!Area!TypeOK
<1>2. CASE ProcBank!SetUp(p)
  <2>1. p = creator /\ todo'[p] = 0
    BY <1>1, <1>2 DEF TellNew, ProcBank!SetUp, ProcBank!Area!SetUp, ProcBank!Area!Complete
  <2>2. todo[p] = 1 /\ step[p] = "mapped"
    BY <1>0, <1>2, <2>1 DEF ProcBank!SetUp, ProcBank!Area!SetUp
  <2>3. Untouched /\ bankLine = FewTellers
    BY <2>2 DEF TellSetUp, ProcBank!Area!SettingUp
  <2>4. Untouched' /\ bankLine' = FewTellers
    BY <1>2, <2>2, <2>3, TellBankStep DEF ProcBank!SetUp, Untouched
  <2>5. (Untouched /\ bankLine = FewTellers)'
    BY <2>4
  <2>6. (ProcBankP!MutexInv /\ ProcBankP!TellersKept /\ ProcBankP!NobodyStranded)'
    BY <2>5, UntouchedServes, PTL
  <2> QED
    BY <2>6
<1>3. CASE ~ProcBank!SetUp(p)
  <2>1. UNCHANGED <<bankLine, semMutex, bWhere, inaHurry, bSpurious>>
    BY <1>1, <1>3, TellBankStep
  <2>2. ProcBank!Area!Complete
    <3>1. CASE creator # p
      BY <1>1, <3>1, TellPath DEF ProcBank!Area!Complete
    <3>2. CASE creator = p
      <4>1. todo'[p] = 0 /\ step'[p] \in {"mapped", "ended"} /\ step[p] # "open"
        BY <1>1, <3>2, TellPath DEF ProcBank!Area!Complete
      <4>2. ~ProcBank!Area!Extend(p)
        <5>1. ProcBank!Area!CreatedHere(p)
          BY <3>2 DEF ProcBank!Area!CreatedHere
        <5> QED
          BY <1>0, <4>1, <5>1 DEF ProcBank!Area!Extend
      <4>3. ProcBank!Area!End(p) /\ step[p] \in {"extend", "mapped"}
        BY <1>3, <4>1, <4>2 DEF TellSteps, ProcBank!Join, ProcBank!Kill,
           ProcBank!Area!Open, ProcBank!Area!Fault
      <4>4. file = "sized" /\ todo' = todo
        BY <1>1, <4>3 DEF ProcBank!Area!End
      <4>5. step[p] = "mapped"
        BY <1>1, <3>2, <4>3, <4>4 DEF TellNew
      <4> QED
        BY <1>1, <3>2, <4>1, <4>4, <4>5 DEF ProcBank!Area!Complete
    <3> QED
      BY <3>1, <3>2
  <2>3. killed' = {} => killed = {}
    BY <1>3 DEF TellSteps, ProcBank!Join, ProcBank!Kill
  <2> QED
    BY <2>1, <2>2, <2>3 DEF TellServed, ProcBankP!MutexInv, ProcBankP!TellersKept,
       ProcBankP!Served, ProcBankP!NobodyStranded, ProcBankP!Asleep, ProcBankP!Coming
<1> QED
  BY <1>2, <1>3

\* Clients come to processes that are ready, so that nobody sets up any more.
LEMMA TellBusiness ==
  ASSUME TellTypes, TellEarly, TellSetUp, TellServed, ~early,
         NEW c \in ProcClient, ProcBank!Business(c)
  PROVE  TellSetUp' /\ TellServed'
<1>1. UNCHANGED <<file, creator, step, todo, early, killed>>
  BY DEF ProcBank!Business, ProcBank!area
<1>2. \A q \in Process : ~ProcBank!Area!SettingUp(q)
  BY Mod11Assumption DEF ProcBank!Business, TellEarly
<1>3. TellSetUp'
  BY <1>1, <1>2 DEF TellSetUp, ProcBank!Area!SettingUp, ProcBank!Area!CreatedHere
<1>4. ASSUME ProcBank!Area!Complete
      PROVE  TellServed'
  <2>1. ProcBankP!TypeOK /\ ProcBankP!Next
    BY SameBusiness, SameProcBank DEF TellTypes, ProcBank!Business
  <2>2. ProcBankP!MutexInv' /\ ProcBankP!TellersKept'
    BY <1>4, <2>1, ProcBankConstants, ProcBankP!MutexStep, ProcBankP!TellersStep
       DEF TellServed
  <2>3. killed = {} => ProcBankP!NobodyStranded'
    BY <1>4, <2>1, ProcBankConstants, ProcBankP!StrandedStep DEF TellServed
  <2> QED
    BY <1>1, <2>2, <2>3 DEF TellServed
<1>5. ASSUME ~ProcBank!Area!Complete
      PROVE  TellServed'
  BY <1>1, <1>5 DEF TellServed, ProcBank!Area!Complete
<1> QED
  BY <1>3, <1>4, <1>5

LEMMA TellStep == TellInv /\ [NextMod11]_allVars => TellInv'
<1> SUFFICES ASSUME TellInv, [NextMod11]_allVars, program = "procbank"
             PROVE  TellInv'
  BY Program DEF TellInv
<1>1. TellTypes /\ TellEarly /\ TellNew /\ (~early => TellSetUp /\ TellServed)
  BY DEF TellInv
<1>2. ASSUME NEW p \in Process, TellSteps(p)
      PROVE  TellInv'
  <2>1. TellTypes' /\ TellNew'
    BY <1>1, <1>2, TellTypeStep, TellNewStep DEF ProcBank!Next, TellSteps
  <2>2. (early => early') /\ TellEarly'
    BY <1>1, <1>2, TellAreaStep DEF TellTypes
  <2>3. ~early => TellSetUp' /\ TellServed'
    BY <1>1, <1>2, TellSetUpStep, TellServedStep
  <2> QED
    BY <2>1, <2>2, <2>3 DEF TellInv
<1>3. ASSUME NEW c \in ProcClient, ProcBank!Business(c)
      PROVE  TellInv'
  <2>1. TellTypes' /\ TellNew'
    BY <1>1, <1>3, TellTypeStep, TellNewStep DEF ProcBank!Next
  <2>2. UNCHANGED <<file, creator, step, todo, early>>
    BY <1>3 DEF ProcBank!Business, ProcBank!area
  <2>3. TellEarly'
    BY <1>1, <2>2 DEF TellEarly, ProcBank!Area!Ready, ProcBank!Area!SettingUp,
       ProcBank!Area!CreatedHere
  <2>4. ~early => TellSetUp' /\ TellServed'
    BY <1>1, <1>3, TellBusiness
  <2> QED
    BY <2>1, <2>2, <2>3, <2>4 DEF TellInv
<1>4. CASE UNCHANGED ProcBank!vars
  <2>1. UNCHANGED <<bankLine, semMutex, bWhere, inaHurry, bSpurious, killed, file,
                    creator, step, todo, early>>
    BY <1>4 DEF ProcBank!vars, ProcBank!bank, ProcBank!area
  <2>2. TellTypes'
    BY <1>1, <2>1 DEF TellTypes, ProcBank!Area!TypeOK, ProcBank!Bank!TypeOK
  <2>3. TellEarly' /\ TellNew'
    BY <1>1, <2>1 DEF TellEarly, TellNew, Untouched, ProcBank!Area!Ready,
       ProcBank!Area!SettingUp, ProcBank!Area!CreatedHere
  <2>4. ~early' => TellSetUp'
    BY <1>1, <2>1 DEF TellSetUp, Untouched, ProcBank!Area!SettingUp,
       ProcBank!Area!CreatedHere
  <2>5. ~early' => TellServed'
    BY <1>1, <2>1 DEF TellServed, ProcBank!Area!Complete, ProcBankP!MutexInv,
       ProcBankP!TellersKept, ProcBankP!Served, ProcBankP!NobodyStranded,
       ProcBankP!Asleep, ProcBankP!Coming
  <2> QED
    BY <2>2, <2>3, <2>4, <2>5 DEF TellInv
<1> QED
  BY <1>2, <1>3, <1>4, Program DEF ProcBank!Next, TellSteps

(* Tellers shared by processes: once the creator has set them up each is   *)
(* free, with a client or with one that was killed, and only a death       *)
(* strands a sleeper, for any number of processes, clients and tellers,    *)
(* unless a process was at work before the creator was through             *)
(* (proc_sem.c).                                                           *)
THEOREM TellersUndisturbed == SpecMod11 => []TellersShared
<1>1. TellInv => TellersShared
  BY SameProcBank DEF TellInv, TellServed, TellersShared, ProcBank!Undisturbed
<1> QED
  BY <1>1, TellStart, TellStep, PTL DEF SpecMod11

(* The line and the semaphore of the bank, the area that processes create  *)
(* and what they share in it keep their types (sem.c, proc_stack.c,        *)
(* proc_sem.c, proc_mutex.c, proc_rw.c).                                   *)
THEOREM OthersTypeCorrect == SpecMod11 => []OthersTypeOK
<1>1. BankInv /\ CountInv /\ RwInv /\ StackInv /\ TellInv => OthersTypeOK
  BY DEF OthersTypeOK, BankInv, CountInv, CountTypes, RwInv, RwTypes, StackInv,
     StackTypes, TellInv, TellTypes
<1> QED
  BY <1>1, BankStart, BankStep, CountStart, CountStep, RwStart, RwStep,
     StackStart, StackStep, TellStart, TellStep, PTL DEF SpecMod11
-----------------------------------------------------------------------------
\* The movers: TakenIs and TakenNext say what the module's sum is.
LEMMA OtherPrograms ==
  ASSUME [NextMod11]_allVars
  PROVE  /\ program = "movers" => Company!Next \/ UNCHANGED moverVars
         /\ program = "state" => State!Next \/ UNCHANGED stateVars
BY DEF NextMod11, Work, Other, Runs, allVars

\* Enough as it stands: a job that starts takes what it adds to the sum.
MoverPlaces == {"new", "asking", "running", "done"}

MoverInv ==
  program = "movers" =>
    /\ sem \in [1..3 -> Int]
    /\ mWhere \in [1..NumThreads -> MoverPlaces]
    /\ Company!ResourcesKept

LEMMA Jobs ==
  ASSUME NEW t \in Nat, t >= 1, NEW r \in 1..3
  PROVE  Company!Job(t)[r] \in Nat
<1>1. Len(Company!JobTable) = 4
  BY DEF Company!JobTable
<1>2. ((t - 1) % 4) + 1 \in 1..4
  OBVIOUS
<1>3. ASSUME NEW k \in 1..4 PROVE Company!JobTable[k][r] \in Nat
  BY DEF Company!JobTable
<1> QED
  BY <1>1, <1>2, <1>3 DEF Company!Job

Need(r) == [t \in 1..NumThreads |-> Company!Job(t)[r]]

LEMMA TakenIs ==
  ASSUME NEW r
  PROVE  Company!Taken(r) = SumFunctionOnSet(Need(r), Company!Running)
BY DEF Company!Taken, Need, Company!Thread, Company!SumFunctionOnSet,
   Company!FoldFunctionOnSet, Company!MapThenFoldSet,
   SumFunctionOnSet, FoldFunctionOnSet, MapThenFoldSet

LEMMA MoverStart == InitMod11 => MoverInv
<1> SUFFICES ASSUME Company!Init, program = "movers"
             PROVE  MoverInv
  BY DEF InitMod11, MoverInv
<1>1. sem \in [1..3 -> Int] /\ \A r \in 1..3 : sem[r] >= 0
  BY DEF Company!Init, Company!Total
<1>2. mWhere \in [1..NumThreads -> MoverPlaces]
  BY DEF Company!Init, Company!Thread, MoverPlaces
<1>3. Company!Running = {}
  BY DEF Company!Init, Company!Running, Company!Thread
<1>4. \A r \in 1..3 : Company!Taken(r) = 0
  BY <1>3, TakenIs, SumEmpty
<1> QED
  BY <1>1, <1>2, <1>4 DEF MoverInv, Company!ResourcesKept, Company!Resource, Company!Init

LEMMA Needs ==
  ASSUME NEW T, T \subseteq 1..NumThreads, NEW r \in 1..3
  PROVE  IsFiniteSet(T) /\ \A t \in T : Need(r)[t] \in Int
<1>1. NumThreads \in Nat
  BY Mod11Assumption
<1>2. IsFiniteSet(1..NumThreads)
  BY <1>1, FS_Interval
<1>3. \A t \in T : t \in Nat /\ t >= 1 /\ Need(r)[t] = Company!Job(t)[r]
  BY <1>1 DEF Need
<1>4. \A t \in T : Need(r)[t] \in Nat
  BY <1>3, Jobs
<1>5. IsFiniteSet(T)
  BY <1>2, FS_Subset
<1> QED
  BY <1>4, <1>5

LEMMA NeedTakes ==
  ASSUME NEW T, T \subseteq 1..NumThreads, NEW r, r \in 1..3, NEW t, t \in T
  PROVE  SumFunctionOnSet(Need(r), T) = Need(r)[t] + SumFunctionOnSet(Need(r), T \ {t})
<1>1. IsFiniteSet(T) /\ (\A u \in T : Need(r)[u] \in Int) /\ t \in T
  BY Needs
<1> QED
  BY ONLY <1>1, SumTakes

LEMMA RunningThreads == Company!Running \subseteq 1..NumThreads
BY DEF Company!Running, Company!Thread

LEMMA TakenNext ==
  ASSUME NEW r
  PROVE  Company!Taken(r)' = SumFunctionOnSet(Need(r), Company!Running')
BY DEF Company!Taken, Need, Company!Thread, Company!SumFunctionOnSet,
   Company!FoldFunctionOnSet, Company!MapThenFoldSet,
   SumFunctionOnSet, FoldFunctionOnSet, MapThenFoldSet

LEMMA MoverStep == MoverInv /\ [NextMod11]_allVars => MoverInv'
<1> SUFFICES ASSUME MoverInv, [NextMod11]_allVars, program = "movers"
             PROVE  MoverInv'
  BY Program DEF MoverInv
<1>1. /\ sem \in [1..3 -> Int] /\ mWhere \in [1..NumThreads -> MoverPlaces]
      /\ \A r \in 1..3 : sem[r] >= 0 /\ Company!Total[r] = sem[r] + Company!Taken(r)
  BY DEF MoverInv, Company!ResourcesKept, Company!Resource
<1>2. NumThreads \in Nat
  BY Mod11Assumption
<1>3. ASSUME NEW t \in 1..NumThreads, Company!Spawn(t)
      PROVE  MoverInv'
  <2>1. sem' = sem /\ mWhere' \in [1..NumThreads -> MoverPlaces]
    BY <1>1, <1>3 DEF Company!Spawn, MoverPlaces
  <2>2. Company!Running' = Company!Running
    BY <1>1, <1>3 DEF Company!Spawn, Company!Running, Company!Thread
  <2> QED
    BY <1>1, <2>1, <2>2 DEF MoverInv, Company!ResourcesKept, Company!Resource, Company!Taken
<1>4. ASSUME NEW t \in 1..NumThreads, Company!Reserve(t)
      PROVE  MoverInv'
  <2>1. /\ \A r \in 1..3 : sem[r] >= Need(r)[t] /\ Need(r)[t] \in Nat
        /\ sem' = [r \in 1..3 |-> sem[r] - Need(r)[t]]
        /\ mWhere' \in [1..NumThreads -> MoverPlaces]
    BY <1>1, <1>2, <1>4, Jobs DEF Company!Reserve, MoverPlaces, Need, Company!Resource
  <2>2. /\ Company!Running' \ {t} = Company!Running
        /\ t \in Company!Running'
    BY <1>1, <1>4 DEF Company!Reserve, Company!Running, Company!Thread
  <2>3. Company!Running' \subseteq 1..NumThreads
    BY DEF Company!Running, Company!Thread
  <2>4. ASSUME NEW r \in 1..3
        PROVE  Company!Taken(r)' = Need(r)[t] + Company!Taken(r)
    <3>1. SumFunctionOnSet(Need(r), Company!Running')
            = Need(r)[t] + SumFunctionOnSet(Need(r), Company!Running' \ {t})
      BY <2>2, <2>3, NeedTakes
    <3> QED
      BY <2>2, <3>1, TakenIs, TakenNext
  <2>5. ASSUME NEW r \in 1..3
        PROVE  sem'[r] >= 0 /\ Company!Total[r] = sem'[r] + Company!Taken(r)'
    <3>1. Company!Taken(r) \in Int
      BY RunningThreads, Needs, TakenIs, SumIsInt
    <3>2. sem'[r] = sem[r] - Need(r)[t] /\ sem[r] >= Need(r)[t] /\ Need(r)[t] \in Nat
      BY <2>1
    <3>3. Company!Taken(r)' = Need(r)[t] + Company!Taken(r)
      BY <2>4
    <3>4. sem[r] \in Int /\ Company!Total[r] = sem[r] + Company!Taken(r)
      BY <1>1
    <3> QED
      BY <3>1, <3>2, <3>3, <3>4
  <2>6. sem' \in [1..3 -> Int]
    BY <1>1, <2>1
  <2> QED
    BY <2>1, <2>5, <2>6 DEF MoverInv, Company!ResourcesKept, Company!Resource
<1>5. ASSUME NEW t \in 1..NumThreads, Company!Release(t)
      PROVE  MoverInv'
  <2>1. /\ \A r \in 1..3 : Need(r)[t] \in Nat
        /\ sem' = [r \in 1..3 |-> sem[r] + Need(r)[t]]
        /\ mWhere' \in [1..NumThreads -> MoverPlaces]
    BY <1>1, <1>2, <1>5, Jobs DEF Company!Release, MoverPlaces, Need, Company!Resource
  <2>2. /\ Company!Running' = Company!Running \ {t}
        /\ t \in Company!Running
    BY <1>1, <1>5 DEF Company!Release, Company!Running, Company!Thread
  <2>3. ASSUME NEW r \in 1..3
        PROVE  Company!Taken(r) = Need(r)[t] + Company!Taken(r)'
    <3>1. SumFunctionOnSet(Need(r), Company!Running)
            = Need(r)[t] + SumFunctionOnSet(Need(r), Company!Running \ {t})
      BY <2>2, RunningThreads, NeedTakes
    <3> QED
      BY <2>2, <3>1, TakenIs, TakenNext
  <2>4. ASSUME NEW r \in 1..3
        PROVE  sem'[r] >= 0 /\ Company!Total[r] = sem'[r] + Company!Taken(r)'
    <3>1. Company!Taken(r) \in Int
      BY RunningThreads, Needs, TakenIs, SumIsInt
    <3>2. Company!Running' \subseteq 1..NumThreads
      BY <2>2, RunningThreads
    <3>3. Company!Taken(r)' \in Int
      BY <3>2, Needs, TakenNext, SumIsInt
    <3>4. sem'[r] = sem[r] + Need(r)[t] /\ Need(r)[t] \in Nat
      BY <2>1
    <3>5. Company!Taken(r) = Need(r)[t] + Company!Taken(r)'
      BY <2>3
    <3>6. sem[r] \in Int /\ sem[r] >= 0 /\ Company!Total[r] = sem[r] + Company!Taken(r)
      BY <1>1
    <3> HIDE DEF Need
    <3> QED
      BY <3>1, <3>3, <3>4, <3>5, <3>6
  <2>5. sem' \in [1..3 -> Int]
    BY <1>1, <2>1
  <2> QED
    BY <2>1, <2>4, <2>5 DEF MoverInv, Company!ResourcesKept, Company!Resource
<1>6. CASE UNCHANGED moverVars
  BY <1>6 DEF moverVars, MoverInv, Company!ResourcesKept, Company!Taken, Company!Running
<1> QED
  BY <1>3, <1>4, <1>5, <1>6, OtherPrograms DEF Company!Next, Company!Step, Company!Thread
-----------------------------------------------------------------------------
\* The rounds still to be done, and when nobody can lose one.
Owed == SumFunctionOnSet(eLeft, Counting)
Alone == State!Locked \/ Cardinality(Counting) = 1

StateTypes ==
  /\ exercise \in 3..5 /\ state \in Nat /\ held \in [Counting -> Nat]
  /\ eWhere \in [Counting -> {"lock", "load", "store", "done"}]
  /\ eLeft \in [Counting -> 0..(Rounds + 1)]
  /\ \A t \in Counting :
       (eWhere[t] = "store" => eLeft[t] > 0) /\ (eWhere[t] = "done" => eLeft[t] = 0)

\* No store makes up more rounds than were done.
StateMost ==
  /\ state + Owed <= Cardinality(Counting) * (Rounds + 1)
  /\ \A t \in Counting : eWhere[t] = "store" =>
       held[t] + Owed <= Cardinality(Counting) * (Rounds + 1)

\* Alone between load and store: the register is the count.
StateExact ==
  /\ State!Locked => \A t \in Counting : holder = t <=> eWhere[t] \in {"load", "store"}
  /\ Alone => state + Owed = Cardinality(Counting) * (Rounds + 1)
  /\ Alone => \A t \in Counting : eWhere[t] = "store" => held[t] = state

\* The count never falls back to 0, and the store of the last round, unless it
\* is of more than one, adds to a count that was read after another.
StateLeast ==
  /\ \A t \in Counting : eLeft[t] < Rounds + 1 =>
       state >= 1 /\ (eWhere[t] = "store" => held[t] >= 1)
  /\ (\A t \in Counting : eLeft[t] = 0) => state >= IF Rounds = 0 THEN 1 ELSE 2

StateInv == program = "state" => StateTypes /\ StateMost /\ StateExact /\ StateLeast

LEMMA CountingFinite ==
  /\ IsFiniteSet(Counting) /\ Cardinality(Counting) \in Nat /\ Counting # {}
  /\ Rounds \in Nat /\ None \notin Counting
  /\ Cardinality(Counting) * (Rounds + 1) \in Nat
<1>1. IsFiniteSet(Counting) /\ Cardinality(Counting) \in Nat
  BY Mod11Assumption, FS_CardinalityType
<1>2. Rounds \in Nat /\ None \notin Counting /\ Counting # {}
  BY Mod11Assumption
<1>3. \A a, b \in Nat : a * (b + 1) \in Nat
  OBVIOUS
<1> QED
  BY <1>1, <1>2, <1>3

LEMMA OwedNat == ASSUME StateTypes PROVE Owed \in Nat
BY CountingFinite, SumIsNat DEF StateTypes, Owed

LEMMA StateStart == InitMod11 => StateInv
<1> SUFFICES ASSUME State!Init
             PROVE  StateTypes /\ StateMost /\ StateExact /\ StateLeast
  BY DEF InitMod11, InitState, StateInv
<1> USE CountingFinite
<1>1. StateTypes
  BY DEF StateTypes, State!Init
<1>2. Owed = Cardinality(Counting) * (Rounds + 1)
  BY SumConstant DEF State!Init, Owed
<1>3. StateMost
  BY <1>2 DEF StateMost, State!Init
<1>4. StateExact
  BY <1>2 DEF StateExact, State!Init
<1>5. StateLeast
  BY DEF StateLeast, State!Init
<1> QED
  BY <1>1, <1>3, <1>4, <1>5

\* One lemma for each action.
LEMMA StateLock ==
  ASSUME StateTypes, StateMost, StateExact, StateLeast, NEW t \in Counting, State!Lock(t)
  PROVE  StateTypes' /\ StateMost' /\ StateExact' /\ StateLeast'
<1> USE CountingFinite
<1>1. StateTypes'
  BY DEF StateTypes, State!Lock
<1>2. Owed' = Owed
  BY DEF Owed, State!Lock
<1>3. StateMost'
  BY <1>2 DEF StateMost, State!Lock, StateTypes
<1>4. StateExact'
  BY <1>2 DEF StateExact, State!Lock, StateTypes, Alone, State!Locked
<1>5. StateLeast'
  BY DEF StateLeast, State!Lock, StateTypes
<1> QED
  BY <1>1, <1>3, <1>4, <1>5

LEMMA StateLoad ==
  ASSUME StateTypes, StateMost, StateExact, StateLeast, NEW t \in Counting, State!Load(t)
  PROVE  StateTypes' /\ StateMost' /\ StateExact' /\ StateLeast'
<1> USE CountingFinite
<1>1. StateTypes'
  BY DEF StateTypes, State!Load
<1>2. Owed' = Owed
  BY DEF Owed, State!Load
<1>3. StateMost'
  BY <1>2 DEF StateMost, State!Load, StateTypes
<1>4. StateExact'
  BY <1>2 DEF StateExact, State!Load, StateTypes, Alone, State!Locked
<1>5. StateLeast'
  BY DEF StateLeast, State!Load, StateTypes
<1> QED
  BY <1>1, <1>3, <1>4, <1>5

LEMMA StateUnlock ==
  ASSUME StateTypes, StateMost, StateExact, StateLeast, NEW t \in Counting, State!Unlock(t)
  PROVE  StateTypes' /\ StateMost' /\ StateExact' /\ StateLeast'
<1> USE CountingFinite
<1>1. StateTypes'
  BY DEF StateTypes, State!Unlock
<1>2. Owed' = Owed
  BY DEF Owed, State!Unlock
<1>3. StateMost'
  BY <1>2 DEF StateMost, State!Unlock, StateTypes
<1>4. StateExact'
  BY <1>2 DEF StateExact, State!Unlock, StateTypes, Alone, State!Locked
<1>5. StateLeast'
  BY DEF StateLeast, State!Unlock, StateTypes
<1> QED
  BY <1>1, <1>3, <1>4, <1>5

LEMMA StateStore ==
  ASSUME StateTypes, StateMost, StateExact, StateLeast, NEW t \in Counting, State!Store(t)
  PROVE  StateTypes' /\ StateMost' /\ StateExact' /\ StateLeast'
<1> USE CountingFinite
<1>1. PICK k \in 1..eLeft[t] :
        /\ state' = held[t] + k
        /\ eLeft' = [eLeft EXCEPT ![t] = @ - k]
  BY DEF State!Store
<1>2. /\ k \in Nat /\ k >= 1 /\ k <= eLeft[t] /\ eLeft[t] \in Nat /\ held[t] \in Nat
      /\ eLeft[t] <= Rounds + 1 /\ state \in Nat
  BY DEF StateTypes
<1>3. /\ eWhere[t] = "store"
      /\ eWhere' = [eWhere EXCEPT ![t] = "load"]
      /\ exercise' = exercise /\ holder' = holder /\ held' = held
  BY DEF State!Store
<1>4. StateTypes'
  BY <1>1, <1>2, <1>3 DEF StateTypes
<1>5. Owed' = Owed - k
  <2>1. \A u \in Counting : eLeft[u] \in Int /\ eLeft'[u] \in Int
    BY <1>4 DEF StateTypes
  <2>2. /\ eLeft'[t] = eLeft[t] - k
        /\ \A u \in Counting \ {t} : eLeft'[u] = eLeft[u]
    BY <1>1 DEF StateTypes
  <2>3. Owed' = Owed - eLeft[t] + eLeft'[t]
    BY <2>1, <2>2, SumExcept DEF Owed
  <2> QED
    BY <1>2, <2>2, <2>3, OwedNat
<1>6. StateMost'
  BY <1>1, <1>2, <1>3, <1>5, OwedNat DEF StateMost, StateTypes
<1>7. StateExact'
  <2>1. State!Locked => \A u \in Counting : holder' = u <=> eWhere'[u] \in {"load", "store"}
    BY <1>3 DEF StateExact, StateTypes
  <2>2. ASSUME Alone, NEW u \in Counting
        PROVE  eWhere'[u] # "store"
    <3>1. CASE State!Locked
      BY <1>3, <3>1 DEF StateExact, StateTypes
    <3>2. CASE Cardinality(Counting) = 1
      <4>1. u = t
        BY <3>2, FS_Singleton
      <4> QED
        BY <1>3, <4>1 DEF StateTypes
    <3> QED
      BY <2>2, <3>1, <3>2 DEF Alone
  <2>3. ASSUME Alone
        PROVE  state' + Owed' = Cardinality(Counting) * (Rounds + 1)
    BY <1>1, <1>2, <1>3, <1>5, <2>3, OwedNat DEF StateExact
  <2> QED
    BY <1>3, <2>1, <2>2, <2>3 DEF StateExact, Alone, State!Locked
<1>8. StateLeast'
  <2>1. state' >= 1 /\ (eLeft[t] < Rounds + 1 => state' >= 2)
    BY <1>1, <1>2, <1>3 DEF StateLeast
  <2>2. \A u \in Counting : eLeft'[u] < Rounds + 1 /\ eWhere'[u] = "store" => held'[u] >= 1
    BY <1>1, <1>3 DEF StateLeast, StateTypes
  <2>3. ASSUME \A u \in Counting : eLeft'[u] = 0, Rounds # 0
        PROVE  state' >= 2
    <3>1. k = eLeft[t]
      BY <1>1, <1>2, <2>3 DEF StateTypes
    <3>2. CASE k = 1
      BY <1>2, <2>1, <2>3, <3>1, <3>2
    <3>3. CASE k # 1
      BY <1>1, <1>2, <3>3
    <3> QED
      BY <3>2, <3>3
  <2> QED
    BY <2>1, <2>2, <2>3 DEF StateLeast
<1> QED
  BY <1>4, <1>6, <1>7, <1>8

LEMMA StateStep == StateInv /\ [NextMod11]_allVars => StateInv'
<1> SUFFICES ASSUME StateInv, [NextMod11]_allVars, program = "state"
             PROVE  StateInv'
  BY Program DEF StateInv
<1>1. StateTypes /\ StateMost /\ StateExact /\ StateLeast
  BY DEF StateInv
<1>2. CASE State!Next
  BY <1>1, <1>2, StateLock, StateLoad, StateUnlock, StateStore
     DEF State!Next, State!Step, StateInv
<1>3. CASE UNCHANGED stateVars
  BY <1>1, <1>3 DEF stateVars, StateInv, StateTypes, StateMost, StateExact, StateLeast,
     Owed, Alone, State!Locked
<1> QED
  BY <1>2, <1>3, OtherPrograms

LEMMA StateInvKept ==
  ASSUME StateTypes, StateMost, StateExact, StateLeast
  PROVE  State!StateKept
<1> SUFFICES ASSUME State!Done
             PROVE  /\ state <= State!Cardinality(Counting) * (Rounds + 1)
                    /\ state >= IF exercise # 3 \/ State!Cardinality(Counting) = 1
                                THEN State!Cardinality(Counting) * (Rounds + 1)
                                ELSE IF Rounds + 1 < 2 THEN Rounds + 1 ELSE 2
  BY DEF State!StateKept
<1>1. State!Cardinality(Counting) = Cardinality(Counting)
  BY DEF State!Cardinality, Cardinality
<1>2. \A t \in Counting : eLeft[t] = 0
  BY DEF State!Done, StateTypes
<1>3. Owed = 0
  <2>1. Owed = Cardinality(Counting) * 0
    BY <1>2, CountingFinite, SumConstant DEF Owed
  <2> QED
    BY <2>1, CountingFinite
<1>4. state \in Nat /\ Rounds \in Nat /\ Cardinality(Counting) * (Rounds + 1) \in Nat
  BY CountingFinite DEF StateTypes
<1>5. state <= Cardinality(Counting) * (Rounds + 1)
  BY <1>3, <1>4 DEF StateMost
<1>6. exercise # 3 \/ Cardinality(Counting) = 1 =>
        state = Cardinality(Counting) * (Rounds + 1)
  BY <1>3, <1>4 DEF StateExact, Alone, State!Locked, StateTypes
<1>7. state >= IF Rounds + 1 < 2 THEN Rounds + 1 ELSE 2
  BY <1>2, <1>4 DEF StateLeast
<1> QED
  BY <1>1, <1>4, <1>5, <1>6, <1>7

(* The movers: what is free and what is with the running jobs make up what *)
(* there is, for any number of jobs (ipcsem.c).  The exercises: no round   *)
(* is lost under a lock, and without one fewer than two are never left,    *)
(* for any number of threads and rounds (exercise03.c).                    *)
THEOREM ResourcesConserved == SpecMod11 => []ResourcesKept
<1>1. MoverInv /\ StateInv => ResourcesKept
  BY StateInvKept DEF MoverInv, StateInv, ResourcesKept
<1> QED
  BY <1>1, MoverStart, MoverStep, StateStart, StateStep, PTL DEF SpecMod11
=============================================================================
