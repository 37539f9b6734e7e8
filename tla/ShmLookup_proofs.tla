-------------------------- MODULE ShmLookup_proofs --------------------------
(***************************************************************************)
(* Proofs about ShmLookup: type correctness, the exclusion that semaphore  *)
(* 0 provides whatever happens to the processes, and the answer that the   *)
(* exchange over semaphore 1 provides while nothing disturbs it.           *)
(***************************************************************************)
EXTENDS ShmLookup, TLAPS

(* The mutex, its undo adjustments and the clients inside agree.           *)
MutexInv ==
  /\ semadj[Server][0] = 0
  /\ ~torn =>
       /\ \A c \in Client : semadj[c][0] = IF Inside(c) THEN 1 ELSE 0
       /\ \A c, d \in Client : Inside(c) /\ Inside(d) => c = d
       /\ (\E c \in Client : Inside(c)) => semval[0] = 0
       /\ (\A c \in Client : ~Inside(c)) => semval[0] = 1

(* The steps of an undisturbed exchange, as the value of semaphore 1 and   *)
(* the server's next statement show them to a client h that has alerted.   *)
Stage(h) ==
  \/ semval[1] = 2 /\ spc = "wait"
  \/ semval[1] = 1 /\ spc = "search"
  \/ semval[1] = 1 /\ spc = "answer"
       /\ ("shm" \in handles[h] => hit = AnswerTo(sought[h]))
  \/ semval[1] = 1 /\ spc = "notify"
       /\ ("shm" \in handles[h] => shm.text = AnswerTo(sought[h]))
  \/ semval[1] = 0 /\ spc = "wait"
       /\ ("shm" \in handles[h] => shm.text = AnswerTo(sought[h]))

AtRest == semval[1] = 0 /\ spc = "wait"

Request(h) ==
  /\ pc[h] = "await" => semadj[h][1] <= -2 /\ Stage(h)
  /\ pc[h] \in {"alert", "await"} /\ "shm" \in handles[h]
       => shm.word = sought[h]
  /\ pc[h] = "release" /\ "shm" \in handles[h]
       => shm.text = AnswerTo(sought[h])

Undisturbed ==
  /\ ~torn
  /\ \A c \in Client : semadj[c][1] <= 0
  /\ (\A h \in Client : Inside(h) => pc[h] # "await") => AtRest
  /\ \A h \in Client : Inside(h) => Request(h)

ExchangeInv == clean => Undisturbed

IInv == TypeOK /\ MutexInv /\ ExchangeInv
-----------------------------------------------------------------------------
USE DEF Sem, Proc, InSection, Protected, Inside, Holders

(* SEM_UNDO at a process's end leaves each semaphore within the kernel's   *)
(* bounds and the process without adjustments.                             *)
LEMMA UndoType ==
  ASSUME NEW p \in Proc, TypeOK, ApplyUndo(p)
  PROVE  /\ semval' \in [Sem -> 0..SemVmx]
         /\ semadj' \in [Proc -> [Sem -> (-SemAem - 1)..SemAem]]
  BY ShmAssumption DEF TypeOK, ApplyUndo, Clamp, NoAdj

(* A semop that is performed keeps values and adjustments within them too. *)
LEMMA PerformType ==
  ASSUME NEW p \in Proc, NEW n \in Sem, NEW op \in Int, TypeOK,
         Ready(n, op), InRange(p, n, op), Perform(p, n, op)
  PROVE  /\ semval' \in [Sem -> 0..SemVmx]
         /\ semadj' \in [Proc -> [Sem -> (-SemAem - 1)..SemAem]]
  <1>1. semval[n] + op \in 0..SemVmx
    BY ShmAssumption DEF TypeOK, Ready, InRange
  <1>2. semadj[p][n] - op \in (-SemAem - 1)..SemAem
    BY DEF InRange
  <1>3. semval' \in [Sem -> 0..SemVmx]
    BY <1>1 DEF TypeOK, Perform
  <1>4. semadj' \in [Proc -> [Sem -> (-SemAem - 1)..SemAem]]
    BY <1>2 DEF TypeOK, Perform
  <1> QED
    BY <1>3, <1>4

(* What every semop of a client keeps of the types.                        *)
LEMMA SemStepType ==
  ASSUME NEW c \in Client, NEW n \in Sem, NEW op \in Int, NEW from,
         NEW to \in {"write", "await", "compare"}, TypeOK,
         SemStep(c, from, to, n, op)
  PROVE  TypeOK'
  <1>1. /\ semval' \in [Sem -> 0..SemVmx]
        /\ semadj' \in [Proc -> [Sem -> (-SemAem - 1)..SemAem]]
    <2>1. CASE Ready(n, op) /\ InRange(c, n, op) /\ Perform(c, n, op)
      BY <2>1, PerformType
    <2>2. CASE UNCHANGED sems
      BY <2>2 DEF TypeOK, sems
    <2> QED
      BY <2>1, <2>2 DEF SemStep
  <1>2. clean' \in BOOLEAN
    BY DEF SemStep, TypeOK
  <1>3. /\ pc' = [pc EXCEPT ![c] = to]
        /\ UNCHANGED <<shm, handles, calls, sought, result, spc, hit, torn>>
    BY DEF SemStep, server
  <1> QED
    BY <1>1, <1>2, <1>3 DEF TypeOK

(* Every variable keeps its type in every step: no semop drives a          *)
(* semaphore below 0 or past SEMVMX, no adjustment passes SEMAEM.          *)
THEOREM TypeCorrect == Spec => []TypeOK
  <1>1. ASSUME Init
        PROVE  TypeOK
    <2>1. semval \in [Sem -> 0..SemVmx]
      BY <1>1, ShmAssumption DEF Init
    <2>2. NoAdj \in [Sem -> (-SemAem - 1)..SemAem]
      BY ShmAssumption DEF NoAdj
    <2>3. semadj \in [Proc -> [Sem -> (-SemAem - 1)..SemAem]]
      BY <1>1, <2>2 DEF Init
    <2> QED
      BY <1>1, <2>1, <2>3 DEF Init, TypeOK
  <1>2. TypeOK /\ [Next]_vars => TypeOK'
    <2> SUFFICES ASSUME TypeOK, [Next]_vars
                 PROVE  TypeOK'
      OBVIOUS
    <2>1. ASSUME NEW c \in Client, NEW w \in Word,
                 NEW h \in SUBSET {"sem", "shm"}, Call(c, w, h)
          PROVE  TypeOK'
      BY <2>1 DEF TypeOK, Call, sems, server, ghost
    <2>2. ASSUME NEW c \in Client, Grab(c)
          PROVE  TypeOK'
      BY <2>2, SemStepType DEF Grab
    <2>3. ASSUME NEW c \in Client, WriteWord(c)
          PROVE  TypeOK'
      <3>1. shm' \in [word : Word \cup {Blank}, text : Known \cup {Absent, Blank}]
        BY <2>3 DEF TypeOK, WriteWord
      <3>2. clean' \in BOOLEAN
        BY <2>3 DEF TypeOK, WriteWord
      <3>3. /\ pc' = [pc EXCEPT ![c] = "alert"]
            /\ UNCHANGED <<semval, semadj, handles, calls, sought, result, spc,
                           hit, torn>>
        BY <2>3 DEF WriteWord, sems, server
      <3> QED
        BY <3>1, <3>2, <3>3 DEF TypeOK
    <2>4. ASSUME NEW c \in Client, Alert(c)
          PROVE  TypeOK'
      BY <2>4, SemStepType DEF Alert
    <2>5. ASSUME NEW c \in Client, Await(c)
          PROVE  TypeOK'
      BY <2>5 DEF TypeOK, Await, sems, server, ghost
    <2>6. ASSUME NEW c \in Client, Release(c)
          PROVE  TypeOK'
      BY <2>6, SemStepType DEF Release
    <2>7. ASSUME NEW c \in Client, Compare(c)
          PROVE  TypeOK'
      <3>1. pc' \in [Client -> {"idle", "grab", "write", "alert", "await",
                                "release", "compare", "copy", "gone"}]
        BY <2>7 DEF TypeOK, Compare
      <3>2. result' \in [Client -> Known \cup {Absent, Blank}]
        BY <2>7 DEF TypeOK, Compare
      <3>3. UNCHANGED <<semval, semadj, shm, handles, calls, sought, spc, hit,
                        clean, torn>>
        BY <2>7 DEF Compare, sems, server, ghost
      <3> QED
        BY <3>1, <3>2, <3>3 DEF TypeOK
    <2>8. ASSUME NEW c \in Client, Copy(c)
          PROVE  TypeOK'
      BY <2>8 DEF TypeOK, Copy, sems, server, ghost
    <2>9. ASSUME NEW c \in Client, ClientEnds(c)
          PROVE  TypeOK'
      <3>1. /\ semval' \in [Sem -> 0..SemVmx]
            /\ semadj' \in [Proc -> [Sem -> (-SemAem - 1)..SemAem]]
        BY <2>9, UndoType DEF ClientEnds
      <3>2. clean' \in BOOLEAN
        BY <2>9 DEF TypeOK, ClientEnds
      <3>3. /\ pc' = [pc EXCEPT ![c] = "gone"]
            /\ UNCHANGED <<shm, handles, calls, sought, result, spc, hit, torn>>
        BY <2>9 DEF ClientEnds, server
      <3> QED
        BY <3>1, <3>2, <3>3 DEF TypeOK
    <2>10. ASSUME ServerEnds
           PROVE  TypeOK'
      BY <2>10, UndoType DEF TypeOK, ServerEnds, client
    <2>11. ASSUME NEW from \in {"wait", "notify"}, NEW to \in {"search", "wait"},
                  ServerSemop(from, to)
           PROVE  TypeOK'
      <3>1. CASE ServerEnds
        BY <3>1, <2>10
      <3>2. CASE InRange(Server, 1, -1) /\ Perform(Server, 1, -1)
        <4>1. /\ semval' \in [Sem -> 0..SemVmx]
              /\ semadj' \in [Proc -> [Sem -> (-SemAem - 1)..SemAem]]
          BY <2>11, <3>2, PerformType DEF ServerSemop
        <4> QED
          BY <2>11, <3>2, <4>1 DEF TypeOK, ServerSemop, ServerEnds, client, ghost
      <3> QED
        BY <2>11, <3>1, <3>2 DEF ServerSemop
    <2>12. ASSUME ServerSearch
           PROVE  TypeOK'
      BY <2>12 DEF TypeOK, ServerSearch, AnswerTo, sems, client, ghost
    <2>13. ASSUME ServerAnswer
           PROVE  TypeOK'
      BY <2>13 DEF TypeOK, ServerAnswer, sems, client, ghost
    <2>14. ASSUME Restart
           PROVE  TypeOK'
      BY <2>14, ShmAssumption DEF TypeOK, Restart, NoAdj, client
    <2>15. CASE UNCHANGED vars
      BY <2>15 DEF TypeOK, vars
    <2> QED
      BY <2>1, <2>2, <2>3, <2>4, <2>5, <2>6, <2>7, <2>8, <2>9, <2>10,
         <2>11, <2>12, <2>13, <2>14, <2>15
         DEF Next, ClientStep, ServerStep, ServerWait, ServerNotify, Leave,
             Kill, Stop
  <1> QED
    BY <1>1, <1>2, PTL DEF Spec
-----------------------------------------------------------------------------
(* Outside a grab and a release nothing that MutexInv speaks of moves.     *)
LEMMA MutexFrame ==
  ASSUME MutexInv, torn' = torn,
         \A p \in Proc : semadj'[p][0] = semadj[p][0],
         semval'[0] = semval[0],
         \A c \in Client : Inside(c)' <=> Inside(c)
  PROVE  MutexInv'
  BY DEF MutexInv

(* A client that ends takes its adjustment with it: the mutex is handed    *)
(* back exactly when the client held it.                                   *)
LEMMA MutexUndo ==
  ASSUME TypeOK, MutexInv, NEW e \in Client, ClientEnds(e)
  PROVE  MutexInv'
  <1>1. semadj'[Server][0] = 0
    BY ShmAssumption DEF ClientEnds, ApplyUndo, MutexInv, TypeOK
  <1>2. torn' = torn
    BY DEF ClientEnds
  <1> SUFFICES ASSUME ~torn
               PROVE  MutexInv'
    BY <1>1, <1>2 DEF MutexInv
  <1>3. \A c \in Client : Inside(c)' <=> Inside(c) /\ c # e
    BY DEF ClientEnds, TypeOK
  <1>4. \A c \in Client : semadj'[c][0] = IF c = e THEN 0 ELSE semadj[c][0]
    BY DEF ClientEnds, ApplyUndo, TypeOK, NoAdj
  <1>5. semval'[0] = Clamp(semval[0] + semadj[e][0])
    BY DEF ClientEnds, ApplyUndo
  <1>6. CASE Inside(e)
    <2>1. semval[0] = 0 /\ semadj[e][0] = 1
      BY <1>6 DEF MutexInv
    <2>2. semval'[0] = 1
      BY <1>5, <2>1, ShmAssumption DEF Clamp
    <2> QED
      BY <1>1, <1>3, <1>4, <1>6, <2>2 DEF MutexInv
  <1>7. CASE ~Inside(e)
    <2>1. semadj[e][0] = 0
      BY <1>7 DEF MutexInv
    <2>2. semval'[0] = semval[0]
      BY <1>5, <2>1, ShmAssumption DEF Clamp, TypeOK
    <2> QED
      BY <1>1, <1>3, <1>4, <1>7, <2>2 DEF MutexInv
  <1> QED
    BY <1>6, <1>7

(* The steps that take and give the mutex never fail under the invariant,  *)
(* and the client that takes it finds nobody inside.                       *)
LEMMA MutexGrab ==
  ASSUME TypeOK, MutexInv, NEW c \in Client, Grab(c)
  PROVE  MutexInv'
  <1>1. torn' = torn
    BY DEF Grab, SemStep
  <1>2. CASE ~Protected(c)
    <2>1. \A d \in Client : Inside(d)' <=> Inside(d)
      BY <1>2 DEF Grab, SemStep, TypeOK
    <2> QED
      BY <1>1, <1>2, <2>1, MutexFrame DEF Grab, SemStep, sems
  <1>3. CASE Protected(c)
    <2>1. semadj'[Server][0] = 0
      BY <1>3, ShmAssumption DEF Grab, SemStep, Perform, sems, MutexInv, TypeOK
    <2> SUFFICES ASSUME ~torn
                 PROVE  MutexInv'
      BY <1>1, <2>1 DEF MutexInv
    <2>2. semval[0] = 1 /\ \A d \in Client : ~Inside(d)
      BY <1>3, ShmAssumption DEF Grab, SemStep, Ready, MutexInv, TypeOK
    <2>3. semadj[c][0] = 0
      BY <2>2 DEF MutexInv
    <2>4. InRange(c, 0, -1)
      BY <2>2, <2>3, ShmAssumption DEF InRange
    <2>5. Perform(c, 0, -1)
      BY <1>3, <2>4 DEF Grab, SemStep
    <2>6. semval'[0] = 0
      BY <2>2, <2>5 DEF Perform, TypeOK
    <2>7. \A d \in Client : semadj'[d][0] = IF d = c THEN 1 ELSE 0
      BY <2>2, <2>3, <2>5 DEF Perform, TypeOK, MutexInv
    <2>8. \A d \in Client : Inside(d)' <=> d = c
      BY <1>3, <2>2 DEF Grab, SemStep, TypeOK
    <2> QED
      BY <2>1, <2>6, <2>7, <2>8 DEF MutexInv
  <1> QED
    BY <1>2, <1>3

LEMMA MutexRelease ==
  ASSUME TypeOK, MutexInv, NEW c \in Client, Release(c)
  PROVE  MutexInv'
  <1>1. torn' = torn
    BY DEF Release, SemStep
  <1>2. CASE ~Protected(c)
    <2>1. \A d \in Client : Inside(d)' <=> Inside(d)
      BY <1>2 DEF Release, SemStep, TypeOK
    <2> QED
      BY <1>1, <1>2, <2>1, MutexFrame DEF Release, SemStep, sems
  <1>3. CASE Protected(c)
    <2>1. semadj'[Server][0] = 0
      BY <1>3, ShmAssumption
         DEF Release, SemStep, Perform, sems, MutexInv, TypeOK
    <2> SUFFICES ASSUME ~torn
                 PROVE  MutexInv'
      BY <1>1, <2>1 DEF MutexInv
    <2>2. Inside(c)
      BY <1>3 DEF Release, SemStep
    <2>3. /\ semval[0] = 0 /\ semadj[c][0] = 1
          /\ \A d \in Client : d # c => ~Inside(d) /\ semadj[d][0] = 0
      BY <2>2 DEF MutexInv
    <2>4. InRange(c, 0, 1)
      BY <2>3, ShmAssumption DEF InRange
    <2>5. Perform(c, 0, 1)
      BY <1>3, <2>4 DEF Release, SemStep
    <2>6. semval'[0] = 1
      BY <2>3, <2>5 DEF Perform, TypeOK
    <2>7. \A d \in Client : semadj'[d][0] = 0
      BY <2>3, <2>5 DEF Perform, TypeOK
    <2>8. \A d \in Client : ~Inside(d)'
      BY <2>3 DEF Release, SemStep, TypeOK
    <2> QED
      BY <2>1, <2>6, <2>7, <2>8 DEF MutexInv
  <1> QED
    BY <1>2, <1>3

(* The other statements of a client, and of the server, leave semaphore 0  *)
(* and the set of clients inside alone.                                    *)
LEMMA MutexOthers ==
  ASSUME TypeOK, MutexInv, NEW c \in Client,
         \/ \E w \in Word, h \in SUBSET {"sem", "shm"} : Call(c, w, h)
         \/ WriteWord(c) \/ Alert(c) \/ Await(c) \/ Compare(c) \/ Copy(c)
  PROVE  MutexInv'
  <1>1. torn' = torn
    BY DEF Call, WriteWord, Alert, SemStep, Await, Compare, Copy, ghost
  <1>2. \/ sems' = sems
        \/ Perform(c, 1, 2)
    BY DEF Call, WriteWord, Alert, SemStep, Await, Compare, Copy, sems
  <1>3. /\ \A p \in Proc : semadj'[p][0] = semadj[p][0]
        /\ semval'[0] = semval[0]
    <2>1. CASE sems' = sems
      BY <2>1 DEF sems
    <2>2. CASE Perform(c, 1, 2)
      BY <2>2 DEF Perform, TypeOK
    <2> QED
      BY <1>2, <2>1, <2>2
  <1>4. \A d \in Client : Inside(d)' <=> Inside(d)
    BY DEF Call, WriteWord, Alert, SemStep, Await, Compare, Copy, TypeOK
  <1> QED
    BY <1>1, <1>3, <1>4, MutexFrame

LEMMA MutexServer ==
  ASSUME TypeOK, MutexInv, ServerStep \/ ServerEnds
  PROVE  MutexInv'
  <1>1. torn' = torn /\ pc' = pc /\ handles' = handles
    BY DEF ServerStep, ServerWait, ServerNotify, ServerSemop, ServerSearch,
           ServerAnswer, ServerEnds, client, ghost
  <1>2. /\ \A p \in Proc : semadj'[p][0] = semadj[p][0]
        /\ semval'[0] = semval[0]
    <2>1. CASE ServerEnds
      <3>1. \A p \in Proc : semadj'[p][0] = semadj[p][0]
        BY <2>1 DEF ServerEnds, ApplyUndo, NoAdj, MutexInv, TypeOK
      <3>2. semval'[0] = semval[0]
        BY <2>1, ShmAssumption DEF ServerEnds, ApplyUndo, Clamp, MutexInv, TypeOK
      <3> QED
        BY <3>1, <3>2
    <2>2. CASE Perform(Server, 1, -1)
      BY <2>2 DEF Perform, TypeOK
    <2>3. CASE UNCHANGED sems
      BY <2>3 DEF sems
    <2> QED
      BY <2>1, <2>2, <2>3 DEF ServerStep, ServerWait, ServerNotify, ServerSemop,
                              ServerSearch, ServerAnswer
  <1> QED
    BY <1>1, <1>2, MutexFrame

(* SETALL puts the mutex in order, unless a client holds it: then torn is  *)
(* set and the invariant promises nothing.                                 *)
LEMMA MutexRestart ==
  ASSUME TypeOK, MutexInv, Restart
  PROVE  MutexInv'
  <1>1. \A p \in Proc : semadj'[p][0] = 0
    BY DEF Restart, NoAdj
  <1>2. semval'[0] = 1
    BY DEF Restart
  <1>3. ~torn' => \A c \in Client : ~Inside(c)'
    BY DEF Restart, client
  <1> QED
    BY <1>1, <1>2, <1>3 DEF MutexInv

LEMMA MutexStep ==
  ASSUME TypeOK, MutexInv, [Next]_vars
  PROVE  MutexInv'
  <1>1. CASE UNCHANGED vars
    BY <1>1 DEF MutexInv, vars
  <1>2. CASE Next
    BY <1>2, MutexOthers, MutexGrab, MutexRelease, MutexUndo, MutexServer,
       MutexRestart
       DEF Next, ClientStep, Leave, Kill, Stop
  <1> QED
    BY <1>1, <1>2

(* MutexInv is an invariant of every behaviour: any number of clients, any *)
(* mix of departures, kills, stops and restarts, any handles.              *)
THEOREM MutexCorrect == Spec => []MutexInv
  <1>1. Init => MutexInv
    BY DEF Init, MutexInv, NoAdj
  <1> QED
    BY <1>1, TypeCorrect, MutexStep, PTL DEF Spec

(* No two clients with a good semid are ever between grab and release      *)
(* (lookup6.c:54-64), unless a server was restarted under one.             *)
THEOREM Exclusion == Spec => []MutualExclusion
  <1>1. MutexInv => MutualExclusion
    BY DEF MutexInv, MutualExclusion
  <1> QED
    BY <1>1, MutexCorrect, PTL

(* Once no client is inside, the mutex is free, whoever died inside.       *)
THEOREM MutexComesBack == Spec => []MutexReturned
  <1>1. MutexInv => MutexReturned
    BY DEF MutexInv, MutexReturned
  <1> QED
    BY <1>1, MutexCorrect, PTL
-----------------------------------------------------------------------------
(* The inductive invariant of the exchange.  Each lemma takes the steps of *)
(* one statement, under clean' and so (but for Restart) under clean.       *)

Before == TypeOK /\ MutexInv /\ Undisturbed

(* An undisturbed exchange is not touched by a client outside it.          *)
LEMMA ExchangeFrame ==
  ASSUME Undisturbed, torn' = torn, spc' = spc, hit' = hit, shm' = shm,
         semval'[1] = semval[1],
         \A d \in Client : semadj'[d][1] = semadj[d][1] \/ semadj'[d][1] = 0,
         \A d \in Client : Inside(d)' =>
           /\ Inside(d) /\ pc'[d] = pc[d] /\ semadj'[d] = semadj[d]
           /\ handles'[d] = handles[d] /\ sought'[d] = sought[d],
         \A d \in Client : Inside(d) /\ pc[d] = "await" => Inside(d)'
  PROVE  Undisturbed'
  <1>1. \A d \in Client : semadj'[d][1] <= 0
    BY DEF Undisturbed
  <1>2. (\A h \in Client : Inside(h)' => pc'[h] # "await") => AtRest'
    BY DEF Undisturbed, AtRest
  <1>3. \A h \in Client : Inside(h)' => Request(h)'
    BY DEF Undisturbed, Request, Stage
  <1> QED
    BY <1>1, <1>2, <1>3 DEF Undisturbed

LEMMA ExchangeOutside ==
  ASSUME Before, NEW c \in Client, clean',
         \/ \E w \in Word, h \in SUBSET {"sem", "shm"} : Call(c, w, h)
         \/ Compare(c) \/ Copy(c)
         \/ ~Protected(c) /\ (Grab(c) \/ Alert(c) \/ Await(c) \/ Release(c))
  PROVE  Undisturbed'
  <1> DEFINE Still ==
         /\ torn' = torn /\ spc' = spc /\ hit' = hit /\ shm' = shm
         /\ semval' = semval /\ semadj' = semadj
  <1>1. Still
    <2>1. CASE \E w \in Word, h \in SUBSET {"sem", "shm"} : Call(c, w, h)
      BY <2>1 DEF Call, sems, server, ghost
    <2>2. CASE Compare(c) \/ Copy(c)
      BY <2>2 DEF Compare, Copy, sems, server, ghost
    <2>3. CASE ~Protected(c) /\ Await(c)
      BY <2>3 DEF Await, sems, server, ghost
    <2>4. ASSUME ~Protected(c), NEW from, NEW to, NEW n, NEW op,
                 SemStep(c, from, to, n, op)
          PROVE  Still
      BY <2>4 DEF SemStep, sems, server
    <2> QED
      BY <2>1, <2>2, <2>3, <2>4 DEF Grab, Alert, Release
  <1> DEFINE Away ==
         /\ ~Inside(c) /\ ~Inside(c)'
         /\ \A d \in Client \ {c} : /\ pc'[d] = pc[d] /\ handles'[d] = handles[d]
                                    /\ sought'[d] = sought[d]
  <1>2. Away
    <2> USE DEF Before, TypeOK
    <2>1. ASSUME NEW w \in Word, NEW h \in SUBSET {"sem", "shm"}, Call(c, w, h)
          PROVE  Away
      BY <2>1 DEF Call
    <2>2. CASE Compare(c)
      BY <2>2 DEF Compare
    <2>3. CASE Copy(c)
      BY <2>3 DEF Copy
    <2>4. CASE ~Protected(c) /\ Await(c)
      BY <2>4 DEF Await
    <2>5. ASSUME ~Protected(c), NEW from, NEW to, NEW n, NEW op,
                 SemStep(c, from, to, n, op)
          PROVE  Away
      BY <2>5 DEF SemStep
    <2> QED
      BY ONLY <2>1, <2>2, <2>3, <2>4, <2>5, 
         \/ \E w \in Word, h \in SUBSET {"sem", "shm"} : Call(c, w, h)
         \/ Compare(c) \/ Copy(c)
         \/ ~Protected(c) /\ (Grab(c) \/ Alert(c) \/ Await(c) \/ Release(c))
         DEF Grab, Alert, Release
  <1> QED
    BY <1>1, <1>2, ExchangeFrame DEF Before

LEMMA ExchangeGrab ==
  ASSUME Before, NEW c \in Client, clean', Protected(c), Grab(c)
  PROVE  Undisturbed'
  <1>1. Perform(c, 0, -1)
    BY DEF Grab, SemStep, Before, Undisturbed, MutexInv, Ready, InRange,
           TypeOK
  <1>2. /\ torn' = torn /\ spc' = spc /\ hit' = hit /\ shm' = shm
        /\ handles' = handles /\ sought' = sought
    BY DEF Grab, SemStep, server
  <1>3. \A d \in Client : ~Inside(d)
    <2>1. semval[0] # 0
      <3>1. Ready(0, -1)
        BY DEF Grab, SemStep
      <3> QED
        BY <3>1 DEF Ready
    <2> QED
      BY <2>1 DEF Before, Undisturbed, MutexInv
  <1>4. /\ pc'[c] = "write"
        /\ \A d \in Client : Inside(d)' => d = c
    BY <1>3 DEF Grab, SemStep, Before, TypeOK
  <1>5. /\ semval'[1] = semval[1]
        /\ \A d \in Client : semadj'[d][1] = semadj[d][1]
    BY <1>1 DEF Perform, Before, TypeOK
  <1>6. AtRest'
    BY <1>2, <1>3, <1>5 DEF Before, Undisturbed, AtRest
  <1>7. \A d \in Client : semadj'[d][1] <= 0
    BY <1>5 DEF Before, Undisturbed
  <1> QED
    BY <1>2, <1>4, <1>6, <1>7 DEF Before, Undisturbed, Request

LEMMA ExchangeWrite ==
  ASSUME Before, NEW c \in Client, clean', WriteWord(c)
  PROVE  Undisturbed'
  <1>1. /\ torn' = torn /\ spc' = spc /\ hit' = hit
        /\ semval' = semval /\ semadj' = semadj
        /\ handles' = handles /\ sought' = sought
        /\ shm'.text = shm.text
    BY DEF WriteWord, sems, server, Before, TypeOK
  <1>2. /\ pc[c] = "write" /\ pc'[c] = "alert"
        /\ \A d \in Client \ {c} : pc'[d] = pc[d]
    BY DEF WriteWord, Before, TypeOK
  <1>3. \A d \in Client : Inside(d)' <=> Inside(d)
    BY <1>1, <1>2
  <1>4. \A h \in Client : Inside(h)' => Request(h)'
    <2>1. CASE Inside(c)
      <3>1. \A d \in Client : Inside(d) => d = c
        BY <2>1 DEF Before, Undisturbed, MutexInv
      <3>2. "shm" \in handles[c] => shm'.word = sought[c]
        BY DEF WriteWord, Before, TypeOK
      <3> QED
        BY <1>1, <1>2, <1>3, <3>1, <3>2 DEF Request
    <2>2. CASE ~Inside(c) /\ "shm" \in handles[c]
      <3>1. ~Protected(c)
        BY <1>2, <2>2
      <3>2. \A d \in Client : Inside(d) => pc[d] \notin {"alert", "await"}
        BY <2>2, <3>1 DEF WriteWord, Spoils
      <3> QED
        BY <1>1, <1>2, <1>3, <2>2, <3>2 DEF Request, Before, Undisturbed
    <2>3. CASE ~Inside(c) /\ "shm" \notin handles[c]
      <3>1. shm' = shm
        BY <2>3 DEF WriteWord
      <3> QED
        BY <1>1, <1>2, <1>3, <2>3, <3>1
           DEF Request, Stage, Before, Undisturbed
    <2> QED
      BY <2>1, <2>2, <2>3
  <1>5. (\A h \in Client : Inside(h)' => pc'[h] # "await") => AtRest'
    BY <1>1, <1>2, <1>3 DEF Before, Undisturbed, AtRest
  <1> QED
    BY <1>1, <1>4, <1>5 DEF Before, Undisturbed

LEMMA ExchangeAlert ==
  ASSUME Before, NEW c \in Client, clean', Protected(c), Alert(c)
  PROVE  Undisturbed'
  <1>1. /\ torn' = torn /\ spc' = spc /\ hit' = hit /\ shm' = shm
        /\ handles' = handles /\ sought' = sought
    BY DEF Alert, SemStep, server
  <1>2. Inside(c) /\ pc[c] = "alert" /\ pc'[c] = "await"
    BY DEF Alert, SemStep, Before, TypeOK
  <1>3. \A d \in Client : Inside(d) => d = c
    BY <1>2 DEF Before, Undisturbed, MutexInv
  <1>4. \A d \in Client : Inside(d)' => d = c
    BY <1>1, <1>3 DEF Alert, SemStep, Before, TypeOK
  <1>5. AtRest
    BY <1>2, <1>3 DEF Before, Undisturbed
  <1>6. Perform(c, 1, 2)
    BY DEF Alert, SemStep
  <1>7. semval'[1] = 2
    BY <1>5, <1>6 DEF Perform, AtRest, Before, TypeOK
  <1>8. \A d \in Client :
          semadj'[d][1] = IF d = c THEN semadj[d][1] - 2 ELSE semadj[d][1]
    BY <1>6 DEF Perform, Before, TypeOK
  <1>9. \A d \in Client : semadj[d][1] \in Int /\ semadj[d][1] <= 0
    BY ShmAssumption DEF Before, Undisturbed, TypeOK
  <1>10. \A d \in Client : semadj'[d][1] <= 0
    BY <1>8, <1>9
  <1>11. semadj'[c][1] <= -2
    BY <1>8, <1>9
  <1>12. Request(c)'
    BY <1>1, <1>2, <1>5, <1>7, <1>11
       DEF Request, Stage, AtRest, Before, Undisturbed
  <1>13. Inside(c)'
    BY <1>1, <1>2
  <1> QED
    BY <1>1, <1>2, <1>4, <1>10, <1>12, <1>13 DEF Before, Undisturbed

LEMMA ExchangeAwait ==
  ASSUME Before, NEW c \in Client, clean', Protected(c), Await(c)
  PROVE  Undisturbed'
  <1>1. /\ torn' = torn /\ spc' = spc /\ hit' = hit /\ shm' = shm
        /\ semval' = semval /\ semadj' = semadj
        /\ handles' = handles /\ sought' = sought
    BY DEF Await, sems, server, ghost
  <1>2. Inside(c) /\ pc[c] = "await" /\ pc'[c] = "release" /\ semval[1] = 0
    BY DEF Await, Ready, Before, TypeOK
  <1>3. \A d \in Client : Inside(d) => d = c
    BY <1>2 DEF Before, Undisturbed, MutexInv
  <1>4. \A d \in Client : Inside(d)' => d = c
    BY <1>1, <1>3 DEF Await, Before, TypeOK
  <1>5. AtRest /\ ("shm" \in handles[c] => shm.text = AnswerTo(sought[c]))
    BY <1>2 DEF Before, Undisturbed, Request, Stage, AtRest
  <1> QED
    BY <1>1, <1>2, <1>4, <1>5 DEF Before, Undisturbed, Request, AtRest

LEMMA ExchangeRelease ==
  ASSUME Before, NEW c \in Client, clean', Protected(c), Release(c)
  PROVE  Undisturbed'
  <1>1. /\ torn' = torn /\ spc' = spc /\ hit' = hit /\ shm' = shm
        /\ handles' = handles /\ sought' = sought
    BY DEF Release, SemStep, server
  <1>2. Inside(c) /\ pc[c] = "release"
    BY DEF Release, SemStep
  <1>3. \A d \in Client : Inside(d) => d = c
    BY <1>2 DEF Before, Undisturbed, MutexInv
  <1>4. \A d \in Client : ~Inside(d)'
    BY <1>1, <1>3 DEF Release, SemStep, Before, TypeOK
  <1>5. /\ semval'[1] = semval[1]
        /\ \A d \in Client : semadj'[d][1] = semadj[d][1]
    <2>1. Perform(c, 0, 1)
      BY DEF Release, SemStep
    <2> QED
      BY <2>1 DEF Perform, Before, TypeOK
  <1>6. AtRest'
    BY <1>1, <1>2, <1>3, <1>5 DEF Before, Undisturbed, AtRest
  <1> QED
    BY <1>1, <1>4, <1>5, <1>6 DEF Before, Undisturbed

(* A server's semop takes the exchange from one stage to the next.         *)
LEMMA ExchangeServer ==
  ASSUME Before, clean', ServerStep
  PROVE  Undisturbed'
  <1>1. torn' = torn /\ pc' = pc /\ handles' = handles /\ sought' = sought
    BY DEF ServerStep, ServerWait, ServerNotify, ServerSemop, ServerEnds,
           ServerSearch, ServerAnswer, client, ghost
  <1>2. ~AtRest
    BY ShmAssumption
       DEF ServerStep, ServerWait, ServerNotify, ServerSemop, Ready,
           ServerSearch, ServerAnswer, AtRest
  <1>3. PICK h \in Client : Inside(h) /\ pc[h] = "await"
    BY <1>2 DEF Before, Undisturbed
  <1>4. \A d \in Client : Inside(d) => d = h
    BY <1>3 DEF Before, Undisturbed, MutexInv
  <1>5. Stage(h) /\ semadj[h][1] <= -2
    BY <1>3 DEF Before, Undisturbed, Request
  <1>6. "shm" \in handles[h] => shm.word = sought[h]
    BY <1>3 DEF Before, Undisturbed, Request
  <1>7. \A d \in Client : semadj'[d] = semadj[d]
    BY ShmAssumption
       DEF ServerStep, ServerWait, ServerNotify, ServerSemop, ServerEnds,
           Perform, ServerSearch, ServerAnswer, sems, Before, TypeOK
  <1>8. shm'.word = shm.word
    BY DEF ServerStep, ServerWait, ServerNotify, ServerSemop, ServerEnds,
           ServerSearch, ServerAnswer, Before, TypeOK
  <1>9. Stage(h)'
    <2>1. CASE ServerSearch
      <3>1. /\ spc = "search" /\ spc' = "answer" /\ semval' = semval
            /\ hit' = AnswerTo(shm.word)
        BY <2>1 DEF ServerSearch, sems
      <3>2. semval[1] = 1
        BY <1>5, <3>1 DEF Stage
      <3>3. "shm" \in handles'[h] => hit' = AnswerTo(sought'[h])
        BY <1>1, <1>6, <3>1
      <3> QED
        BY <3>1, <3>2, <3>3 DEF Stage, AnswerTo
    <2>2. CASE ServerAnswer
      BY <1>1, <1>5, <2>2 DEF ServerAnswer, sems, Stage, Before, TypeOK
    <2>3. ASSUME NEW from, NEW to, ServerSemop(from, to)
          PROVE  /\ spc = from /\ spc' = to /\ shm' = shm
                 /\ semval'[1] = semval[1] - 1
      BY <2>3 DEF ServerSemop, ServerEnds, Perform, Before, TypeOK
    <2>4. CASE ServerWait
      <3>1. /\ spc = "wait" /\ spc' = "search"
            /\ semval'[1] = semval[1] - 1
        BY <2>3, <2>4 DEF ServerWait
      <3>2. semval[1] = 2
        BY <1>2, <1>5, <3>1 DEF Stage, AtRest
      <3> QED
        BY <3>1, <3>2 DEF Stage
    <2>5. CASE ServerNotify
      <3>1. /\ spc = "notify" /\ spc' = "wait" /\ shm' = shm
            /\ semval'[1] = semval[1] - 1
        BY <2>3, <2>5 DEF ServerNotify
      <3>2. /\ semval[1] = 1
            /\ "shm" \in handles[h] => shm.text = AnswerTo(sought[h])
        BY <1>5, <3>1 DEF Stage
      <3> QED
        BY <1>1, <3>1, <3>2 DEF Stage
    <2> QED
      BY <2>1, <2>2, <2>4, <2>5 DEF ServerStep
  <1>10. \A d \in Client : semadj'[d][1] <= 0
    BY <1>7 DEF Before, Undisturbed
  <1>11. Request(h)'
    BY <1>1, <1>3, <1>5, <1>6, <1>7, <1>8, <1>9 DEF Request
  <1>12. Inside(h)' /\ pc'[h] = "await" /\ \A d \in Client : Inside(d)' => d = h
    BY <1>1, <1>3, <1>4
  <1> QED
    BY <1>1, <1>10, <1>11, <1>12 DEF Before, Undisturbed

(* A client that ends without disturbing the exchange either takes its own *)
(* unseen request back or leaves semaphore 1 as it is.                     *)
LEMMA ExchangeEnds ==
  ASSUME Before, NEW e \in Client, clean', ClientEnds(e)
  PROVE  Undisturbed'
  <1>1. /\ torn' = torn /\ spc' = spc /\ hit' = hit /\ shm' = shm
        /\ handles' = handles /\ sought' = sought /\ ~Disturbs(e)
    BY DEF ClientEnds, server
  <1>2. /\ pc'[e] = "gone"
        /\ \A d \in Client \ {e} : pc'[d] = pc[d]
    BY DEF ClientEnds, Before, TypeOK
  <1>3. semval'[1] = Clamp(semval[1] + semadj[e][1])
    BY DEF ClientEnds, ApplyUndo
  <1>4. /\ semadj'[e][1] = 0
        /\ \A d \in Client \ {e} : semadj'[d] = semadj[d]
    BY DEF ClientEnds, ApplyUndo, NoAdj, Before, TypeOK
  <1>5. semadj[e][1] \in Int /\ semadj[e][1] <= 0
    BY ShmAssumption DEF Before, Undisturbed, TypeOK
  <1>6. semval[1] \in 0..SemVmx
    BY DEF Before, TypeOK
  <1>7. CASE Inside(e)
    <2>1. \A d \in Client : Inside(d) => d = e
      BY <1>7 DEF Before, Undisturbed, MutexInv
    <2>2. \A d \in Client : ~Inside(d)'
      BY <1>1, <1>2, <2>1
    <2>3. AtRest'
      <3>1. CASE semval[1] = 0 /\ spc = "wait"
        BY <1>1, <1>3, <1>5, <3>1, ShmAssumption DEF Clamp, AtRest
      <3>2. CASE ~(semval[1] = 0 /\ spc = "wait")
        <4>1. pc[e] = "await"
          BY <2>1, <3>2 DEF Before, Undisturbed, AtRest
        <4>2. Stage(e) /\ semadj[e][1] <= -2
          BY <1>7, <4>1 DEF Before, Undisturbed, Request
        <4>3. semval[1] > 0
          BY <3>2, <4>2 DEF Stage
        <4>4. spc = "wait"
          BY <1>1, <1>5, <1>7, <4>2, <4>3 DEF Disturbs
        <4>5. semval[1] = 2
          BY <3>2, <4>2, <4>4 DEF Stage
        <4> QED
          BY <1>1, <1>3, <1>5, <4>2, <4>4, <4>5, ShmAssumption DEF Clamp, AtRest
      <3> QED
        BY <3>1, <3>2
    <2>4. \A d \in Client : semadj'[d][1] <= 0
      BY <1>4 DEF Before, Undisturbed
    <2> QED
      BY <1>1, <2>2, <2>3, <2>4 DEF Before, Undisturbed
  <1>8. CASE ~Inside(e)
    <2>1. semval'[1] = semval[1]
      <3>1. CASE semval[1] = 0
        BY <1>3, <1>5, <3>1, ShmAssumption DEF Clamp
      <3>2. CASE semadj[e][1] = 0
        BY <1>3, <1>6, <3>2, ShmAssumption DEF Clamp
      <3> QED
        BY <1>1, <1>5, <1>6, <1>8, <3>1, <3>2, ShmAssumption DEF Disturbs
    <2>2. \A d \in Client : Inside(d)' =>
            /\ Inside(d) /\ pc'[d] = pc[d] /\ semadj'[d] = semadj[d]
            /\ handles'[d] = handles[d] /\ sought'[d] = sought[d]
      BY <1>1, <1>2, <1>4
    <2>3. \A d \in Client : Inside(d) /\ pc[d] = "await" => Inside(d)'
      BY <1>1, <1>2, <1>8
    <2>4. \A d \in Client :
            semadj'[d][1] = semadj[d][1] \/ semadj'[d][1] = 0
      BY <1>4
    <2> QED
      BY <1>1, <2>1, <2>2, <2>3, <2>4, ExchangeFrame DEF Before
  <1> QED
    BY <1>7, <1>8

LEMMA ExchangeRestart ==
  ASSUME TypeOK, clean', Restart
  PROVE  Undisturbed'
  <1>1. \A d \in Client : ~Inside(d)'
    BY DEF Restart, client
  <1>2. ~torn'
    BY DEF Restart
  <1>3. semval'[1] = 0 /\ spc' = "wait" /\ \A d \in Client : semadj'[d][1] = 0
    BY DEF Restart, NoAdj
  <1> QED
    BY <1>1, <1>2, <1>3 DEF Undisturbed, AtRest

LEMMA ExchangeStep ==
  ASSUME TypeOK, MutexInv, ExchangeInv, [Next]_vars
  PROVE  ExchangeInv'
  <1> SUFFICES ASSUME clean'
               PROVE  Undisturbed'
    BY DEF ExchangeInv
  <1>1. CASE Restart
    BY <1>1, ExchangeRestart
  <1>2. CASE UNCHANGED vars
    <2>1. Undisturbed
      BY <1>2 DEF vars, ExchangeInv
    <2>2. /\ torn' = torn /\ spc' = spc /\ hit' = hit /\ shm' = shm
          /\ semval' = semval /\ semadj' = semadj /\ pc' = pc
          /\ handles' = handles /\ sought' = sought
      BY <1>2 DEF vars
    <2> QED
      BY <2>1, <2>2, ExchangeFrame
  <1>3. CASE Next /\ ~Restart
    <2>1. ~Stop
      BY DEF Stop, ServerEnds
    <2>2. clean
      <3>1. ASSUME NEW c \in Client, Leave(c) \/ Kill(c)
            PROVE  clean
        BY <3>1 DEF Leave, Kill, ClientEnds
      <3>2. ASSUME NEW c \in Client, ClientStep(c)
            PROVE  clean
        <4>1. ASSUME NEW from, NEW to, NEW n, NEW op, SemStep(c, from, to, n, op)
              PROVE  clean
          BY <4>1 DEF SemStep
        <4> QED
          BY <3>2, <4>1
             DEF ClientStep, Grab, WriteWord, Alert, Await, Release, Compare,
                 Copy, ghost
      <3>3. ASSUME NEW c \in Client, NEW w \in Word,
                   NEW h \in SUBSET {"sem", "shm"}, Call(c, w, h)
            PROVE  clean
        BY <3>3 DEF Call, ghost
      <3>4. CASE ServerStep
        BY <3>4 DEF ServerStep, ServerWait, ServerNotify, ServerSemop,
                    ServerEnds, ServerSearch, ServerAnswer, ghost
      <3> QED
        BY <1>3, <2>1, <3>1, <3>2, <3>3, <3>4 DEF Next
    <2>3. Before
      BY <2>2 DEF ExchangeInv, Before
    <2>4. ASSUME NEW c \in Client, Grab(c) \/ Alert(c) \/ Await(c) \/ Release(c)
          PROVE  Undisturbed'
      BY <2>3, <2>4, ExchangeOutside, ExchangeGrab, ExchangeAlert,
         ExchangeAwait, ExchangeRelease
    <2> QED
      BY <1>3, <2>1, <2>3, <2>4, ExchangeOutside, ExchangeWrite,
         ExchangeServer, ExchangeEnds
         DEF Next, ClientStep, Leave, Kill
  <1> QED
    BY <1>1, <1>2, <1>3

(* The whole inductive invariant.                                          *)
THEOREM Inductive == Spec => []IInv
  <1>1. Init => ExchangeInv
    BY DEF Init, ExchangeInv, Undisturbed, AtRest, NoAdj
  <1>2. Spec => []ExchangeInv
    BY <1>1, TypeCorrect, MutexCorrect, ExchangeStep, PTL DEF Spec
  <1> QED
    BY <1>2, TypeCorrect, MutexCorrect, PTL DEF IInv

(* A client whose wait is over finds the answer to its own word in shared  *)
(* memory (lookup6.c:61), unless the exchange was disturbed.               *)
THEOREM AnswerCorrect == Spec => []AnswerInTime
  <1>1. IInv => AnswerInTime
    BY DEF IInv, ExchangeInv, Undisturbed, Request, AnswerInTime
  <1> QED
    BY <1>1, Inductive, PTL

(* While the server is at a request its word is not overwritten.           *)
THEOREM RequestStable == Spec => StableRequest
  <1>1. ASSUME IInv, [Next]_vars, clean, clean', spc \in {"search", "answer"}
        PROVE  shm'.word = shm.word
    <2>1. TypeOK /\ MutexInv /\ Undisturbed
      BY <1>1 DEF IInv, ExchangeInv
    <2>2. PICK h \in Client : Inside(h) /\ pc[h] = "await"
      BY <1>1, <2>1 DEF Undisturbed, AtRest
    <2>3. ASSUME NEW c \in Client, WriteWord(c)
          PROVE  shm'.word = shm.word
      <3>1. ~Inside(c)
        BY <2>1, <2>2, <2>3 DEF MutexInv, Undisturbed, WriteWord
      <3>2. "shm" \notin handles[c]
        BY <1>1, <2>2, <2>3, <3>1 DEF WriteWord, Spoils
      <3> QED
        BY <2>3, <3>2 DEF WriteWord
    <2>4. CASE UNCHANGED vars
      BY <2>4 DEF vars
    <2>5. CASE ServerAnswer
      BY <2>1, <2>5 DEF ServerAnswer, TypeOK
    <2>6. CASE Next /\ ~ServerAnswer /\ \A c \in Client : ~WriteWord(c)
      BY <2>6
         DEF Next, Call, ClientStep, Grab, Alert, Await, Release, SemStep,
             Compare, Copy, Leave, Kill, ClientEnds, ServerStep, ServerWait,
             ServerNotify, ServerSemop, ServerEnds, ServerSearch, Stop, Restart
    <2> QED
      BY <1>1, <2>3, <2>4, <2>5, <2>6
  <1>2. IInv /\ [Next]_vars
          => [clean /\ clean' /\ spc \in {"search", "answer"}
                => shm.word' = shm.word]_vars
    BY <1>1
  <1> QED
    BY <1>2, Inductive, PTL DEF Spec, StableRequest
-----------------------------------------------------------------------------
(* What leaves an exchange alone: nothing has disturbed it, and both       *)
(* handles of every call are good.                                         *)
Calm ==
  /\ clean
  /\ \A c \in Client :
       \/ handles[c] = {"sem", "shm"}
       \/ handles[c] = {} /\ pc[c] \in {"idle", "gone"}

Asking == {"grab", "write", "alert", "await"}

(* An element of CallBar, by what the exchange makes of it.                *)
Bar(c) ==
  IF pc[c] \notin Asking \cup {"release"} THEN [state |-> "idle"]
  ELSE IF Served(c)
  THEN [state |-> "answered", word |-> sought[c], text |-> AnswerTo(sought[c])]
  ELSE [state |-> "asked", word |-> sought[c]]

(* Both handles are good in a call, so that at most one client is inside,  *)
(* and it has its answer once it is served.                                *)
LEMMA CalmExchange ==
  ASSUME IInv, Calm
  PROVE  /\ TypeOK /\ MutexInv /\ Undisturbed
         /\ \A c \in Client : pc[c] \in Asking \cup {"release", "compare", "copy"}
              => handles[c] = {"sem", "shm"}
         /\ \A c, d \in Client : pc[c] \in InSection /\ pc[d] \in InSection => c = d
         /\ \A c \in Client : pc[c] = "await" => Stage(c)
         /\ \A c \in Client : Served(c) => shm.text = AnswerTo(sought[c])
  <1>1. TypeOK /\ MutexInv /\ Undisturbed
    BY DEF IInv, ExchangeInv, Calm
  <1>2. \A c \in Client : pc[c] \in Asking \cup {"release", "compare", "copy"}
          => handles[c] = {"sem", "shm"}
    BY DEF Calm, Asking
  <1>3. \A c, d \in Client : pc[c] \in InSection /\ pc[d] \in InSection => c = d
    BY <1>1, <1>2 DEF MutexInv, Undisturbed, Asking
  <1>4. \A c \in Client : pc[c] \in InSection => Request(c)
    BY <1>1, <1>2 DEF Undisturbed, Asking
  <1>5. \A c \in Client : pc[c] = "await" => Stage(c)
    BY <1>4 DEF Request
  <1>6. ASSUME NEW c \in Client, Served(c)
        PROVE  shm.text = AnswerTo(sought[c])
    <2>1. handles[c] = {"sem", "shm"} /\ Request(c)
      BY <1>2, <1>4, <1>6 DEF Served, Asking
    <2>2. CASE pc[c] = "release"
      BY <2>1, <2>2 DEF Request
    <2>3. CASE pc[c] = "await" /\ (semval[1] = 0 \/ spc = "notify")
      BY <1>5, <2>1, <2>3 DEF Stage
    <2> QED
      BY <1>6, <2>2, <2>3 DEF Served
  <1> QED
    BY <1>1, <1>2, <1>3, <1>5, <1>6

LEMMA CalmNext ==
  (IInv /\ Calm => \A c \in Client : pc[c] = "await" => Stage(c))'
  <1>1. IInv /\ Calm => \A c \in Client : pc[c] = "await" => Stage(c)
    BY CalmExchange
  <1> QED
    BY <1>1, PTL

LEMMA BarIsCallBar ==
  IInv /\ Calm => CallBar = [c \in Client |-> Bar(c)]
  <1> SUFFICES ASSUME IInv, Calm, NEW c \in Client
               PROVE  CallBar[c] = Bar(c)
    BY DEF CallBar
  <1>1. Served(c) => shm.text = AnswerTo(sought[c])
    BY CalmExchange
  <1>2. pc[c] \in {"idle", "compare", "copy", "gone"}
        <=> pc[c] \notin Asking \cup {"release"}
    BY DEF IInv, TypeOK, Asking
  <1> QED
    BY <1>1, <1>2 DEF CallBar, Bar

LEMMA BarIsCallBarNext ==
  (IInv /\ Calm => CallBar = [c \in Client |-> Bar(c)])'
  BY BarIsCallBar, PTL

(* The calls of the others stand, and c's makes one move or none.          *)
LEMMA OneCall ==
  ASSUME IInv, Calm, IInv', Calm', NEW c \in Client,
         \A d \in Client \ {c} : Bar(d)' = Bar(d),
         \/ Bar(c)' = Bar(c)
         \/ \E w \in Word : /\ Bar(c) = [state |-> "idle"]
                            /\ Bar(c)' = [state |-> "asked", word |-> w]
         \/ /\ Bar(c) = [state |-> "asked", word |-> sought[c]]
            /\ Bar(c)' = [state |-> "answered", word |-> sought[c],
                          text |-> AnswerTo(sought[c])]
         \/ Bar(c).state = "answered" /\ Bar(c)' = [state |-> "idle"]
  PROVE  [Service!Next]_CallBar
  <1> DEFINE b == [d \in Client |-> Bar(d)]
             b1 == [d \in Client |-> Bar(d)']
  <1>1. CallBar = b /\ CallBar' = b1
    BY BarIsCallBar, BarIsCallBarNext
  <1>2. b1 = [b EXCEPT ![c] = Bar(c)'] /\ b[c] = Bar(c)
    OBVIOUS
  <1>3. CASE Bar(c)' = Bar(c)
    BY <1>1, <1>2, <1>3
  <1>4. CASE \E w \in Word : /\ Bar(c) = [state |-> "idle"]
                             /\ Bar(c)' = [state |-> "asked", word |-> w]
    <2>1. \E w \in Word : Service!Ask(c, w)
      BY <1>1, <1>2, <1>4 DEF Service!Ask, Service!Idle, Service!Asked
    <2> QED
      BY <2>1 DEF Service!Next
  <1>5. CASE /\ Bar(c) = [state |-> "asked", word |-> sought[c]]
             /\ Bar(c)' = [state |-> "answered", word |-> sought[c],
                           text |-> AnswerTo(sought[c])]
    <2>1. Bar(c).state = "asked" /\ Bar(c).word = sought[c]
      BY <1>5
    <2>2. CallBar[c] = Bar(c) /\ CallBar' = [CallBar EXCEPT ![c] = Bar(c)']
      BY <1>1, <1>2
    <2> HIDE DEF Bar
    <2>3. Service!Serve(c)
      BY <1>5, <2>1, <2>2 DEF Service!Serve, Service!Answered
    <2> QED
      BY <2>3 DEF Service!Next
  <1>6. CASE Bar(c).state = "answered" /\ Bar(c)' = [state |-> "idle"]
    <2>1. Service!Collect(c)
      BY <1>1, <1>2, <1>6 DEF Service!Collect, Service!Idle
    <2> QED
      BY <2>1 DEF Service!Next
  <1> QED
    BY <1>3, <1>4, <1>5, <1>6


LEMMA OthersStand ==
  ASSUME NEW c, \A d \in Client \ {c} : pc'[d] = pc[d] /\ sought'[d] = sought[d],
         \/ semval'[1] = semval[1] /\ spc' = spc
         \/ \A d \in Client \ {c} : pc[d] # "await"
  PROVE  \A d \in Client \ {c} : Bar(d)' = Bar(d)
  BY DEF Bar, Served

(* A semop of a client does what it is to do, and semaphore 1 is touched   *)
(* by an alert only.                                                       *)
LEMMA CalmSemStep ==
  ASSUME IInv, Calm, Calm', NEW c \in Client, NEW from \in Asking \cup {"release"},
         NEW to, NEW n, NEW op, SemStep(c, from, to, n, op)
  PROVE  /\ pc[c] = from /\ pc' = [pc EXCEPT ![c] = to]
         /\ semval' = [semval EXCEPT ![n] = @ + op]
         /\ UNCHANGED <<shm, sought, spc>>
  <1>1. Protected(c)
    BY CalmExchange DEF SemStep
  <1> QED
    BY <1>1 DEF SemStep, Perform, Calm, server

LEMMA ClientMaps ==
  ASSUME IInv, Calm, IInv', Calm', NEW c \in Client,
         \/ \E w \in Word, h \in SUBSET {"sem", "shm"} : Call(c, w, h)
         \/ ClientStep(c)
  PROVE  [Service!Next]_CallBar
  <1>0. /\ pc \in [Client -> {"idle", "grab", "write", "alert", "await",
                              "release", "compare", "copy", "gone"}]
        /\ sought \in [Client -> Word \cup {Blank}]
        /\ semval \in [Sem -> Nat]
    BY DEF IInv, TypeOK
  <1>1. ASSUME NEW w \in Word, NEW h \in SUBSET {"sem", "shm"}, Call(c, w, h)
        PROVE  [Service!Next]_CallBar
    <2>1. /\ pc[c] = "idle" /\ pc' = [pc EXCEPT ![c] = "grab"]
          /\ sought' = [sought EXCEPT ![c] = w]
          /\ UNCHANGED <<semval, spc, shm>>
      BY <1>1 DEF Call, sems, server
    <2>2. Bar(c) = [state |-> "idle"] /\ Bar(c)' = [state |-> "asked", word |-> w]
      BY <1>0, <2>1 DEF Bar, Served, Asking
    <2>3. \A d \in Client \ {c} : Bar(d)' = Bar(d)
      BY <1>0, <2>1, OthersStand
    <2> QED
      BY <2>2, <2>3, OneCall
  <1>2. CASE Grab(c)
    <2>1. /\ pc[c] = "grab" /\ pc' = [pc EXCEPT ![c] = "write"]
          /\ semval' = [semval EXCEPT ![0] = @ + (-1)]
          /\ UNCHANGED <<shm, sought, spc>>
      <3>1. SemStep(c, "grab", "write", 0, -1)
        BY <1>2 DEF Grab
      <3> QED
        BY <3>1, CalmSemStep DEF Asking
    <2>2. Bar(c)' = Bar(c)
      BY <1>0, <2>1 DEF Bar, Served, Asking
    <2>3. \A d \in Client \ {c} : Bar(d)' = Bar(d)
      BY <1>0, <2>1, OthersStand
    <2> QED
      BY <2>2, <2>3, OneCall
  <1>3. CASE WriteWord(c)
    <2>1. /\ pc[c] = "write" /\ pc' = [pc EXCEPT ![c] = "alert"]
          /\ UNCHANGED <<semval, sought, spc>>
      BY <1>3 DEF WriteWord, sems, server
    <2>2. Bar(c)' = Bar(c)
      BY <1>0, <2>1 DEF Bar, Served, Asking
    <2>3. \A d \in Client \ {c} : Bar(d)' = Bar(d)
      BY <1>0, <2>1, OthersStand
    <2> QED
      BY <2>2, <2>3, OneCall
  <1>4. CASE Alert(c)
    <2>1. /\ pc[c] = "alert" /\ pc' = [pc EXCEPT ![c] = "await"]
          /\ semval' = [semval EXCEPT ![1] = @ + 2]
          /\ UNCHANGED <<shm, sought, spc>>
      <3>1. SemStep(c, "alert", "await", 1, 2)
        BY <1>4 DEF Alert
      <3> QED
        BY <3>1, CalmSemStep DEF Asking
    <2>2. \A d \in Client \ {c} : pc[d] # "await"
      BY <2>1, CalmExchange
    <2>3. AtRest
      BY <2>1, <2>2, CalmExchange DEF Undisturbed
    <2>4. Bar(c)' = Bar(c)
      BY <1>0, <2>1, <2>3 DEF Bar, Served, Asking, AtRest
    <2>5. \A d \in Client \ {c} : Bar(d)' = Bar(d)
      BY <1>0, <2>1, <2>2, OthersStand
    <2> QED
      BY <2>4, <2>5, OneCall
  <1>5. CASE Await(c)
    <2>1. /\ pc[c] = "await" /\ pc' = [pc EXCEPT ![c] = "release"]
          /\ UNCHANGED <<semval, sought, spc>>
      BY <1>5 DEF Await, sems, server
    <2>2. semval[1] = 0
      BY <1>5, <2>1, CalmExchange DEF Await, Ready, Asking
    <2>3. Bar(c)' = Bar(c)
      BY <1>0, <2>1, <2>2 DEF Bar, Served, Asking
    <2>4. \A d \in Client \ {c} : Bar(d)' = Bar(d)
      BY <1>0, <2>1, OthersStand
    <2> QED
      BY <2>3, <2>4, OneCall
  <1>6. CASE Release(c)
    <2>1. /\ pc[c] = "release" /\ pc' = [pc EXCEPT ![c] = "compare"]
          /\ semval' = [semval EXCEPT ![0] = @ + 1]
          /\ UNCHANGED <<shm, sought, spc>>
      <3>1. SemStep(c, "release", "compare", 0, 1)
        BY <1>6 DEF Release
      <3> QED
        BY <3>1, CalmSemStep DEF Asking
    <2>2. Bar(c).state = "answered" /\ Bar(c)' = [state |-> "idle"]
      BY <1>0, <2>1 DEF Bar, Served, Asking
    <2>3. \A d \in Client \ {c} : Bar(d)' = Bar(d)
      BY <1>0, <2>1, OthersStand
    <2> QED
      BY <2>2, <2>3, OneCall
  <1>7. CASE Compare(c) \/ Copy(c)
    <2>1. /\ pc[c] \in {"compare", "copy"}
          /\ \E to \in {"idle", "copy"} : pc' = [pc EXCEPT ![c] = to]
          /\ UNCHANGED <<semval, sought, spc>>
      BY <1>7 DEF Compare, Copy, sems, server
    <2>2. Bar(c)' = Bar(c)
      BY <1>0, <2>1 DEF Bar, Asking
    <2>3. \A d \in Client \ {c} : Bar(d)' = Bar(d)
      BY <1>0, <2>1, OthersStand
    <2> QED
      BY <2>2, <2>3, OneCall
  <1> QED
    BY <1>1, <1>2, <1>3, <1>4, <1>5, <1>6, <1>7 DEF ClientStep

(* An answer is settled when its text is in shared memory: every other     *)
(* step of the server leaves the calls where they are.                     *)
LEMMA ServerMaps ==
  ASSUME IInv, Calm, IInv', Calm', ServerStep
  PROVE  [Service!Next]_CallBar
  <1>1. /\ pc' = pc /\ sought' = sought /\ handles' = handles
        /\ semval[1] \in 0..SemVmx
    BY DEF ServerStep, ServerWait, ServerNotify, ServerSemop, ServerEnds,
           ServerSearch, ServerAnswer, client, IInv, TypeOK
  <1>2. ~AtRest
    BY ShmAssumption
       DEF ServerStep, ServerWait, ServerNotify, ServerSemop, Ready,
           ServerSearch, ServerAnswer, AtRest
  <1>3. PICK h \in Client : pc[h] = "await"
    BY <1>2, CalmExchange DEF Undisturbed
  <1>4. \A d \in Client \ {h} : pc[d] # "await"
    BY <1>3, CalmExchange
  <1>5. \A d \in Client \ {h} : Bar(d)' = Bar(d)
    BY <1>1, <1>4, OthersStand
  <1>6. Stage(h) /\ handles[h] = {"sem", "shm"}
    BY <1>3, CalmExchange DEF Asking
  <1>7. Stage(h)'
    BY <1>1, <1>3, CalmExchange, CalmNext DEF Asking
  <1>8. CASE ServerAnswer
    <2>1. spc = "answer" /\ spc' = "notify" /\ semval' = semval /\ semval[1] = 1
      BY <1>6, <1>8 DEF ServerAnswer, Stage, sems
    <2>2. /\ Bar(h) = [state |-> "asked", word |-> sought[h]]
          /\ Bar(h)' = [state |-> "answered", word |-> sought[h],
                        text |-> AnswerTo(sought[h])]
      BY <1>1, <1>3, <2>1 DEF Bar, Served, Asking, AnswerTo
    <2> QED
      BY <1>5, <2>2, OneCall
  <1>9. CASE ServerWait \/ ServerSearch \/ ServerNotify
    <2>1. Served(h)' <=> Served(h)
      <3>1. CASE ServerSearch
        BY <1>1, <3>1 DEF ServerSearch, sems, Served
      <3>2. CASE ServerWait
        <4>1. spc = "wait" /\ spc' = "search"
          BY <3>2 DEF ServerWait, ServerSemop, ServerEnds, Calm
        <4>2. semval[1] = 2 /\ semval'[1] = 1
          BY <1>2, <1>6, <1>7, <4>1 DEF Stage, AtRest
        <4> QED
          BY <1>1, <1>3, <4>1, <4>2 DEF Served
      <3>3. CASE ServerNotify
        <4>1. spc = "notify" /\ spc' = "wait"
          BY <3>3 DEF ServerNotify, ServerSemop, ServerEnds, Calm
        <4>2. semval'[1] = semval[1] - 1 /\ semval[1] = 1
          BY <1>6, <3>3, <4>1
             DEF ServerNotify, ServerSemop, ServerEnds, Perform, Stage, Calm,
                 IInv, TypeOK
        <4> QED
          BY <1>1, <1>3, <4>1, <4>2 DEF Served
      <3> QED
        BY <1>9, <3>1, <3>2, <3>3
    <2>2. Bar(h)' = Bar(h)
      BY <1>1, <2>1 DEF Bar, AnswerTo
    <2> QED
      BY <1>5, <2>2, OneCall
  <1> QED
    BY <1>8, <1>9 DEF ServerStep

(* A client that leaves has no call and, with the exchange undisturbed,    *)
(* does not touch semaphore 1.                                             *)
LEMMA LeaveMaps ==
  ASSUME IInv, Calm, IInv', Calm', NEW c \in Client, Leave(c)
  PROVE  [Service!Next]_CallBar
  <1>1. /\ pc[c] = "idle" /\ pc' = [pc EXCEPT ![c] = "gone"]
        /\ UNCHANGED <<sought, spc>> /\ ~Disturbs(c)
        /\ semval'[1] = Clamp(semval[1] + semadj[c][1])
    BY DEF Leave, ClientEnds, ApplyUndo, server, Calm
  <1>2. /\ semval[1] \in 0..SemVmx
        /\ semadj[c][1] \in Int /\ semadj[c][1] <= 0
    BY CalmExchange, ShmAssumption DEF TypeOK, Undisturbed
  <1>3. semval'[1] = semval[1]
    <2>1. CASE semval[1] = 0
      BY <1>1, <1>2, <2>1, ShmAssumption DEF Clamp
    <2>2. CASE semadj[c][1] = 0
      BY <1>1, <1>2, <2>2, ShmAssumption DEF Clamp
    <2> QED
      BY <1>1, <1>2, <2>1, <2>2, ShmAssumption DEF Disturbs
  <1>4. pc \in [Client -> {"idle", "grab", "write", "alert", "await", "release",
                           "compare", "copy", "gone"}]
    BY DEF IInv, TypeOK
  <1>5. Bar(c)' = Bar(c)
    BY <1>1, <1>4 DEF Bar, Asking
  <1>6. \A d \in Client \ {c} : Bar(d)' = Bar(d)
    BY <1>1, <1>3, <1>4, OthersStand
  <1> QED
    BY <1>5, <1>6, OneCall

LEMMA StepMaps ==
  ASSUME "kill" \notin Events, IInv, Calm, IInv', Calm', [Next]_vars
  PROVE  [Service!Next]_CallBar
  <1>1. CASE UNCHANGED vars
    <2>1. CallBar' = CallBar
      BY <1>1 DEF vars, CallBar, Served
    <2> QED
      BY <2>1
  <1>2. ASSUME NEW c \in Client, Kill(c)
        PROVE  FALSE
    BY <1>2 DEF Kill, Calm
  <1>3. ~Stop
    BY DEF Stop, ServerEnds, Calm
  <1>4. ~Restart
    BY CalmExchange DEF Restart, Undisturbed, AtRest, Stage
  <1> QED
    BY <1>1, <1>2, <1>3, <1>4, ClientMaps, ServerMaps, LeaveMaps DEF Next

(* While no client is killed, nothing disturbs an exchange and both        *)
(* handles of each call are good, every step is a step of the service or   *)
(* none: each call is answered with the definition of its own word, up to  *)
(* the release of the mutex (lookup6.c:64).                                *)
THEOREM ImplementsService ==
  ASSUME "kill" \notin Events
  PROVE  Spec /\ []Calm => Service!Spec
  <1>1. Init => Service!Init
    BY DEF Init, CallBar, Service!Init, Service!Idle
  <1>2. IInv /\ Calm /\ IInv' /\ Calm' /\ [Next]_vars => [Service!Next]_CallBar
    BY StepMaps
  <1> QED
    BY <1>1, <1>2, Inductive, PTL DEF Spec, Service!Spec

=============================================================================
