------------------------------ MODULE MCMod11 ------------------------------
(* The programs of examples/mod11-synchronization, and those of mod07-      *)
(* threads that share memory, one run for all of them: program says which   *)
(* one it is.  The variables of the others rest; those of the stack keep    *)
(* its initial state, so that its invariants speak of it.                   *)
EXTENDS CondStack

CONSTANTS
  Process, NoProcess,     \* those that share an area
  Home,                   \* Home[t]: the process of thread t
  ProcStackSize, ProcMaxCount,
  Client, NumTellers,     \* sem.c
  ProcClient, FewTellers, \* proc_sem.c
  Reader, Writer,
  Counting,               \* the threads or processes that count
  Rounds,
  NumThreads,             \* the movers' jobs
  N, MaxCores             \* the array, and the cores to add it up

ASSUME Mod11Assumption ==
  /\ Home \in [Thread \cup ProcClient \cup Reader \cup Writer -> Process]
  /\ NoProcess \notin Process
  /\ ProcStackSize \in Nat \ {0} /\ ProcMaxCount \in Nat
  /\ IsFiniteSet(Client) /\ NumTellers \in Nat
  /\ IsFiniteSet(ProcClient) /\ FewTellers \in Nat
  /\ Reader \cap Writer = {}
  /\ None \notin Client \cup ProcClient \cup Reader \cup Writer \cup Counting
  /\ IsFiniteSet(Counting) /\ Counting # {}
  /\ Rounds \in Nat /\ NumThreads \in Nat /\ N \in Nat /\ MaxCores \in Nat \ {0}

\* What TLC takes for Home: two processes with one thread of each kind, but
\* for a client.
CONSTANTS push1, pop1, c1, t1, p1, p2
HomeOf ==
  [x \in Thread \cup ProcClient \cup Reader \cup Writer |->
     IF x \in {push1, pop1, c1, t1} THEN p1 ELSE p2]

VARIABLES
  program,
  pIndex, pMutex, pWhere, pLeft, pSpurious, net,
  bankLine, semMutex, bWhere, inaHurry, bSpurious, killed,
  threads, synchronized, count, cMutex, cWhere, temp, cLeft, increments, broken,
  shared, userwlock, writer, readers, rMutex, rWhere, rLeft, crossed,
  sem, mWhere,
  exercise, state, holder, eWhere, held, eLeft,
  cores, tasks, core, n, sWhere, partial, joined, sum,
  file, creator, step, todo, early

stackVars == <<index, mutex, where, left, spurious>>
procStackVars == <<pIndex, pMutex, pWhere, pLeft, pSpurious, net>>
bankVars == <<bankLine, semMutex, bWhere, inaHurry, bSpurious>>
counterVars == <<threads, synchronized, count, cMutex, cWhere, temp, cLeft,
                 increments, broken>>
rwVars == <<shared, userwlock, writer, readers, rMutex, rWhere, rLeft, crossed>>
moverVars == <<sem, mWhere>>
stateVars == <<exercise, state, holder, eWhere, held, eLeft>>
sumVars == <<cores, tasks, core, n, sWhere, partial, joined, sum>>
areaVars == <<file, creator, step, todo, early>>
allVars == <<program, stackVars, procStackVars, bankVars, killed, counterVars,
             rwVars, moverVars, stateVars, sumVars, areaVars>>

ProcStack == INSTANCE ProcStack WITH
  StackSize <- ProcStackSize, MaxCount <- ProcMaxCount,
  index <- pIndex, mutex <- pMutex, where <- pWhere, left <- pLeft,
  spurious <- pSpurious
Bank == INSTANCE BankTellers WITH
  where <- bWhere, spurious <- bSpurious
ProcBank == INSTANCE ProcTellers WITH
  Client <- ProcClient, NumTellers <- FewTellers,
  where <- bWhere, spurious <- bSpurious
Counter == INSTANCE SharedCounter WITH
  Process <- Counting,
  mutex <- cMutex, where <- cWhere, left <- cLeft
Rw == INSTANCE RwLocks WITH
  mutex <- rMutex, where <- rWhere, left <- rLeft
Company == INSTANCE Movers WITH where <- mWhere
State == INSTANCE SharedState WITH
  Thread <- Counting, Rounds <- Rounds + 1, where <- eWhere, left <- eLeft
Parallel == INSTANCE ParallelSum WITH where <- sWhere

Programs == {"stack", "procstack", "bank", "procbank", "counter", "rw", "movers",
             "state", "parallel"}

\* The variables of a program that is not the one that runs.
InitProcStack ==
  IF program = "procstack" THEN ProcStack!Init
  ELSE /\ pIndex = None /\ pMutex = None /\ pWhere = None /\ pLeft = None
       /\ pSpurious = None /\ net = None
InitBank ==
  CASE program = "bank" -> Bank!Init /\ killed = None
    [] program = "procbank" -> ProcBank!Init
    [] OTHER -> /\ bankLine = None /\ semMutex = None /\ bWhere = None
                /\ inaHurry = None /\ bSpurious = None /\ killed = None
InitCounter ==
  IF program = "counter" THEN Counter!Init
  ELSE /\ threads = FALSE /\ synchronized = None /\ count = None
       /\ cMutex = None /\ cWhere = None /\ temp = None /\ cLeft = None
       /\ increments = None /\ broken = None
InitRw ==
  IF program = "rw" THEN Rw!Init
  ELSE /\ shared = TRUE /\ userwlock = None /\ writer = None /\ readers = None
       /\ rMutex = None /\ rWhere = None /\ rLeft = None /\ crossed = None
InitState ==
  IF program = "state" THEN State!Init
  ELSE /\ exercise = None /\ state = None /\ holder = None /\ eWhere = None
       /\ held = None /\ eLeft = None
InitSum ==
  IF program = "parallel" THEN Parallel!Init
  ELSE /\ cores = None /\ tasks = None /\ core = None /\ n = None
       /\ sWhere = None /\ partial = None /\ joined = None /\ sum = None
InitArea ==
  program \in {"stack", "bank", "movers", "state", "parallel"} =>
    /\ file = None /\ creator = None /\ step = None /\ todo = None
    /\ early = None

InitMod11 ==
  /\ program \in Programs
  /\ Init /\ InitProcStack /\ InitBank /\ InitCounter /\ InitRw
  /\ InitState /\ InitSum
  /\ IF program = "movers" THEN Company!Init ELSE sem = None /\ mWhere = None
  /\ InitArea

\* Only this program moves.
Runs(p) ==
  /\ program = p /\ UNCHANGED program
  /\ IF p = "stack" THEN TRUE ELSE UNCHANGED stackVars
  /\ IF p = "procstack" THEN TRUE ELSE UNCHANGED procStackVars
  /\ IF p \in {"bank", "procbank"} THEN TRUE ELSE UNCHANGED bankVars
  /\ IF p = "procbank" THEN TRUE ELSE UNCHANGED killed
  /\ IF p = "counter" THEN TRUE ELSE UNCHANGED counterVars
  /\ IF p = "rw" THEN TRUE ELSE UNCHANGED rwVars
  /\ IF p = "movers" THEN TRUE ELSE UNCHANGED moverVars
  /\ IF p = "state" THEN TRUE ELSE UNCHANGED stateVars
  /\ IF p = "parallel" THEN TRUE ELSE UNCHANGED sumVars
  /\ IF p \in {"procstack", "procbank", "counter", "rw"} THEN TRUE
     ELSE UNCHANGED areaVars

\* What the threads of one process do by themselves; there is an end to it.
Work ==
  \/ Runs("stack") /\ \E t \in Thread : Step(t)
  \/ Runs("bank") /\ \E c \in Client : Bank!ClientStep(c)
  \/ Runs("counter") /\ threads /\ \E p \in Counting : Counter!Loop(p)
  \/ Runs("rw") /\ ~shared /\ \E t \in Reader \cup Writer : Rw!Loop(t)
  \/ Runs("movers") /\ Company!Next
  \/ Runs("state") /\ State!Next
  \/ Runs("parallel") /\ Parallel!Next

\* Wakeups without a signal, and processes that share an area.
Other ==
  \/ Runs("stack") /\ \E t \in Thread : WakeUnasked(t)
  \/ Runs("bank") /\ \E c \in Client : Bank!WakeUnasked(c)
  \/ Runs("procstack") /\ ProcStack!Next
  \/ Runs("procbank") /\ ProcBank!Next
  \/ Runs("counter") /\ ~threads /\ Counter!Next
  \/ Runs("rw") /\ shared /\ Rw!Next

NextMod11 == Work \/ Other

\* Each thread works in rounds that are counted, and each wait ends with a
\* round of another thread, so that one fairness for all of them is enough.
SpecMod11 == InitMod11 /\ [][NextMod11]_allVars /\ WF_allVars(Work)
-----------------------------------------------------------------------------
(* The variables of the other programs keep their types.                   *)
OthersTypeOK ==
  /\ program = "bank" => Bank!TypeOK
  /\ program \in {"procstack", "procbank", "counter", "rw"} =>
       CASE program = "procstack" -> ProcStack!Area!TypeOK /\ ProcStack!Stack!TypeOK
         [] program = "procbank" -> ProcBank!Area!TypeOK /\ ProcBank!Bank!TypeOK
         [] program = "counter" -> Counter!Area!TypeOK
         [] program = "rw" -> Rw!Area!TypeOK

(* Tellers (sem.c): each is free or with one client, and nobody sleeps     *)
(* while one stays free, though a client in a hurry may take the teller    *)
(* that a sleeper was signalled for.                                       *)
TellersServe == program = "bank" => Bank!TellersKept /\ Bank!NobodyStranded

(* Tellers: the number reported is the one the call produced, which the    *)
(* mutex is there for (proc_sem.c:44).                                     *)
ReportIsOwn == [][program = "bank" => Bank!ReportKept]_allVars

(* Tellers shared by processes (proc_sem.c): the same once the creator has *)
(* set them up, if nobody was at work before.                              *)
TellersShared == program = "procbank" => ProcBank!Undisturbed

(* The shared stack (proc_stack.c): nobody's pushes or pops are undone,    *)
(* unless a process was at work before its creator had set it up.          *)
StackKept == program = "procstack" => ProcStack!StackKept

(* The counter: no increment is lost while the mutex is not reset.  The    *)
(* array of parallel.c: no element is added up twice.                      *)
CountKept ==
  /\ program = "counter" => Counter!CountKept
  /\ program = "parallel" => Parallel!SumKept

(* The read-write lock: a writer is alone, each lock returned is its own.  *)
WriterAlone == program = "rw" => Rw!WriterAlone

(* The movers: resources in use and free ones make up what there is.  The  *)
(* exercises of mod07-threads: no round is lost under a lock, and without  *)
(* one never all but one.                                                  *)
ResourcesKept ==
  /\ program = "movers" => Company!ResourcesKept
  /\ program = "state" => State!StateKept

(* The joins of main return in the programs of one process: every thread   *)
(* of the stack, the bank, the counter, the readers and writers, the       *)
(* movers and the exercises comes to its end.                              *)
AllFinish ==
  <>CASE program = "stack" -> \A t \in Thread : Finished(t)
      [] program = "bank" -> Bank!AllServed
      [] program = "counter" -> threads => Counter!Done
      [] program = "rw" -> ~shared => Rw!Done
      [] program = "movers" -> Company!Done
      [] program = "state" -> State!Done
      [] program = "parallel" -> Parallel!Done
      [] OTHER -> TRUE
=============================================================================
