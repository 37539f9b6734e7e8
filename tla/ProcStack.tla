----------------------------- MODULE ProcStack -----------------------------
(***************************************************************************)
(* proc_stackMain: each process calls stackInit and then has a thread that *)
(* pushes and one that pops, on the stack of CondStack in a shared area.   *)
(***************************************************************************)
EXTENDS Integers, FiniteSets

CONSTANTS
  Process, NoProcess,
  Pusher, Popper, Home,  \* Home[t]: the process of thread t
  StackSize, MaxCount, None

VARIABLES
  index, mutex, where, left, spurious,
  file, creator, step, todo, early,
  net  \* history: what index would be had nobody set it to 0 later

stack == <<index, mutex, where, left, spurious>>
area == <<file, creator, step, todo, early>>
vars == <<stack, area, net>>

Stack == INSTANCE CondStack WITH MaxSpurious <- 0
Area == INSTANCE SharedArea
          WITH Inverted <- FALSE, AllExtend <- TRUE, Stages <- 3

Thread == Pusher \cup Popper

\* The file may be there already, with what earlier processes left on the
\* stack; proc_stack.sh removes it first, stackInit does not.
Init ==
  /\ Area!Init
  /\ mutex = None
  /\ where = [t \in Thread |-> "outside"]
  /\ left = [t \in Thread |-> MaxCount]
  /\ spurious = 0
  /\ index \in IF file = "absent" THEN {0} ELSE 0..StackSize
  /\ net = index

\* Mutant: index is set by whoever joins, not by the creator only.
JoinAndReset(p) ==
  /\ Area!Open(p) \/ Area!Extend(p)
  /\ index' = IF step[p] = "extend" THEN 0 ELSE index
  /\ UNCHANGED <<mutex, where, left, spurious, net>>

\* open, ftruncate, mmap.
Join(p) ==
  /\ Area!Open(p) \/ Area!Extend(p)
  /\ UNCHANGED <<stack, net>>

\* pthread_mutex_init, pthread_cond_init, index = 0, in this order.
SetUp(p) ==
  /\ Area!SetUp(p)
  /\ mutex' = IF todo[p] = 3 THEN None ELSE mutex
  /\ index' = IF todo[p] = 1 THEN 0 ELSE index
  /\ UNCHANGED <<where, left, spurious, net>>

PushOrPop(t) ==
  /\ Area!Ready(Home[t])
  /\ Stack!Step(t)
  /\ net' = net + index' - index
  /\ UNCHANGED area

Next ==
  \/ \E p \in Process : Join(p) \/ SetUp(p)
  \/ \E t \in Thread : PushOrPop(t)
-----------------------------------------------------------------------------
(* Whoever joins finds what was pushed and not popped, and one thread at a *)
(* time changes it, unless a process was at work before its creator had    *)
(* set the area up.                                                        *)
StackKept ==
  ~early => /\ index = net
            /\ \A t, u \in Thread :
                 where[t] = "inside" /\ where[u] = "inside" => t = u
=============================================================================
