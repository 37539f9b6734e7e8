----------------------------- MODULE MCLookups -----------------------------
(***************************************************************************)
(* Two of the ways to ask the dictionary, one in a behaviour: the message  *)
(* queue (MsgqLookup), with clients and servers that end, or the shared    *)
(* memory (ShmLookup), left alone.  The variables of the other rest.       *)
(***************************************************************************)
EXTENDS MCMsgqLookup

CONSTANTS
  ShmCalls,  \* words a user of the shared memory types
  SemAem,    \* the kernel's bounds on adjustments and values
  SemVmx

VARIABLES
  program,  \* which of the two runs
  semval, semadj, shm, shmPc, handles, shmCalls, shmSought, shmResult, shmSpc,
  hit, clean, torn

\* Nothing happens to its processes, and a call finds the handles of the last.
Shm ==
  INSTANCE ShmLookup
  WITH MaxCalls <- ShmCalls, LaterHandles <- {{"sem", "shm"}}, Events <- {},
       pc <- shmPc, calls <- shmCalls, sought <- shmSought,
       result <- shmResult, spc <- shmSpc

shmVars == <<semval, semadj, shm, shmPc, handles, shmCalls, shmSought, shmResult,
             shmSpc, hit, clean, torn>>
lookupVars == <<program, vars, shmVars>>

InitLookups == program \in {"queue", "memory"} /\ Init /\ Shm!Init

OfQueue(A) == program = "queue" /\ A /\ UNCHANGED <<program, shmVars>>
OfMemory(A) == program = "memory" /\ A /\ UNCHANGED <<program, vars>>

NextLookups == OfQueue(Next) \/ OfMemory(Shm!Next)

SpecLookups ==
  /\ InitLookups /\ [][NextLookups]_lookupVars
  /\ WF_lookupVars(OfQueue(ServerStep)) /\ WF_lookupVars(OfMemory(Shm!ServerStep))
  /\ \A c \in Client :
       /\ WF_lookupVars(OfQueue(ClientStep(c)))
       /\ WF_lookupVars(OfMemory(Shm!ClientStep(c)))
-----------------------------------------------------------------------------
(* Left alone, with handles that survive from call to call, the exchange   *)
(* over shared memory is a dictionary service up to the release: each call *)
(* is answered with the definition of its own word, and each client takes  *)
(* its answer (lookup6.c:53-64, shm_server.c:84-107).                      *)
MemoryImplements == Shm!Implements
=============================================================================
