----------------------------- MODULE SharedArea -----------------------------
(***************************************************************************)
(* How the processes of examples/mod11-synchronization/procnthread come to *)
(* share an area: open with O_EXCL makes one of them the creator,          *)
(* ftruncate gives the file its size, mmap, and the creator initialises    *)
(* what the area holds, while the others go ahead at once.                 *)
(***************************************************************************)
EXTENDS Integers

CONSTANTS
  Process,
  NoProcess,  \* the creator of a file that an earlier run left
  Inverted,   \* createdHere reads true in those who join (proc_mutex.c:18)
  AllExtend,  \* every process extends the file, not only where createdHere
  Stages      \* writes that the initialisation consists of

VARIABLES
  file,     \* "absent", "empty" (no room to map yet) or "sized"
  creator,  \* the process whose open with O_EXCL succeeded
  step,     \* step[p]: "open", "extend", "mapped" or "ended"
  todo,     \* todo[p]: writes of the initialisation p has still to make
  early     \* history: a process was at work while another initialised

vars == <<file, creator, step, todo, early>>

Init ==
  /\ file \in {"absent", "sized"}
  /\ creator = NoProcess
  /\ step = [p \in Process |-> "open"]
  /\ todo = [p \in Process |-> 0]
  /\ early = FALSE

\* What "if (createdHere)" finds.
CreatedHere(p) == (p = creator) # Inverted

\* Mutant: B_TRUE and B_FALSE are mixed up.
CreatedElsewhere(p) == (p # creator) # Inverted

Ready(p) == step[p] = "mapped" /\ todo[p] = 0

SettingUp(p) ==
  \/ step[p] = "extend" /\ CreatedHere(p)
  \/ step[p] = "mapped" /\ todo[p] > 0

\* The creator has written all it had to write, whether or not it is still there.
Complete ==
  /\ file = "sized" /\ creator \in Process
  /\ step[creator] \in {"mapped", "ended"} /\ todo[creator] = 0

NoteEarly ==
  early' = (early \/ \E p, q \in Process : Ready(p)' /\ SettingUp(q)')

Open(p) ==
  /\ step[p] = "open"
  /\ IF file = "absent" THEN file' = "empty" /\ creator' = p
                        ELSE UNCHANGED <<file, creator>>
  /\ step' = [step EXCEPT ![p] = "extend"]
  /\ UNCHANGED todo
  /\ NoteEarly

\* ftruncate, which leaves a file of that size as it is, and mmap.
Extend(p) ==
  /\ step[p] = "extend"
  /\ file' = IF AllExtend \/ CreatedHere(p) THEN "sized" ELSE file
  /\ step' = [step EXCEPT ![p] = "mapped"]
  /\ todo' = [todo EXCEPT ![p] = IF CreatedHere(p) THEN Stages ELSE 0]
  /\ UNCHANGED creator
  /\ NoteEarly

\* One write of the initialisation; who uses the area says what it writes.
SetUp(p) ==
  /\ step[p] = "mapped" /\ todo[p] > 0 /\ file = "sized"
  /\ todo' = [todo EXCEPT ![p] = @ - 1]
  /\ UNCHANGED <<file, creator, step>>
  /\ NoteEarly

\* The process ends: killed, interrupted, or its work done.
End(p) ==
  /\ step[p] # "ended"
  /\ step' = [step EXCEPT ![p] = "ended"]
  /\ UNCHANGED <<file, creator, todo>>
  /\ NoteEarly

\* SIGBUS: the area is touched where the file is still empty.
Fault(p) ==
  /\ step[p] = "mapped" /\ file = "empty"
  /\ End(p)
-----------------------------------------------------------------------------
TypeOK ==
  /\ file \in {"absent", "empty", "sized"}
  /\ creator \in Process \cup {NoProcess}
  /\ step \in [Process -> {"open", "extend", "mapped", "ended"}]
  /\ todo \in [Process -> 0..Stages]
  /\ early \in BOOLEAN
=============================================================================
