-------------------------- MODULE ShellJobs_proofs --------------------------
(***************************************************************************)
(* The safety of the shell's job control for any number of children: no    *)
(* child that has ended is forgotten although SIGCHLD is a single bit, and *)
(* no exit status gets lost between the two places that call waitpid.      *)
(* And of a session: a line runs its own builtin, whoever was waited for   *)
(* is gone at the prompt, and since sh8 no zombie is forgotten.            *)
(***************************************************************************)
EXTENDS MCShells, TLAPS

\* A step of each kind keeps the types.
LEMMA TypeStep ==
  ASSUME TypeOK, [Next]_vars
  PROVE  TypeOK'
<1> USE DEF TypeOK, main, hand, kids, MainAt
<1>1. ASSUME NEW p \in Pid, NEW background \in BOOLEAN,
             RunCommand(p, background)
      PROVE  TypeOK'
  BY <1>1 DEF RunCommand
<1>2. CASE Wait
  BY <1>2 DEF Wait
<1>3. CASE Show
  BY <1>3 DEF Show
<1>4. CASE Quit
  BY <1>4 DEF Quit
<1>5. CASE Interrupt
  BY <1>5 DEF Interrupt
<1>6. CASE Reap
  BY <1>6 DEF Reap, Zombies
<1>7. CASE ReapShow
  BY <1>7 DEF ReapShow
<1>8. ASSUME NEW p \in Pid, NEW s \in Status, End(p, s)
      PROVE  TypeOK'
  BY <1>8 DEF End
<1>9. CASE UNCHANGED vars
  BY <1>9 DEF vars
<1> QED
  BY <1>1, <1>2, <1>3, <1>4, <1>5, <1>6, <1>7, <1>8, <1>9
  DEF Next, Main, Handler

(* The shell, its handler and its children keep their types; run_command   *)
(* waits for a child it has forked and the handler shows one it has reaped *)
(* (run_command.c:43-47, child_handler.c:21-37).                           *)
THEOREM TypeCorrect == Spec => []TypeOK
<1>1. Init => TypeOK
  BY DEF Init, TypeOK
<1> QED
  BY <1>1, TypeStep, PTL DEF Spec
-----------------------------------------------------------------------------
LEMMA ForgottenStep ==
  ASSUME TypeOK, NoneForgotten, [Next]_vars
  PROVE  NoneForgotten'
<1> USE DEF TypeOK, NoneForgotten, Zombies, main, hand, kids, MainAt
<1>1. ASSUME NEW p \in Pid, NEW background \in BOOLEAN,
             RunCommand(p, background)
      PROVE  NoneForgotten'
  BY <1>1 DEF RunCommand
<1>2. CASE Wait
  BY <1>2 DEF Wait
<1>3. CASE Show \/ Quit
  BY <1>3 DEF Show, Quit
<1>4. CASE Interrupt \/ Reap \/ ReapShow
  BY <1>4 DEF Interrupt, Reap, ReapShow
<1>5. ASSUME NEW p \in Pid, NEW s \in Status, End(p, s)
      PROVE  NoneForgotten'
  BY <1>5 DEF End
<1>6. CASE UNCHANGED vars
  BY <1>6 DEF vars
<1> QED
  BY <1>1, <1>2, <1>3, <1>4, <1>5, <1>6 DEF Next, Main, Handler

(* While a zombie is left, SIGCHLD is pending or the handler is at work,   *)
(* for any number of children that end together (child_handler.c:18-38).   *)
THEOREM NoChildForgotten == Spec => []NoneForgotten
<1>1. Init => NoneForgotten
  BY DEF Init, NoneForgotten, Zombies
<1> QED
  BY <1>1, TypeCorrect, ForgottenStep, PTL DEF Spec
-----------------------------------------------------------------------------
\* Where the status of a reaped child is.
Kept(p) ==
  \/ status[p] \in shown[p]
  \/ handler = "show" /\ hpid = p
  \/ sh = "show" /\ fg = p /\ stat = status[p]

LEMMA KeptStep ==
  ASSUME TypeOK, StatusKept, [Next]_vars
  PROVE  StatusKept'
<1> SUFFICES ASSUME NEW q \in Pid, kid'[q] = "reaped"
             PROVE  Kept(q)'
  BY DEF StatusKept, Kept
<1>a. kid[q] = "reaped" => Kept(q)
  BY DEF StatusKept, Kept
<1> USE <1>a DEF TypeOK, Kept, main, hand, kids, MainAt
<1>1. ASSUME NEW p \in Pid, NEW background \in BOOLEAN,
             RunCommand(p, background)
      PROVE  Kept(q)'
  BY <1>1 DEF RunCommand
<1>2. CASE Wait
  BY <1>2 DEF Wait
<1>3. CASE Show
  BY <1>3 DEF Show
<1>4. CASE Quit
  BY <1>4 DEF Quit
<1>5. CASE Interrupt
  BY <1>5 DEF Interrupt
<1>6. CASE Reap
  BY <1>6 DEF Reap, Zombies
<1>7. CASE ReapShow
  BY <1>7 DEF ReapShow
<1>8. ASSUME NEW p \in Pid, NEW s \in Status, End(p, s)
      PROVE  Kept(q)'
  BY <1>8 DEF End
<1>9. CASE UNCHANGED vars
  BY <1>9 DEF vars
<1> QED
  BY <1>1, <1>2, <1>3, <1>4, <1>5, <1>6, <1>7, <1>8, <1>9
  DEF Next, Main, Handler

(* The status of a child that was reaped has been shown, or whoever reaped *)
(* it, run_command or the handler, is about to show it (run_command.c:45,  *)
(* child_handler.c:21).                                                    *)
THEOREM NoStatusLost == Spec => []StatusKept
<1>1. Init => StatusKept
  BY DEF Init, StatusKept
<1> QED
  BY <1>1, TypeCorrect, KeptStep, PTL DEF Spec
-----------------------------------------------------------------------------
(* A session, for any number of processes, lines and ^C.                   *)

\* The types, with those that SessionTypeOK leaves out.
SessionTypes ==
  /\ Session!SessionTypeOK
  /\ version \in Session!Versions
  /\ sPending \in BOOLEAN /\ sHandler \in BOOLEAN
  /\ back \in [SessionPid -> BOOLEAN]

\* The line main works on and the builtin that was found for it.
LineKept ==
  /\ sSh = "builtin" => this = argv.cmd /\ this \in Session!Builtins
  /\ sSh = "fork" => argv.cmd \notin Session!Builtins

\* What a child that is left over is there for.
ChildrenKept ==
  /\ \A p \in SessionPid :
       sKid[p] # "none" =>
         \/ back[p]
         \/ sSh = "wait" /\ sFg = p
         \/ sSh \in {"exited", "killed"}
  /\ sSh = "wait" => ~back[sFg]
  /\ version < 8 => \A p \in SessionPid : back[p] => sKid[p] # "none"

\* Before sh8 SIGCHLD is of no consequence.
SignalsKept ==
  /\ version < 8 => ~sPending /\ ~sHandler
  /\ Session!NoneLeft

SessionInv ==
  program = "session" => SessionTypes /\ LineKept /\ ChildrenKept /\ SignalsKept

LEMMA SessionStart == InitShells => SessionInv
<1> SUFFICES ASSUME Session!Init PROVE SessionTypes /\ LineKept /\ ChildrenKept /\ SignalsKept
  BY DEF InitShells, InitSession, SessionInv
<1> USE SessionAssumption DEF Session!Init
<1>1. SessionTypes
  BY DEF SessionTypes, Session!SessionTypeOK, Session!NoLine, Session!Line
<1>2. LineKept /\ ChildrenKept
  BY DEF LineKept, ChildrenKept
<1>3. SignalsKept
  BY DEF SignalsKept, Session!NoneLeft
<1> QED
  BY <1>1, <1>2, <1>3

\* A session's step by step; what the shell does with a line.
LEMMA SessionTypesStep ==
  ASSUME SessionTypes, LineKept, Session!Next
  PROVE  SessionTypes'
<1> USE SessionAssumption
    DEF SessionTypes, Session!SessionTypeOK, Session!kids, Session!main,
        Session!MainAt, Session!Versions
<1>1. ASSUME NEW l \in Session!Line, Session!ReadLine(l) PROVE SessionTypes'
  BY <1>1 DEF Session!ReadLine, Session!IsBuiltin, Session!Builtins
<1>2. CASE Session!EndOfInput \/ Session!ForkFails
  BY <1>2 DEF Session!EndOfInput, Session!ForkFails, Session!Builtins
<1>3. CASE Session!DoBuiltin
  <2>1. dir' \in Dir
    BY <1>3 DEF Session!DoBuiltin, Session!Effect, Session!ChangeDir
  <2>2. this' \in Session!Builtins \cup {"none"} /\ sSh' \in {"prompt", "exited"}
    BY <1>3 DEF Session!DoBuiltin, Session!Effect, Session!IsBuiltin, Session!Builtins
  <2> QED
    BY <1>3, <2>1, <2>2 DEF Session!DoBuiltin, Session!Builtins
<1>4. ASSUME NEW p \in SessionPid, Session!Fork(p) PROVE SessionTypes'
  BY <1>4 DEF Session!Fork, Session!Builtins, Session!Line
<1>5. CASE Session!Wait
  BY <1>5 DEF Session!Wait, Session!Builtins
<1>6. ASSUME NEW p \in SessionPid, Session!Exec(p) \/ Session!End(p)
      PROVE  SessionTypes'
  <2>1. sPending' \in BOOLEAN
    <3>1. CASE Session!Exec(p)
      BY <3>1 DEF Session!Exec
    <3>2. CASE Session!End(p)
      BY <3>2 DEF Session!End
    <3> QED
      BY <1>6, <3>1, <3>2
  <2>2. sKid' \in [SessionPid -> {"none", "new", "running", "zombie"}]
    BY <1>6 DEF Session!Exec, Session!End
  <2>3. UNCHANGED <<version, argv, this, dir, sSh, sFg, sHandler, back>>
    BY <1>6 DEF Session!Exec, Session!End
  <2> QED
    BY <2>1, <2>2, <2>3 DEF Session!Builtins
<1>7. CASE Session!Break
  BY <1>7 DEF Session!Break, Session!Builtins
<1>8. CASE Session!Handle \/ Session!Reap
  BY <1>8 DEF Session!Handle, Session!Reap, Session!Builtins
<1> QED
  BY <1>1, <1>2, <1>3, <1>4, <1>5, <1>6, <1>7, <1>8
  DEF Session!Next, Session!Shell, Session!Child, Session!User

LEMMA LineStep ==
  ASSUME SessionTypes, LineKept, Session!Next
  PROVE  LineKept'
<1> USE DEF LineKept, Session!MainAt, Session!main
<1>1. ASSUME NEW l \in Session!Line, Session!ReadLine(l) PROVE LineKept'
  BY <1>1 DEF Session!ReadLine, Session!IsBuiltin, Session!Builtins
<1>2. CASE Session!EndOfInput \/ Session!ForkFails \/ Session!Wait
  BY <1>2 DEF Session!EndOfInput, Session!ForkFails, Session!Wait
<1>3. CASE Session!DoBuiltin
  BY <1>3 DEF Session!DoBuiltin, Session!Effect
<1>4. ASSUME NEW p \in SessionPid, Session!Fork(p) PROVE LineKept'
  BY <1>4 DEF Session!Fork
<1>5. ASSUME NEW p \in SessionPid, Session!Exec(p) \/ Session!End(p)
      PROVE  LineKept'
  BY <1>5 DEF Session!Exec, Session!End, Session!Builtins
<1>6. CASE Session!Break \/ Session!Handle \/ Session!Reap
  BY <1>6 DEF Session!Break, Session!Handle, Session!Reap, Session!Builtins
<1> QED
  BY <1>1, <1>2, <1>3, <1>4, <1>5, <1>6
  DEF Session!Next, Session!Shell, Session!Child, Session!User

LEMMA ChildrenStep ==
  ASSUME SessionTypes, ChildrenKept, SignalsKept, Session!Next
  PROVE  ChildrenKept'
<1> USE DEF SessionTypes, Session!SessionTypeOK, ChildrenKept, Session!MainAt,
            Session!main, Session!kids
<1>1. ASSUME NEW l \in Session!Line, Session!ReadLine(l) PROVE ChildrenKept'
  BY <1>1 DEF Session!ReadLine
<1>2. CASE Session!EndOfInput \/ Session!ForkFails
  BY <1>2 DEF Session!EndOfInput, Session!ForkFails
<1>3. CASE Session!DoBuiltin
  BY <1>3 DEF Session!DoBuiltin, Session!Effect
<1>4. ASSUME NEW p \in SessionPid, Session!Fork(p) PROVE ChildrenKept'
  BY <1>4 DEF Session!Fork
<1>5. CASE Session!Wait
  BY <1>5 DEF Session!Wait
<1>6. ASSUME NEW p \in SessionPid, Session!Exec(p) \/ Session!End(p)
      PROVE  ChildrenKept'
  BY <1>6 DEF Session!Exec, Session!End
<1>7. CASE Session!Break
  <2>1. \A p \in Session!Interrupted : sKid[p] # "none"
    BY DEF Session!Interrupted, Session!Versions
  <2>2. \A p \in SessionPid : sKid'[p] # "none" <=> sKid[p] # "none"
    BY <1>7, <2>1 DEF Session!Break
  <2>3. sSh' = sSh \/ sSh' = "killed"
    BY <1>7 DEF Session!Break
  <2>4. UNCHANGED <<version, sFg, back>>
    BY <1>7 DEF Session!Break
  <2> QED
    BY <2>2, <2>3, <2>4
<1>8. CASE Session!Handle
  BY <1>8 DEF Session!Handle
<1>9. CASE Session!Reap
  BY <1>9 DEF Session!Reap, SignalsKept
<1> QED
  BY <1>1, <1>2, <1>3, <1>4, <1>5, <1>6, <1>7, <1>8, <1>9
  DEF Session!Next, Session!Shell, Session!Child, Session!User

LEMMA SignalsStep ==
  ASSUME SessionTypes, SignalsKept, Session!Next
  PROVE  SignalsKept'
<1> USE DEF SessionTypes, Session!SessionTypeOK, Session!Versions, SignalsKept,
            Session!NoneLeft, Session!main, Session!kids
<1>1. ASSUME NEW l \in Session!Line, Session!ReadLine(l) PROVE SignalsKept'
  BY <1>1 DEF Session!ReadLine
<1>2. CASE Session!EndOfInput \/ Session!ForkFails
  BY <1>2 DEF Session!EndOfInput, Session!ForkFails
<1>3. CASE Session!DoBuiltin
  BY <1>3 DEF Session!DoBuiltin
<1>4. ASSUME NEW p \in SessionPid, Session!Fork(p) PROVE SignalsKept'
  BY <1>4 DEF Session!Fork
<1>5. CASE Session!Wait
  BY <1>5 DEF Session!Wait
<1>6. ASSUME NEW p \in SessionPid, Session!Exec(p) \/ Session!End(p)
      PROVE  SignalsKept'
  <2>1. CASE Session!Exec(p)
    BY <2>1 DEF Session!Exec
  <2>2. CASE Session!End(p)
    <3>1. sPending' <=> version >= 8
      BY <2>2 DEF Session!End
    <3> QED
      BY <2>2, <3>1 DEF Session!End
  <2> QED
    BY <1>6, <2>1, <2>2
<1>7. CASE Session!Break
  <2>1. sPending' <=> sPending \/ (version >= 8 /\ Session!Interrupted # {})
    BY <1>7 DEF Session!Break
  <2>2. \A p \in SessionPid :
          sKid'[p] = "zombie" => sKid[p] = "zombie" \/ p \in Session!Interrupted
    BY <1>7 DEF Session!Break
  <2>3. UNCHANGED <<version, sHandler>>
    BY <1>7 DEF Session!Break
  <2> QED
    BY <2>1, <2>2, <2>3
<1>8. CASE Session!Handle \/ Session!Reap
  BY <1>8 DEF Session!Handle, Session!Reap
<1> QED
  BY <1>1, <1>2, <1>3, <1>4, <1>5, <1>6, <1>7, <1>8
  DEF Session!Next, Session!Shell, Session!Child, Session!User

LEMMA SessionStep ==
  ASSUME SessionInv, [NextShells]_allVars
  PROVE  SessionInv'
<1> SUFFICES ASSUME program' = "session"
             PROVE  (SessionTypes /\ LineKept /\ ChildrenKept /\ SignalsKept)'
  BY DEF SessionInv
<1>1. program = "session" /\ (Session!Next \/ UNCHANGED sessionVars)
  BY DEF NextShells, Runs, allVars
<1>2. SessionTypes /\ LineKept /\ ChildrenKept /\ SignalsKept
  BY <1>1 DEF SessionInv
<1>3. CASE Session!Next
  BY <1>2, <1>3, SessionTypesStep, LineStep, ChildrenStep, SignalsStep
<1>4. CASE UNCHANGED sessionVars
  BY <1>2, <1>4 DEF sessionVars, SessionTypes, LineKept, ChildrenKept, SignalsKept,
     Session!SessionTypeOK, Session!NoneLeft, Session!Builtins
<1> QED
  BY <1>1, <1>3, <1>4

(* A session of any length, with any number of processes: do_builtin does  *)
(* the builtin of the line (builtin.c:122), at the prompt no child that    *)
(* was waited for is left (run_command.c:45), and since sh8 no zombie is   *)
(* forgotten.                                                              *)
THEOREM SessionSafe == SpecShells => []SessionKept
<1>1. SessionInv => SessionKept
  <2> SUFFICES ASSUME SessionTypes, LineKept, ChildrenKept, SignalsKept
               PROVE  /\ Session!SessionTypeOK /\ Session!OnlyItsBuiltin
                      /\ Session!ForegroundReaped /\ Session!NoneLeft
    BY DEF SessionInv, SessionKept
  <2>1. Session!SessionTypeOK /\ Session!NoneLeft
    BY DEF SessionTypes, SignalsKept
  <2>2. Session!OnlyItsBuiltin
    BY DEF LineKept, Session!OnlyItsBuiltin, Session!MainAt
  <2>3. Session!ForegroundReaped
    BY DEF ChildrenKept, Session!ForegroundReaped
  <2> QED
    BY <2>1, <2>2, <2>3
<1> QED
  BY <1>1, SessionStart, SessionStep, PTL DEF SpecShells
=============================================================================
