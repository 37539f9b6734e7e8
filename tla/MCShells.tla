------------------------------ MODULE MCShells ------------------------------
(* The jobs of shell/sh9 and a session with the shells of the course, one  *)
(* run for both: program says which.  The variables of the other rest, and *)
(* the jobs keep their initial state, so that their invariants speak of it. *)
EXTENDS ShellJobs, Naturals

CONSTANTS
  SessionPid,         \* processes there is room for in a session
  Dir, Home,
  MaxLines, MaxBreaks \* bounds: lines typed, times ^C is pressed

ASSUME SessionAssumption == Home \in Dir /\ NoPid \notin SessionPid

\* What TLC takes for the sets.
CONSTANTS p1, p2, p3, ok, failed, home, away
ThreePids == {p1, p2, p3}
TwoPids == {p1, p2}
TwoStatuses == {ok, failed}
TwoDirs == {home, away}

VARIABLES
  program,
  version, typed, argv, this, dir, sSh, sFg, sKid, back, sPending, sHandler,
  breaks

sessionVars == <<version, typed, argv, this, dir, sSh, sFg, sKid, back,
                 sPending, sHandler, breaks>>
allVars == <<program, vars, sessionVars>>

Session == INSTANCE ShellSession WITH
  Pid <- SessionPid, sh <- sSh, fg <- sFg, kid <- sKid, pending <- sPending,
  handler <- sHandler

InitSession ==
  IF program = "session" THEN Session!Init
  ELSE /\ version = NoPid /\ typed = NoPid /\ argv = NoPid /\ this = NoPid
       /\ dir = NoPid /\ sSh = NoPid /\ sFg = NoPid /\ sKid = NoPid
       /\ back = NoPid /\ sPending = NoPid /\ sHandler = NoPid
       /\ breaks = NoPid

InitShells == program \in {"jobs", "session"} /\ Init /\ InitSession

Runs(p) ==
  /\ program = p /\ UNCHANGED program
  /\ IF p = "jobs" THEN UNCHANGED sessionVars ELSE UNCHANGED vars

NextShells == (Runs("jobs") /\ Next) \/ (Runs("session") /\ Session!Next)

\* The user types when there is nothing to wait for; all else goes on by
\* itself.  Commands are counted, so that one fairness is enough.
Work ==
  \/ Runs("jobs") /\ (Main \/ Handler \/ \E p \in Pid, s \in Status : End(p, s))
  \/ Runs("session") /\ (Session!Shell \/ Session!Child)

SpecShells == InitShells /\ [][NextShells]_allVars /\ WF_allVars(Work)
-----------------------------------------------------------------------------
(* A session: each builtin line does what it says, though is_builtin and   *)
(* do_builtin share a pointer that "builtin" moves (builtin.c:122); at the *)
(* prompt no child that was waited for is left over, and since sh8 (the    *)
(* SIGCHLD handler) no zombie either, while before it every command in the *)
(* background leaves one for good.                                         *)
SessionKept ==
  program = "session" =>
    /\ Session!SessionTypeOK
    /\ Session!OnlyItsBuiltin /\ Session!ForegroundReaped /\ Session!NoneLeft

(* The prompt comes back after every line, even when the handler has taken *)
(* the child that run_command waits for, or no process is left to fork:    *)
(* then the shell ends, and is not stuck.                                  *)
PromptsComeBack ==
  /\ sh = "wait" ~> sh = "prompt"
  /\ program = "session" /\ ~Session!Prompts ~> program = "session" /\ Session!Prompts
=============================================================================
