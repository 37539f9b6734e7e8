----------------------------- MODULE ShellJobs -----------------------------
(***************************************************************************)
(* The processes of the shell (shell/sh9): main's loop and run_command,    *)
(* which forks a child for each command and waits for it unless it runs in *)
(* the background, and child_handler, the SIGCHLD handler that reaps       *)
(* whatever child has ended.  The handler may interrupt the shell between  *)
(* any two steps; all signals are blocked while it runs (shell.c:29).      *)
(*                                                                         *)
(* A child here is the process run_command forks: a pipeline's further     *)
(* stages are children of that child, which the shell never waits for.     *)
(***************************************************************************)
CONSTANTS
  Pid,     \* children the shell may fork, one for each command
  Status,  \* what a child may leave: exit codes, signals
  Garbage, \* what an uninitialised stat holds
  NoPid

ASSUME ShellAssumption == NoPid \notin Pid /\ Garbage \notin Status

VARIABLES
  sh,      \* the next step of the shell
  fg,      \* the child run_command has just forked
  stat,    \* run_command's local variable
  kid,     \* kid[p]: what has become of child p
  status,  \* status[p]: what child p left at its end
  pending, \* SIGCHLD is pending: one bit, however many children ended
  handler, \* the next step of child_handler
  hpid,    \* the child that child_handler has just reaped
  shown    \* shown[p]: what display_status has been given for child p

main == <<sh, fg, stat>>
hand == <<handler, hpid>>
kids == <<kid, status>>
vars == <<sh, fg, stat, kid, status, pending, handler, hpid, shown>>

Init ==
  /\ sh = "prompt" /\ fg = NoPid /\ stat = Garbage
  /\ kid = [p \in Pid |-> "none"]
  /\ status = [p \in Pid |-> Garbage]
  /\ pending = FALSE
  /\ handler = "off" /\ hpid = NoPid
  /\ shown = [p \in Pid |-> {}]

Zombies == {p \in Pid : kid[p] = "zombie"}

\* main runs only while the handler does not.
MainAt(step) == sh = step /\ handler = "off"

\* A command line is read and forked: in the background, back to the prompt;
\* otherwise on to waitpid, with stat uninitialised.
RunCommand(p, background) ==
  /\ MainAt("prompt")
  /\ kid[p] = "none"
  /\ kid' = [kid EXCEPT ![p] = "running"]
  /\ sh' = IF background THEN "prompt" ELSE "wait"
  /\ fg' = IF background THEN NoPid ELSE p
  /\ stat' = Garbage
  /\ UNCHANGED <<status, pending, hand, shown>>

\* Mutant: the call is made again when it fails, as if it were interrupted.
WaitRetry ==
  /\ MainAt("wait")
  /\ kid[fg] = "zombie"
  /\ kid' = [kid EXCEPT ![fg] = "reaped"]
  /\ stat' = status[fg]
  /\ sh' = "show"
  /\ UNCHANGED <<fg, status, pending, hand, shown>>

\* waitpid(pid, &stat, 0) returns when the child is a zombie, and fails with
\* ECHILD when the handler has taken it: then stat is as it was.
Wait ==
  /\ MainAt("wait")
  /\ \/ /\ kid[fg] = "zombie"
        /\ kid' = [kid EXCEPT ![fg] = "reaped"]
        /\ stat' = status[fg]
     \/ /\ kid[fg] = "reaped"
        /\ UNCHANGED <<kid, stat>>
  /\ sh' = "show"
  /\ UNCHANGED <<fg, status, pending, hand, shown>>

\* display_status(pid, stat), whatever waitpid returned.
Show ==
  /\ MainAt("show")
  /\ shown' = [shown EXCEPT ![fg] = @ \cup {stat}]
  /\ sh' = "prompt"
  /\ fg' = NoPid
  /\ UNCHANGED <<stat, kids, pending, hand>>

\* End of input, a quit command, or a fork that fails.  The children left
\* behind go to init.
Quit ==
  /\ MainAt("prompt")
  /\ sh' = "exited"
  /\ UNCHANGED <<fg, stat, kids, pending, hand, shown>>
-----------------------------------------------------------------------------
\* A child ends.
End(p, s) ==
  /\ kid[p] = "running"
  /\ kid' = [kid EXCEPT ![p] = "zombie"]
  /\ status' = [status EXCEPT ![p] = s]
  /\ pending' = TRUE
  /\ UNCHANGED <<main, hand, shown>>

\* The signal interrupts the shell wherever it is.
Interrupt ==
  /\ pending
  /\ handler = "off"
  /\ sh # "exited"
  /\ pending' = FALSE
  /\ handler' = "reap"
  /\ UNCHANGED <<main, kids, hpid, shown>>

\* Mutant: one waitpid and no loop.
ReapOnce ==
  /\ handler = "reap"
  /\ \/ \E p \in Zombies :
          /\ kid' = [kid EXCEPT ![p] = "reaped"]
          /\ shown' = [shown EXCEPT ![p] = @ \cup {status[p]}]
     \/ Zombies = {} /\ UNCHANGED <<kid, shown>>
  /\ handler' = "off"
  /\ UNCHANGED <<main, status, pending, hpid>>

\* Mutant: the loop is not left when waitpid returns 0.
ReapNoBreak ==
  /\ handler = "reap"
  /\ \/ \E p \in Zombies :
          /\ kid' = [kid EXCEPT ![p] = "reaped"]
          /\ hpid' = p
     \/ Zombies = {} /\ UNCHANGED <<kid, hpid>>
  /\ handler' = "show"
  /\ UNCHANGED <<main, status, pending, shown>>

\* waitpid(-1, &status, WNOHANG): takes any zombie, or ends the loop when
\* no child has ended (0) or none is left (ECHILD).
Reap ==
  /\ handler = "reap"
  /\ \/ \E p \in Zombies :
          /\ kid' = [kid EXCEPT ![p] = "reaped"]
          /\ hpid' = p
          /\ handler' = "show"
     \/ /\ Zombies = {}
        /\ handler' = "off"
        /\ UNCHANGED <<kid, hpid>>
  /\ UNCHANGED <<main, status, pending, shown>>

\* Mutant: nothing is displayed from the handler.
ReapShowNothing ==
  /\ handler = "show"
  /\ handler' = "reap"
  /\ hpid' = NoPid
  /\ UNCHANGED <<main, kids, pending, shown>>

\* display_status(pid, status), and round the loop.
ReapShow ==
  /\ handler = "show"
  /\ shown' = [shown EXCEPT ![hpid] = @ \cup {status[hpid]}]
  /\ handler' = "reap"
  /\ hpid' = NoPid
  /\ UNCHANGED <<main, kids, pending>>
-----------------------------------------------------------------------------
Main == Wait \/ Show
Handler == Interrupt \/ Reap \/ ReapShow

Next ==
  \/ \E p \in Pid, background \in BOOLEAN : RunCommand(p, background)
  \/ Main
  \/ Quit
  \/ Handler
  \/ \E p \in Pid, s \in Status : End(p, s)

Spec == Init /\ [][Next]_vars

\* The shell is scheduled, and what it waits for ends: a foreground command
\* that never ends keeps the shell, rightly, for ever.
FairSpec ==
  /\ Spec
  /\ WF_vars(Main) /\ WF_vars(Handler)
  /\ \A p \in Pid : WF_vars(\E s \in Status : End(p, s))
-----------------------------------------------------------------------------
TypeOK ==
  /\ sh \in {"prompt", "wait", "show", "exited"}
  /\ fg \in Pid \cup {NoPid}
  /\ stat \in Status \cup {Garbage}
  /\ kid \in [Pid -> {"none", "running", "zombie", "reaped"}]
  /\ status \in [Pid -> Status \cup {Garbage}]
  /\ pending \in BOOLEAN
  /\ handler \in {"off", "reap", "show"}
  /\ hpid \in Pid \cup {NoPid}
  /\ shown \in [Pid -> SUBSET (Status \cup {Garbage})]
  /\ sh \in {"wait", "show"} => fg \in Pid
  /\ handler = "show" => hpid \in Pid

(* No child that has ended is forgotten (child_handler.c:18, "get all      *)
(* outstanding terminated children"): SIGCHLD is one bit, yet while a      *)
(* zombie is left the handler runs or is going to.                         *)
NoneForgotten == Zombies # {} => pending \/ handler # "off"

(* No exit status is lost between waitpid and display_status, whichever of *)
(* run_command and child_handler took the child.                           *)
StatusKept ==
  \A p \in Pid :
    kid[p] = "reaped" =>
      \/ status[p] \in shown[p]
      \/ handler = "show" /\ hpid = p
      \/ sh = "show" /\ fg = p /\ stat = status[p]

(* What display_status shows for a child is its exit status (shell.h:11,   *)
(* "display exit status").                                                 *)
TruthfulStatus == \A p \in Pid : shown[p] \subseteq {status[p]}
=============================================================================
