---------------------------- MODULE ShellSession ----------------------------
(***************************************************************************)
(* A session with one of the shells of the course: main's loop over the    *)
(* lines typed (shell.c), the builtin commands (builtin.c), the commands   *)
(* forked (run_command.c) and, since sh8, the SIGCHLD handler.  sh4 has no *)
(* builtin but echo and quit, sh6 has them all, sh8 ignores ^C and reaps   *)
(* its children, sh9 lets its children be interrupted again.               *)
(*                                                                         *)
(* A keyword stands for all that do the same: echo for print, quit for     *)
(* exit, bye and logout, pwd for hostname and id.                          *)
(***************************************************************************)
EXTENDS Naturals, FiniteSets

CONSTANTS
  Pid,      \* processes there is room for besides the shell
  NoPid,
  Dir,      \* directories; Home is one of them
  Home,
  MaxLines, \* bound: lines typed
  MaxBreaks \* bound: times ^C is pressed

VARIABLES
  version,
  typed,   \* number of lines read
  argv,    \* the line main works on: its command, its argument, "&" or not
  this,    \* the builtin is_builtin found last
  dir,     \* the working directory
  sh,      \* the next step of the shell
  fg,      \* the child run_command waits for
  kid,     \* kid[p]: what has become of process p
  back,    \* back[p]: p was started in the background
  pending, \* SIGCHLD is pending
  handler, \* child_handler runs
  breaks

main == <<typed, argv, this, dir, sh, fg>>
kids == <<kid, back>>
vars == <<version, main, kids, pending, handler, breaks>>

Versions == {4, 6, 8, 9}
Builtins ==
  {"echo", "quit"} \cup IF version = 4 THEN {} ELSE {"builtin", "cd", "pwd"}
Line == [cmd : {"echo", "quit", "builtin", "cd", "pwd", "program", "none"},
         arg : Dir \cup {"cd", "none"}, amp : BOOLEAN]
NoLine == [cmd |-> "none", arg |-> "none", amp |-> FALSE]

Init ==
  /\ version \in Versions
  /\ typed = 0 /\ argv = NoLine /\ this = "none" /\ dir = Home
  /\ sh = "prompt" /\ fg = NoPid
  /\ kid = [p \in Pid |-> "none"] /\ back = [p \in Pid |-> FALSE]
  /\ pending = FALSE /\ handler = FALSE /\ breaks = 0

MainAt(step) == sh = step /\ ~handler

\* Mutant: the pointer is set once.
IsBuiltinOnce(cmd) ==
  this' = IF cmd \in Builtins /\ this = "none" THEN cmd ELSE this

\* is_builtin leaves a pointer to what it found for do_builtin.
IsBuiltin(cmd) == this' = IF cmd \in Builtins THEN cmd ELSE this

\* main reads and parses a line; one without a token is passed over.
ReadLine(l) ==
  /\ MainAt("prompt") /\ typed < MaxLines
  /\ typed' = typed + 1
  /\ argv' = l
  /\ IF l.cmd = "none"
     THEN UNCHANGED <<this, sh>>
     ELSE /\ IsBuiltin(l.cmd)
          /\ sh' = IF l.cmd \in Builtins THEN "builtin" ELSE "fork"
  /\ UNCHANGED <<version, dir, fg, kids, pending, handler, breaks>>

\* The end of the input.
EndOfInput ==
  /\ MainAt("prompt")
  /\ sh' = "exited"
  /\ UNCHANGED <<version, typed, argv, this, dir, fg, kids, pending, handler, breaks>>

\* bi_cd: to the argument or home; chdir fails for what is no directory.
ChangeDir == dir' = CASE argv.amp /\ argv.arg = "none" -> dir
                      [] argv.arg = "none" -> Home
                      [] argv.arg \in Dir -> argv.arg
                      [] OTHER -> dir

\* What the builtins do to the shell: quit ends it, cd moves it, builtin asks
\* is_builtin about its argument; echo, pwd and their like only print.
Effect(keyword) ==
  /\ sh' = IF keyword = "quit" THEN "exited" ELSE "prompt"
  /\ IF keyword = "cd" THEN ChangeDir ELSE UNCHANGED dir
  /\ IF keyword = "builtin" THEN IsBuiltin(argv.arg) ELSE UNCHANGED this

DoBuiltin ==
  /\ MainAt("builtin")
  /\ Effect(this)
  /\ UNCHANGED <<version, typed, argv, fg, kids, pending, handler, breaks>>

Fork(p) ==
  /\ MainAt("fork") /\ kid[p] = "none"
  /\ kid' = [kid EXCEPT ![p] = "new"]
  /\ back' = [back EXCEPT ![p] = argv.amp]
  /\ IF argv.amp
     THEN sh' = "prompt" /\ fg' = NoPid
     ELSE sh' = "wait" /\ fg' = p
  /\ UNCHANGED <<version, typed, argv, this, dir, pending, handler, breaks>>

\* There is no room for another process: the shell gives up.
ForkFails ==
  /\ MainAt("fork") /\ \A p \in Pid : kid[p] # "none"
  /\ sh' = "exited"
  /\ UNCHANGED <<version, typed, argv, this, dir, fg, kids, pending, handler, breaks>>

\* waitpid and display_status: the child is a zombie, or the handler has it.
Wait ==
  /\ MainAt("wait") /\ kid[fg] \in {"zombie", "none"}
  /\ kid' = [kid EXCEPT ![fg] = "none"]
  /\ sh' = "prompt" /\ fg' = NoPid
  /\ UNCHANGED <<version, typed, argv, this, dir, back, pending, handler, breaks>>
-----------------------------------------------------------------------------
\* The child executes the command, in sh9 with ^C and ^\ as they were before.
Exec(p) ==
  /\ kid[p] = "new"
  /\ kid' = [kid EXCEPT ![p] = "running"]
  /\ UNCHANGED <<version, main, back, pending, handler, breaks>>

\* A child ends; before sh8 SIGCHLD is of no consequence.
End(p) ==
  /\ kid[p] \in {"new", "running"}
  /\ kid' = [kid EXCEPT ![p] = "zombie"]
  /\ pending' = (version >= 8)
  /\ UNCHANGED <<version, main, back, handler, breaks>>

\* ^C goes to the shell and to all its children.  sh8 ignores it, and so do
\* its children, which inherit that: nothing happens.
Interrupted ==
  CASE version < 8 -> {p \in Pid : kid[p] \in {"new", "running"}}
    [] version = 8 -> {}
    [] version = 9 -> {p \in Pid : kid[p] = "running"}

Break ==
  /\ breaks < MaxBreaks /\ sh \notin {"exited", "killed"}
  /\ breaks' = breaks + 1
  /\ kid' = [p \in Pid |-> IF p \in Interrupted THEN "zombie" ELSE kid[p]]
  /\ sh' = IF version < 8 THEN "killed" ELSE sh
  /\ pending' = (pending \/ (version >= 8 /\ Interrupted # {}))
  /\ UNCHANGED <<version, typed, argv, this, dir, fg, back, handler>>

Handle ==
  /\ pending /\ ~handler /\ sh # "exited"
  /\ pending' = FALSE /\ handler' = TRUE
  /\ UNCHANGED <<version, main, kids, breaks>>

\* Any zombie, until there is none.
Reap ==
  /\ handler
  /\ \/ \E p \in Pid : kid[p] = "zombie" /\ kid' = [kid EXCEPT ![p] = "none"]
                       /\ UNCHANGED handler
     \/ /\ \A p \in Pid : kid[p] # "zombie"
        /\ handler' = FALSE /\ UNCHANGED kid
  /\ UNCHANGED <<version, main, back, pending, breaks>>
-----------------------------------------------------------------------------
Shell == DoBuiltin \/ (\E p \in Pid : Fork(p)) \/ ForkFails \/ Wait \/ Handle \/ Reap
Child == \E p \in Pid : Exec(p) \/ End(p)
User == (\E l \in Line : ReadLine(l)) \/ EndOfInput \/ Break

Next == Shell \/ Child \/ User

(* do_builtin does the builtin that the line names, though builtin moves   *)
(* the pointer the two share (builtin.c:122, "close coupling"): only a cd  *)
(* moves the shell.                                                        *)
OnlyItsBuiltin == MainAt("builtin") => this = argv.cmd

(* At the prompt no command that was waited for is left.  Before sh8 those *)
(* of the background are, for good: each takes the room of a process.      *)
ForegroundReaped ==
  /\ sh = "prompt" => \A p \in Pid : kid[p] # "none" => back[p]
  /\ version < 8 => \A p \in Pid : back[p] => kid[p] # "none"

(* No zombie is forgotten, though children end together.                   *)
NoneLeft ==
  version >= 8 /\ (\E p \in Pid : kid[p] = "zombie") => pending \/ handler

SessionTypeOK ==
  /\ argv \in Line /\ this \in Builtins \cup {"none"} /\ dir \in Dir
  /\ sh \in {"prompt", "builtin", "fork", "wait", "exited", "killed"}
  /\ fg \in Pid \cup {NoPid} /\ (sh = "wait" => fg \in Pid)
  /\ kid \in [Pid -> {"none", "new", "running", "zombie"}]

\* The line is dealt with: the next can be typed, or the shell has ended.
Prompts == sh \in {"prompt", "exited", "killed"}
=============================================================================
