--------------------------- MODULE ShellPipeline ---------------------------
(***************************************************************************)
(* What becomes of one command line of shell/sh9: run_command strips the   *)
(* "&" (is_background) and forks a child, which redirects its input and    *)
(* output (redirect_in, redirect_out) and then, stage by stage, splits the *)
(* line at "|", forks the rest of it and executes what is left             *)
(* (pipe_present, pipe_and_exec).  Process k of the pipeline forks process *)
(* k + 1 and pipe k joins the two.                                         *)
(*                                                                         *)
(* A pipeline ends because each command finds the end of its input, which  *)
(* it does only when no process is left with the write end of its pipe.    *)
(***************************************************************************)
EXTENDS Integers, FiniteSets, SequencesExt

CONSTANTS MaxLen \* tokens in a command line

ASSUME PipelineAssumption == MaxLen \in Nat \ {0}

Kind == {"word", "|", "<", ">", "&"}
Token == [kind : Kind, at : 1..MaxLen]
Stage == 1..MaxLen

\* What a descriptor may refer to.
Tty == [to |-> "tty", of |-> 0]
File(t) == [to |-> "file", of |-> t.at]
ReadEnd(k) == [to |-> "read", of |-> k]
WriteEnd(k) == [to |-> "write", of |-> k]
Ends(k) == {ReadEnd(k), WriteEnd(k)}

VARIABLES
  line, \* the tokens that parse made of the line
  argv, \* argv[k]: the vector of process k
  pc,   \* pc[k]: its next step
  in,   \* in[k], out[k]: what its standard input and output refer to
  out,
  held  \* held[k]: the pipe ends it has open on other descriptors

fds == <<in, out, held>>
vars == <<line, argv, pc, in, out, held>>

Gone == {"none", "failed", "ended"}
Running == {"run", "full", "late"}
Alive(k) == pc[k] \notin Gone
Opens(k) == IF Alive(k) THEN held[k] \cup {in[k], out[k]} ELSE {}
Writers(p) == {k \in Stage : WriteEnd(p) \in Opens(k)}
Readers(p) == {k \in Stage : ReadEnd(p) \in Opens(k)}
-----------------------------------------------------------------------------
\* strtok leaves at least one token, or parse returns NULL.
Lines ==
  UNION {{[i \in 1..n |-> [kind |-> f[i], at |-> i]] : f \in [1..n -> Kind]} :
           n \in 1..MaxLen}

\* Where the first token of some kind is in vector a, 0 if it is not there.
First(a, kind) == SelectInSeq(a, LAMBDA t : t.kind = kind)

\* A last token that begins with "&" is taken off.
StripBackground(a) == IF Last(a).kind = "&" THEN Front(a) ELSE a

\* Mutant: a pipe with no command before it is let through.
PipePresentLate(a) ==
  LET i == First(a, "|")
  IN IF i # 0 /\ i = Len(a) THEN -1 ELSE i

\* pipe_present: 0 without a pipe, -1 next to no command.
PipePresent(a) ==
  LET i == First(a, "|")
  IN IF a = <<>> \/ i = 1 \/ (i # 0 /\ i = Len(a)) THEN -1 ELSE i

Init ==
  /\ line \in Lines
  /\ argv = [k \in Stage |-> IF k = 1 THEN StripBackground(line) ELSE <<>>]
  /\ pc = [k \in Stage |-> IF k = 1 THEN "redirect_in" ELSE "none"]
  /\ in = [k \in Stage |-> Tty]
  /\ out = [k \in Stage |-> Tty]
  /\ held = [k \in Stage |-> {}]

\* The process prints a message and exits.
Fail(k) ==
  /\ pc' = [pc EXCEPT ![k] = "failed"]
  /\ UNCHANGED <<line, argv, fds>>

\* Mutant: the name of the file stays in the vector.
CloseUpOne(a, i) == SubSeq(a, 1, i - 1) \o SubSeq(a, i + 1, Len(a))

\* The vector is closed up over the mark and the name at i.
CloseUp(a, i) == SubSeq(a, 1, i - 1) \o SubSeq(a, i + 2, Len(a))

RedirectIn ==
  LET a == argv[1]
      i == First(a, "<")
  IN /\ pc[1] = "redirect_in"
     /\ \/ /\ i = 0
           /\ pc' = [pc EXCEPT ![1] = "redirect_out"]
           /\ UNCHANGED <<line, argv, fds>>
        \/ /\ i \in 1..(Len(a) - 1)
           /\ pc' = [pc EXCEPT ![1] = "redirect_out"]
           /\ in' = [in EXCEPT ![1] = File(a[i + 1])]
           /\ argv' = [argv EXCEPT ![1] = CloseUp(a, i)]
           /\ UNCHANGED <<line, out, held>>
        \/ i # 0 /\ Fail(1) \* no file is named, or it cannot be opened

RedirectOut ==
  LET a == argv[1]
      i == First(a, ">")
  IN /\ pc[1] = "redirect_out"
     /\ \/ /\ i = 0
           /\ pc' = [pc EXCEPT ![1] = "split"]
           /\ UNCHANGED <<line, argv, fds>>
        \/ /\ i \in 1..(Len(a) - 1)
           /\ pc' = [pc EXCEPT ![1] = "split"]
           /\ out' = [out EXCEPT ![1] = File(a[i + 1])]
           /\ argv' = [argv EXCEPT ![1] = CloseUp(a, i)]
           /\ UNCHANGED <<line, in, held>>
        \/ i # 0 /\ Fail(1)

\* pipe_and_exec up to its fork.
Split(k) ==
  LET a == argv[k]
      i == PipePresent(a)
  IN /\ pc[k] = "split"
     /\ \/ i = -1 /\ Fail(k)
        \/ /\ i = 0
           /\ pc' = [pc EXCEPT ![k] = "exec"]
           /\ UNCHANGED <<line, argv, fds>>
        \/ /\ i > 0
           /\ argv' = [argv EXCEPT ![k] = SubSeq(a, 1, i - 1),
                                   ![k + 1] = SubSeq(a, i + 1, Len(a))]
           /\ pc' = [pc EXCEPT ![k] = "talk", ![k + 1] = "listen"]
           /\ in' = [in EXCEPT ![k + 1] = in[k]]
           /\ out' = [out EXCEPT ![k + 1] = out[k]]
           /\ held' = [held EXCEPT ![k] = Ends(k), ![k + 1] = Ends(k)]
           /\ UNCHANGED line
        \/ i > 0 /\ Fail(k) \* the fork fails

\* Mutant: the talking parent keeps the read end.
TalkKeepsRead(k) ==
  /\ pc[k] = "talk"
  /\ out' = [out EXCEPT ![k] = WriteEnd(k)]
  /\ held' = [held EXCEPT ![k] = {ReadEnd(k)}]
  /\ pc' = [pc EXCEPT ![k] = "exec"]
  /\ UNCHANGED <<line, argv, in>>

\* The talking parent.
Talk(k) ==
  /\ pc[k] = "talk"
  /\ out' = [out EXCEPT ![k] = WriteEnd(k)]
  /\ held' = [held EXCEPT ![k] = {}]
  /\ pc' = [pc EXCEPT ![k] = "exec"]
  /\ UNCHANGED <<line, argv, in>>

\* Mutant: the listening child keeps the write end.
ListenKeepsWrite(k) ==
  /\ pc[k] = "listen"
  /\ in' = [in EXCEPT ![k] = ReadEnd(k - 1)]
  /\ held' = [held EXCEPT ![k] = {WriteEnd(k - 1)}]
  /\ pc' = [pc EXCEPT ![k] = "split"]
  /\ UNCHANGED <<line, argv, out>>

\* The listening child, which goes round pipe_and_exec again.
Listen(k) ==
  /\ pc[k] = "listen"
  /\ in' = [in EXCEPT ![k] = ReadEnd(k - 1)]
  /\ held' = [held EXCEPT ![k] = {}]
  /\ pc' = [pc EXCEPT ![k] = "split"]
  /\ UNCHANGED <<line, argv, out>>

\* Mutant: a process whose command is not found goes on as a second shell.
ExecReturns(k) ==
  /\ pc[k] = "exec"
  /\ \E next \in {"run", "prompt"} : pc' = [pc EXCEPT ![k] = next]
  /\ UNCHANGED <<line, argv, fds>>

\* execvp: the command runs, or is not found.
Exec(k) ==
  /\ pc[k] = "exec"
  /\ \E next \in {"run", "failed"} : pc' = [pc EXCEPT ![k] = next]
  /\ UNCHANGED <<line, argv, fds>>
-----------------------------------------------------------------------------
(* A command: it reads to the end of its input and may write more than its *)
(* pipe holds, once.                                                       *)

AtEnd(k) == in[k].to = "read" => Writers(in[k].of) = {}

Become(k, state) ==
  /\ pc' = [pc EXCEPT ![k] = state]
  /\ UNCHANGED <<line, argv, fds>>

\* The command has read everything.
End(k) == pc[k] \in {"run", "late"} /\ AtEnd(k) /\ Become(k, "ended")

\* It ends before that, or is killed.
Break(k) == pc[k] \in Running /\ ~AtEnd(k) /\ Become(k, "ended")

\* Its pipe is full: it waits until the next stage reads ...
Fill(k) == pc[k] = "run" /\ out[k].to = "write" /\ Become(k, "full")
Drain(k) ==
  pc[k] = "full" /\ pc[k + 1] \in {"run", "late"} /\ Become(k, "late")

\* ... or until no process can: SIGPIPE.
SigPipe(k) == pc[k] = "full" /\ Readers(k) = {} /\ Become(k, "ended")
-----------------------------------------------------------------------------
Setup ==
  \/ RedirectIn
  \/ RedirectOut
  \/ \E k \in Stage : Split(k) \/ Talk(k) \/ Listen(k) \/ Exec(k)

Command(k) == End(k) \/ Drain(k) \/ SigPipe(k)

Next == Setup \/ \E k \in Stage : Command(k) \/ Fill(k) \/ Break(k)

Spec == Init /\ [][Next]_vars

\* Every process that can run is run, and a command ends when it has read
\* all of its input.
FairSpec == Spec /\ WF_vars(Setup) /\ \A k \in Stage : WF_vars(Command(k))
-----------------------------------------------------------------------------
Descriptor == [to : {"tty", "file", "read", "write"}, of : 0..MaxLen]

TypeOK ==
  /\ line \in Seq(Token)
  /\ argv \in [Stage -> Seq(Token)]
  /\ pc \in [Stage -> Gone \cup Running \cup
       {"redirect_in", "redirect_out", "split", "talk", "listen", "exec"}]
  /\ in \in [Stage -> Descriptor] /\ out \in [Stage -> Descriptor]
  /\ held \in [Stage -> SUBSET Descriptor]

(* "Don't need write side of pipe" (pipe_command.c:49, 62): an end of pipe *)
(* p is open only in process p or p + 1, whichever writes or reads, in its *)
(* partner until that has closed it, and in process p + 2 until that has   *)
(* replaced the input it inherits from p + 1.                              *)
OwnEndsOnly ==
  \A p, k \in Stage :
    /\ k \in Writers(p) => k = p \/ (k = p + 1 /\ pc[k] = "listen")
    /\ k \in Readers(p) =>
         \/ k = p + 1
         \/ k = p /\ pc[k] = "talk"
         \/ k = p + 2 /\ pc[k] = "listen"

(* A vector that is executed names a command, so that execvp is never      *)
(* given a null name (pipe_command.c:25, 53), and has no bar left in it,   *)
(* whatever the line.                                                      *)
CommandNamed ==
  \A k \in Stage :
    pc[k] \in {"talk", "exec"} \cup Running =>
      argv[k] # <<>> /\ First(argv[k], "|") = 0

(* No token is lost, repeated or moved on the way to the commands: the     *)
(* vectors in order are the line without a bar for each fork, the mark and *)
(* the name of each redirection that is in effect, and the "&"             *)
(* (run_command.c:32, redirect_in.c:44, redirect_out.c:45,                 *)
(* pipe_command.c:34).                                                     *)
Forked == {k \in Stage : pc[k] # "none"}
InEffect == {d \in {in[1], out[Cardinality(Forked)]} : d.to = "file"}

\* Why a token may be in no vector.
Used(t) ==
  \/ t.kind = "|"
  \/ t.kind = "<" /\ in[1] \in InEffect
  \/ t.kind = ">" /\ out[Cardinality(Forked)] \in InEffect
  \/ t.kind = "&" /\ t = Last(line)
  \/ File(t) \in InEffect

NoTokenLost ==
  LET all == FlattenSeq(argv)
  IN /\ \A i, j \in DOMAIN all : i < j => all[i].at < all[j].at
     /\ \A i \in DOMAIN line : Used(line[i]) \/ Contains(all, line[i])
     /\ Len(line) = Len(all) + (Cardinality(Forked) - 1)
                    + 2 * Cardinality(InEffect)
                    + IF Last(line).kind = "&" THEN 1 ELSE 0

(* Every process of a pipeline ends, because each command finds the end of *)
(* its input or that nobody reads its output.                              *)
PipelineEnds == \A k \in Stage : pc[k] # "none" ~> ~Alive(k)
=============================================================================
