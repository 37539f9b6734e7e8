-------------------------- MODULE EarlierPipelines --------------------------
(***************************************************************************)
(* One command line through the shells of the course, shell/sh4 to sh9,    *)
(* each of which adds a feature to the one before: in sh4 and sh5 the      *)
(* child executes its vector as it is, sh6 redirects its input and output  *)
(* first, sh7 and sh8 have the pipes of sh9 as well (ShellPipeline).  sh5  *)
(* and sh8 do as the version before them.                                  *)
(***************************************************************************)
EXTENDS ShellPipeline

VARIABLE version

allVars == <<version, vars>>

\* sh5 and sh8 treat a line as sh4 and sh7 do.
Versions == {4, 6, 7, 9}

InitEarlier == version \in Versions /\ Init

\* The redirections are two steps that sh4 does not have.
Sh4Child ==
  /\ pc[1] = "redirect_in"
  /\ pc' = [pc EXCEPT ![1] = "exec"]
  /\ UNCHANGED <<line, argv, fds>>

\* Each token after the name of the file moves down by one, though two are to
\* go and the end is put two below: the mark stays, the last token is lost.
CloseUp6(a, i) == [j \in 1..(Len(a) - 2) |-> IF j <= i THEN a[j] ELSE a[j + 1]]

\* What a redirection makes of the vector and of one descriptor.
Redirect6(mark, fd, next) ==
  LET a == argv[1]
      i == First(a, mark)
  IN \/ /\ i = 0
        /\ pc' = [pc EXCEPT ![1] = next]
        /\ UNCHANGED <<argv, fd>>
     \/ /\ i \in 1..(Len(a) - 1)
        /\ pc' = [pc EXCEPT ![1] = next]
        /\ fd' = [fd EXCEPT ![1] = File(a[i + 1])]
        /\ argv' = [argv EXCEPT ![1] = CloseUp6(a, i)]
     \/ /\ i # 0 \* no file is named, or it cannot be opened
        /\ pc' = [pc EXCEPT ![1] = "failed"]
        /\ UNCHANGED <<argv, fd>>

RedirectIn6 ==
  /\ pc[1] = "redirect_in"
  /\ Redirect6("<", in, "redirect_out")
  /\ UNCHANGED <<line, out, held>>

RedirectOut6 ==
  /\ pc[1] = "redirect_out"
  /\ Redirect6(">", out, "exec")
  /\ UNCHANGED <<line, in, held>>

\* execvp of the whole vector, bars and all; without a name it cannot work.
Exec6 == Exec(1) /\ (argv[1] = <<>> => pc'[1] = "failed")

Sh6Child == RedirectIn6 \/ RedirectOut6 \/ Exec6

\* sh7's child: the redirections, then stage by stage.
RedirectIn7 == RedirectIn
RedirectOut7 == RedirectOut
PipeAndExec7 == \E k \in Stage : Split(k) \/ Talk(k) \/ Listen(k) \/ Exec(k)
Sh7Child == RedirectIn7 \/ RedirectOut7 \/ PipeAndExec7

SetupOf(v) ==
  CASE v = 4 -> Sh4Child \/ Exec6
    [] v = 6 -> Sh6Child
    [] v = 7 -> Sh7Child
    [] v = 9 -> Setup

NextEarlier ==
  /\ UNCHANGED version
  /\ SetupOf(version) \/ \E k \in Stage : Command(k) \/ Fill(k) \/ Break(k)

SpecEarlier ==
  /\ InitEarlier /\ [][NextEarlier]_allVars
  /\ WF_allVars(UNCHANGED version /\ SetupOf(version))
  /\ \A k \in Stage : WF_allVars(UNCHANGED version /\ Command(k))
-----------------------------------------------------------------------------
(* Since sh7 a vector that is executed names a command and holds no bar;   *)
(* before, the line was "&" alone or redirections alone, when it does not  *)
(* name one (sh4/run_command.c:50, sh6/run_command.c:64).                  *)
CommandsNamed ==
  /\ version >= 7 => CommandNamed
  /\ argv[1] = <<>> /\ pc[1] # "failed" =>
       Len(line) = 2 * Cardinality(InEffect) + IF Last(line).kind = "&" THEN 1 ELSE 0

\* The redirections stand last, "<" after ">", as sh6 needs them.
AtEndOf(a, mark) == First(a, mark) \in {0, Len(a) - 1}
RedirectionsLast ==
  LET a == StripBackground(line)
      b == IF First(a, "<") = 0 THEN a ELSE SubSeq(a, 1, Len(a) - 2)
  IN AtEndOf(a, "<") /\ AtEndOf(b, ">")

(* No token is lost between the line and the commands, in sh6 only if the *)
(* redirections stand last: vectors are closed up in place, over a mark    *)
(* and the name of its file (sh9/redirect_in.c:44), and then split.        *)
TokensKept == version # 6 \/ RedirectionsLast => NoTokenLost

\* One command, with its name first, and at most one redirection of each kind,
\* to or from a file with the name of a word.
Plain ==
  /\ line[1].kind = "word" /\ First(line, "|") = 0
  /\ \A i, j \in DOMAIN line :
       line[i].kind \in {"<", ">"} =>
         /\ i < Len(line) /\ line[i + 1].kind = "word"
         /\ i # j => line[i].kind # line[j].kind

(* "Remove the > and the filename from myArgv" (sh6/redirect_in.c:38,      *)
(* sh6/redirect_out.c:42): when the command is executed with its input or  *)
(* its output redirected to a file, the mark is not among its arguments.   *)
MarksRemoved ==
  Plain /\ pc[1] \in {"exec"} \cup Running =>
    /\ in[1].to = "file" => First(argv[1], "<") = 0
    /\ out[1].to = "file" => First(argv[1], ">") = 0
=============================================================================
