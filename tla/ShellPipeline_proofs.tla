------------------------ MODULE ShellPipeline_proofs ------------------------
(***************************************************************************)
(* One command line in the shells of the course, for lines of any length:  *)
(* the vectors and descriptors keep their types, each end of a pipe is     *)
(* open in the two processes it joins and, until these have closed what    *)
(* they inherit, in the processes next to them, and nowhere else, a vector *)
(* that is executed names a command, and no token of the line is lost.     *)
(***************************************************************************)
EXTENDS EarlierPipelines, Library_proofs

\* First finds the first token of its kind.
LEMMA FirstFinds ==
  ASSUME NEW S, NEW a \in Seq(S), NEW kind
  PROVE  /\ First(a, kind) \in 0..Len(a)
         /\ First(a, kind) = 0 => \A j \in 1..Len(a) : a[j].kind # kind
         /\ First(a, kind) # 0 =>
              /\ a[First(a, kind)].kind = kind
              /\ \A j \in 1..(First(a, kind) - 1) : a[j].kind # kind
<1> DEFINE I == {i \in 1..Len(a) : a[i].kind = kind}
<1>1. First(a, kind) = IF I # {} THEN Min(I) ELSE 0
  BY DEF First, SelectInSeq
<1>2. I \subseteq Nat
  OBVIOUS
<1>3. CASE I = {}
  BY <1>1, <1>3
<1>4. CASE I # {}
  <2>1. First(a, kind) \in I /\ \A i \in I : First(a, kind) <= i
    BY <1>1, <1>2, <1>4, LeastOf
  <2> QED
    BY <2>1
<1> QED
  BY <1>3, <1>4

\* A vector closed up over the two tokens at i.
LEMMA Closed ==
  ASSUME NEW S, NEW a \in Seq(S), NEW i \in 1..(Len(a) - 1)
  PROVE  /\ CloseUp(a, i) \in Seq(S)
         /\ Len(CloseUp(a, i)) = Len(a) - 2
         /\ \A j \in 1..(Len(a) - 2) :
              CloseUp(a, i)[j] = IF j < i THEN a[j] ELSE a[j + 2]
<1>0. Len(a) \in Nat
  OBVIOUS
<1>1. /\ SubSeq(a, 1, i - 1) \in Seq(S) /\ Len(SubSeq(a, 1, i - 1)) = i - 1
      /\ \A j \in 1..(i - 1) : SubSeq(a, 1, i - 1)[j] = a[j]
  BY <1>0, Part
<1>2. /\ SubSeq(a, i + 2, Len(a)) \in Seq(S)
      /\ Len(SubSeq(a, i + 2, Len(a))) = Len(a) - i - 1
      /\ \A j \in 1..(Len(a) - i - 1) : SubSeq(a, i + 2, Len(a))[j] = a[i + 1 + j]
  <2>1. i + 2 \in 1..(Len(a) + 1) /\ Len(a) \in ((i + 2) - 1)..Len(a)
    BY <1>0
  <2> DEFINE m == i + 2
             n == Len(a)
  <2> HIDE DEF m, n
  <2>2. m \in 1..(Len(a) + 1) /\ n \in (m - 1)..Len(a)
    BY <2>1 DEF m, n
  <2>3. /\ SubSeq(a, m, n) \in Seq(S) /\ Len(SubSeq(a, m, n)) = n - m + 1
        /\ \A j \in 1..(n - m + 1) : SubSeq(a, m, n)[j] = a[m + j - 1]
    BY <2>2, Part
  <2>4. /\ n - m + 1 = Len(a) - i - 1
        /\ \A j \in 1..(Len(a) - i - 1) : m + j - 1 = i + 1 + j
    BY <1>0 DEF m, n
  <2> QED
    BY <2>3, <2>4 DEF m, n
<1> DEFINE b == SubSeq(a, 1, i - 1)
           c == SubSeq(a, i + 2, Len(a))
<1> HIDE DEF b, c
<1>3. CloseUp(a, i) = b \o c
  BY DEF CloseUp, b, c
<1>4. /\ b \in Seq(S) /\ Len(b) = i - 1 /\ \A j \in 1..(i - 1) : b[j] = a[j]
      /\ c \in Seq(S) /\ Len(c) = Len(a) - i - 1
      /\ \A j \in 1..(Len(a) - i - 1) : c[j] = a[i + 1 + j]
  BY <1>1, <1>2 DEF b, c
<1>5. /\ b \o c \in Seq(S) /\ Len(b \o c) = Len(b) + Len(c)
      /\ \A j \in 1..(Len(b) + Len(c)) :
           (b \o c)[j] = IF j <= Len(b) THEN b[j] ELSE c[j - Len(b)]
  BY <1>4, ConcatProperties
<1>6. Len(b) + Len(c) = Len(a) - 2
  BY <1>0, <1>4
<1>7. ASSUME NEW j \in 1..(Len(a) - 2)
      PROVE  (b \o c)[j] = IF j < i THEN a[j] ELSE a[j + 2]
  <2>1. CASE j < i
    BY <1>0, <1>4, <1>5, <1>6, <2>1
  <2>2. CASE ~(j < i)
    <3>1. j - (i - 1) \in 1..(Len(a) - i - 1) /\ i + 1 + (j - (i - 1)) = j + 2
      BY <1>0, <2>2
    <3>2. (b \o c)[j] = c[j - (i - 1)]
      BY <1>0, <1>4, <1>5, <1>6, <2>2
    <3> QED
      BY <1>4, <2>2, <3>1, <3>2
  <2> QED
    BY <2>1, <2>2
<1> QED
  BY <1>3, <1>5, <1>6, <1>7

\* What sh6 makes of it.
LEMMA Closed6 ==
  ASSUME NEW S, NEW a \in Seq(S), NEW i \in 1..(Len(a) - 1)
  PROVE  /\ CloseUp6(a, i) \in Seq(S)
         /\ Len(CloseUp6(a, i)) = Len(a) - 2
         /\ \A j \in 1..(Len(a) - 2) :
              CloseUp6(a, i)[j] = IF j <= i THEN a[j] ELSE a[j + 1]
<1>0. Len(a) \in Nat /\ Len(a) - 2 \in Nat
  OBVIOUS
<1>1. \A j \in 1..(Len(a) - 2) : (IF j <= i THEN a[j] ELSE a[j + 1]) \in S
  BY <1>0
<1>2. CloseUp6(a, i) \in [1..(Len(a) - 2) -> S]
  BY <1>1 DEF CloseUp6
<1>3. CloseUp6(a, i) \in Seq(S)
  BY <1>0, <1>2, SeqDef
<1>4. Len(CloseUp6(a, i)) = Len(a) - 2
  BY <1>0, <1>2, <1>3, LenProperties
<1> QED
  BY <1>3, <1>4 DEF CloseUp6
-----------------------------------------------------------------------------
\* Process k goes on and nothing else changes.
Goes(k, s) == pc' = [pc EXCEPT ![k] = s] /\ UNCHANGED <<line, argv, fds>>

\* What is left of a vector after a redirection at i.
Closing(a, i) == IF version = 6 THEN CloseUp6(a, i) ELSE CloseUp(a, i)

\* The first process takes a mark and a name, those at i, out of its vector.
Takes(i, mark, s) ==
  /\ i = First(argv[1], mark) /\ i \in 1..(Len(argv[1]) - 1)
  /\ pc' = [pc EXCEPT ![1] = s]
  /\ argv' = [argv EXCEPT ![1] = Closing(argv[1], i)]
  /\ UNCHANGED <<line, held>>
TakesIn(i, s) ==
  /\ Takes(i, "<", s)
  /\ in' = [in EXCEPT ![1] = File(argv[1][i + 1])] /\ UNCHANGED out
TakesOut(i, s) ==
  /\ Takes(i, ">", s)
  /\ out' = [out EXCEPT ![1] = File(argv[1][i + 1])] /\ UNCHANGED in

\* What a step of any of the shells does.
RedirectsIn ==
  /\ pc[1] = "redirect_in"
  /\ \/ version = 4 /\ Goes(1, "exec")
     \/ version # 4 /\ First(argv[1], "<") = 0 /\ Goes(1, "redirect_out")
     \/ version # 4 /\ \E i \in Nat : TakesIn(i, "redirect_out")
     \/ Goes(1, "failed")
RedirectsOut ==
  /\ pc[1] = "redirect_out"
  /\ \/ \E s \in {"exec", "split"} :
          /\ s = "exec" <=> version < 7
          /\ \/ First(argv[1], ">") = 0 /\ Goes(1, s)
             \/ \E i \in Nat : TakesOut(i, s)
     \/ Goes(1, "failed")
Executes(k) ==
  /\ pc[k] = "exec"
  /\ version < 7 => k = 1
  /\ \/ Goes(k, "failed")
     \/ Goes(k, "run") /\ (version < 7 => argv[k] # <<>>)
Works(k) ==
  /\ pc[k] \in Running
  /\ \E s \in {"ended", "full", "late"} : Goes(k, s)
Pipes(k) == version >= 7 /\ (Split(k) \/ Talk(k) \/ Listen(k))

LEMMA FirstStage == 1 \in Stage
  BY PipelineAssumption DEF Stage

LEMMA RedirectKinds ==
  ASSUME TypeOK, version \in Versions
  PROVE  /\ RedirectIn /\ version >= 7 => RedirectsIn
         /\ RedirectOut /\ version >= 7 => RedirectsOut
         /\ RedirectIn6 /\ version = 6 => RedirectsIn
         /\ RedirectOut6 /\ version = 6 => RedirectsOut
<1>1. First(argv[1], "<") \in Nat /\ First(argv[1], ">") \in Nat
  BY FirstStage, FirstFinds DEF TypeOK
<1>2. version \in {4, 6, 7, 9} /\ (version >= 7 => version # 4 /\ ~(version < 7))
  BY DEF Versions
<1>3. ASSUME RedirectIn, version >= 7 PROVE RedirectsIn
  <2>0. version # 6
    BY <1>2, <1>3
  <2>1. pc[1] = "redirect_in" /\ version # 4
    BY <1>2, <1>3 DEF RedirectIn
  <2>2. \/ First(argv[1], "<") = 0 /\ Goes(1, "redirect_out")
        \/ Goes(1, "failed")
        \/ TakesIn(First(argv[1], "<"), "redirect_out")
    BY <1>3, <2>0 DEF RedirectIn, TakesIn, Takes, Closing, Goes, Fail
  <2> QED
    BY <1>1, <2>1, <2>2 DEF RedirectsIn
<1>4. ASSUME RedirectOut, version >= 7 PROVE RedirectsOut
  <2>0. version # 6
    BY <1>2, <1>4
  <2>1. pc[1] = "redirect_out" /\ ~(version < 7)
    BY <1>2, <1>4 DEF RedirectOut
  <2>2. \/ First(argv[1], ">") = 0 /\ Goes(1, "split")
        \/ Goes(1, "failed")
        \/ TakesOut(First(argv[1], ">"), "split")
    BY <1>4, <2>0 DEF RedirectOut, TakesOut, Takes, Closing, Goes, Fail
  <2> QED
    BY <1>1, <2>1, <2>2 DEF RedirectsOut
<1>5. ASSUME RedirectIn6, version = 6 PROVE RedirectsIn
  <2>1. pc[1] = "redirect_in" /\ version # 4
    BY <1>5 DEF RedirectIn6
  <2>2. \/ First(argv[1], "<") = 0 /\ Goes(1, "redirect_out")
        \/ Goes(1, "failed")
        \/ TakesIn(First(argv[1], "<"), "redirect_out")
    BY <1>5 DEF RedirectIn6, Redirect6, TakesIn, Takes, Closing, Goes, fds
  <2> QED
    BY <1>1, <2>1, <2>2 DEF RedirectsIn
<1>6. ASSUME RedirectOut6, version = 6 PROVE RedirectsOut
  <2>1. pc[1] = "redirect_out" /\ version < 7
    BY <1>6 DEF RedirectOut6
  <2>2. \/ First(argv[1], ">") = 0 /\ Goes(1, "exec")
        \/ Goes(1, "failed")
        \/ TakesOut(First(argv[1], ">"), "exec")
    BY <1>6 DEF RedirectOut6, Redirect6, TakesOut, Takes, Closing, Goes, fds
  <2> QED
    BY <1>1, <2>1, <2>2 DEF RedirectsOut
<1> QED
  BY <1>3, <1>4, <1>5, <1>6

LEMMA StepKinds ==
  ASSUME TypeOK, version \in Versions, NextEarlier
  PROVE  \/ RedirectsIn \/ RedirectsOut
         \/ \E k \in Stage : Executes(k) \/ Works(k) \/ Pipes(k)
<1>1. ASSUME NEW k \in Stage, Command(k) \/ Fill(k) \/ Break(k)
      PROVE  Works(k)
  BY <1>1 DEF Command, End, Drain, SigPipe, Fill, Break, Become, Works, Goes, Running
<1>2. ASSUME NEW k \in Stage, Exec(k), version >= 7 PROVE Executes(k)
  <2>1. pc[k] = "exec" /\ (Goes(k, "run") \/ Goes(k, "failed"))
    BY <1>2 DEF Exec, Goes
  <2>2. ~(version < 7)
    BY <1>2 DEF Versions
  <2> QED
    BY <2>1, <2>2 DEF Executes
<1>3. CASE version = 4 /\ (Sh4Child \/ Exec6)
  BY <1>3, FirstStage DEF Sh4Child, Exec6, Exec, RedirectsIn, Executes, Goes, TypeOK
<1>4. CASE version = 6 /\ Sh6Child
  <2>1. CASE RedirectIn6 \/ RedirectOut6
    BY <1>4, <2>1, RedirectKinds
  <2>2. CASE Exec6
    BY <1>4, <2>2, FirstStage DEF Exec6, Exec, Executes, Goes, TypeOK
  <2> QED
    BY <1>4, <2>1, <2>2 DEF Sh6Child
<1>5. CASE version >= 7 /\ Setup
  BY <1>2, <1>5, RedirectKinds DEF Setup, Pipes
<1>6. version = 7 /\ Sh7Child => Setup
  BY DEF Sh7Child, RedirectIn7, RedirectOut7, PipeAndExec7, Setup
<1>7. SetupOf(version) =>
        \/ version = 4 /\ (Sh4Child \/ Exec6)
        \/ version = 6 /\ Sh6Child
        \/ version >= 7 /\ Setup
  <2>1. version \in {4, 6, 7, 9} /\ 7 >= 7 /\ 9 >= 7
    BY DEF Versions
  <2>2. CASE version = 4
    BY <2>2 DEF SetupOf
  <2>3. CASE version = 6
    BY <2>3 DEF SetupOf
  <2>4. CASE version = 7
    BY <1>6, <2>1, <2>4 DEF SetupOf
  <2>5. CASE version = 9
    BY <2>1, <2>5 DEF SetupOf
  <2> QED
    BY <2>1, <2>2, <2>3, <2>4, <2>5
<1> QED
  BY <1>1, <1>3, <1>4, <1>5, <1>7 DEF NextEarlier
-----------------------------------------------------------------------------
Typed == TypeOK /\ version \in Versions

LEMMA LineTyped ==
  ASSUME line \in Lines
  PROVE  /\ line \in Seq(Token) /\ Len(line) \in 1..MaxLen
         /\ \A i \in 1..Len(line) : line[i].at = i
<1>0. PICK n \in 1..MaxLen : \E f \in [1..n -> Kind] :
        line = [i \in 1..n |-> [kind |-> f[i], at |-> i]]
  BY DEF Lines
<1>1. PICK f \in [1..n -> Kind] :
        line = [i \in 1..n |-> [kind |-> f[i], at |-> i]]
  BY <1>0
<1>2. n \in Nat /\ 1..n \subseteq 1..MaxLen
  BY PipelineAssumption
<1>3. \A i \in 1..n : [kind |-> f[i], at |-> i] \in Token
  BY <1>2 DEF Token
<1>4. line \in [1..n -> Token]
  BY <1>1, <1>3
<1>5. line \in Seq(Token)
  BY <1>2, <1>4, SeqDef
<1>6. Len(line) = n
  BY <1>2, <1>4, <1>5, LenProperties
<1> QED
  BY <1>1, <1>5, <1>6

\* The vector without its "&".
LEMMA Stripped ==
  ASSUME NEW S, NEW a \in Seq(S), Len(a) >= 1
  PROVE  /\ StripBackground(a) \in Seq(S)
         /\ Len(StripBackground(a)) = Len(a) - IF Last(a).kind = "&" THEN 1 ELSE 0
         /\ \A j \in 1..Len(StripBackground(a)) : StripBackground(a)[j] = a[j]
<1>1. Len(a) \in Nat /\ Len(a) - 1 \in (1 - 1)..Len(a) /\ (Len(a) - 1) - 1 + 1 = Len(a) - 1
  OBVIOUS
<1>2. /\ Front(a) \in Seq(S) /\ Len(Front(a)) = Len(a) - 1
      /\ \A j \in 1..(Len(a) - 1) : Front(a)[j] = a[j]
  BY <1>1, Part DEF Front
<1>3. CASE Last(a).kind = "&"
  <2>1. StripBackground(a) = Front(a)
    BY <1>3 DEF StripBackground
  <2> QED
    BY <1>2, <1>3, <2>1
<1>4. CASE Last(a).kind # "&"
  <2>1. StripBackground(a) = a
    BY <1>4 DEF StripBackground
  <2> QED
    BY <1>1, <1>4, <2>1
<1> QED
  BY <1>3, <1>4

LEMMA TypedStart == InitEarlier => Typed
<1> SUFFICES ASSUME InitEarlier PROVE Typed
  OBVIOUS
<1>1. line \in Seq(Token) /\ StripBackground(line) \in Seq(Token)
  BY LineTyped, Stripped DEF InitEarlier, Init
<1>2. argv \in [Stage -> Seq(Token)]
  BY <1>1 DEF InitEarlier, Init
<1>3. Tty \in Descriptor
  BY PipelineAssumption DEF Tty, Descriptor
<1>4. in \in [Stage -> Descriptor] /\ out \in [Stage -> Descriptor]
  BY <1>3 DEF InitEarlier, Init
<1> QED
  BY <1>1, <1>2, <1>4 DEF InitEarlier, Init, TypeOK, Typed, Gone, Running

LEMMA TypedRedirect ==
  ASSUME TypeOK, NEW i \in Nat, NEW s \in {"redirect_out", "split", "exec"},
         TakesIn(i, s) \/ TakesOut(i, s)
  PROVE  TypeOK'
<1>1. argv[1] \in Seq(Token) /\ i \in 1..(Len(argv[1]) - 1)
  BY FirstStage DEF TypeOK, TakesIn, TakesOut, Takes
<1>2. Closing(argv[1], i) \in Seq(Token)
  BY <1>1, Closed, Closed6 DEF Closing
<1>3. argv' \in [Stage -> Seq(Token)]
  BY <1>2 DEF TypeOK, TakesIn, TakesOut, Takes
<1>4. argv[1][i + 1] \in Token
  BY <1>1
<1>5. File(argv[1][i + 1]) \in Descriptor
  BY <1>4, PipelineAssumption DEF File, Descriptor, Token
<1>6. in' \in [Stage -> Descriptor] /\ out' \in [Stage -> Descriptor]
  <2> DEFINE f == File(argv[1][i + 1])
  <2> HIDE DEF f
  <2>1. \/ in' = [in EXCEPT ![1] = f] /\ out' = out
        \/ out' = [out EXCEPT ![1] = f] /\ in' = in
    BY DEF TakesIn, TakesOut, f
  <2>2. f \in Descriptor
    BY <1>5 DEF f
  <2> QED
    BY <2>1, <2>2 DEF TypeOK
<1>7. pc' = [pc EXCEPT ![1] = s] /\ UNCHANGED <<line, held>>
  BY DEF TakesIn, TakesOut, Takes
<1>8. pc' \in [Stage -> Gone \cup Running \cup
        {"redirect_in", "redirect_out", "split", "talk", "listen", "exec"}]
  BY <1>7 DEF TypeOK
<1> QED
  BY <1>3, <1>6, <1>7, <1>8 DEF TypeOK

LEMMA TypedPipes ==
  ASSUME TypeOK, NEW k \in Stage, Split(k) \/ Talk(k) \/ Listen(k)
  PROVE  TypeOK'
<1>1. ReadEnd(k) \in Descriptor /\ WriteEnd(k) \in Descriptor /\ ReadEnd(k - 1) \in Descriptor
  BY PipelineAssumption DEF ReadEnd, WriteEnd, Descriptor, Stage
<1>2. ASSUME Split(k) PROVE TypeOK'
  <2> DEFINE i == PipePresent(argv[k])
  <2>1. CASE \/ pc' = [pc EXCEPT ![k] = "exec"] /\ UNCHANGED <<line, argv, fds>>
             \/ Fail(k)
    BY <2>1 DEF Fail, fds, TypeOK, Gone
  <2>2. CASE /\ i > 0
             /\ argv' = [argv EXCEPT ![k] = SubSeq(argv[k], 1, i - 1),
                                     ![k + 1] = SubSeq(argv[k], i + 1, Len(argv[k]))]
             /\ pc' = [pc EXCEPT ![k] = "talk", ![k + 1] = "listen"]
             /\ in' = [in EXCEPT ![k + 1] = in[k]]
             /\ out' = [out EXCEPT ![k + 1] = out[k]]
             /\ held' = [held EXCEPT ![k] = Ends(k), ![k + 1] = Ends(k)]
             /\ UNCHANGED line
    <3>1. argv[k] \in Seq(Token)
      BY DEF TypeOK
    <3>2. i \in 1..Len(argv[k])
      <4>1. First(argv[k], "|") \in 0..Len(argv[k])
        BY <3>1, FirstFinds
      <4>2. i = -1 \/ i = First(argv[k], "|")
        BY DEF PipePresent
      <4> QED
        BY <2>2, <4>1, <4>2
    <3>3. /\ SubSeq(argv[k], 1, i - 1) \in Seq(Token)
          /\ SubSeq(argv[k], i + 1, Len(argv[k])) \in Seq(Token)
      BY <3>1, <3>2, Part
    <3> HIDE DEF i
    <3>4. argv' \in [Stage -> Seq(Token)]
      BY <2>2, <3>3 DEF TypeOK
    <3>5. in' \in [Stage -> Descriptor] /\ out' \in [Stage -> Descriptor]
      BY <2>2 DEF TypeOK
    <3>6. Ends(k) \in SUBSET Descriptor
      BY <1>1 DEF Ends
    <3>7. held' \in [Stage -> SUBSET Descriptor]
      BY <2>2, <3>6 DEF TypeOK
    <3>8. pc' \in [Stage -> Gone \cup Running \cup
            {"redirect_in", "redirect_out", "split", "talk", "listen", "exec"}]
      BY <2>2 DEF TypeOK
    <3> QED
      BY <2>2, <3>4, <3>5, <3>7, <3>8 DEF TypeOK
  <2> QED
    BY <1>2, <2>1, <2>2 DEF Split
<1>3. CASE Talk(k)
  BY <1>1, <1>3 DEF Talk, TypeOK
<1>4. CASE Listen(k)
  BY <1>1, <1>4 DEF Listen, TypeOK
<1> QED
  BY <1>2, <1>3, <1>4

LEMMA TypedStep ==
  ASSUME Typed, [NextEarlier]_allVars
  PROVE  Typed'
<1> USE DEF Typed
<1>0. CASE UNCHANGED allVars
  BY <1>0 DEF allVars, vars, TypeOK
<1> SUFFICES ASSUME NextEarlier PROVE TypeOK'
  BY <1>0 DEF NextEarlier
<1>1. ASSUME NEW k \in Stage,
             NEW s \in Gone \cup Running \cup {"redirect_out", "split", "exec"}, Goes(k, s)
      PROVE  TypeOK'
  BY <1>1 DEF TypeOK, Goes, fds
<1>2. CASE RedirectsIn \/ RedirectsOut
  BY <1>1, <1>2, FirstStage, TypedRedirect DEF RedirectsIn, RedirectsOut, Gone
<1>3. ASSUME NEW k \in Stage, Executes(k) \/ Works(k) PROVE TypeOK'
  BY <1>1, <1>3 DEF Executes, Works, Gone, Running
<1>4. ASSUME NEW k \in Stage, Pipes(k) PROVE TypeOK'
  BY <1>4, TypedPipes DEF Pipes
<1> QED
  BY <1>2, <1>3, <1>4, StepKinds

(* The vectors, the steps and the descriptors of all processes keep their  *)
(* types, in each version of the shell and for lines of any length.        *)
THEOREM TypeCorrect == SpecEarlier => []TypeOK
<1>1. Typed => TypeOK
  BY DEF Typed
<1> QED
  BY <1>1, TypedStart, TypedStep, PTL DEF SpecEarlier
-----------------------------------------------------------------------------
Early == {"redirect_in", "redirect_out", "split", "listen"}
Step == Gone \cup Running \cup Early \cup {"talk", "exec"}

Shape ==
  /\ pc \in [Stage -> Step]
  /\ in = [k \in Stage |-> in[k]]
  /\ out = [k \in Stage |-> out[k]]
  /\ held = [k \in Stage |-> held[k]]

\* A process that has yet to fork is the last one.
LastEarly ==
  \A j, k \in Stage :
    k > j /\ pc[j] \in Early \cup {"none"} => pc[k] = "none"

\* What standard input and output refer to.
InputFrom ==
  \A k \in Stage :
    /\ in[k].to # "write"
    /\ in[k].to = "read" =>
         in[k] = ReadEnd(k - 1) \/ (pc[k] = "listen" /\ in[k] = ReadEnd(k - 2))

OutputTo ==
  \A k \in Stage :
    /\ out[k].to # "read"
    /\ out[k].to = "write" =>
         out[k] = WriteEnd(k) /\ pc[k] \notin Early \cup {"none", "talk"}

HeldFor ==
  \A k \in Stage :
    held[k] = IF pc[k] = "talk" THEN Ends(k)
              ELSE IF pc[k] = "listen" THEN Ends(k - 1) ELSE {}

EndsInv == Shape /\ LastEarly /\ InputFrom /\ OutputTo /\ HeldFor

LEMMA StageNat == \A k \in Stage : k \in Nat /\ k >= 1
  BY PipelineAssumption DEF Stage

LEMMA EndsDiffer ==
  /\ \A p : ReadEnd(p).to = "read" /\ WriteEnd(p).to = "write"
  /\ \A p, q : ReadEnd(p) # WriteEnd(q)
  /\ \A p, q : ReadEnd(p) = ReadEnd(q) => p = q
  /\ \A p, q : WriteEnd(p) = WriteEnd(q) => p = q
<1>1. \A p : ReadEnd(p).to = "read" /\ WriteEnd(p).to = "write"
  BY DEF ReadEnd, WriteEnd
<1>2. \A p : ReadEnd(p).of = p /\ WriteEnd(p).of = p
  BY DEF ReadEnd, WriteEnd
<1> QED
  BY <1>1, <1>2

LEMMA EndsInit == Init => EndsInv
<1> SUFFICES ASSUME Init PROVE EndsInv
  OBVIOUS
<1> USE StageNat DEF Init
<1>1. Shape
  BY DEF Shape, Step, Gone, Early
<1>2. LastEarly
  BY DEF LastEarly
<1>3. InputFrom /\ OutputTo
  BY DEF InputFrom, OutputTo, Tty
<1>4. HeldFor
  BY DEF HeldFor
<1> QED
  BY <1>1, <1>2, <1>3, <1>4 DEF EndsInv

\* A step of process k that leaves its descriptors alone and takes it from
\* where no end is held and nobody is to be forked, or no further.
LEMMA EndsBecome ==
  ASSUME EndsInv, NEW k \in Stage, NEW s \in Step,
         pc' = [pc EXCEPT ![k] = s], UNCHANGED fds,
         pc[k] \notin {"none", "talk", "listen"},
         s \notin {"none", "talk", "listen"},
         s \in Early => pc[k] \in Early
  PROVE  EndsInv'
<1> USE StageNat DEF EndsInv, fds
<1>1. Shape'
  BY DEF Shape
<1>2. LastEarly'
  BY DEF LastEarly, Shape
<1>3. InputFrom'
  BY DEF InputFrom, Shape
<1>4. OutputTo'
  BY DEF OutputTo, Shape
<1>5. HeldFor'
  BY DEF HeldFor, Shape
<1> QED
  BY <1>1, <1>2, <1>3, <1>4, <1>5

\* The first process replaces one of its descriptors by a file.
LEMMA EndsTakes ==
  ASSUME EndsInv, NEW i \in Nat, NEW s \in {"redirect_out", "split", "exec"},
         pc[1] \in {"redirect_in", "redirect_out"},
         TakesIn(i, s) \/ TakesOut(i, s)
  PROVE  EndsInv'
<1> USE StageNat, FirstStage DEF Step, Early, Gone, EndsInv
<1>1. PICK t : \/ in' = [in EXCEPT ![1] = File(t)] /\ UNCHANGED out
               \/ out' = [out EXCEPT ![1] = File(t)] /\ UNCHANGED in
  BY DEF TakesIn, TakesOut
<1>2. pc' = [pc EXCEPT ![1] = s] /\ UNCHANGED held
  BY DEF TakesIn, TakesOut, Takes
<1> USE <1>1, <1>2
<1>3. Shape'
  BY DEF Shape
<1>4. LastEarly'
  BY DEF LastEarly, Shape
<1>5. InputFrom'
  BY DEF InputFrom, Shape, File
<1>6. OutputTo'
  BY DEF OutputTo, Shape, File
<1>7. HeldFor'
  BY DEF HeldFor, Shape
<1> QED
  BY <1>3, <1>4, <1>5, <1>6, <1>7

\* The fork: the new process is the last one and inherits everything.
LEMMA EndsSplit ==
  ASSUME EndsInv, NEW k \in Stage, Split(k)
  PROVE  EndsInv'
<1> DEFINE Fork ==
             /\ pc' = [pc EXCEPT ![k] = "talk", ![k + 1] = "listen"]
             /\ in' = [in EXCEPT ![k + 1] = in[k]]
             /\ out' = [out EXCEPT ![k + 1] = out[k]]
             /\ held' = [held EXCEPT ![k] = Ends(k), ![k + 1] = Ends(k)]
           Stay(s) == pc' = [pc EXCEPT ![k] = s] /\ UNCHANGED fds
<1> USE StageNat DEF Step, Early, Gone
<1>0. pc[k] = "split" /\ (Fork \/ Stay("exec") \/ Stay("failed"))
  BY DEF Split, Fail
<1>1. CASE Stay("exec") \/ Stay("failed")
  <2>1. PICK s \in {"exec", "failed"} : Stay(s)
    BY <1>1
  <2> QED
    BY <1>0, <2>1, EndsBecome
<1>2. CASE Fork
  <2> USE <1>0, <1>2 DEF EndsInv
  <2>2. k \in Nat /\ (k + 1) - 1 = k /\ (k + 1) - 2 = k - 1 /\ k + 1 > k
    BY Z3
  <2>3. Shape'
    BY DEF Shape
  <2>4. LastEarly'
    <3>1. \A j \in Stage : j > k => pc[j] = "none"
      BY DEF LastEarly
    <3>2. \A j \in Stage : j # k /\ j # k + 1 => pc'[j] = pc[j]
      BY DEF Shape
    <3>3. pc'[k] = "talk"
      BY <2>2 DEF Shape
    <3>4. ASSUME NEW i \in Stage, NEW j \in Stage, j > i,
                 pc'[i] \in Early \cup {"none"}
          PROVE  pc'[j] = "none"
      <4>1. i # k
        BY <3>3, <3>4
      <4>2. ~(i < k)
        BY <2>2, <3>2, <3>4 DEF LastEarly
      <4>3. j > k /\ j # k /\ j # k + 1
        BY <2>2, <3>4, <4>1, <4>2
      <4> QED
        BY <3>1, <3>2, <4>3
    <3> QED
      BY <3>4 DEF LastEarly
  <2>5. InputFrom'
    <3>1. ASSUME NEW j \in Stage, j = k + 1
          PROVE  /\ pc'[j] = "listen" /\ in'[j] = in[k] /\ in[k].to # "write"
                 /\ in[k].to = "read" => in[k] = ReadEnd(k - 1)
      BY <3>1 DEF InputFrom, Shape
    <3>2. ASSUME NEW j \in Stage, j # k + 1
          PROVE  in'[j] = in[j] /\ (pc[j] = "listen" => pc'[j] = "listen")
      BY <3>2 DEF Shape
    <3>3. ASSUME NEW j \in Stage
          PROVE  /\ in'[j].to # "write"
                 /\ in'[j].to = "read" =>
                      in'[j] = ReadEnd(j - 1)
                        \/ (pc'[j] = "listen" /\ in'[j] = ReadEnd(j - 2))
      <4>1. CASE j = k + 1
        <5>1. j - 2 = k - 1
          BY <2>2, <4>1
        <5> QED
          BY ONLY <3>1, <4>1, <5>1
      <4>2. CASE j # k + 1
        BY ONLY <3>2, <4>2, InputFrom DEF InputFrom
      <4> QED
        BY ONLY <4>1, <4>2
    <3> QED
      BY ONLY <3>3 DEF InputFrom
  <2>6. OutputTo'
    <3>1. ASSUME NEW j \in Stage, j = k + 1
          PROVE  out'[j] = out[k] /\ out[k].to \notin {"read", "write"}
      BY <3>1 DEF OutputTo, Shape
    <3>2. ASSUME NEW j \in Stage, j # k + 1
          PROVE  out'[j] = out[j] /\ (j # k => pc'[j] = pc[j])
      BY <3>2 DEF Shape
    <3>3. pc[k] \in Early
      OBVIOUS
    <3>4. ASSUME NEW j \in Stage
          PROVE  /\ out'[j].to # "read"
                 /\ out'[j].to = "write" =>
                      out'[j] = WriteEnd(j) /\ pc'[j] \notin Early \cup {"none", "talk"}
      <4>1. CASE j = k + 1
        BY ONLY <3>1, <4>1
      <4>2. CASE j # k + 1
        BY ONLY <3>2, <3>3, <4>2, OutputTo DEF OutputTo
      <4> QED
        BY ONLY <4>1, <4>2
    <3> QED
      BY ONLY <3>4 DEF OutputTo
  <2>7. HeldFor'
    BY <2>2 DEF HeldFor, Shape
  <2> QED
    BY <2>3, <2>4, <2>5, <2>6, <2>7
<1> QED
  BY <1>0, <1>1, <1>2

\* Parent and child each take one end of the pipe and close both.
LEMMA EndsTalkListen ==
  ASSUME EndsInv, NEW k \in Stage, Talk(k) \/ Listen(k)
  PROVE  EndsInv'
<1> USE StageNat DEF EndsInv, Talk, Listen, Step, Early, Gone
<1>1. Shape'
  BY DEF Shape
<1>2. LastEarly'
  BY DEF LastEarly, Shape
<1>3. InputFrom'
  <2>1. CASE Talk(k)
    BY <2>1 DEF InputFrom, Shape
  <2>2. CASE Listen(k)
    BY <2>2 DEF InputFrom, Shape, ReadEnd
  <2> QED
    BY <2>1, <2>2
<1>4. OutputTo'
  <2>1. CASE Talk(k)
    BY <2>1 DEF OutputTo, Shape, WriteEnd
  <2>2. CASE Listen(k)
    BY <2>2 DEF OutputTo, Shape
  <2> QED
    BY <2>1, <2>2
<1>5. HeldFor'
  BY DEF HeldFor, Shape
<1> QED
  BY <1>1, <1>2, <1>3, <1>4, <1>5

LEMMA EndsStep ==
  ASSUME Typed, EndsInv, [NextEarlier]_allVars
  PROVE  EndsInv'
<1>0. CASE UNCHANGED allVars
  BY <1>0 DEF allVars, vars, EndsInv, Shape, LastEarly, InputFrom, OutputTo, HeldFor
<1> SUFFICES ASSUME NextEarlier PROVE EndsInv'
  BY <1>0
<1>1. ASSUME NEW k \in Stage,
             NEW s \in {"redirect_out", "split", "exec", "run", "failed", "ended",
                        "full", "late"},
             pc[k] \notin {"none", "talk", "listen"},
             s \in Early => pc[k] \in Early, Goes(k, s)
      PROVE  EndsInv'
  BY <1>1, EndsBecome DEF Goes, Step, Early, Gone, Running
<1>2. CASE RedirectsIn \/ RedirectsOut
  BY <1>1, <1>2, FirstStage, EndsTakes DEF RedirectsIn, RedirectsOut, Early
<1>3. ASSUME NEW k \in Stage, Executes(k) \/ Works(k) PROVE EndsInv'
  BY <1>1, <1>3 DEF Executes, Works, Running, Early
<1>4. ASSUME NEW k \in Stage, Pipes(k) PROVE EndsInv'
  BY <1>4, EndsSplit, EndsTalkListen DEF Pipes
<1> QED
  BY <1>2, <1>3, <1>4, StepKinds DEF Typed

(* Where every process of a pipeline of any length has its descriptors,    *)
(* from the fork in pipe_and_exec (pipe_command.c:38) to its end.          *)
THEOREM DescriptorsCorrect == SpecEarlier => []EndsInv
<1>1. InitEarlier => EndsInv
  BY EndsInit DEF InitEarlier
<1> QED
  BY <1>1, TypedStart, TypedStep, EndsStep, PTL DEF SpecEarlier

LEMMA EndsImply == EndsInv => OwnEndsOnly
<1> SUFFICES ASSUME EndsInv, NEW p \in Stage, NEW k \in Stage, Alive(k)
             PROVE
               /\ WriteEnd(p) \in held[k] \cup {in[k], out[k]} =>
                    k = p \/ (k = p + 1 /\ pc[k] = "listen")
               /\ ReadEnd(p) \in held[k] \cup {in[k], out[k]} =>
                    \/ k = p + 1
                    \/ k = p /\ pc[k] = "talk"
                    \/ k = p + 2 /\ pc[k] = "listen"
  BY DEF OwnEndsOnly, Writers, Readers, Opens
<1> USE StageNat, EndsDiffer DEF EndsInv
<1>1. WriteEnd(p) # in[k] /\ ReadEnd(p) # out[k]
  BY DEF InputFrom, OutputTo
<1>2. WriteEnd(p) = out[k] => k = p
  BY DEF OutputTo
<1>3. ReadEnd(p) = in[k] => k = p + 1 \/ (k = p + 2 /\ pc[k] = "listen")
  BY DEF InputFrom
<1>4. \A q : WriteEnd(p) \in Ends(q) \/ ReadEnd(p) \in Ends(q) => p = q
  BY DEF Ends
<1>5. WriteEnd(p) \in held[k] => k = p \/ (k = p + 1 /\ pc[k] = "listen")
  BY <1>4 DEF HeldFor
<1>6. ReadEnd(p) \in held[k] => k = p + 1 \/ (k = p /\ pc[k] = "talk")
  BY <1>4 DEF HeldFor
<1> QED
  BY <1>1, <1>2, <1>3, <1>4, <1>5, <1>6

(* No process of a pipeline, however long, keeps an end of a pipe that is  *)
(* not its own (pipe_command.c:49-51, 62-64).                              *)
THEOREM OnlyOwnEnds == SpecEarlier => []OwnEndsOnly
  BY DescriptorsCorrect, EndsImply, PTL
-----------------------------------------------------------------------------
(* The tokens of the first process, and the names of commands.             *)

\* Before the first process has forked or executes anything.
Pre == {"redirect_in", "redirect_out", "split"}

\* The vector of the first process, and what redirections have taken of it,
\* still make up the line.
Whole == pc[1] \in Pre \/ (version < 7 /\ pc[1] # "failed")

Alone == version < 7 \/ pc[1] \in Pre => \A k \in Stage \ {1} : pc[k] = "none"

Begun == pc[1] \notin {"none", "listen"} /\ (version < 7 => pc[1] \notin {"split", "talk"})

Executed ==
  version >= 7 =>
    \A k \in Stage :
      pc[k] \in {"talk", "exec", "ended"} \cup Running =>
        argv[k] # <<>> /\ First(argv[k], "|") = 0

IsFile(d) == IF d.to = "file" THEN 1 ELSE 0
Amp == IF Last(line).kind = "&" THEN 1 ELSE 0
Counted == Whole => Len(line) = Len(argv[1]) + 2 * (IsFile(in[1]) + IsFile(out[1])) + Amp

\* Input and output are never redirected to one and the same token.
Apart ==
  /\ Whole /\ in[1].to = "file" /\ out[1].to = "file" => in[1] # out[1]
  /\ pc[1] = "redirect_in" => in[1] = Tty
  /\ pc[1] \in {"redirect_in", "redirect_out"} =>
       /\ out[1] = Tty
       /\ \A i, j \in 1..Len(argv[1]) : i < j => argv[1][i].at < argv[1][j].at
       /\ in[1].to = "file" => \A j \in 1..Len(argv[1]) : argv[1][j].at # in[1].of

LineInv == Alone /\ Begun /\ Executed /\ Counted /\ Apart

LEMMA LineStart == InitEarlier => LineInv
<1> SUFFICES ASSUME InitEarlier PROVE LineInv
  OBVIOUS
<1>1. /\ line \in Seq(Token) /\ Len(line) >= 1
      /\ \A i \in 1..Len(line) : line[i].at = i
  BY LineTyped DEF InitEarlier, Init
<1>2. /\ pc[1] = "redirect_in" /\ in[1] = Tty /\ out[1] = Tty
      /\ \A k \in Stage \ {1} : pc[k] = "none"
      /\ argv[1] = StripBackground(line)
  BY FirstStage DEF InitEarlier, Init
<1>3. /\ Len(argv[1]) \in Nat /\ Len(argv[1]) <= Len(line)
      /\ Len(argv[1]) = Len(line) - Amp
      /\ \A j \in 1..Len(argv[1]) : argv[1][j] = line[j]
  BY <1>1, <1>2, Stripped DEF Amp
<1>4. Alone /\ Begun
  BY <1>2 DEF Alone, Begun
<1>5. Executed
  BY <1>2, FirstStage DEF Executed, Running
<1>6. Counted
  BY <1>1, <1>2, <1>3 DEF Counted, IsFile, Tty, Amp
<1>7. Apart
  BY <1>1, <1>2, <1>3 DEF Apart, Tty
<1> QED
  BY <1>4, <1>5, <1>6, <1>7 DEF LineInv

\* A process goes on: what it was before does for what it is then.
LEMMA LineGoes ==
  ASSUME Typed, LineInv, NEW k \in Stage, NEW s, Goes(k, s), UNCHANGED version,
         s \in {"redirect_out", "split", "exec", "run", "failed", "ended", "full", "late"},
         s = "redirect_out" => pc[k] = "redirect_in",
         s = "split" => pc[k] = "redirect_out" /\ version >= 7,
         s = "exec" => pc[k] \in Pre /\ version < 7,
         s = "run" => pc[k] = "exec" /\ (version < 7 => argv[k] # <<>>),
         s \in {"ended", "full", "late"} => pc[k] \in Running,
         pc[k] # "none"
  PROVE  LineInv'
<1>1. pc' = [pc EXCEPT ![k] = s] /\ UNCHANGED <<line, argv, in, out, held>>
  BY DEF Goes, fds
<1>0. /\ \A j \in Stage : pc'[j] = IF j = k THEN s ELSE pc[j]
      /\ version' = version /\ (version >= 7 => ~(version < 7))
  BY <1>1 DEF Versions, Typed, TypeOK
<1> USE FirstStage DEF LineInv
<1>2. Alone'
  BY <1>0 DEF Alone, Pre
<1>3. Begun'
  BY <1>0 DEF Begun
<1>4. Executed'
  <2> SUFFICES ASSUME version >= 7, NEW j \in Stage,
                      pc'[j] \in {"talk", "exec", "ended"} \cup Running
               PROVE  argv[j] # <<>> /\ First(argv[j], "|") = 0
    BY <1>0, <1>1 DEF Executed
  <2>1. ~(version < 7)
    BY DEF Typed, Versions
  <2>2. pc[j] \in {"talk", "exec", "ended"} \cup Running
    BY <1>0, <2>1 DEF Running
  <2> QED
    BY <2>2 DEF Executed
<1>5. Whole' => Whole
  BY <1>0 DEF Whole, Pre, Running
<1> USE <1>1
<1>6. Counted'
  BY <1>5 DEF Counted, Amp, IsFile
<1>7. Apart'
  BY <1>5 DEF Apart
<1> QED
  BY <1>2, <1>3, <1>4, <1>6, <1>7

\* The tokens that are left keep their order.  Two are not among them: the
\* name and, except in sh6, the mark.
LEMMA TakesLeave ==
  ASSUME TypeOK, NEW i \in Nat, NEW mark, NEW s, Takes(i, mark, s)
  PROVE  /\ argv'[1] \in Seq(Token) /\ Len(argv'[1]) = Len(argv[1]) - 2
         /\ \E p \in 1..Len(argv[1]) \ {i + 1} :
            \E g \in [1..Len(argv'[1]) -> 1..Len(argv[1]) \ {p, i + 1}] :
              /\ version # 6 \/ i = Len(argv[1]) - 1 => p = i
              /\ \A j, k \in 1..Len(argv'[1]) : j < k => g[j] < g[k]
              /\ \A j \in 1..Len(argv'[1]) : argv'[1][j] = argv[1][g[j]]
              /\ \A q \in 1..Len(argv[1]) \ {p, i + 1} :
                   \E j \in 1..Len(argv'[1]) : g[j] = q
<1> DEFINE a == argv[1]
           b == argv'[1]
<1>1. a \in Seq(Token) /\ i \in 1..(Len(a) - 1) /\ Len(a) \in Nat
  BY FirstStage DEF TypeOK, Takes
<1>2. b = IF version = 6 THEN CloseUp6(a, i) ELSE CloseUp(a, i)
  BY FirstStage DEF TypeOK, Takes, Closing
<1> HIDE DEF a, b
<1>3. b \in Seq(Token) /\ Len(b) = Len(a) - 2
  BY <1>1, <1>2, Closed, Closed6
<1> DEFINE Leaves(p, g) ==
             /\ p \in 1..Len(a) \ {i + 1}
             /\ g \in [1..Len(b) -> 1..Len(a) \ {p, i + 1}]
             /\ version # 6 \/ i = Len(a) - 1 => p = i
             /\ \A j, k \in 1..Len(b) : j < k => g[j] < g[k]
             /\ \A j \in 1..Len(b) : b[j] = a[g[j]]
             /\ \A q \in 1..Len(a) \ {p, i + 1} : \E j \in 1..Len(b) : g[j] = q
<1>4. CASE version # 6
  <2> DEFINE g == [j \in 1..Len(b) |-> IF j < i THEN j ELSE j + 2]
  <2>1. g \in [1..Len(b) -> 1..Len(a) \ {i, i + 1}]
    BY <1>1, <1>3
  <2>2. \A j, k \in 1..Len(b) : j < k => g[j] < g[k]
    BY <1>1, <1>3
  <2>3. \A j \in 1..Len(b) : b[j] = a[g[j]]
    BY <1>1, <1>2, <1>3, <1>4, Closed
  <2>4. ASSUME NEW q \in 1..Len(a) \ {i, i + 1}
        PROVE  \E j \in 1..Len(b) : g[j] = q
    <3>1. CASE q < i
      <4>1. q \in 1..Len(b) /\ g[q] = q
        BY <1>1, <1>3, <3>1
      <4> QED
        BY <4>1
    <3>2. CASE ~(q < i)
      <4>1. q - 2 \in 1..Len(b) /\ g[q - 2] = q
        BY <1>1, <1>3, <3>2
      <4> QED
        BY <4>1
    <3> QED
      BY <3>1, <3>2
  <2> HIDE DEF g
  <2>5. Leaves(i, g)
    BY <1>1, <2>1, <2>2, <2>3, <2>4
  <2> QED
    BY <1>3, <2>5 DEF a, b
<1>5. CASE version = 6
  <2> DEFINE g == [j \in 1..Len(b) |-> IF j <= i THEN j ELSE j + 1]
             p == IF i = Len(a) - 1 THEN i ELSE Len(a)
  <2>1. p \in 1..Len(a) \ {i + 1} /\ (i = Len(a) - 1 => p = i)
    BY <1>1
  <2>2. g \in [1..Len(b) -> 1..Len(a) \ {p, i + 1}]
    BY <1>1, <1>3
  <2>3. \A j, k \in 1..Len(b) : j < k => g[j] < g[k]
    BY <1>1, <1>3
  <2>4. \A j \in 1..Len(b) : b[j] = a[g[j]]
    BY <1>1, <1>2, <1>3, <1>5, Closed6
  <2>5. ASSUME NEW q \in 1..Len(a) \ {p, i + 1}
        PROVE  \E j \in 1..Len(b) : g[j] = q
    <3>1. CASE q <= i
      <4>1. q \in 1..Len(b) /\ g[q] = q
        BY <1>1, <1>3, <3>1
      <4> QED
        BY <4>1
    <3>2. CASE ~(q <= i)
      <4>1. q - 1 \in 1..Len(b) /\ g[q - 1] = q
        BY <1>1, <1>3, <3>2
      <4> QED
        BY <4>1
    <3> QED
      BY <3>1, <3>2
  <2> HIDE DEF g, p
  <2>6. Leaves(p, g)
    BY <1>5, <2>1, <2>2, <2>3, <2>4, <2>5
  <2> QED
    BY <1>3, <2>6 DEF a, b
<1> QED
  BY <1>4, <1>5

LEMMA LineTakes ==
  ASSUME Typed, LineInv, UNCHANGED version, NEW i \in Nat,
         NEW s \in {"redirect_out", "split", "exec"},
         \/ pc[1] = "redirect_in" /\ s = "redirect_out" /\ TakesIn(i, s)
         \/ /\ pc[1] = "redirect_out" /\ s # "redirect_out" /\ TakesOut(i, s)
            /\ s = "exec" <=> version < 7
  PROVE  LineInv'
<1> DEFINE a == argv[1]
           b == argv'[1]
           m == Len(b)
<1>0. version >= 7 => ~(version < 7)
  BY DEF Typed, Versions
<1>1. PICK mark : Takes(i, mark, s)
  BY DEF TakesIn, TakesOut
<1>2. /\ \A k \in Stage : pc'[k] = IF k = 1 THEN s ELSE pc[k]
      /\ \A k \in Stage \ {1} : argv'[k] = argv[k]
      /\ UNCHANGED line
  BY <1>1, FirstStage DEF Takes, Typed, TypeOK
<1>3. PICK g \in [1..m -> 1..Len(a) \ {i + 1}] :
        /\ \A j, k \in 1..m : j < k => g[j] < g[k]
        /\ \A j \in 1..m : b[j] = a[g[j]]
  BY <1>1, TakesLeave DEF Typed
<1>4. m = Len(a) - 2 /\ Len(a) \in Nat /\ m \in Nat
  BY <1>1, TakesLeave, FirstStage DEF Typed, TypeOK
<1>5. a[i + 1] \in Token /\ i + 1 \in 1..Len(a)
  BY <1>1, FirstStage DEF Takes, Typed, TypeOK
<1>6. pc[1] \in Pre /\ pc'[1] = s
  BY <1>2, FirstStage DEF Pre
<1>7. Whole /\ Len(line) = Len(a) + 2 * (IsFile(in[1]) + IsFile(out[1])) + Amp
  BY <1>6 DEF Whole, LineInv, Counted
<1>8. /\ out[1] = Tty
      /\ \A j, k \in 1..Len(a) : j < k => a[j].at < a[k].at
      /\ in[1].to = "file" => \A j \in 1..Len(a) : a[j].at # in[1].of
  BY DEF LineInv, Apart
<1> HIDE DEF a, b, m
<1>9. \A j, k \in 1..m : j < k => b[j].at < b[k].at
  BY <1>3, <1>8
<1>10. Alone'
  BY <1>0, <1>2, <1>6 DEF LineInv, Alone, Pre
<1>11. Begun'
  BY <1>0, <1>2, <1>6 DEF LineInv, Begun
<1>12. Executed'
  <2> SUFFICES ASSUME version >= 7, NEW k \in Stage,
                      pc'[k] \in {"talk", "exec", "ended"} \cup Running
               PROVE  argv'[k] # <<>> /\ First(argv'[k], "|") = 0
    BY DEF Executed
  <2>1. s # "exec"
    BY <1>0
  <2>2. k # 1 /\ pc[k] = pc'[k]
    BY <1>2, <2>1 DEF Running
  <2> QED
    BY <1>2, <2>2 DEF LineInv, Executed
<1>13. CASE pc[1] = "redirect_in" /\ s = "redirect_out" /\ TakesIn(i, s)
  <2>1. pc[1] = "redirect_in" /\ s = "redirect_out" /\ in[1] = Tty
    BY <1>13 DEF LineInv, Apart
  <2>2. in'[1] = File(a[i + 1]) /\ out'[1] = out[1]
    BY <1>13, FirstStage DEF TakesIn, Typed, TypeOK, a
  <2>3. IsFile(in'[1]) = 1 /\ IsFile(in[1]) = 0 /\ in'[1].of = a[i + 1].at
    BY <2>1, <2>2 DEF IsFile, File, Tty
  <2>4. IsFile(out'[1]) = IsFile(out[1]) /\ IsFile(out[1]) = 0
    BY <1>8, <2>2 DEF IsFile, Tty
  <2>5. Amp' = Amp /\ Amp \in {0, 1}
    BY <1>2 DEF Amp
  <2>6. Len(line) = m + 2 * (IsFile(in'[1]) + IsFile(out'[1])) + Amp
    BY <1>4, <1>7, <2>3, <2>4, <2>5
  <2>7. Counted'
    BY <1>2, <2>5, <2>6 DEF Counted, b, m
  <2>8. \A j \in 1..m : b[j].at # a[i + 1].at
    <3>1. \A j \in 1..Len(a) : a[j].at \in Nat
      <4>1. \A t \in Token : t.at \in Nat
        BY PipelineAssumption DEF Token
      <4>2. a \in Seq(Token)
        BY FirstStage DEF Typed, TypeOK, a
      <4> QED
        BY <4>1, <4>2
    <3>2. \A j \in 1..Len(a) : j # i + 1 => a[j].at # a[i + 1].at
      BY <1>5, <1>8, <3>1
    <3> QED
      BY <1>3, <3>2
  <2>9. pc'[1] = "redirect_out" /\ out'[1] = Tty /\ out'[1].to # "file"
    BY <1>6, <1>8, <2>1, <2>2 DEF Tty
  <2>10. /\ \A j, k \in 1..Len(argv'[1]) : j < k => argv'[1][j].at < argv'[1][k].at
         /\ \A j \in 1..Len(argv'[1]) : argv'[1][j].at # in'[1].of
    BY <1>9, <2>3, <2>8 DEF b, m
  <2>11. Apart'
    BY <2>9, <2>10 DEF Apart
  <2> QED
    BY <1>10, <1>11, <1>12, <2>7, <2>11 DEF LineInv
<1>14. CASE pc[1] = "redirect_out" /\ s # "redirect_out" /\ TakesOut(i, s)
  <2>1. pc[1] = "redirect_out" /\ s \in {"exec", "split"}
    BY <1>14
  <2>2. out'[1] = File(a[i + 1]) /\ in'[1] = in[1]
    BY <1>14, FirstStage DEF TakesOut, Typed, TypeOK, a
  <2>3. IsFile(out'[1]) = 1 /\ out'[1].of = a[i + 1].at /\ IsFile(out[1]) = 0
    BY <1>8, <2>2 DEF IsFile, File, Tty
  <2>4. IsFile(in'[1]) = IsFile(in[1]) /\ IsFile(in[1]) \in {0, 1}
    BY <2>2 DEF IsFile
  <2>5. Amp' = Amp /\ Amp \in {0, 1}
    BY <1>2 DEF Amp
  <2>6. Len(line) = m + 2 * (IsFile(in'[1]) + IsFile(out'[1])) + Amp
    BY <1>4, <1>7, <2>3, <2>4, <2>5
  <2>7. Counted'
    BY <1>2, <2>5, <2>6 DEF Counted, b, m
  <2>8. in[1].to = "file" => in[1].of # a[i + 1].at
    BY <1>5, <1>8
  <2>9. Apart'
    BY <1>6, <2>1, <2>2, <2>3, <2>8 DEF Apart
  <2> QED
    BY <1>10, <1>11, <1>12, <2>7, <2>9 DEF LineInv
<1> QED
  BY <1>13, <1>14

\* What pipe_present leaves before the first bar is a command.
LEMMA Named ==
  ASSUME NEW S, NEW a \in Seq(S)
  PROVE  /\ PipePresent(a) = 0 => a # <<>> /\ First(a, "|") = 0
         /\ PipePresent(a) > 0 =>
              /\ SubSeq(a, 1, PipePresent(a) - 1) # <<>>
              /\ First(SubSeq(a, 1, PipePresent(a) - 1), "|") = 0
<1> DEFINE i == First(a, "|")
           b == SubSeq(a, 1, i - 1)
<1>1. /\ i \in 0..Len(a) /\ Len(a) \in Nat
      /\ i # 0 => \A j \in 1..(i - 1) : a[j].kind # "|"
  BY FirstFinds
<1> HIDE DEF i
<1>2. PipePresent(a) \in {-1, i} /\ (PipePresent(a) # -1 => a # <<>> /\ i # 1)
  BY DEF PipePresent, i
<1>3. ASSUME i > 1 PROVE b # <<>> /\ First(b, "|") = 0
  <2>1. /\ b \in Seq(S) /\ Len(b) = i - 1
        /\ \A j \in 1..(i - 1) : b[j] = a[j]
    <3>1. i - 1 \in (1 - 1)..Len(a) /\ (i - 1) - 1 + 1 = i - 1
      BY <1>1, <1>3
    <3>2. \A j \in 1..(i - 1) : 1 + j - 1 = j
      BY <1>1
    <3> QED
      BY <1>1, <3>1, <3>2, Part
  <2> HIDE DEF b
  <2>2. b # <<>>
    BY <1>1, <1>3, <2>1
  <2>3. /\ First(b, "|") \in 0..Len(b)
        /\ First(b, "|") # 0 => b[First(b, "|")].kind = "|"
    BY <2>1, FirstFinds
  <2>4. ASSUME First(b, "|") # 0 PROVE FALSE
    <3>1. First(b, "|") \in 1..(i - 1) /\ b[First(b, "|")].kind = "|"
      BY <1>1, <1>3, <2>1, <2>3, <2>4
    <3> QED
      BY <1>1, <1>3, <2>1, <3>1
  <2> QED
    BY <2>2, <2>4
<1>4. PipePresent(a) > 0 => PipePresent(a) = i /\ i > 1
  BY <1>1, <1>2
<1>5. PipePresent(a) = 0 => i = 0 /\ a # <<>>
  BY <1>1, <1>2
<1> QED
  BY <1>3, <1>4, <1>5 DEF i

LEMMA LinePipes ==
  ASSUME Typed, LineInv, UNCHANGED version, NEW k \in Stage, Pipes(k)
  PROVE  LineInv'
<1>1. version >= 7 /\ ~(version < 7) /\ version' = version
  BY DEF Pipes, Typed, Versions
<1>2. pc[k] \in {"split", "talk", "listen"} /\ pc \in [Stage -> Gone \cup Running \cup
        {"redirect_in", "redirect_out", "split", "talk", "listen", "exec"}]
  BY DEF Pipes, Split, Talk, Listen, Typed, TypeOK
<1>3. pc[1] \notin Pre \/ k = 1
  BY <1>2 DEF LineInv, Alone
<1>4. k \in Nat /\ k >= 1 /\ 1 \in Stage
  BY StageNat, FirstStage
<1> DEFINE Fork ==
             /\ PipePresent(argv[k]) > 0
             /\ argv' = [argv EXCEPT
                  ![k] = SubSeq(argv[k], 1, PipePresent(argv[k]) - 1),
                  ![k + 1] = SubSeq(argv[k], PipePresent(argv[k]) + 1, Len(argv[k]))]
             /\ pc' = [pc EXCEPT ![k] = "talk", ![k + 1] = "listen"]
           Alter(s) == pc' = [pc EXCEPT ![k] = s] /\ UNCHANGED argv
<1>5. \/ pc[k] = "split" /\ Fork
      \/ pc[k] = "split" /\ PipePresent(argv[k]) = 0 /\ Alter("exec")
      \/ pc[k] = "split" /\ Alter("failed")
      \/ pc[k] = "talk" /\ Alter("exec")
      \/ pc[k] = "listen" /\ Alter("split")
  BY DEF Pipes, Split, Talk, Listen, Fail
<1>6. pc'[1] \notin Pre \cup {"none", "listen"}
  <2>1. pc[1] \notin {"none", "listen"}
    BY DEF LineInv, Begun
  <2>2. k + 1 # 1
    BY <1>4
  <2>3. k # 1 => pc'[1] = pc[1]
    BY <1>2, <1>4, <1>5, <2>2
  <2>4. k = 1 => pc'[1] \in {"talk", "exec", "failed"}
    BY <1>2, <1>4, <1>5, <2>1, <2>2
  <2> QED
    BY <1>3, <2>1, <2>3, <2>4 DEF Pre
<1>7. Alone' /\ Begun'
  BY <1>1, <1>6 DEF Alone, Begun
<1>8. Counted' /\ Apart'
  BY <1>1, <1>6 DEF Counted, Apart, Whole, Pre
<1>9. Executed'
  <2> SUFFICES ASSUME NEW j \in Stage,
                      pc'[j] \in {"talk", "exec", "ended"} \cup Running
               PROVE  argv'[j] # <<>> /\ First(argv'[j], "|") = 0
    BY DEF Executed
  <2>1. argv \in [Stage -> Seq(Token)]
    BY DEF Typed, TypeOK
  <2>2. pc[j] \in {"talk", "exec", "ended"} \cup Running =>
          argv[j] # <<>> /\ First(argv[j], "|") = 0
    BY <1>1 DEF LineInv, Executed
  <2>3. CASE Fork
    <3>1. k # k + 1
      BY <1>4
    <3>2. j # k + 1
      BY <1>2, <2>3 DEF Running
    <3>3. CASE j = k
      <4>1. argv'[j] = SubSeq(argv[k], 1, PipePresent(argv[k]) - 1)
        BY <2>1, <2>3, <3>1, <3>3
      <4> QED
        BY <2>1, <2>3, <4>1, Named
    <3>4. CASE j # k
      BY <1>2, <2>1, <2>2, <2>3, <3>2, <3>4
    <3> QED
      BY <3>3, <3>4
  <2>4. CASE PipePresent(argv[k]) = 0 /\ Alter("exec")
    <3>1. CASE j = k
      BY <2>1, <2>4, <3>1, Named
    <3>2. CASE j # k
      BY <1>2, <2>2, <2>4, <3>2
    <3> QED
      BY <3>1, <3>2
  <2>5. CASE \/ Alter("failed") \/ Alter("split")
             \/ pc[k] = "talk" /\ Alter("exec")
    BY <1>2, <2>2, <2>5 DEF Running
  <2> QED
    BY <1>5, <2>3, <2>4, <2>5
<1> QED
  BY <1>7, <1>8, <1>9 DEF LineInv

LEMMA LineStep ==
  ASSUME Typed, LineInv, [NextEarlier]_allVars
  PROVE  LineInv'
<1>0. CASE UNCHANGED allVars
  BY <1>0 DEF allVars, vars, LineInv, Alone, Begun, Executed, Counted, Apart, Whole,
     Amp
<1> SUFFICES ASSUME NextEarlier PROVE LineInv'
  BY <1>0
<1>1. UNCHANGED version /\ (version >= 7 <=> ~(version < 7))
  BY DEF NextEarlier, Typed, Versions
<1>2. CASE RedirectsIn
  <2>1. CASE \E i \in Nat : TakesIn(i, "redirect_out")
    BY <1>1, <1>2, <2>1, LineTakes DEF RedirectsIn
  <2>2. CASE version = 4 /\ Goes(1, "exec")
    BY <1>1, <1>2, <2>2, FirstStage, LineGoes DEF RedirectsIn, Pre
  <2>3. CASE Goes(1, "redirect_out") \/ Goes(1, "failed")
    BY <1>1, <1>2, <2>3, FirstStage, LineGoes DEF RedirectsIn
  <2> QED
    BY <1>2, <2>1, <2>2, <2>3 DEF RedirectsIn
<1>3. CASE RedirectsOut
  <2>1. CASE Goes(1, "failed")
    BY <1>1, <1>3, <2>1, FirstStage, LineGoes DEF RedirectsOut
  <2>2. ASSUME NEW s \in {"exec", "split"}, s = "exec" <=> version < 7, Goes(1, s)
        PROVE  LineInv'
    BY <1>1, <1>3, <2>2, FirstStage, LineGoes DEF RedirectsOut, Pre
  <2>3. ASSUME NEW s \in {"exec", "split"}, s = "exec" <=> version < 7,
               NEW i \in Nat, TakesOut(i, s)
        PROVE  LineInv'
    BY <1>1, <1>3, <2>3, LineTakes DEF RedirectsOut
  <2> QED
    BY <1>3, <2>1, <2>2, <2>3 DEF RedirectsOut
<1>4. ASSUME NEW k \in Stage, Executes(k) PROVE LineInv'
  BY <1>1, <1>4, LineGoes DEF Executes
<1>5. ASSUME NEW k \in Stage, Works(k) PROVE LineInv'
  BY <1>1, <1>5, LineGoes DEF Works, Running
<1>6. ASSUME NEW k \in Stage, Pipes(k) PROVE LineInv'
  BY <1>1, <1>6, LinePipes
<1> QED
  BY <1>2, <1>3, <1>4, <1>5, <1>6, StepKinds DEF Typed

\* A redirection is in effect for each descriptor that refers to a file.
LEMMA CountFiles ==
  ASSUME NEW d, NEW e, d.to = "file" /\ e.to = "file" => d # e
  PROVE  Cardinality({x \in {d, e} : x.to = "file"}) = IsFile(d) + IsFile(e)
<1>1. CASE d.to # "file" /\ e.to # "file"
  <2>1. {x \in {d, e} : x.to = "file"} = {}
    BY <1>1
  <2> QED
    BY <1>1, <2>1, FS_EmptySet DEF IsFile
<1>2. CASE d.to = "file" /\ e.to # "file"
  <2>1. {x \in {d, e} : x.to = "file"} = {d}
    BY <1>2
  <2>2. IsFile(d) = 1 /\ IsFile(e) = 0
    BY <1>2 DEF IsFile
  <2>3. Cardinality({d}) = 1
    BY FS_Singleton
  <2> QED
    BY <2>1, <2>2, <2>3
<1>3. CASE d.to # "file" /\ e.to = "file"
  <2>1. {x \in {d, e} : x.to = "file"} = {e}
    BY <1>3
  <2>2. IsFile(d) = 0 /\ IsFile(e) = 1
    BY <1>3 DEF IsFile
  <2>3. Cardinality({e}) = 1
    BY FS_Singleton
  <2> QED
    BY <2>1, <2>2, <2>3
<1>4. CASE d.to = "file" /\ e.to = "file"
  <2>1. {x \in {d, e} : x.to = "file"} = {e} \cup {d} /\ d \notin {e}
    BY <1>4
  <2>2. IsFiniteSet({e}) /\ Cardinality({e}) = 1
    BY FS_Singleton
  <2> QED
    BY <1>4, <2>1, <2>2, FS_AddElement DEF IsFile
<1> QED
  BY <1>1, <1>2, <1>3, <1>4

LEMMA LineImply == Typed /\ LineInv => CommandsNamed
<1> SUFFICES ASSUME Typed, LineInv PROVE CommandsNamed
  OBVIOUS
<1>0. version >= 7 <=> ~(version < 7)
  BY DEF Typed, Versions
<1>1. version >= 7 => CommandNamed
  BY DEF LineInv, Executed, CommandNamed
<1>2. ASSUME argv[1] = <<>>, pc[1] # "failed"
      PROVE  Len(line) = 2 * Cardinality(InEffect) + Amp
  <2>1. Whole
    BY <1>0, <1>2, FirstStage DEF LineInv, Executed, Whole, Begun, Typed, TypeOK, Pre,
       Gone, Running
  <2>2. Forked = {1}
    BY <2>1, FirstStage DEF LineInv, Alone, Begun, Whole, Forked
  <2>3. Cardinality(Forked) = 1
    BY <2>2, FS_Singleton
  <2>4. Cardinality(InEffect) = IsFile(in[1]) + IsFile(out[1])
    BY <2>1, <2>3, CountFiles DEF InEffect, LineInv, Apart
  <2>5. Len(argv[1]) = 0
    BY <1>2
  <2>6. Len(line) = 0 + 2 * (IsFile(in[1]) + IsFile(out[1])) + Amp
    BY <2>1, <2>5 DEF LineInv, Counted
  <2>7. Amp \in {0, 1} /\ IsFile(in[1]) \in {0, 1} /\ IsFile(out[1]) \in {0, 1}
    BY DEF Amp, IsFile
  <2> QED
    BY <2>4, <2>6, <2>7
<1> QED
  BY <1>1, <1>2 DEF CommandsNamed, Amp

(* A vector that is executed names a command and holds no bar since sh7;   *)
(* before, an empty vector comes from a line of "&" or redirections alone  *)
(* (pipe_command.c:25, 53, sh4/run_command.c:50, sh6/run_command.c:64).    *)
THEOREM CommandsHaveNames == SpecEarlier => []CommandsNamed
  BY TypedStart, TypedStep, LineStart, LineStep, LineImply, PTL DEF SpecEarlier
-----------------------------------------------------------------------------
(* The vectors of all processes, one behind the other.                     *)

\* The tokens of the first m vectors, and those of the line that are left.
LeftOf(m) ==
  {i \in 1..Len(line) :
     \E k \in 1..m : \E j \in 1..Len(argv[k]) : argv[k][j].at = i}
Left == LeftOf(MaxLen)

\* The vectors hold tokens of the line, in its order.
FromLine ==
  /\ line \in Seq(Token) /\ Len(line) \in 1..MaxLen
  /\ \A i \in 1..Len(line) : line[i].at = i
  /\ \A k \in Stage : \A j \in 1..Len(argv[k]) :
       argv[k][j].at \in 1..Len(line) /\ line[argv[k][j].at] = argv[k][j]
InOrder ==
  /\ \A k \in Stage : \A i, j \in 1..Len(argv[k]) :
       i < j => argv[k][i].at < argv[k][j].at
  /\ \A h, k \in Stage :
       h < k => \A i \in 1..Len(argv[h]), j \in 1..Len(argv[k]) :
                  argv[h][i].at < argv[k][j].at

\* A vector that lists the tokens at some places of the line in order.
Lists(v, P) ==
  /\ v \in Seq(Token)
  /\ \A i \in 1..Len(v) : v[i].at \in P /\ v[i] = line[v[i].at]
  /\ \A p \in P : \E i \in 1..Len(v) : v[i].at = p
  /\ \A i, j \in 1..Len(v) : i < j => v[i].at < v[j].at

LEMMA JoinLists ==
  ASSUME TypeOK, FromLine, InOrder, NEW f, Joins(argv, f), Len(argv) = MaxLen,
         NEW m, m \in Stage
  PROVE  Lists(f[m], LeftOf(m))
<1>0. MaxLen \in Nat /\ m \in Nat /\ m >= 1 /\ 1..m \subseteq Stage
  BY PipelineAssumption DEF Stage
<1>1. \A k \in Stage : argv[k] \in Seq(Token) /\ Len(argv[k]) \in Nat
  BY DEF TypeOK
<1>2. \A k \in Stage : f[k] = IF k = 1 THEN argv[k] ELSE f[k - 1] \o argv[k]
  BY DEF Joins, Stage
<1> DEFINE Wrong == {k \in Stage : ~Lists(f[k], LeftOf(k))}
<1>3. CASE Wrong = {}
  BY <1>3
<1>4. ASSUME NEW k \in Wrong, \A d \in Wrong : k <= d PROVE FALSE
  <2>1. k \in Stage /\ k \in Nat /\ k >= 1
    BY StageNat
  <2>2. k # 1
    <3> SUFFICES ASSUME k = 1 PROVE Lists(argv[1], LeftOf(1))
      BY <1>2
    <3>1. LeftOf(1) = {i \in 1..Len(line) : \E j \in 1..Len(argv[1]) : argv[1][j].at = i}
      BY DEF LeftOf
    <3> QED
      BY <1>1, <2>1, <3>1 DEF Lists, FromLine, InOrder
  <2>3. k - 1 \in Stage /\ k - 1 < k
    BY <2>1, <2>2 DEF Stage
  <2>4. Lists(f[k - 1], LeftOf(k - 1))
    BY <1>4, <2>1, <2>3
  <2> DEFINE u == f[k - 1]
             v == argv[k]
             w == u \o v
  <2>5. u \in Seq(Token) /\ v \in Seq(Token) /\ Len(u) \in Nat /\ Len(v) \in Nat
    BY <1>1, <2>1, <2>4 DEF Lists
  <2>6. f[k] = w
    BY <1>2, <2>1, <2>2
  <2> HIDE DEF w
  <2>7. /\ w \in Seq(Token) /\ Len(w) = Len(u) + Len(v)
        /\ \A i \in 1..Len(w) : w[i] = IF i <= Len(u) THEN u[i] ELSE v[i - Len(u)]
    <3> HIDE DEF u, v
    <3>1. /\ u \o v \in Seq(Token) /\ Len(u \o v) = Len(u) + Len(v)
          /\ \A i \in 1..(Len(u) + Len(v)) :
               (u \o v)[i] = IF i <= Len(u) THEN u[i] ELSE v[i - Len(u)]
      BY ONLY <2>5, ConcatProperties
    <3> QED
      BY ONLY <3>1 DEF w
  <2>8. \A i \in 1..Len(u) :
          /\ u[i].at \in LeftOf(k - 1) /\ u[i] = line[u[i].at]
          /\ \A j \in 1..Len(v) : u[i].at < v[j].at
    <3> TAKE i \in 1..Len(u)
    <3>1. u[i].at \in LeftOf(k - 1) /\ u[i] = line[u[i].at]
      BY <2>4 DEF Lists
    <3>2. PICK h \in 1..(k - 1) : \E j \in 1..Len(argv[h]) : argv[h][j].at = u[i].at
      BY <3>1 DEF LeftOf
    <3>3. h \in Stage /\ h < k
      BY <2>1, <2>3 DEF Stage
    <3> QED
      BY <2>1, <3>1, <3>2, <3>3 DEF InOrder
  <2>9. \A j \in 1..Len(v) :
          v[j].at \in 1..Len(line) /\ line[v[j].at] = v[j]
    BY <2>1 DEF FromLine
  <2>10. LeftOf(k) = LeftOf(k - 1) \cup {v[j].at : j \in 1..Len(v)}
    <3>1. \A h : h \in 1..k <=> h \in 1..(k - 1) \/ h = k
      BY <2>1
    <3> QED
      BY <2>9, <3>1 DEF LeftOf
  <2> HIDE DEF u, v
  <2>11. \A i \in 1..Len(w) : i <= Len(u) \/ i - Len(u) \in 1..Len(v)
    BY <2>5, <2>7
  <2>12. \A i \in 1..Len(w) : w[i].at \in LeftOf(k) /\ w[i] = line[w[i].at]
    <3> TAKE i \in 1..Len(w)
    <3>1. CASE i <= Len(u)
      <4>1. i \in 1..Len(u) /\ w[i] = u[i]
        BY <2>5, <2>7, <3>1
      <4> QED
        BY <2>8, <2>10, <4>1
    <3>2. CASE ~(i <= Len(u))
      <4>1. i - Len(u) \in 1..Len(v) /\ w[i] = v[i - Len(u)]
        BY <2>7, <2>11, <3>2
      <4> QED
        BY <2>9, <2>10, <4>1
    <3> QED
      BY <3>1, <3>2
  <2>13. ASSUME NEW p \in LeftOf(k) PROVE \E i \in 1..Len(w) : w[i].at = p
    <3>1. CASE p \in LeftOf(k - 1)
      <4>1. PICK i \in 1..Len(u) : u[i].at = p
        BY <2>4, <3>1 DEF Lists, u
      <4>2. i \in 1..Len(w) /\ w[i] = u[i]
        BY <2>5, <2>7
      <4> QED
        BY <4>1, <4>2
    <3>2. ASSUME NEW j \in 1..Len(v), p = v[j].at
          PROVE  \E i \in 1..Len(w) : w[i].at = p
      <4>1. j + Len(u) \in 1..Len(w) /\ ~(j + Len(u) <= Len(u)) /\ (j + Len(u)) - Len(u) = j
        BY <2>5, <2>7
      <4>2. w[j + Len(u)] = v[j]
        BY <2>7, <4>1
      <4> QED
        BY <3>2, <4>1, <4>2
    <3> QED
      BY <2>10, <3>1, <3>2
  <2>14. ASSUME NEW i \in 1..Len(w), NEW j \in 1..Len(w), i < j
         PROVE  w[i].at < w[j].at
    <3>1. CASE j <= Len(u)
      <4>1. i \in 1..Len(u) /\ j \in 1..Len(u) /\ w[i] = u[i] /\ w[j] = u[j]
        BY <2>5, <2>7, <2>14, <3>1
      <4> QED
        BY <2>4, <2>14, <4>1 DEF Lists, u
    <3>2. CASE i <= Len(u) /\ ~(j <= Len(u))
      <4>1. i \in 1..Len(u) /\ w[i] = u[i]
        BY <2>5, <2>7, <3>2
      <4>2. j - Len(u) \in 1..Len(v) /\ w[j] = v[j - Len(u)]
        BY <2>5, <2>7, <3>2
      <4> QED
        BY <2>8, <4>1, <4>2
    <3>3. CASE ~(i <= Len(u)) /\ ~(j <= Len(u))
      <4>1. /\ i - Len(u) \in 1..Len(v) /\ w[i] = v[i - Len(u)]
            /\ j - Len(u) \in 1..Len(v) /\ w[j] = v[j - Len(u)]
            /\ i - Len(u) < j - Len(u)
        BY <2>5, <2>7, <2>14, <3>3
      <4> QED
        BY <2>1, <4>1 DEF InOrder, v
    <3> QED
      BY <2>5, <2>7, <2>14, <3>1, <3>2, <3>3
  <2>15. Lists(w, LeftOf(k))
    BY <2>7, <2>12, <2>13, <2>14 DEF Lists
  <2> QED
    BY <1>4, <2>6, <2>15
<1>5. CASE Wrong # {}
  <2>1. Wrong \subseteq Nat
    BY StageNat
  <2> QED
    BY <1>4, <1>5, <2>1, LeastOf
<1> QED
  BY <1>3, <1>5

\* A vector that lists some places in order is as long as there are places.
LEMMA ListLength ==
  ASSUME NEW v, NEW P, Lists(v, P), P \subseteq Nat
  PROVE  IsFiniteSet(P) /\ Cardinality(P) = Len(v)
<1> DEFINE b == [i \in 1..Len(v) |-> v[i].at]
<1>1. Len(v) \in Nat
  BY DEF Lists
<1>2. b \in [1..Len(v) -> P]
  BY DEF Lists
<1>3. b \in Injection(1..Len(v), P)
  <2>1. \A i, j \in 1..Len(v) : i # j => b[i] # b[j]
    <3>1. \A i \in 1..Len(v) : b[i] \in Nat
      BY <1>2
    <3>2. \A i, j \in 1..Len(v) : i < j => b[i] < b[j]
      BY DEF Lists
    <3> HIDE DEF b
    <3> QED
      BY <1>1, <3>1, <3>2
  <2> QED
    BY <1>2, <2>1 DEF Injection, IsInjective
<1>4. b \in Surjection(1..Len(v), P)
  BY <1>2 DEF Surjection, Lists
<1>5. ExistsBijection(1..Len(v), P)
  BY <1>3, <1>4 DEF ExistsBijection, Bijection
<1>6. IsFiniteSet(1..Len(v)) /\ Cardinality(1..Len(v)) = Len(v)
  <2>1. /\ IsFiniteSet(1..Len(v))
        /\ Cardinality(1..Len(v)) = IF 1 > Len(v) THEN 0 ELSE Len(v) - 1 + 1
    BY <1>1, FS_Interval
  <2> QED
    BY <1>1, <2>1
<1> QED
  BY <1>5, <1>6, FS_Bijection

LEMMA AllTokens ==
  ASSUME TypeOK, FromLine, InOrder
  PROVE  Lists(FlattenSeq(argv), Left) /\ Cardinality(Left) = Len(FlattenSeq(argv))
<1>1. MaxLen \in Nat \ {0} /\ argv \in [1..MaxLen -> Seq(Token)]
  BY PipelineAssumption DEF TypeOK, Stage
<1>2. Len(argv) = MaxLen
  <2>1. argv \in Seq(Seq(Token))
    BY <1>1, SeqDef
  <2> QED
    BY <1>1, <2>1, LenProperties
<1>3. PICK f : Joins(argv, f) /\ FlattenSeq(argv) = f[MaxLen]
  BY <1>1, <1>2, FlattenIs
<1>4. Lists(FlattenSeq(argv), Left)
  BY <1>1, <1>2, <1>3, JoinLists DEF Left, Stage
<1>5. Left \subseteq Nat
  BY DEF Left, LeftOf
<1> QED
  BY <1>4, <1>5, ListLength

Stages == Cardinality(Forked)

\* The processes that have been forked, the last of which has yet to fork.
Chain ==
  /\ Stages \in Stage /\ Forked = 1..Stages
  /\ \A k \in Stage : pc[k] = "none" => argv[k] = <<>>
  /\ \A k \in Stage : pc[k] = "talk" => k # Stages

\* As many tokens are gone as forks and redirections have taken.
Balanced ==
  /\ Len(line) = Cardinality(Left) + (Stages - 1)
                   + 2 * (IsFile(in[1]) + IsFile(out[Stages])) + Amp
  /\ in[1].to = "file" => in[1].of \notin Left
  /\ out[Stages].to = "file" => out[Stages].of \notin Left
  /\ in[1].to = "file" /\ out[Stages].to = "file" => in[1] # out[Stages]

\* And none for another reason.
Accounted ==
  version # 6 \/ RedirectionsLast =>
    \A i \in 1..Len(line) : i \in Left \/ Used(line[i])

\* What sh6 makes of the line, one redirection after the other.
Bare == StripBackground(line)
Once6(a, mark) == IF First(a, mark) = 0 THEN a ELSE CloseUp6(a, First(a, mark))
Done6(a, mark, d) ==
  First(a, mark) = 0 \/ (First(a, mark) \in 1..(Len(a) - 1) /\ d.to = "file")
Six ==
  version = 6 =>
    /\ pc[1] = "redirect_in" => argv[1] = Bare
    /\ pc[1] = "redirect_out" => argv[1] = Once6(Bare, "<") /\ Done6(Bare, "<", in[1])
    /\ pc[1] \in {"exec"} \cup Running =>
         /\ argv[1] = Once6(Once6(Bare, "<"), ">")
         /\ Done6(Bare, "<", in[1]) /\ Done6(Once6(Bare, "<"), ">", out[1])

Tokens == Chain /\ FromLine /\ InOrder /\ Balanced /\ Accounted
TokenInv == Tokens /\ Six

LEMMA TokenStart == InitEarlier => TokenInv
<1> SUFFICES ASSUME InitEarlier PROVE TokenInv
  OBVIOUS
<1>1. /\ line \in Seq(Token) /\ Len(line) \in 1..MaxLen /\ Len(line) \in Nat
      /\ \A i \in 1..Len(line) : line[i].at = i
  BY LineTyped DEF InitEarlier, Init
<1>2. /\ \A k \in Stage : pc[k] = IF k = 1 THEN "redirect_in" ELSE "none"
      /\ \A k \in Stage : argv[k] = IF k = 1 THEN Bare ELSE <<>>
      /\ in[1] = Tty /\ out[1] = Tty
  BY FirstStage DEF InitEarlier, Init, Bare
<1>3. /\ Bare \in Seq(Token) /\ Len(Bare) \in Nat
      /\ Len(Bare) = Len(line) - Amp /\ Amp \in {0, 1}
      /\ \A j \in 1..Len(Bare) : Bare[j] = line[j]
  BY <1>1, Stripped DEF Bare, Amp
<1>4. Forked = {1} /\ {1} = 1..1
  BY <1>2, FirstStage DEF Forked
<1>5. Stages = 1
  BY <1>4, FS_Singleton DEF Stages
<1>6. Chain
  BY <1>2, <1>4, <1>5, FirstStage DEF Chain
<1>7. \A k \in Stage : k # 1 => 1..Len(argv[k]) = {}
  BY <1>2
<1>8. FromLine
  BY <1>1, <1>2, <1>3, <1>7 DEF FromLine
<1>9. InOrder
  <2>1. \A i, j \in 1..Len(Bare) : i < j => Bare[i].at < Bare[j].at
    BY <1>1, <1>3
  <2> QED
    BY <1>2, <1>7, <2>1, StageNat DEF InOrder
<1>10. Left = 1..Len(Bare)
  <2>1. 1..MaxLen = Stage
    BY DEF Stage
  <2>2. Left = {i \in 1..Len(line) : \E j \in 1..Len(Bare) : Bare[j].at = i}
    <3>1. ASSUME NEW i \in 1..Len(line)
          PROVE  (\E k \in Stage : \E j \in 1..Len(argv[k]) : argv[k][j].at = i)
                   <=> \E j \in 1..Len(argv[1]) : argv[1][j].at = i
      BY <1>7, FirstStage
    <3>2. argv[1] = Bare
      BY <1>2, FirstStage
    <3> QED
      BY <2>1, <3>1, <3>2 DEF Left, LeftOf
  <2> QED
    BY <1>1, <1>3, <2>2
<1>11. Cardinality(Left) = Len(Bare)
  <2>1. Cardinality(1..Len(Bare)) = IF 1 > Len(Bare) THEN 0 ELSE Len(Bare) - 1 + 1
    <3>1. 1 \in Int /\ Len(Bare) \in Int
      BY <1>3
    <3> QED
      BY ONLY <3>1, FS_Interval
  <2> QED
    BY <1>3, <1>10, <2>1
<1>12. Balanced
  <2>1. IsFile(in[1]) = 0 /\ IsFile(out[Stages]) = 0 /\ in[1].to # "file" /\ out[Stages].to # "file"
    BY <1>2, <1>5 DEF IsFile, Tty
  <2> QED
    BY <1>1, <1>3, <1>5, <1>11, <2>1 DEF Balanced
<1>13. Accounted
  <2> SUFFICES ASSUME NEW i \in 1..Len(line), i \notin 1..Len(Bare)
               PROVE  Used(line[i])
    BY <1>10 DEF Accounted
  <2>1. Amp = 1 /\ i = Len(line)
    BY <1>1, <1>3
  <2> QED
    BY <2>1 DEF Used, Amp, Last
<1>14. Six
  BY <1>2, FirstStage DEF Six, Running
<1> QED
  BY <1>6, <1>8, <1>9, <1>12, <1>13, <1>14 DEF TokenInv, Tokens

\* The first process is there, and alone while it redirects.
LEMMA OnlyFirst ==
  ASSUME LineInv, Chain, pc[1] \in Pre
  PROVE  Stages = 1 /\ \A k \in Stage : k # 1 => argv[k] = <<>> /\ pc[k] = "none"
<1>1. \A k \in Stage : k # 1 => pc[k] = "none"
  BY DEF LineInv, Alone
<1>2. Forked = {1}
  BY <1>1, FirstStage DEF Forked, Pre
<1> QED
  BY <1>1, <1>2, FS_Singleton DEF Stages, Chain

\* What it takes for a token to have been used.
LEMMA UsedIs ==
  ASSUME NEW t
  PROVE  Used(t) <=>
           \/ t.kind = "|"
           \/ t.kind = "<" /\ in[1].to = "file"
           \/ t.kind = ">" /\ out[Stages].to = "file"
           \/ t.kind = "&" /\ t = Last(line)
           \/ File(t) \in {in[1], out[Stages]}
<1>1. File(t).to = "file"
  BY DEF File
<1> QED
  BY <1>1 DEF Used, InEffect, Stages

\* A step that moves no token and leaves the input of the first process and
\* the output of the last alone.
LEMMA TokensAlter ==
  ASSUME Typed, Tokens, UNCHANGED <<version, line, argv>>,
         NEW k \in Stage, NEW s, s \notin {"none", "talk"}, pc[k] # "none",
         pc' = [pc EXCEPT ![k] = s],
         in'[1] = in[1], out'[Stages] = out[Stages]
  PROVE  Tokens'
<1>0. \A j \in Stage : pc'[j] = IF j = k THEN s ELSE pc[j]
  BY DEF Typed, TypeOK
<1>1. Forked' = Forked /\ Stages' = Stages
  BY <1>0 DEF Forked, Stages
<1>2. Left' = Left
  BY DEF Left, LeftOf
<1>3. Chain'
  BY <1>0, <1>1 DEF Tokens, Chain
<1>4. FromLine' /\ InOrder'
  BY DEF Tokens, FromLine, InOrder
<1>5. Balanced'
  BY <1>1, <1>2 DEF Tokens, Balanced, Amp, IsFile
<1>6. Accounted'
  <2>1. RedirectionsLast' = RedirectionsLast
    BY DEF RedirectionsLast, AtEndOf
  <2>2. \A t : Used(t)' = Used(t)
    BY <1>1 DEF Used, InEffect, Stages
  <2> QED
    BY <1>2, <2>1, <2>2 DEF Tokens, Accounted
<1> QED
  BY <1>3, <1>4, <1>5, <1>6 DEF Tokens

\* What is left of the line after a redirection.
LEMMA LeftTakes ==
  ASSUME Typed, LineInv, Tokens, NEW i \in Nat, NEW mark, NEW s, Takes(i, mark, s),
         pc[1] \in Pre
  PROVE  /\ FromLine' /\ InOrder'
         /\ \E p \in 1..Len(argv[1]) \ {i + 1} :
              /\ version # 6 \/ i = Len(argv[1]) - 1 => p = i
              /\ argv[1][p].at \in Left /\ argv[1][i + 1].at \in Left
              /\ argv[1][p].at # argv[1][i + 1].at
              /\ Left' = Left \ {argv[1][p].at, argv[1][i + 1].at}
<1> DEFINE a == argv[1]
           b == argv'[1]
<1>1. a \in Seq(Token) /\ Len(a) \in Nat /\ i + 1 \in 1..Len(a)
  BY FirstStage DEF Typed, TypeOK, Takes
<1>2. b \in Seq(Token) /\ Len(b) = Len(a) - 2 /\ Len(b) \in Nat
  BY <1>1, TakesLeave, FirstStage DEF Typed
<1>0. PICK p \in 1..Len(a) \ {i + 1} :
      \E g \in [1..Len(b) -> 1..Len(a) \ {p, i + 1}] :
        /\ version # 6 \/ i = Len(a) - 1 => p = i
        /\ \A j, k \in 1..Len(b) : j < k => g[j] < g[k]
        /\ \A j \in 1..Len(b) : b[j] = a[g[j]]
        /\ \A q \in 1..Len(a) \ {p, i + 1} : \E j \in 1..Len(b) : g[j] = q
  BY TakesLeave DEF Typed
<1>3. PICK g \in [1..Len(b) -> 1..Len(a) \ {p, i + 1}] :
        /\ version # 6 \/ i = Len(a) - 1 => p = i
        /\ \A j, k \in 1..Len(b) : j < k => g[j] < g[k]
        /\ \A j \in 1..Len(b) : b[j] = a[g[j]]
        /\ \A q \in 1..Len(a) \ {p, i + 1} : \E j \in 1..Len(b) : g[j] = q
  BY <1>0
<1>4. /\ \A k \in Stage : k # 1 => argv[k] = <<>> /\ argv'[k] = <<>>
      /\ line' = line
  BY OnlyFirst, FirstStage DEF Tokens, Takes, Typed, TypeOK
<1>5. \A k \in Stage : k # 1 => 1..Len(argv[k]) = {} /\ 1..Len(argv'[k]) = {}
  BY <1>4
<1>6. /\ \A j \in 1..Len(a) : a[j].at \in 1..Len(line) /\ line[a[j].at] = a[j]
      /\ \A j, k \in 1..Len(a) : j < k => a[j].at < a[k].at
  BY FirstStage DEF Tokens, FromLine, InOrder
<1>7. \A j, k \in 1..Len(a) : j # k => a[j].at # a[k].at
  <2>1. \A j \in 1..Len(a) : a[j].at \in Nat
    BY <1>6
  <2> HIDE DEF a
  <2> QED
    BY <1>1, <1>6, <2>1
<1>8. Left = {a[j].at : j \in 1..Len(a)}
  <2>1. ASSUME NEW t \in 1..Len(line)
        PROVE  (\E k \in Stage : \E j \in 1..Len(argv[k]) : argv[k][j].at = t)
                 <=> \E j \in 1..Len(a) : a[j].at = t
    BY <1>5, FirstStage
  <2>2. Left = {t \in 1..Len(line) : \E j \in 1..Len(a) : a[j].at = t}
    BY <2>1 DEF Left, LeftOf, Stage
  <2>3. \A j \in 1..Len(a) : a[j].at \in 1..Len(line)
    BY <1>6
  <2> HIDE DEF a
  <2>4. \A t \in Left : \E j \in 1..Len(a) : t = a[j].at
    BY <2>2
  <2>5. \A j \in 1..Len(a) : a[j].at \in Left
    BY <2>2, <2>3
  <2> QED
    BY ONLY <2>4, <2>5
<1>9. \A j \in 1..Len(b) : b[j].at \in 1..Len(line) /\ line[b[j].at] = b[j]
  <2> HIDE DEF a, b
  <2> TAKE j \in 1..Len(b)
  <2>1. g[j] \in 1..Len(a) /\ b[j] = a[g[j]]
    BY <1>3
  <2> QED
    BY <1>6, <2>1
<1>10. Left' = {b[j].at : j \in 1..Len(b)}
  <2>1. ASSUME NEW t \in 1..Len(line)
        PROVE  (\E k \in Stage : \E j \in 1..Len(argv'[k]) : argv'[k][j].at = t)
                 <=> \E j \in 1..Len(b) : b[j].at = t
    BY <1>5, FirstStage
  <2>2. Left' = {t \in 1..Len(line) : \E j \in 1..Len(b) : b[j].at = t}
    BY <1>4, <2>1 DEF Left, LeftOf, Stage
  <2> HIDE DEF b
  <2> QED
    BY <1>9, <2>2
<1>11. FromLine'
  BY <1>4, <1>5, <1>9 DEF Tokens, FromLine
<1>12. InOrder'
  <2>1. \A j, k \in 1..Len(b) : j < k => b[j].at < b[k].at
    <3> HIDE DEF a, b
    <3> TAKE j, k \in 1..Len(b)
    <3>1. g[j] \in 1..Len(a) /\ g[k] \in 1..Len(a) /\ b[j] = a[g[j]] /\ b[k] = a[g[k]]
      BY <1>3
    <3>2. j < k => g[j] < g[k]
      BY <1>3
    <3> QED
      BY <1>6, <3>1, <3>2
  <2> QED
    <3>1. ASSUME NEW h \in Stage, NEW k \in Stage, h < k
          PROVE  1..Len(argv'[h]) = {} \/ 1..Len(argv'[k]) = {}
      BY <1>5, <3>1, StageNat
    <3>2. \A k \in Stage : \A h, j \in 1..Len(argv'[k]) :
            h < j => argv'[k][h].at < argv'[k][j].at
      BY <1>5, <2>1
    <3> QED
      BY <3>1, <3>2 DEF InOrder
<1> HIDE DEF a, b
<1>13. Left' = Left \ {a[p].at, a[i + 1].at}
  <2>1. \A j \in 1..Len(b) : b[j].at \in Left \ {a[p].at, a[i + 1].at}
    BY <1>1, <1>3, <1>7, <1>8
  <2>2. ASSUME NEW j \in 1..Len(a), a[j].at \notin {a[p].at, a[i + 1].at}
        PROVE  \E l \in 1..Len(b) : b[l].at = a[j].at
    <3>1. j \in 1..Len(a) \ {p, i + 1}
      BY <2>2
    <3>2. PICK l \in 1..Len(b) : g[l] = j
      BY <1>3, <3>1
    <3>3. b[l] = a[g[l]]
      BY <1>3
    <3> QED
      BY <3>2, <3>3
  <2>3. \A j \in 1..Len(b) : b[j].at \in Left'
    BY <1>10
  <2>4. \A t \in Left' : \E j \in 1..Len(b) : t = b[j].at
    BY <1>10
  <2>5. \A t \in Left : \E j \in 1..Len(a) : t = a[j].at
    BY <1>8
  <2>6. Left \ {a[p].at, a[i + 1].at} \subseteq Left'
    BY <2>2, <2>3, <2>5
  <2>7. Left' \subseteq Left \ {a[p].at, a[i + 1].at}
    BY <2>1, <2>4
  <2> QED
    BY <2>6, <2>7
<1> QED
  BY <1>1, <1>3, <1>7, <1>8, <1>11, <1>12, <1>13 DEF a

LEMMA TokensTakes ==
  ASSUME Typed, LineInv, Tokens, UNCHANGED version,
         NEW i \in Nat, NEW s \in {"redirect_out", "split", "exec"},
         \/ pc[1] = "redirect_in" /\ TakesIn(i, s)
         \/ pc[1] = "redirect_out" /\ TakesOut(i, s),
         version = 6 /\ RedirectionsLast => i = Len(argv[1]) - 1
  PROVE  Tokens'
<1> DEFINE a == argv[1]
           f == File(a[i + 1])
<1>1. PICK mark \in {"<", ">"} :
        /\ Takes(i, mark, s)
        /\ mark = "<" => pc[1] = "redirect_in" /\ TakesIn(i, s)
        /\ mark = ">" => pc[1] = "redirect_out" /\ TakesOut(i, s)
  BY DEF TakesIn, TakesOut
<1>2. /\ pc[1] \in Pre /\ line' = line
      /\ \A k \in Stage : pc'[k] = IF k = 1 THEN s ELSE pc[k]
      /\ \A k \in Stage : k # 1 => argv'[k] = argv[k]
  BY <1>1, FirstStage DEF Takes, Typed, TypeOK, Pre
<1>3. PICK p \in 1..Len(a) \ {i + 1} :
        /\ version # 6 \/ i = Len(a) - 1 => p = i
        /\ a[p].at \in Left /\ a[i + 1].at \in Left
        /\ a[p].at # a[i + 1].at
        /\ Left' = Left \ {a[p].at, a[i + 1].at}
  BY <1>1, <1>2, LeftTakes
<1>4. FromLine' /\ InOrder'
  BY <1>1, <1>2, LeftTakes
<1>5. Stages = 1 /\ Forked = 1..1
  BY <1>2, OnlyFirst DEF Tokens, Chain
<1>6. Forked' = Forked /\ Stages' = Stages
  BY <1>2, FirstStage DEF Forked, Stages, Pre
<1>7. Chain'
  BY <1>2, <1>6, FirstStage DEF Tokens, Chain
<1>8. IsFiniteSet(Left) /\ Cardinality(Left') = Cardinality(Left) - 2 /\ Cardinality(Left) \in Nat
  <2>1. IsFiniteSet(1..Len(line)) /\ Left \subseteq 1..Len(line)
    <3>1. 1 \in Int /\ Len(line) \in Int
      BY DEF Tokens, FromLine
    <3>2. IsFiniteSet(1..Len(line))
      BY ONLY <3>1, FS_Interval
    <3> QED
      BY <3>2 DEF Left, LeftOf
  <2>2. IsFiniteSet(Left)
    BY <2>1, FS_Subset
  <2> DEFINE x == a[p].at
             y == a[i + 1].at
  <2>3. x \in Left /\ y \in Left /\ x # y /\ Left' = (Left \ {x}) \ {y}
    BY <1>3
  <2> HIDE DEF x, y, a
  <2>4. IsFiniteSet(Left \ {x}) /\ Cardinality(Left \ {x}) = Cardinality(Left) - 1
    BY <2>2, <2>3, FS_RemoveElement
  <2>5. Cardinality((Left \ {x}) \ {y}) = Cardinality(Left \ {x}) - 1
    BY <2>3, <2>4, FS_RemoveElement
  <2>6. Cardinality(Left) \in Nat
    BY <2>2, FS_CardinalityType
  <2> QED
    BY <2>2, <2>3, <2>4, <2>5, <2>6
<1>9. /\ mark = "<" => in[1] = Tty /\ out[1] = Tty /\ in'[1] = f /\ out'[1] = out[1]
      /\ mark = ">" => out[1] = Tty /\ out'[1] = f /\ in'[1] = in[1]
  BY <1>1, FirstStage DEF LineInv, Apart, TakesIn, TakesOut, Typed, TypeOK
<1>10. f.to = "file" /\ f.of = a[i + 1].at /\ Tty.to # "file"
  BY DEF File, Tty
<1>11. Balanced'
  <2> HIDE DEF f, a
  <2>1. IsFile(in'[1]) + IsFile(out'[1]) = IsFile(in[1]) + IsFile(out[1]) + 1
    <3>1. IsFile(f) = 1 /\ IsFile(Tty) = 0 /\ IsFile(in[1]) \in {0, 1}
      BY <1>10 DEF IsFile
    <3> QED
      BY <1>9, <3>1
  <2>2. /\ Len(line) = Cardinality(Left) + (1 - 1)
                         + 2 * (IsFile(in[1]) + IsFile(out[1])) + Amp
        /\ in[1].to = "file" => in[1].of \notin Left
    BY <1>5 DEF Tokens, Balanced
  <2>3. Amp' = Amp /\ Amp \in {0, 1}
    BY <1>2 DEF Amp
  <2>4. IsFile(in[1]) \in {0, 1} /\ IsFile(out[1]) \in {0, 1}
    BY DEF IsFile
  <2>5. Len(line) = Cardinality(Left') + (1 - 1)
                      + 2 * (IsFile(in'[1]) + IsFile(out'[1])) + Amp
    BY <1>8, <2>1, <2>2, <2>3, <2>4
  <2>6. f.of \in Left /\ f.of \notin Left'
    BY <1>3, <1>10
  <2>7. Left' \subseteq Left
    BY <1>3
  <2>8. /\ in'[1].to = "file" => in'[1].of \notin Left'
        /\ out'[1].to = "file" => out'[1].of \notin Left'
        /\ in'[1].to = "file" /\ out'[1].to = "file" => in'[1] # out'[1]
    BY <1>9, <1>10, <2>2, <2>6, <2>7
  <2>9. Stages' = 1 /\ line' = line
    BY <1>2, <1>5, <1>6
  <2>10. Len(line') = Cardinality(Left') + (Stages' - 1)
                        + 2 * (IsFile(in'[1]) + IsFile(out'[Stages'])) + Amp'
    BY <2>3, <2>5, <2>9
  <2>11. /\ out'[Stages'].to = "file" => out'[Stages'].of \notin Left'
         /\ in'[1].to = "file" /\ out'[Stages'].to = "file" => in'[1] # out'[Stages']
    BY <2>8, <2>9
  <2> QED
    BY <2>8, <2>10, <2>11 DEF Balanced, IsFile
<1>12. Accounted'
  <2> SUFFICES ASSUME version # 6 \/ RedirectionsLast,
                      NEW t \in 1..Len(line), t \notin Left'
               PROVE  Used(line[t])'
    BY <1>2 DEF Accounted, RedirectionsLast, AtEndOf
  <2>1. ASSUME \/ line[t].kind = "|"
               \/ line[t].kind = "<" /\ in'[1].to = "file"
               \/ line[t].kind = ">" /\ out'[1].to = "file"
               \/ line[t].kind = "&" /\ line[t] = Last(line)
               \/ File(line[t]) \in {in'[1], out'[1]}
        PROVE  Used(line[t])'
    <3>1. File(line[t]).to = "file"
      BY DEF File
    <3>2. Cardinality(Forked)' = 1
      BY <1>5, <1>6 DEF Stages
    <3> QED
      BY <1>2, <2>1, <3>1, <3>2 DEF Used, InEffect
  <2>2. line[a[p].at] = a[p] /\ line[a[i + 1].at] = a[i + 1]
    <3>1. \A j \in 1..Len(a) : line[a[j].at] = a[j]
      BY FirstStage DEF Tokens, FromLine
    <3>2. i + 1 \in 1..Len(a)
      BY <1>1, FirstStage DEF Takes, Typed, TypeOK
    <3> QED
      BY <3>1, <3>2
  <2>3. CASE t \notin Left
    <3>1. Used(line[t])
      BY <2>3 DEF Tokens, Accounted
    <3> HIDE DEF f, a
    <3>2. \/ line[t].kind = "|"
          \/ line[t].kind = "<" /\ in[1].to = "file"
          \/ line[t].kind = ">" /\ out[1].to = "file"
          \/ line[t].kind = "&" /\ line[t] = Last(line)
          \/ File(line[t]) \in {in[1], out[1]}
      BY <1>5, <3>1, UsedIs
    <3>3. File(line[t]).to = "file"
      BY DEF File
    <3>4. in[1].to = "file" => in'[1] = in[1]
      BY <1>1, <1>9, <1>10
    <3>5. out[1].to # "file"
      BY <1>1, <1>9, <1>10
    <3> QED
      BY <2>1, <3>2, <3>3, <3>4, <3>5
  <2>4. CASE t = a[i + 1].at
    <3>1. File(line[t]) = f
      BY <2>2, <2>4
    <3>2. f \in {in'[1], out'[1]}
      BY <1>1, <1>9
    <3> HIDE DEF f
    <3> QED
      BY <2>1, <3>1, <3>2
  <2>5. CASE t = a[p].at
    <3>1. p = i /\ a[i].kind = mark
      <4>1. a \in Seq(Token) /\ i = First(a, mark) /\ i # 0
        BY <1>1, FirstStage DEF Takes, Typed, TypeOK
      <4>2. a[i].kind = mark
        BY <4>1, FirstFinds
      <4> QED
        BY <1>3, <4>2
    <3>2. mark = "<" => in'[1].to = "file"
      BY <1>9, <1>10
    <3>3. mark = ">" => out'[1].to = "file"
      BY <1>9, <1>10
    <3>4. line[t].kind = mark
      BY <2>2, <2>5, <3>1
    <3> HIDE DEF f, a
    <3> QED
      BY <2>1, <3>2, <3>3, <3>4
  <2> QED
    BY <1>3, <2>3, <2>4, <2>5
<1> QED
  BY <1>4, <1>7, <1>11, <1>12 DEF Tokens

\* The bar that pipe_present finds stands between two other tokens.
LEMMA BarFound ==
  ASSUME NEW S, NEW a \in Seq(S), PipePresent(a) > 0
  PROVE  PipePresent(a) \in 2..(Len(a) - 1) /\ a[PipePresent(a)].kind = "|"
<1> DEFINE i == First(a, "|")
<1>1. i \in 0..Len(a) /\ (i # 0 => a[i].kind = "|") /\ Len(a) \in Nat
  BY FirstFinds
<1>2. PipePresent(a) = IF a = <<>> \/ i = 1 \/ (i # 0 /\ i = Len(a)) THEN -1 ELSE i
  BY DEF PipePresent
<1> HIDE DEF i
<1> QED
  BY <1>1, <1>2

\* The last process splits its vector at i and gives the rest to the next one.
Splits(k, i) ==
  /\ i \in 2..(Len(argv[k]) - 1)
  /\ argv' = [argv EXCEPT ![k] = SubSeq(argv[k], 1, i - 1),
                          ![k + 1] = SubSeq(argv[k], i + 1, Len(argv[k]))]
  /\ UNCHANGED line

LEMMA LeftSplits ==
  ASSUME Typed, FromLine, InOrder, NEW k \in Stage, k + 1 \in Stage,
         NEW i, Splits(k, i), \A l \in Stage : l > k => argv[l] = <<>>
  PROVE  /\ FromLine' /\ InOrder'
         /\ argv[k][1].at \in Left /\ argv[k][i].at \in Left
         /\ argv[k][1].at # argv[k][i].at
         /\ Left' = Left \ {argv[k][i].at}
<1> DEFINE a == argv[k]
           b == argv'[k]
           c == argv'[k + 1]
<1>0. k \in Nat /\ k >= 1 /\ k # k + 1 /\ \A l \in Stage : l \in Nat /\ l >= 1
  BY StageNat
<1>1. a \in Seq(Token) /\ Len(a) \in Nat /\ i \in 2..(Len(a) - 1)
  BY DEF Splits, Typed, TypeOK
<1>2. b = SubSeq(a, 1, i - 1) /\ c = SubSeq(a, i + 1, Len(a))
  BY <1>0 DEF Splits, Typed, TypeOK
<1>3. /\ \A l \in Stage : l # k /\ l # k + 1 => argv'[l] = argv[l]
      /\ line' = line
  BY DEF Splits, Typed, TypeOK
<1>4. /\ \A j \in 1..Len(a) : a[j].at \in 1..Len(line) /\ line[a[j].at] = a[j]
      /\ \A h, j \in 1..Len(a) : h < j => a[h].at < a[j].at
  BY DEF FromLine, InOrder
<1>5. \A l \in Stage : l < k =>
        \A h \in 1..Len(argv[l]), j \in 1..Len(a) : argv[l][h].at < a[j].at
  BY DEF InOrder
<1>6. \A l \in Stage : l > k => 1..Len(argv[l]) = {}
  <2>1. ASSUME NEW l \in Stage, l > k PROVE 1..Len(argv[l]) = {}
    <3>1. argv[l] = <<>>
      BY <2>1
    <3> QED
      BY <3>1
  <2> QED
    BY <2>1
<1> HIDE DEF a, b, c
<1>7. Len(b) = i - 1 /\ \A j \in 1..(i - 1) : b[j] = a[j]
  <2>1. i - 1 \in (1 - 1)..Len(a) /\ (i - 1) - 1 + 1 = i - 1 /\ 1 \in 1..(Len(a) + 1)
    BY <1>1
  <2>2. \A j \in 1..(i - 1) : 1 + j - 1 = j
    BY <1>1
  <2> QED
    BY <1>1, <1>2, <2>1, <2>2, Part
<1>8. Len(c) = Len(a) - i /\ \A j \in 1..(Len(a) - i) : c[j] = a[i + j]
  <2> DEFINE m == i + 1
  <2>1. m \in 1..(Len(a) + 1) /\ Len(a) \in (m - 1)..Len(a) /\ Len(a) - m + 1 = Len(a) - i
    BY <1>1
  <2>2. \A j \in 1..(Len(a) - i) : m + j - 1 = i + j
    BY <1>1
  <2>3. c = SubSeq(a, m, Len(a))
    BY <1>2
  <2> HIDE DEF m
  <2>4. Len(c) = Len(a) - m + 1 /\ \A j \in 1..(Len(a) - m + 1) : c[j] = a[m + j - 1]
    BY <1>1, <2>1, <2>3, Part
  <2> QED
    BY <2>1, <2>2, <2>4
<1>9. /\ \A j \in 1..Len(b) : j \in 1..Len(a) /\ j < i /\ b[j] = a[j]
      /\ \A j \in 1..Len(c) : i + j \in 1..Len(a) /\ c[j] = a[i + j]
      /\ \A j \in 1..Len(a) : j < i => j \in 1..Len(b)
      /\ \A j \in 1..Len(a) : j > i => j - i \in 1..Len(c) /\ i + (j - i) = j
  BY <1>1, <1>7, <1>8
<1>10. 1 \in 1..Len(a) /\ i \in 1..Len(a) /\ i # 1
  BY <1>1
<1>11. \A j \in 1..Len(a) : j # i => a[j].at # a[i].at
  <2>1. \A j \in 1..Len(a) : a[j].at \in Nat
    BY <1>4
  <2> QED
    BY <1>1, <1>4, <1>10, <2>1
<1>12. argv[k] = a /\ argv'[k] = b /\ argv'[k + 1] = c
  BY DEF a, b, c
<1>13. FromLine'
  <2>1. ASSUME NEW l \in Stage, NEW j \in 1..Len(argv'[l])
        PROVE  argv'[l][j].at \in 1..Len(line) /\ line[argv'[l][j].at] = argv'[l][j]
    <3>1. CASE l = k
      BY <1>4, <1>9, <1>12, <3>1
    <3>2. CASE l = k + 1
      BY <1>4, <1>9, <1>12, <3>2
    <3>3. CASE l # k /\ l # k + 1
      BY <1>3, <3>3 DEF FromLine
    <3> QED
      BY <3>1, <3>2, <3>3
  <2> QED
    BY <1>3, <2>1 DEF FromLine
<1>14. ASSUME NEW l \in Stage, NEW h \in 1..Len(argv'[l]), NEW j \in 1..Len(argv'[l]), h < j
       PROVE  argv'[l][h].at < argv'[l][j].at
  <2>1. CASE l = k
    BY <1>4, <1>9, <1>12, <1>14, <2>1
  <2>2. CASE l = k + 1
    <3>1. h \in 1..Len(c) /\ j \in 1..Len(c)
      BY <1>12, <2>2
    <3>2. /\ i + h \in 1..Len(a) /\ c[h] = a[i + h]
          /\ i + j \in 1..Len(a) /\ c[j] = a[i + j]
      BY <1>9, <3>1
    <3>3. i + h < i + j
      BY <1>1, <1>14
    <3> QED
      BY <1>4, <1>12, <2>2, <3>2, <3>3
  <2>3. CASE l # k /\ l # k + 1
    BY <1>3, <1>14, <2>3 DEF InOrder
  <2> QED
    BY <2>1, <2>2, <2>3
<1>15. ASSUME NEW l \in Stage, NEW m \in Stage, l < m,
              NEW h \in 1..Len(argv'[l]), NEW j \in 1..Len(argv'[m])
       PROVE  argv'[l][h].at < argv'[m][j].at
  <2>1. CASE m > k + 1
    <3>1. argv'[m] = argv[m] /\ m > k
      BY <1>0, <1>3, <2>1
    <3> QED
      BY <1>6, <3>1
  <2>2. CASE m = k + 1 /\ l = k
    <3>1. /\ h \in 1..Len(a) /\ h < i /\ b[h] = a[h]
          /\ i + j \in 1..Len(a) /\ c[j] = a[i + j] /\ j \in Nat
      BY <1>9, <1>12, <2>2
    <3>2. h < i + j
      BY <1>1, <3>1
    <3> QED
      BY <1>4, <1>12, <2>2, <3>1, <3>2
  <2>3. CASE m = k + 1 /\ l < k
    <3>1. argv'[l] = argv[l]
      BY <1>0, <1>3, <2>3
    <3>2. i + j \in 1..Len(a) /\ c[j] = a[i + j]
      BY <1>9, <1>12, <2>3
    <3> QED
      BY <1>5, <1>12, <2>3, <3>1, <3>2
  <2>4. CASE m = k
    <3>1. argv'[l] = argv[l] /\ l < k
      BY <1>0, <1>3, <1>15, <2>4
    <3>2. j \in 1..Len(a) /\ b[j] = a[j]
      BY <1>9, <1>12, <2>4
    <3> QED
      BY <1>5, <1>12, <2>4, <3>1, <3>2
  <2>5. CASE m < k
    <3>1. argv'[l] = argv[l] /\ argv'[m] = argv[m]
      BY <1>0, <1>3, <1>15, <2>5
    <3> QED
      BY <1>15, <3>1 DEF InOrder
  <2> QED
    BY <1>0, <1>15, <2>1, <2>2, <2>3, <2>4, <2>5
<1>16. InOrder'
  BY <1>14, <1>15 DEF InOrder
<1>17. \A j \in 1..Len(a) : a[j].at \in Left
  BY <1>4, <1>12 DEF Left, LeftOf, Stage
<1>18. ASSUME NEW t \in Left' PROVE t \in Left \ {a[i].at}
  <2>1. PICK l \in Stage : \E j \in 1..Len(argv'[l]) : argv'[l][j].at = t
    BY DEF Left, LeftOf, Stage
  <2>2. PICK j \in 1..Len(argv'[l]) : argv'[l][j].at = t
    BY <2>1
  <2>3. CASE l = k
    <3>1. j \in 1..Len(a) /\ j < i /\ b[j] = a[j]
      BY <1>9, <1>12, <2>3
    <3>2. j # i
      BY <1>1, <3>1
    <3> QED
      BY <1>11, <1>12, <1>17, <2>2, <2>3, <3>1, <3>2
  <2>4. CASE l = k + 1
    <3>1. i + j \in 1..Len(a) /\ c[j] = a[i + j] /\ j \in Nat /\ j >= 1
      BY <1>9, <1>12, <2>4
    <3>2. i + j # i
      BY <1>1, <3>1
    <3> QED
      BY <1>11, <1>12, <1>17, <2>2, <2>4, <3>1, <3>2
  <2>5. CASE l # k /\ l # k + 1
    <3>1. argv'[l] = argv[l]
      BY <1>3, <2>5
    <3>2. l < k
      BY <1>0, <1>6, <2>5, <3>1
    <3>3. t \in 1..Len(line) /\ argv[l][j].at = t
      BY <1>3, <2>2, <3>1 DEF Left, LeftOf
    <3>4. t \in Left
      BY <3>1, <3>3 DEF Left, LeftOf, Stage
    <3>5. t < a[i].at
      BY <1>5, <1>10, <3>1, <3>2, <3>3
    <3>6. t \in Nat /\ a[i].at \in Nat
      BY <1>4, <1>10, <3>3
    <3> QED
      BY <3>4, <3>5, <3>6
  <2> QED
    BY <2>3, <2>4, <2>5
<1>19. ASSUME NEW t \in Left, t # a[i].at PROVE t \in Left'
  <2>1. PICK l \in Stage : \E j \in 1..Len(argv[l]) : argv[l][j].at = t
    BY DEF Left, LeftOf, Stage
  <2>2. PICK j \in 1..Len(argv[l]) : argv[l][j].at = t
    BY <2>1
  <2>3. \E m \in Stage : \E h \in 1..Len(argv'[m]) : argv'[m][h].at = t
    <3>1. CASE l = k
      <4>1. j \in 1..Len(a) /\ a[j].at = t /\ j # i
        BY <1>12, <1>19, <2>2, <3>1
      <4>2. CASE j < i
        BY <1>9, <1>12, <4>1, <4>2
      <4>3. CASE j > i
        <5>1. j - i \in 1..Len(c) /\ c[j - i] = a[j]
          BY <1>9, <4>1, <4>3
        <5> QED
          BY <1>12, <4>1, <5>1
      <4> QED
        BY <1>1, <4>1, <4>2, <4>3
    <3>2. CASE l # k
      <4>1. l < k
        BY <1>0, <1>6, <3>2
      <4>2. argv'[l] = argv[l]
        BY <1>0, <1>3, <4>1
      <4> QED
        BY <2>2, <4>2
    <3> QED
      BY <3>1, <3>2
  <2>4. t \in 1..Len(line)
    BY DEF Left, LeftOf
  <2> QED
    BY <1>3, <2>3, <2>4 DEF Left, LeftOf, Stage
<1> QED
  BY <1>10, <1>11, <1>12, <1>13, <1>16, <1>17, <1>18, <1>19

\* A fork: one token goes, the bar, and there is room for one process more.
LEMMA TokensFork ==
  ASSUME Typed, EndsInv, Begun, Tokens, UNCHANGED version,
         NEW k \in Stage, pc[k] = "split",
         NEW i, Splits(k, i), argv[k][i].kind = "|",
         pc' = [pc EXCEPT ![k] = "talk", ![k + 1] = "listen"],
         in' = [in EXCEPT ![k + 1] = in[k]],
         out' = [out EXCEPT ![k + 1] = out[k]]
  PROVE  Tokens'
<1>0. k \in Nat /\ k >= 1 /\ k # k + 1 /\ MaxLen \in Nat
  BY StageNat, PipelineAssumption
<1>1. k = Stages
  <2>1. k \in 1..Stages /\ Stages \in Stage /\ pc[Stages] # "none" /\ Stages \in Nat
    <3>1. k \in Forked /\ Forked = 1..Stages /\ Stages \in Stage
      BY DEF Forked, Tokens, Chain
    <3>2. Stages \in Nat /\ Stages >= 1
      BY <3>1, StageNat
    <3>3. Stages \in Forked
      BY <3>1, <3>2
    <3> QED
      BY <3>1, <3>2, <3>3 DEF Forked
  <2>2. ~(Stages > k)
    BY <2>1 DEF EndsInv, LastEarly, Early
  <2> QED
    BY <1>0, <2>1, <2>2
<1>2. \A l \in Stage : l > k => pc[l] = "none" /\ argv[l] = <<>>
  BY DEF EndsInv, LastEarly, Early, Tokens, Chain
<1>3. IsFiniteSet(Left) /\ Cardinality(Left) \in Nat
  <2>1. 1 \in Int /\ Len(line) \in Int
    BY DEF Tokens, FromLine
  <2>2. IsFiniteSet(1..Len(line))
    BY ONLY <2>1, FS_Interval
  <2>3. Left \subseteq 1..Len(line)
    BY DEF Left, LeftOf
  <2> QED
    BY <2>2, <2>3, FS_Subset, FS_CardinalityType
<1>4. /\ Len(line) = Cardinality(Left) + (k - 1)
                       + 2 * (IsFile(in[1]) + IsFile(out[k])) + Amp
      /\ in[1].to = "file" => in[1].of \notin Left
      /\ out[k].to = "file" => out[k].of \notin Left
      /\ in[1].to = "file" /\ out[k].to = "file" => in[1] # out[k]
  BY <1>1 DEF Tokens, Balanced
<1>5. /\ Amp \in {0, 1} /\ IsFile(in[1]) \in {0, 1} /\ IsFile(out[k]) \in {0, 1}
      /\ Len(line) \in 1..MaxLen
  BY DEF Amp, IsFile, Tokens, FromLine
<1>6. k + 1 \in Stage
  <2>1. Cardinality(Left) >= 2
    <3>1. \E x, y \in Left : x # y
      <4>1. /\ argv[k] \in Seq(Token) /\ i \in 2..(Len(argv[k]) - 1)
        BY DEF Splits, Typed, TypeOK
      <4>2. 1 \in 1..Len(argv[k]) /\ i \in 1..Len(argv[k]) /\ 1 < i
        BY <4>1
      <4>3. /\ argv[k][1].at \in 1..Len(line) /\ argv[k][i].at \in 1..Len(line)
            /\ argv[k][1].at < argv[k][i].at
        BY <4>2 DEF Tokens, FromLine, InOrder
      <4>4. argv[k][1].at \in Left /\ argv[k][i].at \in Left
        BY <4>2, <4>3 DEF Left, LeftOf, Stage
      <4> QED
        BY <4>3, <4>4
    <3>2. PICK x \in Left, y \in Left : x # y
      BY <3>1
    <3>3. IsFiniteSet(Left \ {x}) /\ Cardinality(Left \ {x}) = Cardinality(Left) - 1
      BY <1>3, FS_RemoveElement
    <3>4. /\ IsFiniteSet((Left \ {x}) \ {y})
          /\ Cardinality((Left \ {x}) \ {y}) = Cardinality(Left \ {x}) - 1
      BY <3>2, <3>3, FS_RemoveElement
    <3>5. Cardinality((Left \ {x}) \ {y}) \in Nat
      BY <3>4, FS_CardinalityType
    <3> QED
      BY <1>3, <3>3, <3>4, <3>5
  <2> QED
    BY <1>0, <1>3, <1>4, <1>5, <2>1 DEF Stage
<1>7. /\ \A l \in Stage : pc'[l] = IF l = k THEN "talk" ELSE
                                   IF l = k + 1 THEN "listen" ELSE pc[l]
      /\ in'[1] = in[1] /\ out'[k + 1] = out[k]
      /\ line' = line /\ \A l \in Stage : l # k /\ l # k + 1 => argv'[l] = argv[l]
  BY <1>0, <1>6, FirstStage DEF Splits, Typed, TypeOK
<1>8. /\ FromLine' /\ InOrder'
      /\ argv[k][i].at \in Left /\ Left' = Left \ {argv[k][i].at}
  BY <1>2, <1>6, LeftSplits DEF Tokens
<1>9. Forked = 1..k
  BY <1>1 DEF Tokens, Chain
<1>10. Forked' = 1..(k + 1)
  <2>0. pc'[k] = "talk" /\ pc'[k + 1] = "listen"
    BY <1>0, <1>6, <1>7
  <2>1. Forked' = {l \in Stage : pc'[l] # "none"}
    BY DEF Forked
  <2>2. \A l \in Stage : pc'[l] # "none" <=> l \in 1..k \/ l = k + 1
    <3>1. \A l \in Stage : pc[l] # "none" <=> l \in 1..k
      BY <1>9 DEF Forked
    <3>2. k \in 1..k
      BY <1>0
    <3> TAKE l \in Stage
    <3>3. CASE l = k
      BY <2>0, <3>2, <3>3
    <3>4. CASE l = k + 1
      BY <2>0, <3>4
    <3>5. CASE l # k /\ l # k + 1
      BY <1>7, <3>1, <3>5
    <3> QED
      BY <3>3, <3>4, <3>5
  <2>3. 1..(k + 1) \subseteq Stage /\ \A l : l \in 1..(k + 1) <=> l \in 1..k \/ l = k + 1
    BY <1>0, <1>6 DEF Stage
  <2> QED
    BY <2>1, <2>2, <2>3
<1>11. Stages' = k + 1
  <2>1. Cardinality(1..(k + 1)) = IF 1 > k + 1 THEN 0 ELSE (k + 1) - 1 + 1
    BY <1>0, FS_Interval
  <2> QED
    BY <1>0, <1>10, <2>1 DEF Stages
<1>12. Chain'
  <2>1. ASSUME NEW l \in Stage, pc'[l] = "none" PROVE argv'[l] = <<>>
    BY <1>7, <2>1 DEF Tokens, Chain
  <2>2. ASSUME NEW l \in Stage, pc'[l] = "talk" PROVE l # k + 1
    BY <1>7, <1>0, <2>2
  <2> QED
    BY <1>6, <1>10, <1>11, <2>1, <2>2 DEF Chain
<1>13. Cardinality(Left') = Cardinality(Left) - 1
  BY <1>3, <1>8, FS_RemoveElement
<1>14. Balanced'
  <2>1. IsFile(in[1])' = IsFile(in[1]) /\ IsFile(out[Stages])' = IsFile(out[k]) /\ Amp' = Amp
    BY <1>7, <1>11 DEF IsFile, Amp
  <2>2. Len(line) = Cardinality(Left') + ((k + 1) - 1)
                      + 2 * (IsFile(in[1]) + IsFile(out[k])) + Amp
    BY <1>0, <1>3, <1>4, <1>5, <1>13
  <2>3. Left' \subseteq Left
    BY <1>8
  <2> QED
    BY <1>4, <1>7, <1>11, <2>1, <2>2, <2>3 DEF Balanced
<1>15. Accounted'
  <2> SUFFICES ASSUME version # 6 \/ RedirectionsLast,
                      NEW t \in 1..Len(line), t \notin Left'
               PROVE  Used(line[t])'
    BY <1>7 DEF Accounted, RedirectionsLast, AtEndOf
  <2>1. Used(line[t]) \/ line[t].kind = "|"
    <3>1. CASE t \notin Left
      BY <3>1 DEF Tokens, Accounted
    <3>2. CASE t = argv[k][i].at
      <4>1. i \in 1..Len(argv[k])
        BY DEF Splits, Typed, TypeOK
      <4> QED
        BY <3>2, <4>1 DEF Tokens, FromLine
    <3> QED
      BY <1>8, <3>1, <3>2
  <2>2. InEffect' = InEffect /\ (in[1] \in InEffect <=> in'[1] \in InEffect')
        /\ (out[Stages] \in InEffect <=> out'[Stages'] \in InEffect')
    BY <1>1, <1>7, <1>11 DEF InEffect, Stages
  <2> QED
    BY <1>7, <2>1, <2>2 DEF Used, Stages
<1> QED
  BY <1>8, <1>12, <1>14, <1>15 DEF Tokens

LEMMA TokensPipes ==
  ASSUME Typed, EndsInv, LineInv, Tokens, UNCHANGED version, NEW k \in Stage, Pipes(k)
  PROVE  Tokens'
<1>0. 1 \in Stage /\ k \in Nat /\ k >= 1
  BY FirstStage, StageNat
<1>1. CASE \E s \in {"exec", "failed"} :
             pc[k] = "split" /\ pc' = [pc EXCEPT ![k] = s] /\ UNCHANGED <<line, argv, fds>>
  BY <1>1, TokensAlter DEF fds
<1>2. CASE Talk(k)
  <2>1. k # Stages /\ pc[k] = "talk"
    BY <1>2 DEF Talk, Tokens, Chain
  <2>2. out'[Stages] = out[Stages]
    BY <1>2, <2>1 DEF Talk, Typed, TypeOK
  <2> QED
    BY <1>2, <2>1, <2>2, TokensAlter DEF Talk
<1>3. CASE Listen(k)
  <2>1. k # 1 /\ pc[k] = "listen"
    BY <1>3 DEF Listen, LineInv, Begun
  <2>2. in'[1] = in[1]
    BY <1>0, <1>3, <2>1 DEF Listen, Typed, TypeOK
  <2> QED
    BY <1>3, <2>1, <2>2, TokensAlter DEF Listen
<1>4. CASE /\ pc[k] = "split" /\ PipePresent(argv[k]) > 0
           /\ argv' = [argv EXCEPT
                ![k] = SubSeq(argv[k], 1, PipePresent(argv[k]) - 1),
                ![k + 1] = SubSeq(argv[k], PipePresent(argv[k]) + 1, Len(argv[k]))]
           /\ pc' = [pc EXCEPT ![k] = "talk", ![k + 1] = "listen"]
           /\ in' = [in EXCEPT ![k + 1] = in[k]]
           /\ out' = [out EXCEPT ![k + 1] = out[k]]
           /\ UNCHANGED line
  <2> DEFINE i == PipePresent(argv[k])
  <2>1. argv[k] \in Seq(Token)
    BY DEF Typed, TypeOK
  <2>2. i \in 2..(Len(argv[k]) - 1) /\ argv[k][i].kind = "|"
    BY <1>4, <2>1, BarFound
  <2>3. Splits(k, i)
    BY <1>4, <2>2 DEF Splits
  <2> HIDE DEF i
  <2> QED
    BY <1>4, <2>2, <2>3, TokensFork DEF LineInv
<1> QED
  BY <1>1, <1>2, <1>3, <1>4 DEF Pipes, Split, Fail

\* The line without its "&".
LEMMA BareIs ==
  ASSUME FromLine
  PROVE  /\ Bare \in Seq(Token) /\ Len(Bare) \in Nat /\ Len(Bare) <= Len(line)
         /\ \A j \in 1..Len(Bare) : Bare[j] = line[j]
<1>1. line \in Seq(Token) /\ Len(line) >= 1 /\ Len(line) \in Nat
  BY DEF FromLine
<1> QED
  BY <1>1, Stripped DEF Bare

\* A redirection that stands last is taken out as it should be.
LEMMA ClosedLast ==
  ASSUME NEW S, NEW a \in Seq(S), Len(a) - 1 \in 1..Len(a)
  PROVE  CloseUp6(a, Len(a) - 1) = SubSeq(a, 1, Len(a) - 2)
<1> DEFINE b == CloseUp6(a, Len(a) - 1)
           c == SubSeq(a, 1, Len(a) - 2)
<1>1. Len(a) \in Nat /\ Len(a) >= 2
  OBVIOUS
<1>2. /\ b \in Seq(S) /\ Len(b) = Len(a) - 2
      /\ \A j \in 1..(Len(a) - 2) : b[j] = a[j]
  <2>1. Len(a) - 1 \in 1..(Len(a) - 1) /\ \A j \in 1..(Len(a) - 2) : j <= Len(a) - 1
    BY <1>1
  <2> QED
    BY <2>1, Closed6
<1>3. /\ c \in Seq(S) /\ Len(c) = Len(a) - 2
      /\ \A j \in 1..(Len(a) - 2) : c[j] = a[j]
  <2>1. /\ Len(a) - 2 \in (1 - 1)..Len(a) /\ (Len(a) - 2) - 1 + 1 = Len(a) - 2
        /\ 1 \in 1..(Len(a) + 1) /\ \A j \in 1..(Len(a) - 2) : 1 + j - 1 = j
    BY <1>1
  <2> QED
    BY <2>1, Part
<1> HIDE DEF b, c
<1>4. Len(b) = Len(c) /\ \A j \in 1..Len(b) : b[j] = c[j]
  BY <1>2, <1>3
<1>5. b = c
  BY <1>2, <1>3, <1>4, SeqEqual
<1> QED
  BY <1>5 DEF b, c

\* What RedirectionsLast says in terms of what sh6 does.
LEMMA LastIs ==
  ASSUME FromLine
  PROVE  RedirectionsLast <=>
           /\ First(Bare, "<") \in {0, Len(Bare) - 1}
           /\ First(Once6(Bare, "<"), ">") \in {0, Len(Once6(Bare, "<")) - 1}
<1>1. Bare \in Seq(Token) /\ Len(Bare) \in Nat
  BY BareIs
<1>2. First(Bare, "<") \in 0..Len(Bare)
  BY <1>1, FirstFinds
<1>3. CASE First(Bare, "<") = 0
  BY <1>3 DEF RedirectionsLast, AtEndOf, Once6, Bare
<1>4. CASE First(Bare, "<") # 0 /\ First(Bare, "<") = Len(Bare) - 1
  <2>1. CloseUp6(Bare, Len(Bare) - 1) = SubSeq(Bare, 1, Len(Bare) - 2)
    BY <1>1, <1>2, <1>4, ClosedLast
  <2> QED
    BY <1>4, <2>1 DEF RedirectionsLast, AtEndOf, Once6, Bare
<1>5. CASE First(Bare, "<") \notin {0, Len(Bare) - 1}
  BY <1>5 DEF RedirectionsLast, AtEndOf, Bare
<1> QED
  BY <1>3, <1>4, <1>5

LEMMA SixStep ==
  ASSUME Typed, LineInv, TokenInv, NextEarlier
  PROVE  Six'
<1> SUFFICES ASSUME version = 6 PROVE Six'
  BY DEF Six, NextEarlier
<1>1. /\ version' = 6 /\ version < 7 /\ version # 4 /\ ~(version >= 7)
      /\ \A k \in Stage : k # 1 => pc[k] = "none"
  BY DEF NextEarlier, LineInv, Alone
<1>2. /\ pc[1] = "redirect_in" => argv[1] = Bare
      /\ pc[1] = "redirect_out" => argv[1] = Once6(Bare, "<") /\ Done6(Bare, "<", in[1])
      /\ pc[1] \in {"exec"} \cup Running =>
           /\ argv[1] = Once6(Once6(Bare, "<"), ">")
           /\ Done6(Bare, "<", in[1]) /\ Done6(Once6(Bare, "<"), ">", out[1])
  BY DEF TokenInv, Six
<1>3. ASSUME line' = line PROVE Bare' = Bare
  BY <1>3 DEF Bare
<1>4. \A a, mark, d : /\ Once6(a, mark)' = Once6(a, mark)
                      /\ Done6(a, mark, d)' = Done6(a, mark, d)
  OBVIOUS
<1>5. ASSUME RedirectsIn PROVE Six'
  <2>1. CASE Goes(1, "failed")
    BY <2>1, FirstStage DEF Goes, Six, Typed, TypeOK, Running
  <2>2. CASE First(argv[1], "<") = 0 /\ Goes(1, "redirect_out")
    <3>1. /\ pc'[1] = "redirect_out" /\ argv' = argv /\ Bare' = Bare /\ argv[1] = Bare
      BY <1>2, <1>3, <1>5, <2>2, FirstStage DEF Goes, RedirectsIn, Typed, TypeOK
    <3>2. Once6(Bare, "<") = Bare /\ Done6(Bare, "<", in'[1])
      BY <2>2, <3>1 DEF Once6, Done6
    <3> QED
      BY <3>1, <3>2 DEF Six, Running, Once6, Done6
  <2>3. ASSUME NEW i \in Nat, TakesIn(i, "redirect_out") PROVE Six'
    <3>1. /\ pc'[1] = "redirect_out" /\ Bare' = Bare /\ argv[1] = Bare
          /\ i = First(Bare, "<") /\ i \in 1..(Len(Bare) - 1)
          /\ argv'[1] = CloseUp6(Bare, i) /\ in'[1].to = "file"
      BY <1>1, <1>2, <1>3, <1>5, <2>3, FirstStage
         DEF TakesIn, Takes, Closing, File, RedirectsIn, Typed, TypeOK
    <3> QED
      BY <3>1 DEF Six, Running, Once6, Done6
  <2> QED
    BY <1>1, <1>5, <2>1, <2>2, <2>3 DEF RedirectsIn
<1>6. ASSUME RedirectsOut PROVE Six'
  <2>1. CASE Goes(1, "failed")
    BY <2>1, FirstStage DEF Goes, Six, Typed, TypeOK, Running
  <2> DEFINE b == Once6(Bare, "<")
  <2>0. argv[1] = b /\ Done6(Bare, "<", in[1])
    BY <1>2, <1>6 DEF RedirectsOut
  <2>2. CASE First(argv[1], ">") = 0 /\ Goes(1, "exec")
    <3>1. /\ pc'[1] = "exec" /\ argv' = argv /\ Bare' = Bare /\ in' = in
      BY <1>3, <2>2, FirstStage DEF Goes, fds, Typed, TypeOK
    <3> HIDE DEF b
    <3>2. Once6(b, ">") = b /\ Done6(b, ">", out'[1])
      BY <2>0, <2>2 DEF Once6, Done6
    <3> QED
      BY <2>0, <3>1, <3>2 DEF Six, Running, Once6, Done6, b
  <2>3. ASSUME NEW i \in Nat, TakesOut(i, "exec") PROVE Six'
    <3> HIDE DEF b
    <3>1. /\ pc'[1] = "exec" /\ Bare' = Bare /\ in' = in
          /\ i = First(b, ">") /\ i \in 1..(Len(b) - 1)
          /\ argv'[1] = CloseUp6(b, i) /\ out'[1].to = "file"
      BY <1>1, <1>3, <2>0, <2>3, FirstStage
         DEF TakesOut, Takes, Closing, File, Typed, TypeOK
    <3>2. argv'[1] = Once6(b, ">") /\ Done6(b, ">", out'[1])
      BY <3>1 DEF Once6, Done6
    <3> QED
      BY <2>0, <3>1, <3>2 DEF Six, Running, Once6, Done6, b
  <2> QED
    BY <1>1, <1>6, <2>1, <2>2, <2>3 DEF RedirectsOut
<1>7. ASSUME NEW k \in Stage, Executes(k) \/ Works(k) PROVE Six'
  <2>1. k = 1
    BY <1>1, <1>7 DEF Executes, Works, Running
  <2>2. PICK s \in {"failed", "ended"} \cup Running : Goes(1, s)
    BY <1>7, <2>1 DEF Executes, Works, Running
  <2>3. pc[1] \in {"exec"} \cup Running
    BY <1>7, <2>1 DEF Executes, Works
  <2>4. pc'[1] = s /\ Bare' = Bare /\ argv' = argv /\ in' = in /\ out' = out
    BY <1>3, <2>2, FirstStage DEF Goes, fds, Typed, TypeOK
  <2> QED
    BY <1>2, <2>3, <2>4 DEF Six, Running, Once6, Done6
<1>8. \A k \in Stage : ~Pipes(k)
  BY <1>1 DEF Pipes
<1> QED
  BY <1>5, <1>6, <1>7, <1>8, StepKinds DEF Typed

LEMMA TokenStep ==
  ASSUME Typed, EndsInv, LineInv, TokenInv, [NextEarlier]_allVars
  PROVE  TokenInv'
<1>0. CASE UNCHANGED allVars
  <2>1. Forked' = Forked /\ Left' = Left /\ RedirectionsLast' = RedirectionsLast
    BY <1>0 DEF allVars, vars, Forked, Left, LeftOf, RedirectionsLast, AtEndOf
  <2>2. \A t : Used(t)' = Used(t)
    BY <1>0, <2>1 DEF allVars, vars, fds, Used, InEffect
  <2>3. Chain' /\ FromLine' /\ InOrder' /\ Balanced'
    BY <1>0, <2>1 DEF allVars, vars, fds, TokenInv, Tokens, Chain, FromLine, InOrder,
       Balanced, Stages, Amp, IsFile
  <2>4. Accounted'
    BY <1>0, <2>1, <2>2 DEF allVars, vars, TokenInv, Tokens, Accounted
  <2>5. Six'
    BY <1>0 DEF allVars, vars, fds, TokenInv, Six, Bare, Once6, Done6
  <2> QED
    BY <2>3, <2>4, <2>5 DEF TokenInv, Tokens
<1> SUFFICES ASSUME NextEarlier PROVE Tokens'
  BY <1>0, SixStep DEF TokenInv
<1>1. UNCHANGED version /\ Tokens /\ (version >= 7 <=> ~(version < 7))
  BY DEF NextEarlier, TokenInv, Typed, Versions
<1>2. ASSUME NEW k \in Stage, NEW s \in Step \ {"none", "talk"}, pc[k] # "none", Goes(k, s)
      PROVE  Tokens'
  BY <1>1, <1>2, TokensAlter DEF Goes, fds
<1>3. CASE RedirectsIn
  <2>1. pc[1] = "redirect_in"
    BY <1>3 DEF RedirectsIn
  <2>2. ASSUME NEW i \in Nat, TakesIn(i, "redirect_out") PROVE Tokens'
    <3>1. version = 6 /\ RedirectionsLast => i = Len(argv[1]) - 1
      BY <2>1, <2>2, LastIs DEF TokenInv, Six, Tokens, TakesIn, Takes
    <3> QED
      BY <1>1, <2>1, <2>2, <3>1, TokensTakes
  <2> QED
    BY <1>2, <1>3, <2>1, <2>2, FirstStage DEF RedirectsIn, Step, Early, Gone
<1>4. CASE RedirectsOut
  <2>1. pc[1] = "redirect_out"
    BY <1>4 DEF RedirectsOut
  <2>2. ASSUME NEW i \in Nat, NEW s \in {"exec", "split"}, TakesOut(i, s) PROVE Tokens'
    <3>1. version = 6 /\ RedirectionsLast => i = Len(argv[1]) - 1
      BY <2>1, <2>2, LastIs DEF TokenInv, Six, Tokens, TakesOut, Takes
    <3> QED
      BY <1>1, <2>1, <2>2, <3>1, TokensTakes
  <2> QED
    BY <1>2, <1>4, <2>1, <2>2, FirstStage DEF RedirectsOut, Step, Early, Gone
<1>5. ASSUME NEW k \in Stage, Executes(k) \/ Works(k) PROVE Tokens'
  BY <1>2, <1>5 DEF Executes, Works, Running, Step, Gone
<1>6. ASSUME NEW k \in Stage, Pipes(k) PROVE Tokens'
  BY <1>1, <1>6, TokensPipes
<1> QED
  BY <1>3, <1>4, <1>5, <1>6, StepKinds DEF Typed

LEMMA TokensImply == Typed /\ LineInv /\ TokenInv => TokensKept
<1> SUFFICES ASSUME Typed, LineInv, TokenInv PROVE TokensKept
  OBVIOUS
<1>1. FromLine /\ InOrder /\ Balanced /\ Accounted /\ Chain /\ TypeOK
  BY DEF TokenInv, Tokens, Typed
<1> DEFINE all == FlattenSeq(argv)
<1>2. Lists(all, Left) /\ Cardinality(Left) = Len(all)
  BY <1>1, AllTokens
<1> HIDE DEF all
<1>3. ASSUME version # 6 \/ RedirectionsLast PROVE NoTokenLost
  <2>1. DOMAIN all = 1..Len(all) /\ DOMAIN line = 1..Len(line)
    BY <1>1, <1>2 DEF Lists, FromLine
  <2>2. \A i, j \in DOMAIN all : i < j => all[i].at < all[j].at
    BY <1>2, <2>1 DEF Lists
  <2>3. ASSUME NEW i \in DOMAIN line PROVE Used(line[i]) \/ Contains(all, line[i])
    <3>1. i \in Left \/ Used(line[i])
      BY <1>1, <1>3, <2>1 DEF Accounted
    <3>2. CASE i \in Left
      BY <1>2, <3>2 DEF Lists, Contains
    <3> QED
      BY <3>1, <3>2
  <2>4. Cardinality(InEffect) = IsFile(in[1]) + IsFile(out[Stages])
    BY <1>1, CountFiles DEF InEffect, Stages, Balanced
  <2>5. Len(line) = Len(all) + (Cardinality(Forked) - 1)
                      + 2 * Cardinality(InEffect)
                      + IF Last(line).kind = "&" THEN 1 ELSE 0
    BY <1>1, <1>2, <2>4 DEF Balanced, Stages, Amp
  <2> QED
    BY <2>2, <2>3, <2>5 DEF NoTokenLost, all
<1> QED
  BY <1>3 DEF TokensKept

(* No token is lost between the line and the commands, for lines of any    *)
(* length: one is missing only for a bar, a redirection that is in effect  *)
(* or the "&" (redirect_in.c:44, redirect_out.c:45, pipe_command.c:34); in *)
(* sh6 that is said of lines whose redirections stand last.                *)
THEOREM NoTokensLost == SpecEarlier => []TokensKept
<1>1. InitEarlier => Typed /\ EndsInv /\ LineInv /\ TokenInv
  BY TypedStart, EndsInit, LineStart, TokenStart DEF InitEarlier
<1>2. Typed /\ EndsInv /\ LineInv /\ TokenInv /\ [NextEarlier]_allVars
        => (Typed /\ EndsInv /\ LineInv /\ TokenInv)'
  BY TypedStep, EndsStep, LineStep, TokenStep
<1>3. Typed /\ EndsInv /\ LineInv /\ TokenInv => TokensKept
  BY TokensImply
<1> QED
  BY <1>1, <1>2, <1>3, PTL DEF SpecEarlier
=============================================================================
