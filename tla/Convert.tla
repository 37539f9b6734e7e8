------------------------------- MODULE Convert -------------------------------
(***************************************************************************)
(* lookup_proj/convert.c: a file of words, each followed by the lines of   *)
(* its definition and a blank line, becomes a file of records of fixed     *)
(* length.  A definition is kept up to TEXT - 1 characters, its lines      *)
(* joined, and the rest of it is skipped.                                  *)
(*                                                                         *)
(* A file is a sequence of characters: NL, or a letter that is the number  *)
(* of its line, so that text can be told apart by where it comes from.     *)
(***************************************************************************)
EXTENDS Integers, SequencesExt

CONSTANTS
  Text,     \* size of the text of a record (TEXT)
  MaxLines, \* lines of a file
  MaxLen    \* letters of a line, fewer than BIGLINE - 1

NL == 0

VARIABLES
  lines,  \* lines[i]: the length of line i of the file (never changes)
  in,     \* what is left of the file
  out,    \* the records written
  step,   \* the next step of main
  word,   \* dr.word
  text,   \* dr.text, up to its final NUL
  off,    \* where the next line goes in dr.text
  newoff, \* the length of dr.text
  eof,
  line    \* the length of what the last fgets of the skipping loop left in line

vars == <<lines, in, out, step, word, text, off, newoff, eof, line>>

LineText(i) == [k \in 1..lines[i] |-> i]
File(n) == FlattenSeq([i \in 1..n |-> Append(LineText(i), NL)])

\* What fgets takes with a buffer of n bytes, <<>> at the end of the file.
Fgets(n) ==
  LET nl == SelectInSeq(in, LAMBDA ch : ch = NL)
      all == IF nl = 0 THEN Len(in) ELSE nl
  IN SubSeq(in, 1, IF all < n - 1 THEN all ELSE n - 1)
Rest(n) == SubSeq(in, Len(Fgets(n)) + 1, Len(in))
Whole == Len(in) + 2 \* a buffer for any line

\* What fgets took, with a NUL in place of the newline at its end.
BeforeNewline(s) == IF Last(s) = NL THEN Front(s) ELSE s

Init ==
  /\ lines \in UNION {[1..n -> 0..MaxLen] : n \in 0..MaxLines}
  /\ in = File(Len(lines))
  /\ out = <<>>
  /\ step = "word"
  /\ word = <<>> /\ text = <<>>
  /\ off = 0 /\ newoff = 0 /\ eof = FALSE
  /\ line \in {0, 2} \* uninitialised: short or not

\* The head of the main loop: a blank record, and fgets of the word.
ReadWord ==
  /\ step = "word"
  /\ IF eof \/ Fgets(Whole) = <<>>
     THEN step' = "done" /\ UNCHANGED <<in, word, text, off, newoff>>
     ELSE /\ word' = BeforeNewline(Fgets(Whole))
          /\ in' = Rest(Whole)
          /\ text' = <<>> /\ off' = 0 /\ newoff' = 0
          /\ step' = "append"
  /\ UNCHANGED <<lines, out, eof, line>>

\* Mutant: lines are appended after the newline of the one before.
AppendAfterNewline ==
  /\ step = "append"
  /\ LET got == Fgets(Text - off)
         all == SubSeq(text, 1, off) \o got
     IN /\ eof' = (got = <<>>)
        /\ in' = Rest(Text - off)
        /\ text' = IF got = <<>> THEN text ELSE all
        /\ newoff' = Len(text')
        /\ IF eof' \/ newoff' - off < 2 \/ Last(text') # NL
           THEN step' = "skip" /\ UNCHANGED off
           ELSE off' = newoff' /\ UNCHANGED step
  /\ UNCHANGED <<lines, out, word, line>>

\* A line of the definition, over the newline of the one before.  It is the
\* last one at the end of the file, when blank, or when it does not fit.
AppendLine ==
  /\ step = "append"
  /\ LET got == Fgets(Text - off)
         all == SubSeq(text, 1, off) \o got
     IN /\ eof' = (got = <<>>)
        /\ in' = Rest(Text - off)
        /\ text' = IF got = <<>> THEN text ELSE all
        /\ newoff' = Len(text')
        /\ IF eof' \/ newoff' - off < 2 \/ Last(text') # NL
           THEN step' = "skip" /\ UNCHANGED off
           ELSE off' = newoff' - 1 /\ UNCHANGED step
  /\ UNCHANGED <<lines, out, word, line>>

BlankLine == newoff - off < 2

\* A definition that ended by itself.
NoSkip ==
  /\ step = "skip" /\ (eof \/ BlankLine)
  /\ step' = "write"
  /\ UNCHANGED <<lines, in, out, word, text, off, newoff, eof, line>>

\* The loop that skips the rest of a definition, up to a line with less than
\* two characters; at the end of the file, line keeps what it held.
Skip ==
  /\ step = "skip" => ~eof /\ ~BlankLine
  /\ step \in {"skip", "skip on"}
  /\ eof' = (Fgets(Whole) = <<>>)
  /\ in' = Rest(Whole)
  /\ line' = IF Fgets(Whole) = <<>> THEN line ELSE Len(Fgets(Whole))
  /\ step' = IF line' >= 2 THEN "skip on" ELSE "write"
  /\ UNCHANGED <<lines, out, word, text, off, newoff>>

\* fwrite of the record.
WriteRecord ==
  /\ step = "write"
  /\ out' = Append(out, [word |-> word, text |-> text])
  /\ step' = "word"
  /\ UNCHANGED <<lines, in, word, text, off, newoff, eof, line>>

Next ==
  ReadWord \/ AppendLine \/ NoSkip \/ Skip \/ WriteRecord

Spec == Init /\ [][Next]_vars
-----------------------------------------------------------------------------
(* What the head of convert.c says of the form of the files.               *)

Heads == {i \in DOMAIN lines : i = 1 \/ lines[i - 1] = 0}
EndOf(i) ==
  CHOOSE j \in i..Len(lines) : lines[j] = 0 /\ \A k \in i..(j - 1) : lines[k] # 0

\* Words with their definitions, each followed by one blank line.
WellFormed ==
  /\ lines # <<>> => lines[Len(lines)] = 0
  /\ \A i \in Heads : lines[i] # 0

\* The definition of the word at line i, its lines joined.
Definition(i) ==
  Append(FlattenSeq([k \in 1..(EndOf(i) - i - 1) |-> LineText(i + k)]), NL)

Record(i) ==
  [word |-> LineText(i),
   text |-> SubSeq(Definition(i), 1,
                   IF Len(Definition(i)) < Text THEN Len(Definition(i)) ELSE Text - 1)]

Records == [n \in 1..Cardinality(Heads) |->
  Record(CHOOSE i \in Heads : Cardinality({j \in Heads : j <= i}) = n)]

\* A definition that is too long has a line that ends where text is full, or
\* one letter before.
Prefix(i, k) == Len(Definition(i)) -
  Len(FlattenSeq([n \in 1..(EndOf(i) - 1 - k) |-> LineText(k + n)])) - 1
Awkward(i) ==
  /\ Len(Definition(i)) > Text - 1
  /\ \E k \in (i + 1)..(EndOf(i) - 1) : Prefix(i, k) \in {Text - 2, Text - 1}

(* Each word and the definition that follows it become a record, and the   *)
(* rest of a definition that is too long is flushed (convert.c:69).        *)
DefinitionFlushed == step = "done" /\ WellFormed => out = Records

\* So it is when no line of a long definition ends where the text is full.
RecordsKept ==
  step = "done" /\ WellFormed /\ (\A i \in Heads : ~Awkward(i)) => out = Records

\* The conversion of a file that ends with a blank line comes to its end.
Ends == step = "done" \/ (lines # <<>> /\ lines[Len(lines)] # 0)
=============================================================================
