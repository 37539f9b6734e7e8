----------------------------- MODULE LocalLookup -----------------------------
(***************************************************************************)
(* The dictionaries without a server, call after call: lookup_proj/        *)
(* lookup1.c reads the file of records from its head, lookup2.c searches a *)
(* sorted index of it and reads the record found, and lookup5.c (which     *)
(* most servers use too) searches the mapped file itself, taking it to be  *)
(* in order.  What a program keeps from one call to the next (the stream   *)
(* and its position, the index) is static in its lookup.                   *)
(*                                                                         *)
(* qsort and bsearch are the C library's: any of the results that they may *)
(* have.  The file does not change while a program has it open.            *)
(***************************************************************************)
EXTENDS Integers, FiniteSets

CONSTANTS
  MaxWord,    \* words are 1..MaxWord, in the order of strcmp
  MaxRecords, \* records of a file
  MaxCalls    \* words a user types before end of input

VARIABLES
  file,       \* file[r]: the word of record r; its text is r
  prog,       \* which lookup is linked to main
  first_time, \* whether lookup has yet to open the file
  pos,        \* the stream's position: the records before it
  numrec,     \* records counted at the first call
  count,      \* lookup2: the i of its reading loop
  table,      \* lookup2: the index
  calls,      \* calls of lookup so far
  typed,      \* history: the word that the user typed
  sought,     \* main's record, which lookup fills in
  step        \* the next statement of lookup, or the value it returned

vars == <<file, prog, first_time, pos, numrec, count, table, calls, typed, sought,
          step>>

Record == DOMAIN file
Rec(r) == [word |-> file[r], text |-> r]

\* main is at its prompt.
Returned == {"begin", "found", "notfound"}

Init ==
  /\ file \in UNION {[1..n -> 1..MaxWord] : n \in 0..MaxRecords}
  /\ prog \in {"lookup1", "lookup2", "lookup5"}
  /\ first_time = TRUE
  /\ pos = 0 /\ numrec = 0 /\ count = 0 /\ table = <<>>
  /\ calls = 0 /\ typed = 0
  /\ sought = [word |-> 0, text |-> 0]
  /\ step = "begin"

\* main: a word is typed and lookup called with it.
Call(w) ==
  /\ step \in Returned
  /\ calls < MaxCalls
  /\ calls' = calls + 1
  /\ typed' = w
  /\ sought' = [sought EXCEPT !.word = w]
  /\ step' = IF first_time THEN "open" ELSE "search"
  /\ UNCHANGED <<file, prog, first_time, pos, numrec, count, table>>

\* The file cannot be opened: lookup is UNAVAIL and main DIEs.
Unavailable ==
  /\ step = "open"
  /\ step' = "died"
  /\ first_time' = FALSE
  /\ UNCHANGED <<file, prog, pos, numrec, count, table, calls, typed, sought>>
-----------------------------------------------------------------------------
(* lookup1.                                                                *)

Fopen ==
  /\ prog = "lookup1" /\ step = "open"
  /\ first_time' = FALSE
  /\ step' = "search"
  /\ UNCHANGED <<file, prog, pos, numrec, count, table, calls, typed, sought>>

\* Mutant: a later call reads on from where the last one stopped.
RewindNot ==
  /\ prog = "lookup1" /\ step = "search"
  /\ step' = "read"
  /\ UNCHANGED <<file, prog, first_time, pos, numrec, count, table, calls, typed,
                 sought>>

Rewind ==
  /\ prog = "lookup1" /\ step = "search"
  /\ pos' = 0
  /\ step' = "read"
  /\ UNCHANGED <<file, prog, first_time, numrec, count, table, calls, typed, sought>>

\* fread of one record, and strcmp; or the end of the file.
ReadOne ==
  /\ prog = "lookup1" /\ step = "read"
  /\ \/ /\ pos + 1 \in Record
        /\ pos' = pos + 1
        /\ IF file[pos + 1] = sought.word
           THEN /\ sought' = [sought EXCEPT !.text = pos + 1]
                /\ step' = "found"
           ELSE UNCHANGED <<sought, step>>
     \/ /\ pos + 1 \notin Record
        /\ step' = "notfound"
        /\ UNCHANGED <<pos, sought>>
  /\ UNCHANGED <<file, prog, first_time, numrec, count, table, calls, typed>>
-----------------------------------------------------------------------------
(* lookup2.                                                                *)

\* Mutant: the position stays at the end, where the records were counted.
SetUpAtEnd ==
  /\ prog = "lookup2" /\ step = "open"
  /\ first_time' = FALSE
  /\ numrec' = Cardinality(Record)
  /\ pos' = numrec'
  /\ count' = 0
  /\ table' = [k \in 1..numrec' |-> [word |-> 0, off |-> 0]]
  /\ step' = "fill"
  /\ UNCHANGED <<file, prog, calls, typed, sought>>

\* fseek to the end, ftell, fseek to the head; calloc.
SetUp ==
  /\ prog = "lookup2" /\ step = "open"
  /\ first_time' = FALSE
  /\ numrec' = Cardinality(Record)
  /\ pos' = 0
  /\ count' = 0
  /\ table' = [k \in 1..numrec' |-> [word |-> 0, off |-> 0]]
  /\ step' = "fill"
  /\ UNCHANGED <<file, prog, calls, typed, sought>>

\* fread of one record into the next entry; or the end of the file.
Fill ==
  /\ prog = "lookup2" /\ step = "fill"
  /\ \/ /\ pos + 1 \in Record
        /\ pos' = pos + 1
        /\ table' = [table EXCEPT ![count + 1] =
                       [word |-> file[pos + 1], off |-> count]]
        /\ count' = count + 1
        /\ UNCHANGED step
     \/ /\ pos + 1 \notin Record
        /\ step' = "sort"
        /\ UNCHANGED <<pos, table, count>>
  /\ UNCHANGED <<file, prog, first_time, numrec, calls, typed, sought>>

InOrder(word) == \A j, k \in DOMAIN word : j < k => word[j] <= word[k]
WordOf(t) == [k \in DOMAIN t |-> t[k].word]

\* qsort leaves entries with equal words in any order.
Sort ==
  /\ prog = "lookup2" /\ step = "sort"
  /\ \E f \in [1..numrec -> 1..numrec] :
       /\ \A j \in 1..numrec : \E k \in 1..numrec : f[k] = j
       /\ table' = [k \in 1..numrec |-> table[f[k]]]
  /\ InOrder(WordOf(table'))
  /\ step' = "search"
  /\ UNCHANGED <<file, prog, first_time, pos, numrec, count, calls, typed, sought>>

\* What bsearch may return: any entry with the word; 0 (no entry) only if
\* there is none, or the entries are not in order.
Bsearch(word) ==
  LET hit == {k \in DOMAIN word : word[k] = sought.word}
  IN IF hit # {} /\ InOrder(word) THEN hit ELSE hit \cup {0}

\* bsearch in the index, and fseek to the record found.
IndexSearch ==
  /\ prog = "lookup2" /\ step = "search"
  /\ \E k \in Bsearch(WordOf(table)) :
       IF k = 0
       THEN step' = "notfound" /\ UNCHANGED pos
       ELSE step' = "fetch" /\ pos' = table[k].off
  /\ UNCHANGED <<file, prog, first_time, numrec, count, table, calls, typed, sought>>

\* fread of the whole record, whose result is not looked at: beyond the end
\* of the file nothing is read.
Fetch ==
  /\ prog = "lookup2" /\ step = "fetch"
  /\ IF pos + 1 \in Record
     THEN sought' = Rec(pos + 1) /\ pos' = pos + 1
     ELSE UNCHANGED <<sought, pos>>
  /\ step' = "found"
  /\ UNCHANGED <<file, prog, first_time, numrec, count, table, calls, typed>>
-----------------------------------------------------------------------------
(* lookup5.                                                                *)

\* lseek to the end, and mmap.
Map ==
  /\ prog = "lookup5" /\ step = "open"
  /\ first_time' = FALSE
  /\ numrec' = Cardinality(Record)
  /\ step' = "search"
  /\ UNCHANGED <<file, prog, pos, count, table, calls, typed, sought>>

\* bsearch in the file.
MapSearch ==
  /\ prog = "lookup5" /\ step = "search"
  /\ \E k \in Bsearch([r \in 1..numrec |-> file[r]]) :
       IF k = 0
       THEN step' = "notfound" /\ UNCHANGED sought
       ELSE step' = "found" /\ sought' = [sought EXCEPT !.text = k]
  /\ UNCHANGED <<file, prog, first_time, pos, numrec, count, table, calls, typed>>
-----------------------------------------------------------------------------
Lookup ==
  \/ Unavailable
  \/ Fopen \/ Rewind \/ ReadOne
  \/ SetUp \/ Fill \/ Sort \/ IndexSearch \/ Fetch
  \/ Map \/ MapSearch

Next == Lookup \/ \E w \in 1..MaxWord : Call(w)
-----------------------------------------------------------------------------
Match == {r \in Record : file[r] = typed}

\* What main prints as found is a record of the word typed, with its text,
\* at the first call and at later ones, wherever the last call left the
\* stream; lookup1's is the first such record.  "Not Found!" (main.c:37) is
\* printed only if there is none, or by lookup5 of a file that is not in
\* order.
RecordsFound ==
  /\ step = "found" =>
       /\ \E r \in Match : sought = Rec(r)
       /\ prog = "lookup1" => \A r \in Match : sought.text <= r
  /\ step = "notfound" /\ Match # {} =>
       prog = "lookup5" /\ ~InOrder(file)
=============================================================================
