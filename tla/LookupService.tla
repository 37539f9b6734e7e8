--------------------------- MODULE LookupService ---------------------------
(***************************************************************************)
(* What lookup_proj promises to a user (lookup_proj/READ_ME): a client     *)
(* asks for a word and is handed the definition of that word.  The module  *)
(* says nothing of how client and server talk; ShmLookup, MsgqLookup and   *)
(* StreamLookup are shown to implement it, the last as a service that may  *)
(* fail.                                                                   *)
(***************************************************************************)
CONSTANTS
  Client,    \* the client processes
  Word,      \* the words a user may type
  Answer(_), \* the reply the dictionary holds for a word
  MayFail    \* whether a call may end without a reply (UNAVAIL)

VARIABLE call  \* call[c]: where client c's call of lookup stands

Idle == [state |-> "idle"]
Asked(w) == [state |-> "asked", word |-> w]
Answered(w) == [state |-> "answered", word |-> w, text |-> Answer(w)]

Init == call = [c \in Client |-> Idle]

\* main reads a word and calls lookup.
Ask(c, w) ==
  /\ call[c] = Idle
  /\ call' = [call EXCEPT ![c] = Asked(w)]

\* The service settles the reply to c's word.
Serve(c) ==
  /\ call[c].state = "asked"
  /\ call' = [call EXCEPT ![c] = Answered(@.word)]

\* The client takes its reply.
Collect(c) ==
  /\ call[c].state = "answered"
  /\ call' = [call EXCEPT ![c] = Idle]

\* Calls come to nothing, several at once when it is their server that ends.
Fail(failed) ==
  /\ MayFail
  /\ \A c \in failed : call[c].state = "asked"
  /\ call' = [c \in Client |-> IF c \in failed THEN Idle ELSE call[c]]

Next ==
  \/ \E c \in Client :
       \/ \E w \in Word : Ask(c, w)
       \/ Serve(c)
       \/ Collect(c)
  \/ \E failed \in SUBSET Client : Fail(failed)

Spec == Init /\ [][Next]_call

\* A call that was made is served or fails, and a reply is taken.
Fairness == \A c \in Client : WF_call(Serve(c)) /\ WF_call(Collect(c))

FairSpec == Spec /\ Fairness
=============================================================================
