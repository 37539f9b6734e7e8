------------------------------ MODULE PollServer ------------------------------
(***************************************************************************)
(* mod12-sockets/pollProg.c waits with poll for datagrams at two sockets   *)
(* and reads one from each that is ready; pokeit.c sends them from the     *)
(* handler of a timer that goes off every second, to the first socket at   *)
(* every other signal and to the second at every third.                    *)
(***************************************************************************)
EXTENDS Integers

CONSTANTS
  MaxTicks, \* times the timer goes off
  Room      \* datagrams a socket holds; the kernel drops what comes then

Socket == {1, 2}

VARIABLES
  ticks,   \* times the timer has gone off
  alarm,   \* SIGALRM is pending: one bit
  hpc,     \* the next step of pokeit: its sigsuspend, or its handler's
  counter, \* the handler's static counter
  q,       \* q[i]: the datagrams at socket i
  spc,     \* the next step of pollProg
  revents, \* revents[i]: what poll has returned for socket i
  size,    \* returnAddrSize, which nobody sets: negative or not
  shown,   \* shown[i]: the datagrams displayed
  lost     \* lost[i]: those that were dropped, or read and not displayed

pokeit == <<ticks, alarm, hpc, counter>>
pollProg == <<spc, revents, size, shown>>
vars == <<ticks, alarm, hpc, counter, q, spc, revents, size, shown, lost>>

Init ==
  /\ ticks = 0 /\ alarm = FALSE /\ hpc = "suspend" /\ counter = 0
  /\ q = [i \in Socket |-> 0]
  /\ spc = "poll" /\ revents = [i \in Socket |-> FALSE]
  /\ size \in {"negative", "other"}
  /\ shown = [i \in Socket |-> 0] /\ lost = [i \in Socket |-> 0]

\* The interval timer goes off.
Tick ==
  /\ ticks < MaxTicks
  /\ ticks' = ticks + 1
  /\ alarm' = TRUE
  /\ UNCHANGED <<hpc, counter, q, pollProg, lost>>

\* sigsuspend is interrupted; the handler keeps SIGALRM out while it runs.
Interrupt ==
  /\ hpc = "suspend" /\ alarm
  /\ alarm' = FALSE
  /\ hpc' = "hello"
  /\ UNCHANGED <<ticks, counter, q, pollProg, lost>>

\* sendto socket i, dropped there when it is full.
SendTo(i) ==
  IF q[i] < Room
  THEN q' = [q EXCEPT ![i] = @ + 1] /\ UNCHANGED lost
  ELSE lost' = [lost EXCEPT ![i] = @ + 1] /\ UNCHANGED q

Hello ==
  /\ hpc = "hello"
  /\ IF counter % 2 = 0 THEN SendTo(1) ELSE UNCHANGED <<q, lost>>
  /\ hpc' = "goodbye"
  /\ UNCHANGED <<ticks, alarm, counter, pollProg>>

Goodbye ==
  /\ hpc = "goodbye"
  /\ IF counter % 3 = 0 THEN SendTo(2) ELSE UNCHANGED <<q, lost>>
  /\ counter' = counter + 1
  /\ hpc' = "suspend"
  /\ UNCHANGED <<ticks, alarm, pollProg>>
-----------------------------------------------------------------------------
\* poll blocks until some socket is ready, and says which are.
Poll ==
  /\ spc = "poll"
  /\ \E i \in Socket : q[i] > 0
  /\ revents' = [i \in Socket |-> q[i] > 0]
  /\ spc' = "first"
  /\ UNCHANGED <<pokeit, q, size, shown, lost>>

\* recvfrom takes a datagram; with a negative address size it fails after
\* that, otherwise it sets the size.
RecvFrom(i) ==
  /\ q[i] > 0
  /\ q' = [q EXCEPT ![i] = @ - 1]
  /\ IF size = "negative"
     THEN lost' = [lost EXCEPT ![i] = @ + 1] /\ UNCHANGED shown
     ELSE shown' = [shown EXCEPT ![i] = @ + 1] /\ UNCHANGED lost

\* Mutant: the second socket is read whenever the first was ready.
SecondAlways ==
  /\ spc = "second"
  /\ RecvFrom(2)
  /\ spc' = "poll"
  /\ UNCHANGED <<pokeit, revents, size>>

First ==
  /\ spc = "first"
  /\ IF revents[1] THEN RecvFrom(1) ELSE UNCHANGED <<q, shown, lost>>
  /\ spc' = "second"
  /\ UNCHANGED <<pokeit, revents, size>>

Second ==
  /\ spc = "second"
  /\ IF revents[2] THEN RecvFrom(2) ELSE UNCHANGED <<q, shown, lost>>
  /\ spc' = "poll"
  /\ UNCHANGED <<pokeit, revents, size>>
-----------------------------------------------------------------------------
Step == Interrupt \/ Hello \/ Goodbye \/ Poll \/ First \/ Second

Next == Tick \/ Step
-----------------------------------------------------------------------------
TypeOK ==
  /\ ticks \in 0..MaxTicks /\ alarm \in BOOLEAN
  /\ hpc \in {"suspend", "hello", "goodbye"} /\ counter \in 0..ticks
  /\ q \in [Socket -> 0..Room]
  /\ spc \in {"poll", "first", "second"} /\ revents \in [Socket -> BOOLEAN]
  /\ size \in {"negative", "other"}
  /\ shown \in [Socket -> 0..MaxTicks] /\ lost \in [Socket -> 0..MaxTicks]

\* All that pokeit sent has been taken and, unless the address size was
\* negative or a socket full, displayed.
AllTaken == q = [i \in Socket |-> 0] /\ hpc = "suspend" /\ ~alarm /\ spc = "poll"
SentTo(i) ==
  IF i = 1 THEN (counter + 1) \div 2 ELSE (counter + 2) \div 3
AllShown ==
  AllTaken => \A i \in Socket :
    /\ shown[i] + lost[i] = SentTo(i)
    /\ size = "other" /\ SentTo(i) <= Room => lost[i] = 0
=============================================================================
