-------------------------- MODULE MsgqLookup_proofs --------------------------
(***************************************************************************)
(* The message-queue dictionary for any number of clients, words, calls,   *)
(* kills and stops, and a queue of any size: each client has one message   *)
(* under way and is told the answer to its own word, unless its pid was    *)
(* left by a process that died waiting.                                    *)
(***************************************************************************)
EXTENDS MsgqLookup, Library_proofs, SequenceTheorems

\* All that TypeOK says except the bound on the queue.
Types ==
  /\ queue \in Seq(Message)
  /\ pc \in [Client -> {"idle", "send", "receive", "gone"}]
  /\ calls \in [Client -> 0..MaxCalls]
  /\ sought \in [Client -> Word \cup {Blank}]
  /\ \A c \in Client : pc[c] \in {"send", "receive"} => sought[c] \in Word
  /\ result \in [Client -> Known \cup {Absent, Blank}]
  /\ spc \in {"receive", "reply", "dead"}
  /\ spc = "reply" => hold \in [to : {Server}, from : Client, body : Word]
  /\ stale \subseteq Client /\ lost \subseteq Client

\* Message m is client c's request, or the reply to it.
About(c, m) == c \in {m.to, m.from}

\* What is under way for client c: nothing unless it waits; its own request or
\* the reply to that, and one of them only.
Own(c) ==
  /\ \A i \in 1..Len(queue) : About(c, queue[i]) =>
       /\ pc[c] = "receive"
       /\ queue[i] \in {Request(c, sought[c]), Reply(c, AnswerTo(sought[c]))}
  /\ \A i, j \in 1..Len(queue) :
       About(c, queue[i]) /\ About(c, queue[j]) => i = j
  /\ spc = "reply" /\ hold.from = c =>
       /\ pc[c] = "receive"
       /\ hold.body = sought[c]
       /\ \A i \in 1..Len(queue) : ~About(c, queue[i])
  /\ c \notin lost /\ pc[c] = "receive" =>
       \/ \E i \in 1..Len(queue) : About(c, queue[i])
       \/ spc = "reply" /\ hold.from = c
  /\ pc[c] = "idle" /\ calls[c] > 0 => result[c] = AnswerTo(sought[c])

IInv == \A c \in Client \ stale : Own(c)
-----------------------------------------------------------------------------
(* What RemoveAt leaves: every element but one, in its order.              *)
LEMMA Removal ==
  ASSUME NEW S, NEW s \in Seq(S), NEW i \in 1..Len(s)
  PROVE  /\ RemoveAt(s, i) \in Seq(S)
         /\ Len(RemoveAt(s, i)) = Len(s) - 1
         /\ \A j \in 1..(Len(s) - 1) :
              RemoveAt(s, i)[j] = IF j < i THEN s[j] ELSE s[j + 1]
<1> DEFINE a == SubSeq(s, 1, i - 1)
           b == SubSeq(s, i + 1, Len(s))
<1>1. /\ a \in Seq(S) /\ Len(a) = i - 1
      /\ \A j \in 1..(i - 1) : a[j] = s[j]
  OBVIOUS
<1>2. /\ b \in Seq(S) /\ Len(b) = Len(s) - i
      /\ \A j \in 1..(Len(s) - i) : b[j] = s[i + j]
  OBVIOUS
<1>3. RemoveAt(s, i) = a \o b
  BY DEF RemoveAt
<1>4. Len(s) \in Nat
  OBVIOUS
<1> HIDE DEF a, b
<1>5. /\ a \o b \in Seq(S) /\ Len(a \o b) = Len(s) - 1
      /\ \A j \in 1..(Len(s) - 1) :
           (a \o b)[j] = IF j <= i - 1 THEN a[j] ELSE b[j - (i - 1)]
  <2>1. /\ a \o b \in Seq(S) /\ Len(a \o b) = Len(a) + Len(b)
        /\ \A j \in 1..(Len(a) + Len(b)) :
             (a \o b)[j] = IF j <= Len(a) THEN a[j] ELSE b[j - Len(a)]
    BY <1>1, <1>2, ConcatProperties
  <2>2. Len(a) + Len(b) = Len(s) - 1
    BY <1>1, <1>2, <1>4
  <2> QED
    BY <1>1, <2>1, <2>2
<1>6. ASSUME NEW j \in 1..(Len(s) - 1)
      PROVE  (a \o b)[j] = IF j < i THEN s[j] ELSE s[j + 1]
  <2>1. CASE j < i
    BY <1>1, <1>4, <1>5, <2>1
  <2>2. CASE j >= i
    <3>1. j - (i - 1) \in 1..(Len(s) - i) /\ i + (j - (i - 1)) = j + 1
      BY <1>4, <2>2
    <3>2. b[j - (i - 1)] = s[j + 1]
      BY <1>2, <3>1
    <3> QED
      BY <1>4, <1>5, <2>2, <3>2
  <2>3. j \in Int /\ i \in Int
    BY <1>4
  <2>4. j < i \/ j >= i
    BY <2>3
  <2> QED
    BY <2>1, <2>2, <2>4
<1> QED
  BY <1>3, <1>5, <1>6

\* Queue t is queue s less its message i: who is left, and no two merged.
LessOne(s, i, t) ==
  \E f \in [1..Len(t) -> 1..Len(s) \ {i}] :
    /\ \A j \in 1..Len(t) : t[j] = s[f[j]]
    /\ \A j, k \in 1..Len(t) : f[j] = f[k] => j = k
    /\ \A k \in 1..Len(s) \ {i} : \E j \in 1..Len(t) : f[j] = k

LEMMA Left ==
  ASSUME NEW S, NEW s \in Seq(S), NEW i \in 1..Len(s), NEW t, t = RemoveAt(s, i)
  PROVE  LessOne(s, i, t)
<1> DEFINE f == [j \in 1..Len(t) |-> IF j < i THEN j ELSE j + 1]
<1>0. Len(s) \in Nat /\ Len(t) = Len(s) - 1
  BY Removal
<1>1. f \in [1..Len(t) -> 1..Len(s) \ {i}]
  BY <1>0
<1>2. \A j \in 1..Len(t) : t[j] = s[f[j]]
  BY <1>0, Removal
<1>3. \A j, k \in 1..Len(t) : f[j] = f[k] => j = k
  BY <1>0
<1>4. ASSUME NEW k \in 1..Len(s) \ {i}
      PROVE  \E j \in 1..Len(t) : f[j] = k
  <2>1. CASE k < i
    BY <1>0, <2>1
  <2>2. CASE k > i
    <3>1. k - 1 \in 1..Len(t) /\ f[k - 1] = k
      BY <1>0, <2>2
    <3> QED
      BY <3>1
  <2> QED
    BY <1>0, <2>1, <2>2
<1> HIDE DEF f
<1> QED
  BY <1>1, <1>2, <1>3, <1>4 DEF LessOne
-----------------------------------------------------------------------------
LEMMA AnswerType ==
  \A w \in Word : AnswerTo(w) \in Known \cup {Absent}
BY MsgqAssumption DEF AnswerTo

LEMMA TypesStep ==
  ASSUME Types, [Next]_vars
  PROVE  Types'
<1> USE MsgqAssumption DEF Types, client, server, ghost
<1>1. ASSUME NEW c \in Client, NEW w \in Word, Call(c, w)
      PROVE  Types'
  BY <1>1 DEF Call
<1>2. ASSUME NEW c \in Client, Send(c)
      PROVE  Types'
  <2>1. Request(c, sought[c]) \in Message
    BY <1>2 DEF Send, Request, Message
  <2>2. queue' \in Seq(Message)
    BY <1>2, <2>1 DEF Send
  <2> QED
    BY <1>2, <2>2 DEF Send
<1>3. ASSUME NEW c \in Client, Receive(c)
      PROVE  Types'
  <2>0. DOMAIN queue = 1..Len(queue)
    OBVIOUS
  <2>1. PICK i \in 1..Len(queue) :
          /\ queue[i].to = c
          /\ result' = [result EXCEPT ![c] = queue[i].body]
          /\ queue' = RemoveAt(queue, i)
    BY ONLY <1>3, <2>0 DEF Receive, FirstOf
  <2>2. queue' \in Seq(Message)
    BY <2>1, Removal
  <2>3. queue[i].body \in Known \cup {Absent}
    BY <2>1 DEF Message
  <2>4. /\ pc' = [pc EXCEPT ![c] = "idle"]
        /\ UNCHANGED <<calls, sought, spc, hold, stale, lost>>
    BY <1>3 DEF Receive
  <2>5. result' \in [Client -> Known \cup {Absent, Blank}]
    BY <2>1, <2>3
  <2>6. \A d \in Client : pc'[d] \in {"send", "receive"} => sought'[d] \in Word
    BY <2>4
  <2> QED
    BY <2>2, <2>4, <2>5, <2>6
<1>4. CASE ServerReceive
  <2>1. PICK i \in 1..Len(queue) :
          /\ queue[i].to = Server
          /\ hold' = queue[i]
          /\ queue' = RemoveAt(queue, i)
    BY <1>4 DEF ServerReceive, FirstOf
  <2>2. queue' \in Seq(Message)
    BY <2>1, Removal
  <2>3. queue[i] \in [to : {Server}, from : Client, body : Word]
    BY <2>1 DEF Message
  <2> QED
    BY <1>4, <2>1, <2>2, <2>3 DEF ServerReceive
<1>5. CASE ServerReply
  <2>1. Reply(hold.from, AnswerTo(hold.body)) \in Message
    BY <1>5, AnswerType DEF ServerReply, Reply, Message
  <2> QED
    BY <1>5, <2>1 DEF ServerReply
<1>6. ASSUME NEW c \in Client, Kill(c) \/ Reuse(c)
      PROVE  Types'
  <2>1. CASE Kill(c)
    BY <2>1 DEF Kill
  <2>2. CASE Reuse(c)
    BY <2>2 DEF Reuse
  <2> QED
    BY <1>6, <2>1, <2>2
<1>7. CASE Stop \/ Restart
  BY <1>7 DEF Stop, Restart
<1>8. CASE UNCHANGED vars
  BY <1>8 DEF vars
<1> QED
  BY <1>1, <1>2, <1>3, <1>4, <1>5, <1>6, <1>7, <1>8
  DEF Next, ClientStep, ServerStep
-----------------------------------------------------------------------------
\* What becomes of client d's messages when one is appended.
LEMMA Appended ==
  ASSUME Types, NEW m \in Message, queue' = Append(queue, m)
  PROVE  /\ Len(queue) \in Nat /\ Len(queue') = Len(queue) + 1
         /\ queue'[Len(queue) + 1] = m
         /\ \A i \in 1..Len(queue) : queue'[i] = queue[i]
         /\ 1..Len(queue') = 1..Len(queue) \cup {Len(queue) + 1}
BY DEF Types

LEMMA AppendedFor ==
  ASSUME Types, NEW m \in Message, queue' = Append(queue, m), NEW d \in Client
  PROVE  (\E j \in DOMAIN queue' : queue'[j].to = d) <=>
           m.to = d \/ \E k \in DOMAIN queue : queue[k].to = d
<1>1. DOMAIN queue = 1..Len(queue) /\ DOMAIN queue' = 1..Len(queue')
  BY DEF Types
<1>2. /\ queue'[Len(queue) + 1] = m
      /\ \A i \in 1..Len(queue) : queue'[i] = queue[i]
      /\ 1..Len(queue') = 1..Len(queue) \cup {Len(queue) + 1}
  BY Appended
<1> QED
  BY <1>1, <1>2

LEMMA SendStep ==
  ASSUME Types, IInv, NEW c \in Client, Send(c), NEW d \in Client \ stale
  PROVE  Own(d)'
<1> USE MsgqAssumption DEF client, server, ghost
<1>0. Own(d)
  BY DEF IInv
<1> DEFINE m == Request(c, sought[c])
<1>1. /\ m \in Message /\ queue' = Append(queue, m)
      /\ pc' = [pc EXCEPT ![c] = "receive"] /\ pc[c] = "send"
      /\ UNCHANGED <<calls, sought, result, spc, hold, stale, lost>>
  BY DEF Send, Types, Request, Message
<1>2. /\ Len(queue) \in Nat
      /\ queue'[Len(queue) + 1] = m
      /\ \A i \in 1..Len(queue) : queue'[i] = queue[i]
      /\ 1..Len(queue') = 1..Len(queue) \cup {Len(queue) + 1}
  BY <1>1, Appended
<1>3. About(d, m) <=> d = c
  BY DEF About, Request
<1>4. CASE d = c
  <2>1. /\ \A i \in 1..Len(queue) : ~About(d, queue[i])
        /\ ~(spc = "reply" /\ hold.from = d)
    BY <1>0, <1>1, <1>4 DEF Own
  <2>2. pc'[d] = "receive" /\ m = Request(d, sought'[d])
    BY <1>1, <1>4 DEF Types
  <2> HIDE DEF m
  <2> QED
    BY <1>1, <1>2, <1>3, <1>4, <2>1, <2>2 DEF Own, About, Request, Reply
<1>5. CASE d # c
  <2>1. pc'[d] = pc[d]
    BY <1>1, <1>5 DEF Types
  <2> HIDE DEF m
  <2> QED
    BY <1>0, <1>1, <1>2, <1>3, <1>5, <2>1 DEF Own, About, Request, Reply
<1> QED
  BY <1>4, <1>5

LEMMA ReplyStep ==
  ASSUME Types, IInv, ServerReply, NEW d \in Client \ stale
  PROVE  Own(d)'
<1> USE MsgqAssumption DEF client, server, ghost
<1>0. Own(d)
  BY DEF IInv
<1> DEFINE m == Reply(hold.from, AnswerTo(hold.body))
<1>1. /\ m \in Message /\ queue' = Append(queue, m)
      /\ spc = "reply" /\ spc' = "receive" /\ hold.from \in Client
      /\ UNCHANGED <<pc, calls, sought, result, hold, stale, lost>>
  BY AnswerType DEF ServerReply, Types, Reply, Message
<1>2. /\ Len(queue) \in Nat
      /\ queue'[Len(queue) + 1] = m
      /\ \A i \in 1..Len(queue) : queue'[i] = queue[i]
      /\ 1..Len(queue') = 1..Len(queue) \cup {Len(queue) + 1}
  BY <1>1, Appended
<1>3. About(d, m) <=> d = hold.from
  BY <1>1 DEF About, Reply
<1>4. CASE d = hold.from
  <2>1. /\ \A i \in 1..Len(queue) : ~About(d, queue[i])
        /\ pc[d] = "receive"
        /\ m = Reply(d, AnswerTo(sought[d]))
    BY <1>0, <1>1, <1>4 DEF Own
  <2>2. AnswerTo(sought[d])' = AnswerTo(sought[d])
    BY <1>1 DEF AnswerTo
  <2> HIDE DEF m
  <2> QED
    BY <1>1, <1>2, <1>3, <1>4, <2>1, <2>2 DEF Own, About, Request, Reply
<1>5. CASE d # hold.from
  <2>1. AnswerTo(sought[d])' = AnswerTo(sought[d])
    BY <1>1 DEF AnswerTo
  <2> HIDE DEF m
  <2> QED
    BY <1>0, <1>1, <1>2, <1>3, <1>5, <2>1 DEF Own, About, Request, Reply
<1> QED
  BY <1>4, <1>5

\* What becomes of client d's messages when one that is not d's is taken.
LEMMA Bystander ==
  ASSUME Types, NEW d \in Client, Own(d), NEW i \in 1..Len(queue),
         queue' = RemoveAt(queue, i), ~About(d, queue[i])
  PROVE  /\ \A j \in 1..Len(queue') : About(d, queue'[j]) =>
              /\ pc[d] = "receive"
              /\ queue'[j] \in {Request(d, sought[d]),
                                Reply(d, AnswerTo(sought[d]))}
         /\ \A j, k \in 1..Len(queue') :
              About(d, queue'[j]) /\ About(d, queue'[k]) => j = k
         /\ (\E k \in 1..Len(queue) : About(d, queue[k])) <=>
              \E j \in 1..Len(queue') : About(d, queue'[j])
<1>1. PICK f \in [1..Len(queue') -> 1..Len(queue) \ {i}] :
        /\ \A j \in 1..Len(queue') : queue'[j] = queue[f[j]]
        /\ \A j, k \in 1..Len(queue') : f[j] = f[k] => j = k
        /\ \A k \in 1..Len(queue) \ {i} : \E j \in 1..Len(queue') : f[j] = k
  <2>1. queue \in Seq(Message)
    BY DEF Types
  <2>2. LessOne(queue, i, queue')
    BY <2>1, Left
  <2> QED
    BY <2>2 DEF LessOne
<1>2. /\ \A k \in 1..Len(queue) : About(d, queue[k]) =>
           /\ pc[d] = "receive"
           /\ queue[k] \in {Request(d, sought[d]), Reply(d, AnswerTo(sought[d]))}
      /\ \A k, l \in 1..Len(queue) :
           About(d, queue[k]) /\ About(d, queue[l]) => k = l
  BY DEF Own
<1>3. \A j \in 1..Len(queue') : f[j] \in 1..Len(queue)
  BY <1>1
<1>4. ASSUME NEW j \in 1..Len(queue'), NEW k \in 1..Len(queue'),
             About(d, queue'[j]), About(d, queue'[k])
      PROVE  j = k
  <2>1. About(d, queue[f[j]]) /\ About(d, queue[f[k]])
    BY <1>1, <1>4
  <2>2. f[j] = f[k]
    BY ONLY <1>2, <1>3, <2>1, j \in 1..Len(queue'), k \in 1..Len(queue')
  <2> QED
    BY <1>1, <2>2
<1>5. ASSUME NEW k \in 1..Len(queue), About(d, queue[k])
      PROVE  \E j \in 1..Len(queue') : About(d, queue'[j])
  <2>1. PICK j \in 1..Len(queue') : f[j] = k
    BY <1>1, <1>5
  <2> QED
    BY <1>1, <1>5, <2>1
<1>6. ASSUME NEW j \in 1..Len(queue'), About(d, queue'[j])
      PROVE  /\ \E k \in 1..Len(queue) : About(d, queue[k])
             /\ pc[d] = "receive"
             /\ queue'[j] \in {Request(d, sought[d]), Reply(d, AnswerTo(sought[d]))}
  BY <1>1, <1>2, <1>3, <1>6
<1> QED
  BY <1>4, <1>5, <1>6

LEMMA ReceiveStep ==
  ASSUME Types, IInv, NEW c \in Client, Receive(c), NEW d \in Client \ stale
  PROVE  Own(d)'
<1> USE MsgqAssumption DEF client, server, ghost
<1>0. Own(d)
  BY DEF IInv
<1>1. DOMAIN queue = 1..Len(queue) /\ queue \in Seq(Message)
  BY DEF Types
<1>2. PICK i \in 1..Len(queue) :
        /\ queue[i].to = c
        /\ result' = [result EXCEPT ![c] = queue[i].body]
        /\ queue' = RemoveAt(queue, i)
  BY ONLY Receive(c), <1>1 DEF Receive, FirstOf
<1>3. PICK f \in [1..Len(queue') -> 1..Len(queue) \ {i}] :
        /\ \A j \in 1..Len(queue') : queue'[j] = queue[f[j]]
        /\ \A j, k \in 1..Len(queue') : f[j] = f[k] => j = k
        /\ \A k \in 1..Len(queue) \ {i} : \E j \in 1..Len(queue') : f[j] = k
  <2>1. LessOne(queue, i, queue')
    BY <1>1, <1>2, Left
  <2> QED
    BY <2>1 DEF LessOne
<1>4. /\ pc' = [pc EXCEPT ![c] = "idle"] /\ pc[c] = "receive"
      /\ UNCHANGED <<calls, sought, spc, hold, stale, lost>>
  BY DEF Receive
<1>5. queue[i].from = Server
  BY <1>1, <1>2 DEF Message
<1>6. AnswerTo(sought[d])' = AnswerTo(sought[d])
  BY <1>4 DEF AnswerTo
<1>7. CASE d = c
  <2>1. About(d, queue[i])
    BY <1>2, <1>7 DEF About
  <2>2. queue[i] = Reply(d, AnswerTo(sought[d]))
    BY <1>0, <1>2, <1>7, <2>1 DEF Own, Request
  <2>3. result'[d] = AnswerTo(sought[d]) /\ pc'[d] = "idle"
    BY <1>2, <1>4, <1>7, <2>2 DEF Reply, Types
  <2>4. ASSUME NEW j \in 1..Len(queue'), About(d, queue'[j])
        PROVE  FALSE
    <3>1. f[j] \in 1..Len(queue) \ {i} /\ About(d, queue[f[j]])
      BY <1>3, <2>4
    <3> QED
      BY <1>0, <2>1, <3>1 DEF Own
  <2>5. ~(spc = "reply" /\ hold.from = d)
    BY <1>0, <2>1 DEF Own
  <2>6. \A j \in 1..Len(queue') : ~About(d, queue[j])'
    BY <2>4 DEF About
  <2>7. ~(spc' = "reply" /\ hold'.from = d) /\ pc'[d] # "receive"
    BY <1>4, <2>3, <2>5
  <2> QED
    BY ONLY <1>6, <2>3, <2>6, <2>7 DEF Own
<1>8. CASE d # c
  <2>1. ~About(d, queue[i])
    BY <1>2, <1>5, <1>8 DEF About
  <2>2. pc'[d] = pc[d] /\ result'[d] = result[d]
    BY <1>2, <1>4, <1>8 DEF Types
  <2>3. /\ \A j \in 1..Len(queue') : About(d, queue'[j]) =>
             /\ pc[d] = "receive"
             /\ queue'[j] \in {Request(d, sought[d]), Reply(d, AnswerTo(sought[d]))}
        /\ \A j, k \in 1..Len(queue') :
             About(d, queue'[j]) /\ About(d, queue'[k]) => j = k
        /\ (\E k \in 1..Len(queue) : About(d, queue[k])) <=>
             \E j \in 1..Len(queue') : About(d, queue'[j])
    BY <1>0, <1>2, <2>1, Bystander
  <2>4. Request(d, sought[d])' = Request(d, sought[d])
        /\ Reply(d, AnswerTo(sought[d]))' = Reply(d, AnswerTo(sought[d]))
    BY <1>4, <1>6 DEF Request, Reply
  <2>5. \A j \in 1..Len(queue') : About(d, queue[j])' <=> About(d, queue'[j])
    BY DEF About
  <2> HIDE DEF About
  <2> QED
    BY <1>0, <1>4, <1>6, <2>2, <2>3, <2>4, <2>5 DEF Own
<1> QED
  BY <1>7, <1>8

LEMMA ServerReceiveStep ==
  ASSUME Types, IInv, ServerReceive, NEW d \in Client \ stale
  PROVE  Own(d)'
<1> USE MsgqAssumption DEF client, server, ghost
<1>0. Own(d)
  BY DEF IInv
<1>1. DOMAIN queue = 1..Len(queue) /\ queue \in Seq(Message)
  BY DEF Types
<1>2. PICK i \in 1..Len(queue) :
        /\ queue[i].to = Server
        /\ hold' = queue[i]
        /\ queue' = RemoveAt(queue, i)
  BY ONLY ServerReceive, <1>1 DEF ServerReceive, FirstOf
<1>3. PICK f \in [1..Len(queue') -> 1..Len(queue) \ {i}] :
        /\ \A j \in 1..Len(queue') : queue'[j] = queue[f[j]]
        /\ \A j, k \in 1..Len(queue') : f[j] = f[k] => j = k
        /\ \A k \in 1..Len(queue) \ {i} : \E j \in 1..Len(queue') : f[j] = k
  <2>1. LessOne(queue, i, queue')
    BY <1>1, <1>2, Left
  <2> QED
    BY <2>1 DEF LessOne
<1>4. /\ spc = "receive" /\ spc' = "reply"
      /\ UNCHANGED <<pc, calls, sought, result, stale, lost>>
  BY DEF ServerReceive
<1>5. About(d, queue[i]) <=> queue[i].from = d
  BY <1>2 DEF About
<1>6. AnswerTo(sought[d])' = AnswerTo(sought[d])
  BY <1>4 DEF AnswerTo
<1>7. CASE queue[i].from = d
  <2>1. queue[i] = Request(d, sought[d]) /\ pc[d] = "receive"
    BY <1>0, <1>2, <1>5, <1>7 DEF Own, Reply
  <2>2. \A j \in 1..Len(queue') : ~About(d, queue'[j])
    BY <1>0, <1>3, <1>5, <1>7 DEF Own
  <2>3. hold'.body = sought[d]
    BY <1>2, <2>1 DEF Request
  <2>4. \A j \in 1..Len(queue') : ~About(d, queue[j])'
    BY <2>2 DEF About
  <2>5. spc' = "reply" /\ hold'.from = d /\ pc'[d] = "receive" /\ hold'.body = sought'[d]
    BY <1>2, <1>4, <1>7, <2>1, <2>3
  <2> QED
    BY ONLY <2>4, <2>5 DEF Own
<1>8. CASE queue[i].from # d
  <2>1. ~About(d, queue[i]) /\ hold'.from # d
    BY <1>2, <1>5, <1>8
  <2>2. /\ \A j \in 1..Len(queue') : About(d, queue'[j]) =>
             /\ pc[d] = "receive"
             /\ queue'[j] \in {Request(d, sought[d]), Reply(d, AnswerTo(sought[d]))}
        /\ \A j, k \in 1..Len(queue') :
             About(d, queue'[j]) /\ About(d, queue'[k]) => j = k
        /\ (\E k \in 1..Len(queue) : About(d, queue[k])) <=>
             \E j \in 1..Len(queue') : About(d, queue'[j])
    BY <1>0, <1>2, <2>1, Bystander
  <2>3. Request(d, sought[d])' = Request(d, sought[d])
        /\ Reply(d, AnswerTo(sought[d]))' = Reply(d, AnswerTo(sought[d]))
    BY <1>4, <1>6 DEF Request, Reply
  <2> QED
    BY <1>0, <1>4, <1>6, <2>1, <2>2, <2>3 DEF Own, About
<1> QED
  BY <1>7, <1>8

LEMMA OwnStep ==
  ASSUME Types, IInv, [Next]_vars
  PROVE  IInv'
<1> SUFFICES ASSUME NEW d \in Client \ stale'
             PROVE  Own(d)'
  BY DEF IInv
<1> USE MsgqAssumption DEF Types, client, server, ghost
<1>0. d \in Client \ stale /\ Own(d)
  BY DEF IInv, Next, ClientStep, ServerStep, Call, Send, Receive, Kill, Reuse,
         ServerReceive, ServerReply, Stop, Restart, vars
<1> USE <1>0
<1>1. ASSUME NEW c \in Client, NEW w \in Word, Call(c, w)
      PROVE  Own(d)'
  BY <1>1 DEF Call, Own, About, Request, Reply, AnswerTo
<1>2. ASSUME NEW c \in Client, Kill(c) \/ Reuse(c)
      PROVE  Own(d)'
  BY <1>2 DEF Kill, Reuse, Own, About, Request, Reply, AnswerTo
<1>3. CASE Stop \/ Restart
  BY <1>3 DEF Stop, Restart, Own, About, Request, Reply, AnswerTo
<1>4. CASE UNCHANGED vars
  BY <1>4 DEF vars, Own, About, Request, Reply, AnswerTo
<1> QED
  BY <1>1, <1>2, <1>3, <1>4, SendStep, ReceiveStep, ServerReceiveStep,
     ReplyStep
  DEF Next, ClientStep, ServerStep

LEMMA MsgqInvariant == Spec => [](Types /\ IInv)
<1>1. Init => Types /\ IInv
  <2> SUFFICES ASSUME Init PROVE Types /\ IInv
    OBVIOUS
  <2>1. Types
    BY MsgqAssumption DEF Init, Types
  <2>2. IInv
    BY DEF Init, IInv, Own
  <2> QED
    BY <2>1, <2>2
<1>2. Types /\ IInv /\ [Next]_vars => (Types /\ IInv)'
  BY TypesStep, OwnStep
<1> QED
  BY <1>1, <1>2, PTL DEF Spec

-----------------------------------------------------------------------------
\* The bytes of a queue, which the model folds, as a sum over its places.
Sizes(q) == [i \in DOMAIN q |-> Size(q[i])]
SumSizes(q) == SumFunctionOnSet(Sizes(q), 1..Len(q))

\* What FoldSeq is: the function that Bytes takes the value of.
Fold(q, iter) ==
  iter = [s \in SUBSET DOMAIN q |->
            IF s = {} THEN 0 ELSE Size(q[Pick(s)]) + iter[s \ {Pick(s)}]]

LEMMA Folded ==
  ASSUME NEW q, q \in Seq(Message), NEW iter, iter = CHOOSE it : Fold(q, it)
  PROVE  iter[DOMAIN q] = SumSizes(q)
<1>1. DOMAIN q = 1..Len(q) /\ IsFiniteSet(DOMAIN q)
  BY FS_Interval
<1>2. \A it : Fold(q, it) <=> IsSum(Sizes(q), DOMAIN q, it)
  <2>1. ASSUME NEW it, NEW s \in SUBSET DOMAIN q
        PROVE  (IF s = {} THEN 0 ELSE Size(q[Pick(s)]) + it[s \ {Pick(s)}])
                 = Value(Sizes(q), s, it)
    BY Picked DEF Value, Sizes
  <2> QED
    BY <2>1 DEF Fold, IsSum
<1>3. Fold(q, SumOf(Sizes(q), DOMAIN q))
  BY <1>1, <1>2, SumExists
<1>4. Fold(q, iter)
  BY <1>3
<1>5. /\ IsSum(Sizes(q), DOMAIN q, iter)
      /\ IsSum(Sizes(q), DOMAIN q, SumOf(Sizes(q), DOMAIN q))
  BY <1>2, <1>3, <1>4
<1>6. iter[DOMAIN q] = SumOf(Sizes(q), DOMAIN q)[DOMAIN q]
  BY <1>1, <1>5, OneSum
<1> QED
  BY <1>1, <1>6, SumIs DEF SumSizes

LEMMA BytesAre ==
  /\ Bytes = (CHOOSE it : Fold(queue, it))[DOMAIN queue]
  /\ Bytes' = (CHOOSE it : Fold(queue', it))[DOMAIN queue']
<1> USE DEF Bytes, FoldSeq, FoldFunction, FoldFunctionOnSet, MapThenFoldSet, Fold, Pick
<1>1. Bytes = (CHOOSE it : Fold(queue, it))[DOMAIN queue]
  OBVIOUS
<1>2. Bytes' = (CHOOSE it : Fold(queue', it))[DOMAIN queue']
  OBVIOUS
<1> QED
  BY <1>1, <1>2

LEMMA BytesSum ==
  /\ queue \in Seq(Message) => Bytes = SumSizes(queue)
  /\ queue' \in Seq(Message) => Bytes' = SumSizes(queue')
BY BytesAre, Folded

LEMMA SizeNat == \A m : Size(m) \in Nat
BY MsgqAssumption DEF Size

LEMMA SumSizesNat == ASSUME NEW q, q \in Seq(Message) PROVE SumSizes(q) \in Nat
<1>1. IsFiniteSet(1..Len(q)) /\ DOMAIN q = 1..Len(q)
  BY FS_Interval
<1>2. \A i \in 1..Len(q) : Sizes(q)[i] \in Nat
  BY <1>1, SizeNat DEF Sizes
<1> QED
  BY <1>1, <1>2, SumIsNat DEF SumSizes

LEMMA SizesAppend ==
  ASSUME NEW q, q \in Seq(Message), NEW m \in Message
  PROVE  SumSizes(Append(q, m)) = SumSizes(q) + Size(m)
<1> DEFINE r == Append(q, m)
           k == Len(q) + 1
<1>1. /\ r \in Seq(Message) /\ Len(r) = k /\ r[k] = m /\ k \in Nat
      /\ \A i \in 1..Len(q) : r[i] = q[i]
      /\ DOMAIN r = 1..k /\ DOMAIN q = 1..Len(q)
  OBVIOUS
<1>2. /\ (1..k) \ {k} = 1..Len(q) /\ k \in 1..k
      /\ IsFiniteSet(1..k) /\ IsFiniteSet(1..Len(q))
  BY FS_Interval
<1> HIDE DEF r, k
<1>3. \A i \in 1..k : Sizes(r)[i] \in Int
  BY <1>1, SizeNat DEF Sizes
<1>4. SumFunctionOnSet(Sizes(r), 1..k)
        = Sizes(r)[k] + SumFunctionOnSet(Sizes(r), 1..Len(q))
  <2>1. SumFunctionOnSet(Sizes(r), 1..k)
          = Sizes(r)[k] + SumFunctionOnSet(Sizes(r), (1..k) \ {k})
    BY <1>2, <1>3, SumTakes
  <2> QED
    BY <1>2, <2>1
<1>5. SumFunctionOnSet(Sizes(r), 1..Len(q)) = SumFunctionOnSet(Sizes(q), 1..Len(q))
  <2>1. \A i \in 1..Len(q) : Sizes(r)[i] = Sizes(q)[i] /\ Sizes(r)[i] \in Int
    BY <1>1, <1>2, <1>3 DEF Sizes
  <2> QED
    BY <1>2, <2>1, SumEqual
<1>6. Sizes(r)[k] = Size(m)
  BY <1>1, <1>2 DEF Sizes
<1>7. SumSizes(q) \in Nat /\ Size(m) \in Nat
  BY SumSizesNat, SizeNat
<1> QED
  BY <1>1, <1>4, <1>5, <1>6, <1>7 DEF SumSizes, r

LEMMA SizesRemove ==
  ASSUME NEW q, q \in Seq(Message), NEW i \in 1..Len(q), NEW r, r = RemoveAt(q, i)
  PROVE  SumSizes(r) <= SumSizes(q)
<1> DEFINE E == (1..Len(q)) \ {i}
<1>1. /\ r \in Seq(Message) /\ DOMAIN q = 1..Len(q) /\ DOMAIN r = 1..Len(r)
      /\ IsFiniteSet(1..Len(q)) /\ IsFiniteSet(1..Len(r))
  BY Removal, FS_Interval
<1>2. PICK f \in [1..Len(r) -> E] :
        /\ \A j \in 1..Len(r) : r[j] = q[f[j]]
        /\ \A j, k \in 1..Len(r) : f[j] = f[k] => j = k
        /\ \A k \in E : \E j \in 1..Len(r) : f[j] = k
  BY Left DEF LessOne
<1>3. \A j \in 1..Len(r) : Sizes(r)[j] = Sizes(q)[f[j]] /\ Sizes(r)[j] \in Int
  <2>1. ASSUME NEW j \in 1..Len(r)
        PROVE  Sizes(r)[j] = Size(r[j]) /\ Sizes(q)[f[j]] = Size(q[f[j]])
    BY <1>1, <1>2 DEF Sizes
  <2> QED
    BY <1>2, <2>1, SizeNat
<1>4. Image(f, 1..Len(r)) = E
  <2>1. \A k \in E : k \in Image(f, 1..Len(r))
    BY <1>2 DEF Image
  <2>2. \A j \in 1..Len(r) : f[j] \in E
    OBVIOUS
  <2> QED
    BY <2>1, <2>2 DEF Image
<1>5. SumSizes(r) = SumFunctionOnSet(Sizes(q), E)
  <2> DEFINE D == 1..Len(r)
  <2>1. IsFiniteSet(E)
    BY <1>1, FS_Subset
  <2> HIDE DEF E
  <2>2. /\ IsFiniteSet(D) /\ f \in [D -> E] /\ IsFiniteSet(E)
        /\ \A x \in D : Sizes(r)[x] = Sizes(q)[f[x]] /\ Sizes(r)[x] \in Int
    BY <1>1, <1>3, <2>1
  <2>3. \A x, y \in D : f[x] = f[y] => x = y
    BY <1>2
  <2> HIDE DEF D
  <2>4. \A a, b, c, d, e :
          /\ IsFiniteSet(c) /\ IsFiniteSet(d) /\ e \in [c -> d]
          /\ \A x \in c : b[x] = a[e[x]] /\ b[x] \in Int
          /\ \A x, y \in c : e[x] = e[y] => x = y
          => SumFunctionOnSet(b, c) = SumFunctionOnSet(a, Image(e, c))
    BY SumMoved
  <2>5. SumFunctionOnSet(Sizes(r), D) = SumFunctionOnSet(Sizes(q), Image(f, D))
    BY <2>2, <2>3, <2>4
  <2> QED
    BY <1>4, <2>5 DEF SumSizes, D
<1>6. \A j \in 1..Len(q) : Sizes(q)[j] \in Int
  BY <1>1, SizeNat DEF Sizes
<1>7. SumSizes(q) = Sizes(q)[i] + SumFunctionOnSet(Sizes(q), E)
  BY <1>1, <1>6, SumTakes DEF SumSizes
<1>8. Sizes(q)[i] \in Nat /\ SumSizes(q) \in Nat /\ SumSizes(r) \in Nat
  BY <1>1, SumSizesNat, SizeNat DEF Sizes
<1> QED
  BY <1>5, <1>7, <1>8

\* The rest of TypeOK.
Bounds ==
  /\ SumSizes(queue) <= Capacity
  /\ hold \in [to : {Server}, from : Client \cup {Server}, body : Word \cup {Blank}]
  /\ kills \in 0..MaxKills /\ stops \in 0..MaxStops

LEMMA BoundsStart == Init => Bounds
<1> SUFFICES ASSUME Init PROVE Bounds
  OBVIOUS
<1>1. SumSizes(queue) = 0
  <2>1. Len(queue) = 0 /\ 1..0 = {}
    BY DEF Init
  <2> QED
    BY <2>1, SumEmpty DEF SumSizes
<1> QED
  BY <1>1, MsgqAssumption DEF Init, Bounds

LEMMA BoundsStep ==
  ASSUME Types, Bounds, [Next]_vars
  PROVE  Bounds'
<1> USE MsgqAssumption
<1>0. /\ queue \in Seq(Message) /\ DOMAIN queue = 1..Len(queue)
      /\ SumSizes(queue) \in Nat
  BY SumSizesNat DEF Types
<1>1. ASSUME NEW c \in Client, Send(c)
      PROVE  Bounds'
  <2>1. Request(c, sought[c]) \in Message
    BY <1>1 DEF Send, Request, Message, Types
  <2>2. /\ queue' = Append(queue, Request(c, sought[c]))
        /\ Bytes + Size(Request(c, sought[c])) <= Capacity
        /\ hold' = hold /\ kills' = kills /\ stops' = stops
    BY <1>1 DEF Send, Fits, server, ghost
  <2>3. SumSizes(queue)' = SumSizes(queue) + Size(Request(c, sought[c]))
    BY <1>0, <2>1, <2>2, SizesAppend
  <2>4. SumSizes(queue)' <= Capacity
    BY <1>0, <2>2, <2>3, BytesSum
  <2> QED
    BY <2>2, <2>4 DEF Bounds
<1>2. ASSUME NEW c \in Client, Receive(c)
      PROVE  Bounds'
  <2>1. PICK i \in 1..Len(queue) : queue' = RemoveAt(queue, i)
    BY <1>0, <1>2 DEF Receive
  <2>2. SumSizes(queue)' <= SumSizes(queue)
    BY <1>0, <2>1, SizesRemove
  <2>3. queue' \in Seq(Message)
    BY <1>0, <2>1, Removal
  <2>4. SumSizes(queue)' <= Capacity
    BY <1>0, <2>2, <2>3, SumSizesNat DEF Bounds
  <2> QED
    BY <1>2, <2>4 DEF Bounds, Receive, server, ghost
<1>3. CASE ServerReceive
  <2>1. PICK i \in 1..Len(queue) :
          hold' = queue[i] /\ queue[i].to = Server /\ queue' = RemoveAt(queue, i)
    BY <1>0, <1>3 DEF ServerReceive, FirstOf
  <2>2. SumSizes(queue)' <= SumSizes(queue)
    BY <1>0, <2>1, SizesRemove
  <2>3. queue' \in Seq(Message)
    BY <1>0, <2>1, Removal
  <2>4. SumSizes(queue)' <= Capacity
    BY <1>0, <2>2, <2>3, SumSizesNat DEF Bounds
  <2>5. hold' \in [to : {Server}, from : Client, body : Word]
    BY <1>0, <2>1 DEF Message
  <2> QED
    BY <1>3, <2>4, <2>5 DEF Bounds, ServerReceive, ghost
<1>4. CASE ServerReply
  <2> DEFINE m == Reply(hold.from, AnswerTo(hold.body))
  <2>1. m \in Message
    BY <1>4, AnswerType DEF ServerReply, Reply, Message, Types
  <2>2. /\ queue' = Append(queue, m) /\ Bytes + Size(m) <= Capacity
        /\ hold' = hold /\ kills' = kills /\ stops' = stops
    BY <1>4 DEF ServerReply, Fits, ghost
  <2> HIDE DEF m
  <2>3. SumSizes(queue)' = SumSizes(queue) + Size(m)
    BY <1>0, <2>1, <2>2, SizesAppend
  <2>4. SumSizes(queue)' <= Capacity
    BY <1>0, <2>2, <2>3, BytesSum
  <2> QED
    BY <2>2, <2>4 DEF Bounds
<1>5. ASSUME NEW c \in Client, (\E w \in Word : Call(c, w)) \/ Reuse(c)
      PROVE  Bounds'
  BY <1>5 DEF Call, Reuse, server, ghost, Bounds
<1>6. ASSUME NEW c \in Client, Kill(c)
      PROVE  Bounds'
  BY <1>6 DEF Kill, server, Bounds
<1>7. CASE Stop \/ Restart
  BY <1>7 DEF Stop, Restart, ghost, Bounds
<1>8. CASE UNCHANGED vars
  BY <1>8 DEF vars, Bounds
<1> QED
  BY <1>1, <1>2, <1>3, <1>4, <1>5, <1>6, <1>7, <1>8 DEF Next, ClientStep, ServerStep

(* The variables keep their types and the queue its capacity, whatever is  *)
(* killed or stopped: nobody sends without room (lookup4.c:40,             *)
(* msgq_server.c:69).                                                      *)
THEOREM TypeCorrect == Spec => []TypeOK
<1>1. Types /\ Bounds => TypeOK
  BY BytesSum DEF Types, Bounds, TypeOK
<1>2. Types /\ Bounds /\ [Next]_vars => Bounds'
  BY BoundsStep
<1> QED
  BY <1>1, <1>2, MsgqInvariant, BoundsStart, PTL DEF Spec
-----------------------------------------------------------------------------
(* A client is told the answer to its own word, for any number of clients  *)
(* that share the queue, unless its pid was left by one that was killed    *)
(* waiting (lookup4.c:44-54).                                              *)
THEOREM AnswerCorrect == Spec => []ResultIsAnswer
<1>1. IInv => ResultIsAnswer
  BY DEF IInv, Own, ResultIsAnswer
<1> QED
  BY <1>1, MsgqInvariant, PTL

(* A client that waits has one message under way, in the queue or in the   *)
(* server's hands, and any other has none (lookup4.c:38-54, msgq_server.c: *)
(* 44-71).                                                                 *)
THEOREM OneMessage == Spec => []OneUnderWay
<1>1. Types /\ IInv => OneUnderWay
  <2> SUFFICES ASSUME Types, IInv, NEW c \in Client \ (stale \cup lost)
               PROVE  UnderWay(c) = IF pc[c] = "receive" THEN 1 ELSE 0
    BY DEF OneUnderWay
  <2>0. Own(c) /\ DOMAIN queue = 1..Len(queue)
    BY DEF IInv, Types
  <2>1. InQueue(c) = {i \in 1..Len(queue) : About(c, queue[i])}
    BY <2>0 DEF InQueue, About
  <2>2. CASE pc[c] # "receive"
    <3>1. InQueue(c) = {} /\ InHand(c) = 0
      BY <2>0, <2>1, <2>2 DEF Own, InHand
    <3> QED
      BY <2>2, <3>1, FS_EmptySet DEF UnderWay
  <2>3. CASE pc[c] = "receive" /\ spc = "reply" /\ hold.from = c
    <3>1. InQueue(c) = {} /\ InHand(c) = 1
      BY <2>0, <2>1, <2>3 DEF Own, InHand
    <3> QED
      BY <2>3, <3>1, FS_EmptySet DEF UnderWay
  <2>4. CASE pc[c] = "receive" /\ ~(spc = "reply" /\ hold.from = c)
    <3>1. PICK i \in 1..Len(queue) : About(c, queue[i])
      BY <2>0, <2>4 DEF Own
    <3>2. InQueue(c) = {i} /\ InHand(c) = 0
      BY <2>0, <2>1, <2>4, <3>1 DEF Own, InHand
    <3>3. Cardinality({i}) = 1
      BY FS_Singleton
    <3> QED
      BY <2>4, <3>2, <3>3 DEF UnderWay
  <2> QED
    BY <2>2, <2>3, <2>4
<1> QED
  BY <1>1, MsgqInvariant, PTL
-----------------------------------------------------------------------------
\* CallBar without its CHOOSE: the only reply there can be for a client is the
\* answer to its word.
Bar(c) ==
  IF pc[c] \in {"idle", "gone"} \/ c \in stale \cup lost
  THEN [state |-> "idle"]
  ELSE IF Served(c)
  THEN [state |-> "answered", word |-> sought[c], text |-> AnswerTo(sought[c])]
  ELSE [state |-> "asked", word |-> sought[c]]

LEMMA BarIsCallBar == Types /\ IInv => CallBar = [c \in Client |-> Bar(c)]
<1> SUFFICES ASSUME Types, IInv
             PROVE  CallBar = [c \in Client |-> Bar(c)]
  OBVIOUS
<1>1. ASSUME NEW c \in Client \ stale, Served(c)
      PROVE  queue[ReplyOf(c)].body = AnswerTo(sought[c])
  <2>1. ReplyOf(c) \in DOMAIN queue /\ queue[ReplyOf(c)].to = c
    BY <1>1 DEF Served, ReplyOf
  <2>2. Own(c) /\ DOMAIN queue = 1..Len(queue)
    BY DEF IInv, Types
  <2>3. queue[ReplyOf(c)] \in {Request(c, sought[c]), Reply(c, AnswerTo(sought[c]))}
    BY <2>1, <2>2 DEF Own, About
  <2> QED
    BY <2>1, <2>3, MsgqAssumption DEF Request, Reply
<1> QED
  BY <1>1 DEF CallBar, Bar

LEMMA BarIsCallBarNext ==
  (Types /\ IInv => CallBar = [c \in Client |-> Bar(c)])'
BY BarIsCallBar, PTL

\* Calls that stand, and one that is asked, answered, taken or fails.
LEMMA OneCall ==
  ASSUME Types, IInv, Types', IInv', NEW c \in Client,
         \A d \in Client \ {c} : Bar(d)' = Bar(d),
         \/ Bar(c)' = Bar(c)
         \/ \E w \in Word : /\ Bar(c) = [state |-> "idle"]
                            /\ Bar(c)' = [state |-> "asked", word |-> w]
         \/ /\ Bar(c).state = "asked"
            /\ Bar(c)' = [state |-> "answered", word |-> Bar(c).word,
                          text |-> AnswerTo(Bar(c).word)]
         \/ Bar(c)' = [state |-> "idle"]
  PROVE  [Service!Next]_CallBar
<1> DEFINE b == [d \in Client |-> Bar(d)]
           b1 == [d \in Client |-> Bar(d)']
<1>1. CallBar = b /\ CallBar' = b1
  BY BarIsCallBar, BarIsCallBarNext
<1>2. b1 = [b EXCEPT ![c] = Bar(c)']
  OBVIOUS
<1>3. CASE Bar(c)' = Bar(c)
  BY <1>1, <1>2, <1>3
<1>4. CASE \E w \in Word : /\ Bar(c) = [state |-> "idle"]
                          /\ Bar(c)' = [state |-> "asked", word |-> w]
  <2>1. \E w \in Word : Service!Ask(c, w)
    BY <1>1, <1>2, <1>4 DEF Service!Ask, Service!Idle, Service!Asked
  <2> QED
    BY <2>1 DEF Service!Next
<1>5. CASE /\ Bar(c).state = "asked"
           /\ Bar(c)' = [state |-> "answered", word |-> Bar(c).word,
                         text |-> AnswerTo(Bar(c).word)]
  <2>1. Service!Serve(c)
    BY <1>1, <1>2, <1>5 DEF Service!Serve, Service!Answered
  <2> QED
    BY <2>1 DEF Service!Next
<1>6. CASE Bar(c)' = [state |-> "idle"]
  <2>1. CASE Bar(c).state = "asked"
    <3>1. Service!Fail({c})
      BY <1>1, <1>6, <2>1 DEF Service!Fail, Service!Idle
    <3> QED
      BY <3>1 DEF Service!Next
  <2>2. CASE Bar(c).state = "answered"
    <3>1. Service!Collect(c)
      BY <1>1, <1>2, <1>6, <2>2 DEF Service!Collect, Service!Idle
    <3> QED
      BY <3>1 DEF Service!Next
  <2>3. CASE Bar(c) = [state |-> "idle"]
    BY <1>3, <1>6, <2>3
  <2> QED
    BY <2>1, <2>2, <2>3 DEF Bar
<1> QED
  BY <1>3, <1>4, <1>5, <1>6

\* Taking a message for somebody else changes nothing about who is served.
LEMMA StillServed ==
  ASSUME Types, NEW d \in Client, NEW i \in 1..Len(queue),
         queue' = RemoveAt(queue, i), queue[i].to # d
  PROVE  (\E j \in DOMAIN queue' : queue'[j].to = d) <=>
           \E k \in DOMAIN queue : queue[k].to = d
<1>1. /\ queue' \in Seq(Message)
      /\ Len(queue) \in Nat /\ Len(queue') = Len(queue) - 1
      /\ \A j \in 1..(Len(queue) - 1) :
           queue'[j] = IF j < i THEN queue[j] ELSE queue[j + 1]
  <2>1. queue \in Seq(Message)
    BY DEF Types
  <2>2. /\ RemoveAt(queue, i) \in Seq(Message)
        /\ Len(RemoveAt(queue, i)) = Len(queue) - 1
        /\ \A j \in 1..(Len(queue) - 1) :
             RemoveAt(queue, i)[j] = IF j < i THEN queue[j] ELSE queue[j + 1]
    BY <2>1, Removal
  <2>3. queue' = RemoveAt(queue, i)
    OBVIOUS
  <2> QED
    BY <2>1, <2>2, <2>3
<1>2. DOMAIN queue = 1..Len(queue) /\ DOMAIN queue' = 1..Len(queue')
  BY <1>1 DEF Types
<1>3. ASSUME NEW k \in 1..Len(queue), queue[k].to = d
      PROVE  \E j \in 1..Len(queue') : queue'[j].to = d
  <2>1. k # i
    BY <1>3
  <2>2. CASE k < i
    <3>1. k \in 1..Len(queue') /\ queue'[k] = queue[k]
      BY <1>1, <2>2
    <3> QED
      BY <1>3, <3>1
  <2>3. CASE k > i
    <3>1. k - 1 \in 1..Len(queue') /\ ~(k - 1 < i) /\ (k - 1) + 1 = k
      BY <1>1, <2>3
    <3>2. queue'[k - 1] = queue[k]
      BY <1>1, <3>1
    <3> QED
      BY <1>3, <3>1, <3>2
  <2> QED
    BY <1>1, <2>1, <2>2, <2>3
<1>4. ASSUME NEW j \in 1..Len(queue'), queue'[j].to = d
      PROVE  \E k \in 1..Len(queue) : queue[k].to = d
  <2>1. j \in 1..Len(queue) /\ j + 1 \in 1..Len(queue)
    BY <1>1
  <2>2. queue'[j] = queue[j] \/ queue'[j] = queue[j + 1]
    BY <1>1
  <2> QED
    BY <1>4, <2>1, <2>2
<1> QED
  BY <1>2, <1>3, <1>4

LEMMA StepMaps ==
  ASSUME Types, IInv, [Next]_vars
  PROVE  [Service!Next]_CallBar
<1> USE MsgqAssumption DEF client, server, ghost
<1>0. Types' /\ IInv'
  BY TypesStep, OwnStep
<1>1. ASSUME NEW c \in Client, NEW w \in Word, Call(c, w)
      PROVE  [Service!Next]_CallBar
  <2>1. \A d \in Client \ {c} : Bar(d)' = Bar(d)
    BY <1>1 DEF Call, Types, Bar, Served, AnswerTo
  <2>2. \/ Bar(c)' = [state |-> "idle"]
        \/ /\ Bar(c) = [state |-> "idle"]
           /\ Bar(c)' = [state |-> "asked", word |-> w]
    BY <1>1 DEF Call, Types, Bar, Served
  <2> QED
    BY <1>0, <2>1, <2>2, OneCall
<1>2. ASSUME NEW c \in Client, Send(c)
      PROVE  [Service!Next]_CallBar
  <2>1. /\ queue' = Append(queue, Request(c, sought[c]))
        /\ Request(c, sought[c]) \in Message
        /\ Request(c, sought[c]).to = Server
        /\ pc[c] = "send" /\ pc' = [pc EXCEPT ![c] = "receive"]
        /\ UNCHANGED <<sought, stale, lost>>
    BY <1>2 DEF Send, Types, Request, Message
  <2>2. \A d \in Client : (\E j \in DOMAIN queue' : queue'[j].to = d) <=>
          \E k \in DOMAIN queue : queue[k].to = d
    BY <2>1, AppendedFor
  <2>3. ASSUME NEW d \in Client
        PROVE  Bar(d)' = Bar(d)
    <3>1. CASE d = c
      <4>1. CASE c \in stale \cup lost
        BY <2>1, <3>1, <4>1 DEF Bar
      <4>2. CASE c \notin stale \cup lost
        <5>1. \A k \in DOMAIN queue : queue[k].to # c
          BY <2>1, <4>2 DEF IInv, Own, About, Types
        <5> QED
          BY <2>1, <2>2, <3>1, <5>1 DEF Bar, Served, Types
      <4> QED
        BY <4>1, <4>2
    <3>2. CASE d # c
      <4>1. pc'[d] = pc[d] /\ sought'[d] = sought[d]
        BY <2>1, <3>2 DEF Types
      <4>2. Served(d)' <=> Served(d)
        BY <2>2, <4>1 DEF Served
      <4> QED
        BY <2>1, <4>1, <4>2 DEF Bar, AnswerTo
    <3> QED
      BY <3>1, <3>2
  <2> QED
    BY <1>0, <2>3, OneCall
<1>3. ASSUME NEW c \in Client, Receive(c)
      PROVE  [Service!Next]_CallBar
  <2>0. DOMAIN queue = 1..Len(queue)
    BY DEF Types
  <2>1. PICK i \in 1..Len(queue) :
          queue[i].to = c /\ queue' = RemoveAt(queue, i)
    BY ONLY <1>3, <2>0 DEF Receive, FirstOf
  <2>2. /\ pc' = [pc EXCEPT ![c] = "idle"]
        /\ UNCHANGED <<sought, stale, lost>>
    BY <1>3 DEF Receive
  <2>3. Bar(c)' = [state |-> "idle"]
    BY <2>2 DEF Bar, Types
  <2>4. ASSUME NEW d \in Client \ {c}
        PROVE  Bar(d)' = Bar(d)
    <3>1. (\E j \in DOMAIN queue' : queue'[j].to = d) <=>
            \E k \in DOMAIN queue : queue[k].to = d
      BY <2>1, StillServed
    <3> QED
      BY <2>2, <3>1 DEF Bar, Served, Types, AnswerTo
  <2> QED
    BY <1>0, <2>3, <2>4, OneCall
<1>4. CASE ServerReceive
  <2>1. PICK i \in 1..Len(queue) :
          queue[i].to = Server /\ queue' = RemoveAt(queue, i)
    BY <1>4 DEF ServerReceive, FirstOf, Types
  <2>2. ASSUME NEW d \in Client
        PROVE  Bar(d)' = Bar(d)
    <3>1. (\E j \in DOMAIN queue' : queue'[j].to = d) <=>
            \E k \in DOMAIN queue : queue[k].to = d
      BY <2>1, StillServed
    <3> QED
      BY <1>4, <3>1 DEF ServerReceive, Bar, Served, AnswerTo
  <2>3. hold'.from \in Client
    BY <1>0, <1>4 DEF ServerReceive, Types
  <2> QED
    BY <1>0, <2>2, <2>3, OneCall
<1>5. CASE ServerReply
  <2>0. PICK c \in Client : c = hold.from
    BY <1>5 DEF ServerReply, Types
  <2>1. /\ queue' = Append(queue, Reply(c, AnswerTo(hold.body)))
        /\ Reply(c, AnswerTo(hold.body)) \in Message
        /\ Reply(c, AnswerTo(hold.body)).to = c
        /\ spc = "reply"
        /\ UNCHANGED <<pc, sought, stale, lost>>
    BY <1>5, <2>0, AnswerType DEF ServerReply, Types, Reply, Message
  <2>2. \A d \in Client : (\E j \in DOMAIN queue' : queue'[j].to = d) <=>
          d = c \/ \E k \in DOMAIN queue : queue[k].to = d
    BY <2>1, AppendedFor
  <2>3. \A d \in Client \ {c} : Bar(d)' = Bar(d)
    BY <2>1, <2>2 DEF Bar, Served, AnswerTo
  <2>4. CASE c \in stale \cup lost
    <3>1. Bar(c)' = [state |-> "idle"]
      BY <2>1, <2>4 DEF Bar
    <3> QED
      BY <1>0, <2>3, <3>1, OneCall
  <2>5. CASE c \notin stale \cup lost
    <3>1. Own(c)
      BY <2>5 DEF IInv
    <3>2. pc[c] = "receive" /\ \A k \in DOMAIN queue : queue[k].to # c
      <4>1. pc[c] = "receive" /\ \A k \in 1..Len(queue) : ~About(c, queue[k])
        BY <2>0, <2>1, <3>1 DEF Own
      <4>2. DOMAIN queue = 1..Len(queue)
        BY DEF Types
      <4> QED
        BY <4>1, <4>2 DEF About
    <3>3. Bar(c) = [state |-> "asked", word |-> sought[c]]
      BY <2>5, <3>2 DEF Bar, Served
    <3>4. \E j \in DOMAIN queue' : queue'[j].to = c
      BY <2>2
    <3>5. Bar(c)' = [state |-> "answered", word |-> sought[c],
                     text |-> AnswerTo(sought[c])]
      BY <2>1, <2>5, <3>2, <3>4 DEF Bar, Served, AnswerTo
    <3>6. /\ Bar(c).state = "asked"
          /\ Bar(c)' = [state |-> "answered", word |-> Bar(c).word,
                        text |-> AnswerTo(Bar(c).word)]
      BY <3>3, <3>5
    <3> QED
      BY <1>0, <2>3, <3>6, OneCall
  <2> QED
    BY <2>4, <2>5
<1>6. ASSUME NEW c \in Client, Kill(c) \/ Reuse(c)
      PROVE  [Service!Next]_CallBar
  <2>1. Bar(c)' = [state |-> "idle"]
    BY <1>6 DEF Kill, Reuse, Bar, Types
  <2>2. \A d \in Client \ {c} : Bar(d)' = Bar(d)
    BY <1>6 DEF Kill, Reuse, Bar, Served, AnswerTo, Types
  <2> QED
    BY <1>0, <2>1, <2>2, OneCall
<1>7. CASE Stop
  <2>1. CASE spc = "reply"
    <3>0. PICK c \in Client : c = hold.from
      BY <2>1 DEF Types
    <3>1. lost' = lost \cup {c} /\ UNCHANGED <<queue, pc, sought, stale>>
      BY <1>7, <2>1, <3>0 DEF Stop
    <3>2. Bar(c)' = [state |-> "idle"]
      BY <3>1 DEF Bar
    <3>3. \A d \in Client \ {c} : Bar(d)' = Bar(d)
      BY <3>1 DEF Bar, Served, AnswerTo
    <3> QED
      BY <1>0, <3>2, <3>3, OneCall
  <2>2. CASE spc # "reply"
    <3>1. CallBar' = CallBar
      BY <1>7, <2>2 DEF Stop, CallBar, Served, ReplyOf
    <3> QED
      BY <3>1
  <2> QED
    BY <2>1, <2>2
<1>8. CASE Restart \/ UNCHANGED vars
  <2>1. CallBar' = CallBar
    BY <1>8 DEF Restart, vars, CallBar, Served, ReplyOf
  <2> QED
    BY <2>1
<1> QED
  BY <1>1, <1>2, <1>3, <1>4, <1>5, <1>6, <1>7, <1>8
  DEF Next, ClientStep, ServerStep

(* Every step on the shared queue is a step of the service, or none: no    *)
(* call is answered but with the definition of its own word, and none      *)
(* twice, whatever is killed and however many clients there are.           *)
THEOREM ImplementsService == Spec => Service!Spec
<1>1. Init => Service!Init
  BY DEF Init, CallBar, Service!Init, Service!Idle
<1>2. Types /\ IInv /\ [Next]_vars => [Service!Next]_CallBar
  BY StepMaps
<1> QED
  BY <1>1, <1>2, MsgqInvariant, PTL DEF Spec, Service!Spec
=============================================================================
