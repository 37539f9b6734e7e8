---------------------------- MODULE Sockets_proofs ----------------------------
(***************************************************************************)
(* Proofs about the programs of MCSockets, for any clients, words, files,  *)
(* bounds and faults: first about the stream sockets, whose module it      *)
(* extends, then about the others, where each invariant speaks of the      *)
(* states in which program names its program, and the others' variables    *)
(* rest.                                                                   *)
(***************************************************************************)
EXTENDS MCSockets, Library_proofs

(***************************************************************************)
(* The stream-socket dictionary: what a user is told is the answer to the  *)
(* word typed, as long as the connection lasts.                            *)
(***************************************************************************)
\* All that TypeOK says except the bound on the server's children.
Types ==
  /\ pc \in [Client -> {"start", "connect", "write", "read", "idle", "gone"}]
  /\ calls \in [Client -> 0..MaxCalls]
  /\ sought \in [Client -> Word \cup {Blank}]
  /\ result \in [Client -> Known \cup {Absent, Blank}]
  /\ request \in [Client -> Word \cup {Blank}]
  /\ reply \in [Client -> Known \cup {Absent, Blank}]
  /\ conn \in [Client -> {"none", "queued", "made"}]
  /\ open \in [Client -> SUBSET {"server", "child"}]
  /\ child \in [Client -> {"none", "read", "answer", "zombie"}]
  /\ todo \in [Client -> Word \cup {Blank}]
  /\ spc \in {"accept", "fork", "close", "dead"}
  /\ cd \in Client \cup {Bad}
  /\ backlog \in Seq(Client)
  /\ bad \in 0..MaxBad
  /\ spc = "fork" /\ cd = Bad => bad < MaxBad

LEMMA AnswerType ==
  \A w \in Word : AnswerTo(w) \in Known \cup {Absent} /\ AnswerTo(w) # Blank
BY StreamAssumption DEF AnswerTo

LEMMA OpenType ==
  ASSUME NEW P, NEW o \in [Client -> SUBSET P], NEW c \in Client,
         NEW S \in SUBSET P
  PROVE  [o EXCEPT ![c] = S] \in [Client -> SUBSET P]
OBVIOUS

\* A step of each kind keeps the types.
LEMMA TypesStep ==
  ASSUME Types, [Next]_vars
  PROVE  Types'
<1> USE StreamAssumption DEF Types, stream, server, client
<1>1. ASSUME NEW c \in Client, NEW w \in Word, Call(c, w)
      PROVE  Types'
  BY <1>1 DEF Call
<1>2. ASSUME NEW c \in Client, Gone(c)
      PROVE  Types'
  BY <1>2 DEF Gone
<1>3. ASSUME NEW c \in Client, Connect(c)
      PROVE  Types'
  <2>1. CASE Gone(c)
    BY <1>2, <2>1
  <2>2. CASE spc # "dead" /\ backlog' = Append(backlog, c)
    <3>1. Append(backlog, c) \in Seq(Client)
      OBVIOUS
    <3>2. /\ pc' = [pc EXCEPT ![c] = "write"]
          /\ conn' = [conn EXCEPT ![c] = "queued"]
          /\ UNCHANGED <<calls, sought, result, stream, open, child, todo, spc,
                         cd, bad>>
      BY <1>3, <2>2 DEF Connect
    <3>3. /\ pc' \in [Client -> {"start", "connect", "write", "read", "idle", "gone"}]
          /\ conn' \in [Client -> {"none", "queued", "made"}]
      BY <3>2
    <3> QED
      BY <2>2, <3>1, <3>2, <3>3
  <2> QED
    BY <1>3, <2>1, <2>2 DEF Connect
<1>4. ASSUME NEW c \in Client, Write(c)
      PROVE  Types'
  <2>1. CASE Gone(c)
    BY <1>2, <2>1
  <2>2. CASE /\ pc' = [pc EXCEPT ![c] = "read"]
             /\ request' = [request EXCEPT ![c] = sought[c]]
             /\ UNCHANGED <<calls, sought, result, reply, conn, open, child,
                            todo, server>>
    <3>1. request' \in [Client -> Word \cup {Blank}]
      BY <2>2
    <3>2. pc' \in [Client -> {"start", "connect", "write", "read", "idle", "gone"}]
      BY <2>2
    <3> QED
      BY <2>2, <3>1, <3>2
  <2> QED
    BY <1>4, <2>1, <2>2 DEF Write
<1>5. ASSUME NEW c \in Client, Read(c)
      PROVE  Types'
  <2>1. CASE Gone(c)
    BY <1>2, <2>1
  <2>2. CASE /\ pc' = [pc EXCEPT ![c] = "idle"]
             /\ UNCHANGED <<calls, sought, result, stream, conn, open, child,
                            todo, server>>
    <3>1. pc' \in [Client -> {"start", "connect", "write", "read", "idle", "gone"}]
      BY <2>2
    <3> QED
      BY <2>2, <3>1
  <2>3. CASE /\ pc' = [pc EXCEPT ![c] = "idle"]
             /\ result' = [result EXCEPT ![c] = reply[c]]
             /\ reply' = [reply EXCEPT ![c] = Blank]
             /\ UNCHANGED <<calls, sought, request, conn, open, child, todo,
                            server>>
    <3>1. result' \in [Client -> Known \cup {Absent, Blank}]
      BY <2>3
    <3>2. reply' \in [Client -> Known \cup {Absent, Blank}]
      BY <2>3
    <3>3. pc' \in [Client -> {"start", "connect", "write", "read", "idle", "gone"}]
      BY <2>3
    <3> QED
      BY <2>3, <3>1, <3>2, <3>3
  <2> QED
    BY <1>5, <2>1, <2>2, <2>3 DEF Read
<1>6. CASE Accept
  <2>1. CASE backlog # <<>> /\ cd' = Head(backlog)
    <3>1. Head(backlog) \in Client /\ Tail(backlog) \in Seq(Client)
      BY <2>1
    <3>2. conn' \in [Client -> {"none", "queued", "made"}]
      BY <1>6, <2>1, <3>1, StreamAssumption DEF Accept
    <3>3. open' \in [Client -> SUBSET {"server", "child"}]
      <4>1. {"server"} \in SUBSET {"server", "child"}
        OBVIOUS
      <4>2. open' = [open EXCEPT ![Head(backlog)] = {"server"}]
        BY <1>6, <2>1, <3>1, StreamAssumption DEF Accept
      <4> QED
        BY <3>1, <4>1, <4>2, OpenType
    <3>4. cd' # Bad
      BY <2>1, <3>1
    <3> QED
      BY <1>6, <2>1, <3>1, <3>2, <3>3, <3>4 DEF Accept
  <2>2. CASE cd' = Bad
    BY <1>6, <2>2 DEF Accept
  <2> QED
    BY <1>6, <2>1, <2>2 DEF Accept
<1>7. CASE Fork
  <2>1. CASE cd = Bad
    BY <1>7, <2>1 DEF Fork
  <2>2. CASE cd # Bad
    <3>1. open' \in [Client -> SUBSET {"server", "child"}]
      <4>1. cd \in Client /\ open[cd] \cup {"child"} \in SUBSET {"server", "child"}
        BY <2>2
      <4>2. open' = [open EXCEPT ![cd] = open[cd] \cup {"child"}]
        BY <1>7, <2>2 DEF Fork
      <4> QED
        BY <4>1, <4>2, OpenType
    <3>2. child' \in [Client -> {"none", "read", "answer", "zombie"}]
      BY <1>7, <2>2 DEF Fork
    <3>3. spc' = "close"
          /\ UNCHANGED <<client, stream, conn, todo, cd, backlog, bad>>
      BY <1>7, <2>2 DEF Fork
    <3> QED
      BY <3>1, <3>2, <3>3
  <2> QED
    BY <2>1, <2>2
<1>8. CASE ServerEnds
  BY <1>8 DEF ServerEnds
<1>9. CASE Close
  <2>1. open' \in [Client -> SUBSET {"server", "child"}]
    <3>1. CASE cd = Bad
      BY <1>9, <3>1 DEF Close
    <3>2. CASE cd # Bad
      <4>1. cd \in Client /\ open[cd] \ {"server"} \in SUBSET {"server", "child"}
        BY <3>2
      <4>2. open' = [open EXCEPT ![cd] = open[cd] \ {"server"}]
        BY <1>9, <3>2 DEF Close
      <4> QED
        BY <4>1, <4>2, OpenType
    <3> QED
      BY <3>1, <3>2
  <2> QED
    BY <1>9, <2>1 DEF Close
<1>10. ASSUME NEW c \in Client, Exit(c)
       PROVE  Types'
  BY <1>10 DEF Exit
<1>11. ASSUME NEW c \in Client, ChildRead(c)
       PROVE  Types'
  <2>1. CASE Exit(c)
    BY <1>10, <2>1
  <2>2. CASE /\ child' = [child EXCEPT ![c] = "answer"]
             /\ todo' = [todo EXCEPT ![c] = request[c]]
             /\ request' = [request EXCEPT ![c] = Blank]
             /\ UNCHANGED <<client, reply, conn, open, server>>
    <3>1. child' \in [Client -> {"none", "read", "answer", "zombie"}]
      BY <2>2
    <3>2. todo' \in [Client -> Word \cup {Blank}]
      BY <2>2
    <3>3. request' \in [Client -> Word \cup {Blank}]
      BY <2>2
    <3> QED
      BY <2>2, <3>1, <3>2, <3>3
  <2> QED
    BY <1>11, <2>1, <2>2 DEF ChildRead
<1>12. ASSUME NEW c \in Client, ChildAnswer(c)
       PROVE  Types'
  <2>1. CASE Exit(c)
    BY <1>10, <2>1
  <2>2. CASE /\ child' = [child EXCEPT ![c] = "read"]
             /\ reply' = [reply EXCEPT ![c] = AnswerTo(todo[c])]
             /\ UNCHANGED <<client, request, conn, open, todo, server>>
    <3>1. child' \in [Client -> {"none", "read", "answer", "zombie"}]
      BY <2>2
    <3>2. AnswerTo(todo[c]) \in Known \cup {Absent}
      BY DEF AnswerTo
    <3>3. reply' \in [Client -> Known \cup {Absent, Blank}]
      BY <2>2, <3>2
    <3> QED
      BY <2>2, <3>1, <3>3
  <2> QED
    BY <1>12, <2>1, <2>2 DEF ChildAnswer
<1>13. CASE UNCHANGED vars
  BY <1>13 DEF vars
<1> QED
  BY <1>1, <1>2, <1>3, <1>4, <1>5, <1>6, <1>7, <1>8, <1>9, <1>10, <1>11,
     <1>12, <1>13
  DEF Next, ClientStep, ChildStep, ServerStep, ForkFails, ServerDies, Leave,
      ChildDies

\* The processes of the server: only a fork adds one, and only below the limit.
LEMMA ChildrenStep ==
  ASSUME Types, Children <= MaxChildren, [Next]_vars
  PROVE  Children' <= MaxChildren
<1> DEFINE Forked == {c \in Client : child[c] # "none"}
<1>0. IsFiniteSet(Forked) /\ Cardinality(Forked) \in Nat
  <2>1. Forked \subseteq Client
    OBVIOUS
  <2> QED
    BY <2>1, StreamAssumption, FS_Subset, FS_CardinalityType
<1>1. CASE Fork
  <2>1. CASE cd = Bad
    BY <1>0, <1>1, <2>1, StreamAssumption DEF Fork, Children, Types
  <2>2. CASE cd # Bad
    <3>1. Forked' = Forked \cup {cd}
      BY <1>1, <2>2 DEF Fork, Types
    <3>2. Cardinality(Forked') <= Cardinality(Forked) + 1
      <4>1. Cardinality(Forked \cup {cd}) =
              IF cd \in Forked THEN Cardinality(Forked) ELSE Cardinality(Forked) + 1
        BY <1>0, FS_AddElement
      <4> HIDE DEF Forked
      <4> QED
        BY <1>0, <3>1, <4>1
    <3>3. Cardinality(Forked') \in Nat
      BY <1>0, <3>1, FS_AddElement, FS_CardinalityType
    <3> QED
      BY <1>0, <1>1, <2>2, <3>2, <3>3, StreamAssumption
      DEF Fork, Children, Types
  <2> QED
    BY <2>1, <2>2
<1>2. CASE UNCHANGED <<child, bad>>
  BY <1>2 DEF Children
<1>3. ASSUME NEW c \in Client, child[c] # "none", UNCHANGED bad,
             \E s \in {"read", "answer", "zombie"} :
               child' = [child EXCEPT ![c] = s]
      PROVE  Children' <= MaxChildren
  <2>1. Forked' = Forked
    BY <1>3 DEF Types
  <2> QED
    BY <1>3, <2>1 DEF Children
<1>4. ASSUME NEW c \in Client, ChildRead(c) \/ ChildAnswer(c) \/ ChildDies(c)
      PROVE  Children' <= MaxChildren
  BY <1>3, <1>4
  DEF ChildRead, ChildAnswer, ChildDies, Exit, server
<1> QED
  BY <1>1, <1>2, <1>4
  DEF Next, Call, Gone, Connect, Write, Read, Leave, Accept, ForkFails, ServerDies,
      ServerEnds, Close, ClientStep, ChildStep, ServerStep, server, vars

(* Clients, server and children keep their types, and the server never has *)
(* more processes than it may, though it waits for none (usock_server.c:   *)
(* 55-62).                                                                 *)
THEOREM TypeCorrect == Spec => []TypeOK
<1> DEFINE TInv == Types /\ Children <= MaxChildren
<1>1. Init => TInv
  <2> SUFFICES ASSUME Init PROVE TInv
    OBVIOUS
  <2>1. {c \in Client : child[c] # "none"} = {}
    BY DEF Init
  <2>2. Children = 0
    <3>1. Cardinality({c \in Client : child[c] # "none"}) = 0
      BY <2>1, FS_EmptySet
    <3> QED
      BY <3>1 DEF Init, Children
  <2> QED
    BY <2>2, StreamAssumption DEF Init, Types
<1>2. TInv /\ [Next]_vars => TInv'
  BY TypesStep, ChildrenStep
<1>3. TInv => TypeOK
  BY DEF Types, TypeOK
<1> QED
  BY <1>1, <1>2, <1>3, PTL DEF Spec
-----------------------------------------------------------------------------
\* Who has a connection open: nobody before it is made, its child as long as
\* that lives, and the server between its accept and its close.
Linked(c) ==
  /\ conn[c] # "made" => open[c] = {} /\ child[c] = "none"
  /\ pc[c] \in {"start", "connect"} =>
       conn[c] = "none" /\ request[c] = Blank
  /\ pc[c] \notin {"read", "gone"} => reply[c] = Blank
  /\ child[c] \in {"read", "answer"} <=> "child" \in open[c]

Accepted ==
  /\ \A i \in 1..Len(backlog) : conn[backlog[i]] = "queued"
  /\ \A i, j \in 1..Len(backlog) : backlog[i] = backlog[j] => i = j
  /\ spc = "fork" /\ cd # Bad =>
       conn[cd] = "made" /\ child[cd] = "none" /\ "server" \in open[cd]
  /\ spc = "fork" /\ cd = Bad => bad < MaxBad

\* What is under way on a connection that lasts: nothing but the one call, as
\* its request, in the child's hands or as its reply.
Dialogue(c) ==
  ~Closed(c) /\ pc[c] # "gone" =>
    /\ pc[c] = "idle" => result[c] = AnswerTo(sought[c])
    /\ pc[c] # "read" =>
         request[c] = Blank /\ reply[c] = Blank /\ child[c] # "answer"
    /\ request[c] \in {Blank, sought[c]}
    /\ reply[c] \in {Blank, AnswerTo(sought[c])}
    /\ reply[c] # Blank => request[c] = Blank /\ child[c] # "answer"
    /\ child[c] = "answer" => request[c] = Blank /\ todo[c] = sought[c]

IInv == Accepted /\ \A c \in Client : Linked(c) /\ Dialogue(c)
LEMMA OneMoreIndex ==
  ASSUME NEW n \in Nat, NEW k \in 1..(n + 1)
  PROVE  k \in 1..n \/ k = n + 1
OBVIOUS

\* A connection is accepted once, and forked for while the server has it open.
LEMMA AcceptedStep ==
  ASSUME Types, IInv, [Next]_vars
  PROVE  Accepted'
<1> USE StreamAssumption DEF Types, Accepted, stream, server, client
<1>0. Accepted /\ \A c \in Client : Linked(c)
  BY DEF IInv
<1>1. ASSUME NEW c \in Client, Connect(c), spc # "dead",
             backlog' = Append(backlog, c), conn' = [conn EXCEPT ![c] = "queued"]
      PROVE  Accepted'
  <2>1. conn[c] = "none"
    BY <1>0, <1>1 DEF Linked, Connect
  <2>2. /\ Len(backlog') = Len(backlog) + 1
        /\ backlog'[Len(backlog')] = c
        /\ \A i \in 1..Len(backlog) : backlog'[i] = backlog[i]
    BY <1>1
  <2>3. \A i \in 1..Len(backlog) : backlog[i] # c /\ backlog[i] \in Client
    BY <1>0, <2>1
  <2>4. UNCHANGED <<spc, cd, bad, child, open>>
    BY <1>1 DEF Connect
  <2>5. ASSUME NEW k \in 1..Len(backlog')
        PROVE  conn'[backlog'[k]] = "queued"
    <3>1. CASE k = Len(backlog')
      BY <1>1, <2>2, <3>1
    <3>2. CASE k \in 1..Len(backlog)
      BY <1>0, <1>1, <2>2, <2>3, <3>2
    <3>3. Len(backlog) \in Nat
      OBVIOUS
    <3> QED
      BY <2>2, <3>1, <3>2, <3>3, OneMoreIndex
  <2>6. ASSUME NEW i \in 1..Len(backlog'), NEW j \in 1..Len(backlog'),
               backlog'[i] = backlog'[j]
        PROVE  i = j
    <3>1. Len(backlog) \in Nat
      OBVIOUS
    <3>2. i \in 1..Len(backlog) \/ i = Len(backlog')
      BY <2>2, <3>1, OneMoreIndex
    <3>3. j \in 1..Len(backlog) \/ j = Len(backlog')
      BY <2>2, <3>1, OneMoreIndex
    <3>4. CASE i \in 1..Len(backlog) /\ j \in 1..Len(backlog)
      <4>1. backlog[i] = backlog[j]
        BY <2>2, <2>6, <3>4
      <4> QED
        BY <1>0, <3>4, <4>1
    <3>5. CASE i = Len(backlog') /\ j \in 1..Len(backlog)
      BY <2>2, <2>3, <2>6, <3>5
    <3>6. CASE i \in 1..Len(backlog) /\ j = Len(backlog')
      BY <2>2, <2>3, <2>6, <3>6
    <3> QED
      BY <3>2, <3>3, <3>4, <3>5, <3>6
  <2>7. spc = "fork" /\ cd # Bad => cd # c
    BY <1>0, <2>1
  <2> QED
    BY <1>0, <1>1, <2>4, <2>5, <2>6, <2>7
<1>2. CASE Accept
  <2>1. CASE backlog # <<>> /\ cd' = Head(backlog)
    <3>1. /\ Head(backlog) = backlog[1] /\ Head(backlog) \in Client
          /\ Len(Tail(backlog)) = Len(backlog) - 1
          /\ \A i \in 1..Len(Tail(backlog)) : Tail(backlog)[i] = backlog[i + 1]
          /\ 1 \in 1..Len(backlog)
      BY <2>1
    <3>2. cd' # Bad
      BY <2>1, <3>1
    <3>3. /\ backlog' = Tail(backlog)
          /\ conn' = [conn EXCEPT ![cd'] = "made"]
          /\ open' = [open EXCEPT ![cd'] = {"server"}]
          /\ UNCHANGED child
      BY <1>2, <2>1, <3>2 DEF Accept
    <3>4. \A i \in 1..Len(backlog') :
            /\ i + 1 \in 1..Len(backlog) /\ backlog'[i] = backlog[i + 1]
            /\ backlog'[i] \in Client /\ backlog'[i] # cd'
      BY <1>0, <2>1, <3>1, <3>3
    <3>5. \A i \in 1..Len(backlog') : conn'[backlog'[i]] = "queued"
      BY <1>0, <3>3, <3>4
    <3>6. \A i, j \in 1..Len(backlog') : backlog'[i] = backlog'[j] => i = j
      BY <1>0, <3>4
    <3>7. child[cd'] = "none" /\ conn[cd'] = "queued"
      BY <1>0, <2>1, <3>1 DEF Linked
    <3>8. conn'[cd'] = "made" /\ child'[cd'] = "none" /\ "server" \in open'[cd']
      BY <2>1, <3>1, <3>3, <3>7
    <3> QED
      BY <3>2, <3>5, <3>6, <3>8
  <2>2. CASE cd' = Bad
    BY <1>0, <1>2, <2>2 DEF Accept
  <2> QED
    BY <1>2, <2>1, <2>2 DEF Accept
<1>3. CASE Fork
  BY <1>0, <1>3 DEF Fork
<1>4. CASE ServerEnds
  BY <1>0, <1>4 DEF ServerEnds
<1>5. CASE Close
  BY <1>0, <1>5 DEF Close
<1>6. ASSUME NEW c \in Client, Exit(c), child[c] \in {"read", "answer"}
      PROVE  Accepted'
  BY <1>0, <1>6 DEF Exit
<1>7. ASSUME NEW c \in Client, ChildStep(c) \/ ChildDies(c)
      PROVE  Accepted'
  <2>1. CASE Exit(c)
    BY <1>6, <1>7, <2>1 DEF ChildStep, ChildRead, ChildAnswer, ChildDies
  <2>2. CASE /\ child[c] # "none"
             /\ \E s \in {"read", "answer"} : child' = [child EXCEPT ![c] = s]
             /\ UNCHANGED <<conn, open, server>>
    BY <1>0, <2>2
  <2> QED
    BY <1>7, <2>1, <2>2 DEF ChildStep, ChildRead, ChildAnswer, ChildDies
<1>8. CASE UNCHANGED <<conn, open, child, spc, cd, backlog, bad>>
  BY <1>0, <1>8
<1> QED
  BY <1>1, <1>2, <1>3, <1>4, <1>5, <1>7, <1>8
  DEF Next, ClientStep, ServerStep, ForkFails, ServerDies, Call, Leave, Gone,
      Connect, Write, Read, vars

\* What a step of each kind does to client d's connection.
LEMMA LinkedStep ==
  ASSUME Types, IInv, [Next]_vars, NEW d \in Client
  PROVE  Linked(d)'
<1> USE StreamAssumption DEF Types, Linked, stream, server, client
<1>0. Accepted /\ Linked(d) /\ Dialogue(d)
  BY DEF IInv
<1>1. ASSUME NEW c \in Client, NEW w \in Word, Call(c, w)
      PROVE  Linked(d)'
  BY <1>0, <1>1 DEF Call
<1>2. ASSUME NEW c \in Client, Gone(c)
      PROVE  Linked(d)'
  BY <1>0, <1>2 DEF Gone
<1>3. ASSUME NEW c \in Client, Connect(c)
      PROVE  Linked(d)'
  BY <1>0, <1>2, <1>3 DEF Connect
<1>4. ASSUME NEW c \in Client, Write(c)
      PROVE  Linked(d)'
  BY <1>0, <1>2, <1>4 DEF Write
<1>5. ASSUME NEW c \in Client, Read(c)
      PROVE  Linked(d)'
  BY <1>0, <1>2, <1>5 DEF Read
<1>6. CASE Accept
  <2>1. CASE backlog # <<>> /\ cd' = Head(backlog)
    <3>1. /\ Head(backlog) \in Client
          /\ conn[Head(backlog)] = "queued"
      BY <1>0, <2>1 DEF Accepted
    <3>2. child[Head(backlog)] = "none" /\ pc[Head(backlog)] \notin {"start", "connect"}
      BY <3>1 DEF IInv
    <3>3. /\ conn' = [conn EXCEPT ![Head(backlog)] = "made"]
          /\ open' = [open EXCEPT ![Head(backlog)] = {"server"}]
          /\ UNCHANGED <<pc, request, reply, child>>
      BY <1>6, <2>1, <3>1 DEF Accept
    <3> QED
      BY <1>0, <3>1, <3>2, <3>3
  <2>2. CASE cd' = Bad
    BY <1>0, <1>6, <2>2 DEF Accept, Accepted
  <2> QED
    BY <1>6, <2>1, <2>2 DEF Accept
<1>7. CASE Fork
  BY <1>0, <1>7 DEF Fork, Accepted
<1>8. CASE ServerEnds
  BY <1>0, <1>8 DEF ServerEnds
<1>9. CASE Close
  <2>1. CASE cd = Bad
    BY <1>0, <1>9, <2>1 DEF Close
  <2>2. CASE cd # Bad
    <3>1. /\ open' = [open EXCEPT ![cd] = @ \ {"server"}]
          /\ UNCHANGED <<pc, conn, child, request, reply>>
      BY <1>9, <2>2 DEF Close
    <3>2. "child" \in open'[d] <=> "child" \in open[d]
      BY <2>2, <3>1
    <3>3. open[d] = {} => open'[d] = {}
      BY <2>2, <3>1
    <3> QED
      BY <1>0, <3>1, <3>2, <3>3
  <2> QED
    BY <2>1, <2>2
<1>10. ASSUME NEW c \in Client, child[c] \in {"read", "answer"}, Exit(c)
       PROVE  Linked(d)'
  BY <1>0, <1>10 DEF Exit
<1>11. ASSUME NEW c \in Client, ChildRead(c)
       PROVE  Linked(d)'
  BY <1>0, <1>10, <1>11 DEF ChildRead
<1>12. ASSUME NEW c \in Client, ChildAnswer(c)
       PROVE  Linked(d)'
  <2>1. Linked(c) /\ Dialogue(c)
    BY DEF IInv
  <2>2. CASE pc[c] # "gone"
    <3>1. pc[c] = "read"
      BY <1>12, <2>1, <2>2 DEF ChildAnswer, Dialogue, Closed
    <3> QED
      BY <1>0, <1>12, <2>1, <2>2, <3>1 DEF ChildAnswer
  <2>3. CASE pc[c] = "gone"
    BY <1>10, <1>12, <2>3 DEF ChildAnswer
  <2> QED
    BY <2>2, <2>3
<1>13. CASE UNCHANGED vars
  BY <1>0, <1>13 DEF vars
<1> QED
  BY <1>1, <1>2, <1>3, <1>4, <1>5, <1>6, <1>7, <1>8, <1>9, <1>10, <1>11,
     <1>12, <1>13
  DEF Next, ClientStep, ChildStep, ServerStep, ForkFails, ServerDies, Leave,
      ChildDies
\* A connection that is closed stays closed, and a dialogue goes on as it must.
LEMMA DialogueStep ==
  ASSUME Types, IInv, [Next]_vars, NEW d \in Client
  PROVE  Dialogue(d)'
<1> USE StreamAssumption DEF Types, Dialogue, Closed, stream, server, client
<1>0. Accepted /\ Linked(d) /\ Dialogue(d)
  BY DEF IInv
<1>1. ASSUME NEW c \in Client, NEW w \in Word, Call(c, w)
      PROVE  Dialogue(d)'
  BY <1>0, <1>1 DEF Call, Linked
<1>2. ASSUME NEW c \in Client, Gone(c)
      PROVE  Dialogue(d)'
  BY <1>0, <1>2 DEF Gone
<1>3. ASSUME NEW c \in Client, Connect(c)
      PROVE  Dialogue(d)'
  BY <1>0, <1>2, <1>3 DEF Connect, Linked
<1>4. ASSUME NEW c \in Client, Write(c)
      PROVE  Dialogue(d)'
  BY <1>0, <1>2, <1>4 DEF Write
<1>5. ASSUME NEW c \in Client, Read(c)
      PROVE  Dialogue(d)'
  BY <1>0, <1>2, <1>5 DEF Read
<1>6. CASE Accept
  <2>1. CASE backlog # <<>> /\ cd' = Head(backlog)
    <3>1. /\ Head(backlog) \in Client
          /\ conn[Head(backlog)] = "queued"
      BY <1>0, <2>1 DEF Accepted
    <3>2. /\ conn' = [conn EXCEPT ![Head(backlog)] = "made"]
          /\ open' = [open EXCEPT ![Head(backlog)] = {"server"}]
          /\ UNCHANGED <<client, stream, child, todo>>
      BY <1>6, <2>1, <3>1 DEF Accept
    <3> QED
      BY <1>0, <3>1, <3>2
  <2>2. CASE cd' = Bad
    <3>1. backlog # <<>> => Head(backlog) \in Client
      OBVIOUS
    <3>2. UNCHANGED <<client, stream, child, todo, conn, open>>
      BY <1>6, <2>2, <3>1 DEF Accept
    <3> QED
      BY <1>0, <3>2
  <2> QED
    BY <1>6, <2>1, <2>2 DEF Accept
<1>7. CASE Fork
  <2>1. CASE cd = Bad
    BY <1>0, <1>7, <2>1 DEF Fork
  <2>2. CASE cd # Bad
    <3>1. "server" \in open[cd] /\ cd \in Client
      BY <1>0, <1>7, <2>2 DEF Fork, Accepted
    <3>2. /\ open' = [open EXCEPT ![cd] = @ \cup {"child"}]
          /\ child' = [child EXCEPT ![cd] = "read"]
          /\ UNCHANGED <<client, stream, conn, todo>>
      BY <1>7, <2>2 DEF Fork
    <3>3. CASE d = cd
      BY <1>0, <1>7, <2>2, <3>1, <3>2, <3>3 DEF Accepted
    <3>4. CASE d # cd
      BY <1>0, <3>1, <3>2, <3>4
    <3> QED
      BY <3>3, <3>4
  <2> QED
    BY <2>1, <2>2
<1>8. CASE ServerEnds
  <2>1. conn[d] # "made" => Closed(d)' \/ conn'[d] = conn[d]
    BY <1>0, <1>8 DEF ServerEnds, Linked
  <2>2. Closed(d) => Closed(d)'
    BY <1>8 DEF ServerEnds
  <2> QED
    BY <1>0, <1>8, <2>1, <2>2 DEF ServerEnds
<1>9. CASE Close
  <2>1. Closed(d) => Closed(d)'
    <3>1. CASE cd = Bad
      BY <1>9, <3>1 DEF Close
    <3>2. CASE cd # Bad
      <4>1. open' = [open EXCEPT ![cd] = @ \ {"server"}] /\ UNCHANGED conn
        BY <1>9, <3>2 DEF Close
      <4>2. open[d] = {} => open'[d] = {}
        BY <3>2, <4>1
      <4> QED
        BY <4>1, <4>2
    <3> QED
      BY <3>1, <3>2
  <2> QED
    BY <1>0, <1>9, <2>1 DEF Close
<1>10. ASSUME NEW c \in Client, Exit(c)
       PROVE  Dialogue(d)'
  <2>1. Closed(d) => Closed(d)'
    BY <1>10 DEF Exit
  <2> QED
    BY <1>0, <1>10, <2>1 DEF Exit
<1>11. ASSUME NEW c \in Client, ChildRead(c)
       PROVE  Dialogue(d)'
  BY <1>0, <1>10, <1>11 DEF ChildRead
<1>12. ASSUME NEW c \in Client, ChildAnswer(c)
       PROVE  Dialogue(d)'
  BY <1>0, <1>10, <1>12 DEF ChildAnswer
<1>13. CASE UNCHANGED vars
  BY <1>0, <1>13 DEF vars
<1> QED
  BY <1>1, <1>2, <1>3, <1>4, <1>5, <1>6, <1>7, <1>8, <1>9, <1>10, <1>11,
     <1>12, <1>13
  DEF Next, ClientStep, ChildStep, ServerStep, ForkFails, ServerDies, Leave,
      ChildDies

LEMMA StreamInvariant == Spec => [](Types /\ IInv)
<1>1. Init => Types /\ IInv
  <2> SUFFICES ASSUME Init PROVE Types /\ IInv
    OBVIOUS
  <2>1. Types
    BY StreamAssumption DEF Init, Types
  <2>2. Accepted
    BY DEF Init, Accepted
  <2>3. \A c \in Client : Linked(c) /\ Dialogue(c)
    BY DEF Init, Linked, Dialogue, Closed
  <2> QED
    BY <2>1, <2>2, <2>3 DEF IInv
<1>2. Types /\ IInv /\ [Next]_vars => (Types /\ IInv)'
  BY TypesStep, AcceptedStep, LinkedStep, DialogueStep DEF IInv
<1> QED
  BY <1>1, <1>2, PTL DEF Spec

(* A user whose connection lasts is told the answer to the word typed,     *)
(* whichever clients, children and servers die meanwhile, however many     *)
(* clients there are (lookup7.c:39-52, usock_server.c:65-83).              *)
THEOREM AnswerCorrect == Spec => []ResultIsAnswer
<1>1. IInv => ResultIsAnswer
  BY DEF IInv, Dialogue, ResultIsAnswer
<1> QED
  BY <1>1, StreamInvariant, PTL
-----------------------------------------------------------------------------
\* Calls that stay as they are, or that come to nothing, are a step of the
\* service.
LEMMA NothingOrFailures ==
  ASSUME \A d \in Client :
           \/ CallBar'[d] = CallBar[d]
           \/ CallBar[d].state = "asked" /\ CallBar'[d] = [state |-> "idle"]
  PROVE  [Service!Next]_CallBar
<1> DEFINE Failed == {d \in Client : CallBar'[d] # CallBar[d]}
<1>1. CallBar' = [d \in Client |-> IF d \in Failed THEN [state |-> "idle"]
                                   ELSE CallBar[d]]
  BY DEF CallBar
<1>2. \A d \in Failed : CallBar[d].state = "asked"
  OBVIOUS
<1>3. Service!Fail(Failed)
  BY <1>1, <1>2 DEF Service!Fail, Service!Idle
<1> QED
  BY <1>3 DEF Service!Next

\* So is one call that is asked, answered or taken while the others stand.
LEMMA OneCall ==
  ASSUME NEW c \in Client,
         \A d \in Client \ {c} : CallBar'[d] = CallBar[d],
         \/ \E w \in Word : /\ CallBar[c] = [state |-> "idle"]
                            /\ CallBar'[c] = [state |-> "asked", word |-> w]
         \/ /\ CallBar[c].state = "asked"
            /\ CallBar'[c] = [state |-> "answered", word |-> CallBar[c].word,
                              text |-> AnswerTo(CallBar[c].word)]
         \/ CallBar[c].state = "answered" /\ CallBar'[c] = [state |-> "idle"]
  PROVE  [Service!Next]_CallBar
<1>1. /\ CallBar = [d \in Client |-> CallBar[d]]
      /\ CallBar' = [d \in Client |-> CallBar'[d]]
  BY DEF CallBar
<1>2. CallBar' = [CallBar EXCEPT ![c] = CallBar'[c]]
  BY <1>1
<1>3. CASE \E w \in Word : /\ CallBar[c] = [state |-> "idle"]
                          /\ CallBar'[c] = [state |-> "asked", word |-> w]
  <2>1. \E w \in Word : Service!Ask(c, w)
    BY <1>2, <1>3 DEF Service!Ask, Service!Idle, Service!Asked
  <2> QED
    BY <2>1 DEF Service!Next
<1>4. CASE /\ CallBar[c].state = "asked"
           /\ CallBar'[c] = [state |-> "answered", word |-> CallBar[c].word,
                             text |-> AnswerTo(CallBar[c].word)]
  <2>1. Service!Serve(c)
    BY <1>1, <1>2, <1>4 DEF Service!Serve, Service!Answered
  <2> QED
    BY <2>1 DEF Service!Next
<1>5. CASE CallBar[c].state = "answered" /\ CallBar'[c] = [state |-> "idle"]
  <2>1. Service!Collect(c)
    BY <1>2, <1>5 DEF Service!Collect, Service!Idle
  <2> QED
    BY <2>1 DEF Service!Next
<1> QED
  BY <1>3, <1>4, <1>5

LEMMA StepMaps ==
  ASSUME Types, IInv, [Next]_vars
  PROVE  [Service!Next]_CallBar
<1> USE StreamAssumption DEF Types, Closed, stream, server, client
<1>0. Accepted /\ \A d \in Client : Linked(d) /\ Dialogue(d)
  BY DEF IInv
<1>1. ASSUME NEW c \in Client, NEW w \in Word, Call(c, w)
      PROVE  [Service!Next]_CallBar
  <2>1. \A d \in Client \ {c} : CallBar'[d] = CallBar[d]
    BY <1>1 DEF Call, CallBar
  <2>2. CallBar[c] = [state |-> "idle"]
    BY <1>1 DEF Call, CallBar
  <2>3. CallBar'[c] \in {[state |-> "idle"], [state |-> "asked", word |-> w]}
    BY <1>1 DEF Call, CallBar
  <2> QED
    BY <2>1, <2>2, <2>3, OneCall, NothingOrFailures
<1>2. ASSUME NEW c \in Client, Gone(c)
      PROVE  [Service!Next]_CallBar
  <2>1. \A d \in Client \ {c} : CallBar'[d] = CallBar[d]
    BY <1>2 DEF Gone, CallBar
  <2>2. CallBar'[c] = [state |-> "idle"]
    BY <1>2 DEF Gone, CallBar
  <2>3. CallBar[c] = [state |-> "idle"] \/ CallBar[c].state \in {"asked", "answered"}
    BY DEF CallBar
  <2> QED
    BY <2>1, <2>2, <2>3, OneCall, NothingOrFailures
<1>3. ASSUME NEW c \in Client, Connect(c)
      PROVE  [Service!Next]_CallBar
  <2>1. CASE Gone(c)
    BY <1>2, <2>1
  <2>2. CASE ~Gone(c)
    <3>1. conn[c] = "none" /\ reply[c] = Blank
      BY <1>0, <1>3 DEF Connect, Linked
    <3>2. \A d \in Client : CallBar'[d] = CallBar[d]
      BY <1>3, <2>2, <3>1 DEF Connect, CallBar
    <3> QED
      BY <3>2, NothingOrFailures
  <2> QED
    BY <2>1, <2>2
<1>4. ASSUME NEW c \in Client, Write(c)
      PROVE  [Service!Next]_CallBar
  <2>1. CASE Gone(c)
    BY <1>2, <2>1
  <2>2. CASE ~Gone(c)
    <3>1. reply[c] = Blank
      BY <1>0, <1>4 DEF Write, Linked
    <3>2. \A d \in Client : CallBar'[d] = CallBar[d]
      BY <1>4, <2>2, <3>1 DEF Write, CallBar
    <3> QED
      BY <3>2, NothingOrFailures
  <2> QED
    BY <2>1, <2>2
<1>5. ASSUME NEW c \in Client, Read(c)
      PROVE  [Service!Next]_CallBar
  <2>1. CASE Gone(c)
    BY <1>2, <2>1
  <2>2. CASE ~Gone(c)
    <3>1. \A d \in Client \ {c} : CallBar'[d] = CallBar[d]
      BY <1>5, <2>2 DEF Read, CallBar
    <3>2. CallBar'[c] = [state |-> "idle"]
      BY <1>5, <2>2 DEF Read, CallBar
    <3>3. CallBar[c].state = "answered" \/ CallBar[c] = [state |-> "idle"]
      BY <1>5, <2>2 DEF Read, CallBar
    <3> QED
      BY <3>1, <3>2, <3>3, OneCall, NothingOrFailures
  <2> QED
    BY <2>1, <2>2
<1>6. CASE Accept
  <2>1. CASE backlog # <<>> /\ cd' = Head(backlog)
    <3>1. /\ Head(backlog) \in Client
          /\ conn[Head(backlog)] = "queued"
      BY <1>0, <2>1 DEF Accepted
    <3>2. /\ conn' = [conn EXCEPT ![Head(backlog)] = "made"]
          /\ open' = [open EXCEPT ![Head(backlog)] = {"server"}]
          /\ UNCHANGED <<client, stream, child, todo>>
      BY <1>6, <2>1, <3>1 DEF Accept
    <3>3. \A d \in Client : Closed(d)' <=> Closed(d)
      BY <3>1, <3>2
    <3>4. CallBar' = CallBar
      BY <3>2, <3>3 DEF CallBar
    <3> QED
      BY <3>4
  <2>2. CASE cd' = Bad
    <3>1. CallBar' = CallBar
      BY <1>0, <1>6, <2>2 DEF Accept, Accepted, CallBar
    <3> QED
      BY <3>1
  <2> QED
    BY <1>6, <2>1, <2>2 DEF Accept
<1>7. CASE Fork
  <2>1. \A d \in Client : (open'[d] = {}) <=> (open[d] = {})
    <3>1. CASE cd = Bad
      BY <1>7, <3>1 DEF Fork
    <3>2. CASE cd # Bad
      <4>1. cd \in Client /\ "server" \in open[cd]
        BY <1>0, <1>7, <3>2 DEF Fork, Accepted
      <4>2. open' = [open EXCEPT ![cd] = @ \cup {"child"}]
        BY <1>7, <3>2 DEF Fork
      <4>3. ASSUME NEW d \in Client
            PROVE  (open'[d] = {}) <=> (open[d] = {})
        <5>1. CASE d = cd
          BY <4>1, <4>2, <5>1
        <5>2. CASE d # cd
          BY <4>1, <4>2, <5>2
        <5> QED
          BY <5>1, <5>2
      <4> QED
        BY <4>3
    <3> QED
      BY <3>1, <3>2
  <2>2. CallBar' = CallBar
    BY <1>7, <2>1 DEF Fork, CallBar
  <2> QED
    BY <2>2
<1>8. ASSUME UNCHANGED <<client, reply>>,
             \A d \in Client : Closed(d) => Closed(d)'
      PROVE  [Service!Next]_CallBar
  <2>1. ASSUME NEW d \in Client
        PROVE  \/ CallBar'[d] = CallBar[d]
               \/ CallBar[d].state = "asked" /\ CallBar'[d] = [state |-> "idle"]
    BY <1>8 DEF CallBar
  <2> QED
    BY <2>1, NothingOrFailures
<1>9. CASE ServerEnds
  <2>1. \A d \in Client : Closed(d) => Closed(d)'
    BY <1>9 DEF ServerEnds
  <2> QED
    BY <1>8, <1>9, <2>1 DEF ServerEnds
<1>10. CASE Close
  <2>1. \A d \in Client : open[d] = {} => open'[d] = {}
    <3>1. CASE cd = Bad
      BY <1>10, <3>1 DEF Close
    <3>2. CASE cd # Bad
      <4>1. open' = [open EXCEPT ![cd] = @ \ {"server"}]
        BY <1>10, <3>2 DEF Close
      <4>2. ASSUME NEW d \in Client, open[d] = {}
            PROVE  open'[d] = {}
        <5>1. CASE d = cd
          BY <4>1, <4>2, <5>1
        <5>2. CASE d # cd
          BY <4>1, <4>2, <5>2
        <5> QED
          BY <5>1, <5>2
      <4> QED
        BY <4>2
    <3> QED
      BY <3>1, <3>2
  <2> QED
    BY <1>8, <1>10, <2>1 DEF Close
<1>11. ASSUME NEW c \in Client, Exit(c)
       PROVE  [Service!Next]_CallBar
  <2>1. \A d \in Client : Closed(d) => Closed(d)'
    BY <1>11 DEF Exit
  <2> QED
    BY <1>8, <1>11, <2>1 DEF Exit
<1>12. ASSUME NEW c \in Client, ChildRead(c)
       PROVE  [Service!Next]_CallBar
  <2>1. CASE Exit(c)
    BY <1>11, <2>1
  <2>2. CASE ~Exit(c)
    BY <1>8, <1>12, <2>2 DEF ChildRead
  <2> QED
    BY <2>1, <2>2
<1>13. ASSUME NEW c \in Client, ChildAnswer(c)
       PROVE  [Service!Next]_CallBar
  <2>1. CASE Exit(c)
    BY <1>11, <2>1
  <2>2. CASE ~Exit(c)
    <3>1. ~Closed(c) /\ child[c] = "answer" /\ pc[c] # "gone"
      BY <1>0, <1>13, <2>2 DEF ChildAnswer, Linked
    <3>2. pc[c] = "read" /\ reply[c] = Blank /\ todo[c] = sought[c]
      BY <1>0, <3>1 DEF Dialogue
    <3>3. CallBar[c] = [state |-> "asked", word |-> sought[c]]
      BY <3>1, <3>2 DEF CallBar
    <3>4. AnswerTo(sought[c]) # Blank
      BY DEF AnswerTo
    <3>5. /\ reply'[c] = AnswerTo(sought[c])
          /\ \A d \in Client \ {c} : reply'[d] = reply[d]
          /\ UNCHANGED <<client, conn, open>>
      BY <1>13, <2>2, <3>2 DEF ChildAnswer
    <3>6. CallBar'[c] = [state |-> "answered", word |-> sought[c],
                         text |-> AnswerTo(sought[c])]
      BY <3>2, <3>4, <3>5 DEF CallBar
    <3>7. \A d \in Client \ {c} : CallBar'[d] = CallBar[d]
      BY <3>5 DEF CallBar
    <3>8. CallBar'[c] = [state |-> "answered", word |-> CallBar[c].word,
                         text |-> AnswerTo(CallBar[c].word)]
      BY <3>3, <3>6
    <3>9. CallBar[c].state = "asked"
      BY <3>3
    <3> HIDE DEF Types
    <3> QED
      BY <3>7, <3>8, <3>9, OneCall
  <2> QED
    BY <2>1, <2>2
<1>14. CASE UNCHANGED vars
  BY <1>8, <1>14 DEF vars
<1> QED
  BY <1>1, <1>2, <1>3, <1>4, <1>5, <1>6, <1>7, <1>9, <1>10, <1>11, <1>12,
     <1>13, <1>14
  DEF Next, ClientStep, ChildStep, ServerStep, ForkFails, ServerDies, Leave,
      ChildDies

(* Every step of clients, children and server is a step of the service, or *)
(* none: no call is answered but with the definition of its own word, and  *)
(* none twice, and a call that is not answered has failed.                 *)
THEOREM ImplementsService == Spec => Service!Spec
<1>1. Init => Service!Init
  BY DEF Init, CallBar, Closed, Service!Init, Service!Idle
<1>2. Types /\ IInv /\ [Next]_vars => [Service!Next]_CallBar
  BY StepMaps
<1> QED
  BY <1>1, <1>2, StreamInvariant, PTL DEF Spec, Service!Spec
-----------------------------------------------------------------------------
\* What a step of MCSockets is to the program that runs.
LEMMA Program ==
  ASSUME [NextSockets]_allVars
  PROVE  /\ program' = program
         /\ program = "udp" => Udp!Next \/ UNCHANGED udpVars
         /\ program = "names" => Names!Next \/ UNCHANGED nameVars
         /\ program = "iterative" => Iter!Next \/ UNCHANGED iterVars
         /\ program = "poll" => Poller!Next \/ UNCHANGED pollVars
         /\ program = "convert" => Converter!Next \/ UNCHANGED convVars
         /\ program = "local" => Local!Next \/ UNCHANGED localVars
         /\ program = "fifo" => Fifo!Next \/ UNCHANGED fifoVars
<1>1. CASE UNCHANGED allVars
  BY <1>1 DEF allVars
<1>2. CASE NextSockets
  BY <1>2 DEF NextSockets, Runs
<1> QED
  BY <1>1, <1>2
-----------------------------------------------------------------------------
(* The datagram dictionary.                                                *)

Requests == {d \in Udp!Datagram : d.kind = "request"}

\* A word was asked for from this port.
Asked(c, w) == \E i \in DOMAIN asked[c] : asked[c][i] = w
Working(c) == uSpc = "answer" /\ hold.port = c

UdpTypes ==
  /\ Udp!TypeOK
  /\ uSpc = "answer" => hold \in Requests
  /\ \A c \in Client : uPc[c] \in {"send", "await"} => asked[c] # <<>>

\* Nothing is on its way, or in the server's hands, that was not asked for.
UdpKnown ==
  /\ \A c \in Client, w \in Word : net[Udp!Request(c, w)] > 0 => Asked(c, w)
  /\ \A c \in Client, t \in Known \cup {Absent} :
       net[Udp!Reply(c, t)] > 0 => \E w \in Word : Asked(c, w) /\ t = Udp!AnswerTo(w)
  /\ uSpc = "answer" => Asked(hold.port, hold.body)

\* Nothing of port c is under way ...
Quiet(c) ==
  /\ ~Working(c)
  /\ \A d \in Udp!Datagram : d.port = c => net[d] = 0

\* ... or one thing at most, and that about the word of its call.
OneDue(c) ==
  /\ \A d \in Udp!Datagram : d.port = c /\ net[d] > 0 =>
       /\ net[d] = 1 /\ ~Working(c)
       /\ \A e \in Udp!Datagram : e.port = c /\ net[e] > 0 => e = d
  /\ \A w \in Word : net[Udp!Request(c, w)] > 0 => w = asked[c][Len(asked[c])]
  /\ \A t \in Known \cup {Absent} :
       net[Udp!Reply(c, t)] > 0 => t = Udp!AnswerTo(asked[c][Len(asked[c])])
  /\ Working(c) => hold.body = asked[c][Len(asked[c])]

Apart(c) ==
  /\ uPc[c] # "await" => Quiet(c)
  /\ uPc[c] = "await" => OneDue(c)
UdpApart == \A c \in Client \ mixed : Apart(c)

UdpInv == UdpTypes /\ UdpKnown /\ UdpApart /\ Udp!AnswersOwnWord

LEMMA UdpStart == InitSockets /\ program = "udp" => UdpInv
<1> SUFFICES ASSUME InitSockets, program = "udp"
             PROVE  UdpInv
  OBVIOUS
<1> USE DEF InitSockets, InitUdp, Udp!Init
<1>1. UdpTypes
  <2>1. net \in [Udp!Datagram -> Nat] /\ asked \in [Client -> Seq(Word)]
    <3>1. <<>> \in Seq(Word)
      OBVIOUS
    <3> HIDE DEF Udp!Datagram
    <3>2. net \in [Udp!Datagram -> Nat]
      OBVIOUS
    <3> QED
      BY <3>1, <3>2
  <2>2. faults \in 0..UdpFaults /\ ends \in 0..UdpEnds
    BY SocketsAssumption
  <2> QED
    BY <2>1, <2>2 DEF UdpTypes, Udp!TypeOK
<1>2. UdpKnown
  BY DEF UdpKnown, Udp!Request, Udp!Reply, Udp!Datagram
<1>3. UdpApart
  BY DEF UdpApart, Apart, Quiet, Working
<1>4. Udp!AnswersOwnWord
  BY DEF Udp!AnswersOwnWord
<1> QED
  BY <1>1, <1>2, <1>3, <1>4 DEF UdpInv

\* The two kinds of datagram are different, and each has its port and body.
LEMMA Datagrams ==
  /\ \A c \in Client, w \in Word :
       /\ Udp!Request(c, w) \in Requests
       /\ Udp!Request(c, w).port = c /\ Udp!Request(c, w).body = w
       /\ Udp!Request(c, w).kind = "request"
  /\ \A c \in Client, t \in Known \cup {Absent} :
       /\ Udp!Reply(c, t) \in Udp!Datagram \ Requests
       /\ Udp!Reply(c, t).port = c /\ Udp!Reply(c, t).body = t
       /\ Udp!Reply(c, t).kind = "reply"
  /\ \A d \in Requests :
       d.port \in Client /\ d.body \in Word /\ d = Udp!Request(d.port, d.body)
  /\ \A d \in Udp!Datagram \ Requests :
       /\ d.port \in Client /\ d.body \in Known \cup {Absent}
       /\ d = Udp!Reply(d.port, d.body)
BY DEF Requests, Udp!Datagram, Udp!Request, Udp!Reply

LEMMA Answers == \A w \in Word : Udp!AnswerTo(w) \in Known \cup {Absent}
BY DEF Udp!AnswerTo

LEMMA UdpTypesStep ==
  ASSUME UdpTypes, Udp!Next
  PROVE  UdpTypes'
<1> USE DEF UdpTypes, Udp!TypeOK, Udp!client, Udp!server, Udp!ghost
<1>1. ASSUME NEW c \in Client, NEW w \in Word, Udp!Call(c, w)
      PROVE  UdpTypes'
  <2>1. asked' \in [Client -> Seq(Word)]
    BY <1>1 DEF Udp!Call
  <2>2. uPc' \in [Client -> {"idle", "send", "await", "gone"}]
    BY <1>1 DEF Udp!Call
  <2>3. asked'[c] # <<>> /\ \A d \in Client \ {c} : asked'[d] = asked[d] /\ uPc'[d] = uPc[d]
    BY <1>1 DEF Udp!Call
  <2> QED
    BY <1>1, <2>1, <2>2, <2>3 DEF Udp!Call
<1>2. ASSUME NEW c \in Client, Udp!Send(c)
      PROVE  UdpTypes'
  <2>1. Udp!Last(asked[c]) \in Word
    BY <1>2 DEF Udp!Send, Udp!Last
  <2> QED
    BY <1>2, <2>1, Datagrams DEF Udp!Send, Udp!Put, Requests
<1>3. ASSUME NEW c \in Client, Udp!Receive(c)
      PROVE  UdpTypes'
  BY <1>3, Datagrams DEF Udp!Receive, Udp!Taken
<1>4. ASSUME NEW c \in Client, Udp!Unclaimed(c)
      PROVE  UdpTypes'
  BY <1>4, Datagrams DEF Udp!Unclaimed, Udp!Taken
<1>5. ASSUME NEW c \in Client, Udp!End(c) \/ Udp!Reuse(c)
      PROVE  UdpTypes'
  <2>1. faults' \in 0..UdpFaults /\ ends' \in 0..UdpEnds
    BY <1>5, SocketsAssumption DEF Udp!End, Udp!Reuse
  <2> QED
    BY <1>5, <2>1 DEF Udp!End, Udp!Reuse
<1>6. CASE Udp!ServerReceive
  BY <1>6, Datagrams DEF Udp!ServerReceive, Udp!Taken, Requests
<1>7. CASE Udp!ServerAnswer
  BY <1>7, Datagrams, Answers DEF Udp!ServerAnswer, Udp!Put, Requests
<1>8. CASE Udp!Refuse
  BY <1>8, Datagrams DEF Udp!Refuse, Udp!Taken, Requests
<1>9. CASE Udp!Stop \/ Udp!Restart
  <2>1. faults' \in 0..UdpFaults /\ ends' \in 0..UdpEnds
    BY <1>9, SocketsAssumption DEF Udp!Stop, Udp!Restart
  <2> QED
    BY <1>9, <2>1, Datagrams DEF Udp!Stop, Udp!Restart
<1>10. ASSUME NEW d \in Udp!Datagram, Udp!Lose(d) \/ Udp!Double(d)
       PROVE  UdpTypes'
  <2>1. faults' \in 0..UdpFaults
    BY <1>10, SocketsAssumption DEF Udp!Lose, Udp!Double
  <2>2. net' \in [Udp!Datagram -> Nat]
    BY <1>10 DEF Udp!Lose, Udp!Double, Udp!Put, Udp!Taken
  <2>3. d.port \in Client
    BY Datagrams
  <2> QED
    BY <1>10, <2>1, <2>2, <2>3 DEF Udp!Lose, Udp!Double
<1> QED
  BY <1>1, <1>2, <1>3, <1>4, <1>5, <1>6, <1>7, <1>8, <1>9, <1>10
     DEF Udp!Next, Udp!ClientStep, Udp!ServerStep

\* Words stay asked for, and the word of a call is among them.
LEMMA StaysAsked ==
  ASSUME UdpTypes, NEW c \in Client, NEW w \in Word, Asked(c, w),
         asked' = asked \/ \E e \in Client, v \in Word : Udp!Call(e, v)
  PROVE  Asked(c, w)'
<1>1. CASE asked' = asked
  BY <1>1 DEF Asked
<1>2. ASSUME NEW e \in Client, NEW v \in Word, Udp!Call(e, v)
      PROVE  Asked(c, w)'
  <2>1. PICK i \in DOMAIN asked[c] : asked[c][i] = w
    BY DEF Asked
  <2>2. i \in DOMAIN asked'[c] /\ asked'[c][i] = asked[c][i]
    BY <1>2 DEF Udp!Call, UdpTypes, Udp!TypeOK
  <2> QED
    BY <2>1, <2>2 DEF Asked
<1> QED
  BY <1>1, <1>2

LEMMA AsksLast ==
  ASSUME UdpTypes, NEW c \in Client, asked[c] # <<>>
  PROVE  /\ Asked(c, asked[c][Len(asked[c])])
         /\ Udp!Last(asked[c]) = asked[c][Len(asked[c])]
         /\ asked[c][Len(asked[c])] \in Word
BY DEF UdpTypes, Udp!TypeOK, Asked, Udp!Last

LEMMA UdpKnownStep ==
  ASSUME UdpTypes, UdpKnown, Udp!Next
  PROVE  UdpKnown'
<1>1. ASSUME asked' = asked \/ \E e \in Client, v \in Word : Udp!Call(e, v),
             \A d \in Udp!Datagram : net'[d] > 0 => net[d] > 0,
             uSpc' = "answer" => uSpc = "answer" /\ hold' = hold
      PROVE  UdpKnown'
  <2>1. ASSUME NEW c \in Client, NEW w \in Word, net'[Udp!Request(c, w)] > 0
        PROVE  Asked(c, w)'
    BY <1>1, <2>1, Datagrams, StaysAsked DEF UdpKnown, Requests
  <2>2. ASSUME NEW c \in Client, NEW t \in Known \cup {Absent}, net'[Udp!Reply(c, t)] > 0
        PROVE  \E w \in Word : Asked(c, w)' /\ t = Udp!AnswerTo(w)
    BY <1>1, <2>2, Datagrams, StaysAsked DEF UdpKnown
  <2>3. ASSUME uSpc' = "answer"
        PROVE  Asked(hold.port, hold.body)'
    <3>1. hold \in Requests /\ Asked(hold.port, hold.body) /\ hold' = hold
      BY <1>1, <2>3 DEF UdpTypes, UdpKnown
    <3>2. hold.port \in Client /\ hold.body \in Word
      BY <3>1, Datagrams
    <3> HIDE DEF Requests
    <3>3. ASSUME NEW c \in Client, NEW w \in Word, c = hold.port, w = hold.body
          PROVE  Asked(c, w)'
      BY <1>1, <3>1, <3>3, StaysAsked
    <3> QED
      BY <3>1, <3>2, <3>3 DEF Asked
  <2> QED
    BY <2>1, <2>2, <2>3 DEF UdpKnown
<1> USE DEF Udp!client, Udp!server, Udp!ghost
<1>2. net \in [Udp!Datagram -> Nat]
  BY DEF UdpTypes, Udp!TypeOK
<1>3. ASSUME NEW c \in Client, NEW w \in Word, Udp!Call(c, w)
      PROVE  UdpKnown'
  <2>1. net' = net /\ uSpc' = uSpc /\ hold' = hold
    BY <1>3 DEF Udp!Call
  <2> QED
    BY <1>1, <1>3, <2>1
<1>4. ASSUME NEW c \in Client, Udp!Send(c)
      PROVE  UdpKnown'
  <2> DEFINE w == asked[c][Len(asked[c])]
  <2>1. w \in Word /\ Asked(c, w) /\ net' = [net EXCEPT ![Udp!Request(c, w)] = @ + 1]
    BY <1>4, AsksLast DEF Udp!Send, Udp!Put, UdpTypes
  <2>2. asked' = asked /\ uSpc' = uSpc /\ hold' = hold
    BY <1>4 DEF Udp!Send
  <2> HIDE DEF w
  <2>3. ASSUME NEW e \in Client, NEW v \in Word, net'[Udp!Request(e, v)] > 0
        PROVE  Asked(e, v)
    <3>1. CASE Udp!Request(e, v) = Udp!Request(c, w)
      BY <2>1, <3>1, Datagrams
    <3>2. CASE Udp!Request(e, v) # Udp!Request(c, w)
      <4>1. net'[Udp!Request(e, v)] = net[Udp!Request(e, v)]
        BY <1>2, <2>1, <3>2, Datagrams DEF Requests
      <4> QED
        BY <2>3, <4>1 DEF UdpKnown
    <3> QED
      BY <3>1, <3>2
  <2>4. ASSUME NEW e \in Client, NEW t \in Known \cup {Absent}
        PROVE  net'[Udp!Reply(e, t)] = net[Udp!Reply(e, t)]
    BY <1>2, <2>1, Datagrams DEF Requests
  <2> QED
    BY <2>2, <2>3, <2>4 DEF UdpKnown, Asked
<1>5. ASSUME NEW c \in Client, Udp!Receive(c) \/ Udp!Unclaimed(c)
      PROVE  UdpKnown'
  <2>1. PICK t \in Known \cup {Absent} : net' = [net EXCEPT ![Udp!Reply(c, t)] = @ - 1]
    BY <1>5 DEF Udp!Receive, Udp!Unclaimed, Udp!Taken
  <2> QED
    BY <1>1, <1>2, <1>5, <2>1, Datagrams DEF Udp!Receive, Udp!Unclaimed
<1>6. ASSUME NEW c \in Client, Udp!End(c) \/ Udp!Reuse(c)
      PROVE  UdpKnown'
  BY <1>1, <1>6 DEF Udp!End, Udp!Reuse
<1>7. CASE Udp!ServerReceive
  <2>1. PICK c \in Client, w \in Word :
          /\ net[Udp!Request(c, w)] > 0
          /\ net' = [net EXCEPT ![Udp!Request(c, w)] = @ - 1]
          /\ hold' = Udp!Request(c, w)
    BY <1>7 DEF Udp!ServerReceive, Udp!Taken
  <2>2. asked' = asked /\ uSpc' = "answer"
    BY <1>7 DEF Udp!ServerReceive
  <2>3. \A d \in Udp!Datagram : net'[d] > 0 => net[d] > 0
    BY <1>2, <2>1, Datagrams DEF Requests
  <2>4. Asked(c, w) /\ hold'.port = c /\ hold'.body = w
    BY <2>1, Datagrams DEF UdpKnown
  <2>5. ASSUME NEW e \in Client, NEW v \in Word, net'[Udp!Request(e, v)] > 0
        PROVE  Asked(e, v)
    BY <2>3, <2>5, Datagrams DEF UdpKnown, Requests
  <2>6. ASSUME NEW e \in Client, NEW t \in Known \cup {Absent}, net'[Udp!Reply(e, t)] > 0
        PROVE  \E v \in Word : Asked(e, v) /\ t = Udp!AnswerTo(v)
    BY <2>3, <2>6, Datagrams DEF UdpKnown
  <2> QED
    BY <2>2, <2>4, <2>5, <2>6 DEF UdpKnown, Asked
<1>8. CASE Udp!ServerAnswer
  <2>1. hold \in Requests /\ Asked(hold.port, hold.body)
    BY <1>8 DEF Udp!ServerAnswer, UdpTypes, UdpKnown
  <2>2. PICK c \in Client : c = hold.port
    BY <2>1, Datagrams
  <2>3. PICK w \in Word : w = hold.body
    BY <2>1, Datagrams
  <2>4. /\ net' = [net EXCEPT ![Udp!Reply(c, Udp!AnswerTo(w))] = @ + 1]
        /\ asked' = asked /\ uSpc' = "receive"
    BY <1>8, <2>2, <2>3 DEF Udp!ServerAnswer, Udp!Put
  <2>5. Udp!AnswerTo(w) \in Known \cup {Absent}
    BY Answers
  <2>6. ASSUME NEW e \in Client, NEW v \in Word
        PROVE  net'[Udp!Request(e, v)] = net[Udp!Request(e, v)]
    BY <1>2, <2>4, <2>5, Datagrams DEF Requests
  <2>7. ASSUME NEW e \in Client, NEW t \in Known \cup {Absent}, net'[Udp!Reply(e, t)] > 0
        PROVE  \E v \in Word : Asked(e, v) /\ t = Udp!AnswerTo(v)
    <3>1. CASE Udp!Reply(e, t) = Udp!Reply(c, Udp!AnswerTo(w))
      <4>1. e = c /\ t = Udp!AnswerTo(w)
        BY <2>5, <3>1, Datagrams
      <4> QED
        BY <2>1, <2>2, <2>3, <4>1
    <3>2. CASE Udp!Reply(e, t) # Udp!Reply(c, Udp!AnswerTo(w))
      <4>1. net'[Udp!Reply(e, t)] = net[Udp!Reply(e, t)]
        BY <1>2, <2>4, <2>5, <3>2, Datagrams
      <4> QED
        BY <2>7, <4>1 DEF UdpKnown
    <3> QED
      BY <3>1, <3>2
  <2> QED
    BY <2>4, <2>6, <2>7 DEF UdpKnown, Asked
<1>9. CASE Udp!Refuse
  <2>1. PICK c \in Client, w \in Word : net' = [net EXCEPT ![Udp!Request(c, w)] = @ - 1]
    BY <1>9 DEF Udp!Refuse, Udp!Taken
  <2> QED
    BY <1>1, <1>2, <1>9, <2>1, Datagrams DEF Udp!Refuse, Requests
<1>10. CASE Udp!Stop \/ Udp!Restart
  BY <1>1, <1>10 DEF Udp!Stop, Udp!Restart
<1>11. ASSUME NEW d \in Udp!Datagram, Udp!Lose(d) \/ Udp!Double(d)
       PROVE  UdpKnown'
  <2>1. \A e \in Udp!Datagram : net'[e] > 0 => net[e] > 0
    BY <1>2, <1>11 DEF Udp!Lose, Udp!Double, Udp!Put, Udp!Taken
  <2> QED
    BY <1>1, <1>11, <2>1 DEF Udp!Lose, Udp!Double
<1> QED
  BY <1>3, <1>4, <1>5, <1>6, <1>7, <1>8, <1>9, <1>10, <1>11
     DEF Udp!Next, Udp!ClientStep, Udp!ServerStep

\* A step that adds nothing at port c.
LEMMA Fewer ==
  ASSUME UdpTypes, UdpTypes', NEW c \in Client, Apart(c),
         uPc'[c] = uPc[c] \/ ("await" \notin {uPc[c], uPc'[c]}),
         uPc[c] = "await" => asked'[c] = asked[c],
         \A d \in Udp!Datagram : d.port = c => net'[d] <= net[d],
         Working(c)' => Working(c) /\ hold' = hold
  PROVE  Apart(c)'
<1>1. net \in [Udp!Datagram -> Nat] /\ net' \in [Udp!Datagram -> Nat]
  BY DEF UdpTypes, Udp!TypeOK
<1>2. CASE uPc[c] # "await"
  <2>1. Quiet(c)
    BY <1>2 DEF Apart
  <2>2. \A d \in Udp!Datagram : d.port = c => net'[d] = 0
    BY <1>1, <2>1 DEF Quiet
  <2> QED
    BY <1>2, <2>1, <2>2 DEF Apart, Quiet
<1>3. CASE uPc[c] = "await"
  <2>1. OneDue(c) /\ uPc'[c] = "await" /\ asked'[c] = asked[c]
    BY <1>3 DEF Apart
  <2>2. \A d \in Udp!Datagram : d.port = c /\ net'[d] > 0 => net[d] > 0 /\ net'[d] <= net[d]
    BY <1>1
  <2>3. ASSUME NEW d \in Udp!Datagram, d.port = c, net'[d] > 0
        PROVE  /\ net'[d] = 1 /\ ~Working(c)'
               /\ \A e \in Udp!Datagram : e.port = c /\ net'[e] > 0 => e = d
    <3>1. net[d] = 1 /\ ~Working(c)
      BY <2>1, <2>2, <2>3 DEF OneDue
    <3>2. net'[d] = 1
      BY <1>1, <2>2, <2>3, <3>1
    <3>3. \A e \in Udp!Datagram : e.port = c /\ net'[e] > 0 => e = d
      BY <2>1, <2>2, <2>3 DEF OneDue
    <3> QED
      BY <3>1, <3>2, <3>3
  <2>4. \A w \in Word : net'[Udp!Request(c, w)] > 0 => w = asked'[c][Len(asked'[c])]
    BY <2>1, <2>2, Datagrams DEF OneDue, Requests
  <2>5. \A t \in Known \cup {Absent} :
          net'[Udp!Reply(c, t)] > 0 => t = Udp!AnswerTo(asked'[c][Len(asked'[c])])
    BY <2>1, <2>2, Datagrams DEF OneDue
  <2>6. Working(c)' => hold'.body = asked'[c][Len(asked'[c])]
    BY <2>1 DEF OneDue
  <2> QED
    BY <2>1, <2>3, <2>4, <2>5, <2>6 DEF Apart, OneDue
<1> QED
  BY <1>2, <1>3

LEMMA SendApart ==
  ASSUME UdpTypes, UdpTypes', NEW c \in Client, Apart(c), Udp!Send(c)
  PROVE  Apart(c)'
<1> DEFINE w == asked[c][Len(asked[c])]
           r == Udp!Request(c, w)
<1>1. w \in Word /\ net' = [net EXCEPT ![r] = @ + 1]
  BY AsksLast DEF Udp!Send, Udp!Put, UdpTypes
<1>2. Quiet(c) /\ uPc'[c] = "await" /\ asked' = asked /\ ~Working(c)'
  BY DEF Apart, Quiet, Working, Udp!Send, Udp!server, UdpTypes, Udp!TypeOK
<1>3. net \in [Udp!Datagram -> Nat]
  BY DEF UdpTypes, Udp!TypeOK
<1>4. r \in Udp!Datagram /\ r.port = c /\ r.kind = "request" /\ r.body = w
  BY <1>1, Datagrams DEF Requests
<1> HIDE DEF r
<1>5. net'[r] = 1 /\ \A d \in Udp!Datagram : d.port = c /\ d # r => net'[d] = 0
  BY <1>1, <1>2, <1>3, <1>4 DEF Quiet
<1>6. \A d \in Udp!Datagram : d.port = c /\ net'[d] > 0 => d = r
  BY <1>5
<1>7. ASSUME NEW v \in Word, net'[Udp!Request(c, v)] > 0
      PROVE  v = w
  BY <1>4, <1>6, <1>7, Datagrams DEF Requests
<1>8. ASSUME NEW t \in Known \cup {Absent}, net'[Udp!Reply(c, t)] > 0
      PROVE  FALSE
  BY <1>4, <1>6, <1>8, Datagrams DEF Requests
<1> QED
  BY <1>2, <1>5, <1>6, <1>7, <1>8 DEF Apart, OneDue

LEMMA ReceiveApart ==
  ASSUME UdpTypes, UdpTypes', NEW c \in Client, Apart(c), Udp!Receive(c)
  PROVE  Apart(c)'
<1>1. PICK t \in Known \cup {Absent} :
        net[Udp!Reply(c, t)] > 0 /\ net' = [net EXCEPT ![Udp!Reply(c, t)] = @ - 1]
  BY DEF Udp!Receive, Udp!Taken
<1> DEFINE r == Udp!Reply(c, t)
<1>2. r \in Udp!Datagram /\ r.port = c
  BY Datagrams
<1>3. OneDue(c) /\ uPc'[c] = "idle" /\ uSpc' = uSpc /\ hold' = hold
  BY DEF Apart, Udp!Receive, Udp!server, UdpTypes, Udp!TypeOK
<1>4. net[r] = 1 /\ ~Working(c)
  BY <1>1, <1>2, <1>3 DEF OneDue
<1>5. \A d \in Udp!Datagram : d.port = c /\ net[d] > 0 => d = r
  BY <1>1, <1>2, <1>3 DEF OneDue
<1>6. net \in [Udp!Datagram -> Nat]
  BY DEF UdpTypes, Udp!TypeOK
<1> HIDE DEF r
<1>7. net' = [net EXCEPT ![r] = @ - 1]
  BY <1>1 DEF r
<1>8. \A d \in Udp!Datagram : d.port = c => net'[d] = 0
  BY <1>2, <1>4, <1>5, <1>6, <1>7
<1> QED
  BY <1>3, <1>4, <1>8 DEF Apart, Quiet, Working

LEMMA TakeApart ==
  ASSUME UdpTypes, UdpTypes', NEW c \in Client, Apart(c), Udp!ServerReceive
  PROVE  Apart(c)'
<1>1. PICK p \in Client, w \in Word :
        /\ net[Udp!Request(p, w)] > 0
        /\ net' = [net EXCEPT ![Udp!Request(p, w)] = @ - 1]
        /\ hold' = Udp!Request(p, w)
  BY DEF Udp!ServerReceive, Udp!Taken
<1> DEFINE r == Udp!Request(p, w)
<1>2. r \in Udp!Datagram /\ r.port = p /\ r.body = w /\ net[r] > 0
  BY <1>1, Datagrams DEF Requests
<1>3. uPc' = uPc /\ asked' = asked /\ ~Working(c)
  BY DEF Udp!ServerReceive, Udp!client, Working
<1>4. net \in [Udp!Datagram -> Nat]
  BY DEF UdpTypes, Udp!TypeOK
<1>5. hold' = r /\ net' = [net EXCEPT ![r] = @ - 1]
  BY <1>1
<1>6. CASE p # c
  <2>1. ~Working(c)'
    BY <1>2, <1>5, <1>6 DEF Working
  <2>2. \A d \in Udp!Datagram : d.port = c => net'[d] <= net[d]
    BY <1>2, <1>4, <1>5, <1>6
  <2> QED
    BY <1>3, <2>1, <2>2, Fewer
<1>7. CASE p = c
  <2>1. uPc[c] = "await" /\ OneDue(c)
    BY <1>2, <1>7 DEF Apart, Quiet
  <2>2. net[r] = 1 /\ \A d \in Udp!Datagram : d.port = c /\ net[d] > 0 => d = r
    BY <1>2, <1>7, <2>1 DEF OneDue
  <2>3. w = asked[c][Len(asked[c])]
    BY <1>1, <1>7, <2>1 DEF OneDue
  <2> HIDE DEF r
  <2>4. \A d \in Udp!Datagram : d.port = c => net'[d] = 0
    BY <1>2, <1>4, <1>5, <1>7, <2>2
  <2>5. hold'.body = asked[c][Len(asked[c])]
    BY <1>2, <1>5, <2>3
  <2>6. \A v \in Word : net'[Udp!Request(c, v)] = 0
    BY <2>4, Datagrams DEF Requests
  <2>7. \A t \in Known \cup {Absent} : net'[Udp!Reply(c, t)] = 0
    BY <2>4, Datagrams
  <2> QED
    BY <1>3, <2>1, <2>4, <2>5, <2>6, <2>7 DEF Apart, OneDue
<1> QED
  BY <1>6, <1>7

LEMMA AnswerApart ==
  ASSUME UdpTypes, UdpTypes', NEW c \in Client, Apart(c), Udp!ServerAnswer
  PROVE  Apart(c)'
<1>1. hold \in Requests
  BY DEF Udp!ServerAnswer, UdpTypes
<1>2. PICK p \in Client : p = hold.port
  BY <1>1, Datagrams
<1>3. PICK w \in Word : w = hold.body
  BY <1>1, Datagrams
<1> DEFINE r == Udp!Reply(p, Udp!AnswerTo(w))
<1>4. net' = [net EXCEPT ![r] = @ + 1] /\ uSpc' = "receive"
  BY <1>2, <1>3 DEF Udp!ServerAnswer, Udp!Put
<1>5. r \in Udp!Datagram /\ r.port = p /\ r.kind = "reply" /\ r.body = Udp!AnswerTo(w)
  BY Answers, Datagrams
<1>6. uPc' = uPc /\ asked' = asked /\ ~Working(c)' /\ uSpc = "answer"
  BY <1>4 DEF Udp!ServerAnswer, Udp!client, Working
<1>7. net \in [Udp!Datagram -> Nat]
  BY DEF UdpTypes, Udp!TypeOK
<1> HIDE DEF r
<1>8. CASE p # c
  <2>1. \A d \in Udp!Datagram : d.port = c => net'[d] <= net[d]
    BY <1>4, <1>5, <1>7, <1>8
  <2> QED
    BY <1>6, <2>1, Fewer
<1>9. CASE p = c
  <2>1. Working(c)
    BY <1>2, <1>6, <1>9 DEF Working
  <2>2. uPc[c] = "await" /\ OneDue(c)
    BY <2>1 DEF Apart, Quiet
  <2>3. \A d \in Udp!Datagram : d.port = c => net[d] = 0
    BY <1>7, <2>1, <2>2 DEF OneDue
  <2>4. w = asked[c][Len(asked[c])]
    BY <1>3, <2>1, <2>2 DEF OneDue
  <2>5. net'[r] = 1 /\ \A d \in Udp!Datagram : d.port = c /\ d # r => net'[d] = 0
    BY <1>4, <1>5, <1>7, <1>9, <2>3
  <2>6. \A d \in Udp!Datagram : d.port = c /\ net'[d] > 0 => d = r
    BY <2>5
  <2>7. ASSUME NEW v \in Word, net'[Udp!Request(c, v)] > 0
        PROVE  FALSE
    BY <1>5, <2>6, <2>7, Datagrams DEF Requests
  <2>8. ASSUME NEW t \in Known \cup {Absent}, net'[Udp!Reply(c, t)] > 0
        PROVE  t = Udp!AnswerTo(w)
    BY <1>5, <2>6, <2>8, Datagrams
  <2> QED
    BY <1>6, <2>2, <2>4, <2>5, <2>6, <2>7, <2>8 DEF Apart, OneDue
<1> QED
  BY <1>8, <1>9

LEMMA UdpApartStep ==
  ASSUME UdpTypes, UdpTypes', UdpApart, Udp!Next
  PROVE  UdpApart'
<1> SUFFICES ASSUME NEW c \in Client, c \notin mixed'
             PROVE  Apart(c)'
  BY DEF UdpApart
<1> USE DEF Udp!client, Udp!server, Udp!ghost
<1>1. net \in [Udp!Datagram -> Nat] /\ mixed \subseteq mixed'
  BY DEF UdpTypes, Udp!TypeOK, Udp!Next, Udp!ClientStep, Udp!ServerStep, Udp!Call,
     Udp!Send, Udp!Receive, Udp!Unclaimed, Udp!End, Udp!Reuse, Udp!ServerReceive,
     Udp!ServerAnswer, Udp!Refuse, Udp!Stop, Udp!Restart, Udp!Lose, Udp!Double
<1>2. Apart(c)
  BY <1>1 DEF UdpApart
<1>3. ASSUME uPc'[c] = uPc[c] \/ ("await" \notin {uPc[c], uPc'[c]}),
             uPc[c] = "await" => asked'[c] = asked[c],
             net' = net, Working(c)' => Working(c) /\ hold' = hold
      PROVE  Apart(c)'
  <2>1. \A d \in Udp!Datagram : d.port = c => net'[d] <= net[d]
    BY <1>1, <1>3
  <2> QED
    BY <1>2, <1>3, <2>1, Fewer
<1>4. ASSUME NEW d \in Udp!Datagram, net' = [net EXCEPT ![d] = @ - 1],
             uPc' = uPc, asked' = asked, Working(c)' => Working(c) /\ hold' = hold
      PROVE  Apart(c)'
  <2>1. \A e \in Udp!Datagram : e.port = c => net'[e] <= net[e]
    BY <1>1, <1>4
  <2> QED
    BY <1>2, <1>4, <2>1, Fewer
<1>5. ASSUME NEW e \in Client, NEW w \in Word, Udp!Call(e, w)
      PROVE  Apart(c)'
  BY <1>3, <1>5 DEF Udp!Call, Working, UdpTypes, Udp!TypeOK
<1>6. ASSUME NEW e \in Client, Udp!Send(e)
      PROVE  Apart(c)'
  <2>1. CASE e # c
    <3> DEFINE w == asked[e][Len(asked[e])]
               r == Udp!Request(e, w)
    <3>0. w \in Word /\ net' = [net EXCEPT ![r] = @ + 1]
      BY <1>6, AsksLast DEF Udp!Send, Udp!Put, UdpTypes
    <3> HIDE DEF w
    <3>1. r \in Udp!Datagram /\ r.port = e /\ net' = [net EXCEPT ![r] = @ + 1]
      BY <3>0, Datagrams DEF Requests
    <3> HIDE DEF r
    <3>2. \A d \in Udp!Datagram : d.port = c => net'[d] <= net[d]
      BY <1>1, <2>1, <3>1
    <3>3. uPc'[c] = uPc[c] /\ asked' = asked /\ (Working(c)' => Working(c) /\ hold' = hold)
      BY <1>6, <2>1 DEF Udp!Send, Working, UdpTypes, Udp!TypeOK
    <3> QED
      BY <1>2, <3>2, <3>3, Fewer
  <2> QED
    BY <1>2, <1>6, <2>1, SendApart
<1>7. ASSUME NEW e \in Client, Udp!Receive(e)
      PROVE  Apart(c)'
  <2>1. CASE e # c
    <3>1. PICK t \in Known \cup {Absent} : net' = [net EXCEPT ![Udp!Reply(e, t)] = @ - 1]
      BY <1>7 DEF Udp!Receive, Udp!Taken
    <3>2. Udp!Reply(e, t) \in Udp!Datagram
      BY Datagrams
    <3>3. \A d \in Udp!Datagram : d.port = c => net'[d] <= net[d]
      BY <1>1, <3>1, <3>2
    <3>4. uPc'[c] = uPc[c] /\ asked' = asked /\ (Working(c)' => Working(c) /\ hold' = hold)
      BY <1>7, <2>1 DEF Udp!Receive, Working, UdpTypes, Udp!TypeOK
    <3> QED
      BY <1>2, <3>3, <3>4, Fewer
  <2> QED
    BY <1>2, <1>7, <2>1, ReceiveApart
<1>8. ASSUME NEW e \in Client, Udp!Unclaimed(e)
      PROVE  Apart(c)'
  <2>1. PICK t \in Known \cup {Absent} : net' = [net EXCEPT ![Udp!Reply(e, t)] = @ - 1]
    BY <1>8 DEF Udp!Unclaimed, Udp!Taken
  <2> QED
    BY <1>4, <1>8, <2>1, Datagrams DEF Udp!Unclaimed, Working
<1>9. ASSUME NEW e \in Client, Udp!End(e)
      PROVE  Apart(c)'
  <2>1. uPc'[c] = uPc[c] \/ ("await" \notin {uPc[c], uPc'[c]})
    BY <1>1, <1>9 DEF Udp!End, UdpTypes, Udp!TypeOK
  <2> QED
    BY <1>3, <1>9, <2>1 DEF Udp!End, Working
<1>10. ASSUME NEW e \in Client, Udp!Reuse(e)
       PROVE  Apart(c)'
  <2>1. uPc'[c] = uPc[c] \/ ("await" \notin {uPc[c], uPc'[c]})
    BY <1>10 DEF Udp!Reuse, UdpTypes, Udp!TypeOK
  <2> QED
    BY <1>3, <1>10, <2>1 DEF Udp!Reuse, Working
<1>11. CASE Udp!Refuse
  <2>1. PICK e \in Client, w \in Word : net' = [net EXCEPT ![Udp!Request(e, w)] = @ - 1]
    BY <1>11 DEF Udp!Refuse, Udp!Taken
  <2>2. Udp!Request(e, w) \in Udp!Datagram
    BY Datagrams DEF Requests
  <2> QED
    BY <1>4, <1>11, <2>1, <2>2 DEF Udp!Refuse, Working
<1>12. CASE Udp!Stop \/ Udp!Restart
  BY <1>3, <1>12 DEF Udp!Stop, Udp!Restart, Working
<1>13. ASSUME NEW d \in Udp!Datagram, Udp!Lose(d)
       PROVE  Apart(c)'
  BY <1>4, <1>13 DEF Udp!Lose, Udp!Taken, Working
<1>14. ASSUME NEW d \in Udp!Datagram, Udp!Double(d)
       PROVE  Apart(c)'
  <2>1. d.port # c /\ net' = [net EXCEPT ![d] = @ + 1]
    BY <1>14 DEF Udp!Double, Udp!Put
  <2>2. \A e \in Udp!Datagram : e.port = c => net'[e] <= net[e]
    BY <1>1, <2>1
  <2> QED
    BY <1>2, <1>14, <2>2, Fewer DEF Udp!Double, Working
<1>15. CASE Udp!ServerReceive
  BY <1>2, <1>15, TakeApart
<1>16. CASE Udp!ServerAnswer
  BY <1>2, <1>16, AnswerApart
<1> QED
  BY <1>5, <1>6, <1>7, <1>8, <1>9, <1>10, <1>11, <1>12, <1>13, <1>14, <1>15, <1>16
     DEF Udp!Next, Udp!ClientStep, Udp!ServerStep

\* What the last call at port c returned, for AnswersOwnWord.
Own(c) ==
  uPc[c] = "idle" /\ uResult[c] # Blank =>
    /\ \E i \in DOMAIN asked[c] : uResult[c] = Udp!AnswerTo(asked[c][i])
    /\ c \notin mixed => uResult[c] = Udp!AnswerTo(asked[c][Len(asked[c])])

LEMMA OwnWordStep ==
  ASSUME UdpTypes, UdpKnown, UdpApart, NEW c \in Client, Own(c), Udp!Next
  PROVE  Own(c)'
<1> USE DEF Udp!client, Udp!server, Udp!ghost
<1>1. ASSUME mixed \subseteq mixed', asked' = asked,
             uPc'[c] = "idle" => uPc[c] = "idle" /\ uResult'[c] = uResult[c]
      PROVE  Own(c)'
  BY <1>1 DEF Own
<1>2. ASSUME NEW e \in Client, NEW w \in Word, Udp!Call(e, w)
      PROVE  Own(c)'
  <2>1. e # c => asked'[c] = asked[c]
    BY <1>2 DEF Udp!Call, UdpTypes, Udp!TypeOK
  <2>2. uPc'[c] = "idle" => e # c /\ uPc[c] = "idle"
    BY <1>2 DEF Udp!Call, UdpTypes, Udp!TypeOK
  <2> QED
    BY <1>2, <2>1, <2>2 DEF Own, Udp!Call
<1>3. ASSUME NEW e \in Client, Udp!Receive(e), e = c
      PROVE  Own(c)'
  <2>1. PICK t \in Known \cup {Absent} :
          net[Udp!Reply(c, t)] > 0 /\ uResult' = [uResult EXCEPT ![c] = t]
    BY <1>3 DEF Udp!Receive
  <2>2. uResult'[c] = t /\ asked' = asked /\ mixed' = mixed /\ uPc[c] = "await"
    BY <1>3, <2>1 DEF Udp!Receive, UdpTypes, Udp!TypeOK
  <2>3. PICK w \in Word : Asked(c, w) /\ t = Udp!AnswerTo(w)
    BY <2>1 DEF UdpKnown
  <2>4. \E i \in DOMAIN asked[c] : t = Udp!AnswerTo(asked[c][i])
    BY <2>3 DEF Asked
  <2>5. c \notin mixed => t = Udp!AnswerTo(asked[c][Len(asked[c])])
    BY <2>1, <2>2 DEF UdpApart, Apart, OneDue
  <2> QED
    BY <2>2, <2>4, <2>5 DEF Own
<1>4. ASSUME NEW e \in Client, Udp!Receive(e), e # c
      PROVE  Own(c)'
  BY <1>1, <1>4 DEF Udp!Receive, UdpTypes, Udp!TypeOK
<1>5. ASSUME NEW e \in Client, Udp!Send(e) \/ Udp!Unclaimed(e) \/ Udp!End(e)
      PROVE  Own(c)'
  BY <1>1, <1>5 DEF Udp!Send, Udp!Unclaimed, Udp!End, UdpTypes, Udp!TypeOK
<1>6. ASSUME NEW e \in Client, Udp!Reuse(e)
      PROVE  Own(c)'
  <2>1. e = c => uResult'[c] = Blank
    BY <1>6 DEF Udp!Reuse, UdpTypes, Udp!TypeOK
  <2>2. e # c => uPc'[c] = uPc[c] /\ uResult'[c] = uResult[c]
    BY <1>6 DEF Udp!Reuse, UdpTypes, Udp!TypeOK
  <2> QED
    BY <1>1, <1>6, <2>1, <2>2 DEF Udp!Reuse, Own
<1>7. CASE Udp!ServerStep \/ Udp!Stop \/ Udp!Restart
  BY <1>1, <1>7 DEF Udp!ServerStep, Udp!ServerReceive, Udp!ServerAnswer, Udp!Refuse,
     Udp!Stop, Udp!Restart
<1>8. ASSUME NEW d \in Udp!Datagram, Udp!Lose(d) \/ Udp!Double(d)
      PROVE  Own(c)'
  BY <1>1, <1>8 DEF Udp!Lose, Udp!Double
<1> QED
  BY <1>2, <1>3, <1>4, <1>5, <1>6, <1>7, <1>8 DEF Udp!Next, Udp!ClientStep

LEMMA OwnWord == Udp!AnswersOwnWord <=> \A c \in Client : Own(c)
BY DEF Udp!AnswersOwnWord, Own, Udp!Last

UdpSafe == program = "udp" => UdpInv

LEMMA UdpSafeStart == InitSockets => UdpSafe
BY UdpStart DEF UdpSafe

LEMMA UdpSafeStep == UdpSafe /\ [NextSockets]_allVars => UdpSafe'
<1> SUFFICES ASSUME UdpInv, [NextSockets]_allVars, program = "udp"
             PROVE  UdpInv'
  BY Program DEF UdpSafe
<1>1. CASE Udp!Next
  <2>1. UdpTypes' /\ UdpKnown'
    BY <1>1, UdpTypesStep, UdpKnownStep DEF UdpInv
  <2>2. UdpApart'
    BY <1>1, <2>1, UdpApartStep DEF UdpInv
  <2>3. \A c \in Client : Own(c)'
    BY <1>1, OwnWordStep, OwnWord DEF UdpInv
  <2>4. Udp!AnswersOwnWord'
    BY <2>3 DEF Udp!AnswersOwnWord, Own, Udp!Last
  <2> QED
    BY <2>1, <2>2, <2>4 DEF UdpInv
<1>2. CASE UNCHANGED udpVars
  <2>1. UdpTypes' /\ UdpKnown' /\ Udp!AnswersOwnWord'
    BY <1>2 DEF UdpInv, udpVars, UdpTypes, UdpKnown, Asked, Udp!TypeOK,
       Udp!AnswersOwnWord
  <2>2. UdpApart'
    BY <1>2 DEF UdpInv, udpVars, UdpApart, Apart, Quiet, OneDue, Working
  <2> QED
    BY <2>1, <2>2 DEF UdpInv
<1> QED
  BY <1>1, <1>2, Program

(* The datagram dictionary: a call returns the answer to its own word,     *)
(* unless a datagram was doubled or the port used again (lookup9.c:46),    *)
(* for any number of clients, calls, faults and ends.                      *)
THEOREM OwnAnswers == SpecSockets => []AnswersOwnWord
<1>1. UdpSafe => AnswersOwnWord
  BY DEF UdpSafe, UdpInv, AnswersOwnWord
<1> QED
  BY <1>1, UdpSafeStart, UdpSafeStep, PTL DEF SpecSockets
-----------------------------------------------------------------------------
(* The FIFO.                                                               *)

FifoInv == program = "fifo" => Fifo!TypeOK /\ Fifo!NoneWaitsForTheOther

LEMMA FifoStart == InitSockets => FifoInv
<1>1. InitSockets /\ program = "fifo" => Fifo!TypeOK
  BY SocketsAssumption DEF InitSockets, InitFifo, Fifo!Init, Fifo!TypeOK
<1>2. InitSockets /\ program = "fifo" => Fifo!NoneWaitsForTheOther
  BY DEF InitSockets, InitFifo, Fifo!Init, Fifo!NoneWaitsForTheOther
<1> QED
  BY <1>1, <1>2 DEF FifoInv

LEMMA FifoStep == FifoInv /\ [NextSockets]_allVars => FifoInv'
<1> SUFFICES ASSUME Fifo!TypeOK, Fifo!NoneWaitsForTheOther, program = "fifo",
                    Fifo!Next \/ UNCHANGED fifoVars
             PROVE  Fifo!TypeOK' /\ Fifo!NoneWaitsForTheOther'
  BY Program DEF FifoInv
<1> USE DEF Fifo!TypeOK, Fifo!NoneWaitsForTheOther, Fifo!Writers
<1>1. ASSUME NEW c \in Visitor, Fifo!Open(c)
      PROVE  Fifo!TypeOK' /\ Fifo!NoneWaitsForTheOther'
  BY <1>1 DEF Fifo!Open
<1>2. ASSUME NEW c \in Visitor, Fifo!Make(c)
      PROVE  Fifo!TypeOK' /\ Fifo!NoneWaitsForTheOther'
  BY <1>2 DEF Fifo!Make
<1>3. ASSUME NEW c \in Visitor, Fifo!Kill(c)
      PROVE  Fifo!TypeOK' /\ Fifo!NoneWaitsForTheOther'
  <2>1. stops' \in 0..MaxStops
    BY <1>3, SocketsAssumption DEF Fifo!Kill
  <2> QED
    BY <1>3, <2>1 DEF Fifo!Kill
<1>4. CASE Fifo!ServerOpen
  BY <1>4 DEF Fifo!ServerOpen
<1>5. CASE Fifo!ServerRead \/ Fifo!ServerClose \/ Fifo!Restart
  BY <1>5 DEF Fifo!ServerRead, Fifo!ServerClose, Fifo!Restart
<1>6. CASE Fifo!Stop
  <2>1. stops' \in 0..MaxStops
    BY <1>6, SocketsAssumption DEF Fifo!Stop
  <2> QED
    BY <1>6, <2>1 DEF Fifo!Stop
<1>7. CASE UNCHANGED fifoVars
  BY <1>7 DEF fifoVars
<1> QED
  BY <1>1, <1>2, <1>3, <1>4, <1>5, <1>6, <1>7
     DEF Fifo!Next, Fifo!ClientStep, Fifo!ServerStep
-----------------------------------------------------------------------------
(* pollProg and pokeit.                                                    *)

\* Signals that have reached the handler, and datagrams it has sent.
Handled == IF hpc = "suspend" THEN counter ELSE counter + 1
Sent(i) ==
  IF i = 1 THEN (IF hpc = "goodbye" THEN counter + 2 ELSE counter + 1) \div 2
  ELSE (counter + 2) \div 3

PollTypes ==
  /\ ticks \in 0..MaxTicks /\ alarm \in BOOLEAN
  /\ hpc \in {"suspend", "hello", "goodbye"} /\ counter \in Nat
  /\ q \in [Poller!Socket -> Nat]
  /\ shown \in [Poller!Socket -> Nat] /\ pLost \in [Poller!Socket -> Nat]
  /\ pSpc \in {"poll", "first", "second"} /\ revents \in [Poller!Socket -> BOOLEAN]
  /\ size \in {"negative", "other"}

\* A signal that is pending has not been handled: there is one bit for it.
SignalsCounted ==
  /\ Handled <= ticks
  /\ alarm => Handled + 1 <= ticks

\* What was sent to a socket is there, or displayed, or lost, and nothing is
\* lost at a socket with room for a program that has an address size.
DatagramsCounted ==
  \A i \in Poller!Socket :
    /\ q[i] + shown[i] + pLost[i] = Sent(i)
    /\ q[i] <= Room
    /\ size = "other" /\ Sent(i) <= Room => pLost[i] = 0

PollInv == PollTypes /\ SignalsCounted /\ DatagramsCounted

LEMMA PollGives == PollInv => Poller!TypeOK /\ Poller!AllShown
<1> SUFFICES ASSUME PollInv
             PROVE  Poller!TypeOK /\ Poller!AllShown
  OBVIOUS
<1> USE DEF PollInv, PollTypes
<1>1. counter \in 0..ticks
  BY DEF SignalsCounted, Handled
<1>2. q \in [Poller!Socket -> 0..Room]
  BY SocketsAssumption DEF DatagramsCounted
<1>3. ASSUME NEW i \in Poller!Socket
      PROVE  Sent(i) <= ticks /\ Sent(i) \in Nat
  BY <1>1 DEF SignalsCounted, Handled, Sent, Poller!Socket
<1>4. ASSUME NEW i \in Poller!Socket
      PROVE  shown[i] \in 0..MaxTicks /\ pLost[i] \in 0..MaxTicks
  BY <1>3, SocketsAssumption DEF DatagramsCounted
<1>5. Poller!TypeOK
  BY <1>1, <1>2, <1>4 DEF Poller!TypeOK
<1>6. Poller!AllShown
  <2> SUFFICES ASSUME Poller!AllTaken, NEW i \in Poller!Socket
               PROVE  /\ shown[i] + pLost[i] = Poller!SentTo(i)
                      /\ size = "other" /\ Poller!SentTo(i) <= Room => pLost[i] = 0
    BY DEF Poller!AllShown
  <2>1. q[i] = 0 /\ hpc = "suspend"
    BY DEF Poller!AllTaken
  <2>2. Poller!SentTo(i) = Sent(i)
    BY <2>1 DEF Poller!SentTo, Sent
  <2>3. q[i] + shown[i] + pLost[i] = Sent(i)
    BY DEF DatagramsCounted
  <2> QED
    BY <2>1, <2>2, <2>3 DEF DatagramsCounted
<1> QED
  BY <1>5, <1>6

\* What a socket has had, when a datagram more is sent to it or is taken.
LEMMA SendCounted ==
  ASSUME PollInv, NEW i \in Poller!Socket, Poller!SendTo(i),
         UNCHANGED <<shown, size>>
  PROVE  /\ q' \in [Poller!Socket -> Nat] /\ pLost' \in [Poller!Socket -> Nat]
         /\ \A j \in Poller!Socket \ {i} : q'[j] = q[j] /\ pLost'[j] = pLost[j]
         /\ q'[i] + shown'[i] + pLost'[i] = Sent(i) + 1
         /\ q'[i] <= Room
         /\ size = "other" /\ Sent(i) + 1 <= Room => pLost'[i] = 0
<1> USE DEF PollInv, PollTypes
<1>1. Sent(i) \in Nat /\ q[i] + shown[i] + pLost[i] = Sent(i) /\ q[i] <= Room
  BY DEF Sent, DatagramsCounted
<1>2. size = "other" /\ Sent(i) <= Room => pLost[i] = 0
  BY DEF DatagramsCounted
<1> HIDE DEF Sent, DatagramsCounted
<1>3. CASE q[i] < Room
  <2>1. q' = [q EXCEPT ![i] = @ + 1] /\ pLost' = pLost
    BY <1>3 DEF Poller!SendTo
  <2>2. q'[i] = q[i] + 1
    BY <2>1
  <2>3. q'[i] + shown'[i] + pLost'[i] = Sent(i) + 1 /\ q'[i] <= Room
    BY <1>1, <1>3, <2>1, <2>2, SocketsAssumption
  <2>4. size = "other" /\ Sent(i) + 1 <= Room => pLost'[i] = 0
    <3>1. Sent(i) + 1 <= Room => Sent(i) <= Room
      BY <1>1, SocketsAssumption
    <3> QED
      BY <1>2, <2>1, <3>1
  <2> QED
    BY <2>1, <2>3, <2>4
<1>4. CASE ~(q[i] < Room)
  <2>1. pLost' = [pLost EXCEPT ![i] = @ + 1] /\ q' = q
    BY <1>4 DEF Poller!SendTo
  <2>2. pLost'[i] = pLost[i] + 1 /\ q[i] = Room
    BY <1>1, <1>4, <2>1, SocketsAssumption
  <2>3. q'[i] + shown'[i] + pLost'[i] = Sent(i) + 1 /\ q'[i] <= Room
    BY <1>1, <2>1, <2>2, SocketsAssumption
  <2>4. ~(Sent(i) + 1 <= Room)
    BY <1>1, <2>2, SocketsAssumption
  <2> QED
    BY <2>1, <2>3, <2>4
<1> QED
  BY <1>3, <1>4

LEMMA TakeCounted ==
  ASSUME PollInv, NEW i \in Poller!Socket, Poller!RecvFrom(i),
         UNCHANGED <<counter, hpc, size>>
  PROVE  DatagramsCounted' /\ q' \in [Poller!Socket -> Nat]
         /\ shown' \in [Poller!Socket -> Nat] /\ pLost' \in [Poller!Socket -> Nat]
<1> USE DEF PollInv, PollTypes
<1>1. /\ q[i] > 0 /\ q' = [q EXCEPT ![i] = @ - 1]
      /\ \/ /\ size = "negative"
            /\ pLost' = [pLost EXCEPT ![i] = @ + 1] /\ shown' = shown
         \/ /\ shown' = [shown EXCEPT ![i] = @ + 1] /\ pLost' = pLost
  BY DEF Poller!RecvFrom
<1>2. /\ q' \in [Poller!Socket -> Nat] /\ shown' \in [Poller!Socket -> Nat]
      /\ pLost' \in [Poller!Socket -> Nat]
  BY <1>1
<1>3. ASSUME NEW j \in Poller!Socket
      PROVE  /\ Sent(j)' = Sent(j)
             /\ q'[j] + shown'[j] + pLost'[j] = q[j] + shown[j] + pLost[j]
             /\ q'[j] <= q[j]
  <2>1. Sent(j)' = Sent(j)
    BY DEF Sent
  <2>2. CASE j # i
    BY <1>1, <2>1, <2>2
  <2>3. CASE j = i
    BY <1>1, <2>1, <2>3
  <2> QED
    BY <2>2, <2>3
<1>4. ASSUME NEW j \in Poller!Socket, size = "other"
      PROVE  pLost'[j] = pLost[j]
  BY <1>1, <1>4
<1>5. ASSUME NEW j \in Poller!Socket
      PROVE  q'[j] <= Room
  <2>1. q[j] \in Nat /\ q'[j] \in Nat /\ q[j] <= Room /\ q'[j] <= q[j]
    BY <1>2, <1>3 DEF DatagramsCounted
  <2> QED
    BY <2>1, SocketsAssumption
<1> QED
  BY <1>2, <1>3, <1>4, <1>5 DEF DatagramsCounted

LEMMA PollStep ==
  ASSUME PollInv, Poller!Next \/ UNCHANGED pollVars
  PROVE  PollInv'
<1> USE DEF PollInv, PollTypes, Poller!pokeit, Poller!pollProg
<1>1. ASSUME UNCHANGED <<counter, hpc, q, shown, pLost, size>>
      PROVE  DatagramsCounted'
  BY <1>1 DEF DatagramsCounted, Sent
<1>2. CASE Poller!Tick
  <2>1. ticks' = ticks + 1 /\ ticks' \in 0..MaxTicks /\ alarm' \in BOOLEAN
    BY <1>2, SocketsAssumption DEF Poller!Tick
  <2>2. SignalsCounted'
    BY <1>2, <2>1 DEF Poller!Tick, SignalsCounted, Handled
  <2> QED
    BY <1>1, <1>2, <2>1, <2>2 DEF Poller!Tick
<1>3. CASE Poller!Interrupt
  <2>1. SignalsCounted'
    BY <1>3 DEF Poller!Interrupt, SignalsCounted, Handled
  <2>2. DatagramsCounted'
    BY <1>3 DEF Poller!Interrupt, DatagramsCounted, Sent
  <2> QED
    BY <1>3, <2>1, <2>2 DEF Poller!Interrupt
<1>4. CASE Poller!Hello
  <2>1. hpc = "hello" /\ hpc' = "goodbye" /\ UNCHANGED <<counter, ticks, alarm, shown, size>>
    BY <1>4 DEF Poller!Hello
  <2>2. SignalsCounted'
    BY <2>1 DEF SignalsCounted, Handled
  <2>3. Sent(2)' = Sent(2) /\ Sent(1)' = IF counter % 2 = 0 THEN Sent(1) + 1 ELSE Sent(1)
    BY <2>1 DEF Sent
  <2>4. 1 \in Poller!Socket /\ 2 \in Poller!Socket /\ Poller!Socket \ {1} = {2}
    BY DEF Poller!Socket
  <2>5. CASE counter % 2 = 0
    <3>1. Poller!SendTo(1)
      BY <1>4, <2>5 DEF Poller!Hello
    <3>2. /\ q' \in [Poller!Socket -> Nat] /\ pLost' \in [Poller!Socket -> Nat]
          /\ q'[2] = q[2] /\ pLost'[2] = pLost[2]
          /\ q'[1] + shown'[1] + pLost'[1] = Sent(1)'
          /\ q'[1] <= Room
          /\ size = "other" /\ Sent(1)' <= Room => pLost'[1] = 0
      BY <2>1, <2>3, <2>4, <2>5, <3>1, SendCounted
    <3>3. DatagramsCounted'
      BY <2>1, <2>3, <2>4, <3>2 DEF DatagramsCounted, Poller!Socket
    <3> QED
      BY <1>4, <2>1, <2>2, <3>2, <3>3 DEF Poller!Hello
  <2>6. CASE counter % 2 # 0
    <3>1. q' = q /\ pLost' = pLost
      BY <1>4, <2>6 DEF Poller!Hello
    <3>2. \A i \in Poller!Socket : Sent(i)' = Sent(i)
      BY <2>3, <2>6 DEF Poller!Socket
    <3>3. DatagramsCounted'
      BY <2>1, <3>1, <3>2 DEF DatagramsCounted
    <3> QED
      BY <1>4, <2>1, <2>2, <3>1, <3>3 DEF Poller!Hello
  <2> QED
    BY <2>5, <2>6
<1>5. CASE Poller!Goodbye
  <2>1. /\ hpc = "goodbye" /\ hpc' = "suspend" /\ counter' = counter + 1
        /\ UNCHANGED <<ticks, alarm, shown, size>>
    BY <1>5 DEF Poller!Goodbye
  <2>2. SignalsCounted'
    BY <2>1 DEF SignalsCounted, Handled
  <2>3. Sent(1)' = Sent(1) /\ Sent(2)' = IF counter % 3 = 0 THEN Sent(2) + 1 ELSE Sent(2)
    BY <2>1 DEF Sent
  <2>4. 1 \in Poller!Socket /\ 2 \in Poller!Socket /\ Poller!Socket \ {2} = {1}
    BY DEF Poller!Socket
  <2>5. CASE counter % 3 = 0
    <3>1. Poller!SendTo(2)
      BY <1>5, <2>5 DEF Poller!Goodbye
    <3>2. /\ q' \in [Poller!Socket -> Nat] /\ pLost' \in [Poller!Socket -> Nat]
          /\ q'[1] = q[1] /\ pLost'[1] = pLost[1]
          /\ q'[2] + shown'[2] + pLost'[2] = Sent(2)'
          /\ q'[2] <= Room
          /\ size = "other" /\ Sent(2)' <= Room => pLost'[2] = 0
      BY <2>1, <2>3, <2>4, <2>5, <3>1, SendCounted
    <3>3. DatagramsCounted'
      BY <2>1, <2>3, <2>4, <3>2 DEF DatagramsCounted, Poller!Socket
    <3> QED
      BY <1>5, <2>1, <2>2, <3>2, <3>3 DEF Poller!Goodbye
  <2>6. CASE counter % 3 # 0
    <3>1. q' = q /\ pLost' = pLost
      BY <1>5, <2>6 DEF Poller!Goodbye
    <3>2. \A i \in Poller!Socket : Sent(i)' = Sent(i)
      BY <2>3, <2>6 DEF Poller!Socket
    <3>3. DatagramsCounted'
      BY <2>1, <3>1, <3>2 DEF DatagramsCounted
    <3> QED
      BY <1>5, <2>1, <2>2, <3>1, <3>3 DEF Poller!Goodbye
  <2> QED
    BY <2>5, <2>6
<1>6. ASSUME UNCHANGED <<ticks, alarm, hpc, counter>>
      PROVE  SignalsCounted'
  BY <1>6 DEF SignalsCounted, Handled
<1>7. CASE Poller!Poll
  BY <1>1, <1>6, <1>7 DEF Poller!Poll
<1>8. CASE Poller!First
  <2>1. CASE revents[1]
    <3>1. Poller!RecvFrom(1) /\ 1 \in Poller!Socket
      BY <1>8, <2>1 DEF Poller!First, Poller!Socket
    <3> QED
      BY <1>6, <1>8, <3>1, TakeCounted DEF Poller!First
  <2>2. CASE ~revents[1]
    BY <1>1, <1>6, <1>8, <2>2 DEF Poller!First
  <2> QED
    BY <2>1, <2>2
<1>9. CASE Poller!Second
  <2>1. CASE revents[2]
    <3>1. Poller!RecvFrom(2) /\ 2 \in Poller!Socket
      BY <1>9, <2>1 DEF Poller!Second, Poller!Socket
    <3> QED
      BY <1>6, <1>9, <3>1, TakeCounted DEF Poller!Second
  <2>2. CASE ~revents[2]
    BY <1>1, <1>6, <1>9, <2>2 DEF Poller!Second
  <2> QED
    BY <2>1, <2>2
<1>10. CASE UNCHANGED pollVars
  BY <1>1, <1>6, <1>10 DEF pollVars
<1> QED
  BY <1>2, <1>3, <1>4, <1>5, <1>7, <1>8, <1>9, <1>10 DEF Poller!Next, Poller!Step

LEMMA PollStart == InitSockets /\ program = "poll" => PollInv
<1> SUFFICES ASSUME InitSockets, program = "poll"
             PROVE  PollInv
  OBVIOUS
<1>1. Poller!Init
  BY DEF InitSockets, InitPoll
<1>2. PollTypes
  <2>1. ticks \in 0..MaxTicks /\ counter \in Nat
    BY <1>1, SocketsAssumption DEF Poller!Init
  <2> QED
    BY <1>1, <2>1 DEF Poller!Init, PollTypes
<1>3. SignalsCounted
  BY <1>1 DEF Poller!Init, SignalsCounted, Handled
<1>4. DatagramsCounted
  BY <1>1, SocketsAssumption DEF Poller!Init, DatagramsCounted, Sent
<1> QED
  BY <1>2, <1>3, <1>4 DEF PollInv
-----------------------------------------------------------------------------
(* srvr1 and clnt1; srvr3 and clnt3 never meet.                            *)

Started(c) == iWhere[c] \notin {"connect", "refused"}

\* A connection is accepted once: those that wait have had no reply.
IterBacklog ==
  /\ \A i \in DOMAIN iBacklog :
       /\ Started(iBacklog[i]) /\ iReply[iBacklog[i]] = 0
       /\ iSpc \in {"read", "write", "close"} => iBacklog[i] # comm
  /\ \A i, j \in DOMAIN iBacklog : iBacklog[i] = iBacklog[j] => i = j
  /\ iSpc \in {"read", "write"} =>
       comm \in Visitor /\ Started(comm) /\ iReply[comm] = 0
  /\ iSpc = "close" => comm \in Visitor /\ Started(comm)

\* The numbers on their way.  The server's is 1 from its read to its write,
\* unless the client has left without a number of its own.
IterNumbers ==
  /\ \A c \in Visitor :
       /\ iReply[c] \in {0, 2} /\ dub2[c] \in {None, 2}
       /\ iReply[c] # 0 => Started(c)
       /\ iWhere[c] \in {"connect", "write", "refused"} => sent[c] = 0
       /\ iWhere[c] = "read" => sent[c] = 1
       /\ iWhere[c] = "done" => dub2[c] = 2 \/ (iSpc = "down" /\ dub2[c] = None)
       /\ iWhere[c] = "done" /\ iSpc # "down" => iReply[c] # 0
       /\ iWhere[c] = "killed" => iKills > 0
  /\ iSpc \in {"accept", "read", "close"} => dub \in {None, 2}
  /\ iSpc = "write" =>
       IF sent[comm] = 0 THEN Iter!Left(comm) /\ dub \in {None, 2} ELSE dub = 1
  /\ iSpc = "down" => dub \in {None, 2, 4} /\ iKills > 0

IterInv == Iter!TypeOK /\ IterBacklog /\ IterNumbers

LEMMA IterStart == InitSockets /\ program = "iterative" => IterInv
<1> SUFFICES ASSUME InitSockets, program = "iterative"
             PROVE  IterInv
  OBVIOUS
<1>1. Iter!Init
  BY DEF InitSockets, InitIter
<1>2. Iter!TypeOK
  <2>1. iKills \in 0..MaxKills /\ sent \in [Visitor -> {0, Iter!Number}]
    BY <1>1, SocketsAssumption DEF Iter!Init
  <2>2. iReply \in [Visitor -> 0..4 \cup {None}] /\ dub2 \in [Visitor -> 1..4 \cup {None}]
    BY <1>1 DEF Iter!Init
  <2>3. iBacklog \in Seq(Visitor)
    BY <1>1 DEF Iter!Init
  <2> QED
    BY <1>1, <2>1, <2>2, <2>3 DEF Iter!Init, Iter!TypeOK
<1>3. IterBacklog
  BY <1>1 DEF Iter!Init, IterBacklog
<1>4. IterNumbers
  BY <1>1 DEF Iter!Init, IterNumbers
<1> QED
  BY <1>2, <1>3, <1>4 DEF IterInv

LEMMA Twice == Iter!Twice(None) = None /\ Iter!Twice(1) = 2 /\ Iter!Twice(2) = 4
BY SocketsAssumption DEF Iter!Twice

LEMMA IterGives == IterInv => Iter!Doubled
BY Twice DEF IterInv, IterNumbers, Iter!Doubled, Iter!Number

LEMMA IterStep ==
  ASSUME IterInv, Iter!Next \/ UNCHANGED iterVars
  PROVE  IterInv'
<1> USE DEF IterInv, Iter!TypeOK, Iter!client, Iter!stream, Iter!Number
<1>1. ASSUME NEW c \in Visitor, Iter!TimeConnect(c)
      PROVE  IterInv'
  <2>1. iWhere' = [iWhere EXCEPT ![c] = "refused"] /\ iWhere[c] = "connect"
    BY <1>1 DEF Iter!TimeConnect, Iter!TimePort
  <2>2. /\ UNCHANGED <<service, sent, iReply, dub2, iBacklog, iSpc, comm, dub, iKills>>
        /\ service = "time"
    BY <1>1 DEF Iter!TimeConnect
  <2>3. IterBacklog'
    BY <2>1, <2>2 DEF IterBacklog, Started
  <2>4. IterNumbers'
    BY <2>1, <2>2 DEF IterNumbers, Started, Iter!Left
  <2> QED
    BY <2>1, <2>2, <2>3, <2>4
<1>2. ASSUME NEW c \in Visitor, Iter!Connect(c), iSpc = "down"
      PROVE  IterInv'
  <2>1. /\ iWhere' = [iWhere EXCEPT ![c] = "refused"] /\ iWhere[c] = "connect"
        /\ UNCHANGED <<service, sent, iReply, dub2, iBacklog, iSpc, comm, dub, iKills>>
    BY <1>2 DEF Iter!Connect
  <2>2. IterBacklog'
    BY <2>1 DEF IterBacklog, Started
  <2>3. IterNumbers'
    BY <2>1 DEF IterNumbers, Started, Iter!Left
  <2> QED
    BY <2>1, <2>2, <2>3
<1>3. ASSUME NEW c \in Visitor, Iter!Connect(c), iSpc # "down"
      PROVE  IterInv'
  <2>1. /\ iWhere' = [iWhere EXCEPT ![c] = "write"] /\ iWhere[c] = "connect"
        /\ iBacklog' = Append(iBacklog, c)
        /\ UNCHANGED <<service, sent, iReply, dub2, iSpc, comm, dub, iKills>>
    BY <1>3 DEF Iter!Connect
  <2>2. /\ iBacklog' \in Seq(Visitor) /\ DOMAIN iBacklog' = DOMAIN iBacklog \cup {Len(iBacklog) + 1}
        /\ \A i \in DOMAIN iBacklog : iBacklog'[i] = iBacklog[i] /\ i # Len(iBacklog) + 1
        /\ iBacklog'[Len(iBacklog) + 1] = c
    BY <2>1
  <2>3. ~Started(c) /\ iReply[c] = 0 /\ Started(c)'
    BY <2>1 DEF Started, IterNumbers
  <2>4. \A e \in Visitor : Started(e) => Started(e)'
    BY <2>1 DEF Started
  <2>5. IterBacklog'
    <3> DEFINE n == Len(iBacklog) + 1
    <3> HIDE DEF n
    <3>1. \A i \in DOMAIN iBacklog : iBacklog[i] \in Visitor /\ iBacklog[i] # c
      BY <2>3 DEF IterBacklog
    <3>2. \A i \in DOMAIN iBacklog' : i \in DOMAIN iBacklog \/ i = n
      BY <2>2 DEF n
    <3>3. \A i \in DOMAIN iBacklog : iBacklog'[i] = iBacklog[i]
      BY <2>2
    <3>4. iBacklog'[n] = c
      BY <2>2 DEF n
    <3>5. iSpc \in {"read", "write", "close"} => comm \in Visitor /\ comm # c
      BY <2>3 DEF IterBacklog
    <3> QED
      BY <2>1, <2>3, <2>4, <3>1, <3>2, <3>3, <3>4, <3>5 DEF IterBacklog
  <2>6. IterNumbers'
    BY <2>1, <2>3 DEF IterNumbers, Started, Iter!Left, IterBacklog
  <2> QED
    BY <2>1, <2>2, <2>5, <2>6
<1>4. ASSUME NEW c \in Visitor, Iter!Write(c)
      PROVE  IterInv'
  <2>1. /\ iWhere[c] = "write"
        /\ UNCHANGED <<service, iReply, dub2, iBacklog, iSpc, comm, dub, iKills>>
        /\ iSpc = "down" => iWhere' = [iWhere EXCEPT ![c] = "killed"] /\ sent' = sent
        /\ iSpc # "down" => /\ iWhere' = [iWhere EXCEPT ![c] = "read"]
                            /\ sent' = [sent EXCEPT ![c] = 1]
    BY <1>4 DEF Iter!Write
  <2>2. IterBacklog'
    BY <2>1 DEF IterBacklog, Started
  <2>3. CASE iSpc = "down"
    <3>1. IterNumbers'
      BY <2>1, <2>3 DEF IterNumbers, Started
    <3> QED
      BY <2>1, <2>2, <2>3, <3>1
  <2>4. CASE iSpc # "down"
    <3>1. iSpc = "write" => sent'[comm] = sent[comm]
      BY <2>1, <2>4 DEF IterBacklog, IterNumbers, Iter!Left
    <3>2. IterNumbers'
      BY <2>1, <2>4, <3>1 DEF IterBacklog, IterNumbers, Started, Iter!Left
    <3> QED
      BY <2>1, <2>2, <2>4, <3>2
  <2> QED
    BY <2>3, <2>4
<1>5. ASSUME NEW c \in Visitor, Iter!Read(c)
      PROVE  IterInv'
  <2>1. /\ iWhere[c] = "read" /\ iWhere' = [iWhere EXCEPT ![c] = "done"]
        /\ dub2' = [dub2 EXCEPT ![c] = IF iReply[c] # 0 THEN iReply[c] ELSE @]
        /\ iReply[c] # 0 \/ iSpc = "down"
        /\ UNCHANGED <<service, sent, iReply, iBacklog, iSpc, comm, dub, iKills>>
    BY <1>5 DEF Iter!Read
  <2>2. IterBacklog'
    BY <2>1 DEF IterBacklog, Started
  <2>3. IterNumbers'
    BY <2>1 DEF IterBacklog, IterNumbers, Started, Iter!Left
  <2>4. dub2' \in [Visitor -> 1..4 \cup {None}]
    BY <2>1 DEF IterNumbers
  <2> QED
    BY <2>1, <2>2, <2>3, <2>4
<1>6. ASSUME NEW c \in Visitor, Iter!Kill(c)
      PROVE  IterInv'
  <2>1. /\ iWhere[c] \in {"write", "read"} /\ iWhere' = [iWhere EXCEPT ![c] = "killed"]
        /\ UNCHANGED <<service, sent, iReply, dub2, iBacklog, iSpc, comm, dub>>
    BY <1>6 DEF Iter!Kill
  <2>2. iKills' \in 0..MaxKills /\ iKills' > 0
    BY <1>6, SocketsAssumption DEF Iter!Kill
  <2>3. IterBacklog'
    BY <2>1 DEF IterBacklog, Started
  <2>4. IterNumbers'
    BY <2>1, <2>2 DEF IterBacklog, IterNumbers, Started, Iter!Left
  <2> QED
    BY <2>1, <2>2, <2>3, <2>4
<1>7. CASE Iter!Accept
  <2>1. /\ iSpc = "accept" /\ iSpc' = "read" /\ iBacklog # <<>>
        /\ comm' = iBacklog[1] /\ iBacklog' = Tail(iBacklog)
        /\ UNCHANGED <<service, sent, iReply, iWhere, dub2, dub, iKills>>
    BY <1>7 DEF Iter!Accept
  <2>2. /\ iBacklog' \in Seq(Visitor) /\ 1 \in DOMAIN iBacklog /\ comm' \in Visitor
        /\ \A i \in DOMAIN iBacklog' : i + 1 \in DOMAIN iBacklog /\ i + 1 # 1
                                         /\ iBacklog'[i] = iBacklog[i + 1]
        /\ \A i, j \in DOMAIN iBacklog' : i + 1 = j + 1 => i = j
    BY <2>1
  <2>3. IterBacklog'
    BY <2>1, <2>2 DEF IterBacklog, Started
  <2>4. IterNumbers'
    BY <2>1 DEF IterNumbers, Started
  <2> QED
    BY <2>1, <2>2, <2>3, <2>4
<1>8. CASE Iter!ServerRead
  <2>1. /\ iSpc = "read" /\ iSpc' = "write"
        /\ sent[comm] # 0 \/ Iter!Left(comm)
        /\ dub' = IF sent[comm] # 0 THEN sent[comm] ELSE dub
        /\ UNCHANGED <<service, sent, iReply, iWhere, dub2, iBacklog, comm, iKills>>
    BY <1>8 DEF Iter!ServerRead
  <2>2. comm \in Visitor
    BY <2>1 DEF IterBacklog
  <2>3. IterBacklog'
    BY <2>1 DEF IterBacklog, Started
  <2>4. sent[comm] \in {0, 1} /\ dub \in {None, 2}
    BY <2>1, <2>2 DEF IterNumbers
  <2>5. IterNumbers'
    BY <2>1, <2>4 DEF IterNumbers, Started, Iter!Left
  <2>6. dub' \in 0..4 \cup {None}
    BY <2>1, <2>4
  <2> QED
    BY <2>1, <2>3, <2>5, <2>6
<1>9. CASE Iter!ServerWrite
  <2>1. /\ iSpc = "write" /\ dub' = Iter!Twice(dub)
        /\ Iter!Left(comm) => iSpc' = "down" /\ iReply' = iReply
        /\ ~Iter!Left(comm) =>
             iSpc' = "close" /\ iReply' = [iReply EXCEPT ![comm] = Iter!Twice(dub)]
        /\ UNCHANGED <<service, sent, iWhere, dub2, iBacklog, comm, iKills>>
    BY <1>9 DEF Iter!ServerWrite
  <2>2. comm \in Visitor /\ Started(comm) /\ iReply[comm] = 0
    BY <2>1 DEF IterBacklog
  <2>3. CASE Iter!Left(comm)
    <3>1. iKills > 0
      BY <2>1, <2>2, <2>3 DEF IterNumbers, Iter!Left
    <3>2. dub \in {None, 1, 2}
      BY <2>1 DEF IterNumbers
    <3>3. dub' \in {None, 2, 4}
      BY <2>1, <3>2, Twice
    <3>4. IterBacklog'
      BY <2>1, <2>3 DEF IterBacklog, Started
    <3>5. IterNumbers'
      BY <2>1, <2>3, <3>1, <3>3 DEF IterNumbers, Started
    <3>6. dub' \in 0..4 \cup {None}
      BY <3>3
    <3> QED
      BY <2>1, <2>3, <3>4, <3>5, <3>6
  <2>4. CASE ~Iter!Left(comm)
    <3>1. dub = 1 /\ dub' = 2 /\ iReply' = [iReply EXCEPT ![comm] = 2]
      BY <2>1, <2>4, Twice DEF IterNumbers
    <3>2. IterBacklog'
      BY <2>1, <2>2, <2>4, <3>1 DEF IterBacklog, Started
    <3>3. IterNumbers'
      BY <2>1, <2>2, <2>4, <3>1 DEF IterNumbers, Started
    <3>4. dub' \in 0..4 \cup {None}
      BY <3>1
    <3>5. iReply' \in [Visitor -> 0..4 \cup {None}]
      <4>1. 2 \in 0..4 \cup {None}
        OBVIOUS
      <4> QED
        BY <3>1, <4>1
    <3> QED
      BY <2>1, <2>4, <3>2, <3>3, <3>4, <3>5
  <2> QED
    BY <2>3, <2>4
<1>10. CASE Iter!ServerClose
  <2>1. /\ iSpc = "close" /\ iSpc' = "accept"
        /\ UNCHANGED <<service, sent, iReply, iWhere, dub2, iBacklog, comm, dub, iKills>>
    BY <1>10 DEF Iter!ServerClose
  <2> QED
    BY <2>1 DEF IterBacklog, IterNumbers, Started
<1>11. CASE UNCHANGED iterVars
  BY <1>11 DEF iterVars, IterBacklog, IterNumbers, Started, Iter!Left
<1> QED
  BY <1>1, <1>2, <1>3, <1>4, <1>5, <1>6, <1>7, <1>8, <1>9, <1>10, <1>11
     DEF Iter!Next, Iter!ClientStep, Iter!ServerStep
-----------------------------------------------------------------------------
(* srvr2 and clnt2.                                                        *)

Among(s, x) == \E i \in DOMAIN s : s[i] = x
Distinct(s) == \A i, j \in DOMAIN s : s[i] = s[j] => i = j

LEMMA TailAmong ==
  ASSUME NEW S, NEW s \in Seq(S), s # <<>>, Distinct(s)
  PROVE  /\ Tail(s) \in Seq(S) /\ Head(s) \in S /\ Distinct(Tail(s))
         /\ Among(s, Head(s))
         /\ \A x : Among(Tail(s), x) => Among(s, x) /\ x # Head(s)
<1>1. /\ Tail(s) \in Seq(S) /\ Head(s) = s[1] /\ 1 \in DOMAIN s /\ s[1] \in S
      /\ \A i \in DOMAIN Tail(s) : i + 1 \in DOMAIN s /\ i + 1 # 1 /\ Tail(s)[i] = s[i + 1]
      /\ \A i, j \in DOMAIN Tail(s) : i + 1 = j + 1 => i = j
  OBVIOUS
<1> QED
  BY <1>1 DEF Among, Distinct

LEMMA AppendAmong ==
  ASSUME NEW S, NEW s \in Seq(S), NEW x \in S, Distinct(s), ~Among(s, x)
  PROVE  /\ Append(s, x) \in Seq(S) /\ Distinct(Append(s, x))
         /\ \A y : Among(Append(s, x), y) <=> Among(s, y) \/ y = x
<1> DEFINE n == Len(s) + 1
<1>1. /\ Append(s, x) \in Seq(S) /\ n \notin DOMAIN s
      /\ DOMAIN Append(s, x) = DOMAIN s \cup {n} /\ Append(s, x)[n] = x
      /\ \A i \in DOMAIN s : Append(s, x)[i] = s[i]
  OBVIOUS
<1> HIDE DEF n
<1> QED
  BY <1>1 DEF Among, Distinct

\* Where the request of client x, or the reply to it, is.
InQueue(x) == Among(queue, x)
AtServer(x) == nSpc = "send" /\ peer = x
InBox(c, x) == Among(inbox[c], x)

NameTypes ==
  /\ Names!TypeOK
  /\ nSpc = "send" => peer \in Visitor

\* It is in one place at most, and in none before it is sent.
Once ==
  /\ Distinct(queue) /\ \A c \in Visitor : Distinct(inbox[c])
  /\ \A x \in Visitor :
       /\ InQueue(x) => ~AtServer(x)
       /\ InQueue(x) \/ AtServer(x) =>
            \A c \in Visitor : ~InBox(c, x) /\ answer[c] # x
       /\ \A c, d \in Visitor : InBox(c, x) =>
            answer[d] # x /\ (c # d => ~InBox(d, x))
       /\ \A c, d \in Visitor : answer[c] = x /\ answer[d] = x => c = d
       /\ nWhere[x] \in {"new", "bind", "send"} =>
            /\ ~InQueue(x) /\ ~AtServer(x)
            /\ \A c \in Visitor : ~InBox(c, x) /\ answer[c] # x

\* One client at a time, and none is killed: the name is that of the client at
\* work, and only it has a request or a reply under way.
AtWork(c) == nWhere[c] \notin {"new", "done"}

OneByOne ==
  /\ nSpc # "down"
  /\ \A c \in Visitor :
       /\ nWhere[c] # "failed"
       /\ \A d \in Visitor : AtWork(c) /\ AtWork(d) => c = d
       /\ nWhere[c] = "bind" => name = None
       /\ nWhere[c] \in {"send", "receive", "close", "unlink"} => name = c
       /\ nWhere[c] \in {"close", "unlink", "done"} => answer[c] = c
       /\ \A x \in Visitor : InBox(c, x) => x = c /\ nWhere[c] = "receive"
       /\ InQueue(c) \/ AtServer(c) => nWhere[c] = "receive"

NamesInv ==
  /\ NameTypes /\ Once
  /\ apart /\ nKills = 0 => OneByOne

LEMMA NamesGive == NamesInv => Names!TypeOK /\ Names!ServedApart /\ Names!RepliesOnce
<1> SUFFICES ASSUME NamesInv
             PROVE  Names!TypeOK /\ Names!ServedApart /\ Names!RepliesOnce
  OBVIOUS
<1>1. Names!TypeOK
  BY DEF NamesInv, NameTypes
<1>2. Names!ServedApart
  BY DEF NamesInv, OneByOne, Names!ServedApart
<1>3. Names!RepliesOnce
  <2> SUFFICES ASSUME NEW c \in Visitor, NEW d \in Visitor, answer[c] # None
               PROVE  /\ nWhere[answer[c]] \notin {"new", "bind", "send"}
                      /\ c # d => answer[c] # answer[d]
    BY DEF Names!RepliesOnce
  <2>1. answer[c] \in Visitor
    BY <1>1 DEF Names!TypeOK
  <2> QED
    BY <2>1 DEF NamesInv, Once
<1> QED
  BY <1>1, <1>2, <1>3

LEMMA NamesStart == InitSockets /\ program = "names" => NamesInv
<1> SUFFICES ASSUME InitSockets, program = "names"
             PROVE  NamesInv
  OBVIOUS
<1>1. Names!Init
  BY DEF InitSockets, InitNames
<1>2. NameTypes
  <2>1. nKills \in 0..MaxKills
    BY <1>1, SocketsAssumption DEF Names!Init
  <2>2. queue \in Seq(Visitor) /\ inbox \in [Visitor -> Seq(Visitor)]
    BY <1>1 DEF Names!Init
  <2> QED
    BY <1>1, <2>1, <2>2 DEF Names!Init, NameTypes, Names!TypeOK, Names!Open, Names!Over
<1>3. \A c, x \in Visitor : ~InQueue(x) /\ ~AtServer(x) /\ ~InBox(c, x) /\ answer[c] # x
  BY <1>1, SocketsAssumption DEF Names!Init, InQueue, AtServer, InBox, Among
<1>4. Once
  <2>1. Distinct(queue) /\ \A c \in Visitor : Distinct(inbox[c])
    BY <1>1 DEF Names!Init, Distinct
  <2> QED
    BY <1>3, <2>1 DEF Once
<1>5. OneByOne
  BY <1>1, <1>3 DEF Names!Init, OneByOne, AtWork
<1> QED
  BY <1>2, <1>4, <1>5 DEF NamesInv

\* A step that leaves the requests and replies where they are.
LEMMA NothingMoves ==
  ASSUME UNCHANGED <<queue, nSpc, peer, inbox>>, NEW c, NEW x
  PROVE  (InQueue(x)' <=> InQueue(x)) /\ (AtServer(x)' <=> AtServer(x))
         /\ (InBox(c, x)' <=> InBox(c, x))
BY DEF InQueue, AtServer, InBox

LEMMA NameTypesStep ==
  ASSUME NamesInv, Names!Next \/ UNCHANGED nameVars
  PROVE  NameTypes'
<1> USE DEF NamesInv, NameTypes, Names!TypeOK, Names!client, Names!server, Names!Open,
            Names!Over
<1>1. ASSUME NEW c \in Visitor, Names!Begin(c) \/ Names!Bind(c) \/ Names!Close(c)
                                 \/ Names!Unlink(c)
      PROVE  NameTypes'
  BY <1>1 DEF Names!Begin, Names!Bind, Names!Close, Names!Unlink
<1>2. ASSUME NEW c \in Visitor, Names!Send(c)
      PROVE  NameTypes'
  <2>1. queue' \in Seq(Visitor)
    <3>1. queue' = queue \/ queue' = Append(queue, c)
      BY <1>2 DEF Names!Send
    <3>2. queue \in Seq(Visitor)
      OBVIOUS
    <3>3. Append(queue, c) \in Seq(Visitor)
      BY <3>2
    <3> QED
      BY <3>1, <3>2, <3>3
  <2> QED
    BY <1>2, <2>1 DEF Names!Send
<1>3. ASSUME NEW c \in Visitor, Names!Receive(c)
      PROVE  NameTypes'
  <2>1. inbox[c] \in Seq(Visitor) /\ inbox[c] # <<>> /\ Distinct(inbox[c])
    BY <1>3 DEF Names!Receive, Once
  <2>2. Tail(inbox[c]) \in Seq(Visitor) /\ Head(inbox[c]) \in Visitor
    BY <2>1, TailAmong
  <2> QED
    BY <1>3, <2>2 DEF Names!Receive
<1>4. ASSUME NEW c \in Visitor, Names!Kill(c)
      PROVE  NameTypes'
  <2>1. nKills' \in 0..MaxKills
    BY <1>4, SocketsAssumption DEF Names!Kill
  <2> QED
    BY <1>4, <2>1 DEF Names!Kill
<1>5. CASE Names!ServerReceive
  <2>1. Tail(queue) \in Seq(Visitor) /\ Head(queue) \in Visitor
    BY <1>5, TailAmong DEF Names!ServerReceive, Once
  <2> QED
    BY <1>5, <2>1 DEF Names!ServerReceive
<1>6. CASE Names!ServerSend
  <2>1. inbox' \in [Visitor -> Seq(Visitor)]
    <3>1. \/ inbox' = inbox
          \/ name \in Visitor /\ peer \in Visitor
             /\ inbox' = [inbox EXCEPT ![name] = Append(@, peer)]
      BY <1>6 DEF Names!ServerSend
    <3>2. inbox \in [Visitor -> Seq(Visitor)]
      OBVIOUS
    <3>3. name \in Visitor /\ peer \in Visitor => Append(inbox[name], peer) \in Seq(Visitor)
      BY <3>2
    <3> QED
      BY <3>1, <3>2, <3>3
  <2> QED
    BY <1>6, <2>1 DEF Names!ServerSend
<1>7. CASE Names!Restart
  <2>1. queue' \in Seq(Visitor)
    BY <1>7 DEF Names!Restart
  <2> QED
    BY <1>7, <2>1 DEF Names!Restart
<1>8. CASE UNCHANGED nameVars
  BY <1>8 DEF nameVars
<1> QED
  BY <1>1, <1>2, <1>3, <1>4, <1>5, <1>6, <1>7, <1>8
     DEF Names!Next, Names!ClientStep, Names!ServerStep

\* No request and no reply moves.
LEMMA OnceRests ==
  ASSUME NamesInv, UNCHANGED <<queue, nSpc, peer, inbox, answer>>,
         \A x \in Visitor : nWhere'[x] \in {"new", "bind", "send"} =>
                              nWhere[x] \in {"new", "bind", "send"}
  PROVE  Once'
<1>1. \A c, x \in Visitor :
        /\ InQueue(x)' <=> InQueue(x)
        /\ AtServer(x)' <=> AtServer(x)
        /\ InBox(c, x)' <=> InBox(c, x)
  BY DEF InQueue, AtServer, InBox
<1>2. Distinct(queue)' /\ \A c \in Visitor : Distinct(inbox[c])'
  BY DEF NamesInv, Once
<1>3. Once
  BY DEF NamesInv
<1> HIDE DEF InQueue, AtServer, InBox
<1> QED
  BY <1>1, <1>2, <1>3 DEF Once

\* What becomes of them when one does.
LEMMA SendMoves ==
  ASSUME NamesInv, NEW c \in Visitor, Names!Send(c), queue' = Append(queue, c)
  PROVE  /\ Distinct(queue) /\ Distinct(queue)' /\ inbox' = inbox /\ answer' = answer
         /\ \A x \in Visitor :
              /\ InQueue(x)' <=> InQueue(x) \/ x = c
              /\ AtServer(x)' <=> AtServer(x)
              /\ \A d \in Visitor : InBox(d, x)' <=> InBox(d, x)
<1>1. ~Among(queue, c) /\ Distinct(queue) /\ queue \in Seq(Visitor)
  BY DEF Names!Send, NamesInv, NameTypes, Names!TypeOK, Once, InQueue
<1>2. Distinct(queue)' /\ \A x \in Visitor : InQueue(x)' <=> InQueue(x) \/ x = c
  BY <1>1, AppendAmong DEF InQueue
<1> QED
  BY <1>1, <1>2 DEF Names!Send, AtServer, InBox

LEMMA ReceiveMoves ==
  ASSUME NamesInv, NEW c \in Visitor, Names!Receive(c)
  PROVE  /\ queue' = queue /\ \A d \in Visitor : Distinct(inbox[d])'
         /\ answer'[c] \in Visitor /\ InBox(c, answer'[c])
         /\ \A d \in Visitor : d # c => answer'[d] = answer[d]
         /\ \A x \in Visitor :
              /\ InQueue(x)' <=> InQueue(x)
              /\ AtServer(x)' <=> AtServer(x)
              /\ InBox(c, x)' => InBox(c, x) /\ x # answer'[c]
              /\ \A d \in Visitor : d # c => (InBox(d, x)' <=> InBox(d, x))
<1>1. /\ inbox[c] \in Seq(Visitor) /\ inbox[c] # <<>>
      /\ \A d \in Visitor : Distinct(inbox[d])
      /\ answer' = [answer EXCEPT ![c] = Head(inbox[c])]
      /\ inbox' = [inbox EXCEPT ![c] = Tail(@)]
      /\ UNCHANGED <<queue, nSpc, peer>>
      /\ inbox \in [Visitor -> Seq(Visitor)] /\ answer \in [Visitor -> Visitor \cup {None}]
  BY DEF Names!Receive, Names!server, NamesInv, NameTypes, Names!TypeOK, Once
<1>2. /\ Head(inbox[c]) \in Visitor /\ Distinct(Tail(inbox[c]))
      /\ Among(inbox[c], Head(inbox[c]))
      /\ \A x : Among(Tail(inbox[c]), x) => Among(inbox[c], x) /\ x # Head(inbox[c])
  BY <1>1, TailAmong
<1>3. inbox'[c] = Tail(inbox[c]) /\ answer'[c] = Head(inbox[c])
      /\ \A d \in Visitor : d # c => inbox'[d] = inbox[d] /\ answer'[d] = answer[d]
  BY <1>1
<1>4. \A d \in Visitor : Distinct(inbox'[d])
  <2> SUFFICES ASSUME NEW d \in Visitor
               PROVE  Distinct(inbox'[d])
    OBVIOUS
  <2>1. CASE d = c
    BY <1>2, <1>3, <2>1
  <2>2. CASE d # c
    BY <1>1, <1>3, <2>2
  <2> QED
    BY <2>1, <2>2
<1> QED
  BY <1>1, <1>2, <1>3, <1>4 DEF InQueue, AtServer, InBox

LEMMA ServerReceiveMoves ==
  ASSUME NamesInv, Names!ServerReceive
  PROVE  /\ Distinct(queue)' /\ inbox' = inbox /\ answer' = answer
         /\ peer' \in Visitor /\ InQueue(peer')
         /\ \A x \in Visitor :
              /\ InQueue(x)' => InQueue(x) /\ x # peer'
              /\ AtServer(x)' <=> x = peer'
              /\ \A d \in Visitor : InBox(d, x)' <=> InBox(d, x)
<1>1. queue \in Seq(Visitor) /\ queue # <<>> /\ Distinct(queue)
  BY DEF Names!ServerReceive, NamesInv, NameTypes, Names!TypeOK, Once
<1> QED
  BY <1>1, TailAmong DEF Names!ServerReceive, Names!client, InQueue, AtServer, InBox

LEMMA ServerSendMoves ==
  ASSUME NamesInv, Names!ServerSend, nSpc' = "receive"
  PROVE  /\ peer \in Visitor /\ AtServer(peer) /\ name \in Visitor
         /\ nWhere[name] \in Names!Open
         /\ queue' = queue /\ answer' = answer
         /\ \A d \in Visitor : Distinct(inbox[d])'
         /\ \A x \in Visitor :
              /\ InQueue(x)' <=> InQueue(x)
              /\ ~AtServer(x)'
              /\ InBox(name, x)' <=> InBox(name, x) \/ x = peer
              /\ \A d \in Visitor : d # name => (InBox(d, x)' <=> InBox(d, x))
<1>1. /\ nSpc = "send" /\ name \in Visitor /\ nWhere[name] \in Names!Open
      /\ inbox' = [inbox EXCEPT ![name] = Append(@, peer)]
      /\ UNCHANGED <<queue, peer, answer>>
  BY DEF Names!ServerSend, NamesInv, NameTypes, Names!TypeOK
<1>2. /\ peer \in Visitor /\ inbox \in [Visitor -> Seq(Visitor)]
      /\ \A d \in Visitor : Distinct(inbox[d])
  BY <1>1 DEF NamesInv, NameTypes, Names!TypeOK, Once
<1>3. AtServer(peer) /\ ~InBox(name, peer)
  BY <1>1, <1>2 DEF NamesInv, Once, AtServer
<1>4. /\ Distinct(Append(inbox[name], peer))
      /\ \A y : Among(Append(inbox[name], peer), y) <=> Among(inbox[name], y) \/ y = peer
  BY <1>1, <1>2, <1>3, AppendAmong DEF InBox
<1>5. /\ inbox'[name] = Append(inbox[name], peer)
      /\ \A d \in Visitor : d # name => inbox'[d] = inbox[d]
  BY <1>1, <1>2
<1>6. \A d \in Visitor : Distinct(inbox'[d])
  <2> SUFFICES ASSUME NEW d \in Visitor
               PROVE  Distinct(inbox'[d])
    OBVIOUS
  <2>1. CASE d = name
    BY <1>4, <1>5, <2>1
  <2>2. CASE d # name
    BY <1>2, <1>5, <2>2
  <2> QED
    BY <2>1, <2>2
<1>7. name' = name
  BY DEF Names!ServerSend
<1> QED
  BY <1>1, <1>2, <1>3, <1>4, <1>5, <1>6, <1>7 DEF InQueue, AtServer, InBox

LEMMA OnceStep ==
  ASSUME NamesInv, Names!Next \/ UNCHANGED nameVars
  PROVE  Once'
<1> USE DEF Names!client, Names!server
<1>1. nWhere \in [Visitor -> Names!Open \cup Names!Over \cup {"new", "unlink"}]
  BY DEF NamesInv, NameTypes, Names!TypeOK
<1>2. Once
  BY DEF NamesInv
<1>3. ASSUME NEW c \in Visitor, Names!Begin(c) \/ Names!Bind(c)
      PROVE  Once'
  BY <1>1, <1>3, OnceRests DEF Names!Begin, Names!Bind
<1>4. ASSUME NEW c \in Visitor, Names!Close(c) \/ Names!Unlink(c) \/ Names!Kill(c)
      PROVE  Once'
  BY <1>1, <1>4, OnceRests DEF Names!Close, Names!Unlink, Names!Kill
<1>5. ASSUME NEW c \in Visitor, Names!Send(c)
      PROVE  Once'
  <2>1. CASE nSpc = "down"
    BY <1>1, <1>5, <2>1, OnceRests DEF Names!Send
  <2>2. CASE nSpc # "down"
    <3>1. queue' = Append(queue, c) /\ nWhere[c] = "send"
          /\ nWhere' = [nWhere EXCEPT ![c] = "receive"]
      BY <1>5, <2>2 DEF Names!Send
    <3>2. nWhere'[c] = "receive" /\ \A x \in Visitor : x # c => nWhere'[x] = nWhere[x]
      BY <1>1, <3>1
    <3>3. \A d \in Visitor : Distinct(inbox[d])'
      BY <1>2, <1>5, <3>1, SendMoves DEF Once
    <3> QED
      BY <1>2, <1>5, <3>1, <3>2, <3>3, SendMoves DEF Once
  <2> QED
    BY <2>1, <2>2
<1>6. ASSUME NEW c \in Visitor, Names!Receive(c)
      PROVE  Once'
  <2>1. nWhere[c] = "receive" /\ nWhere'[c] = "close"
        /\ \A x \in Visitor : x # c => nWhere'[x] = nWhere[x]
    BY <1>1, <1>6 DEF Names!Receive
  <2>2. Distinct(queue)'
    BY <1>2, <1>6, ReceiveMoves DEF Once
  <2> QED
    BY <1>2, <1>6, <2>1, <2>2, ReceiveMoves DEF Once
<1>7. CASE Names!ServerReceive
  <2>1. nWhere' = nWhere
    BY <1>7 DEF Names!ServerReceive
  <2>2. \A d \in Visitor : Distinct(inbox[d])'
    BY <1>2, <1>7, ServerReceiveMoves DEF Once
  <2> QED
    BY <1>2, <1>7, <2>1, <2>2, ServerReceiveMoves DEF Once
<1>8. CASE Names!ServerSend
  <2>1. nWhere' = nWhere
    BY <1>8 DEF Names!ServerSend
  <2>2. CASE nSpc' = "receive"
    <3>1. Distinct(queue)'
      BY <1>2, <1>8, <2>2, ServerSendMoves DEF Once
    <3> QED
      <4>1. /\ peer \in Visitor /\ AtServer(peer) /\ name \in Visitor
            /\ nWhere' = nWhere /\ answer' = answer
        BY <1>8, <2>1, <2>2, ServerSendMoves
      <4>2. \A x \in Visitor :
              /\ InQueue(x)' <=> InQueue(x)
              /\ ~AtServer(x)'
              /\ InBox(name, x)' <=> InBox(name, x) \/ x = peer
              /\ \A d \in Visitor : d # name => (InBox(d, x)' <=> InBox(d, x))
        BY <1>8, <2>2, ServerSendMoves
      <4>3. \A c, x \in Visitor :
              InBox(c, x)' <=> InBox(c, x) \/ (c = name /\ x = peer)
        <5> SUFFICES ASSUME NEW c \in Visitor, NEW x \in Visitor
                     PROVE  InBox(c, x)' <=> InBox(c, x) \/ (c = name /\ x = peer)
          OBVIOUS
        <5>1. CASE c = name
          BY <1>8, <4>2, <5>1 DEF InBox, Names!ServerSend
        <5>2. CASE c # name
          BY <4>2, <5>2
        <5> QED
          BY <5>1, <5>2
      <4>4. /\ ~InQueue(peer) /\ nWhere[peer] \notin {"new", "bind", "send"}
            /\ \A d \in Visitor : ~InBox(d, peer) /\ answer[d] # peer
        BY <1>2, <4>1 DEF Once
      <4>5. \A d \in Visitor : Distinct(inbox[d])'
        BY <1>8, <2>2, ServerSendMoves
      <4> HIDE DEF Names!server, Names!client
      <4> QED
        BY <1>2, <3>1, <4>1, <4>2, <4>3, <4>4, <4>5 DEF Once
  <2>3. CASE nSpc' # "receive"
    <3>1. UNCHANGED <<queue, peer, inbox, answer>> /\ nSpc' = "down"
      BY <1>8, <2>3 DEF Names!ServerSend
    <3>2. \A c, x \in Visitor :
            (InQueue(x)' <=> InQueue(x)) /\ ~AtServer(x)' /\ (InBox(c, x)' <=> InBox(c, x))
      BY <3>1 DEF InQueue, AtServer, InBox
    <3>3. Distinct(queue)' /\ \A d \in Visitor : Distinct(inbox[d])'
      BY <1>2, <3>1 DEF Once
    <3> QED
      BY <1>2, <2>1, <3>1, <3>2, <3>3 DEF Once
  <2> QED
    BY <2>2, <2>3
<1>9. CASE Names!Restart
  <2>1. UNCHANGED <<peer, inbox, answer, nWhere>> /\ nSpc' = "receive" /\ queue' = <<>>
    BY <1>9 DEF Names!Restart
  <2>2. \A c, x \in Visitor :
          ~InQueue(x)' /\ ~AtServer(x)' /\ (InBox(c, x)' <=> InBox(c, x))
    BY <2>1 DEF InQueue, AtServer, InBox, Among
  <2>3. Distinct(queue)' /\ \A d \in Visitor : Distinct(inbox[d])'
    BY <1>2, <2>1 DEF Once, Distinct
  <2> QED
    BY <1>2, <2>1, <2>2, <2>3 DEF Once
<1>10. CASE UNCHANGED nameVars
  BY <1>10, OnceRests DEF nameVars
<1> QED
  BY <1>3, <1>4, <1>5, <1>6, <1>7, <1>8, <1>9, <1>10
     DEF Names!Next, Names!ClientStep, Names!ServerStep

LEMMA OneByOneStep ==
  ASSUME NamesInv, apart', nKills' = 0, Names!Next \/ UNCHANGED nameVars
  PROVE  OneByOne'
<1> USE DEF Names!client, Names!server
<1>1. nWhere \in [Visitor -> Names!Open \cup Names!Over \cup {"new", "unlink"}]
      /\ answer \in [Visitor -> Visitor \cup {None}] /\ nKills \in Nat
  BY DEF NamesInv, NameTypes, Names!TypeOK
<1>2. ASSUME NEW c \in Visitor, Names!Kill(c)
      PROVE  FALSE
  BY <1>1, <1>2 DEF Names!Kill
<1>3. OneByOne
  <2>1. apart /\ nKills = 0
    BY <1>2 DEF Names!Next, Names!ClientStep, Names!ServerStep, Names!Begin, Names!Bind,
       Names!Send, Names!Receive, Names!Close, Names!Unlink, Names!ServerReceive,
       Names!ServerSend, Names!Restart, nameVars
  <2> QED
    BY <2>1 DEF NamesInv
<1>4. \A c, x \in Visitor : UNCHANGED <<queue, nSpc, peer, inbox>> =>
        /\ InQueue(x)' <=> InQueue(x)
        /\ AtServer(x)' <=> AtServer(x)
        /\ InBox(c, x)' <=> InBox(c, x)
  BY DEF InQueue, AtServer, InBox
<1>5. ASSUME NEW c \in Visitor, Names!Begin(c)
      PROVE  OneByOne'
  <2>1. /\ nWhere[c] = "new" /\ nWhere' = [nWhere EXCEPT ![c] = "bind"] /\ name' = None
        /\ \A d \in Visitor : nWhere[d] \in Names!Over \cup {"new"}
        /\ UNCHANGED <<queue, nSpc, peer, inbox, answer>>
    BY <1>5 DEF Names!Begin
  <2>2. \A d \in Visitor : nWhere[d] \in {"new", "done"}
    BY <1>3, <2>1 DEF OneByOne, Names!Over
  <2>3. nWhere'[c] = "bind" /\ \A d \in Visitor : d # c => nWhere'[d] \in {"new", "done"}
                                                      /\ nWhere'[d] = nWhere[d]
    BY <1>1, <2>1, <2>2
  <2> QED
    BY <1>3, <1>4, <2>1, <2>2, <2>3 DEF OneByOne, AtWork
<1>6. ASSUME NEW c \in Visitor, Names!Bind(c)
      PROVE  OneByOne'
  <2>1. /\ nWhere[c] = "bind" /\ nWhere' = [nWhere EXCEPT ![c] = "send"] /\ name' = c
        /\ UNCHANGED <<queue, nSpc, peer, inbox, answer>>
    BY <1>3, <1>6 DEF Names!Bind, OneByOne
  <2>2. nWhere'[c] = "send" /\ \A d \in Visitor : d # c => nWhere'[d] = nWhere[d]
    BY <1>1, <2>1
  <2>3. \A d \in Visitor : d # c => nWhere[d] \in {"new", "done"}
    BY <1>3, <2>1 DEF OneByOne, AtWork
  <2> QED
    BY <1>3, <1>4, <2>1, <2>2, <2>3 DEF OneByOne, AtWork
<1>7. ASSUME NEW c \in Visitor, Names!Send(c)
      PROVE  OneByOne'
  <2>1. /\ nWhere[c] = "send" /\ nWhere' = [nWhere EXCEPT ![c] = "receive"]
        /\ queue' = Append(queue, c) /\ UNCHANGED <<name, nSpc, peer, inbox, answer>>
    BY <1>3, <1>7 DEF Names!Send, OneByOne
  <2>2. nWhere'[c] = "receive" /\ \A d \in Visitor : d # c => nWhere'[d] = nWhere[d]
    BY <1>1, <2>1
  <2>3. \A x \in Visitor :
          /\ InQueue(x)' <=> InQueue(x) \/ x = c
          /\ AtServer(x)' <=> AtServer(x)
          /\ \A d \in Visitor : InBox(d, x)' <=> InBox(d, x)
    BY <1>7, <2>1, SendMoves
  <2> QED
    BY <1>3, <2>1, <2>2, <2>3 DEF OneByOne, AtWork
<1>8. ASSUME NEW c \in Visitor, Names!Receive(c)
      PROVE  OneByOne'
  <2>1. /\ nWhere[c] = "receive" /\ nWhere' = [nWhere EXCEPT ![c] = "close"]
        /\ UNCHANGED <<name, nSpc>>
    BY <1>8 DEF Names!Receive
  <2>2. nWhere'[c] = "close" /\ \A d \in Visitor : d # c => nWhere'[d] = nWhere[d]
    BY <1>1, <2>1
  <2>3. /\ answer'[c] \in Visitor /\ InBox(c, answer'[c])
        /\ \A d \in Visitor : d # c => answer'[d] = answer[d]
        /\ \A x \in Visitor :
             /\ InQueue(x)' <=> InQueue(x)
             /\ AtServer(x)' <=> AtServer(x)
             /\ InBox(c, x)' => InBox(c, x) /\ x # answer'[c]
             /\ \A d \in Visitor : d # c => (InBox(d, x)' <=> InBox(d, x))
    BY <1>8, ReceiveMoves
  <2>4. answer'[c] = c /\ \A x \in Visitor : ~InBox(c, x)'
    BY <1>3, <2>3 DEF OneByOne
  <2>5. ~InQueue(c) /\ ~AtServer(c)
    BY <2>3, <2>4 DEF NamesInv, Once
  <2> QED
    BY <1>3, <2>1, <2>2, <2>3, <2>4, <2>5 DEF OneByOne, AtWork
<1>9. ASSUME NEW c \in Visitor, Names!Close(c)
      PROVE  OneByOne'
  <2>1. /\ nWhere[c] = "close" /\ nWhere' = [nWhere EXCEPT ![c] = "unlink"]
        /\ UNCHANGED <<name, queue, nSpc, peer, inbox, answer>>
    BY <1>9 DEF Names!Close
  <2>2. nWhere'[c] = "unlink" /\ \A d \in Visitor : d # c => nWhere'[d] = nWhere[d]
    BY <1>1, <2>1
  <2> QED
    BY <1>3, <1>4, <2>1, <2>2 DEF OneByOne, AtWork
<1>10. ASSUME NEW c \in Visitor, Names!Unlink(c)
       PROVE  OneByOne'
  <2>1. /\ nWhere[c] = "unlink" /\ nWhere' = [nWhere EXCEPT ![c] = "done"] /\ name' = None
        /\ UNCHANGED <<queue, nSpc, peer, inbox, answer>>
    BY <1>10 DEF Names!Unlink
  <2>2. nWhere'[c] = "done" /\ \A d \in Visitor : d # c => nWhere'[d] = nWhere[d]
    BY <1>1, <2>1
  <2>3. \A d \in Visitor : d # c => nWhere[d] \in {"new", "done"}
    BY <1>3, <2>1 DEF OneByOne, AtWork
  <2> QED
    BY <1>3, <1>4, <2>1, <2>2, <2>3 DEF OneByOne, AtWork
<1>11. CASE Names!ServerReceive
  <2>1. nSpc' = "send" /\ UNCHANGED <<nWhere, name, answer>>
    BY <1>11 DEF Names!ServerReceive
  <2>2. /\ peer' \in Visitor /\ InQueue(peer')
        /\ \A x \in Visitor :
             /\ InQueue(x)' => InQueue(x) /\ x # peer'
             /\ AtServer(x)' <=> x = peer'
             /\ \A d \in Visitor : InBox(d, x)' <=> InBox(d, x)
    BY <1>11, ServerReceiveMoves
  <2> QED
    BY <1>3, <2>1, <2>2 DEF OneByOne, AtWork
<1>12. CASE Names!ServerSend
  <2>1. nSpc = "send" /\ peer \in Visitor /\ AtServer(peer)
    BY <1>12 DEF Names!ServerSend, AtServer, NamesInv, NameTypes
  <2>2. nWhere[peer] = "receive" /\ name = peer
    BY <1>3, <2>1 DEF OneByOne
  <2>3. nSpc' = "receive"
    BY <1>12, <2>1, <2>2, SocketsAssumption DEF Names!ServerSend, Names!Open
  <2>4. /\ nWhere' = nWhere /\ name' = name /\ answer' = answer
        /\ \A x \in Visitor :
             /\ InQueue(x)' <=> InQueue(x)
             /\ ~AtServer(x)'
             /\ InBox(name, x)' <=> InBox(name, x) \/ x = peer
             /\ \A d \in Visitor : d # name => (InBox(d, x)' <=> InBox(d, x))
    BY <1>12, <2>3, ServerSendMoves DEF Names!ServerSend
  <2>5. \A c, x \in Visitor : InBox(c, x)' => InBox(c, x) \/ (c = peer /\ x = peer)
    BY <2>2, <2>4 DEF InBox
  <2> QED
    BY <1>3, <2>2, <2>3, <2>4, <2>5 DEF OneByOne, AtWork
<1>13. ~Names!Restart
  BY <1>3 DEF Names!Restart, OneByOne
<1>14. CASE UNCHANGED nameVars
  BY <1>3, <1>4, <1>14 DEF nameVars, OneByOne, AtWork
<1> QED
  BY <1>2, <1>5, <1>6, <1>7, <1>8, <1>9, <1>10, <1>11, <1>12, <1>13, <1>14
     DEF Names!Next, Names!ClientStep, Names!ServerStep
-----------------------------------------------------------------------------
(* The dictionaries without a server.                                      *)

\* The records of the file.
Size == Cardinality(Local!Record)

\* What the first call leaves: the index of lookup2 has each record once,
\* where it is in the file, and is in order.
Opened ==
  /\ prog = "lookup2" =>
       /\ table \in [1..Size -> [word : Int, off : Int]]
       /\ \A k \in 1..Size : /\ table[k].off + 1 \in 1..Size
                             /\ table[k].word = file[table[k].off + 1]
       /\ \A r \in 1..Size : \E k \in 1..Size : table[k].off + 1 = r
       /\ \A j, k \in 1..Size : j < k => table[j].word <= table[k].word
  /\ prog = "lookup5" => numrec = Size

\* The index while it is filled.
Filled ==
  /\ prog = "lookup2" /\ numrec = Size /\ count = pos
  /\ table \in [1..Size -> [word : Int, off : Int]]
  /\ \A k \in 1..pos : table[k].word = file[k] /\ table[k].off + 1 = k

LocalInv ==
  /\ \E n \in 0..MaxRecords : file \in [1..n -> 1..MaxWord]
  /\ pos \in 0..Size /\ typed \in Int
  /\ lSought \in [word : Int, text : Int] /\ lSought.word = typed
  /\ lStep \in {"begin", "open", "search", "read", "fill", "sort", "fetch", "found",
                "notfound", "died"}
  /\ lStep \in {"begin", "open"} <=> first_time
  /\ lStep \in {"search", "read", "fetch", "found", "notfound"} => Opened
  /\ lStep = "fill" => Filled
  /\ lStep = "sort" => Filled /\ pos = Size
  /\ lStep = "read" => prog = "lookup1" /\ \A k \in 1..pos : file[k] # typed
  /\ lStep = "fetch" => /\ prog = "lookup2"
                        /\ pos + 1 \in 1..Size /\ file[pos + 1] = typed
  /\ Local!RecordsFound

LEMMA SameSize == Size = Local!Cardinality(Local!Record)
  BY DEF Size, Cardinality, Local!Cardinality

LEMMA Sizes ==
  ASSUME LocalInv
  PROVE  /\ Size \in Nat /\ Local!Record = 1..Size
         /\ file \in [1..Size -> Int]
<1>1. PICK n \in 0..MaxRecords : file \in [1..n -> 1..MaxWord]
  BY DEF LocalInv
<1>2. Local!Record = 1..n
  BY <1>1 DEF Local!Record
<1>3. n \in Nat /\ Size = n
  BY <1>2, FS_Interval, SocketsAssumption DEF Size
<1>4. 1..MaxWord \subseteq Int
  BY SocketsAssumption
<1> QED
  BY <1>1, <1>2, <1>3, <1>4

\* The file stays as it is.
LEMMA SameFile ==
  ASSUME file' = file
  PROVE  Size' = Size /\ Local!Record' = Local!Record
BY DEF Size, Local!Record

\* What bsearch returns for a table in order.
LEMMA BsearchFinds ==
  ASSUME NEW n \in Nat, NEW keys \in [1..n -> Int], NEW k \in Local!Bsearch(keys)
  PROVE  /\ k # 0 => k \in 1..n /\ keys[k] = lSought.word
         /\ k = 0 /\ Local!InOrder(keys) => \A j \in 1..n : keys[j] # lSought.word
<1> DEFINE hit == {j \in 1..n : keys[j] = lSought.word}
<1>1. DOMAIN keys = 1..n /\ 0 \notin hit
  OBVIOUS
<1>2. Local!Bsearch(keys) =
        IF hit # {} /\ Local!InOrder(keys) THEN hit ELSE hit \cup {0}
  BY <1>1 DEF Local!Bsearch
<1>3. k # 0 => k \in hit
  BY <1>2
<1>4. k = 0 /\ Local!InOrder(keys) => hit = {}
  BY <1>1, <1>2
<1> QED
  BY <1>3, <1>4

LEMMA LocalStart == InitSockets /\ program = "local" => LocalInv
<1> SUFFICES ASSUME InitSockets, program = "local"
             PROVE  LocalInv
  OBVIOUS
<1>1. Local!Init
  BY DEF InitSockets, InitLocal
<1>2. PICK n \in 0..MaxRecords : file \in [1..n -> 1..MaxWord]
  BY <1>1 DEF Local!Init
<1>3. Local!Record = 1..n
  BY <1>2 DEF Local!Record
<1>4. n \in Nat /\ Size = n
  BY <1>3, FS_Interval, SocketsAssumption DEF Size
<1> HIDE DEF Size
<1> QED
  BY <1>1, <1>2, <1>4 DEF LocalInv, Local!Init, Local!RecordsFound
-----------------------------------------------------------------------------
LEMMA CallStep ==
  ASSUME LocalInv, NEW w \in 1..MaxWord, Local!Call(w)
  PROVE  LocalInv'
<1>1. w \in Int /\ file' = file
  BY SocketsAssumption DEF Local!Call
<1>2. Size' = Size
  BY <1>1, SameFile
<1>3. lStep' \in {"open", "search"} /\ (lStep' = "open" <=> first_time)
  BY DEF Local!Call
<1>4. lSought' \in [word : Int, text : Int] /\ lSought'.word = typed'
  BY <1>1 DEF LocalInv, Local!Call
<1>5. lStep' = "search" => Opened'
  BY <1>2, <1>3 DEF LocalInv, Local!Call, Local!Returned, Opened
<1>6. UNCHANGED <<file, pos, first_time>> /\ typed' \in Int
  BY <1>1 DEF Local!Call
<1> HIDE DEF Size
<1> QED
  BY <1>2, <1>3, <1>4, <1>5, <1>6 DEF LocalInv, Local!RecordsFound

\* Unavailable, and lookup1's fopen.
LEMMA OpenStep ==
  ASSUME LocalInv, Local!Unavailable \/ Local!Fopen
  PROVE  LocalInv'
<1>1. Size' = Size
  BY SameFile DEF Local!Unavailable, Local!Fopen
<1> HIDE DEF Size
<1> QED
  BY <1>1 DEF LocalInv, Local!Unavailable, Local!Fopen, Local!RecordsFound, Opened

LEMMA RewindStep ==
  ASSUME LocalInv, Local!Rewind
  PROVE  LocalInv'
<1>1. Size' = Size /\ Size \in Nat
  BY SameFile, Sizes DEF Local!Rewind
<1> HIDE DEF Size
<1> QED
  BY <1>1 DEF LocalInv, Local!Rewind, Local!RecordsFound, Opened

\* The record read is the first of its word, or none before it is of the
\* word.
LEMMA ReadStep ==
  ASSUME LocalInv, Local!ReadOne
  PROVE  LocalInv'
<1>1. /\ Size' = Size /\ Size \in Nat /\ Local!Record = 1..Size
      /\ Local!Record' = Local!Record
      /\ file \in [1..Size -> Int]
  BY SameFile, Sizes DEF Local!ReadOne
<1>2. /\ lStep = "read" /\ prog = "lookup1" /\ Opened /\ pos \in 0..Size
      /\ \A k \in 1..pos : file[k] # typed
      /\ lSought \in [word : Int, text : Int] /\ lSought.word = typed
      /\ ~first_time /\ typed \in Int
      /\ UNCHANGED <<file, prog, first_time, numrec, count, table, typed>>
  BY DEF LocalInv, Local!ReadOne
<1>3. Local!Match' = {r \in 1..Size : file[r] = typed}
  BY <1>1, <1>2 DEF Local!Match
<1>4. Opened'
  BY <1>1, <1>2 DEF Opened
<1> HIDE DEF Size
<1>5. CASE pos + 1 \in Local!Record /\ file[pos + 1] = typed
  <2>1. /\ pos' = pos + 1 /\ lStep' = "found"
        /\ lSought' = [word |-> typed, text |-> pos + 1]
    BY <1>2, <1>5 DEF Local!ReadOne
  <2>2. lSought' = [word |-> file'[pos + 1], text |-> pos + 1]
    BY <1>2, <1>5, <2>1
  <2>3. pos + 1 \in Local!Match' /\ \A r \in Local!Match' : pos + 1 <= r
    BY <1>1, <1>2, <1>3, <1>5
  <2>4. Local!RecordsFound'
    BY <2>1, <2>2, <2>3 DEF Local!RecordsFound, Local!Rec
  <2> QED
    BY <1>1, <1>2, <1>4, <1>5, <2>1, <2>4 DEF LocalInv
<1>6. CASE pos + 1 \in Local!Record /\ file[pos + 1] # typed
  <2>1. pos' = pos + 1 /\ UNCHANGED <<lSought, lStep>>
    BY <1>2, <1>6 DEF Local!ReadOne
  <2>2. \A k \in 1..(pos + 1) : file[k] # typed
    BY <1>2, <1>6
  <2> QED
    BY <1>1, <1>2, <1>4, <1>6, <2>1, <2>2 DEF LocalInv, Local!RecordsFound
<1>7. CASE pos + 1 \notin Local!Record
  <2>1. lStep' = "notfound" /\ UNCHANGED <<pos, lSought>> /\ pos = Size
    BY <1>1, <1>2, <1>7 DEF Local!ReadOne
  <2>2. Local!Match' = {}
    BY <1>2, <1>3, <2>1
  <2> QED
    BY <1>1, <1>2, <1>4, <2>1, <2>2 DEF LocalInv, Local!RecordsFound
<1> QED
  BY <1>5, <1>6, <1>7
-----------------------------------------------------------------------------
LEMMA SetUpStep ==
  ASSUME LocalInv, Local!SetUp
  PROVE  LocalInv'
<1>1. Size' = Size /\ Size \in Nat
  BY SameFile, Sizes DEF Local!SetUp
<1>2. numrec' = Size
  BY SameSize DEF Local!SetUp
<1> HIDE DEF Size
<1>3. Filled'
  BY <1>1, <1>2 DEF Local!SetUp, Filled
<1> QED
  BY <1>1, <1>3 DEF LocalInv, Local!SetUp, Local!RecordsFound

\* The next record goes into the next entry, with its place in the file.
LEMMA FillStep ==
  ASSUME LocalInv, Local!Fill
  PROVE  LocalInv'
<1>1. /\ Size' = Size /\ Size \in Nat /\ Local!Record = 1..Size
      /\ file \in [1..Size -> Int]
  BY SameFile, Sizes DEF Local!Fill
<1>2. /\ Filled /\ pos \in 0..Size /\ ~first_time
      /\ UNCHANGED <<file, prog, first_time, numrec, typed, lSought>>
  BY DEF LocalInv, Local!Fill
<1> HIDE DEF Size
<1>3. CASE pos + 1 \in Local!Record
  <2>1. /\ pos' = pos + 1 /\ count' = pos + 1 /\ lStep' = "fill"
        /\ table' = [table EXCEPT ![pos + 1] = [word |-> file[pos + 1], off |-> pos]]
    BY <1>2, <1>3 DEF Local!Fill, Filled
  <2>2. pos + 1 \in 1..Size /\ file[pos + 1] \in Int
    BY <1>1, <1>3
  <2>3. table' \in [1..Size -> [word : Int, off : Int]]
    BY <1>1, <1>2, <2>1, <2>2 DEF Filled
  <2>4. \A k \in 1..(pos + 1) : table'[k].word = file[k] /\ table'[k].off + 1 = k
    <3> SUFFICES ASSUME NEW k \in 1..(pos + 1)
                 PROVE  table'[k].word = file[k] /\ table'[k].off + 1 = k
      OBVIOUS
    <3>1. CASE k = pos + 1
      BY <1>1, <1>2, <2>1, <2>2, <3>1 DEF Filled
    <3>2. CASE k # pos + 1
      <4>1. k \in 1..pos /\ table'[k] = table[k]
        BY <1>1, <1>2, <2>1, <2>2, <3>2 DEF Filled
      <4> QED
        BY <1>2, <4>1 DEF Filled
    <3> QED
      BY <3>1, <3>2
  <2>5. Filled'
    BY <1>1, <1>2, <2>1, <2>3, <2>4 DEF Filled
  <2> QED
    BY <1>1, <1>2, <2>1, <2>2, <2>5 DEF LocalInv, Local!RecordsFound
<1>4. CASE pos + 1 \notin Local!Record
  <2>1. lStep' = "sort" /\ UNCHANGED <<pos, table, count>> /\ pos = Size
    BY <1>1, <1>2, <1>4 DEF Local!Fill
  <2>2. Filled'
    BY <1>1, <1>2, <2>1 DEF Filled
  <2> QED
    BY <1>1, <1>2, <2>1, <2>2 DEF LocalInv, Local!RecordsFound
<1> QED
  BY <1>3, <1>4

\* The entries move, each with the place of its record.
LEMMA SortStep ==
  ASSUME LocalInv, Local!Sort
  PROVE  LocalInv'
<1>1. /\ Size' = Size /\ Size \in Nat /\ Local!Record = 1..Size
      /\ file \in [1..Size -> Int]
  BY SameFile, Sizes DEF Local!Sort
<1>2. /\ Filled /\ pos = Size /\ ~first_time /\ lStep' = "search"
      /\ UNCHANGED <<file, prog, first_time, pos, numrec, typed, lSought>>
  BY DEF LocalInv, Local!Sort
<1> HIDE DEF Size
<1>3. PICK f \in [1..Size -> 1..Size] :
        /\ \A j \in 1..Size : \E k \in 1..Size : f[k] = j
        /\ table' = [k \in 1..Size |-> table[f[k]]]
  BY <1>2 DEF Local!Sort, Filled
<1>4. table' \in [1..Size -> [word : Int, off : Int]]
  BY <1>2, <1>3 DEF Filled
<1>5. \A k \in 1..Size : table'[k] = table[f[k]] /\ f[k] \in 1..Size
  BY <1>3
<1>6. \A k \in 1..Size : /\ table'[k].off + 1 = f[k]
                         /\ table'[k].word = file[f[k]]
  BY <1>2, <1>5 DEF Filled
<1>7. \A j, k \in 1..Size : j < k => table'[j].word <= table'[k].word
  <2>1. Local!InOrder(Local!WordOf(table'))
    BY DEF Local!Sort
  <2>2. /\ DOMAIN Local!WordOf(table') = 1..Size
        /\ \A k \in 1..Size : Local!WordOf(table')[k] = table'[k].word
    BY <1>3 DEF Local!WordOf
  <2> QED
    BY <2>1, <2>2 DEF Local!InOrder
<1>8. Opened'
  <2>1. ASSUME NEW r \in 1..Size
        PROVE  \E k \in 1..Size : table'[k].off + 1 = r
    <3>1. PICK k \in 1..Size : f[k] = r
      BY <1>3
    <3> QED
      BY <1>6, <3>1
  <2>2. \A k \in 1..Size : /\ table'[k].off + 1 \in 1..Size
                           /\ table'[k].word = file[table'[k].off + 1]
    BY <1>5, <1>6
  <2> QED
    BY <1>1, <1>2, <1>4, <1>7, <2>1, <2>2 DEF Opened, Filled
<1> QED
  BY <1>1, <1>2, <1>8 DEF LocalInv, Local!RecordsFound

\* An entry of the word leads to a record of the word.
LEMMA IndexSearchStep ==
  ASSUME LocalInv, Local!IndexSearch
  PROVE  LocalInv'
<1>1. /\ Size' = Size /\ Size \in Nat /\ Local!Record' = 1..Size
      /\ file \in [1..Size -> Int]
  BY SameFile, Sizes DEF Local!IndexSearch
<1>2. /\ prog = "lookup2" /\ Opened /\ pos \in 0..Size /\ ~first_time
      /\ lSought.word = typed
      /\ UNCHANGED <<file, prog, first_time, numrec, table, typed, lSought>>
  BY DEF LocalInv, Local!IndexSearch
<1> HIDE DEF Size
<1> DEFINE keys == Local!WordOf(table)
<1>3. keys \in [1..Size -> Int] /\ \A k \in 1..Size : keys[k] = table[k].word
  BY <1>2 DEF Opened, Local!WordOf
<1>4. Local!InOrder(keys)
  BY <1>2, <1>3 DEF Opened, Local!InOrder
<1>5. PICK k \in Local!Bsearch(keys) :
        IF k = 0 THEN lStep' = "notfound" /\ UNCHANGED pos
        ELSE lStep' = "fetch" /\ pos' = table[k].off
  BY DEF Local!IndexSearch
<1>6. Opened'
  BY <1>1, <1>2 DEF Opened
<1>7. Local!Match' = {r \in 1..Size : file[r] = typed}
  BY <1>1, <1>2 DEF Local!Match
<1> HIDE DEF keys
<1>8. CASE k = 0
  <2>1. \A j \in 1..Size : table[j].word # typed
    BY <1>1, <1>2, <1>3, <1>4, <1>8, BsearchFinds
  <2>2. ASSUME NEW r \in 1..Size, file[r] = typed
        PROVE  FALSE
    <3>1. PICK j \in 1..Size : table[j].off + 1 = r
      BY <1>2 DEF Opened
    <3>2. table[j].word = file[r]
      BY <1>2, <3>1 DEF Opened
    <3> QED
      BY <2>1, <2>2, <3>2
  <2>3. Local!Match' = {}
    BY <1>7, <2>2
  <2> QED
    BY <1>1, <1>2, <1>5, <1>6, <1>8, <2>3 DEF LocalInv, Local!RecordsFound
<1>9. CASE k # 0
  <2>1. k \in 1..Size /\ table[k].word = typed
    BY <1>1, <1>2, <1>3, <1>9, BsearchFinds
  <2>2. lStep' = "fetch" /\ pos' = table[k].off
    BY <1>5, <1>9
  <2>3. pos' \in Int /\ pos' + 1 \in 1..Size /\ file[pos' + 1] = typed
    BY <1>2, <2>1, <2>2 DEF Opened
  <2> QED
    BY <1>1, <1>2, <1>6, <2>2, <2>3 DEF LocalInv, Local!RecordsFound
<1> QED
  BY <1>8, <1>9

LEMMA FetchStep ==
  ASSUME LocalInv, Local!Fetch
  PROVE  LocalInv'
<1>1. /\ Size' = Size /\ Size \in Nat /\ Local!Record = 1..Size
      /\ Local!Record' = 1..Size
      /\ file \in [1..Size -> Int]
  BY SameFile, Sizes DEF Local!Fetch
<1>2. /\ prog = "lookup2" /\ Opened /\ pos \in 0..Size /\ ~first_time
      /\ pos + 1 \in 1..Size /\ file[pos + 1] = typed /\ typed \in Int
      /\ UNCHANGED <<file, prog, first_time, numrec, table, typed>>
      /\ lStep' = "found"
  BY DEF LocalInv, Local!Fetch
<1>3. pos' = pos + 1 /\ lSought' = [word |-> typed, text |-> pos + 1]
  BY <1>1, <1>2 DEF Local!Fetch, Local!Rec
<1> HIDE DEF Size
<1>4. Opened'
  BY <1>1, <1>2 DEF Opened
<1>5. /\ pos + 1 \in Local!Match'
      /\ lSought' = [word |-> file'[pos + 1], text |-> pos + 1]
  BY <1>1, <1>2, <1>3 DEF Local!Match
<1>6. Local!RecordsFound'
  BY <1>2, <1>5 DEF Local!RecordsFound, Local!Rec
<1> QED
  BY <1>1, <1>2, <1>3, <1>4, <1>6 DEF LocalInv
-----------------------------------------------------------------------------
LEMMA MapStep ==
  ASSUME LocalInv, Local!Map
  PROVE  LocalInv'
<1>1. Size' = Size
  BY SameFile DEF Local!Map
<1>2. numrec' = Size
  BY SameSize DEF Local!Map
<1> HIDE DEF Size
<1> QED
  BY <1>1, <1>2 DEF LocalInv, Local!Map, Local!RecordsFound, Opened

LEMMA MapSearchStep ==
  ASSUME LocalInv, Local!MapSearch
  PROVE  LocalInv'
<1>1. /\ Size' = Size /\ Size \in Nat /\ Local!Record' = 1..Size
      /\ file \in [1..Size -> Int]
  BY SameFile, Sizes DEF Local!MapSearch
<1>2. /\ prog = "lookup5" /\ numrec = Size /\ ~first_time /\ typed \in Int
      /\ pos \in 0..Size
      /\ lSought \in [word : Int, text : Int] /\ lSought.word = typed
      /\ UNCHANGED <<file, prog, first_time, pos, numrec, table, typed>>
  BY DEF LocalInv, Local!MapSearch, Opened
<1>3. file = [r \in 1..numrec |-> file[r]]
  BY <1>1, <1>2
<1>4. PICK k \in Local!Bsearch(file) :
        IF k = 0 THEN lStep' = "notfound" /\ UNCHANGED lSought
        ELSE lStep' = "found" /\ lSought' = [lSought EXCEPT !.text = k]
  BY <1>3 DEF Local!MapSearch
<1> HIDE DEF Size
<1>5. Opened'
  BY <1>1, <1>2 DEF Opened
<1>6. Local!Match' = {r \in 1..Size : file[r] = typed}
  BY <1>1, <1>2 DEF Local!Match
<1>7. CASE k = 0
  <2>1. Local!InOrder(file) => Local!Match' = {}
    BY <1>1, <1>2, <1>6, <1>7, BsearchFinds
  <2>2. Local!InOrder(file)' <=> Local!InOrder(file)
    BY <1>2 DEF Local!InOrder
  <2> QED
    BY <1>1, <1>2, <1>4, <1>5, <1>7, <2>1, <2>2 DEF LocalInv, Local!RecordsFound
<1>8. CASE k # 0
  <2>1. k \in 1..Size /\ file[k] = typed
    BY <1>1, <1>2, <1>8, BsearchFinds
  <2>2. lStep' = "found" /\ lSought' = [word |-> typed, text |-> k]
    BY <1>2, <1>4, <1>8
  <2>3. k \in Local!Match' /\ lSought' = [word |-> file'[k], text |-> k]
    BY <1>2, <1>6, <2>1, <2>2
  <2>4. Local!RecordsFound'
    BY <1>2, <2>2, <2>3 DEF Local!RecordsFound, Local!Rec
  <2> QED
    BY <1>1, <1>2, <1>5, <2>1, <2>2, <2>4 DEF LocalInv
<1> QED
  BY <1>7, <1>8

LEMMA LocalStep ==
  ASSUME LocalInv, Local!Next \/ UNCHANGED localVars
  PROVE  LocalInv'
<1>1. CASE UNCHANGED localVars
  <2>1. Size' = Size
    BY <1>1, SameFile DEF localVars
  <2>2. Local!RecordsFound'
    BY <1>1 DEF LocalInv, localVars, Local!RecordsFound, Local!Match, Local!Record,
       Local!Rec, Local!InOrder
  <2> HIDE DEF Size
  <2> QED
    BY <1>1, <2>1, <2>2 DEF LocalInv, localVars, Opened, Filled
<1> QED
  BY <1>1, CallStep, OpenStep, RewindStep, ReadStep, SetUpStep, FillStep, SortStep,
     IndexSearchStep, FetchStep, MapStep, MapSearchStep
     DEF Local!Next, Local!Lookup

(* The dictionaries without a server: what main prints as found is a       *)
(* record of the word typed, lookup1's the first, and what it does not     *)
(* find is not there, or the file of lookup5 is not in order (lookup1.c,   *)
(* lookup2.c, lookup5.c): for files of any length and any number of calls. *)
THEOREM Found == SpecSockets => []RecordsFound
<1> DEFINE Inv == program = "local" => LocalInv
<1>1. InitSockets => Inv
  BY LocalStart
<1>2. Inv /\ [NextSockets]_allVars => Inv'
  BY Program, LocalStep
<1>3. Inv => RecordsFound
  BY DEF LocalInv, RecordsFound
<1> QED
  BY <1>1, <1>2, <1>3, PTL DEF SpecSockets
-----------------------------------------------------------------------------
LEMMA NamesStep ==
  ASSUME NamesInv, Names!Next \/ UNCHANGED nameVars
  PROVE  NamesInv'
<1>1. NameTypes' /\ Once'
  BY NameTypesStep, OnceStep
<1>2. ASSUME apart', nKills' = 0
      PROVE  OneByOne'
  BY <1>2, OneByOneStep
<1> QED
  BY <1>1, <1>2 DEF NamesInv

\* The three programs whose clients are served, each with its invariant.
ServedInv ==
  /\ program = "names" => NamesInv
  /\ program = "iterative" => IterInv
  /\ program = "poll" => PollInv

LEMMA ServedStart == InitSockets => ServedInv
  BY NamesStart, IterStart, PollStart DEF ServedInv

LEMMA ServedStep == ServedInv /\ [NextSockets]_allVars => ServedInv'
  BY Program, NamesStep, IterStep, PollStep DEF ServedInv

(* srvr2 tells each client that comes alone its own reply and no reply to  *)
(* two; srvr1 tells each client the double of its number; pollProg shows   *)
(* what pokeit sent (srvr2.c:37-55, srvr1.c:42-56, pollProg.c:84-116).     *)
THEOREM Served == SpecSockets => []ClientsServed
<1>1. ServedInv => ClientsServed
  BY NamesGive, IterGives, PollGives DEF ServedInv, ClientsServed
<1> QED
  BY <1>1, ServedStart, ServedStep, PTL DEF SpecSockets

(* Every program's variables keep their types, and client and server of    *)
(* the FIFO never wait for each other's open.                              *)
THEOREM OthersTypeCorrect == SpecSockets => []OthersTypeOK
<1> DEFINE Inv == UdpSafe /\ ServedInv /\ FifoInv
<1>1. InitSockets => Inv
  BY UdpSafeStart, ServedStart, FifoStart
<1>2. Inv /\ [NextSockets]_allVars => Inv'
  BY UdpSafeStep, ServedStep, FifoStep
<1>3. Inv => OthersTypeOK
  BY NamesGive, PollGives DEF UdpSafe, UdpInv, UdpTypes, ServedInv, IterInv,
     FifoInv, OthersTypeOK
<1> QED
  BY <1>1, <1>2, <1>3, PTL DEF SpecSockets

-----------------------------------------------------------------------------
(* The conversion of a dictionary's text into records.                    *)

\* The file of lines with these lengths, as the lines of letters and what is
\* left of it behind each of them.
Letters(d, i) == [k \in 1..d[i] |-> i]
FileLines(d) == [i \in 1..Len(d) |-> Append(Letters(d, i), 0)]
Behind(d) == CHOOSE r : IsRest(FileLines(d), Nat, r) /\ r[0] = FlattenSeq(FileLines(d))

\* The lines between a word at h and the blank line at e, joined.
Body(d, h, e) == [k \in 1..(e - h - 1) |-> Letters(d, h + k)]
Joined(d, h, e) == CHOOSE g : /\ IsJoin(Body(d, h, e), Nat, g)
                              /\ FlattenSeq(Body(d, h, e)) = g[e - h - 1]
Meaning(d, h, e) == Append(Joined(d, h, e)[e - h - 1], 0)
Kept(d, h, e) ==
  IF Len(Meaning(d, h, e)) < Text THEN Meaning(d, h, e)
  ELSE SubSeq(Meaning(d, h, e), 1, Text - 1)

\* A word at h whose definition ends with the blank line at e.
HeadsOf(d) == {h \in 1..Len(d) : h = 1 \/ d[h - 1] = 0}
Entry(d, h, e) ==
  /\ h \in HeadsOf(d) /\ e \in (h + 1)..Len(d) /\ d[e] = 0
  /\ \A k \in h..(e - 1) : d[k] # 0

IsFile(d) == Len(d) \in Nat /\ d \in [1..Len(d) -> Nat]
Good(d) ==
  /\ Len(d) # 0 => d[Len(d)] = 0
  /\ \A h \in HeadsOf(d) : d[h] # 0
  /\ \A h \in HeadsOf(d) : \A e \in 1..Len(d) :
       Entry(d, h, e) /\ Len(Meaning(d, h, e)) > Text - 1 =>
         \A k \in 1..(e - h - 1) : Len(Joined(d, h, e)[k]) \notin {Text - 2, Text - 1}

\* The records of the words up to line i.
Rank(d, h) == Cardinality({j \in HeadsOf(d) : j <= h})
Made(d, i, o) ==
  /\ o \in Seq([word : Seq(Nat), text : Seq(Nat)])
  /\ Len(o) = Rank(d, i)
  /\ \A n \in 1..Len(o) : \E h, e \in 1..i :
       /\ Entry(d, h, e) /\ Rank(d, h) = n
       /\ o[n] = [word |-> Letters(d, h), text |-> Kept(d, h, e)]

LEMMA LettersIn ==
  ASSUME NEW d, IsFile(d), NEW i \in 1..Len(d)
  PROVE  /\ Letters(d, i) \in Seq(Nat) /\ Len(Letters(d, i)) = d[i] /\ d[i] \in Nat
         /\ \A k \in 1..d[i] : Letters(d, i)[k] = i
<1>1. d[i] \in Nat /\ i \in Nat
  BY DEF IsFile
<1>2. Letters(d, i) \in [1..d[i] -> Nat]
  BY <1>1 DEF Letters
<1>3. Letters(d, i) \in Seq(Nat)
  BY <1>1, <1>2, SeqDef
<1>4. DOMAIN Letters(d, i) = 1..d[i]
  BY DEF Letters
<1>5. Len(Letters(d, i)) = d[i]
  BY <1>1, <1>3, <1>4, LenProperties
<1> QED
  BY <1>1, <1>3, <1>5 DEF Letters

\* The file, line by line.
LEMMA FileIs ==
  ASSUME NEW d, IsFile(d)
  PROVE  /\ Behind(d) \in [0..Len(d) -> Seq(Nat)]
         /\ Behind(d)[Len(d)] = <<>>
         /\ \A i \in 1..Len(d) :
              Behind(d)[i - 1] = Append(Letters(d, i), 0) \o Behind(d)[i]
         /\ Behind(d)[0] = FlattenSeq(FileLines(d))
<1>0. Len(d) \in Nat
  BY DEF IsFile
<1>1. \A i \in 1..Len(d) : Append(Letters(d, i), 0) \in Seq(Nat)
  BY LettersIn, AppendProperties
<1>2. FileLines(d) \in [1..Len(d) -> Seq(Nat)]
  BY <1>1 DEF FileLines
<1>3. FileLines(d) \in Seq(Seq(Nat))
  BY <1>0, <1>2, SeqDef
<1>4. Len(FileLines(d)) = Len(d)
  <2>1. DOMAIN FileLines(d) = 1..Len(d)
    BY DEF FileLines
  <2> QED
    BY <1>0, <1>3, <2>1, LenProperties
<1>5. \E r : IsRest(FileLines(d), Nat, r) /\ r[0] = FlattenSeq(FileLines(d))
  <2>1. PICK g : IsJoin(FileLines(d), Nat, g) /\ FlattenSeq(FileLines(d)) = g[Len(FileLines(d))]
    BY <1>3, JoinOf
  <2> HIDE DEF FileLines
  <2>2. \E r : /\ IsRest(FileLines(d), Nat, r) /\ r[0] = g[Len(FileLines(d))]
               /\ \A k \in 0..Len(FileLines(d)) : g[Len(FileLines(d))] = g[k] \o r[k]
    BY ONLY <1>3, <2>1, RestOf
  <2> QED
    BY <2>1, <2>2
<1>6. IsRest(FileLines(d), Nat, Behind(d)) /\ Behind(d)[0] = FlattenSeq(FileLines(d))
  BY <1>5 DEF Behind
<1>7. \A i \in 1..Len(d) : FileLines(d)[i] = Append(Letters(d, i), 0)
  BY DEF FileLines
<1> QED
  BY <1>4, <1>6, <1>7 DEF IsRest

LEMMA BodyIs ==
  ASSUME NEW d, IsFile(d), NEW h \in Nat, NEW e \in (h + 1)..Len(d)
  PROVE  /\ Body(d, h, e) \in Seq(Seq(Nat))
         /\ Len(Body(d, h, e)) = e - h - 1 /\ e - h - 1 \in Nat
         /\ \A k \in 1..(e - h - 1) : Body(d, h, e)[k] = Letters(d, h + k)
<1>0. Len(d) \in Nat /\ e \in Nat /\ e - h - 1 \in Nat
  BY DEF IsFile
<1>1. \A k \in 1..(e - h - 1) : h + k \in 1..Len(d)
  BY <1>0
<1>2. \A k \in 1..(e - h - 1) : Letters(d, h + k) \in Seq(Nat)
  BY <1>1, LettersIn
<1>3. Body(d, h, e) \in [1..(e - h - 1) -> Seq(Nat)]
  BY <1>2 DEF Body
<1>4. Body(d, h, e) \in Seq(Seq(Nat))
  BY <1>0, <1>3, SeqDef
<1>5. DOMAIN Body(d, h, e) = 1..(e - h - 1)
  BY DEF Body
<1> QED
  BY <1>0, <1>4, <1>5, LenProperties DEF Body

\* A definition, line by line.
LEMMA MeaningIs ==
  ASSUME NEW d, IsFile(d), NEW h \in Nat, NEW e \in (h + 1)..Len(d)
  PROVE  LET g == Joined(d, h, e)
             m == e - h - 1
         IN /\ m \in Nat /\ g \in [0..m -> Seq(Nat)] /\ g[0] = <<>>
            /\ \A k \in 1..m : g[k] = g[k - 1] \o Letters(d, h + k)
            /\ FlattenSeq(Body(d, h, e)) = g[m]
            /\ \A k \in 0..m : \E r \in Seq(Nat) : g[m] = g[k] \o r
<1> DEFINE g == Joined(d, h, e)
           m == e - h - 1
           s == Body(d, h, e)
<1>1. s \in Seq(Seq(Nat)) /\ Len(s) = m /\ m \in Nat
      /\ \A k \in 1..m : s[k] = Letters(d, h + k)
  BY BodyIs
<1>2. \E f : IsJoin(s, Nat, f) /\ FlattenSeq(s) = f[m]
  <2> HIDE DEF s, m
  <2> QED
    BY <1>1, JoinOf
<1>3. IsJoin(s, Nat, g) /\ FlattenSeq(s) = g[m]
  BY <1>2 DEF Joined
<1> HIDE DEF s, m, g
<1>4. \A k \in 0..m : \E r \in Seq(Nat) : g[m] = g[k] \o r
  <2>0. \E r : /\ IsRest(s, Nat, r) /\ r[0] = g[Len(s)]
               /\ \A k \in 0..Len(s) : g[Len(s)] = g[k] \o r[k]
    BY ONLY <1>1, <1>3, RestOf
  <2>1. PICK r : IsRest(s, Nat, r) /\ \A k \in 0..m : g[m] = g[k] \o r[k]
    BY <1>1, <2>0
  <2>2. \A k \in 0..m : r[k] \in Seq(Nat)
    BY <1>1, <2>1 DEF IsRest
  <2> QED
    BY <2>1, <2>2
<1>5. /\ m \in Nat /\ g \in [0..m -> Seq(Nat)] /\ g[0] = <<>>
      /\ \A k \in 1..m : g[k] = g[k - 1] \o Letters(d, h + k)
  BY <1>1, <1>3 DEF IsJoin
<1> QED
  BY <1>3, <1>4, <1>5 DEF s, m, g

\* A line and what is behind it.
LEMMA LineAhead ==
  ASSUME NEW a \in Seq(Nat), NEW b \in Seq(Nat)
  PROVE  LET s == Append(a, 0) \o b
         IN /\ s \in Seq(Nat) /\ Append(a, 0) \in Seq(Nat)
            /\ Len(a) \in Nat /\ Len(b) \in Nat
            /\ Len(Append(a, 0)) = Len(a) + 1
            /\ Len(s) = Len(a) + 1 + Len(b)
            /\ \A k \in 1..Len(a) : s[k] = a[k] /\ Append(a, 0)[k] = a[k]
            /\ s[Len(a) + 1] = 0 /\ Append(a, 0)[Len(a) + 1] = 0
            /\ \A k \in 1..Len(b) : s[Len(a) + 1 + k] = b[k]
<1> DEFINE t == Append(a, 0)
<1>0. Len(a) \in Nat /\ Len(b) \in Nat
  BY LenProperties
<1>1. /\ t \in Seq(Nat) /\ Len(t) = Len(a) + 1 /\ t[Len(a) + 1] = 0
      /\ \A k \in 1..Len(a) : t[k] = a[k]
  BY AppendProperties
<1> HIDE DEF t
<1>2. /\ t \o b \in Seq(Nat) /\ Len(t \o b) = Len(t) + Len(b)
      /\ \A i \in 1..(Len(t) + Len(b)) :
           (t \o b)[i] = IF i <= Len(t) THEN t[i] ELSE b[i - Len(t)]
  BY <1>1, ConcatProperties
<1>3. \A k \in 1..(Len(a) + 1) : (t \o b)[k] = t[k]
  <2> SUFFICES ASSUME NEW k \in 1..(Len(a) + 1) PROVE (t \o b)[k] = t[k]
    OBVIOUS
  <2>1. k \in 1..(Len(t) + Len(b)) /\ k <= Len(t)
    BY <1>0, <1>1
  <2> QED
    BY <1>2, <2>1
<1>4. \A k \in 1..Len(b) : (t \o b)[Len(a) + 1 + k] = b[k]
  <2> SUFFICES ASSUME NEW k \in 1..Len(b) PROVE (t \o b)[Len(a) + 1 + k] = b[k]
    OBVIOUS
  <2>1. /\ Len(a) + 1 + k \in 1..(Len(t) + Len(b)) /\ ~(Len(a) + 1 + k <= Len(t))
        /\ Len(a) + 1 + k - Len(t) = k
    BY <1>0, <1>1
  <2> QED
    BY <1>2, <2>1
<1>5. \A k \in 1..Len(a) : (t \o b)[k] = a[k]
  <2> SUFFICES ASSUME NEW k \in 1..Len(a) PROVE (t \o b)[k] = a[k]
    OBVIOUS
  <2>1. k \in 1..(Len(a) + 1)
    BY <1>0
  <2> QED
    BY <1>1, <1>3, <2>1
<1>6. (t \o b)[Len(a) + 1] = 0
  <2>1. Len(a) + 1 \in 1..(Len(a) + 1)
    BY <1>0
  <2> QED
    BY <1>1, <1>3, <2>1
<1>7. Len(t \o b) = Len(a) + 1 + Len(b)
  BY <1>0, <1>1, <1>2
<1> QED
  BY <1>0, <1>1, <1>2, <1>4, <1>5, <1>6, <1>7 DEF t

\* What fgets takes of a line with a buffer of n bytes, and what it leaves.
LEMMA Takes ==
  ASSUME NEW a \in Seq(Nat), \A k \in 1..Len(a) : a[k] # 0,
         NEW b \in Seq(Nat), in = Append(a, 0) \o b, NEW n \in Nat, n >= 2
  PROVE  /\ Len(a) + 1 <= n - 1 =>
              Converter!Fgets(n) = Append(a, 0) /\ Converter!Rest(n) = b
         /\ Len(a) + 1 > n - 1 =>
              /\ Converter!Fgets(n) = SubSeq(a, 1, n - 1)
              /\ Converter!Rest(n) = Append(SubSeq(a, n, Len(a)), 0) \o b
<1> DEFINE I == {i \in 1..Len(in) : in[i] = 0}
           all == Len(a) + 1
           few == IF all < n - 1 THEN all ELSE n - 1
<1>0. /\ in \in Seq(Nat) /\ Append(a, 0) \in Seq(Nat)
      /\ Len(a) \in Nat /\ Len(b) \in Nat /\ Len(in) \in Nat
      /\ Len(Append(a, 0)) = Len(a) + 1
      /\ Len(in) = Len(a) + 1 + Len(b)
      /\ \A k \in 1..Len(a) : in[k] = a[k] /\ Append(a, 0)[k] = a[k]
      /\ in[Len(a) + 1] = 0 /\ Append(a, 0)[Len(a) + 1] = 0
      /\ \A k \in 1..Len(b) : in[Len(a) + 1 + k] = b[k]
  BY LineAhead
<1>1. all \in I /\ \A i \in I : all <= i
  <2>1. all \in 1..Len(in)
    BY <1>0
  <2>2. ASSUME NEW i \in I PROVE all <= i
    <3>1. i \in 1..Len(in) /\ in[i] = 0
      OBVIOUS
    <3>2. i \notin 1..Len(a)
      BY <1>0, <3>1
    <3> QED
      BY <1>0, <3>1, <3>2
  <2> QED
    BY <1>0, <2>1, <2>2
<1>2. Min(I) = all
  <2>1. I \subseteq Nat
    BY <1>0
  <2> HIDE DEF I
  <2>2. Min(I) \in I /\ \A i \in I : Min(I) <= i
    BY <1>1, <2>1, LeastOf
  <2>3. all <= Min(I) /\ Min(I) <= all
    BY <1>1, <2>2
  <2>4. Min(I) \in Nat
    BY ONLY <2>1, <2>2
  <2>5. all \in Nat
    BY <1>0
  <2> QED
    BY ONLY <2>3, <2>4, <2>5
<1>3. Converter!Fgets(n) = SubSeq(in, 1, few)
  <2>1. Converter!Min(I) = Min(I)
    BY DEF Converter!Min, Min
  <2>2. Converter!SelectInSeq(in, LAMBDA ch : ch = 0) = all
    BY <1>1, <1>2, <2>1 DEF Converter!SelectInSeq
  <2> QED
    BY <1>0, <2>2 DEF Converter!Fgets, Converter!NL
<1> HIDE DEF I
<1>4. /\ few \in 1..Len(in) /\ Len(SubSeq(in, 1, few)) = few
      /\ SubSeq(in, 1, few) \in Seq(Nat)
      /\ \A j \in 1..few : SubSeq(in, 1, few)[j] = in[j]
  <2>1. few \in 1..Len(in)
    BY <1>0
  <2>2. 1 \in 1..(Len(in) + 1) /\ few \in (1 - 1)..Len(in) /\ few - 1 + 1 = few
        /\ \A j \in 1..few : 1 + j - 1 = j
    BY <1>0, <2>1
  <2> HIDE DEF few
  <2> QED
    BY <1>0, <2>1, <2>2, Part
<1> DEFINE rest == SubSeq(in, few + 1, Len(in))
<1>5. Converter!Rest(n) = rest
  BY <1>3, <1>4 DEF Converter!Rest
<1>6. /\ rest \in Seq(Nat) /\ Len(rest) = Len(in) - few
      /\ \A j \in 1..(Len(in) - few) : rest[j] = in[few + j]
  <2>1. few + 1 \in 1..(Len(in) + 1) /\ Len(in) \in ((few + 1) - 1)..Len(in)
        /\ Len(in) - (few + 1) + 1 = Len(in) - few
        /\ \A j \in 1..(Len(in) - few) : (few + 1) + j - 1 = few + j
    BY <1>0, <1>4
  <2> HIDE DEF few
  <2>2. /\ rest \in Seq(Nat) /\ Len(rest) = Len(in) - (few + 1) + 1
        /\ \A j \in 1..(Len(in) - (few + 1) + 1) : rest[j] = in[(few + 1) + j - 1]
    <3>1. in \in Seq(Nat)
      BY <1>0
    <3> DEFINE m == few + 1
    <3>2. m \in 1..(Len(in) + 1) /\ Len(in) \in (m - 1)..Len(in)
      BY <2>1
    <3> HIDE DEF m
    <3>3. /\ SubSeq(in, m, Len(in)) \in Seq(Nat)
          /\ Len(SubSeq(in, m, Len(in))) = Len(in) - m + 1
          /\ \A j \in 1..(Len(in) - m + 1) : SubSeq(in, m, Len(in))[j] = in[m + j - 1]
      BY ONLY <3>1, <3>2, Part
    <3> QED
      BY <3>3 DEF m
  <2> HIDE DEF rest
  <2> QED
    BY ONLY <2>1, <2>2
<1> HIDE DEF rest
<1>7. CASE all <= n - 1
  <2>1. few = all
    BY <1>0, <1>7
  <2>2. SubSeq(in, 1, few) = Append(a, 0)
    <3>1. ASSUME NEW j \in 1..few PROVE in[j] = Append(a, 0)[j]
      <4>1. j \in 1..Len(a) \/ j = Len(a) + 1
        BY <1>0, <2>1
      <4> QED
        BY <1>0, <4>1
    <3> HIDE DEF few
    <3>2. Len(Append(a, 0)) = few
      BY <1>0, <2>1
    <3>3. \A j \in 1..few : SubSeq(in, 1, few)[j] = Append(a, 0)[j]
      BY <1>4, <3>1
    <3> QED
      BY <1>0, <1>4, <3>2, <3>3, SeqEqual
  <2>3. rest = b
    <3>1. Len(in) - few = Len(b)
      BY <1>0, <2>1
    <3>2. \A j \in 1..Len(b) : in[few + j] = b[j]
      BY <1>0, <2>1
    <3> HIDE DEF few
    <3>3. rest \in Seq(Nat) /\ Len(rest) = Len(b) /\ \A j \in 1..Len(b) : rest[j] = b[j]
      BY <1>6, <3>1, <3>2
    <3> QED
      BY ONLY <3>3, b \in Seq(Nat), SeqEqual
  <2>4. ~(all > n - 1)
    BY <1>0, <1>7
  <2> QED
    BY ONLY <1>3, <1>5, <1>7, <2>2, <2>3, <2>4
<1>8. CASE all > n - 1
  <2>1. few = n - 1 /\ n - 1 <= Len(a) /\ n - 1 \in Nat
    BY <1>0, <1>8
  <2> HIDE DEF few
  <2>2. /\ SubSeq(a, 1, n - 1) \in Seq(Nat) /\ Len(SubSeq(a, 1, n - 1)) = n - 1
        /\ \A j \in 1..(n - 1) : SubSeq(a, 1, n - 1)[j] = a[j]
    <3>1. 1 \in 1..(Len(a) + 1) /\ n - 1 \in (1 - 1)..Len(a) /\ (n - 1) - 1 + 1 = n - 1
          /\ \A j \in 1..(n - 1) : 1 + j - 1 = j
      BY <1>0, <2>1
    <3> QED
      BY <3>1, Part
  <2>3. SubSeq(in, 1, few) = SubSeq(a, 1, n - 1)
    <3>1. \A j \in 1..few : j \in 1..Len(a)
      BY <1>0, <2>1
    <3>2. \A j \in 1..few : SubSeq(in, 1, few)[j] = SubSeq(a, 1, n - 1)[j]
      BY <1>0, <1>4, <2>1, <2>2, <3>1
    <3> QED
      BY <1>4, <2>1, <2>2, <3>2, SeqEqual
  <2> DEFINE c == SubSeq(a, n, Len(a))
  <2>4. /\ c \in Seq(Nat) /\ Len(c) = Len(a) - n + 1
        /\ \A j \in 1..(Len(a) - n + 1) : c[j] = a[n + j - 1]
    <3>1. n \in 1..(Len(a) + 1) /\ Len(a) \in (n - 1)..Len(a)
      BY <1>0, <2>1
    <3> QED
      BY <3>1, Part
  <2> HIDE DEF c
  <2>5. /\ Append(c, 0) \o b \in Seq(Nat)
        /\ Len(Append(c, 0) \o b) = Len(c) + 1 + Len(b)
        /\ \A k \in 1..Len(c) : (Append(c, 0) \o b)[k] = c[k]
        /\ (Append(c, 0) \o b)[Len(c) + 1] = 0
        /\ \A k \in 1..Len(b) : (Append(c, 0) \o b)[Len(c) + 1 + k] = b[k]
    <3>1. c \in Seq(Nat) /\ b \in Seq(Nat)
      BY <2>4
    <3> QED
      BY ONLY <3>1, LineAhead
  <2>6. Len(in) - few = Len(c) + 1 + Len(b)
    BY <1>0, <2>1, <2>4
  <2>7. ASSUME NEW j \in 1..(Len(in) - few)
        PROVE  in[few + j] = (Append(c, 0) \o b)[j]
    <3>1. CASE j \in 1..Len(c)
      <4>1. few + j = n + j - 1 /\ n + j - 1 \in 1..Len(a) /\ j \in 1..(Len(a) - n + 1)
        BY <1>0, <2>1, <2>4, <3>1
      <4> QED
        BY <1>0, <2>4, <2>5, <3>1, <4>1
    <3>2. CASE j = Len(c) + 1
      <4>1. few + j = Len(a) + 1
        BY <1>0, <2>1, <2>4, <3>2
      <4> QED
        BY <1>0, <2>5, <3>2, <4>1
    <3>3. CASE j \notin 1..Len(c) /\ j # Len(c) + 1
      <4> DEFINE k == j - Len(c) - 1
      <4>1. k \in 1..Len(b) /\ j = Len(c) + 1 + k /\ few + j = Len(a) + 1 + k
        <5>1. j \in Nat /\ j >= 1 /\ j <= Len(c) + 1 + Len(b) /\ Len(c) \in Nat
          BY <1>0, <2>4, <2>6
        <5>2. j > Len(c) + 1
          BY <3>3, <5>1
        <5> QED
          BY <1>0, <2>1, <2>4, <5>1, <5>2
      <4> HIDE DEF k
      <4> QED
        BY <1>0, <2>5, <4>1
    <3> QED
      BY <3>1, <3>2, <3>3
  <2> DEFINE new == Append(c, 0) \o b
  <2>8. new \in Seq(Nat) /\ Len(rest) = Len(new)
        /\ \A j \in 1..Len(rest) : rest[j] = new[j]
    BY <1>6, <2>5, <2>6, <2>7
  <2> HIDE DEF new
  <2>9. rest = new
    BY <1>6, <2>8, SeqEqual
  <2>10. ~(all <= n - 1)
    BY <1>0, <1>8
  <2> QED
    BY ONLY <1>3, <1>5, <1>8, <2>3, <2>9, <2>10 DEF c, new
<1> QED
  BY <1>0, <1>7, <1>8

-----------------------------------------------------------------------------
LEMMA SameFlatten == \A s : Converter!FlattenSeq(s) = FlattenSeq(s)
  BY DEF FlattenSeq, Converter!FlattenSeq

LEMMA SameCount == \A S : Converter!Cardinality(S) = Cardinality(S)
  BY DEF Cardinality, Converter!Cardinality

LEMMA SameHeads == IsFile(lines) => Converter!Heads = HeadsOf(lines)
  BY DEF IsFile, Converter!Heads, HeadsOf

LEMMA EndIs ==
  ASSUME IsFile(lines), NEW h, NEW e, Entry(lines, h, e)
  PROVE  Converter!EndOf(h) = e
<1>0. /\ Len(lines) \in Nat /\ h \in 1..Len(lines) /\ e \in (h + 1)..Len(lines)
      /\ lines[e] = 0 /\ \A k \in h..(e - 1) : lines[k] # 0
  BY DEF IsFile, Entry, HeadsOf
<1> DEFINE P(j) == lines[j] = 0 /\ \A k \in h..(j - 1) : lines[k] # 0
<1>1. e \in h..Len(lines) /\ P(e)
  BY <1>0
<1>2. ASSUME NEW j \in h..Len(lines), P(j) PROVE j = e
  <2>1. ~(j < e)
    <3>1. ASSUME j < e PROVE FALSE
      <4>1. j \in h..(e - 1)
        BY <1>0, <3>1
      <4> QED
        BY <1>0, <1>2, <4>1
    <3> QED
      BY <3>1
  <2>2. ~(e < j)
    <3>1. ASSUME e < j PROVE FALSE
      <4>1. e \in h..(j - 1)
        BY <1>0, <3>1
      <4> QED
        BY <1>0, <1>2, <4>1
    <3> QED
      BY <3>1
  <2> QED
    BY <1>0, <2>1, <2>2
<1> HIDE DEF P
<1>3. (CHOOSE j \in h..Len(lines) : P(j)) = e
  BY <1>1, <1>2
<1> QED
  BY <1>3 DEF Converter!EndOf, P

LEMMA EntryOf ==
  ASSUME NEW d, IsFile(d), Good(d), NEW h \in HeadsOf(d)
  PROVE  \E e \in 1..Len(d) : Entry(d, h, e)
<1>0. Len(d) \in Nat /\ h \in 1..Len(d) /\ d[Len(d)] = 0 /\ d[h] # 0
  BY DEF IsFile, Good, HeadsOf
<1> DEFINE I == {j \in h..Len(d) : d[j] = 0}
<1>1. I \subseteq Nat /\ Len(d) \in I
  BY <1>0
<1>2. PICK e \in I : \A j \in I : e <= j
  <2> HIDE DEF I
  <2> QED
    BY <1>1, LeastOf
<1>3. e \in (h + 1)..Len(d) /\ d[e] = 0 /\ e \in 1..Len(d)
  BY <1>0, <1>2
<1>4. ASSUME NEW k \in h..(e - 1) PROVE d[k] # 0
  <2>1. k \in h..Len(d) /\ k < e
    BY <1>0, <1>3
  <2>2. k \notin I
    BY <1>0, <1>2, <2>1
  <2> QED
    BY <2>1, <2>2
<1> QED
  BY <1>3, <1>4 DEF Entry

LEMMA RecordIs ==
  ASSUME IsFile(lines), NEW h, NEW e, Entry(lines, h, e)
  PROVE  /\ Converter!Definition(h) = Meaning(lines, h, e)
         /\ Converter!Record(h) = [word |-> Letters(lines, h), text |-> Kept(lines, h, e)]
<1>0. h \in Nat /\ e \in (h + 1)..Len(lines) /\ Len(lines) \in Nat /\ Converter!EndOf(h) = e
  <2>1. Converter!EndOf(h) = e
    BY EndIs
  <2>2. h \in Nat /\ e \in (h + 1)..Len(lines) /\ Len(lines) \in Nat
    BY DEF IsFile, Entry, HeadsOf
  <2> QED
    BY <2>1, <2>2
<1>1. [k \in 1..(e - h - 1) |-> Converter!LineText(h + k)] = Body(lines, h, e)
  BY DEF Converter!LineText, Letters, Body
<1>2. /\ FlattenSeq(Body(lines, h, e)) = Joined(lines, h, e)[e - h - 1]
      /\ Joined(lines, h, e) \in [0..(e - h - 1) -> Seq(Nat)] /\ e - h - 1 \in Nat
  BY <1>0, MeaningIs
<1>2a. Joined(lines, h, e)[e - h - 1] \in Seq(Nat)
  BY <1>2
<1>3. Converter!Definition(h) = Meaning(lines, h, e)
  BY <1>0, <1>1, <1>2, SameFlatten DEF Converter!Definition, Converter!NL, Meaning
<1>4. Converter!LineText(h) = Letters(lines, h)
  BY DEF Converter!LineText, Letters
<1>5. Len(Meaning(lines, h, e)) \in Nat
  <2> QED
    BY <1>2a, AppendProperties, LenProperties DEF Meaning
<1>6. CASE Len(Meaning(lines, h, e)) < Text
  <2>1. SubSeq(Meaning(lines, h, e), 1, Len(Meaning(lines, h, e))) = Meaning(lines, h, e)
    <3>2. Meaning(lines, h, e) \in Seq(Nat)
      BY <1>2a, AppendProperties DEF Meaning
    <3> QED
      BY <3>2, SubSeqFull
  <2> QED
    BY <1>3, <1>4, <1>6, <2>1 DEF Converter!Record, Kept
<1>7. CASE ~(Len(Meaning(lines, h, e)) < Text)
  BY <1>3, <1>4, <1>7 DEF Converter!Record, Kept
<1> QED
  BY <1>3, <1>6, <1>7

LEMMA PrefixIs ==
  ASSUME IsFile(lines), NEW h, NEW e, Entry(lines, h, e), NEW k \in 1..(e - h - 1)
  PROVE  Converter!Prefix(h, h + k) = Len(Joined(lines, h, e)[k])
<1> DEFINE m == e - h - 1
           g == Joined(lines, h, e)
           t == Joined(lines, h + k, e)
<1>0. /\ h \in Nat /\ e \in (h + 1)..Len(lines) /\ Len(lines) \in Nat
      /\ Converter!EndOf(h) = e /\ m \in Nat /\ k \in Nat
      /\ h + k \in Nat /\ e \in (h + k + 1)..Len(lines)
      /\ e - (h + k) - 1 = m - k /\ m - k \in Nat /\ k \in 0..m
  <2>1. Converter!EndOf(h) = e
    BY EndIs
  <2>2. h \in Nat /\ e \in (h + 1)..Len(lines) /\ Len(lines) \in Nat
    BY DEF IsFile, Entry, HeadsOf
  <2> QED
    BY <2>1, <2>2
<1>1. /\ Body(lines, h, e) \in Seq(Seq(Nat)) /\ Len(Body(lines, h, e)) = m
      /\ \A n \in 1..m : Body(lines, h, e)[n] = Letters(lines, h + n)
  BY ONLY <1>0, IsFile(lines), BodyIs
<1>2. /\ Body(lines, h + k, e) \in Seq(Seq(Nat))
      /\ Len(Body(lines, h + k, e)) = m - k
      /\ \A n \in 1..(m - k) : Body(lines, h + k, e)[n] = Letters(lines, (h + k) + n)
  <2> DEFINE i == h + k
  <2>1. i \in Nat /\ e \in (i + 1)..Len(lines) /\ e - i - 1 = m - k
    BY <1>0
  <2> HIDE DEF i, m
  <2>2. /\ Body(lines, i, e) \in Seq(Seq(Nat)) /\ Len(Body(lines, i, e)) = e - i - 1
        /\ \A n \in 1..(e - i - 1) : Body(lines, i, e)[n] = Letters(lines, i + n)
    BY ONLY <2>1, IsFile(lines), BodyIs
  <2> QED
    BY <2>1, <2>2 DEF i
<1>3. /\ g \in [0..m -> Seq(Nat)] /\ g[0] = <<>>
      /\ \A n \in 1..m : g[n] = g[n - 1] \o Letters(lines, h + n)
  <2> DEFINE f == Joined(lines, h, e)
             l == e - h - 1
  <2>1. /\ l \in Nat /\ f \in [0..l -> Seq(Nat)] /\ f[0] = <<>>
        /\ \A n \in 1..l : f[n] = f[n - 1] \o Letters(lines, h + n)
        /\ FlattenSeq(Body(lines, h, e)) = f[l]
    <3>1. h \in Nat /\ e \in (h + 1)..Len(lines)
      BY <1>0
    <3> QED
      BY ONLY <3>1, IsFile(lines), MeaningIs
  <2> QED
    BY <2>1
<1>4. /\ t \in [0..(m - k) -> Seq(Nat)] /\ t[0] = <<>>
      /\ \A n \in 1..(m - k) : t[n] = t[n - 1] \o Letters(lines, (h + k) + n)
      /\ FlattenSeq(Body(lines, h + k, e)) = t[m - k]
  <2> DEFINE i == h + k
             f == Joined(lines, i, e)
             l == e - i - 1
  <2>1. i \in Nat /\ e \in (i + 1)..Len(lines) /\ l = m - k
    BY <1>0
  <2> HIDE DEF i, m
  <2>2. /\ l \in Nat /\ f \in [0..l -> Seq(Nat)] /\ f[0] = <<>>
        /\ \A n \in 1..l : f[n] = f[n - 1] \o Letters(lines, i + n)
        /\ FlattenSeq(Body(lines, i, e)) = f[l]
    BY ONLY <2>1, IsFile(lines), MeaningIs
  <2> QED
    BY <2>1, <2>2 DEF i
<1> HIDE DEF m, g, t
<1>5. /\ Len(g[m]) = Len(g[k]) + Len(t[m - k])
      /\ Len(g[k]) \in Nat /\ Len(t[m - k]) \in Nat
  <2>1. IsJoin(Body(lines, h, e), Nat, g)
    BY <1>1, <1>3 DEF IsJoin
  <2>2. IsJoin(Body(lines, h + k, e), Nat, t)
    BY <1>2, <1>4 DEF IsJoin
  <2>3. \A n \in 1..(m - k) : Body(lines, h + k, e)[n] = Body(lines, h, e)[k + n]
    <3> SUFFICES ASSUME NEW n \in 1..(m - k)
                 PROVE  Body(lines, h + k, e)[n] = Body(lines, h, e)[k + n]
      OBVIOUS
    <3>1. k + n \in 1..m /\ h + (k + n) = (h + k) + n
      BY <1>0
    <3> QED
      BY <1>1, <1>2, <3>1
  <2> DEFINE s == Body(lines, h, e)
             u == Body(lines, h + k, e)
  <2>4. /\ s \in Seq(Seq(Nat)) /\ IsJoin(s, Nat, g) /\ k \in 0..Len(s) /\ u \in Seq(Seq(Nat))
        /\ IsEnd(u, s, k) /\ IsJoin(u, Nat, t)
        /\ Len(s) = m /\ Len(u) = m - k
    BY <1>0, <1>1, <1>2, <2>1, <2>2, <2>3 DEF IsEnd
  <2> HIDE DEF s, u
  <2>5. LengthsAdd(s, g, k, u, t)
    BY ONLY <2>4, JoinBehind
  <2> QED
    BY <2>4, <2>5 DEF LengthsAdd
<1>6. g[m] \in Seq(Nat)
  BY <1>0, <1>3
<1>7. Converter!Definition(h) = Append(g[m], 0)
  BY RecordIs DEF Meaning, g, m
<1>8. Len(Converter!Definition(h)) = Len(g[m]) + 1
  <2> DEFINE x == g[m]
  <2>1. x \in Seq(Nat)
    BY <1>6
  <2> HIDE DEF x
  <2>2. Len(Append(x, 0)) = Len(x) + 1
    BY <2>1, AppendProperties
  <2> QED
    BY <1>7, <2>2 DEF x
<1>9. [n \in 1..(e - 1 - (h + k)) |-> Converter!LineText((h + k) + n)]
      = Body(lines, h + k, e)
  <2>1. e - 1 - (h + k) = e - (h + k) - 1
    BY <1>0
  <2> QED
    BY <2>1 DEF Body, Letters, Converter!LineText
<1>10. Converter!Prefix(h, h + k) = Len(Converter!Definition(h)) - Len(t[m - k]) - 1
  BY <1>0, <1>4, <1>9, SameFlatten DEF Converter!Prefix
<1> DEFINE a == Len(g[k])
           b == Len(t[m - k])
           c == Len(g[m])
           x == Len(Converter!Definition(h))
<1>11. c = a + b /\ a \in Nat /\ b \in Nat
  BY ONLY <1>5
<1>12. x = c + 1
  BY ONLY <1>8
<1>13. Converter!Prefix(h, h + k) = x - b - 1
  BY ONLY <1>10
<1> HIDE DEF a, b, c, x
<1>14. Converter!Prefix(h, h + k) = a
  BY ONLY <1>11, <1>12, <1>13
<1> QED
  BY <1>14 DEF a, g

LEMMA HeadsFinite ==
  ASSUME NEW d, IsFile(d), NEW i
  PROVE  IsFiniteSet({j \in HeadsOf(d) : j <= i}) /\ Rank(d, i) \in Nat
<1>1. IsFiniteSet(1..Len(d))
  BY FS_Interval DEF IsFile
<1>2. {j \in HeadsOf(d) : j <= i} \in SUBSET (1..Len(d))
  BY DEF HeadsOf
<1>3. IsFiniteSet({j \in HeadsOf(d) : j <= i})
  BY <1>1, <1>2, FS_Subset
<1> QED
  BY <1>3, FS_CardinalityType DEF Rank

\* There is no word between a word and the end of its definition.
LEMMA RankStep ==
  ASSUME NEW d, IsFile(d), NEW h, NEW e, Entry(d, h, e)
  PROVE  Rank(d, e) = Rank(d, h - 1) + 1 /\ Rank(d, h) = Rank(d, e)
<1> DEFINE B(i) == {j \in HeadsOf(d) : j <= i}
<1>0. /\ h \in HeadsOf(d) /\ h \in Nat \ {0} /\ e \in Nat /\ e > h
      /\ HeadsOf(d) \subseteq Nat
  BY DEF Entry, HeadsOf, IsFile
<1>1. ASSUME NEW j \in HeadsOf(d), j <= e PROVE j <= h
  <2>1. ASSUME j > h PROVE FALSE
    <3>1. j - 1 \in h..(e - 1) /\ j # 1
      BY ONLY <1>0, <1>1, <2>1
    <3> QED
      BY <3>1 DEF Entry, HeadsOf
  <2> QED
    BY ONLY <1>0, <1>1, <2>1
<1>2. B(h) = B(e)
  BY ONLY <1>0, <1>1
<1>3. B(h) = B(h - 1) \cup {h} /\ h \notin B(h - 1)
  BY ONLY <1>0
<1>4. IsFiniteSet(B(h - 1))
  BY HeadsFinite
<1>5. /\ Rank(d, h) = Cardinality(B(h)) /\ Rank(d, e) = Cardinality(B(e))
      /\ Rank(d, h - 1) = Cardinality(B(h - 1))
  BY DEF Rank
<1> HIDE DEF B
<1>6. Cardinality(B(h - 1) \cup {h}) = Cardinality(B(h - 1)) + 1
  BY ONLY <1>3, <1>4, FS_AddElement
<1> QED
  BY ONLY <1>2, <1>3, <1>5, <1>6

LEMMA RankTells ==
  ASSUME NEW d, IsFile(d), NEW h \in HeadsOf(d), NEW i \in HeadsOf(d),
         Rank(d, h) = Rank(d, i)
  PROVE  h = i
<1>0. ASSUME NEW a \in HeadsOf(d), NEW b \in HeadsOf(d), Rank(d, a) = Rank(d, b), a < b
      PROVE  FALSE
  <2> DEFINE A == {j \in HeadsOf(d) : j <= a}
             B == {j \in HeadsOf(d) : j <= b}
  <2>1. /\ IsFiniteSet(B) /\ Cardinality(A) = Cardinality(B)
    BY <1>0, HeadsFinite DEF Rank
  <2>2. a \in Nat /\ b \in HeadsOf(d) /\ HeadsOf(d) \subseteq Nat
    BY <1>0 DEF HeadsOf
  <2>3. A \in SUBSET B /\ b \in B /\ b \notin A
    BY ONLY <1>0, <2>2
  <2> HIDE DEF A, B
  <2> QED
    BY ONLY <2>1, <2>3, FS_Subset
<1>1. h \in Nat /\ i \in Nat
  BY DEF HeadsOf
<1> QED
  BY <1>0, <1>1

LEMMA MadeStart ==
  ASSUME NEW d, IsFile(d)
  PROVE  Made(d, 0, <<>>)
<1>1. {j \in HeadsOf(d) : j <= 0} = {}
  BY DEF HeadsOf
<1>2. Rank(d, 0) = 0
  BY <1>1, FS_EmptySet DEF Rank
<1> QED
  BY <1>2 DEF Made

LEMMA KeptIn ==
  ASSUME NEW d, IsFile(d), NEW h, NEW e, Entry(d, h, e), Text \in Nat \ {0}
  PROVE  /\ Meaning(d, h, e) \in Seq(Nat) /\ Kept(d, h, e) \in Seq(Nat)
         /\ Letters(d, h) \in Seq(Nat)
<1>0. h \in Nat /\ h \in 1..Len(d) /\ e \in (h + 1)..Len(d)
  BY DEF IsFile, Entry, HeadsOf
<1>1. /\ Joined(d, h, e) \in [0..(e - h - 1) -> Seq(Nat)] /\ e - h - 1 \in Nat
  BY <1>0, MeaningIs
<1>2. Joined(d, h, e)[e - h - 1] \in Seq(Nat)
  BY <1>1
<1>3. Meaning(d, h, e) \in Seq(Nat)
  BY <1>2, AppendProperties DEF Meaning
<1>4. Letters(d, h) \in Seq(Nat)
  BY <1>0, LettersIn
<1>5. CASE Len(Meaning(d, h, e)) < Text
  BY <1>3, <1>4, <1>5 DEF Kept
<1>6. CASE ~(Len(Meaning(d, h, e)) < Text)
  <2>0. Len(Meaning(d, h, e)) \in Nat
    BY <1>3, LenProperties
  <2>1. Kept(d, h, e) = SubSeq(Meaning(d, h, e), 1, Text - 1)
    BY <1>6 DEF Kept
  <2>2. 1 \in 1..(Len(Meaning(d, h, e)) + 1)
        /\ Text - 1 \in (1 - 1)..Len(Meaning(d, h, e))
    BY <1>6, <2>0
  <2>3. SubSeq(Meaning(d, h, e), 1, Text - 1) \in Seq(Nat)
    BY <1>3, <2>2, Part
  <2> QED
    BY <1>3, <1>4, <2>1, <2>3
<1> QED
  BY <1>5, <1>6

\* One record more.
LEMMA MadeStep ==
  ASSUME NEW d, IsFile(d), NEW h, NEW e, Entry(d, h, e), Text \in Nat \ {0},
         NEW o, Made(d, h - 1, o)
  PROVE  Made(d, e, Append(o, [word |-> Letters(d, h), text |-> Kept(d, h, e)]))
<1> DEFINE r == [word |-> Letters(d, h), text |-> Kept(d, h, e)]
           T == [word : Seq(Nat), text : Seq(Nat)]
           new == Append(o, r)
<1>1. o \in Seq(T) /\ Len(o) = Rank(d, h - 1) /\ Len(o) \in Nat
  BY LenProperties DEF Made
<1>2. r \in T
  BY KeptIn
<1>3. /\ Rank(d, e) = Len(o) + 1 /\ Rank(d, h) = Len(o) + 1
  BY <1>1, RankStep
<1>4. h \in Nat /\ e \in Nat /\ h \in 1..e /\ e \in 1..e
  BY DEF Entry, HeadsOf, IsFile
<1>5. \A n \in 1..Len(o) : \E a, b \in 1..(h - 1) :
        /\ Entry(d, a, b) /\ Rank(d, a) = n
        /\ o[n] = [word |-> Letters(d, a), text |-> Kept(d, a, b)]
  BY DEF Made
<1> HIDE DEF r, T
<1>6. /\ new \in Seq(T) /\ Len(new) = Len(o) + 1
      /\ \A n \in 1..Len(o) : new[n] = o[n]
      /\ new[Len(o) + 1] = r
  BY <1>1, <1>2, AppendProperties
<1> HIDE DEF new
<1>7. ASSUME NEW n \in 1..Len(new)
      PROVE  \E a, b \in 1..e :
               /\ Entry(d, a, b) /\ Rank(d, a) = n
               /\ new[n] = [word |-> Letters(d, a), text |-> Kept(d, a, b)]
  <2>1. CASE n \in 1..Len(o)
    <3>1. PICK a, b \in 1..(h - 1) :
            /\ Entry(d, a, b) /\ Rank(d, a) = n
            /\ o[n] = [word |-> Letters(d, a), text |-> Kept(d, a, b)]
      BY <1>5, <2>1
    <3>2. a \in 1..e /\ b \in 1..e
      BY <1>4
    <3> QED
      BY <1>6, <2>1, <3>1, <3>2
  <2>2. CASE n = Len(o) + 1
    BY <1>3, <1>4, <1>6, <2>2 DEF r
  <2> QED
    BY <1>1, <1>6, <2>1, <2>2
<1>8. Len(new) = Rank(d, e)
  BY <1>3, <1>6
<1>9. Made(d, e, new)
  BY ONLY <1>6, <1>7, <1>8 DEF Made, T
<1> QED
  BY <1>9 DEF new, r

\* What is made of a file that is in good form.
LEMMA AllMade ==
  ASSUME IsFile(lines), Made(lines, Len(lines), out)
  PROVE  out = Converter!Records
<1> DEFINE H == HeadsOf(lines)
           F(n) == CHOOSE i \in H : Converter!Cardinality({j \in H : j <= i}) = n
           R == [n \in 1..Cardinality(H) |-> Converter!Record(F(n))]
<1>0. Converter!Heads = H /\ \A i \in H : i \in Nat /\ i <= Len(lines)
  BY SameHeads DEF HeadsOf, IsFile
<1>1. Converter!Records = R
  <2>1. Converter!Cardinality(H) = Cardinality(H)
    BY SameCount
  <2>2. Converter!Heads = H
    BY <1>0
  <2> HIDE DEF H
  <2> QED
    BY ONLY <2>1, <2>2 DEF Converter!Records
<1>2. Rank(lines, Len(lines)) = Cardinality(H)
  <2>1. {j \in H : j <= Len(lines)} = H
    BY <1>0
  <2> QED
    BY <2>1 DEF Rank
<1>3. /\ out \in Seq([word : Seq(Nat), text : Seq(Nat)])
      /\ Len(out) = Cardinality(H)
  BY <1>2 DEF Made
<1>4. ASSUME NEW n \in 1..Len(out) PROVE out[n] = Converter!Record(F(n))
  <2>1. PICK h, e \in 1..Len(lines) :
          /\ Entry(lines, h, e) /\ Rank(lines, h) = n
          /\ out[n] = [word |-> Letters(lines, h), text |-> Kept(lines, h, e)]
    BY DEF Made
  <2>2. out[n] = Converter!Record(h)
    BY <2>1, RecordIs
  <2>3. h \in H
    BY <2>1 DEF Entry
  <2> DEFINE P(i) == Converter!Cardinality({j \in H : j <= i}) = n
  <2>4. \A i \in H : P(i) <=> Rank(lines, i) = n
    BY SameCount DEF Rank
  <2>5. \A i \in H : P(i) <=> i = h
    <3> HIDE DEF P
    <3> QED
      BY <2>1, <2>3, <2>4, RankTells
  <2>6. F(n) = h
    <3> HIDE DEF P
    <3>1. (CHOOSE i \in H : P(i)) = h
      BY ONLY <2>3, <2>5
    <3> QED
      BY <3>1 DEF P
  <2> QED
    BY <2>2, <2>6
<1>5. DOMAIN out = 1..Len(out) /\ out = [n \in 1..Len(out) |-> out[n]]
  BY <1>3
<1> HIDE DEF F
<1>6. out = R
  BY <1>3, <1>4, <1>5
<1> QED
  BY <1>1, <1>6

\* A file that convert.c's comment describes.
LEMMA GoodIs ==
  ASSUME IsFile(lines), Converter!WellFormed,
         \A i \in Converter!Heads : ~Converter!Awkward(i)
  PROVE  Good(lines)
<1>0. Converter!Heads = HeadsOf(lines) /\ Len(lines) \in Nat
  BY SameHeads DEF IsFile
<1>1. Len(lines) # 0 => lines[Len(lines)] = 0
  BY <1>0 DEF Converter!WellFormed
<1>2. \A h \in HeadsOf(lines) : lines[h] # 0
  BY <1>0 DEF Converter!WellFormed
<1>3. ASSUME NEW h \in HeadsOf(lines), NEW e \in 1..Len(lines), Entry(lines, h, e),
             Len(Meaning(lines, h, e)) > Text - 1, NEW k \in 1..(e - h - 1)
      PROVE  Len(Joined(lines, h, e)[k]) \notin {Text - 2, Text - 1}
  <2>1. Converter!EndOf(h) = e
    BY <1>3, EndIs
  <2>2. Converter!Definition(h) = Meaning(lines, h, e)
    BY <1>3, RecordIs
  <2>3. Converter!Prefix(h, h + k) = Len(Joined(lines, h, e)[k])
    BY <1>3, PrefixIs
  <2>4. h + k \in (h + 1)..(e - 1)
    BY <1>0 DEF HeadsOf
  <2>5. ~Converter!Awkward(h)
    BY <1>0
  <2> QED
    BY <1>3, <2>1, <2>2, <2>3, <2>4, <2>5 DEF Converter!Awkward
<1> QED
  BY <1>1, <1>2, <1>3 DEF Good

LEMMA LineIs ==
  ASSUME NEW d, IsFile(d), NEW i \in 1..Len(d)
  PROVE  /\ Behind(d)[i] \in Seq(Nat) /\ Behind(d)[i - 1] \in Seq(Nat)
         /\ Behind(d)[i - 1] = Append(Letters(d, i), 0) \o Behind(d)[i]
         /\ Letters(d, i) \in Seq(Nat) /\ Len(Letters(d, i)) = d[i] /\ d[i] \in Nat
         /\ \A k \in 1..Len(Letters(d, i)) : Letters(d, i)[k] # 0
<1>0. Len(d) \in Nat /\ i \in Nat \ {0} /\ i \in 0..Len(d) /\ i - 1 \in 0..Len(d)
  BY DEF IsFile
<1>1. /\ Letters(d, i) \in Seq(Nat) /\ Len(Letters(d, i)) = d[i] /\ d[i] \in Nat
      /\ \A k \in 1..d[i] : Letters(d, i)[k] = i
  BY LettersIn
<1>2. \A k \in 1..Len(Letters(d, i)) : Letters(d, i)[k] # 0
  BY <1>0, <1>1
<1>3. /\ Behind(d) \in [0..Len(d) -> Seq(Nat)]
      /\ Behind(d)[i - 1] = Append(Letters(d, i), 0) \o Behind(d)[i]
  BY FileIs
<1> QED
  BY <1>0, <1>1, <1>2, <1>3

\* A line put over the newline of what is before it.
LEMMA PutOver ==
  ASSUME NEW p \in Seq(Nat), NEW a \in Seq(Nat)
  PROVE  /\ SubSeq(Append(p, 0), 1, Len(p)) = p
         /\ p \o Append(a, 0) = Append(p \o a, 0)
         /\ p \o a \in Seq(Nat) /\ Len(p \o a) = Len(p) + Len(a)
         /\ Len(p) \in Nat /\ Len(a) \in Nat
<1>0. Len(p) \in Nat /\ Len(a) \in Nat
  BY LenProperties
<1>1. /\ Append(p, 0) \in Seq(Nat) /\ Len(Append(p, 0)) = Len(p) + 1
      /\ \A k \in 1..Len(p) : Append(p, 0)[k] = p[k]
  BY AppendProperties
<1>2. SubSeq(Append(p, 0), 1, Len(p)) = p
  <2> DEFINE s == Append(p, 0)
             n == Len(p)
  <2>1. 1 \in 1..(Len(s) + 1) /\ n \in (1 - 1)..Len(s) /\ n - 1 + 1 = n
        /\ \A j \in 1..n : 1 + j - 1 = j
    BY <1>0, <1>1
  <2>2. s \in Seq(Nat) /\ \A j \in 1..n : s[j] = p[j]
    BY <1>1
  <2> HIDE DEF s
  <2>3. /\ SubSeq(s, 1, n) \in Seq(Nat) /\ Len(SubSeq(s, 1, n)) = n
        /\ \A j \in 1..n : SubSeq(s, 1, n)[j] = s[j]
    BY <2>1, <2>2, Part
  <2>4. SubSeq(s, 1, n) = p
    BY <2>2, <2>3, SeqEqual
  <2> QED
    BY <2>4 DEF s
<1>3. p \o Append(a, 0) = Append(p \o a, 0) /\ p \o a \in Seq(Nat)
      /\ Len(p \o a) = Len(p) + Len(a)
  <2>1. <<0>> \in Seq(Nat)
    OBVIOUS
  <2>2. (p \o a) \o <<0>> = p \o (a \o <<0>>)
    BY <2>1, ConcatAssociative
  <2>3. p \o a \in Seq(Nat) /\ Len(p \o a) = Len(p) + Len(a)
    BY ConcatProperties
  <2>4. Append(a, 0) = a \o <<0>>
    BY AppendIsConcat
  <2>5. Append(p \o a, 0) = (p \o a) \o <<0>>
    <3> DEFINE x == p \o a
    <3>1. x \in Seq(Nat)
      BY <2>3
    <3> HIDE DEF x
    <3>2. Append(x, 0) = x \o <<0>>
      BY <3>1, AppendIsConcat
    <3> QED
      BY <3>2 DEF x
  <2> QED
    BY <2>2, <2>3, <2>4, <2>5
<1> QED
  BY <1>0, <1>2, <1>3

\* The last of a line, and the line without its newline.
LEMMA NewlineOff ==
  ASSUME NEW a \in Seq(Nat)
  PROVE  /\ Converter!BeforeNewline(Append(a, 0)) = a
         /\ Converter!Last(Append(a, 0)) = 0
         /\ Append(a, 0) # <<>> /\ Len(Append(a, 0)) = Len(a) + 1
<1>1. /\ Append(a, 0) \in Seq(Nat) /\ Len(Append(a, 0)) = Len(a) + 1
      /\ Append(a, 0)[Len(a) + 1] = 0
  BY AppendProperties
<1>2. SubSeq(Append(a, 0), 1, Len(a)) = a /\ Len(a) \in Nat
  BY PutOver
<1>3. Len(Append(a, 0)) - 1 = Len(a)
  BY <1>1, <1>2
<1>4. Converter!Last(Append(a, 0)) = 0
  BY <1>1 DEF Converter!Last
<1>5. Converter!Front(Append(a, 0)) = a
  BY <1>2, <1>3 DEF Converter!Front
<1>6. Append(a, 0) # <<>>
  BY <1>1, <1>2, EmptySeq
<1> QED
  BY <1>1, <1>4, <1>5, <1>6 DEF Converter!BeforeNewline, Converter!NL

\* Text that is cut in the middle of a line.
LEMMA CutIs ==
  ASSUME NEW p \in Seq(Nat), NEW a \in Seq(Nat), NEW r \in Seq(Nat),
         NEW n \in 1..Len(a)
  PROVE  LET M == Append((p \o a) \o r, 0)
             x == p \o SubSeq(a, 1, n)
         IN /\ Len(M) > Len(p) + n /\ Len(x) = Len(p) + n
            /\ SubSeq(M, 1, Len(p) + n) = x
            /\ x # <<>> /\ x[Len(x)] = a[n]
<1> DEFINE c == SubSeq(a, 1, n)
           u == p \o a
           v == u \o r
           M == Append(v, 0)
           x == p \o c
           t == Len(p) + n
<1>0. Len(p) \in Nat /\ Len(a) \in Nat /\ Len(r) \in Nat /\ n \in Nat /\ n >= 1 /\ n <= Len(a)
      /\ t \in Nat /\ t >= 1
  BY LenProperties
<1>1. /\ c \in Seq(Nat) /\ Len(c) = n /\ \A j \in 1..n : c[j] = a[j]
  <2>1. 1 \in 1..(Len(a) + 1) /\ n \in (1 - 1)..Len(a) /\ n - 1 + 1 = n
        /\ \A j \in 1..n : 1 + j - 1 = j
    BY <1>0
  <2> QED
    BY <2>1, Part
<1> HIDE DEF c
<1>2. /\ x \in Seq(Nat) /\ Len(x) = Len(p) + Len(c)
      /\ \A i \in 1..(Len(p) + Len(c)) : x[i] = IF i <= Len(p) THEN p[i] ELSE c[i - Len(p)]
  BY <1>1, ConcatProperties
<1>3. /\ u \in Seq(Nat) /\ Len(u) = Len(p) + Len(a)
      /\ \A i \in 1..(Len(p) + Len(a)) : u[i] = IF i <= Len(p) THEN p[i] ELSE a[i - Len(p)]
  BY ConcatProperties
<1> HIDE DEF u, x
<1>4. /\ v \in Seq(Nat) /\ Len(v) = Len(u) + Len(r)
      /\ \A i \in 1..(Len(u) + Len(r)) : v[i] = IF i <= Len(u) THEN u[i] ELSE r[i - Len(u)]
  <2>1. u \in Seq(Nat) /\ r \in Seq(Nat)
    BY <1>3
  <2> QED
    BY ONLY <2>1, ConcatProperties
<1> HIDE DEF v
<1>5. /\ M \in Seq(Nat) /\ Len(M) = Len(v) + 1
      /\ \A i \in 1..Len(v) : M[i] = v[i]
  <2>1. v \in Seq(Nat) /\ 0 \in Nat
    BY <1>4
  <2> HIDE DEF v
  <2> QED
    BY ONLY <2>1, AppendProperties
<1> HIDE DEF M
<1>6. Len(x) = t /\ Len(M) > t
  BY <1>0, <1>1, <1>2, <1>3, <1>4, <1>5
<1>7. ASSUME NEW i \in 1..t PROVE M[i] = x[i]
  <2>0. Len(v) = Len(u) + Len(r) /\ Len(u) = Len(p) + Len(a) /\ Len(c) = n
    BY ONLY <1>1, <1>3, <1>4
  <2>1. i \in 1..Len(v) /\ i \in 1..(Len(u) + Len(r)) /\ i <= Len(u)
        /\ i \in 1..(Len(p) + Len(a)) /\ i \in 1..(Len(p) + Len(c))
    BY ONLY <1>0, <2>0, i \in 1..t
  <2>2. M[i] = u[i]
    BY <1>4, <1>5, <2>1
  <2>3. CASE i <= Len(p)
    BY <1>2, <1>3, <2>1, <2>2, <2>3
  <2>4. CASE ~(i <= Len(p))
    <3>1. i - Len(p) \in 1..n
      BY <1>0, <2>4
    <3> QED
      BY <1>1, <1>2, <1>3, <2>1, <2>2, <2>4, <3>1
  <2> QED
    BY <2>3, <2>4
<1>8. SubSeq(M, 1, t) = x
  <2>1. 1 \in 1..(Len(M) + 1) /\ t \in (1 - 1)..Len(M) /\ t - 1 + 1 = t
        /\ \A j \in 1..t : 1 + j - 1 = j
    <3>1. Len(M) \in Nat
      BY <1>5, LenProperties
    <3> HIDE DEF t
    <3> QED
      BY <1>0, <1>6, <3>1
  <2> HIDE DEF t
  <2>2. /\ SubSeq(M, 1, t) \in Seq(Nat) /\ Len(SubSeq(M, 1, t)) = t
        /\ \A j \in 1..t : SubSeq(M, 1, t)[j] = M[j]
    <3>1. M \in Seq(Nat)
      BY <1>5
    <3>2. 1 \in 1..(Len(M) + 1) /\ t \in (1 - 1)..Len(M)
      BY <2>1
    <3>3. /\ SubSeq(M, 1, t) \in Seq(Nat) /\ Len(SubSeq(M, 1, t)) = t - 1 + 1
          /\ \A j \in 1..(t - 1 + 1) : SubSeq(M, 1, t)[j] = M[1 + j - 1]
      BY ONLY <3>1, <3>2, Part
    <3> QED
      BY ONLY <2>1, <3>3
  <2>3. \A j \in 1..t : SubSeq(M, 1, t)[j] = x[j]
    BY <1>7, <2>2
  <2> QED
    BY <1>2, <1>6, <2>2, <2>3, SeqEqual
<1>9. x[Len(x)] = a[n]
  <2>1. Len(x) \in 1..(Len(p) + Len(c)) /\ ~(Len(x) <= Len(p)) /\ Len(x) - Len(p) = n
    BY <1>0, <1>1, <1>6
  <2>2. n \in 1..n
    BY <1>0
  <2> QED
    BY <1>1, <1>2, <2>1, <2>2
<1>10. x # <<>>
  BY <1>0, <1>6, EmptySeq
<1> QED
  BY <1>6, <1>8, <1>9, <1>10 DEF M, v, u, x, c

\* fgets at the end of the file.
LEMMA NothingLeft ==
  ASSUME in = <<>>, NEW n \in Nat, n >= 2
  PROVE  Converter!Fgets(n) = <<>>
<1>0. Len(in) = 0
  BY EmptySeq
<1>1. {i \in 1..Len(in) : in[i] = 0} = {}
  BY <1>0
<1>2. Converter!SelectInSeq(in, LAMBDA ch : ch = 0) = 0
  BY <1>1 DEF Converter!SelectInSeq
<1>3. Converter!Fgets(n) = SubSeq(in, 1, 0)
  BY <1>0, <1>2 DEF Converter!Fgets, Converter!NL
<1> QED
  BY <1>3, SubSeqEmpty

\* fgets of a line into a buffer for any line.
LEMMA TakesAll ==
  ASSUME NEW a \in Seq(Nat), \A k \in 1..Len(a) : a[k] # 0,
         NEW b \in Seq(Nat), in = Append(a, 0) \o b
  PROVE  /\ Converter!Fgets(Converter!Whole) = Append(a, 0)
         /\ Converter!Rest(Converter!Whole) = b
<1>1. Len(in) = Len(a) + 1 + Len(b) /\ Len(a) \in Nat /\ Len(b) \in Nat
  BY LineAhead
<1> DEFINE n == Len(in) + 2
<1>2. n \in Nat /\ n >= 2 /\ Len(a) + 1 <= n - 1
  BY <1>1
<1> HIDE DEF n
<1>3. Converter!Fgets(n) = Append(a, 0) /\ Converter!Rest(n) = b
  BY <1>2, Takes
<1>4. Converter!Whole = n
  BY DEF Converter!Whole, n
<1> QED
  BY <1>3, <1>4

\* The word at h and its definition, which ends at e, are being read.
Within(h, e) ==
  Entry(lines, h, e) /\ Made(lines, h - 1, out) /\ word = Letters(lines, h)
Lines(h, e, k) == Joined(lines, h, e)[k]

\* Before the word behind line i.
AtWord(i) ==
  /\ i = 0 \/ lines[i] = 0
  /\ in = Behind(lines)[i] /\ Made(lines, i, out)
\* k lines of the definition are joined.
AtAppend(h, e, k) ==
  /\ Within(h, e) /\ in = Behind(lines)[h + k]
  /\ off = Len(Lines(h, e, k)) /\ off <= Text - 2
  /\ text = IF k = 0 THEN <<>> ELSE Append(Lines(h, e, k), 0)
\* The text is made; what is left of line j, c, is still to be skipped.
AtSkip(h, e) ==
  /\ Within(h, e) /\ text = Kept(lines, h, e)
  /\ IF Converter!BlankLine THEN in = Behind(lines)[e]
     ELSE \E j \in (h + 1)..(e - 1) : \E c \in Seq(Nat) :
            /\ c # <<>> /\ \A k \in 1..Len(c) : c[k] # 0
            /\ in = Append(c, 0) \o Behind(lines)[j]
AtSkipOn(h, e) ==
  /\ Within(h, e) /\ text = Kept(lines, h, e)
  /\ \E j \in (h + 1)..(e - 1) : in = Behind(lines)[j]
AtWrite(h, e) ==
  /\ Within(h, e) /\ text = Kept(lines, h, e)
  /\ in = Behind(lines)[e]

Converting ==
  /\ eof = FALSE
  /\ step \in {"word", "append", "skip", "skip on", "write", "done"}
  /\ step = "word" => \E i \in 0..Len(lines) : AtWord(i)
  /\ step = "append" =>
       \E h, e \in 1..Len(lines) : \E k \in 0..(e - h - 1) : AtAppend(h, e, k)
  /\ step = "skip" => \E h, e \in 1..Len(lines) : AtSkip(h, e)
  /\ step = "skip on" => \E h, e \in 1..Len(lines) : AtSkipOn(h, e)
  /\ step = "write" => \E h, e \in 1..Len(lines) : AtWrite(h, e)
  /\ step = "done" => Made(lines, Len(lines), out)

LEMMA EntryIs ==
  ASSUME IsFile(lines), NEW h, NEW e, Entry(lines, h, e)
  PROVE  /\ h \in 1..Len(lines) /\ e \in 1..Len(lines) /\ h \in Nat \ {0} /\ e \in Nat
         /\ e \in (h + 1)..Len(lines) /\ h < e /\ Len(lines) \in Nat
         /\ lines[e] = 0 /\ \A k \in h..(e - 1) : lines[k] # 0
  BY DEF IsFile, Entry, HeadsOf

LEMMA ReadWordStep ==
  ASSUME IsFile(lines), Good(lines), SocketsAssumption,
         Converting, Converter!ReadWord
  PROVE  Converting'
<1>0. /\ step = "word" /\ eof = FALSE /\ eof' = FALSE /\ lines' = lines /\ out' = out
      /\ Len(lines) \in Nat /\ Text \in Nat /\ Text > 2
  BY SocketsAssumption DEF Converting, Converter!ReadWord, IsFile
<1>1. PICK i \in 0..Len(lines) : AtWord(i)
  BY <1>0 DEF Converting
<1>2. CASE i = Len(lines)
  <2>1. in = <<>>
    BY <1>1, <1>2, FileIs DEF AtWord
  <2>2. Converter!Whole \in Nat /\ Converter!Whole >= 2
    BY <2>1, EmptySeq DEF Converter!Whole
  <2>3. Converter!Fgets(Converter!Whole) = <<>>
    <3> DEFINE n == Converter!Whole
    <3>1. n \in Nat /\ n >= 2
      BY <2>2
    <3> HIDE DEF n
    <3>2. Converter!Fgets(n) = <<>>
      BY <2>1, <3>1, NothingLeft
    <3> QED
      BY <3>2 DEF n
  <2>4. step' = "done"
    BY <2>3 DEF Converter!ReadWord
  <2>5. Made(lines, Len(lines), out)
    BY <1>1, <1>2 DEF AtWord
  <2> QED
    BY <1>0, <2>4, <2>5 DEF Converting
<1>3. CASE i # Len(lines)
  <2> DEFINE h == i + 1
  <2>1. h \in 1..Len(lines) /\ h - 1 = i /\ h \in Nat
    BY <1>0, <1>3
  <2>2. h \in HeadsOf(lines)
    BY <1>1, <2>1 DEF AtWord, HeadsOf
  <2> HIDE DEF h
  <2>3. PICK e \in 1..Len(lines) : Entry(lines, h, e)
    BY <2>2, EntryOf
  <2> DEFINE a == Letters(lines, h)
             b == Behind(lines)[h]
  <2>4. /\ in = Append(a, 0) \o b /\ a \in Seq(Nat) /\ b \in Seq(Nat)
        /\ \A k \in 1..Len(a) : a[k] # 0
    BY <1>1, <2>1, LineIs DEF AtWord
  <2> HIDE DEF a, b
  <2>5. /\ Converter!Fgets(Converter!Whole) = Append(a, 0)
        /\ Converter!Rest(Converter!Whole) = b
    BY ONLY <2>4, TakesAll
  <2>6. Append(a, 0) # <<>> /\ Converter!BeforeNewline(Append(a, 0)) = a
    BY <2>4, NewlineOff
  <2>7. /\ word' = a /\ in' = b /\ text' = <<>> /\ off' = 0 /\ step' = "append"
    BY <1>0, <2>5, <2>6 DEF Converter!ReadWord
  <2>8. /\ e \in (h + 1)..Len(lines) /\ e - h - 1 \in Nat
        /\ Joined(lines, h, e)[0] = <<>> /\ h + 0 = h
    <3>1. e \in (h + 1)..Len(lines)
      BY <2>3, EntryIs
    <3>2. e - h - 1 \in Nat /\ h + 0 = h
      BY <1>0, <2>1, <3>1
    <3>3. Joined(lines, h, e)[0] = <<>>
      BY <2>1, <3>1, MeaningIs
    <3> QED
      BY <3>1, <3>2, <3>3
  <2>9. AtAppend(h, e, 0)'
    <3>1. Made(lines, h - 1, out)
      BY <1>1, <2>1 DEF AtWord
    <3>2. Len(<<>>) = 0
      BY EmptySeq
    <3> QED
      BY <1>0, <2>3, <2>7, <2>8, <3>1, <3>2 DEF AtAppend, Within, Lines, a, b
  <2>10. 0 \in 0..(e - h - 1)
    BY <2>8
  <2>11. \E x, y \in 1..Len(lines) : \E k \in 0..(y - x - 1) : AtAppend(x, y, k)'
    BY <2>1, <2>9, <2>10
  <2> QED
    BY <1>0, <2>7, <2>11 DEF Converting
<1> QED
  BY <1>2, <1>3

LEMMA WriteStep ==
  ASSUME IsFile(lines), Good(lines), SocketsAssumption,
         Converting, Converter!WriteRecord
  PROVE  Converting'
<1>0. /\ step = "write" /\ step' = "word" /\ eof = FALSE /\ eof' = FALSE /\ lines' = lines
      /\ in' = in /\ out' = Append(out, [word |-> word, text |-> text])
      /\ Len(lines) \in Nat /\ Text \in Nat \ {0}
  BY SocketsAssumption DEF Converting, Converter!WriteRecord, IsFile
<1>1. PICK h, e \in 1..Len(lines) : AtWrite(h, e)
  BY <1>0 DEF Converting
<1>2. Entry(lines, h, e) /\ Made(lines, h - 1, out) /\ lines[e] = 0
  BY <1>1, EntryIs DEF AtWrite, Within
<1>3. Made(lines, e, Append(out, [word |-> Letters(lines, h), text |-> Kept(lines, h, e)]))
  BY <1>0, <1>2, MadeStep
<1>4. Made(lines, e, out')
  BY <1>0, <1>1, <1>3 DEF AtWrite, Within
<1>5. AtWord(e)'
  BY <1>0, <1>1, <1>2, <1>4 DEF AtWord, AtWrite
<1>6. e \in 0..Len(lines)
  BY <1>0
<1> QED
  BY <1>0, <1>5, <1>6 DEF Converting

LEMMA NoSkipStep ==
  ASSUME IsFile(lines), Converting, Converter!NoSkip
  PROVE  Converting'
<1>0. /\ step = "skip" /\ step' = "write" /\ eof = FALSE /\ eof' = FALSE /\ lines' = lines
      /\ in' = in /\ out' = out /\ word' = word /\ text' = text /\ Converter!BlankLine
  BY DEF Converting, Converter!NoSkip
<1>1. PICK h, e \in 1..Len(lines) : AtSkip(h, e)
  BY <1>0 DEF Converting
<1>2. AtWrite(h, e)'
  BY <1>0, <1>1 DEF AtSkip, AtWrite, Within
<1> QED
  BY <1>0, <1>2 DEF Converting

LEMMA SkipStep ==
  ASSUME IsFile(lines), Converting, Converter!Skip
  PROVE  Converting'
<1> DEFINE got == Converter!Fgets(Converter!Whole)
           rest == Converter!Rest(Converter!Whole)
<1>0. /\ step \in {"skip", "skip on"} /\ eof = FALSE /\ lines' = lines
      /\ out' = out /\ word' = word /\ text' = text /\ in' = rest
      /\ step = "skip" => ~Converter!BlankLine
      /\ eof' = (got = <<>>)
      /\ got # <<>> => line' = Len(got)
      /\ step' = IF line' >= 2 THEN "skip on" ELSE "write"
      /\ Len(lines) \in Nat
  BY DEF Converting, Converter!Skip, IsFile
<1> HIDE DEF got, rest
<1>1. Len(lines) \in Nat
  BY <1>0
<1>2. ASSUME NEW a \in Seq(Nat), NEW b \in Seq(Nat), in = Append(a, 0) \o b,
             \A k \in 1..Len(a) : a[k] # 0
      PROVE  /\ in' = b /\ eof' = FALSE
             /\ step' = IF a # <<>> THEN "skip on" ELSE "write"
  <2>1. got = Append(a, 0) /\ rest = b
    BY <1>2, TakesAll DEF got, rest
  <2>2. Append(a, 0) # <<>> /\ Len(Append(a, 0)) = Len(a) + 1
    BY NewlineOff
  <2>3. line' = Len(a) + 1
    BY <1>0, <2>1, <2>2
  <2>4. Len(a) \in Nat /\ (a = <<>> => Len(a) = 0) /\ (a # <<>> => Len(a) > 0)
    BY LenProperties, EmptySeq
  <2> QED
    <3>1. in' = b /\ eof' = FALSE
      BY <1>0, <2>1, <2>2
    <3>2. (line' >= 2) = (a # <<>>)
      BY ONLY <2>3, <2>4
    <3>3. step' = IF line' >= 2 THEN "skip on" ELSE "write"
      BY <1>0
    <3> QED
      BY ONLY <3>1, <3>2, <3>3
<1>3. CASE step = "skip"
  <2>1. PICK h, e \in 1..Len(lines) : AtSkip(h, e)
    BY <1>3 DEF Converting
  <2>2. \E j \in (h + 1)..(e - 1) : \E c \in Seq(Nat) :
          /\ c # <<>> /\ \A k \in 1..Len(c) : c[k] # 0
          /\ in = Append(c, 0) \o Behind(lines)[j]
    BY <1>0, <1>3, <2>1 DEF AtSkip
  <2>3. PICK j \in (h + 1)..(e - 1) : \E c \in Seq(Nat) :
          /\ c # <<>> /\ \A k \in 1..Len(c) : c[k] # 0
          /\ in = Append(c, 0) \o Behind(lines)[j]
    BY <2>2
  <2>4. PICK c \in Seq(Nat) :
          /\ c # <<>> /\ \A k \in 1..Len(c) : c[k] # 0
          /\ in = Append(c, 0) \o Behind(lines)[j]
    BY <2>3
  <2>5. j \in 1..Len(lines)
    BY ONLY <1>1, h \in 1..Len(lines), e \in 1..Len(lines), j \in (h + 1)..(e - 1)
  <2>6. Behind(lines)[j] \in Seq(Nat)
    BY <2>5, LineIs
  <2>7. in' = Behind(lines)[j] /\ eof' = FALSE /\ step' = "skip on"
    BY <1>2, <2>4, <2>6
  <2>8. AtSkipOn(h, e)'
    BY <1>0, <2>1, <2>7 DEF AtSkip, AtSkipOn, Within
  <2> QED
    BY <1>0, <2>7, <2>8 DEF Converting
<1>4. CASE step = "skip on"
  <2>1. PICK h, e \in 1..Len(lines) : AtSkipOn(h, e)
    BY <1>4 DEF Converting
  <2>2. PICK j \in (h + 1)..(e - 1) : in = Behind(lines)[j]
    BY <2>1 DEF AtSkipOn
  <2>3. lines[e] = 0 /\ \A k \in h..(e - 1) : lines[k] # 0
    BY <2>1, EntryIs DEF AtSkipOn, Within
  <2> DEFINE i == j + 1
             a == Letters(lines, i)
             b == Behind(lines)[i]
  <2>4. i \in 1..Len(lines) /\ i - 1 = j /\ i \in (h + 1)..e
        /\ (i # e => i \in h..(e - 1) /\ i \in (h + 1)..(e - 1))
    BY ONLY <1>1, h \in 1..Len(lines), e \in 1..Len(lines), j \in (h + 1)..(e - 1)
  <2> HIDE DEF i
  <2>5. /\ in = Append(a, 0) \o b /\ a \in Seq(Nat) /\ b \in Seq(Nat)
        /\ Len(a) = lines[i] /\ \A k \in 1..Len(a) : a[k] # 0
    BY <2>2, <2>4, LineIs
  <2> HIDE DEF a, b
  <2>6. /\ in' = b /\ eof' = FALSE /\ step' = IF a # <<>> THEN "skip on" ELSE "write"
    BY <1>2, <2>5
  <2>7. (a = <<>>) = (lines[i] = 0)
    BY <2>5, EmptySeq
  <2>8. CASE i = e
    <3>1. AtWrite(h, e)' /\ step' = "write"
      BY <1>0, <2>1, <2>3, <2>6, <2>7, <2>8 DEF AtSkipOn, AtWrite, Within, b
    <3> QED
      BY <1>0, <2>6, <3>1 DEF Converting
  <2>9. CASE i # e
    <3>1. step' = "skip on"
      BY <2>3, <2>4, <2>6, <2>7, <2>9
    <3>2. AtSkipOn(h, e)'
      BY <1>0, <2>1, <2>4, <2>6, <2>9 DEF AtSkipOn, Within, b
    <3> QED
      BY <1>0, <2>6, <3>1, <3>2 DEF Converting
  <2> QED
    BY <2>8, <2>9
<1> QED
  BY <1>0, <1>3, <1>4

\* The definition between h and e, k lines of which are read.
AreLines(h, e, k) ==
  /\ e - h - 1 \in Nat /\ Lines(h, e, k) \in Seq(Nat)
  /\ Lines(h, e, 0) = <<>>
  /\ Meaning(lines, h, e) = Append(Lines(h, e, e - h - 1), 0)
  /\ k < e - h - 1 =>
       /\ Lines(h, e, k + 1) = Lines(h, e, k) \o Letters(lines, h + k + 1)
       /\ \E r \in Seq(Nat) : Lines(h, e, e - h - 1) = Lines(h, e, k + 1) \o r

LEMMA LinesAre ==
  ASSUME IsFile(lines), NEW h, NEW e, Entry(lines, h, e), NEW k \in 0..(e - h - 1)
  PROVE  AreLines(h, e, k)
<1> DEFINE m == e - h - 1
           g == Joined(lines, h, e)
<1>0. h \in Nat /\ e \in (h + 1)..Len(lines) /\ Len(lines) \in Nat
  BY EntryIs
<1>1. /\ m \in Nat /\ g \in [0..m -> Seq(Nat)] /\ g[0] = <<>>
      /\ \A i \in 1..m : g[i] = g[i - 1] \o Letters(lines, h + i)
      /\ \A i \in 0..m : \E r \in Seq(Nat) : g[m] = g[i] \o r
  BY ONLY <1>0, IsFile(lines), MeaningIs
<1> HIDE DEF g, m
<1>2. ASSUME k < m
      PROVE  /\ g[k + 1] = g[k] \o Letters(lines, h + k + 1)
             /\ \E r \in Seq(Nat) : g[m] = g[k + 1] \o r
  <2> DEFINE i == k + 1
  <2>1. i \in 1..m /\ i \in 0..m /\ i - 1 = k /\ h + i = h + k + 1
    BY <1>0, <1>1, <1>2 DEF m
  <2> HIDE DEF i
  <2>2. g[i] = g[i - 1] \o Letters(lines, h + i) /\ \E r \in Seq(Nat) : g[m] = g[i] \o r
    BY ONLY <1>1, <2>1
  <2>3. g[i] = g[k] \o Letters(lines, h + k + 1)
    BY <2>1, <2>2
  <2> QED
    BY <2>2, <2>3 DEF i
<1>3. g[k] \in Seq(Nat)
  BY <1>1 DEF m
<1>4. Meaning(lines, h, e) = Append(g[m], 0)
  BY DEF Meaning, g, m
<1> QED
  BY <1>1, <1>2, <1>3, <1>4 DEF AreLines, Lines, g, m

LEMMA AppendStep ==
  ASSUME IsFile(lines), Good(lines), SocketsAssumption,
         Converting, Converter!AppendLine
  PROVE  Converting'
<1>0. /\ step = "append" /\ eof = FALSE /\ lines' = lines /\ out' = out /\ word' = word
      /\ Len(lines) \in Nat /\ Text \in Nat /\ Text > 2
  BY SocketsAssumption DEF Converting, Converter!AppendLine, IsFile
<1>1. PICK h, e \in 1..Len(lines) : \E k \in 0..(e - h - 1) : AtAppend(h, e, k)
  BY <1>0 DEF Converting
<1>2. PICK k \in 0..(e - h - 1) : AtAppend(h, e, k)
  BY <1>1
<1> DEFINE m == e - h - 1
           i == h + k + 1
           p == Lines(h, e, k)
           a == Letters(lines, i)
           b == Behind(lines)[i]
           n == Text - off
           got == Converter!Fgets(n)
           all == SubSeq(text, 1, off) \o got
<1>3. /\ Within(h, e) /\ Entry(lines, h, e) /\ in = Behind(lines)[h + k]
      /\ off = Len(p) /\ off <= Text - 2
      /\ text = IF k = 0 THEN <<>> ELSE Append(p, 0)
  BY <1>2 DEF AtAppend, Within
<1>4. /\ h \in Nat \ {0} /\ e \in (h + 1)..Len(lines) /\ lines[e] = 0
      /\ \A j \in h..(e - 1) : lines[j] # 0
  BY <1>3, EntryIs
<1>5. /\ m \in Nat /\ p \in Seq(Nat) /\ Lines(h, e, 0) = <<>>
      /\ Meaning(lines, h, e) = Append(Lines(h, e, m), 0)
      /\ k < m =>
           /\ Lines(h, e, k + 1) = p \o a
           /\ \E r \in Seq(Nat) : Lines(h, e, m) = Lines(h, e, k + 1) \o r
  <2>1. Entry(lines, h, e) /\ k \in 0..(e - h - 1)
    BY <1>3
  <2>2. AreLines(h, e, k)
    BY ONLY IsFile(lines), <2>1, LinesAre
  <2> QED
    BY ONLY <2>2 DEF AreLines
<1>6. /\ k \in 0..m /\ i \in 1..Len(lines) /\ i - 1 = h + k /\ (k = m => i = e)
      /\ k < m => i \in (h + 1)..(e - 1) /\ lines[i] # 0
  BY <1>0, <1>4
<1>7. /\ in = Append(a, 0) \o b /\ a \in Seq(Nat) /\ b \in Seq(Nat)
      /\ Len(a) = lines[i] /\ Len(a) \in Nat /\ \A j \in 1..Len(a) : a[j] # 0
  <2>1. i \in 1..Len(lines) /\ Behind(lines)[i - 1] = in
    BY <1>3, <1>6
  <2> HIDE DEF i
  <2>2. /\ Behind(lines)[i] \in Seq(Nat)
        /\ Behind(lines)[i - 1] = Append(Letters(lines, i), 0) \o Behind(lines)[i]
        /\ Letters(lines, i) \in Seq(Nat) /\ Len(Letters(lines, i)) = lines[i]
        /\ lines[i] \in Nat
        /\ \A j \in 1..Len(Letters(lines, i)) : Letters(lines, i)[j] # 0
    BY ONLY IsFile(lines), <2>1, LineIs
  <2> QED
    BY ONLY <2>1, <2>2
<1>8. off \in Nat /\ n \in Nat /\ n >= 2 /\ Len(p) = off
  <2>1. Len(p) \in Nat
    BY <1>5, LenProperties
  <2> QED
    BY <1>0, <1>3, <2>1
<1>9. SubSeq(text, 1, off) = p
  <2>1. CASE k = 0
    <3>1. p = <<>> /\ text = <<>>
      BY <1>3, <1>5, <2>1
    <3>2. off = 0
      BY <1>3, <3>1, EmptySeq
    <3> QED
      BY <3>1, <3>2, SubSeqEmpty
  <2>2. CASE k # 0
    <3> HIDE DEF p
    <3>1. text = Append(p, 0)
      BY <1>3, <2>2
    <3> QED
      BY <1>5, <1>8, <3>1, PutOver
  <2> QED
    BY <2>1, <2>2
<1>10. /\ eof' = (got = <<>>) /\ in' = Converter!Rest(n)
       /\ text' = IF got = <<>> THEN text ELSE all
       /\ newoff' = Len(text')
       /\ IF eof' \/ newoff' - off < 2 \/ Converter!Last(text') # 0
          THEN step' = "skip" /\ off' = off
          ELSE off' = newoff' - 1 /\ step' = "append"
  BY <1>0 DEF Converter!AppendLine, Converter!NL
<1> HIDE DEF m, i, p, a, b, n, got
<1>11. /\ Len(a) + 1 <= n - 1 => got = Append(a, 0) /\ Converter!Rest(n) = b
       /\ Len(a) + 1 > n - 1 =>
            /\ got = SubSeq(a, 1, n - 1)
            /\ Converter!Rest(n) = Append(SubSeq(a, n, Len(a)), 0) \o b
  BY <1>7, <1>8, Takes DEF got
<1>12. CASE Len(a) + 1 <= n - 1
  <2>1. got = Append(a, 0) /\ in' = b /\ got # <<>> /\ eof' = FALSE
    <3>1. got = Append(a, 0) /\ Converter!Rest(n) = b
      BY <1>11, <1>12
    <3>2. Append(a, 0) # <<>>
      BY <1>7, NewlineOff
    <3> QED
      BY <1>10, <3>1, <3>2
  <2>2. text' = Append(p \o a, 0) /\ p \o a \in Seq(Nat) /\ Len(p \o a) = off + Len(a)
    <3>1. /\ p \o Append(a, 0) = Append(p \o a, 0)
          /\ p \o a \in Seq(Nat) /\ Len(p \o a) = Len(p) + Len(a)
      <4>1. p \in Seq(Nat) /\ a \in Seq(Nat)
        BY <1>5, <1>7
      <4> QED
        BY ONLY <4>1, PutOver
    <3>2. text' = p \o got
      BY <1>9, <1>10, <2>1
    <3> QED
      BY <1>8, <2>1, <3>1, <3>2
  <2> DEFINE x == p \o a
  <2>3. /\ newoff' = Len(x) + 1 /\ Converter!Last(text') = 0
        /\ Len(x) = off + Len(a) /\ text' = Append(x, 0)
    <3>1. text' = Append(x, 0) /\ x \in Seq(Nat) /\ Len(x) = off + Len(a)
      BY <2>2
    <3> HIDE DEF x
    <3>2. Converter!Last(Append(x, 0)) = 0 /\ Len(Append(x, 0)) = Len(x) + 1
      BY <3>1, NewlineOff
    <3> QED
      BY <1>10, <3>1, <3>2
  <2> HIDE DEF x
  <2>4. newoff' - off = Len(a) + 1 /\ newoff' - 1 = Len(x) /\ Len(x) <= Text - 2
    <3>1. Len(a) \in Nat /\ off \in Nat /\ n = Text - off /\ Len(a) + 1 <= n - 1
      BY <1>7, <1>8, <1>12 DEF n
    <3>2. newoff' = Len(x) + 1 /\ Len(x) = off + Len(a)
      BY <2>3
    <3>3. Text \in Nat
      BY <1>0
    <3> QED
      BY ONLY <3>1, <3>2, <3>3
  <2>5. CASE k < m
    <3>1. Len(a) > 0
      BY <1>6, <1>7, <2>5
    <3>2. step' = "append" /\ off' = Len(x)
      <4>1. ~(eof' \/ newoff' - off < 2 \/ Converter!Last(text') # 0)
        BY ONLY <1>7, <2>1, <2>3, <2>4, <3>1
      <4> QED
        BY <1>10, <2>4, <4>1
    <3>3. Lines(h, e, k + 1) = x
      BY <1>5, <2>5 DEF x
    <3>4. k + 1 # 0 /\ k + 1 \in 0..m /\ h + (k + 1) = i
      BY <1>4, <1>5, <1>6, <2>5 DEF i
    <3>5. Within(h, e)'
      BY <1>0, <1>3 DEF Within
    <3>6. AtAppend(h, e, k + 1)'
      BY <1>0, <2>1, <2>3, <2>4, <3>2, <3>3, <3>4, <3>5 DEF AtAppend, Lines, b
    <3> QED
      BY <1>0, <2>1, <3>2, <3>4, <3>6 DEF Converting, m
  <2>6. CASE ~(k < m)
    <3>1. k = m /\ i = e
      BY <1>5, <1>6, <2>6
    <3>2. Len(a) = 0
      BY <1>4, <1>7, <3>1
    <3>3. x = p
      BY <1>5, <1>7, <3>2, EmptySeq, ConcatEmptySeq DEF x
    <3>4. text' = Meaning(lines, h, e) /\ Len(Meaning(lines, h, e)) < Text
      <4>1. text' = Meaning(lines, h, e)
        BY <1>5, <2>3, <3>1, <3>3 DEF p
      <4>2. Len(text') = off + 1
        BY <1>8, <1>10, <2>3, <3>2
      <4> QED
        BY <1>0, <1>3, <1>8, <4>1, <4>2
    <3>5. text' = Kept(lines, h, e)
      BY <3>4 DEF Kept
    <3>6. newoff' - off' < 2 /\ step' = "skip"
      <4>1. newoff' - off < 2
        BY ONLY <2>4, <3>2
      <4> QED
        BY <1>10, <4>1
    <3>7. Within(h, e)'
      BY <1>0, <1>3 DEF Within
    <3>8. AtSkip(h, e)'
      BY <1>0, <2>1, <3>1, <3>5, <3>6, <3>7 DEF AtSkip, Converter!BlankLine, b
    <3> QED
      BY <1>0, <2>1, <3>6, <3>8 DEF Converting
  <2> QED
    BY <2>5, <2>6
<1>13. CASE ~(Len(a) + 1 <= n - 1)
  <2> DEFINE l == n - 1
             c == SubSeq(a, n, Len(a))
             x == p \o SubSeq(a, 1, l)
             M == Meaning(lines, h, e)
  <2>1. /\ l \in 1..Len(a) /\ Len(p) + l = Text - 1 /\ Len(a) + 1 > n - 1
        /\ Len(a) # 0
    BY <1>0, <1>7, <1>8, <1>13 DEF n
  <2>2. k < m
    BY <1>4, <1>5, <1>6, <1>7, <2>1
  <2>3. PICK r \in Seq(Nat) : Lines(h, e, m) = (p \o a) \o r
    BY <1>5, <2>2
  <2>4. /\ Len(M) > Text - 1 /\ Len(x) = Text - 1 /\ SubSeq(M, 1, Text - 1) = x
        /\ x # <<>> /\ x[Len(x)] = a[l]
    <3>1. M = Append((p \o a) \o r, 0)
      BY <1>5, <2>3
    <3> HIDE DEF l, M
    <3>2. LET N == Append((p \o a) \o r, 0)
          IN /\ Len(N) > Len(p) + l /\ Len(x) = Len(p) + l
             /\ SubSeq(N, 1, Len(p) + l) = x
             /\ x # <<>> /\ x[Len(x)] = a[l]
      <4>1. p \in Seq(Nat) /\ a \in Seq(Nat) /\ r \in Seq(Nat) /\ l \in 1..Len(a)
        BY <1>5, <1>7, <2>1, <2>3
      <4> QED
        BY ONLY <4>1, CutIs
    <3> QED
      BY ONLY <2>1, <3>1, <3>2
  <2>5. \A j \in 1..(e - h - 1) : Len(Lines(h, e, j)) \notin {Text - 2, Text - 1}
    BY <1>3, <2>4 DEF Good, Entry, Lines
  <2>6. n - 1 >= 2
    <3>1. CASE k = 0
      BY <1>0, <1>3, <1>5, <3>1, EmptySeq DEF p, n
    <3>2. CASE k # 0
      <4>1. off # Text - 2
        BY <1>3, <2>5, <3>2 DEF p
      <4> QED
        BY <1>0, <1>8, <4>1 DEF n
    <3> QED
      BY <3>1, <3>2
  <2>7. Len(a) > l
    <3>1. k + 1 \in 1..(e - h - 1)
      BY <1>6, <2>2 DEF m
    <3>2. Len(p \o a) # Text - 1
      BY <1>5, <2>2, <2>5, <3>1
    <3>3. Len(p \o a) = Len(p) + Len(a)
      BY <1>5, <1>7, PutOver
    <3> QED
      BY <1>7, <1>8, <2>1, <3>2, <3>3
  <2>8. /\ c \in Seq(Nat) /\ Len(c) = Len(a) - n + 1
        /\ \A j \in 1..(Len(a) - n + 1) : c[j] = a[n + j - 1]
    <3>1. n \in 1..(Len(a) + 1) /\ Len(a) \in (n - 1)..Len(a)
      BY <1>7, <1>8, <2>1
    <3> QED
      BY ONLY <1>7, <3>1, Part
  <2>9. c # <<>> /\ \A j \in 1..Len(c) : c[j] # 0
    <3> HIDE DEF c
    <3>1. Len(c) > 0 /\ Len(c) \in Nat
      BY <1>7, <1>8, <2>7, <2>8
    <3>2. ASSUME NEW j \in 1..Len(c) PROVE c[j] # 0
      <4>1. n + j - 1 \in 1..Len(a)
        BY <1>7, <1>8, <2>8
      <4> QED
        BY <1>7, <2>8, <4>1
    <3> QED
      BY <3>1, <3>2, EmptySeq
  <2>10. got = SubSeq(a, 1, l) /\ in' = Append(c, 0) \o b
    BY <1>10, <1>11, <2>1
  <2>11. got # <<>>
    <3>1. Len(SubSeq(a, 1, l)) = l
      <4>1. 1 \in 1..(Len(a) + 1) /\ l \in (1 - 1)..Len(a) /\ l - 1 + 1 = l
        BY <1>7, <2>1
      <4> HIDE DEF l
      <4> QED
        BY <1>7, <4>1, Part
    <3>2. l # 0
      BY <2>1
    <3> QED
      BY <2>10, <3>1, <3>2, EmptySeq
  <2> HIDE DEF l, c, x, M
  <2>12. text' = x /\ eof' = FALSE
    BY <1>9, <1>10, <2>10, <2>11 DEF x
  <2>13. /\ newoff' = Text - 1 /\ newoff' - off >= 2 /\ Converter!Last(text') # 0
    <3>1. newoff' = Text - 1
      BY <1>10, <2>4, <2>12
    <3>2. newoff' - off >= 2
      BY <1>0, <1>8, <2>6, <3>1 DEF n
    <3>3. Converter!Last(text') = a[l]
      BY <2>4, <2>12 DEF Converter!Last
    <3> QED
      BY <1>7, <2>1, <3>1, <3>2, <3>3
  <2>14. step' = "skip" /\ off' = off
    BY <1>10, <2>13
  <2>15. text' = Kept(lines, h, e)
    <3>1. ~(Len(M) < Text)
      <4>1. M \in Seq(Nat)
        BY <1>0, <1>3, KeptIn DEF M
      <4>2. Len(M) \in Nat
        BY <4>1, LenProperties
      <4> QED
        BY <1>0, <2>4, <4>2
    <3> QED
      BY <2>4, <2>12, <3>1 DEF Kept, M
  <2>16. Within(h, e)'
    BY <1>0, <1>3 DEF Within
  <2>17. ~(newoff' - off' < 2)
    BY <1>0, <1>8, <2>13, <2>14
  <2>18. AtSkip(h, e)'
    <3>1. i \in (h + 1)..(e - 1) /\ in' = Append(c, 0) \o Behind(lines)[i]
      BY <1>6, <2>2, <2>10 DEF b
    <3>2. \E j \in (h + 1)..(e - 1) : \E d \in Seq(Nat) :
            /\ d # <<>> /\ \A y \in 1..Len(d) : d[y] # 0
            /\ in' = Append(d, 0) \o Behind(lines)[j]
      BY ONLY <2>8, <2>9, <3>1
    <3> QED
      BY ONLY <1>0, <2>15, <2>16, <2>17, <3>2 DEF AtSkip, Converter!BlankLine
  <2> QED
    BY <1>0, <2>12, <2>14, <2>18 DEF Converting
<1> QED
  BY <1>12, <1>13

\* The file stays the same and, while it is in good form, is converted so far.
ConvertInv ==
  program = "convert" => IsFile(lines) /\ (Good(lines) => Converting)

LEMMA ConvertStart == InitSockets => ConvertInv
<1> SUFFICES ASSUME InitSockets, program = "convert"
             PROVE  IsFile(lines) /\ Converting
  BY DEF ConvertInv
<1>0. Converter!Init
  BY DEF InitSockets, InitConv
<1>1. IsFile(lines)
  <2>1. PICK n \in 0..MaxLines : lines \in [1..n -> 0..MaxLen]
    BY <1>0 DEF Converter!Init
  <2>2. n \in Nat /\ lines \in [1..n -> Nat] /\ DOMAIN lines = 1..n
    BY <2>1, SocketsAssumption
  <2>3. lines \in Seq(Nat)
    BY <2>2, SeqDef
  <2>4. Len(lines) = n
    BY <2>2, <2>3, LenProperties
  <2> QED
    BY <2>2, <2>4 DEF IsFile
<1>2. in = Behind(lines)[0]
  <2>1. in = Converter!File(Len(lines))
    BY <1>0 DEF Converter!Init
  <2>2. Converter!File(Len(lines)) = FlattenSeq(FileLines(lines))
    BY SameFlatten DEF Converter!File, Converter!LineText, Converter!NL, FileLines, Letters
  <2> QED
    BY <1>1, <2>1, <2>2, FileIs
<1>3. Made(lines, 0, out)
  BY <1>0, <1>1, MadeStart DEF Converter!Init
<1>4. 0 \in 0..Len(lines) /\ AtWord(0)
  BY <1>1, <1>2, <1>3 DEF AtWord, IsFile
<1> QED
  BY <1>0, <1>1, <1>4 DEF Converting, Converter!Init

LEMMA ConvertStep == ConvertInv /\ [NextSockets]_allVars => ConvertInv'
<1> SUFFICES ASSUME IsFile(lines), Good(lines) => Converting, program = "convert",
                    Converter!Next \/ UNCHANGED convVars
             PROVE  IsFile(lines)' /\ (Good(lines)' => Converting')
  BY Program DEF ConvertInv
<1>1. lines' = lines
  BY DEF Converter!Next, Converter!ReadWord, Converter!AppendLine, Converter!NoSkip,
         Converter!Skip, Converter!WriteRecord, convVars
<1>2. IsFile(lines)' /\ Good(lines)' = Good(lines)
  BY <1>1 DEF IsFile, Good, HeadsOf, Entry, Meaning, Joined, Body, Letters
<1>3. ASSUME Good(lines) PROVE Converting'
  <2>0. Converting
    BY <1>3
  <2>1. CASE Converter!ReadWord
    BY <1>3, <2>0, <2>1, ReadWordStep, SocketsAssumption
  <2>2. CASE Converter!AppendLine
    BY <1>3, <2>0, <2>2, AppendStep, SocketsAssumption
  <2>3. CASE Converter!NoSkip
    BY <2>0, <2>3, NoSkipStep
  <2>4. CASE Converter!Skip
    BY <2>0, <2>4, SkipStep
  <2>5. CASE Converter!WriteRecord
    BY <1>3, <2>0, <2>5, WriteStep, SocketsAssumption
  <2>6. CASE UNCHANGED convVars
    <3>1. /\ lines' = lines /\ in' = in /\ out' = out /\ step' = step /\ word' = word
          /\ text' = text /\ off' = off /\ newoff' = newoff /\ eof' = eof
      BY <2>6 DEF convVars
    <3>2. \A h, e : Within(h, e)' <=> Within(h, e)
      BY <3>1 DEF Within
    <3>3. \A i : AtWord(i)' <=> AtWord(i)
      BY <3>1 DEF AtWord
    <3>4. \A h, e, k : AtAppend(h, e, k)' <=> AtAppend(h, e, k)
      BY <3>1, <3>2 DEF AtAppend, Lines
    <3>5. \A h, e : AtSkip(h, e)' <=> AtSkip(h, e)
      BY <3>1, <3>2 DEF AtSkip, Converter!BlankLine
    <3>6. \A h, e : AtSkipOn(h, e)' <=> AtSkipOn(h, e)
      BY <3>1, <3>2 DEF AtSkipOn
    <3>7. \A h, e : AtWrite(h, e)' <=> AtWrite(h, e)
      BY <3>1, <3>2 DEF AtWrite
    <3> QED
      BY <2>0, <3>1, <3>3, <3>4, <3>5, <3>6, <3>7 DEF Converting
  <2> QED
    BY <2>1, <2>2, <2>3, <2>4, <2>5, <2>6 DEF Converter!Next
<1> QED
  BY <1>2, <1>3

(* convert.c: each word of a file and the definition that follows it       *)
(* become a record, in their order, unless a line of a definition that is  *)
(* too long ends where the text is full (convert.c:69), for files of any   *)
(* number of lines of any length, and texts of any size but the smallest.  *)
THEOREM Converted == SpecSockets => []RecordsKept
<1>1. ConvertInv => RecordsKept
  <2> SUFFICES ASSUME ConvertInv, program = "convert", step = "done",
                      Converter!WellFormed,
                      \A i \in Converter!Heads : ~Converter!Awkward(i)
               PROVE  out = Converter!Records
    BY DEF RecordsKept, Converter!RecordsKept
  <2>1. IsFile(lines)
    BY DEF ConvertInv
  <2>2. Good(lines)
    BY <2>1, GoodIs
  <2>3. Made(lines, Len(lines), out)
    BY <2>2 DEF ConvertInv, Converting
  <2> QED
    BY <2>1, <2>3, AllMade
<1> QED
  BY <1>1, ConvertStart, ConvertStep, PTL DEF SpecSockets
=============================================================================
