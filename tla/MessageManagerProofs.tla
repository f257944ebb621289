------------------------ MODULE MessageManagerProofs ------------------------
(***************************************************************************)
(* The connections of the service, for any number of clients, descriptors, *)
(* requests and data: type correctness and the five safety properties that *)
(* the run message_manager checks.                                         *)
(***************************************************************************)
EXTENDS MessageManager, SequenceTheorems, FiniteSetTheorems, TLAPS

-----------------------------------------------------------------------------
(* The inductive invariant                                                 *)

\* The epoll thread has a request and has not sent its answer.
Serving == epc \in {"answer", "lock", "send"}

\* The connections at every step of the epoll thread: a watched descriptor is
\* open and in conns, but for the one that is being added or closed.
ConnInv ==
  /\ epc # "wait" => efd \in watched
  /\ \A fd \in Fds :
       /\ fd \in watched => holder[fd] # Nobody
       /\ IsConn(fd) <=> fd \in watched /\ ~(epc \in {"add", "shut"} /\ fd = efd)
       /\ IsConn(fd) => conns[fd] = TypeOf(holder[fd])

\* The data thread keeps connMutex, and with it the connection it found.
MutexInv ==
  /\ dpc # "pop" => item \in [fd : Fds, client : Clients]
  /\ dpc = "send" => connMutex = "data" /\ IsConn(item.fd)

\* An UNSUBSCRIBE that CloseConn pushed.
IsInternal(e) == e.type = "INTERNAL" /\ e.opt = "UNSUBSCRIBE"
\* A request of the client that the epoll thread serves.
IsServed(e) ==
  /\ e.type = "EXTERNAL" /\ e.fd = efd /\ e.client = holder[efd]
  /\ e.opt = "SUBSCRIBE" => holder[efd] \in Sdk

\* One request is under way at a time: while the epoll thread waits for an
\* answer, either its request is the last event of the queue, or its answer is
\* the only one there is and no event is left.
RequestQueued ==
  /\ sendMessage = <<>> /\ recvMessage # <<>>
  /\ IsServed(recvMessage[Len(recvMessage)])
  /\ \A k \in 1 .. (Len(recvMessage) - 1) : IsInternal(recvMessage[k])
AnswerQueued == sendMessage = <<Answer(holder[efd])>> /\ recvMessage = <<>>
PipeInv ==
  /\ ~Serving => sendMessage = <<>> /\ \A k \in 1 .. Len(recvMessage) : IsInternal(recvMessage[k])
  /\ Serving => RequestQueued \/ AnswerQueued

\* Only SDK clients subscribe.
AskedInv == \A c \in Clients \ Sdk : \A k \in 1 .. Len(toServer[c]) : toServer[c][k] = "QUERY"

\* Who may be subscribed.  An UNSUBSCRIBE in the queue either finds its own
\* client or no one, or another UNSUBSCRIBE before it does.
SubscribedSdk == \A fd \in Fds : subscribed[fd] \in Sdk \cup {Nobody}
Announced(fd, last) == \E k \in 1 .. last : recvMessage[k] = Closed(fd, subscribed[fd])
ShutAnnounced ==
  epc = "shut" /\ subscribed[efd] # Nobody => Announced(efd, Len(recvMessage))
ClosedInOrder ==
  \A k \in 1 .. Len(recvMessage) : recvMessage[k].type = "INTERNAL" =>
    \/ subscribed[recvMessage[k].fd] \in {Nobody, recvMessage[k].client}
    \/ Announced(recvMessage[k].fd, k - 1)
GhostInv ==
  \A fd \in Fds : subscribed[fd] \notin {Nobody, holder[fd]} => Announced(fd, Len(recvMessage))
SubInv == SubscribedSdk /\ ShutAnnounced /\ ClosedInOrder /\ GhostInv

\* The answers in a socket, and how many there are under way for a client.
Answers(s) == {k \in 1 .. Len(s) : s[k].kind = "answer"}
InHand(c) == IF Serving /\ holder[efd] = c THEN 1 ELSE 0
CountInv ==
  \A c \in Clients : state[c] \in {"new", "backlog", "connected"} =>
    Len(toServer[c]) + Cardinality(Answers(toClient[c])) + InHand(c) <= pending[c]

Inv == TypeOK /\ ConnInv /\ MutexInv /\ PipeInv /\ AskedInv /\ SubInv /\ CountInv
       /\ AnswerReachesAsker

-----------------------------------------------------------------------------
(* How many answers a socket holds                                         *)

\* The answers of a socket can be counted.
LEMMA AnswersFinite ==
  ASSUME NEW s \in Seq(Messages)
  PROVE  IsFiniteSet(Answers(s)) /\ Cardinality(Answers(s)) \in Nat
<1>1. IsFiniteSet(1 .. Len(s))
  BY FS_Interval
<1>2. Answers(s) \in SUBSET (1 .. Len(s))
  BY DEF Answers
<1>3. IsFiniteSet(Answers(s))
  BY <1>1, <1>2, FS_Subset
<1> QED
  BY <1>3, FS_CardinalityType

\* A message that is sent adds one answer if it is one.
LEMMA AnswersOfAppend ==
  ASSUME NEW s \in Seq(Messages), NEW m \in Messages
  PROVE  Cardinality(Answers(Append(s, m))) =
           Cardinality(Answers(s)) + (IF m.kind = "answer" THEN 1 ELSE 0)
<1>1. CASE m.kind = "answer"
  <2>1. Answers(Append(s, m)) = Answers(s) \cup {Len(s) + 1}
    BY <1>1 DEF Answers
  <2>2. Len(s) + 1 \notin Answers(s)
    BY DEF Answers
  <2> QED
    BY <1>1, <2>1, <2>2, AnswersFinite, FS_AddElement
<1>2. CASE m.kind # "answer"
  <2>1. Answers(Append(s, m)) = Answers(s)
    BY <1>2 DEF Answers
  <2> QED
    BY <1>2, <2>1, AnswersFinite
<1> QED
  BY <1>1, <1>2

\* A message that is received takes one answer away if it is one.
LEMMA AnswersOfTail ==
  ASSUME NEW s \in Seq(Messages), s # <<>>
  PROVE  Cardinality(Answers(Tail(s))) =
           Cardinality(Answers(s)) - (IF Head(s).kind = "answer" THEN 1 ELSE 0)
<1> DEFINE Later == Answers(s) \ {1}
           Shift == [k \in Later |-> k - 1]
<1>1. IsFiniteSet(Later) /\ Cardinality(Later) =
        Cardinality(Answers(s)) - (IF 1 \in Answers(s) THEN 1 ELSE 0)
  BY AnswersFinite, FS_RemoveElement
<1>2. 1 \in Answers(s) <=> Head(s).kind = "answer"
  BY DEF Answers
<1>3. Shift \in Bijection(Later, Answers(Tail(s)))
  <2>1. Shift \in [Later -> Answers(Tail(s))]
    BY DEF Answers
  <2>2. \A a, b \in Later : Shift[a] = Shift[b] => a = b
    BY DEF Answers
  <2>3. \A b \in Answers(Tail(s)) : b + 1 \in Later /\ Shift[b + 1] = b
    BY DEF Answers
  <2> HIDE DEF Later, Shift
  <2> QED
    BY <2>1, <2>2, <2>3 DEF Bijection, Injection, Surjection, IsInjective
<1>4. ExistsBijection(Later, Answers(Tail(s)))
  BY <1>3 DEF ExistsBijection
<1>5. Cardinality(Answers(Tail(s))) = Cardinality(Later)
  BY <1>1, <1>4, FS_Bijection
<1> QED
  BY <1>1, <1>2, <1>5

-----------------------------------------------------------------------------
(* Type correctness                                                        *)

\* What is delivered fits the socket it is delivered to.
LEMMA DeliveredTyped ==
  ASSUME TypeOK, NEW fd \in Fds, holder[fd] \in Clients, NEW m \in Messages, Delivered(fd, m)
  PROVE  toClient' \in [Clients -> Seq(Messages)] /\ \A c \in Clients : Len(toClient'[c]) <= Buffer
<1> DEFINE c == holder[fd]
<1>1. CASE UNCHANGED toClient
  BY <1>1 DEF TypeOK
<1>2. CASE Len(toClient[c]) < Buffer /\ toClient' = [toClient EXCEPT ![c] = Append(@, m)]
  <2>1. toClient[c] \in Seq(Messages) /\ Append(toClient[c], m) \in Seq(Messages)
    BY DEF TypeOK
  <2>2. Len(Append(toClient[c], m)) <= Buffer
    BY <1>2, <2>1, MessageBoundsAssumption
  <2>3. toClient \in [Clients -> Seq(Messages)] /\ \A d \in Clients : Len(toClient[d]) <= Buffer
    BY DEF TypeOK
  <2> QED
    BY <1>2, <2>1, <2>2, <2>3
<1> QED
  BY <1>1, <1>2 DEF Delivered

\* Every step keeps the types; that no client receives more answers than it
\* waits for is CountInv.
LEMMA TypePreserved == Inv /\ [Next]_vars => TypeOK'
<1> SUFFICES ASSUME Inv, [Next]_vars PROVE TypeOK'
  OBVIOUS
<1> USE ClientsAssumption, MessageBoundsAssumption DEF Inv
<1>1. ASSUME NEW c \in Clients, Connect(c) PROVE TypeOK'
  BY <1>1 DEF Connect, TypeOK, clientVars, connVars, queueVars, epollVars, dataVars
<1>2. ASSUME NEW c \in Clients, NEW opt \in Opts, Ask(c, opt) PROVE TypeOK'
  BY <1>2 DEF Ask, TypeOK, clientVars, connVars, queueVars, epollVars, dataVars
<1>3. ASSUME NEW c \in Clients, Receive(c) PROVE TypeOK'
  <2>1. toClient[c] \in Seq(Messages) /\ toClient[c] # <<>> /\ state[c] = "connected"
    BY <1>3 DEF Receive, TypeOK
  <2>2. Tail(toClient[c]) \in Seq(Messages) /\ Len(Tail(toClient[c])) <= Buffer
    BY <2>1, HeadTailProperties DEF TypeOK
  <2>3. Head(toClient[c]).kind = "answer" => pending[c] - 1 \in 0 .. MaxPending
    <3>1. Len(toServer[c]) + Cardinality(Answers(toClient[c])) + InHand(c) <= pending[c]
      BY <2>1 DEF CountInv
    <3>2. Len(toServer[c]) \in Nat /\ InHand(c) \in {0, 1} /\ pending[c] \in 0 .. MaxPending
      BY DEF TypeOK, InHand
    <3>3. /\ Cardinality(Answers(toClient[c])) \in Nat
          /\ Cardinality(Answers(Tail(toClient[c]))) \in Nat
      BY <2>1, <2>2, AnswersFinite
    <3>4. Head(toClient[c]).kind = "answer" => Cardinality(Answers(toClient[c])) >= 1
      BY <2>1, <3>3, AnswersOfTail
    <3> QED
      BY <3>1, <3>2, <3>3, <3>4
  <2> QED
    BY <1>3, <2>2, <2>3 DEF Receive, TypeOK, connVars, queueVars, epollVars, dataVars
<1>4. ASSUME NEW c \in Clients, Leave(c) PROVE TypeOK'
  BY <1>4 DEF Leave, TypeOK, clientVars, connVars, queueVars, epollVars, dataVars
<1>5. ASSUME NEW fd \in Fds, NEW c \in Clients, Accept(fd, c) PROVE TypeOK'
  BY <1>5 DEF Accept, TypeOK, clientVars, connVars, queueVars, epollVars, dataVars
<1>6. CASE AddConn
  <2>1. holder[efd] \in Clients /\ efd \in Fds
    BY <1>6 DEF AddConn, ConnInv, TypeOK
  <2>2. conns' \in [Fds -> ConnTypes]
    BY <1>6, <2>1 DEF AddConn, TypeOK, TypeOf, ConnTypes
  <2> QED
    BY <1>6, <2>2 DEF AddConn, TypeOK, clientVars, queueVars, dataVars
<1>7. ASSUME NEW fd \in Fds, Read(fd) PROVE TypeOK'
  <2>1. holder[fd] \in Clients
    BY <1>7 DEF Read, ConnInv, TypeOK
  <2>2. Request(Head(toServer[holder[fd]]), fd, holder[fd]) \in Events
    BY <1>7, <2>1, HeadTailProperties DEF Read, Request, Events, TypeOK
  <2>3. recvMessage' \in Seq(Events)
    BY <1>7, <2>2 DEF Read, TypeOK
  <2>4. toServer' \in [Clients -> Seq(Opts)]
    BY <1>7, <2>1 DEF Read, TypeOK
  <2> QED
    BY <1>7, <2>3, <2>4 DEF Read, TypeOK, connVars, dataVars
<1>8. ASSUME NEW fd \in Fds, ReadFails(fd) PROVE TypeOK'
  BY <1>8 DEF ReadFails, TypeOK, clientVars, connVars, queueVars, epollVars, dataVars
<1>9. CASE TakeAnswer
  BY <1>9 DEF TakeAnswer, TypeOK, clientVars, connVars, queueVars, epollVars, dataVars
<1>10. CASE Lock
  BY <1>10 DEF Lock, TypeOK, clientVars, connVars, queueVars, epollVars, dataVars
<1>11. CASE SendAnswer
  <2>1. holder[efd] \in Clients /\ efd \in Fds
    BY <1>11 DEF SendAnswer, ConnInv, TypeOK
  <2>2. Head(sendMessage) \in Messages /\ Tail(sendMessage) \in Seq(Messages)
    BY <1>11, HeadTailProperties DEF SendAnswer, TypeOK
  <2>3. toClient' \in [Clients -> Seq(Messages)] /\ \A c \in Clients : Len(toClient'[c]) <= Buffer
    BY <1>11, <2>1, <2>2, DeliveredTyped DEF SendAnswer
  <2> QED
    BY <1>11, <2>2, <2>3 DEF SendAnswer, TypeOK, clientVars, connVars, dataVars
<1>12. CASE CloseConn
  <2>1. holder[efd] \in Clients /\ efd \in Fds
    BY <1>12 DEF CloseConn, ConnInv, TypeOK
  <2>2. Closed(efd, holder[efd]) \in Events
    BY <2>1 DEF Closed, Events, Opts
  <2>3. recvMessage' \in Seq(Events)
    BY <1>12, <2>2 DEF CloseConn, TypeOK
  <2>4. conns' \in [Fds -> ConnTypes]
    BY <1>12 DEF CloseConn, TypeOK, ConnTypes
  <2> QED
    BY <1>12, <2>1, <2>3, <2>4 DEF CloseConn, TypeOK, clientVars, dataVars
<1>13. CASE Close
  BY <1>13 DEF Close, TypeOK, clientVars, connVars, queueVars, epollVars, dataVars
<1>14. CASE TakeData
  <2>1. Head(recvData) \in [fd : Fds, client : Clients] /\ Tail(recvData) \in Seq([fd : Fds, client : Clients])
    BY <1>14, HeadTailProperties DEF TakeData, TypeOK
  <2> QED
    BY <1>14, <2>1 DEF TakeData, TypeOK, clientVars, connVars, epollVars
<1>15. CASE CheckConn
  BY <1>15 DEF CheckConn, TypeOK, clientVars, connVars, queueVars, epollVars, dataVars
<1>16. CASE SendData
  <2>1. item \in [fd : Fds, client : Clients] /\ holder[item.fd] \in Clients
    BY <1>16 DEF SendData, MutexInv, ConnInv, TypeOK
  <2>2. Data(item.client) \in Messages
    BY <2>1 DEF Data, Messages
  <2>3. toClient' \in [Clients -> Seq(Messages)] /\ \A c \in Clients : Len(toClient'[c]) <= Buffer
    BY <1>16, <2>1, <2>2, DeliveredTyped DEF SendData
  <2> QED
    BY <1>16, <2>3 DEF SendData, TypeOK, clientVars, connVars, epollVars, queueVars
<1>17. CASE Serve
  <2> DEFINE e == Head(recvMessage)
  <2>1. e \in Events /\ Tail(recvMessage) \in Seq(Events)
    BY <1>17, HeadTailProperties DEF Serve, TypeOK
  <2>2. sendMessage' \in Seq(Messages) /\ (sendMessage # <<>> => sendMessage' # <<>>)
    <3>1. Answer(e.client) \in Messages
      BY <2>1 DEF Answer, Messages, Events
    <3>2. sendMessage' \in {sendMessage, Append(sendMessage, Answer(e.client))}
      BY <1>17 DEF Serve, Reply
    <3>3. sendMessage \in Seq(Messages)
      BY DEF TypeOK
    <3> HIDE DEF e
    <3> QED
      BY <3>1, <3>2, <3>3
  <2>3. subscribed' \in [Fds -> Clients \cup {Nobody}]
    BY <1>17, <2>1 DEF Serve, Events, Opts, TypeOK
  <2> QED
    BY <1>17, <2>1, <2>2, <2>3
       DEF Serve, TypeOK, clientVars, connVars, epollVars, dataVars
<1>18. ASSUME NEW fd \in Fds, Publish(fd) PROVE TypeOK'
  BY <1>18 DEF Publish, TypeOK, clientVars, connVars, queueVars, epollVars, dataVars
<1>19. CASE UNCHANGED vars
  BY <1>19 DEF vars, TypeOK
<1> QED
  BY <1>1, <1>2, <1>3, <1>4, <1>5, <1>6, <1>7, <1>8, <1>9, <1>10, <1>11, <1>12, <1>13, <1>14, <1>15, <1>16, <1>17, <1>18, <1>19
     DEF Next, EpollThread, DataThread

-----------------------------------------------------------------------------
(* Connections and connMutex                                               *)

\* Only the epoll thread changes connections.
LEMMA ConnPreserved == Inv /\ [Next]_vars => ConnInv'
<1> SUFFICES ASSUME Inv, [Next]_vars PROVE ConnInv'
  OBVIOUS
<1> USE ClientsAssumption DEF Inv
<1>1. CASE UNCHANGED <<epc, efd, holder, conns, watched>>
  BY <1>1 DEF ConnInv, IsConn, TypeOf
<1>2. ASSUME NEW fd \in Fds, NEW c \in Clients, Accept(fd, c) PROVE ConnInv'
  BY <1>2 DEF Accept, ConnInv, IsConn, TypeOf, TypeOK, clientVars, connVars, queueVars,
     epollVars, dataVars
<1>3. CASE AddConn
  BY <1>3 DEF AddConn, ConnInv, IsConn, TypeOf, TypeOK, clientVars, connVars, queueVars,
     epollVars, dataVars
<1>4. ASSUME NEW fd \in Fds, Read(fd) PROVE ConnInv'
  BY <1>4 DEF Read, ConnInv, IsConn, TypeOf, TypeOK, clientVars, connVars, queueVars, epollVars,
     dataVars
<1>5. ASSUME NEW fd \in Fds, ReadFails(fd) PROVE ConnInv'
  BY <1>5 DEF ReadFails, ConnInv, IsConn, TypeOf, TypeOK, clientVars, connVars, queueVars,
     epollVars, dataVars
<1>6. CASE TakeAnswer
  BY <1>6 DEF TakeAnswer, ConnInv, IsConn, TypeOf, TypeOK, clientVars, connVars, queueVars,
     epollVars, dataVars
<1>7. CASE Lock
  BY <1>7 DEF Lock, ConnInv, IsConn, TypeOf, TypeOK, clientVars, connVars, queueVars, epollVars,
     dataVars
<1>8. CASE SendAnswer
  BY <1>8 DEF SendAnswer, ConnInv, IsConn, TypeOf, TypeOK, clientVars, connVars, queueVars,
     epollVars, dataVars
<1>9. CASE CloseConn
  BY <1>9 DEF CloseConn, ConnInv, IsConn, TypeOf, TypeOK, clientVars, connVars, queueVars,
     epollVars, dataVars
<1>10. CASE Close
  BY <1>10 DEF Close, ConnInv, IsConn, TypeOf, TypeOK, clientVars, connVars, queueVars,
     epollVars, dataVars
<1> QED
  BY <1>1, <1>2, <1>3, <1>4, <1>5, <1>6, <1>7, <1>8, <1>9, <1>10
     DEF Next, EpollThread, DataThread, Connect, Ask, Receive, Leave, TakeData, CheckConn,
         SendData, Serve, Publish, vars, clientVars, connVars, queueVars, epollVars, dataVars

\* While the data thread has connMutex, the epoll thread removes no connection.
LEMMA MutexPreserved == Inv /\ [Next]_vars => MutexInv'
<1> SUFFICES ASSUME Inv, [Next]_vars PROVE MutexInv'
  OBVIOUS
<1> USE ClientsAssumption DEF Inv
<1>1. CASE UNCHANGED <<dpc, item, connMutex, conns>>
  BY <1>1 DEF MutexInv, IsConn
<1>2. CASE AddConn
  BY <1>2 DEF AddConn, MutexInv, ConnInv, IsConn, TypeOf, TypeOK, clientVars, connVars,
     queueVars, epollVars, dataVars
<1>3. CASE Lock
  BY <1>3 DEF Lock, MutexInv, ConnInv, IsConn, TypeOf, TypeOK, clientVars, connVars, queueVars,
     epollVars, dataVars
<1>4. CASE SendAnswer
  BY <1>4 DEF SendAnswer, MutexInv, ConnInv, IsConn, TypeOf, TypeOK, clientVars, connVars,
     queueVars, epollVars, dataVars
<1>5. CASE CloseConn
  BY <1>5 DEF CloseConn, MutexInv, ConnInv, IsConn, TypeOf, TypeOK, clientVars, connVars,
     queueVars, epollVars, dataVars
<1>6. CASE TakeData
  <2>1. Head(recvData) \in [fd : Fds, client : Clients]
    BY <1>6, HeadTailProperties DEF TakeData, TypeOK
  <2> QED
    BY <1>6, <2>1 DEF TakeData, MutexInv
<1>7. CASE CheckConn
  BY <1>7 DEF CheckConn, MutexInv, ConnInv, IsConn, TypeOf, TypeOK, clientVars, connVars,
     queueVars, epollVars, dataVars
<1>8. CASE SendData
  BY <1>8 DEF SendData, MutexInv, ConnInv, IsConn, TypeOf, TypeOK, clientVars, connVars,
     queueVars, epollVars, dataVars
<1> QED
  BY <1>1, <1>2, <1>3, <1>4, <1>5, <1>6, <1>7, <1>8
     DEF Next, EpollThread, DataThread, Connect, Ask, Receive, Leave, Accept, Read, ReadFails,
         TakeAnswer, Close, Serve, Publish, vars, clientVars, connVars, queueVars, epollVars,
         dataVars

-----------------------------------------------------------------------------
(* Requests and their answers                                              *)

\* A command only queries.
LEMMA AskedPreserved == Inv /\ [Next]_vars => AskedInv'
<1> SUFFICES ASSUME Inv, [Next]_vars PROVE AskedInv'
  OBVIOUS
<1> USE ClientsAssumption DEF Inv
<1>1. CASE UNCHANGED <<toServer>>
  BY <1>1 DEF AskedInv
<1>2. ASSUME NEW c \in Clients, NEW opt \in Opts, Ask(c, opt) PROVE AskedInv'
  BY <1>2 DEF Ask, AskedInv, TypeOK, ConnInv
<1>3. ASSUME NEW fd \in Fds, Read(fd) PROVE AskedInv'
  BY <1>3 DEF Read, AskedInv, TypeOK, ConnInv
<1> QED
  BY <1>1, <1>2, <1>3
     DEF Next, EpollThread, DataThread, Connect, Receive, Leave, Accept, AddConn, ReadFails,
         TakeAnswer, Lock, SendAnswer, CloseConn, Close, TakeData, CheckConn, SendData, Serve,
         Publish, vars, clientVars, connVars, queueVars, epollVars, dataVars

\* The server meets a request only when it is the last event of the queue.
LEMMA ServedLast ==
  ASSUME TypeOK, PipeInv, recvMessage # <<>>, ~IsInternal(Head(recvMessage))
  PROVE  /\ Serving /\ sendMessage = <<>>
         /\ Len(recvMessage) = 1 /\ IsServed(Head(recvMessage))
<1> DEFINE n == Len(recvMessage)
<1>1. recvMessage \in Seq(Events) /\ n \in Nat /\ n # 0 /\ Head(recvMessage) = recvMessage[1]
  BY DEF TypeOK
<1>2. Serving /\ RequestQueued
  BY <1>1 DEF PipeInv, AnswerQueued
<1>3. n > 1 => IsInternal(recvMessage[1])
  BY <1>1, <1>2 DEF RequestQueued
<1>4. ~(n > 1)
  BY <1>1, <1>3, Zenon
<1> HIDE DEF n
<1>5. n = 1
  BY <1>1, <1>4
<1> QED
  BY <1>1, <1>2, <1>5 DEF RequestQueued, n

\* The epoll thread reads no request before it has sent the answer to the last, and
\* the server answers one event with at most one answer.
LEMMA PipePreserved == Inv /\ [Next]_vars => PipeInv'
<1> SUFFICES ASSUME Inv, [Next]_vars PROVE PipeInv'
  OBVIOUS
<1> USE ClientsAssumption DEF Inv
<1>1. CASE UNCHANGED <<epc, efd, holder, sendMessage, recvMessage>>
  BY <1>1 DEF PipeInv, Serving, RequestQueued, AnswerQueued, IsServed
<1>2. ASSUME NEW fd \in Fds, NEW c \in Clients, Accept(fd, c) PROVE PipeInv'
  BY <1>2 DEF Accept, PipeInv, Serving, RequestQueued, AnswerQueued, IsServed, TypeOK,
     clientVars, connVars, queueVars, epollVars, dataVars
<1>3. CASE AddConn
  BY <1>3 DEF AddConn, PipeInv, Serving, RequestQueued, AnswerQueued, IsServed, TypeOK,
     clientVars, connVars, queueVars, epollVars, dataVars
<1>4. ASSUME NEW fd \in Fds, Read(fd) PROVE PipeInv'
  <2> DEFINE c == holder[fd]
             e == Request(Head(toServer[c]), fd, c)
  <2>1. c \in Clients /\ toServer[c] \in Seq(Opts) /\ toServer[c] # <<>>
    BY <1>4 DEF Read, ConnInv, TypeOK
  <2>2. Head(toServer[c]) \in Opts /\ (c \notin Sdk => Head(toServer[c]) = "QUERY")
    BY <2>1, HeadTailProperties DEF AskedInv
  <2>3. e.type = "EXTERNAL" /\ e.fd = fd /\ e.client = c /\ e.opt = Head(toServer[c])
    BY DEF Request
  <2>4. /\ sendMessage = <<>> /\ recvMessage \in Seq(Events)
        /\ \A k \in 1 .. Len(recvMessage) : IsInternal(recvMessage[k])
    BY <1>4 DEF Read, PipeInv, Serving, TypeOK
  <2>5. /\ sendMessage' = <<>> /\ recvMessage' = Append(recvMessage, e)
        /\ holder' = holder /\ efd' = fd /\ epc' = "answer"
    BY <1>4 DEF Read, connVars, PipeInv, Serving
  <2> HIDE DEF e
  <2>6. /\ recvMessage' # <<>> /\ Len(recvMessage') = Len(recvMessage) + 1
        /\ recvMessage'[Len(recvMessage')] = e
        /\ \A k \in 1 .. Len(recvMessage) : recvMessage'[k] = recvMessage[k]
    BY <2>4, <2>5
  <2>7. IsServed(recvMessage[Len(recvMessage)])'
    BY <2>2, <2>3, <2>5, <2>6 DEF IsServed
  <2>8. RequestQueued'
    BY <2>4, <2>5, <2>6, <2>7 DEF RequestQueued, IsInternal
  <2> QED
    BY <2>5, <2>8 DEF PipeInv, Serving
<1>5. ASSUME NEW fd \in Fds, ReadFails(fd) PROVE PipeInv'
  BY <1>5 DEF ReadFails, PipeInv, Serving, RequestQueued, AnswerQueued, IsServed, TypeOK,
     clientVars, connVars, queueVars, epollVars, dataVars
<1>6. CASE TakeAnswer
  BY <1>6 DEF TakeAnswer, PipeInv, Serving, RequestQueued, AnswerQueued, IsServed, TypeOK,
     clientVars, connVars, queueVars, epollVars, dataVars
<1>7. CASE Lock
  BY <1>7 DEF Lock, PipeInv, Serving, RequestQueued, AnswerQueued, IsServed, TypeOK, clientVars,
     connVars, queueVars, epollVars, dataVars
<1>8. CASE SendAnswer
  <2>1. AnswerQueued
    BY <1>8 DEF SendAnswer, PipeInv, Serving, RequestQueued, TypeOK
  <2>2. sendMessage' = <<>> /\ recvMessage' = <<>> /\ epc' = "wait"
    BY <1>8, <2>1 DEF SendAnswer, AnswerQueued
  <2> QED
    BY <2>2 DEF PipeInv, Serving
<1>9. CASE CloseConn
  <2> DEFINE e == Closed(efd, holder[efd])
  <2>1. /\ sendMessage = <<>> /\ recvMessage \in Seq(Events)
        /\ \A k \in 1 .. Len(recvMessage) : IsInternal(recvMessage[k])
    BY <1>9 DEF CloseConn, PipeInv, Serving, TypeOK
  <2>2. IsInternal(e)
    BY DEF Closed, IsInternal
  <2>3. /\ sendMessage' = <<>> /\ recvMessage' \in {recvMessage, Append(recvMessage, e)}
        /\ epc' = "shut"
    BY <1>9, <2>1 DEF CloseConn
  <2> HIDE DEF e
  <2>4. \A k \in 1 .. Len(recvMessage') : IsInternal(recvMessage'[k])
    BY <2>1, <2>2, <2>3
  <2> QED
    BY <2>3, <2>4 DEF PipeInv, Serving, IsInternal
<1>10. CASE Close
  BY <1>10 DEF Close, PipeInv, Serving, RequestQueued, AnswerQueued, IsServed, TypeOK,
     clientVars, connVars, queueVars, epollVars, dataVars
<1>11. CASE Serve
  <2> DEFINE e == Head(recvMessage)
  <2>1. recvMessage \in Seq(Events) /\ recvMessage # <<>> /\ e = recvMessage[1]
    BY <1>11 DEF Serve, TypeOK
  <2>2. /\ recvMessage' = Tail(recvMessage) /\ sendMessage' = Reply(e)
        /\ UNCHANGED <<epc, efd, holder>>
    BY <1>11 DEF Serve, epollVars, connVars
  <2>3. /\ Len(recvMessage') = Len(recvMessage) - 1
        /\ \A k \in 1 .. Len(recvMessage') : recvMessage'[k] = recvMessage[k + 1]
    BY <2>1, <2>2, HeadTailProperties
  <2>4. CASE IsInternal(e)
    <3>1. sendMessage' = sendMessage
      BY <2>2, <2>4 DEF Reply, IsInternal
    <3>2. CASE ~Serving
      BY <2>1, <2>2, <2>3, <3>1, <3>2 DEF PipeInv, Serving, IsInternal
    <3>3. CASE Serving
      <4>1. RequestQueued
        BY <2>1, <3>3 DEF PipeInv, AnswerQueued
      <4>2. Len(recvMessage) \in Nat /\ Len(recvMessage) > 1
        BY <2>1, <2>4, <4>1 DEF RequestQueued, IsServed, IsInternal
      <4>3. recvMessage' \in Seq(Events) /\ recvMessage' # <<>>
        BY <2>1, <2>2, <2>3, <4>2
      <4>4. recvMessage'[Len(recvMessage')] = recvMessage[Len(recvMessage)]
        BY <2>3, <4>2
      <4>5. \A k \in 1 .. (Len(recvMessage') - 1) : IsInternal(recvMessage'[k])
        BY <2>3, <4>1, <4>2 DEF RequestQueued
      <4>6. IsServed(recvMessage[Len(recvMessage)])'
        BY <2>2, <4>1, <4>4 DEF RequestQueued, IsServed
      <4>7. RequestQueued'
        BY <2>2, <3>1, <4>1, <4>3, <4>5, <4>6 DEF RequestQueued, IsInternal
      <4> QED
        BY <2>2, <3>3, <4>7 DEF PipeInv, Serving
    <3> QED
      BY <3>2, <3>3
  <2>5. CASE ~IsInternal(e)
    <3>1. Serving /\ sendMessage = <<>> /\ Len(recvMessage) = 1 /\ IsServed(e)
      BY <2>1, <2>5, ServedLast
    <3>2. e.type = "EXTERNAL" /\ e.client = holder[efd]
      BY <3>1 DEF IsServed
    <3>3. recvMessage' = <<>>
      BY <2>1, <2>2, <2>3, <3>1
    <3>4. sendMessage' = Append(<<>>, Answer(holder[efd]))
      BY <2>2, <3>1, <3>2 DEF Reply
    <3>5. sendMessage' = <<Answer(holder[efd])>>
      BY <3>4
    <3>6. AnswerQueued'
      BY <2>2, <3>3, <3>5 DEF AnswerQueued, Answer
    <3> QED
      BY <2>2, <3>1, <3>6 DEF PipeInv, Serving
  <2> QED
    BY <2>4, <2>5
<1> QED
  BY <1>1, <1>2, <1>3, <1>4, <1>5, <1>6, <1>7, <1>8, <1>9, <1>10, <1>11
     DEF Next, EpollThread, DataThread, Connect, Ask, Receive, Leave, TakeData, CheckConn,
         SendData, Publish, vars, clientVars, connVars, queueVars, epollVars, dataVars

-----------------------------------------------------------------------------
(* Subscriptions                                                           *)

\* An event that is pushed leaves those before it where they are.
LEMMA AnnouncedAppend ==
  ASSUME TypeOK, UNCHANGED subscribed, NEW e, recvMessage' = Append(recvMessage, e),
         NEW fd, NEW n \in 0 .. Len(recvMessage), Announced(fd, n)
  PROVE  Announced(fd, n)'
<1>1. PICK k \in 1 .. n : recvMessage[k] = Closed(fd, subscribed[fd])
  BY DEF Announced
<1>2. recvMessage \in Seq(Events) /\ k \in 1 .. Len(recvMessage)
  BY DEF TypeOK
<1>3. recvMessage'[k] = recvMessage[k]
  BY <1>2
<1> QED
  BY <1>1, <1>3 DEF Announced, Closed

\* Announced looks at the queue and at subscribed only.
LEMMA AnnouncedSame ==
  ASSUME UNCHANGED <<subscribed, recvMessage>>, NEW fd, NEW n, Announced(fd, n)
  PROVE  Announced(fd, n)'
BY DEF Announced, Closed

\* A step that pushes an event, if any, which is not an UNSUBSCRIBE of CloseConn.
LEMMA ClosedInOrderKept ==
  ASSUME TypeOK, ClosedInOrder, UNCHANGED subscribed,
         \/ UNCHANGED recvMessage
         \/ \E e : recvMessage' = Append(recvMessage, e) /\ e.type = "EXTERNAL"
  PROVE  ClosedInOrder'
<1>1. CASE UNCHANGED recvMessage
  BY <1>1 DEF ClosedInOrder, Announced, Closed
<1>2. ASSUME NEW e, recvMessage' = Append(recvMessage, e), e.type = "EXTERNAL"
      PROVE  ClosedInOrder'
  <2> SUFFICES ASSUME NEW k \in 1 .. Len(recvMessage'), recvMessage'[k].type = "INTERNAL"
               PROVE  \/ subscribed'[recvMessage'[k].fd] \in {Nobody, recvMessage'[k].client}
                      \/ Announced(recvMessage[k].fd, k - 1)'
    BY DEF ClosedInOrder
  <2>1. k \in 1 .. Len(recvMessage) /\ recvMessage'[k] = recvMessage[k]
    BY <1>2 DEF TypeOK
  <2>2. CASE Announced(recvMessage[k].fd, k - 1)
    <3>1. k - 1 \in 0 .. Len(recvMessage)
      BY <2>1
    <3>2. Announced(recvMessage'[k].fd, k - 1)
      BY <2>1, <2>2
    <3>3. \A fd : Announced(fd, k - 1) => Announced(fd, k - 1)'
      BY <1>2, <3>1, AnnouncedAppend
    <3> QED
      BY <3>2, <3>3
  <2> QED
    BY <2>1, <2>2 DEF ClosedInOrder
<1> QED
  BY <1>1, <1>2

\* A step that leaves subscribed alone, pushes at most a request, and closes nothing.
LEMMA SubKept ==
  ASSUME Inv, UNCHANGED subscribed, epc' # "shut",
         \A fd \in Fds : holder'[fd] = holder[fd] \/ holder[fd] = Nobody,
         \/ UNCHANGED recvMessage
         \/ \E e : recvMessage' = Append(recvMessage, e) /\ e.type = "EXTERNAL"
  PROVE  SubInv'
<1> USE DEF Inv, SubInv
<1>1. SubscribedSdk' /\ ShutAnnounced'
  BY DEF SubscribedSdk, ShutAnnounced
<1>2. ClosedInOrder'
  BY ClosedInOrderKept
<1>3. GhostInv'
  <2> SUFFICES ASSUME NEW fd \in Fds, subscribed'[fd] \notin {Nobody, holder'[fd]}
               PROVE  Announced(fd, Len(recvMessage))'
    BY DEF GhostInv
  <2>1. Announced(fd, Len(recvMessage))
    BY DEF GhostInv
  <2>2. recvMessage \in Seq(Events)
    BY DEF TypeOK
  <2>3. CASE UNCHANGED recvMessage
    BY <2>1, <2>3 DEF Announced, Closed
  <2>4. ASSUME NEW e, recvMessage' = Append(recvMessage, e)
        PROVE  Announced(fd, Len(recvMessage))'
    <3>1. PICK k \in 1 .. Len(recvMessage) : recvMessage[k] = Closed(fd, subscribed[fd])
      BY <2>1 DEF Announced
    <3>2. recvMessage'[k] = recvMessage[k] /\ k \in 1 .. Len(recvMessage')
      BY <2>2, <2>4
    <3> QED
      BY <3>1, <3>2 DEF Announced, Closed
  <2> QED
    BY <2>3, <2>4
<1> QED
  BY <1>1, <1>2, <1>3

\* Subscriptions are those of the clients that hold their descriptors, but for those
\* that an UNSUBSCRIBE in the queue will end.
LEMMA SubPreserved == Inv /\ [Next]_vars => SubInv'
<1> SUFFICES ASSUME Inv, [Next]_vars PROVE SubInv'
  OBVIOUS
<1> USE ClientsAssumption DEF Inv
<1>1. CASE UNCHANGED <<epc, efd, holder, subscribed, recvMessage>>
  BY <1>1 DEF SubInv, SubscribedSdk, ShutAnnounced, ClosedInOrder, GhostInv, Announced, Closed
<1>2. ASSUME NEW fd \in Fds, NEW c \in Clients, Accept(fd, c) PROVE SubInv'
  BY <1>2, SubKept DEF Accept, TypeOK, connVars, queueVars
<1>3. CASE AddConn
  BY <1>3, SubKept DEF AddConn, TypeOK, connVars, queueVars
<1>4. ASSUME NEW fd \in Fds, Read(fd) PROVE SubInv'
  <2> DEFINE e == Request(Head(toServer[holder[fd]]), fd, holder[fd])
  <2>1. recvMessage' = Append(recvMessage, e) /\ e.type = "EXTERNAL"
    BY <1>4 DEF Read, Request
  <2>2. UNCHANGED <<subscribed, holder>> /\ epc' # "shut"
    BY <1>4 DEF Read, connVars
  <2> HIDE DEF e
  <2> QED
    BY <2>1, <2>2, SubKept
<1>5. ASSUME NEW fd \in Fds, ReadFails(fd) PROVE SubInv'
  BY <1>5, SubKept DEF ReadFails, TypeOK, connVars, queueVars
<1>6. CASE TakeAnswer
  BY <1>6, SubKept DEF TakeAnswer, TypeOK, connVars, queueVars
<1>7. CASE Lock
  BY <1>7, SubKept DEF Lock, TypeOK, connVars, queueVars
<1>8. CASE SendAnswer
  BY <1>8, SubKept DEF SendAnswer, TypeOK, connVars, queueVars
<1>9. CASE CloseConn
  <2> DEFINE e == Closed(efd, holder[efd])
  <2>1. /\ UNCHANGED <<subscribed, holder, efd>> /\ recvMessage \in Seq(Events)
        /\ efd \in Fds /\ holder[efd] \in Clients /\ IsConn(efd) /\ conns[efd] = TypeOf(holder[efd])
    BY <1>9 DEF CloseConn, TypeOK, ConnInv
  <2>2. CASE conns[efd] = "sdk"
    <3>1. recvMessage' = Append(recvMessage, e)
      BY <1>9, <2>2 DEF CloseConn
    <3>2. /\ Len(recvMessage') = Len(recvMessage) + 1 /\ Len(recvMessage) \in Nat
          /\ recvMessage'[Len(recvMessage) + 1] = e
          /\ \A k \in 1 .. Len(recvMessage) : recvMessage'[k] = recvMessage[k]
      BY <2>1, <3>1
    <3>3. \A fd, n : n \in 0 .. Len(recvMessage) /\ Announced(fd, n) => Announced(fd, n)'
      BY <2>1, <3>1, AnnouncedAppend
    <3>4. \A fd : Announced(fd, Len(recvMessage)) => Announced(fd, Len(recvMessage))'
      BY <2>1, <3>2 DEF Announced, Closed
    <3>5. e.fd = efd /\ e.client = holder[efd]
      BY DEF Closed
    <3>6. subscribed[efd] \in {Nobody, holder[efd]} \/ Announced(efd, Len(recvMessage))
      BY <2>1 DEF SubInv, GhostInv
    <3>7. SubscribedSdk' /\ GhostInv'
      BY <2>1, <3>4 DEF SubInv, SubscribedSdk, GhostInv
    <3>8. ShutAnnounced'
      <4>1. CASE subscribed[efd] = holder[efd]
        <5>1. recvMessage'[Len(recvMessage')] = Closed(efd', subscribed'[efd'])
          BY <2>1, <3>2, <4>1
        <5> QED
          BY <3>2, <5>1 DEF ShutAnnounced, Announced, Closed
      <4>2. CASE subscribed[efd] = Nobody
        BY <2>1, <4>2 DEF ShutAnnounced
      <4>3. CASE Announced(efd, Len(recvMessage))
        BY <2>1, <3>4, <4>3 DEF ShutAnnounced
      <4> QED
        BY <3>6, <4>1, <4>2, <4>3
    <3>9. ClosedInOrder'
      <4> SUFFICES ASSUME NEW k \in 1 .. Len(recvMessage'), recvMessage'[k].type = "INTERNAL"
                   PROVE  \/ subscribed'[recvMessage'[k].fd] \in {Nobody, recvMessage'[k].client}
                          \/ Announced(recvMessage[k].fd, k - 1)'
        BY DEF ClosedInOrder
      <4>1. CASE k = Len(recvMessage) + 1
        <5>1. recvMessage'[k].fd = efd /\ recvMessage'[k].client = holder[efd]
          BY <3>2, <3>5, <4>1
        <5>2. k - 1 = Len(recvMessage)
          BY <3>2, <4>1
        <5>3. Announced(efd, k - 1) => Announced(efd, k - 1)'
          BY <2>1, <3>2, <3>3, <5>2
        <5>4. Announced(recvMessage[k].fd, k - 1)' <=> Announced(efd, k - 1)'
          BY <2>1, <5>1 DEF Announced, Closed
        <5> QED
          BY <2>1, <3>6, <5>1, <5>2, <5>3, <5>4
      <4>2. CASE k \in 1 .. Len(recvMessage)
        <5>1. recvMessage'[k] = recvMessage[k] /\ k - 1 \in 0 .. Len(recvMessage)
          BY <3>2, <4>2
        <5>2. \/ subscribed[recvMessage[k].fd] \in {Nobody, recvMessage[k].client}
              \/ Announced(recvMessage[k].fd, k - 1)
          BY <4>2, <5>1 DEF SubInv, ClosedInOrder
        <5>3. Announced(recvMessage'[k].fd, k - 1) <=> Announced(recvMessage[k].fd, k - 1)
          BY <5>1
        <5> QED
          BY <2>1, <3>3, <5>1, <5>2, <5>3
      <4> QED
        BY <3>2, <4>1, <4>2
    <3> QED
      BY <3>7, <3>8, <3>9 DEF SubInv
  <2>3. CASE conns[efd] # "sdk"
    <3>1. UNCHANGED recvMessage
      BY <1>9, <2>3 DEF CloseConn
    <3>2. holder[efd] \notin Sdk
      BY <2>1, <2>3 DEF TypeOf
    <3>3. SubscribedSdk' /\ ClosedInOrder' /\ GhostInv'
      BY <2>1, <3>1 DEF SubInv, SubscribedSdk, ClosedInOrder, GhostInv, Announced, Closed
    <3>4. ShutAnnounced'
      BY <2>1, <3>1, <3>2
         DEF SubInv, SubscribedSdk, GhostInv, ShutAnnounced, Announced, Closed
    <3> QED
      BY <3>3, <3>4 DEF SubInv
  <2> QED
    BY <2>2, <2>3
<1>10. CASE Close
  <2>1. /\ UNCHANGED <<subscribed, recvMessage>> /\ epc = "shut" /\ epc' = "wait" /\ efd \in Fds
        /\ holder' = [holder EXCEPT ![efd] = Nobody]
    BY <1>10 DEF Close, queueVars, TypeOK
  <2>2. SubscribedSdk' /\ ShutAnnounced' /\ ClosedInOrder'
    BY <2>1 DEF SubInv, SubscribedSdk, ShutAnnounced, ClosedInOrder, Announced, Closed
  <2>3. GhostInv'
    BY <2>1 DEF TypeOK, SubInv, ShutAnnounced, GhostInv, Announced, Closed
  <2> QED
    BY <2>2, <2>3 DEF SubInv
<1>11. CASE Serve
  <2> DEFINE e == Head(recvMessage)
  <2>1. recvMessage \in Seq(Events) /\ recvMessage # <<>> /\ e = recvMessage[1] /\ e \in Events
    BY <1>11, HeadTailProperties DEF Serve, TypeOK
  <2>2. recvMessage' = Tail(recvMessage) /\ UNCHANGED <<epc, efd, holder>>
    BY <1>11 DEF Serve, epollVars, connVars
  <2>3. /\ Len(recvMessage') = Len(recvMessage) - 1 /\ Len(recvMessage) \in Nat
        /\ \A k \in 1 .. Len(recvMessage') : recvMessage'[k] = recvMessage[k + 1]
    BY <2>1, <2>2, HeadTailProperties
  <2>4. CASE IsInternal(e)
    <3>1. subscribed' = [subscribed EXCEPT ![e.fd] = Nobody]
      BY <1>11, <2>4 DEF Serve, IsInternal
    <3>2. /\ subscribed'[e.fd] = Nobody /\ e.fd \in Fds
          /\ \A fd \in Fds \ {e.fd} : subscribed'[fd] = subscribed[fd]
      BY <2>1, <3>1 DEF TypeOK, Events
    <3>3. ASSUME NEW fd \in Fds \ {e.fd}, NEW n \in 0 .. Len(recvMessage), Announced(fd, n)
          PROVE  Announced(fd, n - 1)'
      <4>1. PICK k \in 1 .. n : recvMessage[k] = Closed(fd, subscribed[fd])
        BY <3>3 DEF Announced
      <4>2. k # 1
        BY <2>1, <4>1 DEF Closed
      <4>3. k - 1 \in 1 .. (n - 1) /\ recvMessage'[k - 1] = recvMessage[k]
        BY <2>3, <4>2
      <4> QED
        BY <3>2, <4>1, <4>3 DEF Announced, Closed
    <3>4. SubscribedSdk'
      BY <3>2 DEF SubInv, SubscribedSdk
    <3>5. GhostInv'
      <4> SUFFICES ASSUME NEW fd \in Fds, subscribed'[fd] \notin {Nobody, holder'[fd]}
                   PROVE  Announced(fd, Len(recvMessage))'
        BY DEF GhostInv
      <4>1. fd # e.fd /\ Announced(fd, Len(recvMessage))
        BY <2>2, <3>2 DEF SubInv, GhostInv
      <4> QED
        BY <2>2, <2>3, <3>3, <4>1 DEF Announced
    <3>6. ShutAnnounced'
      <4> SUFFICES ASSUME epc = "shut", subscribed'[efd] # Nobody
                   PROVE  Announced(efd, Len(recvMessage))'
        BY <2>2 DEF ShutAnnounced
      <4>1. efd \in Fds \ {e.fd}
        BY <3>2 DEF TypeOK
      <4>2. Announced(efd, Len(recvMessage))
        BY <3>2, <4>1 DEF SubInv, ShutAnnounced
      <4>3. Announced(efd, Len(recvMessage))'
        BY <2>2, <2>3, <3>3, <4>1, <4>2 DEF Announced
      <4> QED
        BY <4>3
    <3>7. ClosedInOrder'
      <4> SUFFICES ASSUME NEW k \in 1 .. Len(recvMessage'), recvMessage'[k].type = "INTERNAL",
                          subscribed'[recvMessage'[k].fd] \notin {Nobody, recvMessage'[k].client}
                   PROVE  Announced(recvMessage[k].fd, k - 1)'
        BY DEF ClosedInOrder
      <4> DEFINE fd == recvMessage[k + 1].fd
      <4>1. k + 1 \in 1 .. Len(recvMessage) /\ recvMessage'[k] = recvMessage[k + 1]
        BY <2>3
      <4>2. recvMessage[k + 1] \in Events
        BY <2>1, <4>1
      <4>3. fd \in Fds \ {e.fd} /\ subscribed'[fd] = subscribed[fd]
        BY <3>2, <4>2, <4>1 DEF Events
      <4>4. Announced(fd, (k + 1) - 1)
        BY <4>1, <4>3 DEF SubInv, ClosedInOrder
      <4>5. k \in 0 .. Len(recvMessage) /\ (k + 1) - 1 = k
        BY <4>1
      <4>6. fd = recvMessage'[k].fd
        BY <4>1
      <4> HIDE DEF fd
      <4>7. PICK j \in 1 .. k : recvMessage[j] = Closed(fd, subscribed[fd])
        BY <4>4, <4>5 DEF Announced
      <4>8. j # 1
        BY <2>1, <4>3, <4>7 DEF Closed
      <4>9. j - 1 \in 1 .. (k - 1) /\ recvMessage'[j - 1] = recvMessage[j]
        BY <2>3, <4>1, <4>8
      <4> QED
        BY <4>3, <4>6, <4>7, <4>9 DEF Announced, Closed
    <3> QED
      BY <3>4, <3>5, <3>6, <3>7 DEF SubInv
  <2>5. CASE ~IsInternal(e)
    <3>1. Serving /\ IsServed(e) /\ Len(recvMessage) = 1
      BY <2>1, <2>5, ServedLast
    <3>2. recvMessage' = <<>>
      BY <2>1, <2>2, <2>3, <3>1
    <3>3. e.fd = efd /\ e.client = holder[efd] /\ efd \in Fds
      BY <2>1, <3>1 DEF IsServed, Events
    <3>4. \/ subscribed' = subscribed
          \/ subscribed' = [subscribed EXCEPT ![efd] = Nobody]
          \/ subscribed' = [subscribed EXCEPT ![efd] = holder[efd]] /\ holder[efd] \in Sdk
      BY <1>11, <3>1, <3>3 DEF Serve, IsServed
    <3>5. \A fd \in Fds : ~Announced(fd, Len(recvMessage))
      BY <2>1, <3>1 DEF Announced, Closed, IsServed
    <3>6. \A fd \in Fds : subscribed'[fd] \in {Nobody, holder[fd]}
      BY <3>3, <3>4, <3>5 DEF SubInv, GhostInv, TypeOK
    <3>7. SubscribedSdk'
      BY <3>3, <3>4 DEF SubInv, SubscribedSdk, TypeOK
    <3>8. GhostInv' /\ ShutAnnounced'
      BY <2>2, <3>1, <3>6 DEF GhostInv, ShutAnnounced, Serving
    <3>9. ClosedInOrder'
      BY <3>2 DEF ClosedInOrder
    <3> QED
      BY <3>7, <3>8, <3>9 DEF SubInv
  <2> QED
    BY <2>4, <2>5
<1> QED
  BY <1>1, <1>2, <1>3, <1>4, <1>5, <1>6, <1>7, <1>8, <1>9, <1>10, <1>11
     DEF Next, EpollThread, DataThread, Connect, Ask, Receive, Leave, TakeData, CheckConn,
         SendData, Publish, vars, clientVars, connVars, queueVars, epollVars, dataVars

-----------------------------------------------------------------------------
(* Counting the requests of a client                                       *)

\* What CountInv adds up are numbers.
LEMMA CountTyped ==
  ASSUME TypeOK, NEW c \in Clients
  PROVE  /\ Len(toServer[c]) \in Nat /\ Cardinality(Answers(toClient[c])) \in Nat
         /\ pending[c] \in Nat /\ InHand(c) \in {0, 1}
<1>1. toServer[c] \in Seq(Opts) /\ toClient[c] \in Seq(Messages) /\ pending[c] \in Nat
  BY MessageBoundsAssumption DEF TypeOK
<1> QED
  BY <1>1, AnswersFinite DEF InHand

\* A step that changes no socket and after which the epoll thread serves no one.
LEMMA CountKept ==
  ASSUME Inv, UNCHANGED <<pending, toServer, toClient>>, ~Serving',
         \A c \in Clients : state'[c] \in {"new", "backlog", "connected"} =>
           state[c] \in {"new", "backlog", "connected"}
  PROVE  CountInv'
<1> SUFFICES ASSUME NEW c \in Clients, state'[c] \in {"new", "backlog", "connected"}
             PROVE  (Len(toServer[c]) + Cardinality(Answers(toClient[c])) + InHand(c) <= pending[c])'
  BY DEF CountInv
<1>1. Len(toServer[c]) + Cardinality(Answers(toClient[c])) + InHand(c) <= pending[c]
  BY DEF Inv, CountInv
<1>2. /\ Len(toServer[c]) \in Nat /\ Cardinality(Answers(toClient[c])) \in Nat
      /\ pending[c] \in Nat /\ InHand(c) \in {0, 1}
  BY CountTyped DEF Inv
<1>3. InHand(c)' = 0
  BY DEF InHand
<1>4. Answers(toClient[c])' = Answers(toClient[c]) /\ toServer'[c] = toServer[c] /\ pending'[c] = pending[c]
  BY DEF Answers
<1> QED
  BY <1>1, <1>2, <1>3, <1>4

\* Each step takes away from a client's requests and answers under way at least what
\* it takes away from pending.
LEMMA CountPreserved == Inv /\ [Next]_vars => CountInv'
<1> SUFFICES ASSUME Inv, [Next]_vars PROVE CountInv'
  OBVIOUS
<1> USE ClientsAssumption DEF Inv
<1> DEFINE Live(c) == state[c] \in {"new", "backlog", "connected"}
           Sum(c) == Len(toServer[c]) + Cardinality(Answers(toClient[c])) + InHand(c)
<1>1. CASE UNCHANGED <<state, pending, toServer, toClient, holder, epc, efd>>
  BY <1>1 DEF CountInv, Answers, InHand, Serving
<1>2. ASSUME NEW c \in Clients, Connect(c) PROVE CountInv'
  BY <1>2 DEF Connect, CountInv, Answers, InHand, Serving, TypeOK, connVars, epollVars
<1>3. ASSUME NEW c \in Clients, NEW opt \in Opts, Ask(c, opt) PROVE CountInv'
  <2> SUFFICES ASSUME NEW d \in Clients, Live(d)' PROVE Sum(d)' <= pending'[d]
    BY DEF CountInv
  <2>1. /\ Len(toServer[d]) \in Nat /\ Cardinality(Answers(toClient[d])) \in Nat
        /\ pending[d] \in Nat /\ InHand(d) \in {0, 1} /\ toServer[d] \in Seq(Opts)
    BY CountTyped DEF TypeOK
  <2>2. Live(d) /\ Sum(d) <= pending[d]
    BY <1>3 DEF Ask, CountInv
  <2>3. Answers(toClient[d])' = Answers(toClient[d]) /\ InHand(d)' = InHand(d)
    BY <1>3 DEF Ask, Answers, InHand, Serving, connVars, epollVars
  <2>4. \/ toServer'[d] = toServer[d] /\ pending'[d] = pending[d]
        \/ toServer'[d] = Append(toServer[d], opt) /\ pending'[d] = pending[d] + 1
    BY <1>3 DEF Ask, TypeOK
  <2>5. \/ Len(toServer'[d]) = Len(toServer[d]) /\ pending'[d] = pending[d]
        \/ Len(toServer'[d]) = Len(toServer[d]) + 1 /\ pending'[d] = pending[d] + 1
    BY <2>1, <2>4
  <2> QED
    BY <2>1, <2>2, <2>3, <2>5
<1>4. ASSUME NEW c \in Clients, Receive(c) PROVE CountInv'
  <2> SUFFICES ASSUME NEW d \in Clients, Live(d)' PROVE Sum(d)' <= pending'[d]
    BY DEF CountInv
  <2>1. /\ Len(toServer[d]) \in Nat /\ Cardinality(Answers(toClient[d])) \in Nat
        /\ pending[d] \in Nat /\ InHand(d) \in {0, 1} /\ toClient[d] \in Seq(Messages)
    BY CountTyped DEF TypeOK
  <2>2. Live(d) /\ Sum(d) <= pending[d]
    BY <1>4 DEF Receive, CountInv
  <2>3. toServer'[d] = toServer[d] /\ InHand(d)' = InHand(d)
    BY <1>4 DEF Receive, InHand, Serving, connVars, epollVars
  <2>4. CASE d # c
    <3>1. toClient'[d] = toClient[d] /\ pending'[d] = pending[d]
      BY <1>4, <2>4 DEF Receive, TypeOK
    <3> QED
      BY <2>1, <2>2, <2>3, <3>1 DEF Answers
  <2>5. CASE d = c
    <3>1. toClient[d] # <<>> /\ toClient'[d] = Tail(toClient[d])
      BY <1>4, <2>5 DEF Receive, TypeOK
    <3>2. pending'[d] = IF Head(toClient[d]).kind = "answer" THEN pending[d] - 1 ELSE pending[d]
      BY <1>4, <2>5 DEF Receive, TypeOK
    <3>3. Cardinality(Answers(Tail(toClient[d]))) = Cardinality(Answers(toClient[d]))
            - (IF Head(toClient[d]).kind = "answer" THEN 1 ELSE 0)
      BY <2>1, <3>1, AnswersOfTail
    <3>4. Answers(toClient[d])' = Answers(Tail(toClient[d]))
      BY <3>1 DEF Answers
    <3> QED
      BY <2>1, <2>2, <2>3, <3>2, <3>3, <3>4
  <2> QED
    BY <2>4, <2>5
<1>5. ASSUME NEW c \in Clients, Leave(c) PROVE CountInv'
  <2> SUFFICES ASSUME NEW d \in Clients, Live(d)' PROVE Sum(d)' <= pending'[d]
    BY DEF CountInv
  <2>1. d # c /\ Live(d)
    BY <1>5 DEF Leave, TypeOK
  <2>2. /\ toServer'[d] = toServer[d] /\ toClient'[d] = toClient[d] /\ pending'[d] = pending[d]
        /\ InHand(d)' = InHand(d)
    BY <1>5, <2>1 DEF Leave, TypeOK, InHand, Serving, connVars, epollVars
  <2>3. Sum(d) <= pending[d]
    BY <2>1 DEF CountInv
  <2> QED
    BY <2>2, <2>3 DEF Answers
<1>6. ASSUME NEW fd \in Fds, NEW c \in Clients, Accept(fd, c) PROVE CountInv'
  <2>1. UNCHANGED <<pending, toServer, toClient>> /\ ~Serving'
    BY <1>6 DEF Accept, Serving, clientVars
  <2>2. \A d \in Clients : state'[d] \in {"new", "backlog", "connected"} =>
          state[d] \in {"new", "backlog", "connected"}
    BY <1>6 DEF Accept, clientVars, TypeOK
  <2> QED
    BY <2>1, <2>2, CountKept
<1>7. CASE AddConn
  <2>1. UNCHANGED <<pending, toServer, toClient>> /\ ~Serving'
    BY <1>7 DEF AddConn, Serving, clientVars
  <2>2. \A c \in Clients : state'[c] \in {"new", "backlog", "connected"} =>
          state[c] \in {"new", "backlog", "connected"}
    BY <1>7 DEF AddConn, clientVars, TypeOK
  <2> QED
    BY <2>1, <2>2, CountKept
<1>8. ASSUME NEW fd \in Fds, Read(fd) PROVE CountInv'
  <2> SUFFICES ASSUME NEW d \in Clients, Live(d)' PROVE Sum(d)' <= pending'[d]
    BY DEF CountInv
  <2>1. /\ Len(toServer[d]) \in Nat /\ Cardinality(Answers(toClient[d])) \in Nat
        /\ pending[d] \in Nat /\ InHand(d) \in {0, 1} /\ toServer[d] \in Seq(Opts)
    BY CountTyped DEF TypeOK
  <2>2. Live(d) /\ Sum(d) <= pending[d] /\ InHand(d) = 0
    BY <1>8 DEF Read, CountInv, InHand, Serving
  <2>3. Answers(toClient[d])' = Answers(toClient[d]) /\ pending'[d] = pending[d]
    BY <1>8 DEF Read, Answers
  <2>4. CASE d # holder[fd]
    <3>1. toServer'[d] = toServer[d] /\ InHand(d)' = 0
      BY <1>8, <2>4 DEF Read, TypeOK, InHand, connVars
    <3> QED
      BY <2>1, <2>2, <2>3, <3>1
  <2>5. CASE d = holder[fd]
    <3>1. toServer[d] # <<>> /\ toServer'[d] = <<>> /\ InHand(d)' \in {0, 1}
      BY <1>8, <2>5 DEF Read, TypeOK, InHand, connVars
    <3>2. Len(toServer[d]) >= 1 /\ Len(toServer'[d]) = 0
      BY <2>1, <3>1
    <3> QED
      BY <2>1, <2>2, <2>3, <3>1, <3>2
  <2> QED
    BY <2>4, <2>5
<1>9. ASSUME NEW fd \in Fds, ReadFails(fd) PROVE CountInv'
  <2>1. UNCHANGED <<pending, toServer, toClient>> /\ ~Serving'
    BY <1>9 DEF ReadFails, Serving, clientVars
  <2>2. \A c \in Clients : state'[c] \in {"new", "backlog", "connected"} =>
          state[c] \in {"new", "backlog", "connected"}
    BY <1>9 DEF ReadFails, clientVars, TypeOK
  <2> QED
    BY <2>1, <2>2, CountKept
<1>10. CASE TakeAnswer \/ Lock
  <2>1. UNCHANGED <<state, pending, toServer, toClient, holder, efd>> /\ Serving /\ Serving'
    BY <1>10 DEF TakeAnswer, Lock, Serving, clientVars, connVars
  <2> QED
    BY <2>1 DEF CountInv, Answers, InHand
<1>11. CASE SendAnswer
  <2> DEFINE m == Head(sendMessage)
  <2> SUFFICES ASSUME NEW d \in Clients, Live(d)' PROVE Sum(d)' <= pending'[d]
    BY DEF CountInv
  <2>1. /\ Len(toServer[d]) \in Nat /\ Cardinality(Answers(toClient[d])) \in Nat
        /\ pending[d] \in Nat /\ InHand(d) \in {0, 1} /\ toClient[d] \in Seq(Messages)
    BY CountTyped DEF TypeOK
  <2>2. Live(d) /\ Sum(d) <= pending[d] /\ toServer'[d] = toServer[d] /\ pending'[d] = pending[d]
    BY <1>11 DEF SendAnswer, CountInv, clientVars
  <2>3. InHand(d)' = 0 /\ m \in Messages
    BY <1>11, HeadTailProperties DEF SendAnswer, InHand, Serving, TypeOK
  <2>4. CASE toClient'[d] = toClient[d]
    BY <2>1, <2>2, <2>3, <2>4 DEF Answers
  <2>5. CASE d = holder[efd] /\ toClient'[d] = Append(toClient[d], m)
    <3>1. InHand(d) = 1
      BY <1>11, <2>5 DEF SendAnswer, InHand, Serving
    <3>2. Answers(toClient[d])' = Answers(Append(toClient[d], m))
      BY <2>5 DEF Answers
    <3>3. Cardinality(Answers(Append(toClient[d], m))) <= Cardinality(Answers(toClient[d])) + 1
      <4> HIDE DEF m
      <4>1. Cardinality(Answers(Append(toClient[d], m))) =
              Cardinality(Answers(toClient[d])) + (IF m.kind = "answer" THEN 1 ELSE 0)
        BY <2>1, <2>3, AnswersOfAppend
      <4> QED
        BY <2>1, <4>1
    <3>4. Append(toClient[d], m) \in Seq(Messages)
      BY <2>1, <2>3
    <3>5. Cardinality(Answers(Append(toClient[d], m))) \in Nat
      BY <3>4, AnswersFinite
    <3> QED
      BY <2>1, <2>2, <2>3, <3>1, <3>2, <3>3, <3>5
  <2> QED
    BY <1>11, <2>4, <2>5 DEF SendAnswer, Delivered, TypeOK
<1>12. CASE CloseConn
  <2>1. UNCHANGED <<pending, toServer, toClient>> /\ ~Serving'
    BY <1>12 DEF CloseConn, Serving, clientVars
  <2>2. \A c \in Clients : state'[c] \in {"new", "backlog", "connected"} =>
          state[c] \in {"new", "backlog", "connected"}
    BY <1>12 DEF CloseConn, clientVars, TypeOK
  <2> QED
    BY <2>1, <2>2, CountKept
<1>13. CASE Close
  <2>1. UNCHANGED <<pending, toServer, toClient>> /\ ~Serving'
    BY <1>13 DEF Close, Serving, clientVars
  <2>2. \A c \in Clients : state'[c] \in {"new", "backlog", "connected"} =>
          state[c] \in {"new", "backlog", "connected"}
    BY <1>13 DEF Close, clientVars, TypeOK
  <2> QED
    BY <2>1, <2>2, CountKept
<1>14. CASE SendData
  <2> DEFINE m == Data(item.client)
  <2> SUFFICES ASSUME NEW d \in Clients, Live(d)' PROVE Sum(d)' <= pending'[d]
    BY DEF CountInv
  <2>1. Cardinality(Answers(toClient[d])) \in Nat /\ toClient[d] \in Seq(Messages)
    BY CountTyped DEF TypeOK
  <2>2. /\ Live(d) /\ Sum(d) <= pending[d]
        /\ toServer'[d] = toServer[d] /\ pending'[d] = pending[d] /\ InHand(d)' = InHand(d)
    BY <1>14 DEF SendData, CountInv, InHand, Serving, clientVars, connVars, epollVars
  <2>3. m \in Messages /\ m.kind # "answer"
    BY <1>14 DEF SendData, Data, Messages, MutexInv
  <2>4. CASE toClient'[d] = toClient[d]
    BY <2>2, <2>4 DEF Answers
  <2>5. CASE toClient'[d] = Append(toClient[d], m)
    <3> HIDE DEF m
    <3>1. Answers(toClient[d])' = Answers(Append(toClient[d], m))
      BY <2>5 DEF Answers
    <3>2. Cardinality(Answers(Append(toClient[d], m))) = Cardinality(Answers(toClient[d])) + 0
      BY <2>1, <2>3, AnswersOfAppend
    <3> QED
      BY <2>1, <2>2, <3>1, <3>2
  <2> QED
    <3>1. Delivered(item.fd, m) /\ toClient \in [Clients -> Seq(Messages)]
      BY <1>14 DEF SendData, TypeOK
    <3> HIDE DEF m
    <3> QED
      BY <2>4, <2>5, <3>1 DEF Delivered
<1> QED
  BY <1>1, <1>2, <1>3, <1>4, <1>5, <1>6, <1>7, <1>8, <1>9, <1>10, <1>11, <1>12, <1>13, <1>14
     DEF Next, EpollThread, DataThread, TakeData, CheckConn, Serve, Publish, vars, clientVars,
         connVars, queueVars, epollVars, dataVars

\* SendAnswer sends the only answer there is, the one to the client that it serves.
LEMMA AskerPreserved == Inv /\ [Next]_vars => AnswerReachesAsker'
<1> SUFFICES ASSUME Inv, [Next]_vars PROVE AnswerReachesAsker'
  OBVIOUS
<1> USE ClientsAssumption DEF Inv
<1>1. CASE UNCHANGED toClient
  BY <1>1 DEF AnswerReachesAsker
<1>2. ASSUME NEW c \in Clients, Receive(c) PROVE AnswerReachesAsker'
  <2> SUFFICES ASSUME NEW d \in Clients, NEW k \in DOMAIN toClient'[d], toClient'[d][k].kind = "answer"
               PROVE  toClient'[d][k].client = d
    BY DEF AnswerReachesAsker
  <2>1. toClient[d] \in Seq(Messages) /\ toClient[c] # <<>>
    BY <1>2 DEF Receive, TypeOK
  <2>2. toClient'[d] = IF d = c THEN Tail(toClient[d]) ELSE toClient[d]
    BY <1>2 DEF Receive, TypeOK
  <2>3. \E j \in DOMAIN toClient[d] : toClient[d][j] = toClient'[d][k]
    <3>1. CASE d = c
      <4>1. /\ DOMAIN toClient'[d] = 1 .. (Len(toClient[d]) - 1)
            /\ toClient'[d][k] = toClient[d][k + 1] /\ DOMAIN toClient[d] = 1 .. Len(toClient[d])
        BY <2>1, <2>2, <3>1, HeadTailProperties
      <4>2. Len(toClient[d]) \in Nat
        BY <2>1
      <4> QED
        BY <4>1, <4>2
    <3>2. CASE d # c
      BY <2>2, <3>2
    <3> QED
      BY <3>1, <3>2
  <2> QED
    BY <2>3 DEF AnswerReachesAsker
<1>3. ASSUME NEW c \in Clients, Leave(c) PROVE AnswerReachesAsker'
  BY <1>3 DEF Leave, AnswerReachesAsker, TypeOK
<1>4. ASSUME NEW fd \in Fds, NEW m \in Messages, m.kind = "answer" => m.client = holder[fd],
             Delivered(fd, m)
      PROVE  AnswerReachesAsker'
  <2> SUFFICES ASSUME NEW d \in Clients, NEW k \in DOMAIN toClient'[d], toClient'[d][k].kind = "answer"
               PROVE  toClient'[d][k].client = d
    BY DEF AnswerReachesAsker
  <2>1. toClient[d] \in Seq(Messages)
    BY DEF TypeOK
  <2>2. toClient'[d] = toClient[d] \/ (d = holder[fd] /\ toClient'[d] = Append(toClient[d], m))
    BY <1>4 DEF Delivered, TypeOK
  <2>3. CASE toClient'[d] = toClient[d]
    BY <2>3 DEF AnswerReachesAsker
  <2>4. CASE d = holder[fd] /\ toClient'[d] = Append(toClient[d], m)
    <3>1. \/ k \in DOMAIN toClient[d] /\ toClient'[d][k] = toClient[d][k]
          \/ toClient'[d][k] = m
      BY <2>1, <2>4
    <3> QED
      BY <1>4, <2>4, <3>1 DEF AnswerReachesAsker
  <2> QED
    BY <2>2, <2>3, <2>4
<1>5. CASE SendAnswer
  <2>1. AnswerQueued /\ efd \in Fds /\ Delivered(efd, Head(sendMessage))
    BY <1>5 DEF SendAnswer, PipeInv, Serving, RequestQueued, TypeOK
  <2>2. Head(sendMessage) = Answer(holder[efd]) /\ holder[efd] \in Clients
    BY <1>5, <2>1 DEF AnswerQueued, SendAnswer, ConnInv, TypeOK
  <2>3. Answer(holder[efd]) \in Messages /\ Answer(holder[efd]).client = holder[efd]
    BY <2>2 DEF Answer, Messages
  <2> QED
    BY <1>4, <2>1, <2>2, <2>3
<1>6. CASE SendData
  <2>1. item \in [fd : Fds, client : Clients] /\ Delivered(item.fd, Data(item.client))
    BY <1>6 DEF SendData, MutexInv
  <2>2. Data(item.client) \in Messages /\ Data(item.client).kind = "data"
    BY <2>1 DEF Data, Messages
  <2> QED
    BY <1>4, <2>1, <2>2
<1> QED
  BY <1>1, <1>2, <1>3, <1>5, <1>6
     DEF Next, EpollThread, DataThread, Connect, Ask, Accept, AddConn, Read, ReadFails,
         TakeAnswer, Lock, CloseConn, Close, TakeData, CheckConn, Serve, Publish, vars

-----------------------------------------------------------------------------
(* The theorems                                                            *)

\* The invariant holds when the service starts.
LEMMA InitInv == Init => Inv
<1> SUFFICES ASSUME Init PROVE Inv
  OBVIOUS
<1> USE ClientsAssumption, MessageBoundsAssumption DEF Init
<1>1. TypeOK
  BY DEF TypeOK, ConnTypes
<1>2. ConnInv /\ MutexInv /\ PipeInv /\ AskedInv /\ AnswerReachesAsker
  BY DEF ConnInv, MutexInv, PipeInv, Serving, AskedInv, AnswerReachesAsker, IsConn
<1>3. SubInv
  BY DEF SubInv, SubscribedSdk, ShutAnnounced, ClosedInOrder, GhostInv
<1>4. CountInv
  <2>1. \A c \in Clients : Answers(toClient[c]) = {} /\ InHand(c) = 0 /\ Len(toServer[c]) = 0
    BY DEF Answers, InHand, Serving
  <2> QED
    BY <2>1, FS_EmptySet DEF CountInv
<1> QED
  BY <1>1, <1>2, <1>3, <1>4 DEF Inv

\* The connections of the service keep the invariant at every step.
THEOREM Invariance == Spec => []Inv
<1>1. Inv /\ [Next]_vars => Inv'
  BY TypePreserved, ConnPreserved, MutexPreserved, PipePreserved, AskedPreserved,
     SubPreserved, CountPreserved, AskerPreserved DEF Inv
<1> QED
  BY InitInv, <1>1, PTL DEF Spec

\* The variables keep their types: no socket overflows, and whoever sends an answer
\* has one to send.
THEOREM TypeCorrect == Spec => []TypeOK
BY Invariance, PTL DEF Inv

\* The answer a client gets is the answer to a request of its own: GetEventResult
\* takes the next answer of sendMessage without looking whose it is, and finds no other.
THEOREM AnswersReachAskers == Spec => []AnswerReachesAsker
BY Invariance, PTL DEF Inv

\* A client never has more requests and answers under way than it waits for.
THEOREM EachAnsweredOnce == Spec => []AnsweredOnce
<1>1. Inv => AnsweredOnce
  <2> SUFFICES ASSUME Inv, NEW c \in Clients, state[c] \in {"backlog", "connected"}
               PROVE  Len(toServer[c]) + Cardinality({k \in DOMAIN toClient[c] :
                        toClient[c][k].kind = "answer"})
                        + (IF efd # Nobody /\ holder[efd] = c /\ epc \in {"answer", "lock", "send"}
                           THEN 1 ELSE 0) <= pending[c]
    BY DEF AnsweredOnce
  <2>1. Answers(toClient[c]) = {k \in DOMAIN toClient[c] : toClient[c][k].kind = "answer"}
    BY DEF Answers, Inv, TypeOK
  <2>2. InHand(c) = IF efd # Nobody /\ holder[efd] = c /\ epc \in {"answer", "lock", "send"}
                    THEN 1 ELSE 0
    BY DEF InHand, Serving, Inv, TypeOK
  <2>3. Len(toServer[c]) + Cardinality(Answers(toClient[c])) + InHand(c) <= pending[c]
    BY DEF Inv, CountInv
  <2> QED
    BY <2>1, <2>2, <2>3
<1> QED
  BY Invariance, <1>1, PTL

\* A subscription whose client no longer holds the descriptor is about to be ended by
\* the UNSUBSCRIBE that CloseConn pushed.
THEOREM NoGhosts == Spec => []NoGhostSubscription
<1>1. Inv => recvMessage \in Seq(Events) /\ GhostInv
  BY DEF Inv, TypeOK, SubInv
<1>2. recvMessage \in Seq(Events) => DOMAIN recvMessage = 1 .. Len(recvMessage)
  OBVIOUS
<1>3. Inv => NoGhostSubscription
  BY <1>1, <1>2 DEF GhostInv, Announced, NoGhostSubscription
<1> QED
  BY Invariance, <1>3, PTL

\* That UNSUBSCRIBE never ends the subscription of the client that has the descriptor
\* by then.
THEOREM SuccessorSpared == Spec => []ClosingSparesSuccessor
<1>1. Inv => ClosingSparesSuccessor
  <2> SUFFICES ASSUME Inv, recvMessage # <<>>, Head(recvMessage).type = "INTERNAL"
               PROVE  subscribed[Head(recvMessage).fd] \in {Nobody, Head(recvMessage).client}
    BY DEF ClosingSparesSuccessor
  <2>1. 1 \in 1 .. Len(recvMessage) /\ Head(recvMessage) = recvMessage[1]
    BY DEF Inv, TypeOK
  <2> QED
    BY <2>1 DEF Inv, SubInv, ClosedInOrder, Announced
<1> QED
  BY Invariance, <1>1, PTL

\* conns holds the descriptors that are watched, with the types of their clients, and
\* the data thread only writes to an open one.
THEOREM ConnsMatch == Spec => []ConnsMatchHolders
<1>1. Inv => ConnsMatchHolders
  BY DEF Inv, TypeOK, ConnInv, MutexInv, ConnsMatchHolders, IsConn
<1> QED
  BY Invariance, <1>1, PTL

=============================================================================
