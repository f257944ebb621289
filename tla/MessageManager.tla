--------------------------- MODULE MessageManager ---------------------------
(***************************************************************************)
(* The connections of the service: class TcpSocket, whose epoll thread     *)
(* accepts clients, reads a request, waits for its answer and sends it,    *)
(* and class TcpMessageHandler, whose second thread sends published data.  *)
(* Both use conns, which connMutex guards, and file descriptors, which the *)
(* kernel gives to the next client as soon as they are closed.             *)
(*                                                                         *)
(* The plugin manager and the scheduler (PluginManager.tla) appear as an   *)
(* abstract server: it takes events in order, keeps the descriptors that   *)
(* subscribe to the one topic there is, and publishes data for them.       *)
(***************************************************************************)
EXTENDS Integers, Sequences, FiniteSets

CONSTANTS
  Clients,        \* client processes, each with one connection
  Sdk,            \* those that bind a path first, which makes them SDK clients
  Permitted,      \* SDK clients whose path belongs to one of the groups
  Fds,            \* file descriptors
  Nobody,
  MaxAsked,       \* bound: requests of all clients
  MaxPending,     \* bound: requests of a client that wait for an answer
  MaxData,        \* bound: data in recvData
  Buffer          \* messages the socket of a client holds

ASSUME ClientsAssumption ==
  /\ Permitted \subseteq Sdk /\ Sdk \subseteq Clients
  /\ Nobody \notin Clients /\ Nobody \notin Fds
ASSUME MessageBoundsAssumption ==
  MaxAsked \in Nat /\ MaxPending \in Nat /\ MaxData \in Nat /\ Buffer \in Nat \ {0}

VARIABLES
  state,          \* of a client: "quit" if it left before it was accepted
  asked,          \* how many requests there have been
  pending,        \* requests a client waits for
  toServer,       \* requests in the socket of a client
  toClient,       \* messages in the socket to a client
  holder,         \* the client behind a descriptor, or Nobody if it is closed
  conns,          \* TcpMessageHandler::conns
  watched,        \* descriptors in the epoll set
  epc, efd,       \* the epoll thread, and the descriptor it serves
  dpc, item,      \* the data thread, and the event it took
  connMutex,      \* "free", or the thread that has it
  recvMessage, sendMessage, recvData,
  subscribed      \* by descriptor, the client whose request subscribed it

clientVars == <<state, asked, pending, toServer>>
connVars == <<holder, conns, watched>>
queueVars == <<recvMessage, sendMessage, recvData, subscribed>>
epollVars == <<epc, efd>>
dataVars == <<dpc, item>>
vars == <<state, asked, pending, toServer, toClient, holder, conns, watched, epc, efd,
          dpc, item, connMutex, recvMessage, sendMessage, recvData, subscribed>>

-----------------------------------------------------------------------------
(* Messages.  The client in an event, an answer or data is not in the      *)
(* code's: it records on whose behalf the message was made.                *)

Opts == {"SUBSCRIBE", "UNSUBSCRIBE", "QUERY"}
Request(opt, fd, c) == [opt |-> opt, fd |-> fd, client |-> c, type |-> "EXTERNAL"]
Closed(fd, c) == [opt |-> "UNSUBSCRIBE", fd |-> fd, client |-> c, type |-> "INTERNAL"]
Events == [opt : Opts, fd : Fds, client : Clients, type : {"EXTERNAL", "INTERNAL"}]
Answer(c) == [kind |-> "answer", client |-> c]
Data(c) == [kind |-> "data", client |-> c]
Messages == [kind : {"answer", "data"}, client : Clients]
ConnTypes == {"none", "cmd", "sdk", "gone"}
TypeOf(c) == IF c \in Sdk THEN "sdk" ELSE "cmd"
IsConn(fd) == conns[fd] \in {"cmd", "sdk"}

Init ==
  /\ state = [c \in Clients |-> "new"]
  /\ asked = 0 /\ pending = [c \in Clients |-> 0]
  /\ toServer = [c \in Clients |-> <<>>] /\ toClient = [c \in Clients |-> <<>>]
  /\ holder = [fd \in Fds |-> Nobody] /\ conns = [fd \in Fds |-> "none"] /\ watched = {}
  /\ epc = "wait" /\ efd = Nobody
  /\ dpc = "pop" /\ item = Nobody
  /\ connMutex = "free"
  /\ recvMessage = <<>> /\ sendMessage = <<>> /\ recvData = <<>>
  /\ subscribed = [fd \in Fds |-> Nobody]

-----------------------------------------------------------------------------
(* Clients                                                                 *)

Connect(c) ==
  /\ state[c] = "new"
  /\ state' = [state EXCEPT ![c] = "backlog"]
  /\ UNCHANGED <<asked, pending, toServer, toClient, connVars, epollVars, dataVars,
                 connMutex, queueVars>>

\* A request of the command line or of the SDK.
Ask(c, opt) ==
  /\ state[c] \in {"backlog", "connected"}
  /\ opt = "QUERY" <=> c \notin Sdk
  /\ asked < MaxAsked /\ pending[c] < MaxPending
  /\ asked' = asked + 1
  /\ pending' = [pending EXCEPT ![c] = @ + 1]
  /\ toServer' = [toServer EXCEPT ![c] = Append(@, opt)]
  /\ UNCHANGED <<state, toClient, connVars, epollVars, dataVars, connMutex, queueVars>>

Receive(c) ==
  /\ state[c] = "connected" /\ toClient[c] # <<>>
  /\ toClient' = [toClient EXCEPT ![c] = Tail(@)]
  /\ pending' = [pending EXCEPT ![c] =
                   IF Head(toClient[c]).kind = "answer" THEN @ - 1 ELSE @]
  /\ UNCHANGED <<state, asked, toServer, connVars, epollVars, dataVars, connMutex, queueVars>>

\* OeClose, the end of a command, or a crash: what is still in the socket to
\* the client is lost, what it wrote is not.
Leave(c) ==
  /\ state[c] \in {"backlog", "connected"}
  /\ state' = [state EXCEPT ![c] = IF @ = "backlog" THEN "quit" ELSE "left"]
  /\ toClient' = [toClient EXCEPT ![c] = <<>>]
  /\ UNCHANGED <<asked, pending, toServer, connVars, epollVars, dataVars, connMutex, queueVars>>

-----------------------------------------------------------------------------
(* The epoll thread                                                        *)

\* SaveConnection up to AddConn.  A connection refused for its permissions is
\* neither watched nor closed.
Accept(fd, c) ==
  /\ epc = "wait" /\ holder[fd] = Nobody
  /\ state[c] \in {"backlog", "quit"}
  /\ state' = [state EXCEPT ![c] = IF @ = "backlog" THEN "connected" ELSE "left"]
  /\ holder' = [holder EXCEPT ![fd] = c]
  /\ IF c \in Sdk \ Permitted
     THEN UNCHANGED <<watched, epc, efd>>
     ELSE watched' = watched \cup {fd} /\ epc' = "add" /\ efd' = fd
  /\ UNCHANGED <<asked, pending, toServer, toClient, conns, dataVars, connMutex, queueVars>>

AddConn ==
  /\ epc = "add" /\ connMutex = "free"
  /\ conns' = IF IsConn(efd) THEN conns
              ELSE [conns EXCEPT ![efd] = TypeOf(holder[efd])]
  /\ epc' = "wait" /\ efd' = Nobody
  /\ UNCHANGED <<clientVars, toClient, holder, watched, dataVars, connMutex, queueVars>>

\* Mutants: a request overtakes the events that are queued; a request stays in
\* the socket.
ReadFirst(fd) ==
  LET c == holder[fd]
  IN /\ epc = "wait" /\ fd \in watched /\ IsConn(fd)
     /\ toServer[c] # <<>>
     /\ recvMessage' = <<Request(Head(toServer[c]), fd, c)>> \o recvMessage
     /\ toServer' = [toServer EXCEPT ![c] = <<>>]
     /\ epc' = "answer" /\ efd' = fd
     /\ UNCHANGED <<state, asked, pending, toClient, connVars, dataVars, connMutex,
                    sendMessage, recvData, subscribed>>
ReadAgain(fd) ==
  LET c == holder[fd]
  IN /\ epc = "wait" /\ fd \in watched /\ IsConn(fd)
     /\ toServer[c] # <<>>
     /\ recvMessage' = Append(recvMessage, Request(Head(toServer[c]), fd, c))
     /\ epc' = "answer" /\ efd' = fd
     /\ UNCHANGED <<clientVars, toClient, connVars, dataVars, connMutex,
                    sendMessage, recvData, subscribed>>
\* GetMessageFromRemote and PushEvent.  The stream and its buffer live for one
\* message: whatever else the read brought in is lost with it.
Read(fd) ==
  LET c == holder[fd]
  IN /\ epc = "wait" /\ fd \in watched /\ IsConn(fd)
     /\ toServer[c] # <<>>
     /\ recvMessage' = Append(recvMessage, Request(Head(toServer[c]), fd, c))
     /\ toServer' = [toServer EXCEPT ![c] = <<>>]
     /\ epc' = "answer" /\ efd' = fd
     /\ UNCHANGED <<state, asked, pending, toClient, connVars, dataVars, connMutex,
                    sendMessage, recvData, subscribed>>

\* The client is gone: RecvMessage fails.
ReadFails(fd) ==
  /\ epc = "wait" /\ fd \in watched /\ IsConn(fd)
  /\ toServer[holder[fd]] = <<>> /\ state[holder[fd]] = "left"
  /\ epc' = "close" /\ efd' = fd
  /\ UNCHANGED <<clientVars, toClient, connVars, dataVars, connMutex, queueVars>>

\* GetEventResult, and connMutex for an SDK connection.
TakeAnswer ==
  /\ epc = "answer" /\ sendMessage # <<>>
  /\ epc' = IF conns[efd] = "sdk" THEN "lock" ELSE "send"
  /\ UNCHANGED <<clientVars, toClient, connVars, efd, dataVars, connMutex, queueVars>>
Lock ==
  /\ epc = "lock" /\ connMutex = "free"
  /\ connMutex' = "epoll"
  /\ epc' = "send"
  /\ UNCHANGED <<clientVars, toClient, connVars, efd, dataVars, queueVars>>

\* SendMessage blocks while the socket is full.  To a client that has left it
\* fails with -1, which it returns as true.
Delivered(fd, m) ==
  LET c == holder[fd]
  IN \/ state[c] = "left" /\ UNCHANGED toClient
     \/ /\ state[c] # "left" /\ Len(toClient[c]) < Buffer
        /\ toClient' = [toClient EXCEPT ![c] = Append(@, m)]
SendAnswer ==
  /\ epc = "send"
  /\ Delivered(efd, Head(sendMessage))
  /\ sendMessage' = Tail(sendMessage)
  /\ connMutex' = IF connMutex = "epoll" THEN "free" ELSE connMutex
  /\ epc' = "wait" /\ efd' = Nobody
  /\ UNCHANGED <<clientVars, connVars, dataVars, recvMessage, recvData, subscribed>>

\* Mutant: a connection that closes does not unsubscribe.
CloseConnSilent ==
  /\ epc = "close" /\ connMutex = "free"
  /\ recvMessage' = IF conns[efd] = "cmd" THEN Append(recvMessage, Closed(efd, holder[efd]))
                                          ELSE recvMessage
  /\ conns' = [conns EXCEPT ![efd] = "gone"]
  /\ epc' = "shut"
  /\ UNCHANGED <<clientVars, toClient, holder, watched, efd, dataVars, connMutex, sendMessage,
                 recvData, subscribed>>
CloseConn ==
  /\ epc = "close" /\ connMutex = "free"
  /\ recvMessage' = IF conns[efd] = "sdk" THEN Append(recvMessage, Closed(efd, holder[efd]))
                                          ELSE recvMessage
  /\ conns' = [conns EXCEPT ![efd] = "gone"]
  /\ epc' = "shut"
  /\ UNCHANGED <<clientVars, toClient, holder, watched, efd, dataVars, connMutex, sendMessage,
                 recvData, subscribed>>
\* EventCtl and close: from now on the kernel may use the descriptor again.
Close ==
  /\ epc = "shut"
  /\ watched' = watched \ {efd}
  /\ holder' = [holder EXCEPT ![efd] = Nobody]
  /\ epc' = "wait" /\ efd' = Nobody
  /\ UNCHANGED <<clientVars, toClient, conns, dataVars, connMutex, queueVars>>

EpollThread ==
  \/ \E fd \in Fds : (\E c \in Clients : Accept(fd, c)) \/ Read(fd) \/ ReadFails(fd)
  \/ AddConn \/ TakeAnswer \/ Lock \/ SendAnswer \/ CloseConn \/ Close

-----------------------------------------------------------------------------
(* The data thread                                                         *)

TakeData ==
  /\ dpc = "pop" /\ recvData # <<>>
  /\ item' = Head(recvData)
  /\ recvData' = Tail(recvData)
  /\ dpc' = "check"
  /\ UNCHANGED <<clientVars, toClient, connVars, epollVars, connMutex, recvMessage,
                 sendMessage, subscribed>>

\* Mutants: the connection is checked without the mutex; the mutex is kept when
\* the connection is gone.
CheckUnlocked ==
  /\ dpc = "check"
  /\ IF IsConn(item.fd) THEN dpc' = "send" ELSE dpc' = "pop"
  /\ UNCHANGED <<clientVars, toClient, connVars, epollVars, item, connMutex, queueVars>>
CheckKeeping ==
  /\ dpc = "check" /\ connMutex = "free"
  /\ connMutex' = "data"
  /\ IF IsConn(item.fd) THEN dpc' = "send" ELSE dpc' = "pop"
  /\ UNCHANGED <<clientVars, toClient, connVars, epollVars, item, queueVars>>
CheckConn ==
  /\ dpc = "check" /\ connMutex = "free"
  /\ IF IsConn(item.fd) THEN dpc' = "send" /\ connMutex' = "data"
                        ELSE dpc' = "pop" /\ UNCHANGED connMutex
  /\ UNCHANGED <<clientVars, toClient, connVars, epollVars, item, queueVars>>
SendData ==
  /\ dpc = "send"
  /\ Delivered(item.fd, Data(item.client))
  /\ connMutex' = "free"
  /\ dpc' = "pop"
  /\ UNCHANGED <<clientVars, connVars, epollVars, item, queueVars>>

DataThread == TakeData \/ CheckConn \/ SendData

-----------------------------------------------------------------------------
(* The rest of the service                                                 *)

\* Mutants: the end of a connection is answered like a request; only a
\* subscription is answered.
ReplyToAll(e) == Append(sendMessage, Answer(e.client))
ReplyToSubscribe(e) ==
  IF e.opt = "SUBSCRIBE" THEN Append(sendMessage, Answer(e.client)) ELSE sendMessage
Reply(e) == IF e.type = "EXTERNAL" THEN Append(sendMessage, Answer(e.client)) ELSE sendMessage

\* A subscription may be refused; everything else is done as asked.
Serve ==
  LET e == Head(recvMessage)
  IN /\ recvMessage # <<>>
     /\ recvMessage' = Tail(recvMessage)
     /\ sendMessage' = Reply(e)
     /\ subscribed' \in
          CASE e.opt = "SUBSCRIBE"   -> {subscribed, [subscribed EXCEPT ![e.fd] = e.client]}
            [] e.opt = "UNSUBSCRIBE" -> {[subscribed EXCEPT ![e.fd] = Nobody]}
            [] OTHER                 -> {subscribed}
     /\ UNCHANGED <<clientVars, toClient, connVars, epollVars, dataVars, connMutex, recvData>>
Publish(fd) ==
  /\ subscribed[fd] # Nobody /\ Len(recvData) < MaxData
  /\ recvData' = Append(recvData, [fd |-> fd, client |-> subscribed[fd]])
  /\ UNCHANGED <<clientVars, toClient, connVars, epollVars, dataVars, connMutex,
                 recvMessage, sendMessage, subscribed>>

Next ==
  \/ EpollThread \/ DataThread \/ Serve
  \/ \E fd \in Fds : Publish(fd)
  \/ \E c \in Clients : \/ Connect(c) \/ Receive(c) \/ Leave(c)
                         \/ \E opt \in Opts : Ask(c, opt)
\* The service's threads run, a client that is there reads what it is sent, and a
\* thread that waits for connMutex gets it: the other one frees it after each send.
Spec ==
  /\ Init /\ [][Next]_vars
  /\ WF_vars(EpollThread) /\ WF_vars(DataThread) /\ WF_vars(Serve)
  /\ SF_vars(AddConn \/ Lock \/ CloseConn) /\ SF_vars(CheckConn)
  /\ \A c \in Clients : WF_vars(Receive(c))

-----------------------------------------------------------------------------
(* Invariants                                                              *)

\* The types of the variables; no socket holds more than it has room for, and
\* whoever sends an answer has one to send.
TypeOK ==
  /\ state \in [Clients -> {"new", "backlog", "quit", "connected", "left"}]
  /\ asked \in 0 .. MaxAsked /\ pending \in [Clients -> 0 .. MaxPending]
  /\ toServer \in [Clients -> Seq(Opts)] /\ toClient \in [Clients -> Seq(Messages)]
  /\ \A c \in Clients : Len(toClient[c]) <= Buffer
  /\ holder \in [Fds -> Clients \cup {Nobody}] /\ conns \in [Fds -> ConnTypes]
  /\ watched \subseteq Fds
  /\ epc \in {"wait", "add", "answer", "lock", "send", "close", "shut"}
  /\ efd \in Fds \cup {Nobody} /\ (epc = "wait" <=> efd = Nobody)
  /\ epc \in {"lock", "send"} => sendMessage # <<>>
  /\ dpc \in {"pop", "check", "send"}
  /\ item \in [fd : Fds, client : Clients] \cup {Nobody}
  /\ connMutex \in {"free", "epoll", "data"}
  /\ recvMessage \in Seq(Events) /\ sendMessage \in Seq(Messages)
  /\ recvData \in Seq([fd : Fds, client : Clients])
  /\ subscribed \in [Fds -> Clients \cup {Nobody}]

\* The answer a client gets is the answer to a request of its own, although
\* GetEventResult takes the next answer of the queue without looking whose it
\* is, and connections end, and their events are served, in between.
AnswerReachesAsker ==
  \A c \in Clients : \A k \in DOMAIN toClient[c] :
    toClient[c][k].kind = "answer" => toClient[c][k].client = c

\* Requests that were lost in a read with others are never made up for: a client
\* has no more requests and answers under way than it waits for, so an answer
\* never finds a client that expects none.
AnsweredOnce ==
  \A c \in Clients : state[c] \in {"backlog", "connected"} =>
    LET InHand == efd # Nobody /\ holder[efd] = c /\ epc \in {"answer", "lock", "send"}
        Arrived == {k \in DOMAIN toClient[c] : toClient[c][k].kind = "answer"}
    IN Len(toServer[c]) + Cardinality(Arrived) + (IF InHand THEN 1 ELSE 0) <= pending[c]

\* A descriptor stays subscribed for a client that no longer holds it only until
\* the UNSUBSCRIBE that CloseConn pushed is served.
NoGhostSubscription ==
  \A fd \in Fds : subscribed[fd] \notin {Nobody, holder[fd]} =>
    \E k \in DOMAIN recvMessage : recvMessage[k] = Closed(fd, subscribed[fd])

\* That UNSUBSCRIBE names a descriptor only, which a new client may have by the
\* time it is served: it never ends the new client's subscription.
ClosingSparesSuccessor ==
  recvMessage # <<>> /\ Head(recvMessage).type = "INTERNAL"
  => subscribed[Head(recvMessage).fd] \in {Nobody, Head(recvMessage).client}

\* conns tells who is behind a descriptor.  Between two events of the epoll
\* thread it holds exactly the descriptors that are watched, each with the type
\* of the client that holds it now; and what the data thread found in it under
\* connMutex is still so when it writes, so that it never writes to a closed one.
ConnsMatchHolders ==
  /\ epc = "wait" => \A fd \in Fds :
       /\ fd \in watched <=> IsConn(fd)
       /\ fd \in watched => holder[fd] # Nobody /\ conns[fd] = TypeOf(holder[fd])
  /\ dpc = "send" => IsConn(item.fd) /\ holder[item.fd] # Nobody

-----------------------------------------------------------------------------
(* Liveness                                                                *)

Admitted == Permitted \cup (Clients \ Sdk)

\* A client that is admitted, asks one thing at a time and stays is answered,
\* however much data is published in the meantime.
Answered ==
  \A c \in Admitted :
    (pending[c] > 0) ~> (pending[c] = 0 \/ state[c] \in {"quit", "left"})

\* The descriptor of an admitted client that has left is closed and free again.
DescriptorReclaimed ==
  \A c \in Admitted : \A fd \in Fds :
    (holder[fd] = c /\ state[c] = "left") ~> (holder[fd] # c)

-----------------------------------------------------------------------------
(* What the documentation says and the code does not do                    *)

\* The design document says that data of a topic is pushed to the SDK client
\* that subscribes to it; Start sends it to whoever has the descriptor now.
DataOnlyToSubscriber ==
  \A c \in Clients : \A k \in DOMAIN toClient[c] :
    toClient[c][k].kind = "data" => toClient[c][k].client = c
=============================================================================
