----------------------------- MODULE SdkClient ------------------------------
(***************************************************************************)
(* The SDK (oe_client.cpp): the threads of an application call Subscribe,  *)
(* Unsubscribe, Publish and Close, each of the first three under a mutex   *)
(* of its own; a detached receiving thread (HandleRecv) moves the answers  *)
(* of the server into the one resultQueue, and runs the callbacks of       *)
(* topicHandle for data.  A caller takes the first result there is, and    *)
(* gives up after the 15 seconds of WaitTimeAndPop.                        *)
(*                                                                         *)
(* topicHandle has no lock.  A look-up in it and a change of a list in it  *)
(* are single steps here; what a look-up during a rehash of the map would  *)
(* do is left out.                                                         *)
(*                                                                         *)
(* The server behind the socket is MessageManager's: one request is read   *)
(* at a time and answered before the next, and whatever came with it in    *)
(* the same read is lost.                                                  *)
(***************************************************************************)
EXTENDS Integers, Sequences, FiniteSets

CONSTANTS
  Threads,        \* threads of the application
  Receiver,       \* the thread of HandleRecv, which calls the SDK in callbacks
  Topics,
  OnceTopics,     \* topics of run-once collectors: one data, then forgotten
  CallbackOpts,   \* what a callback may call
  NoCall,
  MaxCalls,       \* bound: calls of Subscribe, Unsubscribe and Publish
  MaxData,        \* bound: data the server publishes
  MaxInits        \* bound: calls of Init

Opts == {"SUBSCRIBE", "UNSUBSCRIBE", "PUBLISH"}
Callers == Threads \cup {Receiver}

ASSUME SdkAssumption ==
  /\ Receiver \notin Threads /\ CallbackOpts \subseteq Opts
  /\ Topics # {} /\ OnceTopics \subseteq Topics
  /\ NoCall \notin [opt : Opts, topic : Topics, code : {"none", "ok", "failed"}]
ASSUME SdkBoundsAssumption == MaxCalls \in Nat /\ MaxData \in Nat /\ MaxInits \in Nat

VARIABLES
  session,      \* "none", "failed" (Init returned -1) or "open"
  stream,       \* socketStream is not null
  finished, isQuit,
  calls,        \* what each thread does
  topicHandle,  \* length of the callback list of a topic; below 0 it is corrupt
  resultQueue,
  rpc,          \* the receiving thread: "none", "check", "read" or "handle"
  handling,     \* the list it runs: its topic, callbacks left, changed meanwhile
  toServer, toClient, up,                \* the socket, and the server behind it
  subs, accepted, \* topics it publishes to us, and those it answered it would
  asked, published, inits,               \* counters
  trust,        \* no call gave up or overlapped another in this session
  returned,     \* the call that returned last, with the code it returned
  crashed       \* the process ran into undefined behaviour and died

callVars == <<calls, topicHandle, resultQueue, trust, returned>>
sessionVars == <<session, stream, finished, isQuit, inits>>
recvVars == <<rpc, handling>>
serverVars == <<toServer, toClient, subs, accepted, up, published>>
vars == <<session, stream, finished, isQuit, calls, topicHandle, resultQueue, rpc, handling,
          toServer, toClient, subs, accepted, up, asked, published, inits, trust, returned, crashed>>

-----------------------------------------------------------------------------
(* A request and its answer carry the number of the call they belong to,   *)
(* which the messages of the code do not have.                             *)

Requests == [opt : Opts, topic : Topics, id : 1..MaxCalls]
Answers == [kind : {"answer"}, id : 1..MaxCalls, code : {"ok", "failed"}]
Datas == [kind : {"data"}, topic : Topics]
Idle == [pc |-> "idle", opt |-> "PUBLISH", topic |-> CHOOSE t \in Topics : TRUE, id |-> 0,
         from |-> 0, code |-> "none"]
CallRecords ==
  [pc : {"idle", "lock", "wait", "got", "close"}, opt : Opts, topic : Topics,
   id : 0..MaxCalls, from : 0..MaxCalls, code : {"none", "ok", "failed"}]
NotHandling == [topic |-> CHOOSE t \in Topics : TRUE, left |-> 0, stale |-> FALSE]

Init ==
  /\ session = "none" /\ stream = FALSE /\ finished = FALSE /\ isQuit = FALSE
  /\ calls = [c \in Callers |-> Idle]
  /\ topicHandle = [t \in Topics |-> 0] /\ resultQueue = <<>>
  /\ rpc = "none" /\ handling = NotHandling
  /\ toServer = <<>> /\ toClient = <<>> /\ subs = {} /\ accepted = {}
  /\ up = TRUE
  /\ asked = 0 /\ published = 0 /\ inits = 0
  /\ trust = TRUE /\ returned = NoCall /\ crashed = FALSE

\* The calls that hold their mutex.
InCall(c) == calls[c].pc \in {"wait", "got"}
Quiet == \A c \in Callers : calls[c].pc = "idle"

-----------------------------------------------------------------------------
(* Init and Close.  An application calls Init before its other calls.      *)

\* Init does not clear topicHandle: a list that a call corrupted when Close took
\* the callbacks from under it stays corrupt in the next session.
InitOk ==
  /\ session # "open" /\ Quiet /\ inits < MaxInits
  /\ session' = "open" /\ stream' = TRUE /\ finished' = FALSE /\ isQuit' = FALSE
  /\ inits' = inits + 1
  /\ resultQueue' = <<>> /\ rpc' = "check"
  /\ toServer' = <<>> /\ toClient' = <<>> /\ subs' = {} /\ accepted' = {}
  /\ up' = TRUE
  /\ trust' = (\A t \in Topics : topicHandle[t] = 0) /\ returned' = NoCall
  /\ UNCHANGED <<calls, topicHandle, handling, asked, published, crashed>>

\* No socket, or a socket that could not be bound or connected: there is no
\* receiving thread.  socketStream is set before Bind and Connect.
InitFails ==
  /\ session # "open" /\ Quiet /\ inits < MaxInits
  /\ session' = "failed" /\ finished' = FALSE /\ isQuit' = FALSE
  /\ stream' \in {stream, TRUE}
  /\ inits' = inits + 1 /\ resultQueue' = <<>>
  /\ UNCHANGED <<calls, topicHandle, recvVars, serverVars, asked, trust, returned, crashed>>

CloseBegins(c) ==
  /\ calls[c].pc = "idle" /\ session # "none" /\ \A d \in Callers : calls[d].pc # "close"
  /\ calls' = [calls EXCEPT ![c].pc = "close"]
  /\ finished' = TRUE
  /\ UNCHANGED <<session, stream, isQuit, inits, topicHandle, resultQueue, trust, returned,
                 recvVars, serverVars, asked, crashed>>

\* Close waits for the receiving thread.  A call that waits on the queue that
\* is then destroyed may go on until it gives up, or use freed memory.
CloseEnds(c) ==
  /\ calls[c].pc = "close" /\ isQuit
  /\ calls' = [calls EXCEPT ![c] = Idle]
  /\ session' = "none" /\ stream' = FALSE /\ resultQueue' = <<>>
  /\ topicHandle' = [t \in Topics |-> 0]
  /\ toServer' = <<>> /\ toClient' = <<>> /\ subs' = {} /\ accepted' = {}
  /\ trust' = (trust /\ \A d \in Callers : ~InCall(d))
  /\ returned' = NoCall
  /\ crashed' \in IF \E d \in Callers : calls[d].pc = "wait" THEN BOOLEAN ELSE {FALSE}
  /\ UNCHANGED <<finished, isQuit, inits, recvVars, up, asked, published>>

-----------------------------------------------------------------------------
(* A call of Subscribe, Unsubscribe or Publish                             *)

Begins(c, opt, t) ==
  /\ calls[c].pc = "idle" /\ asked < MaxCalls /\ session # "none"
  /\ asked' = asked + 1
  /\ calls' = [calls EXCEPT ![c] = [Idle EXCEPT !.pc = "lock", !.opt = opt, !.topic = t,
                                                !.id = asked + 1]]
  /\ UNCHANGED <<sessionVars, topicHandle, resultQueue, trust, returned, recvVars, serverVars,
                 crashed>>

\* A callback list that changes while the receiving thread runs it is stale.
Touched(t) ==
  IF rpc = "handle" /\ handling.topic = t THEN [handling EXCEPT !.stale = TRUE] ELSE handling

\* subMutex, unsubMutex and pubMutex.
MutexFree(opt) == \A d \in Callers : InCall(d) => calls[d].opt # opt

\* The mutex, the callback of Subscribe, and SendMessage, whose result
\* HandleRequest ignores.  Without a stream the request fails at once.
Sends(c) ==
  LET call == calls[c]
      subscribe == call.opt = "SUBSCRIBE"
  IN /\ call.pc = "lock" /\ MutexFree(call.opt)
     /\ topicHandle' = IF subscribe THEN [topicHandle EXCEPT ![call.topic] = @ + 1]
                       ELSE topicHandle
     /\ handling' = IF subscribe THEN Touched(call.topic) ELSE handling
     /\ crashed' = (subscribe /\ topicHandle[call.topic] < 0)
     /\ calls' = [calls EXCEPT ![c] = IF stream THEN [@ EXCEPT !.pc = "wait"]
                                      ELSE [@ EXCEPT !.pc = "got", !.code = "failed"]]
     /\ toServer' = IF session = "open" /\ up
                    THEN Append(toServer, [opt |-> call.opt, topic |-> call.topic, id |-> call.id])
                    ELSE toServer
     /\ trust' = (trust /\ \A d \in Callers \ {c} : ~InCall(d))
     /\ returned' = NoCall
     /\ UNCHANGED <<sessionVars, rpc, resultQueue, toClient, subs, accepted, up,
                    published, asked>>

\* Mutant: the front of the queue is copied and not popped.
PopKeeping(c) ==
  /\ calls[c].pc = "wait" /\ resultQueue # <<>>
  /\ calls' = [calls EXCEPT ![c].pc = "got", ![c].from = Head(resultQueue).id,
                            ![c].code = Head(resultQueue).code]
  /\ UNCHANGED <<sessionVars, topicHandle, resultQueue, trust, returned, recvVars, serverVars,
                 asked, crashed>>

\* WaitTimeAndPop: the result at the front of the queue, whoever it is for.
WaitTimeAndPop(c) ==
  /\ calls[c].pc = "wait" /\ resultQueue # <<>>
  /\ calls' = [calls EXCEPT ![c].pc = "got", ![c].from = Head(resultQueue).id,
                            ![c].code = Head(resultQueue).code]
  /\ resultQueue' = Tail(resultQueue)
  /\ UNCHANGED <<sessionVars, topicHandle, trust, returned, recvVars, serverVars, asked, crashed>>

\* Mutant: WaitAndPop, which waits for ever.
NeverTimesOut(c) == FALSE

TimesOut(c) ==
  /\ calls[c].pc = "wait" /\ resultQueue = <<>>
  /\ calls' = [calls EXCEPT ![c].pc = "got", ![c].code = "failed"]
  /\ trust' = FALSE
  /\ UNCHANGED <<sessionVars, topicHandle, resultQueue, returned, recvVars, serverVars, asked,
                 crashed>>

\* Mutants: a failed Subscribe keeps its callback; any failed call pops one.
NeverPops(call) == FALSE
AlwaysPops(call) == call.code = "failed"

\* What the call does with its result; pop_back of an empty list is undefined
\* and leaves it with the length -1.
Pops(call) == call.opt = "SUBSCRIBE" /\ call.code = "failed"
Erases(call) == call.opt = "UNSUBSCRIBE" /\ call.code = "ok"

Returns(c) ==
  LET call == calls[c]
  IN /\ call.pc = "got"
     /\ topicHandle' = [topicHandle EXCEPT ![call.topic] =
                          IF Pops(call) THEN @ - 1 ELSE IF Erases(call) THEN 0 ELSE @]
     /\ handling' = IF Pops(call) \/ Erases(call) THEN Touched(call.topic) ELSE handling
     /\ returned' = IF trust THEN [opt |-> call.opt, topic |-> call.topic, code |-> call.code]
                    ELSE NoCall
     /\ calls' = [calls EXCEPT ![c] = Idle]
     /\ UNCHANGED <<sessionVars, rpc, resultQueue, trust, serverVars, asked, crashed>>

-----------------------------------------------------------------------------
(* HandleRecv                                                              *)

RecvCheck ==
  /\ rpc = "check"
  /\ rpc' = IF finished THEN "none" ELSE "read"
  /\ isQuit' = finished
  /\ UNCHANGED <<session, stream, finished, inits, callVars, handling, serverVars, asked, crashed>>

\* RecvMessage gives up after a second, or at once if the server is gone.
RecvNothing ==
  /\ rpc = "read" /\ toClient = <<>>
  /\ rpc' = "check"
  /\ UNCHANGED <<sessionVars, callVars, handling, serverVars, asked, crashed>>

RecvResult ==
  /\ rpc = "read" /\ toClient # <<>> /\ Head(toClient).kind = "answer"
  /\ resultQueue' = Append(resultQueue, Head(toClient))
  /\ toClient' = Tail(toClient)
  /\ rpc' = "check"
  /\ UNCHANGED <<sessionVars, calls, topicHandle, trust, returned, handling, toServer, subs,
                 accepted, up, published, asked, crashed>>

\* A corrupt list is run until it crashes.
RecvData ==
  /\ rpc = "read" /\ toClient # <<>> /\ Head(toClient).kind = "data"
  /\ LET t == Head(toClient).topic
     IN /\ handling' = [topic |-> t, left |-> topicHandle[t], stale |-> FALSE]
        /\ crashed' = (topicHandle[t] < 0)
  /\ rpc' = "handle" /\ toClient' = Tail(toClient)
  /\ UNCHANGED <<sessionVars, callVars, toServer, subs, accepted, up, published, asked>>

\* A callback returns.  If the list changed under the iteration, what is left
\* of it is in freed memory: the old callbacks, or anything.
Callback ==
  /\ rpc = "handle" /\ handling.left > 0 /\ calls[Receiver].pc = "idle"
  /\ handling' = [handling EXCEPT !.left = @ - 1]
  /\ crashed' \in IF handling.stale THEN BOOLEAN ELSE {FALSE}
  /\ UNCHANGED <<sessionVars, callVars, rpc, serverVars, asked>>

CallbackCalls(opt, t) ==
  /\ rpc = "handle" /\ handling.left > 0
  /\ Begins(Receiver, opt, t)

Handled ==
  /\ rpc = "handle" /\ handling.left = 0 /\ calls[Receiver].pc = "idle"
  /\ rpc' = "check" /\ handling' = NotHandling
  /\ UNCHANGED <<sessionVars, callVars, serverVars, asked, crashed>>

-----------------------------------------------------------------------------
(* The server                                                              *)

Answer(id, code) == [kind |-> "answer", id |-> id, code |-> code]

\* What a request makes of the topics in S.
Applied(r, S) ==
  CASE r.opt = "SUBSCRIBE" -> S \cup {r.topic}
    [] r.opt = "UNSUBSCRIBE" -> S \ {r.topic}
    [] OTHER -> S

\* The first request is answered; of those that were sent before it was read,
\* a number is read with it and lost.  A subscription that joins an open topic
\* and an unsubscription take effect, but their code is never assigned: see
\* ReportsSuccess in InstanceRunHandler.tla.
Serve ==
  /\ up /\ toServer # <<>>
  /\ \E lost \in 0..(Len(toServer) - 1) :
        toServer' = SubSeq(toServer, 2 + lost, Len(toServer))
  /\ LET r == Head(toServer)
     IN \/ /\ toClient' = Append(toClient, Answer(r.id, "ok"))
           /\ subs' = Applied(r, subs) /\ accepted' = Applied(r, accepted)
        \/ /\ toClient' = Append(toClient, Answer(r.id, "failed"))
           /\ subs' \in {Applied(r, subs)} \cup IF r.opt = "UNSUBSCRIBE" THEN {} ELSE {subs}
           /\ UNCHANGED accepted
  /\ UNCHANGED <<sessionVars, callVars, recvVars, up, published, asked, crashed>>

Publishes(t) ==
  /\ up /\ t \in subs /\ published < MaxData
  /\ published' = published + 1
  /\ toClient' = Append(toClient, [kind |-> "data", topic |-> t])
  /\ subs' = subs \ ({t} \cap OnceTopics) /\ accepted' = accepted \ ({t} \cap OnceTopics)
  /\ UNCHANGED <<sessionVars, callVars, recvVars, toServer, up, asked, crashed>>

Stops ==
  /\ up /\ up' = FALSE
  /\ toServer' = <<>> /\ subs' = {} /\ accepted' = {}
  /\ UNCHANGED <<sessionVars, callVars, recvVars, toClient, published, asked, crashed>>

-----------------------------------------------------------------------------
Caller(c) ==
  Sends(c) \/ WaitTimeAndPop(c) \/ TimesOut(c) \/ Returns(c) \/ CloseEnds(c)

HandleRecv ==
  \/ RecvCheck \/ RecvNothing \/ RecvResult \/ RecvData \/ Callback \/ Handled

Application ==
  \/ InitOk \/ InitFails
  \/ \E c \in Threads : \/ CloseBegins(c)
                        \/ \E opt \in Opts, t \in Topics : Begins(c, opt, t)
  \/ \E opt \in CallbackOpts, t \in Topics : CallbackCalls(opt, t)

Next ==
  /\ ~crashed
  /\ \/ \E c \in Callers : Caller(c)
     \/ HandleRecv
     \/ Application
     \/ Serve \/ Stops
     \/ \E t \in Topics : Publishes(t)

\* Threads run, and the 15 seconds of a waiting call and the second of a read
\* pass; the server owes nothing.
Spec ==
  /\ Init /\ [][Next]_vars
  /\ \A c \in Callers : WF_vars(~crashed /\ Caller(c))
  /\ WF_vars(~crashed /\ HandleRecv)

-----------------------------------------------------------------------------
(* Properties                                                              *)

TypeOK ==
  /\ session \in {"none", "failed", "open"}
  /\ stream \in BOOLEAN /\ finished \in BOOLEAN /\ isQuit \in BOOLEAN
  /\ calls \in [Callers -> CallRecords]
  /\ topicHandle \in [Topics -> Int]
  /\ resultQueue \in Seq(Answers)
  /\ rpc \in {"none", "check", "read", "handle"}
  /\ handling \in [topic : Topics, left : Int, stale : BOOLEAN]
  /\ toServer \in Seq(Requests) /\ toClient \in Seq(Answers \cup Datas)
  /\ subs \subseteq Topics /\ accepted \subseteq Topics /\ up \in BOOLEAN
  /\ asked \in 0..MaxCalls /\ published \in 0..MaxData /\ inits \in 0..MaxInits
  /\ trust \in BOOLEAN /\ crashed \in BOOLEAN
  /\ returned \in {NoCall} \cup [opt : Opts, topic : Topics, code : {"ok", "failed"}]

\* The callbacks are those of the topics that the server answered it would
\* publish: Subscribe registers its callback before it asks and withdraws it
\* when refused, Unsubscribe erases only when accepted.  It lasts until a call
\* gives up (oe_client.cpp:137) or two calls overlap.
HandlersMatchAnswers ==
  trust /\ session = "open" /\ up /\ (\A c \in Callers : ~InCall(c)) =>
    \A t \in Topics : /\ t \in accepted => topicHandle[t] > 0
                      /\ topicHandle[t] > 0 => t \in accepted \cup OnceTopics

\* The process dies only of calls that overlap, of a call that gave up, or of
\* a call that changes the callbacks of a topic while HandleRecv runs them:
\* pop_back never meets a list that it does not own.
CrashNeedsOverlap == crashed => ~trust \/ handling.stale

\* A Subscribe that returns 0 was accepted by the server: the answer it took is
\* its own.  Fails, because the three mutexes share one queue.
ZeroMeansSubscribed ==
  \A c \in Callers :
    calls[c].pc = "got" /\ calls[c].opt = "SUBSCRIBE" /\ calls[c].code = "ok" =>
      calls[c].from = calls[c].id

\* Every call returns: also the call of a callback, whose answer only its own
\* thread could receive, the call that waits for the mutex of another, and the
\* Close of a session that Init opened, whatever callback HandleRecv is in.
CallReturns ==
  /\ \A c \in Callers : calls[c].pc \in {"lock", "wait", "got"} ~> calls[c].pc = "idle" \/ crashed
  /\ \A c \in Threads :
       calls[c].pc = "close" /\ session = "open" ~> calls[c].pc = "idle" \/ crashed

-----------------------------------------------------------------------------
(* Refinement                                                              *)

\* What the server decided about call number id, wherever its answer now is.
AnswersTo(id) ==
  {toClient[i] : i \in {j \in DOMAIN toClient :
                           toClient[j].kind = "answer" /\ toClient[j].id = id}}
    \cup {resultQueue[i] : i \in {j \in DOMAIN resultQueue : resultQueue[j].id = id}}
Decided(c) ==
  LET call == calls[c]
  IN IF call.pc = "got" /\ call.from \in {0, call.id} THEN call.code
     ELSE IF AnswersTo(call.id) # {} THEN (CHOOSE a \in AnswersTo(call.id) : TRUE).code
     ELSE "none"

\* The call in progress, as SdkPromise sees it.
CurrentCall ==
  IF trust /\ \E c \in Callers : InCall(c)
  THEN LET c == CHOOSE c \in Callers : InCall(c)
       IN [opt |-> calls[c].opt, topic |-> calls[c].topic, code |-> Decided(c)]
  ELSE NoCall

Promise == INSTANCE SdkPromise WITH
  call <- CurrentCall,
  returned <- IF trust THEN returned ELSE NoCall,
  accepted <- IF trust THEN accepted ELSE {},
  trust <- trust

\* While calls neither overlap nor give up, the SDK is a correct synchronous
\* call: each returns what the server decided about it, once.
ImplementsPromise == Promise!Spec
=============================================================================
