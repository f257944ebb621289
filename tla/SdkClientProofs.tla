-------------------------- MODULE SdkClientProofs ---------------------------
(***************************************************************************)
(* What the SDK keeps for any number of threads, topics and calls.  The    *)
(* argument follows the one request of the call in progress: as long as no *)
(* call overlapped another or gave up, there is at most one request or     *)
(* answer between a caller and the server, and it belongs to that call.    *)
(***************************************************************************)
EXTENDS SdkClient, SequenceTheorems, TLAPS

\* The answers among the messages on their way to the client.
Answered(q) == {n \in 1..Len(q) : q[n].kind = "answer"}

\* What the fields of a call hold at each point of it.
CallInv ==
  /\ \A c \in Callers :
       /\ calls[c].pc \in {"lock", "wait", "got"} => calls[c].id \in 1..MaxCalls
       /\ calls[c].pc \in {"lock", "wait"} => calls[c].from = 0
       /\ calls[c].pc = "got" => calls[c].code \in {"ok", "failed"}
  /\ session = "open" => stream

\* Where the one request of call c, or its answer, is.
Unsent    == toServer = <<>> /\ Answered(toClient) = {} /\ resultQueue = <<>>
AtServer(c) ==
  /\ toServer = <<[opt |-> calls[c].opt, topic |-> calls[c].topic, id |-> calls[c].id]>>
  /\ Answered(toClient) = {} /\ resultQueue = <<>>
OnTheWay(c) ==
  /\ toServer = <<>> /\ resultQueue = <<>>
  /\ \E n \in 1..Len(toClient) : Answered(toClient) = {n} /\ toClient[n].id = calls[c].id
Delivered(c) ==
  /\ toServer = <<>> /\ Answered(toClient) = {}
  /\ \E x \in Answers : resultQueue = <<x>> /\ x.id = calls[c].id
FlightInv ==
  trust =>
    /\ \A c, d \in Callers : InCall(c) /\ InCall(d) => c = d
    /\ (\A c \in Callers : ~InCall(c)) => Unsent
    /\ \A c \in Callers : calls[c].pc = "got" => Unsent /\ calls[c].from \in {0, calls[c].id}
    /\ \A c \in Callers : calls[c].pc = "wait" =>
         Unsent \/ AtServer(c) \/ OnTheWay(c) \/ Delivered(c)

\* The callbacks of topic t, but for one that the call in progress has
\* registered and may have to withdraw, are those of an accepted topic; a call
\* that the server has accepted may still have to erase them.
Registering(t) == CurrentCall # NoCall /\ CurrentCall.opt = "SUBSCRIBE" /\ CurrentCall.topic = t
Erasing(t) ==
  CurrentCall # NoCall /\ CurrentCall.opt = "UNSUBSCRIBE" /\ CurrentCall.topic = t /\ CurrentCall.code = "ok"
Kept(t) ==
  IF Registering(t) /\ CurrentCall.code # "ok" THEN topicHandle[t] - 1 ELSE topicHandle[t]
HandleInv ==
  trust =>
    \A t \in Topics :
      /\ topicHandle[t] >= 0 /\ (Registering(t) => topicHandle[t] > 0)
      /\ session = "open" /\ up =>
           /\ t \in accepted => Kept(t) > 0 /\ ~Erasing(t)
           /\ Kept(t) > 0 => t \in accepted \cup OnceTopics \/ Erasing(t)

SdkInv == TypeOK /\ CallInv /\ FlightInv /\ HandleInv /\ CrashNeedsOverlap

-----------------------------------------------------------------------------
(* Type correctness                                                        *)

\* A thread that does nothing, and a receiving thread that runs no callback.
LEMMA IdleType ==
  /\ Idle \in CallRecords /\ Idle.pc = "idle" /\ Idle.id = 0
  /\ NotHandling \in [topic : Topics, left : Int, stale : BOOLEAN]
  /\ ~NotHandling.stale
  <1>1. (CHOOSE t \in Topics : TRUE) \in Topics
    BY SdkAssumption
  <1> QED  BY <1>1, SdkBoundsAssumption DEF Idle, CallRecords, NotHandling, Opts

\* Marking the callbacks of a topic as changed.
LEMMA TouchedType ==
  ASSUME TypeOK, NEW t
  PROVE  /\ Touched(t) \in [topic : Topics, left : Int, stale : BOOLEAN]
         /\ handling.stale => Touched(t).stale
  BY DEF TypeOK, Touched

\* One thread changes its call; the others keep theirs.
OthersKeep(c) == \A d \in Callers \ {c} : calls'[d] = calls[d]

LEMMA CallChanged ==
  ASSUME TypeOK, NEW c \in Callers, NEW r \in CallRecords, calls' = [calls EXCEPT ![c] = r]
  PROVE  calls' \in [Callers -> CallRecords] /\ calls'[c] = r /\ OthersKeep(c)
  BY DEF TypeOK, OthersKeep

\* A call begins.
LEMMA BeginsCall ==
  ASSUME TypeOK, NEW c \in Callers, NEW opt \in Opts, NEW t \in Topics, Begins(c, opt, t)
  PROVE  /\ calls' \in [Callers -> CallRecords] /\ OthersKeep(c)
         /\ calls[c].pc = "idle" /\ calls'[c].pc = "lock" /\ calls'[c].opt = opt
         /\ calls'[c].topic = t /\ calls'[c].id = asked + 1 /\ calls'[c].from = 0
         /\ asked' = asked + 1 /\ asked' \in 1..MaxCalls
  <1> DEFINE r == [Idle EXCEPT !.pc = "lock", !.opt = opt, !.topic = t, !.id = asked + 1]
  <1>1. asked + 1 \in 1..MaxCalls /\ asked' = asked + 1 /\ calls[c].pc = "idle"
    BY SdkBoundsAssumption DEF Begins, TypeOK
  <1>2. /\ r \in CallRecords /\ r.pc = "lock" /\ r.opt = opt /\ r.topic = t
        /\ r.id = asked + 1 /\ r.from = 0
    <2>1. Idle \in CallRecords /\ Idle.from = 0
      BY IdleType DEF Idle
    <2>2. asked + 1 \in 0..MaxCalls
      BY <1>1, SdkBoundsAssumption
    <2> QED  BY <2>1, <2>2 DEF CallRecords
  <1>3. calls' = [calls EXCEPT ![c] = r]
    BY DEF Begins
  <1> HIDE DEF r
  <1> QED  BY <1>1, <1>2, <1>3, CallChanged

\* A call takes its mutex and sends its request.
LEMMA SendsCall ==
  ASSUME TypeOK, NEW c \in Callers, Sends(c)
  PROVE  /\ calls' \in [Callers -> CallRecords] /\ OthersKeep(c)
         /\ calls[c].pc = "lock" /\ calls'[c].pc = (IF stream THEN "wait" ELSE "got")
         /\ calls'[c].opt = calls[c].opt /\ calls'[c].topic = calls[c].topic
         /\ calls'[c].id = calls[c].id /\ calls'[c].from = calls[c].from
         /\ calls'[c].code = (IF stream THEN calls[c].code ELSE "failed")
  <1> DEFINE r == IF stream THEN [calls[c] EXCEPT !.pc = "wait"]
                  ELSE [calls[c] EXCEPT !.pc = "got", !.code = "failed"]
  <1>1. calls[c] \in CallRecords
    BY DEF TypeOK
  <1>2. /\ r \in CallRecords /\ r.pc = (IF stream THEN "wait" ELSE "got")
        /\ r.opt = calls[c].opt /\ r.topic = calls[c].topic /\ r.id = calls[c].id
        /\ r.from = calls[c].from /\ r.code = (IF stream THEN calls[c].code ELSE "failed")
    BY <1>1 DEF CallRecords
  <1>3. calls' = [calls EXCEPT ![c] = r] /\ calls[c].pc = "lock"
    BY DEF Sends
  <1> HIDE DEF r
  <1> QED  BY <1>2, <1>3, CallChanged

\* A call takes the first result, or gives up.
LEMMA GotCall ==
  ASSUME TypeOK, NEW c \in Callers, WaitTimeAndPop(c) \/ TimesOut(c)
  PROVE  /\ calls' \in [Callers -> CallRecords] /\ OthersKeep(c)
         /\ calls[c].pc = "wait" /\ calls'[c].pc = "got"
         /\ calls'[c].opt = calls[c].opt /\ calls'[c].topic = calls[c].topic
         /\ calls'[c].id = calls[c].id /\ calls'[c].code \in {"ok", "failed"}
         /\ WaitTimeAndPop(c) => /\ Head(resultQueue) \in Answers
                                 /\ calls'[c].from = Head(resultQueue).id
                                 /\ calls'[c].code = Head(resultQueue).code
  <1> DEFINE x == Head(resultQueue)
             r == [calls[c] EXCEPT !.pc = "got", !.from = x.id, !.code = x.code]
             q == [calls[c] EXCEPT !.pc = "got", !.code = "failed"]
  <1>1. calls[c] \in CallRecords
    BY DEF TypeOK
  <1>2. CASE WaitTimeAndPop(c)
    <2>1. x \in Answers
      BY <1>2, HeadTailProperties DEF WaitTimeAndPop, TypeOK
    <2>2. x.id \in 0..MaxCalls /\ x.code \in {"ok", "failed"}
      BY <2>1, SdkBoundsAssumption DEF Answers
    <2>3. calls' = [calls EXCEPT ![c] = r] /\ calls[c].pc = "wait"
      BY <1>2, <1>1 DEF WaitTimeAndPop
    <2> HIDE DEF x
    <2>4. /\ r \in CallRecords /\ r.pc = "got" /\ r.opt = calls[c].opt
          /\ r.topic = calls[c].topic /\ r.id = calls[c].id /\ r.from = x.id /\ r.code = x.code
      BY <1>1, <2>2 DEF CallRecords
    <2> HIDE DEF r
    <2> QED  BY <2>1, <2>2, <2>3, <2>4, CallChanged DEF x
  <1>3. CASE TimesOut(c) /\ ~WaitTimeAndPop(c)
    <2>1. calls' = [calls EXCEPT ![c] = q] /\ calls[c].pc = "wait"
      BY <1>3, <1>1 DEF TimesOut
    <2>2. /\ q \in CallRecords /\ q.pc = "got" /\ q.opt = calls[c].opt
          /\ q.topic = calls[c].topic /\ q.id = calls[c].id /\ q.code = "failed"
      BY <1>1 DEF CallRecords
    <2> HIDE DEF q
    <2> QED  BY <1>3, <2>1, <2>2, CallChanged
  <1> QED  BY <1>2, <1>3

\* A call, or Close, ends.
LEMMA EndsCall ==
  ASSUME TypeOK, NEW c \in Callers, Returns(c) \/ CloseEnds(c)
  PROVE  /\ calls' \in [Callers -> CallRecords] /\ OthersKeep(c)
         /\ calls'[c].pc = "idle"
         /\ Returns(c) => calls[c].pc = "got"
         /\ CloseEnds(c) => calls[c].pc = "close"
  <1>1. calls' = [calls EXCEPT ![c] = Idle]
    BY DEF Returns, CloseEnds
  <1> QED  BY <1>1, IdleType, CallChanged DEF Returns, CloseEnds

\* Close begins.
LEMMA ClosingCall ==
  ASSUME TypeOK, NEW c \in Callers, CloseBegins(c)
  PROVE  /\ calls' \in [Callers -> CallRecords] /\ OthersKeep(c)
         /\ calls[c].pc = "idle" /\ calls'[c].pc = "close"
  <1> DEFINE r == [calls[c] EXCEPT !.pc = "close"]
  <1>1. r \in CallRecords /\ r.pc = "close"
    BY DEF TypeOK, CallRecords
  <1>2. calls' = [calls EXCEPT ![c] = r] /\ calls[c].pc = "idle"
    BY DEF CloseBegins
  <1> HIDE DEF r
  <1> QED  BY <1>1, <1>2, CallChanged

\* The steps of a caller keep the types.
LEMMA CallerType ==
  ASSUME TypeOK, CallInv, NEW c \in Callers, Caller(c)
  PROVE  TypeOK'
  <1> DEFINE call == calls[c]
             Handlings == [topic : Topics, left : Int, stale : BOOLEAN]
  <1>0. call \in CallRecords /\ call.topic \in Topics /\ call.opt \in Opts
    BY DEF TypeOK, CallRecords
  <1>1. CASE Sends(c)
    <2>1. calls' \in [Callers -> CallRecords] /\ call.pc = "lock"
      BY <1>1, SendsCall
    <2>2. topicHandle' \in [Topics -> Int]
      BY <1>0, <1>1 DEF Sends, TypeOK
    <2>3. handling' \in Handlings
      <3>1. handling' = Touched(call.topic) \/ handling' = handling
        BY <1>1 DEF Sends
      <3> QED  BY <3>1, TouchedType DEF TypeOK
    <2>4. toServer' \in Seq(Requests)
      <3> DEFINE r == [opt |-> call.opt, topic |-> call.topic, id |-> call.id]
      <3>1. r \in Requests
        BY <1>0, <2>1 DEF Requests, CallInv
      <3>2. toServer' = Append(toServer, r) \/ toServer' = toServer
        BY <1>1 DEF Sends
      <3> HIDE DEF r
      <3>3. toServer \in Seq(Requests)
        BY DEF TypeOK
      <3> QED  BY <3>1, <3>2, <3>3, AppendProperties
    <2>5. crashed' \in BOOLEAN /\ trust' \in BOOLEAN /\ returned' = NoCall
      BY <1>1 DEF Sends
    <2>6. UNCHANGED <<sessionVars, rpc, resultQueue, toClient, subs, accepted, up, published, asked>>
      BY <1>1 DEF Sends
    <2> QED  BY <2>1, <2>2, <2>3, <2>4, <2>5, <2>6 DEF TypeOK, sessionVars
  <1>2. CASE WaitTimeAndPop(c)
    <2>1. calls' \in [Callers -> CallRecords]
      BY <1>2, GotCall
    <2>2. resultQueue' \in Seq(Answers)
      BY <1>2, HeadTailProperties DEF WaitTimeAndPop, TypeOK
    <2> QED  BY <1>2, <2>1, <2>2 DEF WaitTimeAndPop, TypeOK, sessionVars, recvVars, serverVars
  <1>3. CASE TimesOut(c)
    <2>1. calls' \in [Callers -> CallRecords]
      BY <1>3, GotCall
    <2>2. trust' \in BOOLEAN
      BY <1>3 DEF TimesOut
    <2>3. UNCHANGED <<sessionVars, topicHandle, resultQueue, returned, recvVars, serverVars, asked, crashed>>
      BY <1>3 DEF TimesOut
    <2> QED  BY <2>1, <2>2, <2>3 DEF TypeOK, sessionVars, recvVars, serverVars
  <1>4. CASE Returns(c)
    <2>1. calls' \in [Callers -> CallRecords] /\ call.pc = "got"
      BY <1>4, EndsCall
    <2>2. topicHandle' \in [Topics -> Int]
      BY <1>0, <1>4 DEF Returns, TypeOK
    <2>3. handling' \in Handlings
      <3>1. handling' = Touched(call.topic) \/ handling' = handling
        BY <1>4 DEF Returns
      <3> QED  BY <3>1, TouchedType DEF TypeOK
    <2>4. returned' \in {NoCall} \cup [opt : Opts, topic : Topics, code : {"ok", "failed"}]
      <3>1. call.code \in {"ok", "failed"}
        BY <2>1 DEF CallInv
      <3> QED  BY <1>0, <1>4, <3>1 DEF Returns
    <2> QED  BY <1>4, <2>1, <2>2, <2>3, <2>4 DEF Returns, TypeOK, sessionVars, serverVars
  <1>5. CASE CloseEnds(c)
    <2>1. calls' \in [Callers -> CallRecords]
      BY <1>5, EndsCall
    <2>2. crashed' \in BOOLEAN /\ trust' \in BOOLEAN
      BY <1>5 DEF CloseEnds
    <2>3. toServer' \in Seq(Requests) /\ toClient' \in Seq(Answers \cup Datas) /\ resultQueue' \in Seq(Answers)
      BY <1>5, EmptySeq DEF CloseEnds
    <2>4. topicHandle' \in [Topics -> Int] /\ subs' = {} /\ accepted' = {}
      BY <1>5 DEF CloseEnds
    <2>5. /\ session' = "none" /\ stream' = FALSE /\ returned' = NoCall
          /\ UNCHANGED <<finished, isQuit, inits, rpc, handling, up, asked, published>>
      BY <1>5 DEF CloseEnds, recvVars
    <2> QED  BY <2>1, <2>2, <2>3, <2>4, <2>5 DEF TypeOK
  <1> QED  BY <1>1, <1>2, <1>3, <1>4, <1>5 DEF Caller

\* The steps of the receiving thread keep the types.
LEMMA HandleRecvType ==
  ASSUME TypeOK, HandleRecv
  PROVE  TypeOK'
  <1>1. CASE RecvCheck
    BY <1>1 DEF RecvCheck, TypeOK, callVars, serverVars
  <1>2. CASE RecvNothing
    BY <1>2 DEF RecvNothing, TypeOK, sessionVars, callVars, serverVars
  <1>3. CASE RecvResult
    <2>1. Head(toClient) \in Answers /\ toClient' \in Seq(Answers \cup Datas)
      <3>1. Head(toClient) \in Answers \cup Datas /\ Head(toClient).kind = "answer"
        BY <1>3, HeadTailProperties DEF RecvResult, TypeOK
      <3>2. Head(toClient) \in Answers
        BY <3>1 DEF Datas
      <3> QED  BY <1>3, <3>2, HeadTailProperties DEF RecvResult, TypeOK
    <2>2. resultQueue' \in Seq(Answers)
      BY <1>3, <2>1, AppendProperties DEF RecvResult, TypeOK
    <2> QED  BY <1>3, <2>1, <2>2 DEF RecvResult, TypeOK, sessionVars
  <1>4. CASE RecvData
    <2> DEFINE t == Head(toClient).topic
    <2>1. t \in Topics /\ toClient' \in Seq(Answers \cup Datas)
      <3>1. Head(toClient) \in Answers \cup Datas /\ Head(toClient).kind = "data"
        BY <1>4, HeadTailProperties DEF RecvData, TypeOK
      <3>2. Head(toClient) \in Datas
        BY <3>1 DEF Answers
      <3> QED  BY <1>4, <3>2, HeadTailProperties DEF RecvData, TypeOK, Datas
    <2>2. handling' = [topic |-> t, left |-> topicHandle[t], stale |-> FALSE]
      BY <1>4 DEF RecvData
    <2>3. crashed' \in BOOLEAN /\ rpc' = "handle"
      BY <1>4 DEF RecvData
    <2> HIDE DEF t
    <2> QED  BY <1>4, <2>1, <2>2, <2>3 DEF RecvData, TypeOK, sessionVars, callVars
  <1>5. CASE Callback
    <2>1. handling' \in [topic : Topics, left : Int, stale : BOOLEAN]
      <3>1. handling \in [topic : Topics, left : Int, stale : BOOLEAN]
        BY DEF TypeOK
      <3>2. handling' = [handling EXCEPT !.left = @ - 1]
        BY <1>5, Zenon DEF Callback
      <3> QED  BY <3>1, <3>2
    <2>2. crashed' \in BOOLEAN
      <3>1. crashed' \in BOOLEAN \/ crashed' \in {FALSE}
        BY <1>5, Zenon DEF Callback
      <3> QED  BY <3>1
    <2>3. UNCHANGED <<sessionVars, callVars, rpc, serverVars, asked>>
      BY <1>5 DEF Callback
    <2> QED  BY <2>1, <2>2, <2>3 DEF TypeOK, sessionVars, callVars, serverVars
  <1>6. CASE Handled
    BY <1>6, IdleType DEF Handled, TypeOK, sessionVars, callVars, serverVars
  <1> QED  BY <1>1, <1>2, <1>3, <1>4, <1>5, <1>6 DEF HandleRecv

\* So do the calls an application makes.
LEMMA ApplicationType ==
  ASSUME TypeOK, Application
  PROVE  TypeOK'
  <1>1. CASE InitOk
    <2>1. toServer' \in Seq(Requests) /\ toClient' \in Seq(Answers \cup Datas) /\ resultQueue' \in Seq(Answers)
      BY <1>1, EmptySeq DEF InitOk
    <2>2. trust' \in BOOLEAN /\ returned' = NoCall /\ inits' \in 0..MaxInits
      BY <1>1, SdkBoundsAssumption DEF InitOk, TypeOK
    <2> QED  BY <1>1, <2>1, <2>2 DEF InitOk, TypeOK
  <1>2. CASE InitFails
    <2>1. resultQueue' \in Seq(Answers) /\ inits' \in 0..MaxInits
      BY <1>2, EmptySeq, SdkBoundsAssumption DEF InitFails, TypeOK
    <2> QED  BY <1>2, <2>1 DEF InitFails, TypeOK, recvVars, serverVars
  <1>3. ASSUME NEW c \in Threads, CloseBegins(c) PROVE TypeOK'
    <2>1. calls' \in [Callers -> CallRecords]
      BY <1>3, ClosingCall DEF Callers
    <2> QED  BY <1>3, <2>1 DEF CloseBegins, TypeOK, recvVars, serverVars
  <1>4. ASSUME NEW c \in Callers, NEW opt \in Opts, NEW t \in Topics, Begins(c, opt, t)
        PROVE  TypeOK'
    <2>1. calls' \in [Callers -> CallRecords] /\ asked' \in 0..MaxCalls
      BY <1>4, BeginsCall, SdkBoundsAssumption
    <2> QED  BY <1>4, <2>1 DEF Begins, TypeOK, sessionVars, recvVars, serverVars
  <1> QED  BY <1>1, <1>2, <1>3, <1>4, SdkAssumption DEF Application, CallbackCalls, Callers

\* So does the server.
LEMMA ServerType ==
  ASSUME TypeOK, Serve \/ Stops \/ \E t \in Topics : Publishes(t)
  PROVE  TypeOK'
  <1>1. CASE Serve
    <2> DEFINE r == Head(toServer)
    <2>1. r \in Requests
      BY <1>1, HeadTailProperties DEF Serve, TypeOK
    <2>2. toServer' \in Seq(Requests)
      <3>1. PICK lost \in 0..(Len(toServer) - 1) :
              toServer' = SubSeq(toServer, 2 + lost, Len(toServer))
        BY <1>1 DEF Serve
      <3>2. Len(toServer) \in Nat
        BY LenProperties DEF TypeOK
      <3>3. \A k \in 2 + lost..Len(toServer) : toServer[k] \in Requests
        BY <3>1, <3>2, ElementOfSeq DEF TypeOK
      <3> QED  BY <3>1, <3>2, <3>3, SubSeqProperties DEF TypeOK
    <2>3. Answer(r.id, "ok") \in Answers /\ Answer(r.id, "failed") \in Answers
      BY <2>1 DEF Requests, Answers, Answer
    <2>4. toClient' \in Seq(Answers \cup Datas)
      <3>1. PICK code \in {"ok", "failed"} : toClient' = Append(toClient, Answer(r.id, code))
        BY <1>1 DEF Serve
      <3>2. Answer(r.id, code) \in Answers \cup Datas
        BY <2>3
      <3>3. toClient \in Seq(Answers \cup Datas)
        BY DEF TypeOK
      <3> QED  BY <3>1, <3>2, <3>3, AppendProperties
    <2>5. subs' \subseteq Topics /\ accepted' \subseteq Topics
      <3>1. \A S \in SUBSET Topics : Applied(r, S) \in SUBSET Topics
        BY <2>1 DEF Requests, Applied
      <3> QED  BY <1>1, <3>1 DEF Serve, TypeOK
    <2>6. UNCHANGED <<sessionVars, callVars, recvVars, up, published, asked, crashed>>
      BY <1>1 DEF Serve
    <2> QED  BY <2>2, <2>4, <2>5, <2>6 DEF TypeOK, sessionVars, callVars, recvVars
  <1>2. CASE Stops
    <2>1. toServer' \in Seq(Requests) /\ subs' \subseteq Topics /\ accepted' \subseteq Topics
      BY <1>2, EmptySeq DEF Stops
    <2>2. up' \in BOOLEAN
      BY <1>2 DEF Stops
    <2>3. UNCHANGED <<sessionVars, callVars, recvVars, toClient, published, asked, crashed>>
      BY <1>2 DEF Stops
    <2> QED  BY <2>1, <2>2, <2>3 DEF TypeOK, sessionVars, callVars, recvVars
  <1>3. ASSUME NEW t \in Topics, Publishes(t) PROVE TypeOK'
    <2>1. [kind |-> "data", topic |-> t] \in Answers \cup Datas
      BY DEF Datas
    <2>2. toClient' \in Seq(Answers \cup Datas) /\ published' \in 0..MaxData
      BY <1>3, <2>1, AppendProperties, SdkBoundsAssumption DEF Publishes, TypeOK
    <2> QED  BY <1>3, <2>2 DEF Publishes, TypeOK, sessionVars, callVars, recvVars
  <1> QED  BY <1>1, <1>2, <1>3

-----------------------------------------------------------------------------
(* The answers on their way, and the call in progress                      *)

\* A message that joins the stream from the server.
LEMMA AnsweredAppend ==
  ASSUME NEW S, NEW q \in Seq(S), NEW x
  PROVE  /\ Len(Append(q, x)) = Len(q) + 1
         /\ Answered(Append(q, x)) =
              Answered(q) \cup (IF x.kind = "answer" THEN {Len(q) + 1} ELSE {})
         /\ \A n \in 1..Len(q) : Append(q, x)[n] = q[n]
         /\ Append(q, x)[Len(q) + 1] = x
  <1> DEFINE l == Len(q)
             r == Append(q, x)
  <1>1. /\ l \in Nat /\ Len(r) = l + 1 /\ r[l + 1] = x
        /\ \A n \in 1..l : r[n] = q[n]
    BY AppendProperties, LenProperties
  <1>2. Answered(r) = {n \in 1..l + 1 : r[n].kind = "answer"}
    BY <1>1 DEF Answered
  <1>3. Answered(q) = {n \in 1..l : q[n].kind = "answer"}
    BY DEF Answered
  <1> HIDE DEF l, r
  <1>4. Answered(r) = Answered(q) \cup (IF x.kind = "answer" THEN {l + 1} ELSE {})
    BY <1>1, <1>2, <1>3
  <1> QED  BY <1>1, <1>4 DEF l, r

\* The first message leaves it.
LEMMA AnsweredTail ==
  ASSUME NEW S, NEW q \in Seq(S), q # <<>>
  PROVE  /\ Len(q) \in Nat /\ Len(q) > 0 /\ Head(q) = q[1] /\ Len(Tail(q)) = Len(q) - 1
         /\ \A n \in 1..Len(q) - 1 : Tail(q)[n] = q[n + 1]
         /\ \A n : n \in Answered(Tail(q)) <=> n \in 1..Len(q) - 1 /\ n + 1 \in Answered(q)
  <1> DEFINE l == Len(q)
             r == Tail(q)
  <1>1. /\ l \in Nat /\ l > 0 /\ Head(q) = q[1] /\ Len(r) = l - 1
        /\ \A n \in 1..l - 1 : r[n] = q[n + 1]
    BY HeadTailProperties, LenProperties, EmptySeq
  <1>2. Answered(r) = {n \in 1..l - 1 : r[n].kind = "answer"}
    BY <1>1 DEF Answered
  <1>3. Answered(q) = {n \in 1..l : q[n].kind = "answer"}
    BY DEF Answered
  <1> HIDE DEF l, r
  <1>4. \A n : n \in Answered(r) <=> n \in 1..l - 1 /\ n + 1 \in Answered(q)
    BY <1>1, <1>2, <1>3
  <1> QED  BY <1>1, <1>4 DEF l, r

\* The answers that are on their way stay so, whatever data comes and goes.
SameAnswers ==
  /\ Answered(toClient) = {} => Answered(toClient') = {}
  /\ \A n \in 1..Len(toClient) : Answered(toClient) = {n} =>
       \E k \in 1..Len(toClient') : Answered(toClient') = {k} /\ toClient'[k] = toClient[n]

\* Data is published.
LEMMA DataJoins ==
  ASSUME TypeOK, NEW t, toClient' = Append(toClient, [kind |-> "data", topic |-> t])
  PROVE  SameAnswers
  <1> DEFINE x == [kind |-> "data", topic |-> t]
  <1>1. x.kind # "answer" /\ toClient \in Seq(Answers \cup Datas) /\ Len(toClient) \in Nat
    BY LenProperties DEF TypeOK
  <1> HIDE DEF x
  <1>2. toClient' = Append(toClient, x)
    BY DEF x
  <1>3. /\ Len(toClient') = Len(toClient) + 1 /\ Answered(toClient') = Answered(toClient)
        /\ \A n \in 1..Len(toClient) : toClient'[n] = toClient[n]
    <2> DEFINE q == Append(toClient, x)
    <2>1. /\ Len(q) = Len(toClient) + 1
          /\ Answered(q) = Answered(toClient) \cup (IF x.kind = "answer" THEN {Len(toClient) + 1} ELSE {})
          /\ \A n \in 1..Len(toClient) : q[n] = toClient[n]
      BY <1>1, AnsweredAppend
    <2>2. toClient' = q
      BY <1>2
    <2> HIDE DEF q
    <2> QED  BY <1>1, <2>1, <2>2
  <1> QED  BY <1>1, <1>3 DEF SameAnswers

\* Data is taken off.
LEMMA DataLeaves ==
  ASSUME TypeOK, toClient # <<>>, Head(toClient).kind # "answer", toClient' = Tail(toClient)
  PROVE  SameAnswers
  <1> DEFINE l == Len(toClient)
  <1>1. /\ l \in Nat /\ l > 0 /\ Head(toClient) = toClient[1] /\ Len(toClient') = l - 1
        /\ \A n \in 1..l - 1 : toClient'[n] = toClient[n + 1]
        /\ \A n : n \in Answered(toClient') <=> n \in 1..l - 1 /\ n + 1 \in Answered(toClient)
    BY AnsweredTail DEF TypeOK
  <1>2. 1 \notin Answered(toClient)
    BY <1>1 DEF Answered
  <1> HIDE DEF l
  <1>3. ASSUME NEW n \in 1..l, Answered(toClient) = {n}
        PROVE  \E k \in 1..l - 1 : Answered(toClient') = {k} /\ toClient'[k] = toClient[n]
    <2>1. n - 1 \in 1..l - 1 /\ (n - 1) + 1 = n
      BY <1>1, <1>2, <1>3
    <2>2. toClient'[n - 1] = toClient[n]
      BY <1>1, <2>1
    <2>3. \A k : k \in Answered(toClient') <=> k = n - 1
      <3> SUFFICES ASSUME NEW k PROVE k \in Answered(toClient') <=> k = n - 1
        OBVIOUS
      <3>1. k \in Answered(toClient') <=> k \in 1..l - 1 /\ k + 1 = n
        BY <1>1, <1>3
      <3> QED  BY <1>1, <2>1, <3>1
    <2> QED  BY <2>1, <2>2, <2>3
  <1>4. Answered(toClient) = {} => Answered(toClient') = {}
    BY <1>1
  <1> QED  BY <1>1, <1>3, <1>4 DEF SameAnswers, l

\* What the server has decided about the call of c, wherever the answer is.
LEMMA DecidedIs ==
  ASSUME TypeOK, NEW c \in Callers
  PROVE  /\ calls[c].pc = "got" /\ calls[c].from \in {0, calls[c].id} =>
              Decided(c) = calls[c].code
         /\ calls[c].pc = "wait" /\ Answered(toClient) = {} /\ resultQueue = <<>> =>
              Decided(c) = "none"
         /\ \A n \in 1..Len(toClient) :
              /\ calls[c].pc = "wait" /\ resultQueue = <<>>
              /\ Answered(toClient) = {n} /\ toClient[n].id = calls[c].id
              => Decided(c) = toClient[n].code
         /\ \A x \in Answers :
              /\ calls[c].pc = "wait" /\ Answered(toClient) = {}
              /\ resultQueue = <<x>> /\ x.id = calls[c].id
              => Decided(c) = x.code
  <1> DEFINE A == {j \in DOMAIN toClient : toClient[j].kind = "answer" /\ toClient[j].id = calls[c].id}
             B == {j \in DOMAIN resultQueue : resultQueue[j].id = calls[c].id}
  <1>1. AnswersTo(calls[c].id) = {toClient[i] : i \in A} \cup {resultQueue[i] : i \in B}
    BY DEF AnswersTo
  <1>2. A = {j \in Answered(toClient) : toClient[j].id = calls[c].id}
    <2>1. DOMAIN toClient = 1..Len(toClient)
      BY LenProperties DEF TypeOK
    <2> QED  BY <2>1 DEF Answered
  <1>3. calls[c].pc = "got" /\ calls[c].from \in {0, calls[c].id} => Decided(c) = calls[c].code
    BY DEF Decided
  <1>4. ASSUME calls[c].pc = "wait"
        PROVE  /\ AnswersTo(calls[c].id) = {} => Decided(c) = "none"
               /\ \A x : AnswersTo(calls[c].id) = {x} => Decided(c) = x.code
    BY <1>4 DEF Decided
  <1>5. resultQueue = <<>> => B = {}
    OBVIOUS
  <1>6. \A x : resultQueue = <<x>> /\ x.id = calls[c].id => B = {1} /\ resultQueue[1] = x
    OBVIOUS
  <1> HIDE DEF A, B
  <1>7. Answered(toClient) = {} => A = {}
    BY <1>2
  <1>8. \A n : Answered(toClient) = {n} /\ toClient[n].id = calls[c].id => A = {n}
    BY <1>2
  <1> QED  BY <1>1, <1>3, <1>4, <1>5, <1>6, <1>7, <1>8

\* The call in progress, as long as calls do not overlap.
CallOf(c, code) == [opt |-> calls[c].opt, topic |-> calls[c].topic, code |-> code]
CurrentFacts ==
  /\ ~trust \/ (\A c \in Callers : ~InCall(c)) => CurrentCall = NoCall
  /\ trust => \A c \in Callers :
       /\ calls[c].pc = "got" => CurrentCall = CallOf(c, calls[c].code)
       /\ calls[c].pc = "wait" /\ (Unsent \/ AtServer(c)) => CurrentCall = CallOf(c, "none")
       /\ \A n \in 1..Len(toClient) :
            /\ calls[c].pc = "wait" /\ resultQueue = <<>>
            /\ Answered(toClient) = {n} /\ toClient[n].id = calls[c].id
            => CurrentCall = CallOf(c, toClient[n].code)
       /\ \A x \in Answers :
            /\ calls[c].pc = "wait" /\ Answered(toClient) = {}
            /\ resultQueue = <<x>> /\ x.id = calls[c].id
            => CurrentCall = CallOf(c, x.code)

LEMMA CurrentIs == TypeOK /\ FlightInv => CurrentFacts
  <1> SUFFICES ASSUME TypeOK, FlightInv PROVE CurrentFacts
    OBVIOUS
  <1>1. ~trust \/ (\A c \in Callers : ~InCall(c)) => CurrentCall = NoCall
    BY DEF CurrentCall
  <1>2. ASSUME trust, NEW c \in Callers, InCall(c) PROVE CurrentCall = CallOf(c, Decided(c))
    <2>1. \A d \in Callers : InCall(d) <=> d = c
      BY <1>2 DEF FlightInv
    <2>2. (CHOOSE d \in Callers : InCall(d)) = c
      BY <2>1
    <2> QED  BY <1>2, <2>2 DEF CurrentCall, CallOf
  <1>3. \A c \in Callers : calls[c].pc \in {"wait", "got"} => InCall(c)
    BY DEF InCall
  <1>4. \A c \in Callers : trust /\ calls[c].pc = "got" => calls[c].from \in {0, calls[c].id}
    BY DEF FlightInv
  <1>5. ASSUME trust, NEW c \in Callers
        PROVE  /\ calls[c].pc = "got" => CurrentCall = CallOf(c, calls[c].code)
               /\ calls[c].pc = "wait" /\ (Unsent \/ AtServer(c)) => CurrentCall = CallOf(c, "none")
    BY <1>2, <1>3, <1>4, <1>5, DecidedIs DEF Unsent, AtServer
  <1>6. ASSUME trust, NEW c \in Callers, NEW n \in 1..Len(toClient),
               calls[c].pc = "wait", resultQueue = <<>>,
               Answered(toClient) = {n}, toClient[n].id = calls[c].id
        PROVE  CurrentCall = CallOf(c, toClient[n].code)
    BY <1>2, <1>3, <1>6, DecidedIs
  <1>7. ASSUME trust, NEW c \in Callers, NEW x \in Answers,
               calls[c].pc = "wait", Answered(toClient) = {},
               resultQueue = <<x>>, x.id = calls[c].id
        PROVE  CurrentCall = CallOf(c, x.code)
    BY <1>2, <1>3, <1>7, DecidedIs
  <1> QED  BY <1>1, <1>5, <1>6, <1>7 DEF CurrentFacts

\* The same after a step.
LEMMA CurrentNext == TypeOK' /\ FlightInv' => CurrentFacts'
  BY CurrentIs, PTL

-----------------------------------------------------------------------------
(* At most one request is under way, and it belongs to the call            *)

\* A step that leaves the calls in progress and their results alone; data may
\* come and go, and a server that stops drops what it has not read.
FlightSame ==
  /\ trust' = trust /\ toServer' \in {toServer, <<>>} /\ resultQueue' = resultQueue /\ SameAnswers
  /\ \A c \in Callers :
       /\ calls'[c].pc \in {"wait", "got"} <=> calls[c].pc \in {"wait", "got"}
       /\ calls[c].pc \in {"wait", "got"} => calls'[c] = calls[c]

LEMMA FlightFrame ==
  ASSUME FlightInv, FlightSame
  PROVE  FlightInv'
  <1> SUFFICES ASSUME trust PROVE FlightInv'
    BY DEF FlightInv, FlightSame
  <1>1. Unsent => Unsent'
    BY DEF Unsent, FlightSame, SameAnswers
  <1>2. \A c \in Callers : (InCall(c))' <=> InCall(c)
    BY DEF InCall, FlightSame
  <1>3. \A c \in Callers : InCall(c) => calls'[c] = calls[c]
    BY DEF InCall, FlightSame
  <1>4. \A c \in Callers : calls[c].pc \in {"wait", "got"} <=> InCall(c)
    BY DEF InCall
  <1>5. \A c \in Callers : calls'[c].pc \in {"wait", "got"} <=> InCall(c)
    BY <1>2 DEF InCall
  <1>6. ASSUME NEW c \in Callers, InCall(c)
        PROVE  /\ AtServer(c) => (AtServer(c))' \/ Unsent'
               /\ Delivered(c) => (Delivered(c))'
               /\ OnTheWay(c) => (OnTheWay(c))'
    <2>1. AtServer(c) => (AtServer(c))' \/ Unsent'
      BY <1>3, <1>6 DEF AtServer, Unsent, FlightSame, SameAnswers
    <2>2. Delivered(c) => (Delivered(c))'
      BY <1>3, <1>6 DEF Delivered, FlightSame, SameAnswers
    <2>3. OnTheWay(c) => (OnTheWay(c))'
      <3> SUFFICES ASSUME OnTheWay(c) PROVE (OnTheWay(c))'
        OBVIOUS
      <3>1. PICK n \in 1..Len(toClient) : Answered(toClient) = {n} /\ toClient[n].id = calls[c].id
        BY DEF OnTheWay
      <3>2. PICK k \in 1..Len(toClient') : Answered(toClient') = {k} /\ toClient'[k] = toClient[n]
        BY <3>1 DEF FlightSame, SameAnswers
      <3> QED  BY <1>3, <1>6, <3>1, <3>2 DEF OnTheWay, FlightSame
    <2> QED  BY <2>1, <2>2, <2>3
  <1>7. /\ \A c, d \in Callers : (InCall(c))' /\ (InCall(d))' => c = d
        /\ (\A c \in Callers : ~(InCall(c))') => Unsent'
    BY <1>1, <1>2 DEF FlightInv
  <1>8. \A c \in Callers : calls'[c].pc = "got" => Unsent' /\ calls'[c].from \in {0, calls'[c].id}
    BY <1>1, <1>3, <1>5 DEF FlightInv
  <1>9. \A c \in Callers : calls'[c].pc = "wait" =>
          Unsent' \/ (AtServer(c))' \/ (OnTheWay(c))' \/ (Delivered(c))'
    BY <1>1, <1>3, <1>5, <1>6 DEF FlightInv
  <1> QED  BY <1>7, <1>8, <1>9 DEF FlightInv

\* Where the call in progress stands.
LEMMA Stages ==
  ASSUME TypeOK, FlightInv, trust
  PROVE  \/ \A c \in Callers : ~InCall(c)
         \/ \E c \in Callers : InCall(c) /\ calls[c].pc = "got"
         \/ \E c \in Callers : InCall(c) /\ calls[c].pc = "wait" /\ (Unsent \/ AtServer(c))
         \/ \E c \in Callers : InCall(c) /\ calls[c].pc = "wait" /\ OnTheWay(c)
         \/ \E c \in Callers : InCall(c) /\ calls[c].pc = "wait" /\ Delivered(c)
  BY DEF FlightInv, InCall

\* Such a step leaves the call in progress as it is.
LEMMA CurrentFrame ==
  ASSUME TypeOK, TypeOK', FlightInv, FlightSame
  PROVE  CurrentCall' = CurrentCall
  <1>0. FlightInv'
    BY FlightFrame
  <1>1. CurrentFacts /\ CurrentFacts'
    BY <1>0, CurrentIs, CurrentNext
  <1>2. CASE ~trust
    BY <1>1, <1>2 DEF CurrentFacts, FlightSame
  <1>3. CASE trust /\ \A c \in Callers : ~InCall(c)
    <2>1. \A c \in Callers : ~(InCall(c))'
      BY <1>3 DEF InCall, FlightSame
    <2> QED  BY <1>1, <1>3, <2>1 DEF CurrentFacts
  <1>4. ASSUME trust, NEW c \in Callers, InCall(c)
        PROVE  /\ trust' /\ calls'[c] = calls[c]
               /\ \A code : CallOf(c, code)' = CallOf(c, code)
    <2>1. trust' /\ calls'[c] = calls[c]
      BY <1>4 DEF FlightSame, InCall
    <2> QED  BY <2>1 DEF CallOf
  <1>5. ASSUME trust, NEW c \in Callers, InCall(c), calls[c].pc = "got"
        PROVE  CurrentCall' = CurrentCall
    BY <1>1, <1>4, <1>5 DEF CurrentFacts, CallOf
  <1>6. ASSUME trust, NEW c \in Callers, InCall(c), calls[c].pc = "wait", Unsent \/ AtServer(c)
        PROVE  CurrentCall' = CurrentCall
    <2>1. Unsent' \/ (AtServer(c))'
      BY <1>4, <1>6 DEF Unsent, AtServer, FlightSame, SameAnswers
    <2> QED  BY <1>1, <1>4, <1>6, <2>1 DEF CurrentFacts, CallOf
  <1>7. ASSUME trust, NEW c \in Callers, InCall(c), calls[c].pc = "wait", OnTheWay(c)
        PROVE  CurrentCall' = CurrentCall
    <2>1. PICK n \in 1..Len(toClient) : Answered(toClient) = {n} /\ toClient[n].id = calls[c].id
      BY <1>7 DEF OnTheWay
    <2>2. PICK k \in 1..Len(toClient') : Answered(toClient') = {k} /\ toClient'[k] = toClient[n]
      BY <2>1 DEF FlightSame, SameAnswers
    <2>3. resultQueue = <<>> /\ resultQueue' = <<>>
      BY <1>7 DEF OnTheWay, FlightSame
    <2>4. CurrentCall = CallOf(c, toClient[n].code)
      BY <1>1, <1>7, <2>1, <2>3 DEF CurrentFacts
    <2>5. CurrentCall' = [opt |-> calls'[c].opt, topic |-> calls'[c].topic, code |-> toClient'[k].code]
      BY <1>1, <1>4, <1>7, <2>1, <2>2, <2>3 DEF CurrentFacts, CallOf
    <2> QED  BY <1>4, <1>7, <2>2, <2>4, <2>5 DEF CallOf
  <1>8. ASSUME trust, NEW c \in Callers, InCall(c), calls[c].pc = "wait", Delivered(c)
        PROVE  CurrentCall' = CurrentCall
    <2>1. PICK x \in Answers : resultQueue = <<x>> /\ x.id = calls[c].id
      BY <1>8 DEF Delivered
    <2>2. Answered(toClient) = {} /\ Answered(toClient') = {} /\ resultQueue' = <<x>>
      BY <1>8, <2>1 DEF Delivered, FlightSame, SameAnswers
    <2> QED  BY <1>1, <1>4, <1>8, <2>1, <2>2 DEF CurrentFacts, CallOf
  <1> QED  BY <1>2, <1>3, <1>5, <1>6, <1>7, <1>8, Stages

\* The steps that neither send, decide, deliver nor end a call.
LEMMA FrameSteps ==
  ASSUME TypeOK,
         \/ \E c \in Callers : \/ CloseBegins(c)
                               \/ \E opt \in Opts, t \in Topics : Begins(c, opt, t)
         \/ RecvCheck \/ RecvNothing \/ RecvData \/ Callback \/ Handled
         \/ \E t \in Topics : Publishes(t)
         \/ Stops \/ UNCHANGED vars
  PROVE  FlightSame
  <1>1. toClient' = toClient => SameAnswers
    BY DEF SameAnswers
  <1>2. ASSUME NEW c \in Callers, CloseBegins(c) PROVE FlightSame
    <2>1. calls[c].pc = "idle" /\ calls'[c].pc = "close" /\ OthersKeep(c)
      BY <1>2, ClosingCall
    <2>2. /\ trust' = trust /\ toServer' = toServer /\ resultQueue' = resultQueue
          /\ toClient' = toClient
      BY <1>2 DEF CloseBegins, serverVars
    <2> QED  BY <1>1, <2>1, <2>2 DEF FlightSame, OthersKeep
  <1>3. ASSUME NEW c \in Callers, NEW opt \in Opts, NEW t \in Topics, Begins(c, opt, t)
        PROVE  FlightSame
    <2>1. calls[c].pc = "idle" /\ calls'[c].pc = "lock" /\ OthersKeep(c)
      BY <1>3, BeginsCall
    <2>2. /\ trust' = trust /\ toServer' = toServer /\ resultQueue' = resultQueue
          /\ toClient' = toClient
      BY <1>3 DEF Begins, serverVars
    <2> QED  BY <1>1, <2>1, <2>2 DEF FlightSame, OthersKeep
  <1>4. ASSUME RecvCheck \/ RecvNothing \/ Callback \/ Handled \/ UNCHANGED vars
        PROVE  FlightSame
    <2>1. UNCHANGED <<trust, toServer, resultQueue, toClient, calls>>
      BY <1>4 DEF RecvCheck, RecvNothing, Callback, Handled, vars, callVars, serverVars
    <2> QED  BY <1>1, <2>1 DEF FlightSame
  <1>5. CASE RecvData
    <2>1. SameAnswers
      BY <1>5, DataLeaves DEF RecvData
    <2>2. UNCHANGED <<trust, toServer, resultQueue, calls>>
      BY <1>5 DEF RecvData, callVars
    <2> QED  BY <2>1, <2>2 DEF FlightSame
  <1>6. ASSUME NEW t \in Topics, Publishes(t) PROVE FlightSame
    <2>1. SameAnswers
      BY <1>6, DataJoins DEF Publishes
    <2>2. UNCHANGED <<trust, toServer, resultQueue, calls>>
      BY <1>6 DEF Publishes, callVars
    <2> QED  BY <2>1, <2>2 DEF FlightSame
  <1>7. CASE Stops
    <2>1. UNCHANGED <<trust, resultQueue, toClient, calls>> /\ toServer' = <<>>
      BY <1>7 DEF Stops, callVars
    <2> QED  BY <1>1, <2>1 DEF FlightSame
  <1> QED  BY <1>2, <1>3, <1>4, <1>5, <1>6, <1>7

\* A call sends its request, when no other is in progress.
LEMMA SendsFlight ==
  ASSUME TypeOK, CallInv, FlightInv, NEW c \in Callers, Sends(c), trust'
  PROVE  /\ FlightInv' /\ trust /\ \A d \in Callers : ~InCall(d)
         /\ calls'[c].pc \in {"wait", "got"}
         /\ calls'[c].pc = "wait" => Unsent' \/ (AtServer(c))'
         /\ calls'[c].pc = "got" => calls'[c].code = "failed"
  <1> DEFINE r == [opt |-> calls[c].opt, topic |-> calls[c].topic, id |-> calls[c].id]
             r1 == [opt |-> calls'[c].opt, topic |-> calls'[c].topic, id |-> calls'[c].id]
  <1>1. trust /\ (\A d \in Callers \ {c} : ~InCall(d)) /\ calls[c].pc = "lock"
    BY DEF Sends
  <1>2. \A d \in Callers : ~InCall(d)
    BY <1>1 DEF InCall
  <1>3. Unsent
    BY <1>1, <1>2 DEF FlightInv
  <1>4. /\ OthersKeep(c) /\ calls'[c].pc = (IF stream THEN "wait" ELSE "got") /\ r1 = r
        /\ calls'[c].from = 0 /\ (~stream => calls'[c].code = "failed")
    BY <1>1, SendsCall DEF CallInv
  <1>5. \A d \in Callers : (InCall(d))' <=> d = c
    BY <1>2, <1>4 DEF OthersKeep, InCall
  <1>6. toServer' = (IF session = "open" /\ up THEN Append(toServer, r) ELSE toServer)
    BY DEF Sends
  <1>7. resultQueue' = <<>> /\ Answered(toClient') = {} /\ toServer = <<>>
    BY <1>3 DEF Unsent, Sends
  <1>8. toServer' = <<>> \/ toServer' = <<r1>>
    <2>1. Append(<<>>, r) = <<r>>
      OBVIOUS
    <2> QED  BY <1>4, <1>6, <1>7, <2>1
  <1>9. ~stream => toServer' = <<>>
    BY <1>6, <1>7 DEF CallInv
  <1>10. calls'[c].pc = "wait" => Unsent' \/ (AtServer(c))'
    BY <1>7, <1>8 DEF Unsent, AtServer
  <1>11. calls'[c].pc = "got" => Unsent' /\ calls'[c].code = "failed"
    BY <1>4, <1>7, <1>9 DEF Unsent
  <1>12. \A d \in Callers : calls'[d].pc \in {"wait", "got"} => d = c
    BY <1>5 DEF InCall
  <1>13. FlightInv'
    <2>1. /\ \A a, d \in Callers : (InCall(a))' /\ (InCall(d))' => a = d
          /\ ~(\A d \in Callers : ~(InCall(d))')
      BY <1>5
    <2>2. \A d \in Callers : calls'[d].pc = "got" => Unsent' /\ calls'[d].from \in {0, calls'[d].id}
      BY <1>4, <1>11, <1>12
    <2>3. \A d \in Callers : calls'[d].pc = "wait" =>
            Unsent' \/ (AtServer(d))' \/ (OnTheWay(d))' \/ (Delivered(d))'
      BY <1>10, <1>12
    <2> QED  BY <2>1, <2>2, <2>3 DEF FlightInv
  <1> QED  BY <1>1, <1>2, <1>4, <1>10, <1>11, <1>13

\* No call is in progress and nothing is under way.
LEMMA QuietFlight ==
  ASSUME \A d \in Callers : ~(InCall(d))', Unsent'
  PROVE  FlightInv'
  <1>1. \A d \in Callers : calls'[d].pc # "wait" /\ calls'[d].pc # "got"
    BY DEF InCall
  <1> QED  BY <1>1 DEF FlightInv

\* A call returns.
LEMMA ReturnsFlight ==
  ASSUME TypeOK, FlightInv, NEW c \in Callers, Returns(c), trust
  PROVE  FlightInv' /\ \A d \in Callers : ~(InCall(d))'
  <1>1. OthersKeep(c) /\ calls'[c].pc = "idle" /\ calls[c].pc = "got"
    BY EndsCall
  <1>2. \A d \in Callers : InCall(d) => d = c
    BY <1>1 DEF FlightInv, InCall
  <1>3. \A d \in Callers : ~(InCall(d))'
    BY <1>1, <1>2 DEF OthersKeep, InCall
  <1>4. Unsent'
    <2>1. Unsent
      BY <1>1 DEF FlightInv
    <2> QED  BY <2>1 DEF Unsent, Returns, serverVars
  <1> QED  BY <1>3, <1>4, QuietFlight

\* Close, and Init: no call is in progress, unless one is cut off.
LEMMA SessionFlight ==
  ASSUME TypeOK, FlightInv, (\E c \in Callers : CloseEnds(c)) \/ InitOk \/ InitFails, trust'
  PROVE  /\ FlightInv' /\ \A d \in Callers : ~(InCall(d))' /\ ~InCall(d)
         /\ InitOk \/ trust
  <1>0. Answered(<<>>) = {}
    BY EmptySeq DEF Answered
  <1>1. ASSUME NEW c \in Callers, CloseEnds(c)
        PROVE  FlightInv' /\ trust /\ \A d \in Callers : ~(InCall(d))' /\ ~InCall(d)
    <2>1. OthersKeep(c) /\ calls'[c].pc = "idle"
      BY <1>1, EndsCall
    <2>2. trust /\ \A d \in Callers : ~InCall(d)
      BY <1>1 DEF CloseEnds
    <2>3. \A d \in Callers : ~(InCall(d))'
      BY <2>1, <2>2 DEF OthersKeep, InCall
    <2>4. Unsent'
      BY <1>0, <1>1 DEF Unsent, CloseEnds
    <2> QED  BY <2>2, <2>3, <2>4, QuietFlight
  <1>2. CASE InitOk \/ InitFails
    <2>1. \A d \in Callers : ~InCall(d) /\ ~(InCall(d))'
      BY <1>2 DEF InitOk, InitFails, Quiet, InCall
    <2>2. InitFails => Unsent' /\ trust
      <3> SUFFICES ASSUME InitFails PROVE Unsent' /\ trust
        OBVIOUS
      <3>1. trust /\ resultQueue' = <<>> /\ toServer' = toServer /\ toClient' = toClient
        BY DEF InitFails, serverVars
      <3>2. Unsent
        BY <2>1, <3>1 DEF FlightInv
      <3> QED  BY <3>1, <3>2 DEF Unsent
    <2>3. InitOk => Unsent'
      BY <1>0 DEF InitOk, Unsent
    <2> QED  BY <1>2, <2>1, <2>2, <2>3, QuietFlight
  <1> QED  BY <1>1, <1>2

\* The call in progress takes its result.
LEMMA PopFlight ==
  ASSUME TypeOK, TypeOK', FlightInv, NEW c \in Callers, WaitTimeAndPop(c)
  PROVE  FlightInv' /\ CurrentCall' = CurrentCall
  <1>0. calls[c].pc = "wait" /\ resultQueue # <<>> /\ trust' = trust
    BY DEF WaitTimeAndPop
  <1>1. CASE ~trust
    <2>1. FlightInv'
      BY <1>0, <1>1 DEF FlightInv
    <2>2. CurrentFacts /\ CurrentFacts'
      BY <2>1, CurrentIs, CurrentNext
    <2> QED  BY <1>0, <1>1, <2>1, <2>2 DEF CurrentFacts
  <1>2. CASE trust
    <2>1. Delivered(c)
      BY <1>0, <1>2 DEF FlightInv, Unsent, AtServer, OnTheWay
    <2>2. PICK x \in Answers : resultQueue = <<x>> /\ x.id = calls[c].id
      BY <2>1 DEF Delivered
    <2>3. Head(resultQueue) = x /\ Tail(resultQueue) = <<>>
      BY <2>2
    <2>4. /\ OthersKeep(c) /\ calls'[c].pc = "got" /\ calls'[c].opt = calls[c].opt
          /\ calls'[c].topic = calls[c].topic /\ calls'[c].id = calls[c].id
          /\ calls'[c].from = x.id /\ calls'[c].code = x.code
      BY <2>3, GotCall
    <2>5. \A d \in Callers : InCall(d) => d = c
      BY <1>0, <1>2 DEF FlightInv, InCall
    <2>6. \A d \in Callers : (InCall(d))' <=> d = c
      BY <2>4, <2>5 DEF OthersKeep, InCall
    <2>7. \A d \in Callers : calls'[d].pc \in {"wait", "got"} => d = c
      BY <2>6 DEF InCall
    <2>8. Unsent'
      BY <2>1, <2>3 DEF Unsent, Delivered, WaitTimeAndPop, serverVars
    <2>9. FlightInv'
      <3>1. /\ \A a, d \in Callers : (InCall(a))' /\ (InCall(d))' => a = d
            /\ ~(\A d \in Callers : ~(InCall(d))')
        BY <2>6
      <3>2. \A d \in Callers : calls'[d].pc = "got" => Unsent' /\ calls'[d].from \in {0, calls'[d].id}
        BY <2>2, <2>4, <2>7, <2>8
      <3>3. \A d \in Callers : calls'[d].pc # "wait"
        BY <2>4, <2>7
      <3> QED  BY <3>1, <3>2, <3>3 DEF FlightInv
    <2>10. CurrentFacts /\ CurrentFacts'
      BY <2>9, CurrentIs, CurrentNext
    <2>11. CurrentCall = CallOf(c, x.code)
      BY <1>0, <1>2, <2>1, <2>2, <2>10 DEF CurrentFacts, Delivered
    <2>12. CurrentCall' = [opt |-> calls'[c].opt, topic |-> calls'[c].topic, code |-> calls'[c].code]
      BY <1>0, <1>2, <2>4, <2>10 DEF CurrentFacts, CallOf
    <2> QED  BY <2>4, <2>9, <2>11, <2>12 DEF CallOf
  <1> QED  BY <1>1, <1>2

\* The receiving thread delivers the answer, which is that of the call.
LEMMA ResultFlight ==
  ASSUME TypeOK, TypeOK', FlightInv, RecvResult
  PROVE  FlightInv' /\ CurrentCall' = CurrentCall
  <1>0. trust' = trust /\ calls' = calls /\ toServer' = toServer /\ toClient' = Tail(toClient)
    BY DEF RecvResult
  <1>1. CASE ~trust
    <2>1. FlightInv'
      BY <1>0, <1>1 DEF FlightInv
    <2>2. CurrentFacts /\ CurrentFacts'
      BY <2>1, CurrentIs, CurrentNext
    <2> QED  BY <1>0, <1>1, <2>1, <2>2 DEF CurrentFacts
  <1>2. CASE trust
    <2> DEFINE l == Len(toClient)
               x == Head(toClient)
    <2>1. /\ l \in Nat /\ l > 0 /\ x = toClient[1] /\ x.kind = "answer"
          /\ \A n : n \in Answered(toClient') <=> n \in 1..l - 1 /\ n + 1 \in Answered(toClient)
      BY <1>0, AnsweredTail DEF TypeOK, RecvResult
    <2>2. 1 \in Answered(toClient)
      BY <2>1 DEF Answered
    <2>3. x \in Answers
      <3>1. x \in Answers \cup Datas
        BY HeadTailProperties DEF RecvResult, TypeOK
      <3> QED  BY <2>1, <3>1 DEF Datas
    <2>4. PICK c \in Callers : calls[c].pc = "wait" /\ OnTheWay(c)
      BY <1>2, <2>2 DEF FlightInv, InCall, Unsent, AtServer, Delivered
    <2>5. PICK n \in 1..l : Answered(toClient) = {n} /\ toClient[n].id = calls[c].id
      BY <2>4 DEF OnTheWay
    <2>6. n = 1 /\ Answered(toClient) = {1} /\ x.id = calls[c].id
      BY <2>1, <2>2, <2>5
    <2>7. Answered(toClient') = {}
      <3> HIDE DEF l
      <3> QED  BY <2>1, <2>6
    <2>8. resultQueue = <<>> /\ toServer' = <<>>
      BY <1>0, <2>4 DEF OnTheWay
    <2>9. resultQueue' = <<x>>
      <3>1. resultQueue' = Append(<<>>, x)
        BY <2>8 DEF RecvResult
      <3> HIDE DEF x
      <3> QED  BY <3>1
    <2> HIDE DEF x, l
    <2>10. (Delivered(c))'
      BY <1>0, <2>3, <2>6, <2>7, <2>8, <2>9 DEF Delivered
    <2>11. FlightInv'
      <3>1. \A d \in Callers : (InCall(d))' <=> d = c
        BY <1>0, <1>2, <2>4 DEF FlightInv, InCall
      <3>2. \A d \in Callers : calls'[d].pc \in {"wait", "got"} => d = c
        BY <3>1 DEF InCall
      <3>3. \A d \in Callers : calls'[d].pc # "got"
        BY <1>0, <2>4, <3>2
      <3>4. /\ \A a, d \in Callers : (InCall(a))' /\ (InCall(d))' => a = d
            /\ ~(\A d \in Callers : ~(InCall(d))')
        BY <3>1
      <3>5. \A d \in Callers : calls'[d].pc = "wait" => (Delivered(d))'
        BY <2>10, <3>2
      <3> QED  BY <3>3, <3>4, <3>5 DEF FlightInv
    <2>12. CurrentFacts /\ CurrentFacts'
      BY <2>11, CurrentIs, CurrentNext
    <2>13. CurrentCall = CallOf(c, x.code)
      <3>1. 1 \in 1..Len(toClient) /\ toClient[1] = x
        BY <2>1 DEF l
      <3> QED  BY <1>2, <2>4, <2>6, <2>8, <2>12, <3>1 DEF CurrentFacts
    <2>14. CurrentCall' = [opt |-> calls'[c].opt, topic |-> calls'[c].topic, code |-> x.code]
      BY <1>0, <1>2, <2>3, <2>4, <2>6, <2>7, <2>9, <2>12 DEF CurrentFacts, CallOf
    <2> QED  BY <1>0, <2>11, <2>13, <2>14 DEF CallOf
  <1> QED  BY <1>1, <1>2

\* The server answers the request of the call in progress: the only one there is.
LEMMA ServeFlight ==
  ASSUME TypeOK, TypeOK', FlightInv, Serve, trust
  PROVE  /\ FlightInv'
         /\ \E c \in Callers, code \in {"ok", "failed"} :
              /\ calls[c].pc = "wait" /\ calls' = calls
              /\ Head(toServer).opt = calls[c].opt /\ Head(toServer).topic = calls[c].topic
              /\ CurrentCall = CallOf(c, "none") /\ CurrentCall' = CallOf(c, code)
              /\ accepted' = IF code = "ok" THEN Applied(Head(toServer), accepted) ELSE accepted
  <1> DEFINE r == Head(toServer)
             l == Len(toClient)
  <1>0. trust' = trust /\ calls' = calls /\ resultQueue' = resultQueue /\ toServer # <<>>
    BY DEF Serve, callVars
  <1>1. PICK c \in Callers : calls[c].pc = "wait" /\ AtServer(c)
    BY <1>0 DEF FlightInv, InCall, Unsent, OnTheWay, Delivered
  <1>2. /\ r = [opt |-> calls[c].opt, topic |-> calls[c].topic, id |-> calls[c].id]
        /\ toServer = <<r>> /\ Len(toServer) = 1
    BY <1>1 DEF AtServer
  <1>3. r.opt = calls[c].opt /\ r.topic = calls[c].topic /\ r.id = calls[c].id
    BY <1>2
  <1>4. toServer' = <<>>
    <2>1. PICK lost \in 0..(Len(toServer) - 1) : toServer' = SubSeq(toServer, 2 + lost, Len(toServer))
      BY DEF Serve
    <2>2. lost = 0
      BY <1>2
    <2>3. toServer' = SubSeq(toServer, 2, 1)
      BY <1>2, <2>1, <2>2
    <2> QED  BY <2>3, SubSeqProperties, EmptySeq DEF TypeOK
  <1>5. PICK code \in {"ok", "failed"} :
          /\ toClient' = Append(toClient, Answer(r.id, code))
          /\ accepted' = IF code = "ok" THEN Applied(r, accepted) ELSE accepted
    BY DEF Serve
  <1> DEFINE x == Answer(r.id, code)
  <1>6. x.kind = "answer" /\ x.id = calls[c].id /\ x.code = code
    BY <1>3 DEF Answer
  <1>7. resultQueue = <<>> /\ Answered(toClient) = {}
    BY <1>1 DEF AtServer
  <1> HIDE DEF x, r
  <1>8. /\ l \in Nat /\ Len(toClient') = l + 1 /\ Answered(toClient') = {l + 1}
        /\ toClient'[l + 1] = x
    <2> DEFINE q == Append(toClient, x)
    <2>1. toClient \in Seq(Answers \cup Datas) /\ l \in Nat
      BY LenProperties DEF TypeOK
    <2>2. /\ Len(q) = l + 1 /\ q[l + 1] = x
          /\ Answered(q) = Answered(toClient) \cup (IF x.kind = "answer" THEN {l + 1} ELSE {})
      BY <2>1, AnsweredAppend
    <2>3. toClient' = q
      BY <1>5 DEF x
    <2> HIDE DEF q
    <2> QED  BY <1>6, <1>7, <2>1, <2>2, <2>3
  <1> HIDE DEF l
  <1>9. (OnTheWay(c))'
    BY <1>0, <1>4, <1>6, <1>7, <1>8 DEF OnTheWay
  <1>10. FlightInv'
    <2>1. \A d \in Callers : (InCall(d))' <=> d = c
      BY <1>0, <1>1 DEF FlightInv, InCall
    <2>2. \A d \in Callers : calls'[d].pc \in {"wait", "got"} => d = c
      BY <2>1 DEF InCall
    <2>3. \A d \in Callers : calls'[d].pc # "got"
      BY <1>0, <1>1, <2>2
    <2>4. /\ \A a, d \in Callers : (InCall(a))' /\ (InCall(d))' => a = d
          /\ ~(\A d \in Callers : ~(InCall(d))')
      BY <2>1
    <2>5. \A d \in Callers : calls'[d].pc = "wait" => (OnTheWay(d))'
      BY <1>9, <2>2
    <2> QED  BY <2>3, <2>4, <2>5 DEF FlightInv
  <1>11. CurrentFacts /\ CurrentFacts'
    BY <1>10, CurrentIs, CurrentNext
  <1>12. CurrentCall = CallOf(c, "none")
    BY <1>1, <1>11 DEF CurrentFacts
  <1>13. CurrentCall' = [opt |-> calls'[c].opt, topic |-> calls'[c].topic, code |-> x.code]
    <2>1. l + 1 \in 1..Len(toClient')
      BY <1>8
    <2> QED  BY <1>0, <1>1, <1>6, <1>7, <1>8, <1>11, <2>1 DEF CurrentFacts, CallOf
  <1>14. CurrentCall' = CallOf(c, code)
    BY <1>0, <1>6, <1>13 DEF CallOf
  <1> QED  BY <1>0, <1>1, <1>3, <1>5, <1>10, <1>12, <1>14 DEF r

\* A call gives up, or a call begins while another is in progress.
LEMMA DistrustFlight ==
  ASSUME ~trust' PROVE FlightInv' /\ HandleInv'
  BY DEF FlightInv, HandleInv

\* The fields of a call hold what they should after every step.
LEMMA StepCall ==
  ASSUME TypeOK, CallInv, Next
  PROVE  CallInv'
  <1> DEFINE Ok(r) == /\ r.pc \in {"lock", "wait", "got"} => r.id \in 1..MaxCalls
                      /\ r.pc \in {"lock", "wait"} => r.from = 0
                      /\ r.pc = "got" => r.code \in {"ok", "failed"}
  <1>0. \A d \in Callers : Ok(calls[d])
    BY DEF CallInv
  <1>1. ASSUME NEW c \in Callers, OthersKeep(c), Ok(calls'[c]), session' = "open" => stream'
        PROVE  CallInv'
    <2>1. \A d \in Callers : Ok(calls'[d])
      <3> HIDE DEF Ok
      <3> QED  BY <1>0, <1>1 DEF OthersKeep
    <2> QED  BY <1>1, <2>1 DEF CallInv
  <1>2. ASSUME calls' = calls, session' = "open" => stream' PROVE CallInv'
    BY <1>2 DEF CallInv
  <1>3. session = "open" => stream
    BY DEF CallInv
  <1>4. ASSUME NEW c \in Callers, Caller(c) PROVE CallInv'
    <2>1. CASE Sends(c)
      <3>1. Ok(calls'[c]) /\ OthersKeep(c)
        BY <2>1, SendsCall DEF CallInv
      <3> QED  BY <1>1, <1>3, <2>1, <3>1 DEF Sends, sessionVars
    <2>2. CASE WaitTimeAndPop(c) \/ TimesOut(c)
      <3>1. Ok(calls'[c]) /\ OthersKeep(c)
        BY <2>2, GotCall DEF CallInv
      <3> QED  BY <1>1, <1>3, <2>2, <3>1 DEF WaitTimeAndPop, TimesOut, sessionVars
    <2>3. CASE Returns(c)
      <3>1. Ok(calls'[c]) /\ OthersKeep(c)
        BY <2>3, EndsCall DEF CallInv
      <3> QED  BY <1>1, <1>3, <2>3, <3>1 DEF Returns, sessionVars
    <2>4. CASE CloseEnds(c)
      <3>1. Ok(calls'[c]) /\ OthersKeep(c)
        BY <2>4, EndsCall DEF CallInv
      <3>2. session' = "none"
        BY <2>4 DEF CloseEnds
      <3> QED  BY <1>1, <3>1, <3>2
    <2> QED  BY <1>4, <2>1, <2>2, <2>3, <2>4 DEF Caller
  <1>5. CASE HandleRecv
    <2>1. calls' = calls /\ session' = session /\ stream' = stream
      BY <1>5 DEF HandleRecv, RecvCheck, RecvNothing, RecvResult, RecvData, Callback, Handled, callVars, sessionVars
    <2> QED  BY <1>2, <1>3, <2>1
  <1>6. CASE InitOk \/ InitFails
    BY <1>2, <1>6 DEF InitOk, InitFails
  <1>7. ASSUME NEW c \in Threads, CloseBegins(c) PROVE CallInv'
    <2>1. c \in Callers
      BY DEF Callers
    <2>2. Ok(calls'[c]) /\ OthersKeep(c)
      BY <1>7, <2>1, ClosingCall
    <2> QED  BY <1>1, <1>3, <1>7, <2>1, <2>2 DEF CloseBegins
  <1>8. ASSUME NEW c \in Callers, NEW opt \in Opts, NEW t \in Topics, Begins(c, opt, t)
        PROVE  CallInv'
    <2>1. Ok(calls'[c]) /\ OthersKeep(c)
      BY <1>8, BeginsCall
    <2> QED  BY <1>1, <1>3, <1>8, <2>1 DEF Begins, sessionVars
  <1>9. CASE Serve \/ Stops \/ \E t \in Topics : Publishes(t)
    <2>1. calls' = calls /\ session' = session /\ stream' = stream
      BY <1>9 DEF Serve, Stops, Publishes, callVars, sessionVars
    <2> QED  BY <1>2, <1>3, <2>1
  <1> QED  BY <1>4, <1>5, <1>6, <1>7, <1>8, <1>9, SdkAssumption DEF Next, Application, CallbackCalls, Callers

-----------------------------------------------------------------------------
(* The callbacks are those of the accepted topics                          *)

\* A call in progress is not NoCall.
LEMMA CallOfReal ==
  ASSUME TypeOK, NEW c \in Callers, NEW code \in {"none", "ok", "failed"}
  PROVE  /\ CallOf(c, code) # NoCall /\ CallOf(c, code).opt = calls[c].opt
         /\ CallOf(c, code).topic = calls[c].topic /\ CallOf(c, code).code = code
         /\ calls[c].opt \in Opts /\ calls[c].topic \in Topics
  <1>1. calls[c] \in CallRecords
    BY DEF TypeOK
  <1>2. calls[c].opt \in Opts /\ calls[c].topic \in Topics
    BY <1>1 DEF CallRecords
  <1> QED  BY <1>2, SdkAssumption DEF CallOf

\* A step that changes neither the call in progress nor the callbacks.
LEMMA HandleFrame ==
  ASSUME TypeOK, HandleInv, trust' = trust, CurrentCall' = CurrentCall, topicHandle' = topicHandle,
         session' = "open" /\ up' => session = "open" /\ up,
         accepted' \subseteq accepted, accepted \subseteq accepted' \cup OnceTopics \/ ~up'
  PROVE  HandleInv'
  <1> SUFFICES ASSUME trust, NEW t \in Topics
               PROVE  /\ topicHandle[t] >= 0 /\ (Registering(t) => topicHandle[t] > 0)
                      /\ session' = "open" /\ up' =>
                           /\ t \in accepted' => Kept(t) > 0 /\ ~Erasing(t)
                           /\ Kept(t) > 0 => t \in accepted' \cup OnceTopics \/ Erasing(t)
    BY DEF HandleInv, Registering, Erasing, Kept
  <1> QED  BY DEF HandleInv

\* A call begins: Subscribe registers its callback.
LEMMA SendsHandle ==
  ASSUME TypeOK, TypeOK', CallInv, FlightInv, HandleInv, NEW c \in Callers, Sends(c), trust'
  PROVE  HandleInv'
  <1>1. /\ FlightInv' /\ trust /\ (\A d \in Callers : ~InCall(d))
        /\ calls'[c].pc \in {"wait", "got"}
        /\ calls'[c].pc = "wait" => Unsent' \/ (AtServer(c))'
        /\ calls'[c].pc = "got" => calls'[c].code = "failed"
    BY SendsFlight
  <1>2. CurrentFacts /\ CurrentFacts'
    BY <1>1, CurrentIs, CurrentNext
  <1>3. CurrentCall = NoCall
    BY <1>1, <1>2 DEF CurrentFacts
  <1>4. PICK code \in {"none", "failed"} :
          CurrentCall' = [opt |-> calls'[c].opt, topic |-> calls'[c].topic, code |-> code]
    BY <1>1, <1>2 DEF CurrentFacts, CallOf
  <1>5. CurrentCall' = CallOf(c, code)
    BY <1>4, SendsCall DEF CallOf
  <1>6. /\ CurrentCall' # NoCall /\ CurrentCall'.opt = calls[c].opt
        /\ CurrentCall'.topic = calls[c].topic /\ CurrentCall'.code = code /\ code # "ok"
        /\ calls[c].topic \in Topics
    BY <1>5, CallOfReal
  <1>7. UNCHANGED <<session, up, accepted>>
    BY DEF Sends, sessionVars
  <1>8. topicHandle \in [Topics -> Int]
    BY DEF TypeOK
  <1>9. \A t \in Topics : topicHandle'[t] =
          IF calls[c].opt = "SUBSCRIBE" /\ t = calls[c].topic THEN topicHandle[t] + 1 ELSE topicHandle[t]
    BY <1>6, <1>8 DEF Sends
  <1>10. ASSUME NEW t \in Topics
         PROVE  /\ topicHandle[t] \in Int /\ topicHandle[t] >= 0
                /\ session = "open" /\ up =>
                     /\ t \in accepted => topicHandle[t] > 0
                     /\ topicHandle[t] > 0 => t \in accepted \cup OnceTopics
    BY <1>1, <1>3, <1>8 DEF HandleInv, Kept, Registering, Erasing
  <1>11. ASSUME NEW t \in Topics
         PROVE  /\ Registering(t)' <=> calls[c].opt = "SUBSCRIBE" /\ t = calls[c].topic
                /\ ~(Erasing(t))'
                /\ Kept(t)' = topicHandle[t]
    <2>1. Registering(t)' <=> calls[c].opt = "SUBSCRIBE" /\ t = calls[c].topic
      BY <1>6 DEF Registering
    <2>2. ~(Erasing(t))'
      BY <1>6 DEF Erasing
    <2>3. Kept(t)' = topicHandle[t]
      BY <1>6, <1>9, <1>10, <2>1 DEF Kept
    <2> QED  BY <2>1, <2>2, <2>3
  <1>12. ASSUME NEW t \in Topics
         PROVE  topicHandle'[t] >= 0 /\ (Registering(t)' => topicHandle'[t] > 0)
    BY <1>9, <1>10, <1>11
  <1> QED  BY <1>7, <1>10, <1>11, <1>12 DEF HandleInv

\* A call returns: a refused Subscribe withdraws its callback, an accepted
\* Unsubscribe erases them all.
LEMMA ReturnsHandle ==
  ASSUME TypeOK, TypeOK', CallInv, FlightInv, HandleInv, NEW c \in Callers, Returns(c), trust
  PROVE  HandleInv' /\ CurrentCall = CallOf(c, calls[c].code) /\ CurrentCall' = NoCall
  <1>1. FlightInv' /\ (\A d \in Callers : ~(InCall(d))')
    BY ReturnsFlight
  <1>2. CurrentFacts /\ CurrentFacts'
    BY <1>1, CurrentIs, CurrentNext
  <1>3. calls[c].pc = "got" /\ calls[c].code \in {"ok", "failed"}
    BY EndsCall DEF CallInv
  <1>4. CurrentCall = CallOf(c, calls[c].code) /\ CurrentCall' = NoCall
    BY <1>1, <1>2, <1>3 DEF CurrentFacts
  <1>5. /\ CurrentCall # NoCall /\ CurrentCall.opt = calls[c].opt
        /\ CurrentCall.topic = calls[c].topic /\ CurrentCall.code = calls[c].code
        /\ calls[c].topic \in Topics
    BY <1>3, <1>4, CallOfReal
  <1>6. UNCHANGED <<session, up, accepted>>
    BY DEF Returns, sessionVars, serverVars
  <1>7. topicHandle \in [Topics -> Int]
    BY DEF TypeOK
  <1>8. \A t \in Topics :
          /\ t # calls[c].topic => topicHandle'[t] = topicHandle[t]
          /\ t = calls[c].topic => topicHandle'[t] =
               IF Pops(calls[c]) THEN topicHandle[t] - 1
               ELSE IF Erases(calls[c]) THEN 0 ELSE topicHandle[t]
    BY <1>5, <1>7 DEF Returns
  <1>9. ASSUME NEW t \in Topics
        PROVE  /\ Registering(t) <=> calls[c].opt = "SUBSCRIBE" /\ t = calls[c].topic
               /\ Erasing(t) <=> Erases(calls[c]) /\ t = calls[c].topic
               /\ Kept(t) = IF Pops(calls[c]) /\ t = calls[c].topic THEN topicHandle[t] - 1
                            ELSE topicHandle[t]
    <2>1. Registering(t) <=> calls[c].opt = "SUBSCRIBE" /\ t = calls[c].topic
      BY <1>5 DEF Registering
    <2>2. Erasing(t) <=> Erases(calls[c]) /\ t = calls[c].topic
      BY <1>5 DEF Erasing, Erases
    <2>3. Kept(t) = IF Pops(calls[c]) /\ t = calls[c].topic THEN topicHandle[t] - 1 ELSE topicHandle[t]
      BY <1>3, <1>5, <2>1 DEF Kept, Pops
    <2> QED  BY <2>1, <2>2, <2>3
  <1>10. Pops(calls[c]) => calls[c].opt = "SUBSCRIBE" /\ ~Erases(calls[c])
    BY DEF Pops, Erases
  <1>11. ASSUME NEW t \in Topics
         PROVE  topicHandle'[t] = IF Erasing(t) THEN 0 ELSE Kept(t)
    BY <1>8, <1>9, <1>10
  <1>12. ASSUME NEW t \in Topics
         PROVE  ~Registering(t)' /\ ~Erasing(t)' /\ Kept(t)' = topicHandle'[t]
    BY <1>4 DEF Registering, Erasing, Kept
  <1>13. ASSUME NEW t \in Topics
         PROVE  /\ topicHandle[t] \in Int /\ topicHandle[t] >= 0
                /\ Registering(t) => topicHandle[t] > 0
                /\ session = "open" /\ up =>
                     /\ t \in accepted => Kept(t) > 0 /\ ~Erasing(t)
                     /\ Kept(t) > 0 => t \in accepted \cup OnceTopics \/ Erasing(t)
    BY <1>7 DEF HandleInv
  <1>14. ASSUME NEW t \in Topics PROVE topicHandle'[t] >= 0
    <2>1. Kept(t) >= 0
      BY <1>9, <1>10, <1>13
    <2> QED  BY <1>11, <2>1
  <1>15. ASSUME NEW t \in Topics, session' = "open", up'
         PROVE  /\ t \in accepted' => topicHandle'[t] > 0
                /\ topicHandle'[t] > 0 => t \in accepted' \cup OnceTopics
    BY <1>6, <1>11, <1>13, <1>15
  <1> QED  BY <1>4, <1>12, <1>14, <1>15 DEF HandleInv

\* The server decides about the call in progress.
LEMMA ServeHandle ==
  ASSUME TypeOK, TypeOK', FlightInv, HandleInv, Serve, trust
  PROVE  HandleInv'
  <1> DEFINE r == Head(toServer)
  <1>1. PICK c \in Callers, code \in {"ok", "failed"} :
          /\ r.opt = calls[c].opt /\ r.topic = calls[c].topic
          /\ CurrentCall = CallOf(c, "none") /\ CurrentCall' = CallOf(c, code)
          /\ accepted' = IF code = "ok" THEN Applied(r, accepted) ELSE accepted
    <2>1. \E c \in Callers, code \in {"ok", "failed"} :
            /\ r.opt = calls[c].opt /\ r.topic = calls[c].topic
            /\ CurrentCall = CallOf(c, "none") /\ CurrentCall' = CallOf(c, code)
            /\ accepted' = IF code = "ok" THEN Applied(r, accepted) ELSE accepted
      BY ServeFlight
    <2> QED  BY <2>1
  <1>2. /\ CurrentCall # NoCall /\ CurrentCall.opt = r.opt /\ CurrentCall.topic = r.topic
        /\ CurrentCall.code = "none"
        /\ CurrentCall' # NoCall /\ CurrentCall'.opt = r.opt /\ CurrentCall'.topic = r.topic
        /\ CurrentCall'.code = code
    BY <1>1, CallOfReal
  <1> HIDE DEF r
  <1>3. UNCHANGED <<session, up, topicHandle, trust>> /\ topicHandle \in [Topics -> Int]
    BY DEF Serve, sessionVars, callVars, TypeOK
  <1>4. ASSUME NEW t \in Topics
        PROVE  /\ topicHandle[t] \in Int /\ topicHandle[t] >= 0
               /\ Registering(t) => topicHandle[t] > 0
               /\ session = "open" /\ up =>
                    /\ t \in accepted => Kept(t) > 0 /\ ~Erasing(t)
                    /\ Kept(t) > 0 => t \in accepted \cup OnceTopics \/ Erasing(t)
    BY <1>3 DEF HandleInv
  <1>5. ASSUME NEW t \in Topics
        PROVE  /\ Registering(t) <=> r.opt = "SUBSCRIBE" /\ r.topic = t
               /\ Registering(t)' <=> Registering(t)
               /\ ~Erasing(t)
               /\ Erasing(t)' <=> r.opt = "UNSUBSCRIBE" /\ r.topic = t /\ code = "ok"
               /\ Kept(t) = IF Registering(t) THEN topicHandle[t] - 1 ELSE topicHandle[t]
               /\ Kept(t)' = IF Registering(t) /\ code # "ok" THEN topicHandle[t] - 1 ELSE topicHandle[t]
    <2>1. /\ Registering(t) <=> r.opt = "SUBSCRIBE" /\ r.topic = t
          /\ Registering(t)' <=> Registering(t)
      BY <1>2 DEF Registering
    <2>2. ~Erasing(t) /\ (Erasing(t)' <=> r.opt = "UNSUBSCRIBE" /\ r.topic = t /\ code = "ok")
      BY <1>2 DEF Erasing
    <2>3. /\ Kept(t) = IF Registering(t) THEN topicHandle[t] - 1 ELSE topicHandle[t]
          /\ Kept(t)' = IF Registering(t) /\ code # "ok" THEN topicHandle[t] - 1 ELSE topicHandle[t]
      BY <1>2, <1>3, <2>1 DEF Kept
    <2> QED  BY <2>1, <2>2, <2>3
  <1>6. ASSUME NEW t \in Topics
        PROVE  t \in accepted' <=> \/ t \in accepted /\ ~Erasing(t)'
                                   \/ Registering(t) /\ code = "ok"
    <2>1. CASE code = "ok"
      BY <1>1, <1>5, <2>1 DEF Applied
    <2>2. CASE code # "ok"
      BY <1>1, <1>5, <2>2
    <2> QED  BY <2>1, <2>2
  <1>7. ASSUME NEW t \in Topics
        PROVE  /\ topicHandle[t] >= 0 /\ (Registering(t)' => topicHandle[t] > 0)
               /\ session = "open" /\ up =>
                    /\ t \in accepted' => Kept(t)' > 0 /\ ~Erasing(t)'
                    /\ Kept(t)' > 0 => t \in accepted' \cup OnceTopics \/ Erasing(t)'
    <2>1. t \in accepted' => ~Erasing(t)'
      BY <1>5, <1>6
    <2>2. Kept(t)' = Kept(t) \/ (Registering(t) /\ code = "ok" /\ Kept(t)' = topicHandle[t])
      BY <1>5
    <2> QED  BY <1>4, <1>5, <1>6, <2>1, <2>2
  <1> QED  BY <1>3, <1>7 DEF HandleInv

\* No call is in progress before or after the step.
LEMMA QuietCurrent ==
  ASSUME TypeOK, TypeOK', FlightInv, FlightInv', \A d \in Callers : ~(InCall(d))'
  PROVE  /\ CurrentCall' = NoCall
         /\ (\A d \in Callers : ~InCall(d)) => CurrentCall = NoCall
  BY CurrentIs, CurrentNext DEF CurrentFacts

\* Close and Init leave no callbacks, or a session that is not open.
LEMMA SessionHandle ==
  ASSUME TypeOK, TypeOK', FlightInv, HandleInv,
         (\E c \in Callers : CloseEnds(c)) \/ InitOk \/ InitFails, trust'
  PROVE  HandleInv' /\ CurrentCall' = NoCall /\ CurrentCall = NoCall
  <1>1. FlightInv' /\ (\A d \in Callers : ~(InCall(d))' /\ ~InCall(d)) /\ (InitOk \/ trust)
    BY SessionFlight
  <1>2. CurrentCall' = NoCall /\ CurrentCall = NoCall
    BY <1>1, QuietCurrent
  <1>3. ASSUME NEW t \in Topics
        PROVE  ~Registering(t)' /\ ~Erasing(t)' /\ Kept(t)' = topicHandle'[t]
    BY <1>2 DEF Registering, Erasing, Kept
  <1>4. ASSUME (\E c \in Callers : CloseEnds(c)) \/ InitOk PROVE HandleInv'
    <2>1. (\A t \in Topics : topicHandle'[t] = 0) /\ accepted' = {}
      BY <1>4 DEF CloseEnds, InitOk
    <2> QED  BY <1>3, <2>1 DEF HandleInv
  <1>5. ASSUME InitFails, trust PROVE HandleInv'
    <2>1. topicHandle' = topicHandle /\ session' # "open" /\ \A t \in Topics : topicHandle[t] >= 0
      BY <1>5 DEF InitFails, HandleInv
    <2> QED  BY <1>3, <2>1 DEF HandleInv
  <1> QED  BY <1>1, <1>2, <1>4, <1>5

\* The steps of FrameSteps: what they leave of the callbacks.
LEMMA FrameHandle ==
  ASSUME TypeOK, TypeOK', FlightInv, HandleInv,
         \/ \E c \in Callers : \/ CloseBegins(c)
                               \/ \E opt \in Opts, t \in Topics : Begins(c, opt, t)
         \/ RecvCheck \/ RecvNothing \/ RecvData \/ Callback \/ Handled
         \/ \E t \in Topics : Publishes(t)
         \/ Stops \/ UNCHANGED vars
  PROVE  /\ FlightInv' /\ HandleInv' /\ CurrentCall' = CurrentCall
         /\ UNCHANGED <<trust, returned>> /\ accepted' \subseteq accepted
  <1>1. FlightSame
    BY FrameSteps
  <1>2. FlightInv' /\ CurrentCall' = CurrentCall /\ trust' = trust
    BY <1>1, FlightFrame, CurrentFrame DEF FlightSame
  <1>3. ASSUME \/ \E c \in Callers : \/ CloseBegins(c)
                                     \/ \E opt \in Opts, t \in Topics : Begins(c, opt, t)
               \/ RecvCheck \/ RecvNothing \/ RecvData \/ Callback \/ Handled
               \/ UNCHANGED vars
        PROVE  UNCHANGED <<topicHandle, session, up, accepted, returned>>
    BY <1>3 DEF CloseBegins, Begins, RecvCheck, RecvNothing, RecvData, Callback, Handled,
                vars, callVars, sessionVars, serverVars
  <1>4. ASSUME NEW t \in Topics, Publishes(t)
        PROVE  /\ UNCHANGED <<topicHandle, session, up, returned>>
               /\ accepted' \subseteq accepted /\ accepted \subseteq accepted' \cup OnceTopics
    BY <1>4 DEF Publishes, callVars, sessionVars
  <1>5. CASE Stops
    <2>1. UNCHANGED <<topicHandle, session, returned>> /\ ~up' /\ accepted' = {}
      BY <1>5 DEF Stops, callVars, sessionVars
    <2> QED  BY <1>2, <2>1, HandleFrame
  <1>6. ASSUME UNCHANGED <<topicHandle, session, up, accepted>> PROVE HandleInv'
    BY <1>2, <1>6, HandleFrame
  <1>7. ASSUME NEW t \in Topics, Publishes(t) PROVE HandleInv'
    BY <1>2, <1>4, <1>7, HandleFrame
  <1>8. Stops => returned' = returned /\ accepted' \subseteq accepted
    BY DEF Stops, callVars
  <1> QED  BY <1>2, <1>3, <1>4, <1>5, <1>6, <1>7, <1>8

\* A result is delivered or taken.
LEMMA ResultHandle ==
  ASSUME TypeOK, TypeOK', FlightInv, HandleInv,
         RecvResult \/ \E c \in Callers : WaitTimeAndPop(c)
  PROVE  /\ FlightInv' /\ HandleInv' /\ CurrentCall' = CurrentCall
         /\ UNCHANGED <<trust, returned, accepted>>
  <1>1. FlightInv' /\ CurrentCall' = CurrentCall
    BY ResultFlight, PopFlight
  <1>2. UNCHANGED <<trust, returned, accepted, topicHandle, session, up>>
    BY DEF RecvResult, WaitTimeAndPop, sessionVars, serverVars
  <1> QED  BY <1>1, <1>2, HandleFrame

-----------------------------------------------------------------------------
(* The invariant                                                           *)

LEMMA StepType ==
  ASSUME TypeOK, CallInv, Next PROVE TypeOK'
  BY CallerType, HandleRecvType, ApplicationType, ServerType DEF Next

\* The kinds of steps that the rest of the proofs tell apart.
LEMMA Kinds ==
  ASSUME Next
  PROVE  \/ \E c \in Callers : Sends(c) \/ Returns(c) \/ TimesOut(c)
         \/ (\E c \in Callers : CloseEnds(c)) \/ InitOk \/ InitFails
         \/ RecvResult \/ \E c \in Callers : WaitTimeAndPop(c)
         \/ Serve
         \/ \E c \in Callers : \/ CloseBegins(c)
                               \/ \E opt \in Opts, t \in Topics : Begins(c, opt, t)
         \/ RecvCheck \/ RecvNothing \/ RecvData \/ Callback \/ Handled
         \/ \E t \in Topics : Publishes(t)
         \/ Stops
  <1>1. CASE \E c \in Callers : Caller(c)
    BY <1>1 DEF Caller
  <1>2. CASE HandleRecv
    BY <1>2 DEF HandleRecv
  <1>3. CASE Application
    BY <1>3, SdkAssumption DEF Application, CallbackCalls, Callers
  <1> QED  BY <1>1, <1>2, <1>3 DEF Next

LEMMA StepFlight ==
  ASSUME TypeOK, TypeOK', CallInv, FlightInv, HandleInv, Next
  PROVE  FlightInv' /\ HandleInv'
  <1> SUFFICES ASSUME trust' PROVE FlightInv' /\ HandleInv'
    BY DistrustFlight
  <1>1. ASSUME NEW c \in Callers, Sends(c) PROVE FlightInv' /\ HandleInv'
    BY <1>1, SendsFlight, SendsHandle
  <1>2. ASSUME NEW c \in Callers, Returns(c) PROVE FlightInv' /\ HandleInv'
    <2>1. trust
      BY <1>2 DEF Returns
    <2> QED  BY <1>2, <2>1, ReturnsFlight, ReturnsHandle
  <1>3. ASSUME NEW c \in Callers, TimesOut(c) PROVE FALSE
    BY <1>3 DEF TimesOut
  <1>4. CASE (\E c \in Callers : CloseEnds(c)) \/ InitOk \/ InitFails
    BY <1>4, SessionFlight, SessionHandle
  <1>5. CASE RecvResult \/ \E c \in Callers : WaitTimeAndPop(c)
    BY <1>5, ResultHandle
  <1>6. CASE Serve
    <2>1. trust
      BY <1>6 DEF Serve, callVars
    <2> QED  BY <1>6, <2>1, ServeFlight, ServeHandle
  <1> QED  BY <1>1, <1>2, <1>3, <1>4, <1>5, <1>6, Kinds, FrameHandle

\* A crash needs a list that two threads, or a call that gave up, disturbed.
LEMMA StepCrash ==
  ASSUME TypeOK, HandleInv, Next
  PROVE  CrashNeedsOverlap'
  <1>0. crashed = FALSE /\ (trust => \A t \in Topics : topicHandle[t] >= 0)
    BY DEF Next, HandleInv, TypeOK
  <1>1. ASSUME NEW c \in Callers, Sends(c) PROVE CrashNeedsOverlap'
    <2>1. calls[c].topic \in Topics
      BY DEF TypeOK, CallRecords
    <2>2. crashed' => topicHandle[calls[c].topic] < 0
      BY <1>1 DEF Sends
    <2>3. trust' => trust
      BY <1>1 DEF Sends
    <2>4. topicHandle[calls[c].topic] \in Int
      BY <2>1 DEF TypeOK
    <2> QED  BY <1>0, <2>1, <2>2, <2>3, <2>4 DEF CrashNeedsOverlap
  <1>2. ASSUME NEW c \in Callers, CloseEnds(c) PROVE CrashNeedsOverlap'
    <2>1. ASSUME trust', NEW d \in Callers PROVE calls[d].pc # "wait"
      BY <1>2, <2>1 DEF CloseEnds, InCall
    <2>2. trust' => crashed' = FALSE
      BY <1>2, <2>1 DEF CloseEnds
    <2> QED  BY <2>2 DEF CrashNeedsOverlap
  <1>3. CASE RecvData
    <2> DEFINE t == Head(toClient).topic
    <2>1. t \in Topics
      <3>1. Head(toClient) \in Answers \cup Datas /\ Head(toClient).kind = "data"
        BY <1>3, HeadTailProperties DEF RecvData, TypeOK
      <3>2. Head(toClient) \in Datas
        BY <3>1 DEF Answers
      <3> QED  BY <3>2 DEF Datas
    <2>2. (crashed' => topicHandle[t] < 0) /\ trust' = trust
      BY <1>3 DEF RecvData, callVars
    <2> HIDE DEF t
    <2>3. topicHandle[t] \in Int
      BY <2>1 DEF TypeOK
    <2> QED  BY <1>0, <2>1, <2>2, <2>3 DEF CrashNeedsOverlap
  <1>4. CASE Callback
    <2>1. handling \in [topic : Topics, left : Int, stale : BOOLEAN]
      BY DEF TypeOK
    <2>2. handling' = [handling EXCEPT !.left = @ - 1]
      BY <1>4, Zenon DEF Callback
    <2>3. handling'.stale = handling.stale
      BY <2>1, <2>2
    <2>4. ~handling.stale => crashed' \in {FALSE}
      BY <1>4, Zenon DEF Callback
    <2>5. ~handling.stale => ~crashed'
      BY <2>4
    <2> QED  BY <2>3, <2>5 DEF CrashNeedsOverlap
  <1>5. ASSUME crashed' = crashed PROVE CrashNeedsOverlap'
    BY <1>0, <1>5 DEF CrashNeedsOverlap
  <1>6. ASSUME \/ \E c \in Callers : Returns(c) \/ TimesOut(c) \/ WaitTimeAndPop(c) \/ CloseBegins(c)
               \/ InitOk \/ InitFails \/ RecvResult \/ Serve
               \/ \E c \in Callers, opt \in Opts, t \in Topics : Begins(c, opt, t)
               \/ RecvCheck \/ RecvNothing \/ Handled \/ Stops
               \/ \E t \in Topics : Publishes(t)
        PROVE  crashed' = crashed
    BY <1>6 DEF Returns, TimesOut, WaitTimeAndPop, CloseBegins, InitOk, InitFails, RecvResult, Serve,
                Begins, RecvCheck, RecvNothing, Handled, Stops, Publishes
  <1> QED  BY <1>1, <1>2, <1>3, <1>4, <1>5, <1>6, Kinds

\* A process that has just started.
LEMMA InitSdkInv == Init => SdkInv
  <1> SUFFICES ASSUME Init PROVE SdkInv
    OBVIOUS
  <1>1. TypeOK
    <2>1. calls \in [Callers -> CallRecords]
      BY IdleType DEF Init
    <2>2. toServer \in Seq(Requests) /\ toClient \in Seq(Answers \cup Datas) /\ resultQueue \in Seq(Answers)
      BY EmptySeq DEF Init
    <2>3. handling \in [topic : Topics, left : Int, stale : BOOLEAN]
      BY IdleType DEF Init
    <2>4. /\ session \in {"none", "failed", "open"} /\ rpc \in {"none", "check", "read", "handle"}
          /\ stream \in BOOLEAN /\ finished \in BOOLEAN /\ isQuit \in BOOLEAN
          /\ up \in BOOLEAN /\ trust \in BOOLEAN /\ crashed \in BOOLEAN
          /\ subs \subseteq Topics /\ accepted \subseteq Topics /\ returned = NoCall
      BY DEF Init
    <2>5. /\ asked \in 0..MaxCalls /\ published \in 0..MaxData /\ inits \in 0..MaxInits
          /\ topicHandle \in [Topics -> Int]
      BY SdkBoundsAssumption DEF Init
    <2> QED  BY <2>1, <2>2, <2>3, <2>4, <2>5 DEF TypeOK
  <1>2. \A c \in Callers : calls[c].pc = "idle"
    BY IdleType DEF Init
  <1>3. CallInv
    BY <1>2 DEF CallInv, Init
  <1>4. FlightInv
    <2>1. Unsent
      BY EmptySeq DEF Init, Unsent, Answered
    <2> QED  BY <1>2, <2>1 DEF FlightInv, InCall
  <1>5. HandleInv
    <2>1. (\A t \in Topics : topicHandle[t] = 0) /\ session # "open"
      BY DEF Init
    <2>2. CurrentCall = NoCall
      BY <1>2 DEF CurrentCall, InCall
    <2>3. \A t \in Topics : ~Registering(t)
      BY <2>2 DEF Registering
    <2> QED  BY <2>1, <2>3 DEF HandleInv
  <1> QED  BY <1>1, <1>3, <1>4, <1>5 DEF SdkInv, CrashNeedsOverlap, Init

\* Every step keeps it.
LEMMA StepSdkInv == SdkInv /\ [Next]_vars => SdkInv'
  <1> SUFFICES ASSUME SdkInv, [Next]_vars PROVE SdkInv'
    OBVIOUS
  <1>0. TypeOK /\ CallInv /\ FlightInv /\ HandleInv /\ CrashNeedsOverlap
    BY DEF SdkInv
  <1>1. CASE Next
    <2>1. TypeOK' /\ CallInv'
      BY <1>0, <1>1, StepType, StepCall
    <2> QED  BY <1>0, <1>1, <2>1, StepFlight, StepCrash DEF SdkInv
  <1>2. CASE UNCHANGED vars
    <2>1. TypeOK' /\ CallInv' /\ CrashNeedsOverlap'
      BY <1>0, <1>2 DEF vars, TypeOK, CallInv, CrashNeedsOverlap
    <2> QED  BY <1>0, <1>2, <2>1, FrameHandle DEF SdkInv
  <1> QED  BY <1>1, <1>2

\* SdkInv holds in every state: as long as no call overlapped another or gave
\* up (oe_client.cpp:137), at most one request or answer is between the caller
\* and the server, and it belongs to the call in progress.
THEOREM SdkInvariance == Spec => []SdkInv
  <1>1. Init => SdkInv
    BY InitSdkInv
  <1>2. SdkInv /\ [Next]_vars => SdkInv'
    BY StepSdkInv
  <1> QED  BY <1>1, <1>2, PTL DEF Spec

\* The state of the SDK stays well formed (oe_client.cpp): the queue holds
\* answers, a call has the fields of its operation, the counters stay bounded.
THEOREM SdkTypeCorrect == Spec => []TypeOK
  <1>1. SdkInv => TypeOK
    BY DEF SdkInv
  <1> QED  BY <1>1, SdkInvariance, PTL

\* Between calls, the topics with callbacks are those the server answered it
\* would publish: Subscribe (oe_client.cpp:144) registers before it asks and
\* withdraws when refused, Unsubscribe (oe_client.cpp:158) erases when accepted.
THEOREM HandlersMatch == Spec => []HandlersMatchAnswers
  <1>1. SdkInv => HandlersMatchAnswers
    <2> SUFFICES ASSUME SdkInv, trust, session = "open", up, \A c \in Callers : ~InCall(c),
                        NEW t \in Topics
                 PROVE  /\ t \in accepted => topicHandle[t] > 0
                        /\ topicHandle[t] > 0 => t \in accepted \cup OnceTopics
      BY DEF HandlersMatchAnswers
    <2>1. CurrentCall = NoCall
      BY CurrentIs DEF SdkInv, CurrentFacts
    <2>2. Kept(t) = topicHandle[t] /\ ~Erasing(t)
      BY <2>1 DEF Kept, Registering, Erasing
    <2> QED  BY <2>2 DEF SdkInv, HandleInv
  <1> QED  BY <1>1, SdkInvariance, PTL

\* The process dies only of calls that overlapped, of a call that gave up, or of
\* callbacks that changed while HandleRecv (oe_client.cpp:75) ran them.
THEOREM CrashesNeedOverlap == Spec => []CrashNeedsOverlap
  <1>1. SdkInv => CrashNeedsOverlap
    BY DEF SdkInv
  <1> QED  BY <1>1, SdkInvariance, PTL

-----------------------------------------------------------------------------
(* Refinement                                                              *)

\* Nothing is promised before the first session.
LEMMA PromiseInit == Init => Promise!Init
  <1> SUFFICES ASSUME Init PROVE Promise!Init
    OBVIOUS
  <1>1. \A c \in Callers : calls[c].pc = "idle"
    BY IdleType DEF Init
  <1>2. CurrentCall = NoCall
    BY <1>1 DEF CurrentCall, InCall
  <1> QED  BY <1>2 DEF Init, Promise!Init

\* Every step is a step of the promise, or leaves it alone.
LEMMA PromiseStep ==
  ASSUME SdkInv, SdkInv', [Next]_vars
  PROVE  [Promise!Next]_(Promise!promiseVars)
  <1>0. /\ TypeOK /\ CallInv /\ FlightInv /\ HandleInv /\ TypeOK' /\ FlightInv'
        /\ CurrentFacts /\ CurrentFacts'
    BY CurrentIs, CurrentNext DEF SdkInv
  <1>1. CASE ~trust'
    <2>1. CurrentCall' = NoCall /\ trust' = FALSE
      BY <1>0, <1>1 DEF CurrentFacts, TypeOK
    <2>2. Promise!Distrust
      BY <2>1 DEF Promise!Distrust
    <2> QED  BY <2>2 DEF Promise!Next
  <1> SUFFICES ASSUME trust' PROVE [Promise!Next]_(Promise!promiseVars)
    BY <1>1
  <1>2. trust' = TRUE
    BY <1>0 DEF TypeOK
  <1>3. ASSUME trust, CurrentCall' = CurrentCall, returned' = returned, accepted' \subseteq accepted
        PROVE  Promise!Next
    <2>1. trust = TRUE
      BY <1>0, <1>3 DEF TypeOK
    <2>2. Promise!Forget
      BY <1>2, <1>3, <2>1 DEF Promise!Forget
    <2> QED  BY <2>2 DEF Promise!Next
  <1>4. ASSUME NEW c \in Callers, Sends(c) PROVE Promise!Next
    <2>1. /\ trust /\ (\A d \in Callers : ~InCall(d)) /\ calls'[c].pc \in {"wait", "got"}
          /\ calls'[c].pc = "wait" => Unsent' \/ (AtServer(c))'
          /\ calls'[c].pc = "got" => calls'[c].code = "failed"
      BY <1>0, <1>4, SendsFlight
    <2>2. CurrentCall = NoCall
      BY <1>0, <2>1 DEF CurrentFacts
    <2>3. PICK code \in {"none", "failed"} :
            CurrentCall' = [opt |-> calls'[c].opt, topic |-> calls'[c].topic, code |-> code]
      BY <1>0, <2>1 DEF CurrentFacts, CallOf
    <2>4. calls'[c].opt \in Opts /\ calls'[c].topic \in Topics
      BY <1>0 DEF TypeOK, CallRecords
    <2>5. returned' = NoCall /\ accepted' = accepted
      BY <1>4 DEF Sends
    <2>6. trust = TRUE
      BY <1>0, <2>1 DEF TypeOK
    <2>7. Promise!Begin
      BY <1>2, <2>2, <2>3, <2>4, <2>5, <2>6 DEF Promise!Begin
    <2> QED  BY <2>7 DEF Promise!Next
  <1>5. ASSUME NEW c \in Callers, Returns(c) PROVE Promise!Next
    <2>1. trust /\ accepted' = accepted
      BY <1>5 DEF Returns, serverVars
    <2>2. CurrentCall = CallOf(c, calls[c].code) /\ CurrentCall' = NoCall
      BY <1>0, <1>5, <2>1, ReturnsHandle
    <2>3. calls[c].code \in {"ok", "failed"}
      BY <1>0, <1>5, EndsCall DEF CallInv
    <2>4. returned' = CallOf(c, calls[c].code)
      BY <1>5, <2>1 DEF Returns, CallOf
    <2>5. CurrentCall # NoCall /\ CurrentCall.code # "none"
      BY <1>0, <2>2, <2>3, CallOfReal
    <2>6. trust = TRUE
      BY <1>0, <2>1 DEF TypeOK
    <2>7. Promise!Return
      BY <1>2, <2>1, <2>2, <2>4, <2>5, <2>6 DEF Promise!Return
    <2> QED  BY <2>7 DEF Promise!Next
  <1>6. ASSUME NEW c \in Callers, TimesOut(c) PROVE FALSE
    BY <1>6 DEF TimesOut
  <1>7. ASSUME (\E c \in Callers : CloseEnds(c)) \/ InitOk PROVE Promise!Next
    <2>1. CurrentCall' = NoCall
      BY <1>0, <1>7, SessionHandle
    <2>2. returned' = NoCall /\ accepted' = {}
      BY <1>7 DEF CloseEnds, InitOk
    <2>3. Promise!Renew
      BY <1>2, <2>1, <2>2 DEF Promise!Renew
    <2> QED  BY <2>3 DEF Promise!Next
  <1>8. CASE InitFails
    <2>1. CurrentCall' = CurrentCall
      BY <1>0, <1>8, SessionHandle
    <2>2. trust /\ returned' = returned /\ accepted' = accepted
      BY <1>8 DEF InitFails, serverVars
    <2> QED  BY <1>3, <2>1, <2>2
  <1>9. CASE RecvResult \/ \E c \in Callers : WaitTimeAndPop(c)
    BY <1>0, <1>3, <1>9, ResultHandle
  <1>10. CASE Serve
    <2>1. trust /\ returned' = returned
      BY <1>10 DEF Serve, callVars
    <2>2. PICK c \in Callers, code \in {"ok", "failed"} :
            /\ calls' = calls
            /\ Head(toServer).opt = calls[c].opt /\ Head(toServer).topic = calls[c].topic
            /\ CurrentCall = CallOf(c, "none") /\ CurrentCall' = CallOf(c, code)
            /\ accepted' = IF code = "ok" THEN Applied(Head(toServer), accepted) ELSE accepted
      <3>1. \E c \in Callers, code \in {"ok", "failed"} :
              /\ calls' = calls
              /\ Head(toServer).opt = calls[c].opt /\ Head(toServer).topic = calls[c].topic
              /\ CurrentCall = CallOf(c, "none") /\ CurrentCall' = CallOf(c, code)
              /\ accepted' = IF code = "ok" THEN Applied(Head(toServer), accepted) ELSE accepted
        BY <1>0, <1>10, <2>1, ServeFlight
      <3> QED  BY <3>1
    <2>3. /\ CurrentCall # NoCall /\ CurrentCall.opt = calls[c].opt
          /\ CurrentCall.topic = calls[c].topic /\ CurrentCall.code = "none"
      BY <1>0, <2>2, CallOfReal
    <2>4. CurrentCall' = [CurrentCall EXCEPT !.code = code]
      BY <2>2 DEF CallOf
    <2>5. trust = TRUE
      BY <1>0, <2>1 DEF TypeOK
    <2>6. Promise!Effect(CurrentCall) = Applied(Head(toServer), accepted)
      BY <2>2, <2>3, <2>5 DEF Promise!Effect, Applied
    <2>7. Promise!Decide
      BY <1>2, <2>1, <2>2, <2>3, <2>4, <2>5, <2>6 DEF Promise!Decide
    <2> QED  BY <2>7 DEF Promise!Next
  <1>11. ASSUME \/ \E c \in Callers : \/ CloseBegins(c)
                                      \/ \E opt \in Opts, t \in Topics : Begins(c, opt, t)
                \/ RecvCheck \/ RecvNothing \/ RecvData \/ Callback \/ Handled
                \/ \E t \in Topics : Publishes(t)
                \/ Stops \/ UNCHANGED vars
         PROVE  Promise!Next
    <2>1. CurrentCall' = CurrentCall /\ UNCHANGED <<trust, returned>> /\ accepted' \subseteq accepted
      BY <1>0, <1>11, FrameHandle
    <2> QED  BY <1>3, <2>1
  <1> QED  BY <1>4, <1>5, <1>6, <1>7, <1>8, <1>9, <1>10, <1>11, Kinds

\* The SDK implements SdkPromise: while calls neither overlap nor give up, each
\* call of Subscribe, Unsubscribe or Publish (oe_client.cpp:144) reaches the
\* server once and returns what the server decided about that same call.
THEOREM KeepsPromise == Spec => ImplementsPromise
  <1>1. Init => Promise!Init
    BY PromiseInit
  <1>2. SdkInv /\ SdkInv' /\ [Next]_vars => [Promise!Next]_(Promise!promiseVars)
    BY PromiseStep
  <1> QED  BY <1>1, <1>2, SdkInvariance, PTL DEF Spec, ImplementsPromise, Promise!Spec
=============================================================================
