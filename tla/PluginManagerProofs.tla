------------------------ MODULE PluginManagerProofs -------------------------
(***************************************************************************)
(* The main thread together with the scheduling thread, for any plugins,   *)
(* instances, topics and connections: the main thread keeps to what        *)
(* InstanceRunHandler lets it do, so that what InstanceRunHandlerProofs    *)
(* proves of the scheduling thread holds of the whole, and it answers      *)
(* every request once and keeps its two maps in step.                      *)
(***************************************************************************)
EXTENDS PluginManager, InstanceRunHandlerProofs

-----------------------------------------------------------------------------
(* The inductive invariant                                                 *)

\* The events there are.
Received ==
  Requested \cup {Closed(fd) : fd \in SdkFds} \cup {Shutdown} \cup {Enable(i) : i \in Instances}

\* Events, and what the handlers take from them.
EventInv ==
  /\ mpc \in Serving \cup {"start", "idle", "exit", "done"}
  /\ recvMessage \in Seq(Received)
  /\ event \in Received \cup {Nobody}
  /\ mpc \in Serving => event \in Received
  /\ mpc \in {"post", "wait"} => event.opt \in Posting
  /\ client \in Requested \cup {Nobody}

\* The instances of the plugins that are loaded.
InstancesIn(P) == {i \in Instances : PluginOf[i] \in P}
\* The two maps agree but for the instances that LOAD has yet to add, and those
\* that REMOVE has already deleted.
StoreInv ==
  /\ todo \subseteq Instances
  /\ mpc \notin {"load", "remove"} => store = InstancesIn(plugins)
  /\ mpc \in {"load", "check", "remove"} =>
       event.inst \in plugins /\ todo \subseteq InstancesOf(event.inst)
  /\ mpc = "load" => store = InstancesIn(plugins) \ todo
  /\ mpc = "remove" => store = InstancesIn(plugins \ {event.inst}) \cup todo

\* The external events of a queue.
External(s) == {n \in 1..Len(s) : s[n].type = "EXTERNAL"}
Handled == mpc \in Serving /\ event.type = "EXTERNAL"
\* The request of the epoll thread is nowhere, or in one of three places.
NoRequest == client = Nobody /\ External(recvMessage) = {} /\ ~Handled /\ sendMessage = <<>>
Waiting ==
  /\ client # Nobody /\ ~Handled /\ sendMessage = <<>>
  /\ \E n \in 1..Len(recvMessage) : External(recvMessage) = {n} /\ recvMessage[n] = client
BeingHandled ==
  /\ client # Nobody /\ Handled /\ sendMessage = <<>> /\ External(recvMessage) = {}
  /\ event = client
Replied ==
  /\ client # Nobody /\ ~Handled /\ External(recvMessage) = {}
  /\ \E code : sendMessage = <<[event |-> client, code |-> code]>>
RequestInv == NoRequest \/ Waiting \/ BeingHandled \/ Replied

PMInv == TypeOK /\ EventInv /\ StoreInv /\ RequestInv

-----------------------------------------------------------------------------
(* The main thread uses the scheduling thread as it may                    *)

\* What the handlers rely on in the fields of an event.
WellFormed(e) ==
  /\ e.type \in {"EXTERNAL", "INTERNAL"} /\ e.opt # "none"
  /\ e.opt \in {"ENABLED", "DISABLED"} => e.inst \in Instances
  /\ e.opt \in {"SUBSCRIBE", "UNSUBSCRIBE"} => e.topic \in Topics /\ e.who \in SdkFds
  /\ e.opt = "UNSUBSCRIBE_SDK" => e.who \in SdkFds
  /\ e.opt = "PUBLISH" => /\ e.inst \in Instances /\ e.topic \in Topics \cup {NoTopic}
                          /\ e.topic # NoTopic => e.inst = InstanceOf[e.topic]
  /\ e.opt = "SHUTDOWN" => e.type = "INTERNAL"

\* Every event is well-formed, and those of clients are the external ones.
LEMMA EventFields ==
  ASSUME NEW e \in Received
  PROVE  WellFormed(e) /\ (e \in Requested => e.type = "EXTERNAL")
  <1> USE ConstantsAssumption DEF WellFormed, Event
  <1>1. CASE e \in Requested
    <2>1. CASE \E opt \in {"ENABLED", "DISABLED"}, i \in Instances :
                 e = Event(opt, i, NoTopic, None, "EXTERNAL")
      BY <2>1
    <2>2. CASE \E opt \in {"LOAD", "REMOVE"}, p \in Plugins :
                 e = Event(opt, p, NoTopic, None, "EXTERNAL")
      BY <2>2
    <2>3. CASE \E opt \in {"SUBSCRIBE", "UNSUBSCRIBE"}, t \in Topics, fd \in SdkFds :
                 e = Event(opt, InstanceOf[t], t, fd, "EXTERNAL")
      BY <2>3
    <2>4. CASE \E t \in Topics, fd \in SdkFds : e = Event("PUBLISH", InstanceOf[t], t, fd, "EXTERNAL")
      BY <2>4
    <2>5. CASE \E i \in Instances, fd \in SdkFds : e = Event("PUBLISH", i, NoTopic, fd, "EXTERNAL")
      BY <2>5
    <2>6. CASE e = Event("QUERY", None, NoTopic, None, "EXTERNAL")
      BY <2>6
    <2> QED  BY <1>1, <2>1, <2>2, <2>3, <2>4, <2>5, <2>6 DEF Requested
  <1>2. CASE e \in {Closed(fd) : fd \in SdkFds} \cup {Shutdown} \cup {Enable(i) : i \in Instances}
    <2>1. WellFormed(e) /\ e.type = "INTERNAL"
      BY <1>2 DEF Closed, Shutdown, Enable
    <2>2. CASE e \in Requested
      BY <1>1, <2>2
    <2> QED  BY <2>1, <2>2
  <1> QED  BY <1>1, <1>2 DEF Received

\* What a handler posts is one of the requests the scheduling thread serves.
LEMMA MessageAllowed ==
  ASSUME NEW e \in Received, e.opt \in Posting
  PROVE  Message(e) \in Requests
  <1>0. WellFormed(e)
    BY EventFields
  <1> USE DEF WellFormed, Requests, Msgs, Senders
  <1>1. CASE e.opt \in {"ENABLED", "DISABLED"}
    <2>1. Message(e) = [type |-> e.opt, inst |-> e.inst, from |-> "main"]
      BY <1>1 DEF Message
    <2> QED  BY <1>0, <1>1, <2>1 DEF InstanceMsgs
  <1>2. CASE e.opt \in {"SUBSCRIBE", "UNSUBSCRIBE"}
    <2>1. Message(e) = [type |-> e.opt, topic |-> e.topic, who |-> e.who, from |-> "main"]
      BY <1>2 DEF Message
    <2> QED  BY <1>0, <1>2, <2>1 DEF TopicMsgs, Subscribers
  <1>3. CASE e.opt = "UNSUBSCRIBE_SDK"
    <2>1. Message(e) = [type |-> "UNSUBSCRIBE_SDK", who |-> e.who, from |-> "main"]
      BY <1>3 DEF Message
    <2> QED  BY <1>0, <1>3, <2>1 DEF SdkMsgs
  <1>4. CASE e.opt = "PUBLISH"
    <2>1. Message(e) = [type |-> "PUBLISH", inst |-> e.inst, topic |-> e.topic, from |-> "main"]
      BY <1>4 DEF Message
    <2> QED  BY <1>0, <1>4, <2>1 DEF PublishMsgs
  <1>5. CASE e.opt = "SHUTDOWN"
    <2>1. Message(e) = [type |-> "SHUTDOWN", from |-> "main"]
      BY <1>5 DEF Message
    <2> QED  BY <2>1 DEF ShutdownMsgs
  <1> QED  BY <1>1, <1>2, <1>3, <1>4, <1>5 DEF Posting

\* Every step of the whole is a step of the scheduling thread or of what
\* InstanceRunHandler allows its environment, or leaves its state alone.
LEMMA StepUsesRunHandler == EventInv /\ [PMNext]_allVars => [Next]_vars
  <1> SUFFICES ASSUME EventInv, [PMNext]_allVars PROVE [Next]_vars
    OBVIOUS
  <1>1. CASE UNCHANGED allVars
    BY <1>1 DEF allVars
  <1>2. CASE PMRunThread \/ PMTakeData
    BY <1>2 DEF PMRunThread, PMTakeData, Next, Environment
  <1>3. CASE PostMessage
    <2>1. event \in Received /\ event.opt \in Posting
      BY <1>3 DEF PostMessage, EventInv, Serving
    <2>2. Message(event) \in Requests
      BY <2>1, MessageAllowed
    <2> QED  BY <1>3, <2>2 DEF PostMessage, Next, Environment
  <1>4. CASE WaitReturns
    BY <1>4 DEF WaitReturns, Next, Environment
  <1>5. ASSUME NEW i \in Instances, LoadInstance(i) \/ RemoveInstance(i) \/ ExitInstance(i)
        PROVE  [Next]_vars
    BY <1>5 DEF LoadInstance, RemoveInstance, ExitInstance, Next, Environment
  <1>6. ASSUME NEW i \in Instances, RemoveCheck(i) PROVE [Next]_vars
    BY <1>6 DEF RemoveCheck
  <1>7. CASE \/ PreEnable \/ Pop \/ CheckFails \/ CheckPasses \/ QueryHandler \/ LoadRefused
             \/ LoadPlugin \/ LoadDone \/ RemoveMissing \/ RemoveStart \/ RemoveChecked
             \/ RemoveDone \/ ExitDone
    BY <1>7 DEF PreEnable, Pop, CheckFails, CheckPasses, QueryHandler, LoadRefused,
         LoadPlugin, LoadDone, RemoveMissing, RemoveStart, RemoveChecked, RemoveDone, ExitDone
  <1>8. CASE World
    BY <1>8 DEF World, Request, CloseConn, Signal, SendEvent, Answered
  <1> QED  BY <1>1, <1>2, <1>3, <1>4, <1>5, <1>6, <1>7, <1>8 DEF PMNext, MainThread

-----------------------------------------------------------------------------
(* Events                                                                  *)

\* A sequence of events that PreEnable pushes.
LEMMA PreEnablePushes ==
  ASSUME EventInv, PreEnable
  PROVE  \E pushed \in Seq({Enable(i) : i \in Instances}) : recvMessage' = recvMessage \o pushed
  <1> DEFINE known == {n \in DOMAIN EnableList : PluginOf[EnableList[n]] \in plugins}
  <1>1. PICK at \in [1..Cardinality(known) -> known] :
          recvMessage' = recvMessage \o [n \in DOMAIN at |-> Enable(EnableList[at[n]])]
    BY DEF PreEnable
  <1>2. known \in SUBSET (1..Len(EnableList))
    BY PluginsAssumption
  <1>3. Cardinality(known) \in Nat
    <2>1. IsFiniteSet(1..Len(EnableList))
      BY PluginsAssumption, FS_Interval
    <2>2. IsFiniteSet(known)
      BY <1>2, <2>1, FS_Subset
    <2> HIDE DEF known
    <2> QED  BY <2>2, FS_CardinalityType
  <1>4. \A n \in known : EnableList[n] \in Instances
    BY PluginsAssumption
  <1> DEFINE pushed == [n \in DOMAIN at |-> Enable(EnableList[at[n]])]
  <1> HIDE DEF known
  <1>5. pushed \in [1..Cardinality(known) -> {Enable(i) : i \in Instances}]
    BY <1>1, <1>4
  <1>6. pushed \in Seq({Enable(i) : i \in Instances})
    BY <1>3, <1>5
  <1> QED  BY <1>1, <1>6

\* Every step keeps the types of the main thread's variables.
LEMMA StepEvents == EventInv /\ [PMNext]_allVars => EventInv'
  <1> SUFFICES ASSUME EventInv, [PMNext]_allVars PROVE EventInv'
    OBVIOUS
  <1> USE DEF EventInv, Serving, allVars, pmVars
  <1>1. CASE UNCHANGED pmVars
    BY <1>1
  <1>2. CASE PreEnable
    <2>1. PICK pushed \in Seq({Enable(i) : i \in Instances}) : recvMessage' = recvMessage \o pushed
      BY <1>2, PreEnablePushes
    <2>2. pushed \in Seq(Received)
      BY <2>1 DEF Received
    <2>3. recvMessage' \in Seq(Received)
      BY <2>1, <2>2
    <2> QED  BY <1>2, <2>3 DEF PreEnable
  <1>3. CASE Pop
    <2>1. Head(recvMessage) \in Received /\ Tail(recvMessage) \in Seq(Received)
      BY <1>3, HeadTailProperties DEF Pop
    <2> QED  BY <1>3, <2>1 DEF Pop
  <1>4. CASE CheckFails \/ CheckPasses \/ QueryHandler \/ LoadRefused \/ LoadPlugin \/ LoadDone
    BY <1>4 DEF CheckFails, CheckPasses, QueryHandler, LoadRefused, LoadPlugin, LoadDone, Reply
  <1>5. CASE PostMessage \/ WaitReturns \/ RemoveMissing \/ RemoveStart \/ RemoveChecked
             \/ RemoveDone \/ ExitDone
    BY <1>5 DEF PostMessage, WaitReturns, RemoveMissing, RemoveStart, RemoveChecked, RemoveDone,
         ExitDone, Reply
  <1>6. ASSUME NEW i \in Instances,
               LoadInstance(i) \/ RemoveCheck(i) \/ RemoveInstance(i) \/ ExitInstance(i)
        PROVE  EventInv'
    BY <1>6 DEF LoadInstance, RemoveCheck, RemoveInstance, ExitInstance, Reply
  <1>7. ASSUME NEW e \in Requested, Request(e) PROVE EventInv'
    BY <1>7 DEF Request, SendEvent, Received
  <1>8. ASSUME NEW fd \in SdkFds, CloseConn(fd) PROVE EventInv'
    BY <1>8 DEF CloseConn, SendEvent, Received
  <1>9. CASE Signal
    BY <1>9 DEF Signal, SendEvent, Received
  <1>10. CASE Answered
    BY <1>10 DEF Answered
  <1> QED
    BY <1>1, <1>2, <1>3, <1>4, <1>5, <1>6, <1>7, <1>8, <1>9, <1>10
       DEF PMNext, MainThread, World, PMRunThread, PMTakeData

-----------------------------------------------------------------------------
(* The MemoryStore                                                         *)

\* The scheduling thread and the data thread leave the MemoryStore alone.
LEMMA RunThreadKeepsStore == RunThread \/ TakeData => UNCHANGED store
  BY DEF RunThread, TakeData, HandleMessage, Schedule, Tick, storeVars, Crash,
         HandleEnabled, HandleDisabled, SubscribeRefused, SubscribeOpenFails, SubscribeOpens,
         SubscribeJoins, HandleUnsubscribe, HandleUnsubscribeSdk, UpdateCrashes, PublishRefused,
         HandlePublish, HandlePublishData, PublishDataCrashes, HandleShutdown, QueueDrained,
         ScheduleSkip, ScheduleRun, ScheduleRunOnce, ScheduleCrashes, ScheduleDone

\* Outside of LOAD and REMOVE no step changes either map.
LEMMA StoreKept ==
  ASSUME StoreInv, UNCHANGED <<plugins, store>>, todo' \subseteq Instances,
         mpc \notin {"load", "remove"}, mpc' \notin {"load", "check", "remove"}
  PROVE  StoreInv'
  BY DEF StoreInv, InstancesIn

\* Every step keeps the two maps in step.
LEMMA StepStore == EventInv /\ StoreInv /\ [PMNext]_allVars => StoreInv'
  <1> SUFFICES ASSUME EventInv, StoreInv, [PMNext]_allVars PROVE StoreInv'
    OBVIOUS
  <1>1. CASE PMRunThread \/ PMTakeData \/ UNCHANGED allVars
    <2>1. UNCHANGED <<plugins, store, todo, mpc, event>>
      BY <1>1, RunThreadKeepsStore DEF PMRunThread, PMTakeData, allVars, vars, pmVars
    <2> QED  BY <2>1 DEF StoreInv, InstancesIn, InstancesOf
  <1>2. CASE World
    <2>1. UNCHANGED <<plugins, store, todo, mpc, event>>
      BY <1>2 DEF World, Request, CloseConn, Signal, SendEvent, Answered, vars
    <2> QED  BY <2>1 DEF StoreInv, InstancesIn, InstancesOf
  <1>3. CASE PreEnable \/ Pop \/ CheckFails \/ CheckPasses \/ QueryHandler \/ LoadRefused
             \/ RemoveMissing \/ ExitDone
    BY <1>3, StoreKept DEF PreEnable, Pop, CheckFails, CheckPasses, QueryHandler, LoadRefused,
         RemoveMissing, ExitDone, Reply, StoreInv, vars
  <1>4. CASE PostMessage \/ WaitReturns
    BY <1>4, StoreKept DEF PostMessage, Post, WaitReturns, Awake, Reply, StoreInv, storeVars
  <1>5. CASE LoadPlugin
    BY <1>5 DEF LoadPlugin, StoreInv, InstancesIn, InstancesOf, vars
  <1>6. CASE LoadDone
    BY <1>6 DEF LoadDone, Reply, StoreInv, InstancesIn, InstancesOf, vars
  <1>7. CASE RemoveStart
    BY <1>7 DEF RemoveStart, StoreInv, InstancesIn, InstancesOf, vars
  <1>8. CASE RemoveChecked
    BY <1>8 DEF RemoveChecked, StoreInv, InstancesIn, InstancesOf, vars
  <1>9. CASE RemoveDone
    BY <1>9 DEF RemoveDone, Reply, StoreInv, InstancesIn, InstancesOf, vars
  <1>10. ASSUME NEW i \in Instances, LoadInstance(i) PROVE StoreInv'
    BY <1>10 DEF LoadInstance, AddInstance, StoreInv, InstancesIn, InstancesOf
  <1>11. ASSUME NEW i \in Instances, RemoveCheck(i) PROVE StoreInv'
    BY <1>11 DEF RemoveCheck, Reply, StoreInv, InstancesIn, InstancesOf, vars
  <1>12. ASSUME NEW i \in Instances, RemoveInstance(i) PROVE StoreInv'
    BY <1>12 DEF RemoveInstance, DeleteInstance, StoreInv, InstancesIn, InstancesOf
  <1>13. ASSUME NEW i \in Instances, ExitInstance(i) PROVE StoreInv'
    BY <1>13, StoreKept DEF ExitInstance, ExitDisable, StoreInv, storeVars, vars
  <1> QED
    BY <1>1, <1>2, <1>3, <1>4, <1>5, <1>6, <1>7, <1>8, <1>9, <1>10, <1>11, <1>12, <1>13
       DEF PMNext, MainThread

-----------------------------------------------------------------------------
(* Requests                                                                *)

\* The external events of a queue that grows at its end or shrinks at its front.
LEMMA ExternalAppend ==
  ASSUME NEW s \in Seq(Received), NEW e \in Received
  PROVE  External(Append(s, e)) =
           External(s) \cup (IF e.type = "EXTERNAL" THEN {Len(s) + 1} ELSE {})
  BY DEF External
LEMMA ExternalTail ==
  ASSUME NEW s \in Seq(Received), s # <<>>
  PROVE  \A n : n \in External(Tail(s)) <=> n >= 1 /\ n + 1 \in External(s) /\ n \in Nat
  BY HeadTailProperties DEF External
LEMMA ExternalConcat ==
  ASSUME NEW s \in Seq(Received), NEW p \in Seq({Enable(i) : i \in Instances})
  PROVE  External(s \o p) = External(s)
  <1>1. \A k \in 1..Len(p) : p[k].type = "INTERNAL"
    BY DEF Enable, Event
  <1>2. /\ Len(s \o p) = Len(s) + Len(p) /\ Len(s) \in Nat /\ Len(p) \in Nat
        /\ \A n \in 1..Len(s) : (s \o p)[n] = s[n]
        /\ \A n \in (Len(s) + 1)..(Len(s) + Len(p)) : (s \o p)[n] = p[n - Len(s)]
    BY ConcatProperties
  <1>3. \A n \in (Len(s) + 1)..(Len(s) + Len(p)) : (s \o p)[n].type = "INTERNAL"
    BY <1>1, <1>2
  <1> QED  BY <1>2, <1>3 DEF External

\* A step that moves no event and no answer.
LEMMA RequestKept ==
  ASSUME RequestInv, UNCHANGED <<recvMessage, sendMessage, event, client>>,
         mpc \in Serving <=> mpc' \in Serving
  PROVE  RequestInv'
  BY DEF RequestInv, NoRequest, Waiting, BeingHandled, Replied, Handled, External, Serving

\* The end of a handler.
LEMMA ReplyAnswers ==
  ASSUME RequestInv, EventInv, mpc \in Serving, NEW code, Reply(code),
         UNCHANGED <<recvMessage, event, client>>
  PROVE  RequestInv'
  <1>1. mpc' \notin Serving /\ ~Handled'
    BY DEF Reply, Serving, Handled
  <1>2. CASE event.type = "EXTERNAL"
    <2>1. BeingHandled
      BY <1>2 DEF RequestInv, NoRequest, Waiting, Replied, Handled
    <2>2. sendMessage' = Append(<<>>, [event |-> client, code |-> code])
      BY <1>2, <2>1 DEF Reply, BeingHandled
    <2>3. sendMessage' = <<[event |-> client', code |-> code]>>
      BY <2>2
    <2>4. Replied'
      BY <1>1, <2>1, <2>3 DEF Replied, BeingHandled, External, Nobody
    <2> QED  BY <2>4 DEF RequestInv
  <1>3. CASE event.type # "EXTERNAL"
    <2>1. ~Handled /\ sendMessage' = sendMessage
      BY <1>3 DEF Handled, Reply
    <2> QED
      BY <1>1, <2>1 DEF RequestInv, NoRequest, Waiting, BeingHandled, Replied, External
  <1> QED  BY <1>2, <1>3

\* The next event is taken: the request of the epoll thread, or one before it.
LEMMA PopRequest == RequestInv /\ EventInv /\ Pop => RequestInv'
  <1> SUFFICES ASSUME RequestInv, EventInv, Pop PROVE RequestInv'
    OBVIOUS
  <1>1. /\ recvMessage \in Seq(Received) /\ recvMessage # <<>> /\ Len(recvMessage) \in Nat
        /\ Head(recvMessage) = recvMessage[1] /\ 1 \in 1..Len(recvMessage)
    BY DEF EventInv, Pop
  <1>2. /\ recvMessage' = Tail(recvMessage) /\ event' = recvMessage[1]
        /\ UNCHANGED <<sendMessage, client>> /\ mpc' \in Serving /\ ~Handled
    BY <1>1 DEF Pop, Serving, Handled
  <1>3. \A n : n \in External(recvMessage') <=>
               n >= 1 /\ n + 1 \in External(recvMessage) /\ n \in Nat
    BY <1>1, <1>2, ExternalTail
  <1>4. 1 \in External(recvMessage) <=> Handled'
    BY <1>1, <1>2 DEF External, Handled
  <1>5. CASE External(recvMessage) = {}
    <2>1. External(recvMessage') = {} /\ ~Handled'
      BY <1>3, <1>4, <1>5
    <2>2. NoRequest \/ Replied
      BY <1>2, <1>5 DEF RequestInv, Waiting, BeingHandled
    <2> QED  BY <1>2, <2>1, <2>2 DEF RequestInv, NoRequest, Replied, External
  <1>6. CASE External(recvMessage) # {}
    <2>1. Waiting
      BY <1>6 DEF RequestInv, NoRequest, BeingHandled, Replied
    <2>2. PICK n \in 1..Len(recvMessage) : External(recvMessage) = {n} /\ recvMessage[n] = client
      BY <2>1 DEF Waiting
    <2>3. CASE n = 1
      <3>1. External(recvMessage') = {} /\ Handled'
        BY <1>3, <1>4, <2>2, <2>3
      <3>2. BeingHandled'
        BY <1>2, <2>1, <2>2, <2>3, <3>1 DEF BeingHandled, Waiting, External, Nobody
      <3> QED  BY <3>2 DEF RequestInv
    <2>4. CASE n # 1
      <3>1. ~Handled'
        BY <1>4, <2>2, <2>4
      <3>2. External(recvMessage') = {n - 1}
        BY <1>1, <1>3, <2>2, <2>4
      <3>3. n - 1 \in 1..Len(recvMessage') /\ recvMessage'[n - 1] = recvMessage[n]
        BY <1>1, <1>2, <2>4, HeadTailProperties
      <3>4. Waiting'
        BY <1>2, <2>1, <2>2, <3>1, <3>2, <3>3 DEF Waiting, External, Nobody
      <3> QED  BY <3>4 DEF RequestInv
    <2> QED  BY <2>3, <2>4
  <1> QED  BY <1>5, <1>6

\* An event that the epoll thread or the signal handler pushes for no client.
LEMMA InternalPushed ==
  ASSUME RequestInv, EventInv, NEW e \in Received, e.type = "INTERNAL", SendEvent(e),
         UNCHANGED client
  PROVE  RequestInv'
  <1>1. recvMessage \in Seq(Received) /\ recvMessage' = Append(recvMessage, e)
    BY DEF EventInv, SendEvent
  <1>2. External(recvMessage') = External(recvMessage)
    BY <1>1, ExternalAppend
  <1>3. /\ \A n \in 1..Len(recvMessage) : n \in 1..Len(recvMessage') /\ recvMessage'[n] = recvMessage[n]
        /\ UNCHANGED <<sendMessage, mpc, event>>
    BY <1>1 DEF SendEvent
  <1>4. External(recvMessage)' = External(recvMessage) /\ Handled' = Handled
    BY <1>2, <1>3 DEF External, Handled, Serving
  <1> QED
    BY <1>3, <1>4 DEF RequestInv, NoRequest, Waiting, BeingHandled, Replied, Nobody

\* Every step keeps the request of the epoll thread in one place.
LEMMA StepRequest == EventInv /\ RequestInv /\ [PMNext]_allVars => RequestInv'
  <1> SUFFICES ASSUME EventInv, RequestInv, [PMNext]_allVars PROVE RequestInv'
    OBVIOUS
  <1>1. CASE PMRunThread \/ PMTakeData \/ UNCHANGED allVars
    BY <1>1, RequestKept DEF PMRunThread, PMTakeData, allVars, pmVars
  <1>2. CASE CheckPasses \/ PostMessage \/ LoadPlugin \/ RemoveStart \/ RemoveChecked \/ ExitDone
    BY <1>2, RequestKept DEF CheckPasses, PostMessage, LoadPlugin, RemoveStart, RemoveChecked,
         ExitDone, Serving
  <1>3. CASE CheckFails \/ QueryHandler \/ LoadRefused \/ LoadDone \/ RemoveMissing \/ RemoveDone
    BY <1>3, ReplyAnswers DEF CheckFails, QueryHandler, LoadRefused, LoadDone, RemoveMissing,
         RemoveDone, Serving
  <1>4. CASE PreEnable
    <2>1. PICK pushed \in Seq({Enable(i) : i \in Instances}) : recvMessage' = recvMessage \o pushed
      BY <1>4, PreEnablePushes
    <2>2. recvMessage \in Seq(Received) /\ UNCHANGED <<sendMessage, event, client>>
      BY <1>4 DEF PreEnable, EventInv
    <2>3. External(recvMessage)' = External(recvMessage)
      BY <2>1, <2>2, ExternalConcat DEF External
    <2>4. \A n \in 1..Len(recvMessage) : n \in 1..Len(recvMessage') /\ recvMessage'[n] = recvMessage[n]
      BY <2>1, <2>2, ConcatProperties
    <2>5. ~Handled /\ ~Handled'
      BY <1>4 DEF PreEnable, Handled, Serving
    <2> QED
      BY <2>2, <2>3, <2>4, <2>5 DEF RequestInv, NoRequest, Waiting, BeingHandled, Replied, Nobody
  <1>5. CASE Pop
    BY <1>5, PopRequest
  <1>6. CASE WaitReturns
    <2>1. mpc \in Serving /\ event \in Received /\ UNCHANGED <<recvMessage, event, client>>
      BY <1>6 DEF WaitReturns, Serving, EventInv
    <2>2. CASE event.opt = "SHUTDOWN"
      <3>1. event.type = "INTERNAL"
        BY <2>1, <2>2, EventFields DEF WellFormed
      <3>2. UNCHANGED sendMessage /\ ~Handled /\ ~Handled'
        BY <1>6, <2>1, <2>2, <3>1 DEF WaitReturns, Handled
      <3> QED
        BY <2>1, <3>2 DEF RequestInv, NoRequest, Waiting, BeingHandled, Replied, External, Nobody
    <2>3. CASE event.opt # "SHUTDOWN"
      BY <1>6, <2>1, <2>3, ReplyAnswers DEF WaitReturns
    <2> QED  BY <2>2, <2>3
  <1>7. ASSUME NEW i \in Instances, LoadInstance(i) \/ RemoveInstance(i) \/ ExitInstance(i)
        PROVE  RequestInv'
    BY <1>7, RequestKept DEF LoadInstance, RemoveInstance, ExitInstance
  <1>8. ASSUME NEW i \in Instances, RemoveCheck(i) PROVE RequestInv'
    BY <1>8, RequestKept, ReplyAnswers DEF RemoveCheck, Serving
  <1>9. ASSUME NEW e \in Requested, Request(e) PROVE RequestInv'
    <2>1. /\ recvMessage \in Seq(Received) /\ Len(recvMessage) \in Nat
          /\ recvMessage' = Append(recvMessage, e) /\ client' = e
          /\ UNCHANGED <<sendMessage, mpc, event>>
      BY <1>9 DEF EventInv, Request, SendEvent
    <2>2. NoRequest
      BY <1>9 DEF Request, RequestInv, Waiting, BeingHandled, Replied
    <2>3. e \in Received /\ e.type = "EXTERNAL" /\ e.opt # "none"
      BY EventFields DEF Received, WellFormed
    <2>4. External(recvMessage') = {Len(recvMessage) + 1}
      BY <2>1, <2>2, <2>3, ExternalAppend DEF NoRequest
    <2>5. /\ Len(recvMessage) + 1 \in 1..Len(recvMessage')
          /\ recvMessage'[Len(recvMessage) + 1] = e
      BY <2>1
    <2>6. e # Nobody
      BY <2>3 DEF Nobody, Event, None
    <2>7. ~Handled' /\ sendMessage' = <<>>
      BY <2>1, <2>2 DEF NoRequest, Handled
    <2>8. Waiting'
      BY <2>1, <2>4, <2>5, <2>6, <2>7 DEF Waiting, External, Nobody
    <2> QED  BY <2>8 DEF RequestInv
  <1>10. ASSUME NEW fd \in SdkFds, CloseConn(fd) PROVE RequestInv'
    BY <1>10, InternalPushed DEF CloseConn, Closed, Event, Received
  <1>11. CASE Signal
    BY <1>11, InternalPushed DEF Signal, Shutdown, Event, Received
  <1>12. CASE Answered
    <2>1. Replied
      BY <1>12 DEF Answered, RequestInv, NoRequest, Waiting, BeingHandled
    <2>2. sendMessage' = <<>>
      BY <1>12, <2>1 DEF Answered, Replied
    <2>3. NoRequest'
      BY <1>12, <2>1, <2>2 DEF Answered, Replied, NoRequest, Handled, External, Nobody
    <2> QED  BY <2>3 DEF RequestInv
  <1> QED
    BY <1>1, <1>2, <1>3, <1>4, <1>5, <1>6, <1>7, <1>8, <1>9, <1>10, <1>11, <1>12
       DEF PMNext, MainThread, World

-----------------------------------------------------------------------------
(* The theorems                                                            *)

\* The invariant holds when the service starts: a plugin is preloaded with all its
\* instances.
LEMMA InitPMInv == PMInit => PMInv
  <1> SUFFICES ASSUME PMInit PROVE PMInv
    OBVIOUS
  <1>1. TypeOK
    BY InitTypeOK DEF PMInit
  <1>2. EventInv
    BY DEF PMInit, EventInv, Serving
  <1>3. StoreInv
    BY PluginsAssumption, ConstantsAssumption DEF PMInit, Init, StoreInv, InstancesIn
  <1>4. RequestInv
    BY DEF PMInit, RequestInv, NoRequest, External, Handled, Serving
  <1> QED  BY <1>1, <1>2, <1>3, <1>4 DEF PMInv

\* Every step of the whole keeps the invariant.
THEOREM PMInvariance == PMSpec => []PMInv
  <1>1. PMInv /\ [PMNext]_allVars => PMInv'
    BY StepUsesRunHandler, StepTypeOK, StepEvents, StepStore, StepRequest DEF PMInv
  <1> QED  BY InitPMInv, <1>1, PTL DEF PMSpec

\* The main thread, its handlers and Exit use the scheduling thread only as
\* InstanceRunHandler allows its environment: the whole implements it.
THEOREM MainThreadUsesRunHandler == PMSpec => UsesRunHandler
  <1>1. PMInv /\ [PMNext]_allVars => [Next]_vars
    BY StepUsesRunHandler DEF PMInv
  <1>2. PMInit => Init
    BY DEF PMInit
  <1> QED  BY <1>1, <1>2, PMInvariance, PTL DEF PMSpec, UsesRunHandler

\* The epoll thread gets one answer for the request it waits on, and never that of
\* another: the request is queued, handled or answered, and in one place only.
THEOREM RequestsAnsweredOnce == PMSpec => []OneAnswerPerRequest
  <1>1. PMInv => OneAnswerPerRequest
    <2> SUFFICES ASSUME PMInv PROVE OneAnswerPerRequest
      OBVIOUS
    <2> DEFINE queued == {n \in DOMAIN recvMessage : recvMessage[n].type = "EXTERNAL"}
               handled == IF mpc \in Serving /\ event.type = "EXTERNAL" THEN 1 ELSE 0
    <2>1. queued = External(recvMessage)
      BY DEF PMInv, EventInv, External
    <2>2. handled = IF Handled THEN 1 ELSE 0
      BY DEF Handled
    <2> SUFFICES /\ Cardinality(queued) + handled + Len(sendMessage)
                      = IF client = Nobody THEN 0 ELSE 1
                 /\ \A n \in queued : recvMessage[n] = client
                 /\ handled = 1 => event = client
                 /\ sendMessage # <<>> => Head(sendMessage).event = client
      BY DEF OneAnswerPerRequest
    <2> HIDE DEF queued, handled
    <2>3. Cardinality({}) = 0 /\ \A n : Cardinality({n}) = 1
      BY FS_EmptySet, FS_Singleton
    <2>4. CASE NoRequest
      BY <2>1, <2>2, <2>3, <2>4 DEF NoRequest
    <2>5. CASE Waiting
      <3>1. PICK n \in 1..Len(recvMessage) : queued = {n} /\ recvMessage[n] = client
        BY <2>1, <2>5 DEF Waiting
      <3>2. Cardinality(queued) = 1
        BY <2>3, <3>1
      <3>3. handled = 0 /\ Len(sendMessage) = 0 /\ sendMessage = <<>> /\ client # Nobody
        BY <2>2, <2>5 DEF Waiting
      <3> QED  BY <3>1, <3>2, <3>3
    <2>6. CASE BeingHandled
      BY <2>1, <2>2, <2>3, <2>6 DEF BeingHandled
    <2>7. CASE Replied
      <3>1. Len(sendMessage) = 1 /\ Head(sendMessage).event = client
        BY <2>7 DEF Replied
      <3> QED  BY <2>1, <2>2, <2>3, <2>7, <3>1 DEF Replied
    <2> QED  BY <2>4, <2>5, <2>6, <2>7 DEF PMInv, RequestInv
  <1> QED  BY <1>1, PMInvariance, PTL

\* Outside LOAD and REMOVE the instances in the MemoryStore are those of its plugins.
THEOREM StoreAgreesWithPlugins == PMSpec => []StoreMatchesPlugins
  <1>1. PMInv => StoreMatchesPlugins
    BY DEF PMInv, StoreInv, InstancesIn, StoreMatchesPlugins
  <1> QED  BY <1>1, PMInvariance, PTL

\* The safety of the scheduling thread carries over to the whole service.
RunHandlerSafe ==
  /\ SubscriptionsMatchTopics /\ LiveTopicsClosedByDisable /\ EnabledIsQueued
  /\ NeverOverdue /\ CrashNeedsRemoval /\ NoLeakedSubscription

\* Under the real main thread, too, topicState and subscibers agree, Disable closes
\* every topic a plugin holds, every enabled instance is queued, no entry is overdue,
\* no subscription leaks, and only a removed plugin can crash the service.
THEOREM ServiceSafe == PMSpec => []RunHandlerSafe
  <1>1. Init => SubscriptionInv /\ LiveTopicsClosedByDisable /\ EnabledIsQueued /\ DueInv
    BY DEF Init, SubscriptionInv, SubscriptionsMatchTopics, SubscribedHasKey, SubscribersOf,
           LiveTopicsClosedByDisable, EnabledIsQueued, DueInv
  <1>2. SubscriptionInv /\ DueInv => SubscriptionsMatchTopics /\ NeverOverdue
    BY AlignedFacts DEF SubscriptionInv, DueInv, NeverOverdue
  <1> QED
    BY <1>1, <1>2, InitKnown, MainThreadUsesRunHandler, PMInvariance, StepSubscriptions, StepLive,
       StepQueued, StepDue, StepKnown, StepCrash, InitLeak, StepLeak, LeakImplies, PTL
       DEF UsesRunHandler, RunHandlerSafe, PMInv

=============================================================================
