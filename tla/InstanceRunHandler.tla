------------------------- MODULE InstanceRunHandler -------------------------
(***************************************************************************)
(* The instance scheduling thread of oeAware (class InstanceRunHandler),   *)
(* with the state it works on: the MemoryStore, the fields of every        *)
(* Instance object, and recvQueue, through which the plugin manager's main *)
(* thread and the plugins themselves ask for work.                         *)
(*                                                                         *)
(* The main thread appears here only as an environment that may post any   *)
(* request, load or delete any instance at any time it is not blocked in   *)
(* InstanceRunMessage::Wait; PluginManager.tla models what it really does. *)
(*                                                                         *)
(* One handled message is one step.  The messages a plugin pushes from     *)
(* inside a handler are appended to recvQueue by the same step, in any     *)
(* order the unordered containers of the code may produce.                 *)
(***************************************************************************)
EXTENDS Integers, Sequences, FiniteSets, SequencesExt

CONSTANTS
  Instances,      \* names of plugin instances
  Topics,         \* topics: (instance, topic name, parameters) triples
  SdkFds,         \* file descriptors of SDK connections
  NoTopic,        \* the empty topic name of a PUBLISH
  InstanceOf,     \* Topic::instanceName
  Supported,      \* topics whose name is in Instance::supportTopics
  EnableDeps,     \* topics an instance subscribes to in Enable, and drops in Disable
  OpenDeps,       \* topics a plugin subscribes to in OpenTopic, and drops in CloseTopic
  Kind,           \* Interface::type: "collect", "scenario" or "tune"
  RunOnce,        \* instances with INSTANCE_RUN_ONCE in Interface::type
  Period,         \* Interface::period, in milliseconds
  Priority,       \* Interface::priority
  Cycle,          \* InstanceRunHandler::cycle, in milliseconds
  Preloaded,      \* instances PreLoadPlugin finds when the service starts
  MaxRequests,    \* bound: requests the main thread serves
  MaxLoads,       \* bound: times an instance is loaded
  MaxData         \* bound: data messages waiting in recvQueue and recvData

Kinds == {"collect", "scenario", "tune"}

ASSUME ConstantsAssumption ==
  /\ InstanceOf \in [Topics -> Instances]
  /\ Supported \subseteq Topics
  /\ EnableDeps \in [Instances -> SUBSET Topics]
  /\ OpenDeps \in [Topics -> SUBSET Topics]
  /\ Kind \in [Instances -> Kinds]
  /\ RunOnce \subseteq Instances /\ Preloaded \subseteq Instances
  /\ Priority \in [Instances -> Int]
ASSUME FiniteAssumption ==
  IsFiniteSet(Topics) /\ IsFiniteSet(Instances) /\ IsFiniteSet(SdkFds)
ASSUME NamesAssumption == Instances \cap SdkFds = {} /\ NoTopic \notin Topics
ASSUME CycleAssumption == Cycle \in Nat \ {0}
\* The design asks for periods that are multiples of the scheduler's cycle.
ASSUME PeriodAssumption ==
  /\ Period \in [Instances -> Nat]
  /\ \A i \in Instances : \E n \in 0..Period[i] : Period[i] = Cycle * n
ASSUME BoundsAssumption ==
  MaxRequests \in Nat /\ MaxLoads \in Nat \ {0} /\ MaxData \in Nat

VARIABLES
  store,          \* names in MemoryStore::instances
  gen,            \* how often each instance has been loaded
  enabled,        \* Instance objects with enabled = true
  openTopics,     \* Instance::openTopics, as (object, topic) pairs
  live,           \* (object, topic) pairs the plugin itself holds open
  topicKeys,      \* keys of topicState
  topicOn,        \* keys of topicState whose value is true
  subKeys,        \* keys of subscibers
  subs,           \* (topic, subscriber) pairs of subscibers
  scheduleQueue,  \* entries, each with the milliseconds left until it is due
  recvQueue,      \* InstanceRunMessages not yet handled
  recvData,       \* data on its way to SDK connections
  pc,             \* where InstanceRunHandler::Start is
  ticket,         \* the main thread's wait for its message
  result,         \* InstanceRunMessage::result of that message
  sent,           \* requests served so far
  service,        \* "exiting" once the main thread has posted SHUTDOWN
  exited          \* instances the loop of PluginManager::Exit has disabled

storeVars == <<store, gen>>
topicVars == <<openTopics, live, topicKeys, topicOn, subKeys, subs>>
mainVars  == <<ticket, result, sent, service, exited>>
vars == <<store, gen, enabled, openTopics, live, topicKeys, topicOn, subKeys,
          subs, scheduleQueue, recvQueue, recvData, pc, ticket, result, sent,
          service, exited>>

-----------------------------------------------------------------------------
(* Data.  An Instance object is a load of a name: after a plugin is removed *)
(* and loaded again, queue entries of the old object still point to it.    *)

Subscribers == Instances \cup SdkFds
Objects == Instances \X Nat
Codes == {"OK", "FAILED"}
Obj(i) == <<i, gen[i]>>
IsEnabled(i) == Obj(i) \in enabled
TopicsOf(i) == {t \in Topics : InstanceOf[t] = i}
OpenOf(o) == {t \in Topics : <<o, t>> \in openTopics}
LiveOf(o) == {t \in Topics : <<o, t>> \in live}
SubscribersOf(t) == {s \in Subscribers : <<t, s>> \in subs}

Senders == {"main", "plugin"}
InstanceMsgs == [type : {"ENABLED", "DISABLED", "DISABLED_FORCE"},
                 inst : Instances, from : Senders]
TopicMsgs    == [type : {"SUBSCRIBE", "UNSUBSCRIBE"},
                 topic : Topics, who : Subscribers, from : Senders]
SdkMsgs      == [type : {"UNSUBSCRIBE_SDK"}, who : SdkFds, from : Senders]
PublishMsgs  == {m \in [type : {"PUBLISH"}, inst : Instances,
                       topic : Topics \cup {NoTopic}, from : Senders] :
                   m.topic # NoTopic => m.inst = InstanceOf[m.topic]}
DataMsgs     == [type : {"PUBLISH_DATA"}, topic : Topics, from : Senders]
ShutdownMsgs == [type : {"SHUTDOWN"}, from : Senders]
Msgs == InstanceMsgs \cup TopicMsgs \cup SdkMsgs \cup PublishMsgs
          \cup DataMsgs \cup ShutdownMsgs

\* Interface::Subscribe, Unsubscribe and Publish: a plugin's own messages,
\* for which nobody waits.
Sub(t, i)   == [type |-> "SUBSCRIBE",   topic |-> t, who |-> i, from |-> "plugin"]
Unsub(t, i) == [type |-> "UNSUBSCRIBE", topic |-> t, who |-> i, from |-> "plugin"]
Data(t)     == [type |-> "PUBLISH_DATA", topic |-> t, from |-> "plugin"]

Entries == [obj : Objects, due : Int]

-----------------------------------------------------------------------------
Init ==
  /\ store = Preloaded
  /\ gen = [i \in Instances |-> IF i \in Preloaded THEN 1 ELSE 0]
  /\ enabled = {}
  /\ openTopics = {} /\ live = {}
  /\ topicKeys = {} /\ topicOn = {} /\ subKeys = {} /\ subs = {}
  /\ scheduleQueue = <<>> /\ recvQueue = <<>> /\ recvData = <<>>
  /\ pc = "handle"
  /\ ticket = "idle" /\ result = "OK" /\ sent = 0
  /\ service = "up" /\ exited = {}

-----------------------------------------------------------------------------
(* Pieces shared by the handlers.                                          *)

\* EnableInstance: the first time an enabled instance is due.
FirstDue(i) ==
  CASE Kind[i] = "scenario" -> Period[i]
    [] Kind[i] = "tune"     -> 2 * Period[i]
    [] OTHER                -> 0
\* Mutant: EnableInstance forgets its last branch and never queues a collector.
ScheduledUnlessCollector(i) ==
  IF Kind[i] = "collect" THEN scheduleQueue
  ELSE Append(scheduleQueue, [obj |-> Obj(i), due |-> FirstDue(i)])
Scheduled(i) == Append(scheduleQueue, [obj |-> Obj(i), due |-> FirstDue(i)])

\* What a plugin pushes from Enable, OpenTopic, CloseTopic and Instance::Disable.
EnableMsgs(i) == {Sub(d, i) : d \in EnableDeps[i]}
OpenMsgs(t)   == {Sub(d, InstanceOf[t]) : d \in OpenDeps[t]}
CloseMsgs(t)  == {Unsub(d, InstanceOf[t]) : d \in OpenDeps[t]}
\* Mutant: Disable keeps what OpenTopic has subscribed to.
DisableMsgsOfEnable(i, topics) == {Unsub(d, i) : d \in EnableDeps[i]}
DisableMsgs(i, topics) ==
  {Unsub(d, i) : d \in EnableDeps[i] \cup UNION {OpenDeps[t] : t \in topics}}

\* Mutant: Instance::Disable does not close the topics.
DisabledOnly(objs) == enabled' = enabled \ objs /\ UNCHANGED live
\* Instance::Disable closes the object's topics in the plugin but forgets
\* neither openTopics nor topicState.
Disabled(objs) ==
  /\ enabled' = enabled \ objs
  /\ live' = live \ {p \in openTopics : p[1] \in objs}

\* The handled message leaves the queue; what the handler pushed joins its end.
Consume(pushed) == recvQueue' = Tail(recvQueue) \o pushed

\* Mutant: a handler that fails returns before it notifies.
NotifySuccess(m, codes) ==
  /\ IF m.from = "main" /\ codes # {"FAILED"} THEN ticket' = "done" /\ result' \in codes
                                              ELSE UNCHANGED <<ticket, result>>
  /\ UNCHANGED <<sent, service, exited>>
\* NotifyOne: wake the main thread if it waits for this message.
Notify(m, codes) ==
  /\ IF m.from = "main" THEN ticket' = "done" /\ result' \in codes
               ELSE UNCHANGED <<ticket, result>>
  /\ UNCHANGED <<sent, service, exited>>

Handling(type) == pc = "handle" /\ recvQueue # <<>> /\ Head(recvQueue).type = type

\* The thread dereferences a null pointer or jumps into unmapped code, and the
\* process is gone.
Crash ==
  /\ pc' = "crashed"
  /\ UNCHANGED <<storeVars, enabled, topicVars, scheduleQueue, recvQueue,
                 recvData, mainVars>>

-----------------------------------------------------------------------------
(* ENABLED, DISABLED                                                       *)

\* EnableInstance on behalf of the main thread.  The state is not looked at
\* again: an instance enabled meanwhile is enabled, and queued, twice.
HandleEnabled ==
  LET m == Head(recvQueue)
      i == m.inst
  IN /\ Handling("ENABLED")
     /\ \/ /\ i \in store          \* Interface::Enable succeeds
           /\ enabled' = enabled \cup {Obj(i)}
           /\ scheduleQueue' = Scheduled(i)
           /\ \E pushed \in SetToSeqs(EnableMsgs(i)) : Consume(pushed)
           /\ Notify(m, {"OK"})
        \/ /\ Consume(<<>>)        \* it does not exist, or Enable fails
           /\ UNCHANGED <<enabled, scheduleQueue>>
           /\ Notify(m, {"FAILED"})
     /\ UNCHANGED <<storeVars, topicVars, recvData, pc>>

HandleDisabled ==
  LET m == Head(recvQueue)
      i == m.inst
  IN /\ Handling("DISABLED") \/ Handling("DISABLED_FORCE")
     /\ IF i \in store
        THEN /\ Disabled({Obj(i)})
             /\ \E pushed \in SetToSeqs(DisableMsgs(i, OpenOf(Obj(i)))) : Consume(pushed)
        ELSE Consume(<<>>) /\ UNCHANGED <<enabled, live>>
     /\ Notify(m, {result})        \* nobody reads this result
     /\ UNCHANGED <<storeVars, openTopics, topicKeys, topicOn, subKeys, subs,
                    scheduleQueue, recvData, pc>>

-----------------------------------------------------------------------------
(* SUBSCRIBE                                                               *)

\* Mutant: topicState is indexed before the instance is known to exist.
SubscribeRefusedLate ==
  LET m == Head(recvQueue)
      i == InstanceOf[m.topic]
  IN /\ Handling("SUBSCRIBE")
     /\ i \notin store \/ ~IsEnabled(i)
     /\ topicKeys' = topicKeys \cup {m.topic}
     /\ Consume(<<>>)
     /\ Notify(m, {"FAILED"})
     /\ UNCHANGED <<storeVars, enabled, openTopics, live, topicOn, subKeys, subs,
                    scheduleQueue, recvData, pc>>
\* The instance is missing, or it has to be enabled and Enable fails.
SubscribeRefused ==
  LET m == Head(recvQueue)
      i == InstanceOf[m.topic]
  IN /\ Handling("SUBSCRIBE")
     /\ i \notin store \/ ~IsEnabled(i)
     /\ Consume(<<>>)
     /\ Notify(m, {"FAILED"})
     /\ UNCHANGED <<storeVars, enabled, topicVars, scheduleQueue, recvData, pc>>

\* EnableInstance, if the instance is not enabled; pushed is what it pushes.
EnableIfNeeded(i, pushed) ==
  IF IsEnabled(i) THEN pushed = <<>> /\ UNCHANGED scheduleQueue
                  ELSE pushed \in SetToSeqs(EnableMsgs(i)) /\ scheduleQueue' = Scheduled(i)

\* OpenTopic fails: the whole instance is disabled, whoever else uses it.
SubscribeOpenFails ==
  LET m == Head(recvQueue)
      t == m.topic
      i == InstanceOf[t]
  IN /\ Handling("SUBSCRIBE")
     /\ i \in store /\ t \notin topicOn
     /\ topicKeys' = topicKeys \cup {t}
     /\ Disabled({Obj(i)})
     /\ \E up \in SetToSeqs(EnableMsgs(i)) \cup {<<>>} :
        \E down \in SetToSeqs(DisableMsgs(i, OpenOf(Obj(i)))) :
          EnableIfNeeded(i, up) /\ Consume(up \o down)
     /\ Notify(m, {"FAILED"})
     /\ UNCHANGED <<storeVars, openTopics, topicOn, subKeys, subs, recvData, pc>>

\* The topic is opened now.
SubscribeOpens ==
  LET m == Head(recvQueue)
      t == m.topic
      i == InstanceOf[t]
  IN /\ Handling("SUBSCRIBE")
     /\ i \in store /\ t \notin topicOn
     /\ enabled' = enabled \cup {Obj(i)}
     /\ openTopics' = openTopics \cup {<<Obj(i), t>>}
     /\ live' = live \cup {<<Obj(i), t>>}
     /\ topicKeys' = topicKeys \cup {t}
     /\ topicOn' = topicOn \cup {t}
     /\ subKeys' = subKeys \cup {t}
     /\ subs' = subs \cup {<<t, m.who>>}
     /\ \E up \in SetToSeqs(EnableMsgs(i)) \cup {<<>>} :
        \E opened \in SetToSeqs(OpenMsgs(t)) :
          EnableIfNeeded(i, up) /\ Consume(up \o opened)
     /\ Notify(m, {"OK"})
     /\ UNCHANGED <<storeVars, recvData, pc>>

\* topicState says the topic is open, so OpenTopic is not called, even when the
\* instance had been disabled meanwhile and is enabled again only now.  For an
\* instance that was enabled, the returned Result was never assigned.
SubscribeJoins ==
  LET m == Head(recvQueue)
      t == m.topic
      i == InstanceOf[t]
  IN /\ Handling("SUBSCRIBE")
     /\ i \in store /\ t \in topicOn
     /\ enabled' = enabled \cup {Obj(i)}
     /\ subKeys' = subKeys \cup {t}
     /\ subs' = subs \cup {<<t, m.who>>}
     /\ \E up \in SetToSeqs(EnableMsgs(i)) \cup {<<>>} :
          EnableIfNeeded(i, up) /\ Consume(up)
     /\ Notify(m, IF IsEnabled(i) THEN Codes ELSE {"OK"})
     /\ UNCHANGED <<storeVars, openTopics, live, topicKeys, topicOn, recvData, pc>>

-----------------------------------------------------------------------------
(* UNSUBSCRIBE, UNSUBSCRIBE_SDK                                            *)

\* Mutant: cntTopic is never incremented.
IdleUncounted(K) == {InstanceOf[t] : t \in topicKeys}
\* UpdateInstance, with K the keys of subscibers: close every open topic that
\* nobody subscribes to, then disable every instance that is a key of
\* topicState and has no open topic left.  topicState keeps the names of
\* removed instances, and looking such a name up gives a null pointer.
Closing(K)  == topicOn \ K
Idle(K)     == {InstanceOf[t] : t \in topicKeys} \ {InstanceOf[t] : t \in topicOn \cap K}
Touched(K)  == Idle(K) \cup {InstanceOf[t] : t \in Closing(K)}
Stopping(K) == {i \in Idle(K) : IsEnabled(i)}

UpdateInstance(K) ==
  LET closed == {<<Obj(InstanceOf[t]), t>> : t \in Closing(K)}
      objs == {Obj(i) : i \in Stopping(K)}
  IN /\ topicOn' = topicOn \ Closing(K)
     /\ openTopics' = openTopics \ closed
     /\ enabled' = enabled \ objs
     /\ live' = live \ (closed \cup {p \in openTopics : p[1] \in objs})
     /\ \E pushed \in SetToSeqs(UNION ({CloseMsgs(t) : t \in Closing(K)} \cup
                        {DisableMsgs(i, OpenOf(Obj(i)) \ Closing(K)) : i \in Stopping(K)})) :
          Consume(pushed)
     /\ UNCHANGED topicKeys

\* Mutant: the emptied list of subscribers stays in the map.
KeysKept(gone) == subKeys
\* subscibers without the pairs gone, and its keys: a list that becomes empty
\* is erased with its key.
KeysWithout(gone) ==
  subKeys \ {t \in {p[1] : p \in gone} : \A s \in SubscribersOf(t) : <<t, s>> \in gone}

HandleUnsubscribe ==
  LET m == Head(recvQueue)
      K == KeysWithout({<<m.topic, m.who>>})
  IN /\ Handling("UNSUBSCRIBE")
     /\ Touched(K) \subseteq store
     /\ subs' = subs \ {<<m.topic, m.who>>}
     /\ subKeys' = K
     /\ UpdateInstance(K)
     /\ Notify(m, Codes)           \* the Result is dropped: the field is garbage
     /\ UNCHANGED <<storeVars, scheduleQueue, recvData, pc>>

\* The loop runs UpdateInstance after each list it shrinks; the last run leaves
\* what a single one leaves.  It does not run if the connection subscribed nothing.
HandleUnsubscribeSdk ==
  LET m == Head(recvQueue)
      gone == {p \in subs : p[2] = m.who}
      K == KeysWithout(gone)
  IN /\ Handling("UNSUBSCRIBE_SDK")
     /\ IF gone = {}
        THEN Consume(<<>>) /\ UNCHANGED <<enabled, topicVars>>
        ELSE /\ Touched(K) \subseteq store
             /\ subs' = subs \ gone
             /\ subKeys' = K
             /\ UpdateInstance(K)
     /\ Notify(m, {result})
     /\ UNCHANGED <<storeVars, scheduleQueue, recvData, pc>>

UpdateCrashes ==
  LET m == Head(recvQueue)
      gone == IF m.type = "UNSUBSCRIBE" THEN {<<m.topic, m.who>>}
                                        ELSE {p \in subs : p[2] = m.who}
  IN /\ Handling("UNSUBSCRIBE") \/ (Handling("UNSUBSCRIBE_SDK") /\ gone # {})
     /\ ~(Touched(KeysWithout(gone)) \subseteq store)
     /\ Crash

-----------------------------------------------------------------------------
(* PUBLISH, PUBLISH_DATA, SHUTDOWN                                         *)

\* Missing instance, unknown topic, or Enable fails.
PublishRefused ==
  LET m == Head(recvQueue)
      i == m.inst
  IN /\ Handling("PUBLISH")
     /\ \/ i \notin store
        \/ m.topic \notin Supported \cup {NoTopic}
        \/ ~IsEnabled(i)
     /\ Consume(<<>>)
     /\ Notify(m, {"FAILED"})
     /\ UNCHANGED <<storeVars, enabled, topicVars, scheduleQueue, recvData, pc>>

\* UpdateData (the plugin's business), then enable, then open the topic if one
\* is named.  Neither topicState nor subscibers hears of it, and a failing
\* OpenTopic leaves the instance enabled.
HandlePublish ==
  LET m == Head(recvQueue)
      i == m.inst
  IN /\ Handling("PUBLISH")
     /\ i \in store /\ m.topic \in Supported \cup {NoTopic}
     /\ enabled' = enabled \cup {Obj(i)}
     /\ \E up \in SetToSeqs(EnableMsgs(i)) \cup {<<>>} :
          /\ EnableIfNeeded(i, up)
          /\ \/ /\ m.topic # NoTopic
                /\ openTopics' = openTopics \cup {<<Obj(i), m.topic>>}
                /\ live' = live \cup {<<Obj(i), m.topic>>}
                /\ \E opened \in SetToSeqs(OpenMsgs(m.topic)) : Consume(up \o opened)
                /\ Notify(m, {"OK"})
             \/ /\ Consume(up)
                /\ UNCHANGED <<openTopics, live>>
                /\ Notify(m, {IF m.topic = NoTopic THEN "OK" ELSE "FAILED"})
     /\ UNCHANGED <<storeVars, topicKeys, topicOn, subKeys, subs, recvData, pc>>

\* Plugin data goes to every subscriber: to an instance by UpdateData, to a
\* connection through recvData.  Indexing subscibers creates a missing key.
HandlePublishData ==
  LET t == Head(recvQueue).topic
      fds == SubscribersOf(t) \cap SdkFds
  IN /\ Handling("PUBLISH_DATA")
     /\ SubscribersOf(t) \cap Instances \subseteq store
     /\ subKeys' = subKeys \cup {t}
     /\ \E order \in SetToSeqs({<<fd, t>> : fd \in fds}) : recvData' = recvData \o order
     /\ Consume(<<>>)
     /\ UNCHANGED <<storeVars, enabled, openTopics, live, topicKeys, topicOn, subs,
                    scheduleQueue, pc, mainVars>>

\* A subscriber that has been removed is a null pointer.
PublishDataCrashes ==
  /\ Handling("PUBLISH_DATA")
  /\ ~(SubscribersOf(Head(recvQueue).topic) \cap Instances \subseteq store)
  /\ Crash

\* Mutant: the loop ends before the message is notified.
ShutdownSilent ==
  /\ Handling("SHUTDOWN")
  /\ pc' = "quit"
  /\ Consume(<<>>)
  /\ UNCHANGED <<storeVars, enabled, topicVars, scheduleQueue, recvData, mainVars>>
HandleShutdown ==
  /\ Handling("SHUTDOWN")
  /\ pc' = "quit"
  /\ Consume(<<>>)
  /\ Notify(Head(recvQueue), {result})
  /\ UNCHANGED <<storeVars, enabled, topicVars, scheduleQueue, recvData>>

-----------------------------------------------------------------------------
(* Schedule and the loop of Start                                          *)

\* HandleMessage finds the queue empty.
QueueDrained ==
  /\ pc = "handle" /\ recvQueue = <<>>
  /\ pc' = "schedule"
  /\ UNCHANGED <<storeVars, enabled, topicVars, scheduleQueue, recvQueue,
                 recvData, mainVars>>

\* Mutant: the comparison is turned round, as std::priority_queue invites.
BeforeReversed(a, b) ==
  a.due > b.due \/ (a.due = b.due /\ Priority[a.obj[1]] <= Priority[b.obj[1]])
\* ScheduleInstance::operator<: the earliest entry, then the lowest priority.
Before(a, b) ==
  a.due < b.due \/ (a.due = b.due /\ Priority[a.obj[1]] <= Priority[b.obj[1]])
IsTop(k) ==
  /\ k \in DOMAIN scheduleQueue
  /\ \A j \in DOMAIN scheduleQueue : Before(scheduleQueue[k], scheduleQueue[j])
DueNow(k) == pc = "schedule" /\ IsTop(k) /\ scheduleQueue[k].due = 0
IsCurrent(o) == o[1] \in store /\ o = Obj(o[1])

\* An entry whose instance was disabled since it was queued is thrown away.
ScheduleSkip(k) ==
  /\ DueNow(k)
  /\ scheduleQueue[k].obj \notin enabled
  /\ scheduleQueue' = RemoveAt(scheduleQueue, k)
  /\ UNCHANGED <<storeVars, enabled, topicVars, recvQueue, recvData, pc, mainVars>>

\* Data published and not yet sent, which MaxData bounds.
DataWaiting ==
  Len(recvData) + Cardinality({j \in DOMAIN recvQueue : recvQueue[j].type = "PUBLISH_DATA"})

\* Interface::Run publishes on some of the topics the plugin holds open; the
\* entry is queued again one period later.
ScheduleRun(k) ==
  LET o == scheduleQueue[k].obj
  IN /\ DueNow(k)
     /\ o \in enabled /\ o[1] \notin RunOnce
     /\ scheduleQueue' = [scheduleQueue EXCEPT ![k].due = @ + Period[o[1]]]
     /\ \E topics \in SUBSET LiveOf(o) :
          /\ DataWaiting + Cardinality(topics) <= MaxData
          /\ \E pushed \in SetToSeqs({Data(t) : t \in topics}) :
               recvQueue' = recvQueue \o pushed
     /\ UNCHANGED <<storeVars, enabled, topicVars, recvData, pc, mainVars>>

\* A run-once instance is closed after its run; topicState and subscibers keep
\* what they say of its topics.
ScheduleRunOnce(k) ==
  LET o == scheduleQueue[k].obj
  IN /\ DueNow(k)
     /\ o \in enabled /\ o[1] \in RunOnce
     /\ scheduleQueue' = RemoveAt(scheduleQueue, k)
     /\ Disabled({o})
     /\ \E topics \in SUBSET LiveOf(o) :
          /\ DataWaiting + Cardinality(topics) <= MaxData
          /\ \E pushed \in SetToSeqs({Data(t) : t \in topics}) :
             \E down \in SetToSeqs(DisableMsgs(o[1], OpenOf(o))) :
               recvQueue' = recvQueue \o pushed \o down
     /\ UNCHANGED <<storeVars, openTopics, topicKeys, topicOn, subKeys, subs,
                    recvData, pc, mainVars>>

\* The entry holds the last reference to an object of a removed plugin: its
\* code may be unmapped when the scheduler runs or destroys it.
ScheduleCrashes(k) ==
  /\ DueNow(k)
  /\ ~IsCurrent(scheduleQueue[k].obj)
  /\ Crash

\* The top entry is not due now (or there is none): leave Schedule and sleep.
ScheduleDone ==
  /\ pc = "schedule"
  /\ ~\E k \in DOMAIN scheduleQueue : DueNow(k)
  /\ pc' = "sleep"
  /\ UNCHANGED <<storeVars, enabled, topicVars, scheduleQueue, recvQueue,
                 recvData, mainVars>>

\* usleep, AddTime.  An entry whose time has passed unseen can never equal the
\* clock again; -1 stands for all such times.
Tick ==
  /\ pc = "sleep"
  /\ pc' = "handle"
  /\ scheduleQueue' = [k \in DOMAIN scheduleQueue |->
       [scheduleQueue[k] EXCEPT !.due = IF @ >= Cycle THEN @ - Cycle ELSE -1]]
  /\ UNCHANGED <<storeVars, enabled, topicVars, recvQueue, recvData, mainVars>>

HandleMessage ==
  \/ HandleEnabled \/ HandleDisabled
  \/ SubscribeRefused \/ SubscribeOpenFails \/ SubscribeOpens \/ SubscribeJoins
  \/ HandleUnsubscribe \/ HandleUnsubscribeSdk \/ UpdateCrashes
  \/ PublishRefused \/ HandlePublish
  \/ HandlePublishData \/ PublishDataCrashes
  \/ HandleShutdown
  \/ QueueDrained
Schedule ==
  \/ \E k \in DOMAIN scheduleQueue :
       ScheduleSkip(k) \/ ScheduleRun(k) \/ ScheduleRunOnce(k) \/ ScheduleCrashes(k)
  \/ ScheduleDone
RunThread == HandleMessage \/ Schedule \/ Tick

-----------------------------------------------------------------------------
(* The environment: the main thread and the thread that sends data.        *)

Alive == pc # "crashed"

\* RecvQueuePush and Wait.  finish is not initialised in a SHUTDOWN message, so
\* that wait may be over before it starts.
Post(m) ==
  /\ Alive /\ ticket = "idle" /\ service = "up" /\ sent < MaxRequests
  /\ recvQueue' = Append(recvQueue, m)
  /\ ticket' \in IF m.type = "SHUTDOWN" THEN {"waiting", "done"} ELSE {"waiting"}
  /\ service' = IF m.type = "SHUTDOWN" THEN "exiting" ELSE "up"
  /\ sent' = sent + 1
  /\ UNCHANGED <<storeVars, enabled, topicVars, scheduleQueue, recvData, pc, result,
                 exited>>

Requests == {m \in Msgs : /\ m.from = "main"
                          /\ m.type \notin {"PUBLISH_DATA", "DISABLED_FORCE"}
                          /\ m.type \in {"SUBSCRIBE", "UNSUBSCRIBE"} => m.who \in SdkFds}

\* Wait returns.
Awake ==
  /\ Alive /\ ticket = "done"
  /\ ticket' = "idle"
  /\ UNCHANGED <<storeVars, enabled, topicVars, scheduleQueue, recvQueue, recvData,
                 pc, result, sent, service, exited>>

\* MemoryStore::AddInstance of a fresh object, and DeleteInstance.
AddInstance(i) ==
  /\ Alive /\ ticket = "idle" /\ sent < MaxRequests /\ sent' = sent + 1
  /\ i \notin store /\ gen[i] < MaxLoads
  /\ store' = store \cup {i}
  /\ gen' = [gen EXCEPT ![i] = @ + 1]
  /\ UNCHANGED <<enabled, topicVars, scheduleQueue, recvQueue, recvData, pc,
                 ticket, result, service, exited>>
DeleteInstance(i) ==
  /\ Alive /\ ticket = "idle" /\ sent < MaxRequests /\ sent' = sent + 1
  /\ i \in store
  /\ store' = store \ {i}
  /\ UNCHANGED <<gen, enabled, topicVars, scheduleQueue, recvQueue, recvData, pc,
                 ticket, result, service, exited>>

\* PluginManager::Exit calls Instance::Disable itself and leaves enabled set.
ExitDisable(i) ==
  /\ Alive /\ service = "exiting" /\ ticket # "waiting"
  /\ i \in store \ exited /\ IsEnabled(i)
  /\ exited' = exited \cup {i}
  /\ live' = live \ {p \in openTopics : p[1] = Obj(i)}
  /\ \E pushed \in SetToSeqs(DisableMsgs(i, OpenOf(Obj(i)))) :
       recvQueue' = recvQueue \o pushed
  /\ UNCHANGED <<storeVars, enabled, openTopics, topicKeys, topicOn, subKeys, subs,
                 scheduleQueue, recvData, pc, ticket, result, sent, service>>

\* TcpMessageHandler takes data off recvData.
TakeData ==
  /\ Alive /\ recvData # <<>>
  /\ recvData' = Tail(recvData)
  /\ UNCHANGED <<storeVars, enabled, topicVars, scheduleQueue, recvQueue, pc, mainVars>>

Environment ==
  \/ \E m \in Requests : Post(m)
  \/ Awake
  \/ \E i \in Instances : AddInstance(i) \/ DeleteInstance(i) \/ ExitDisable(i)
  \/ TakeData

Next == RunThread \/ Environment
Spec == Init /\ [][Next]_vars /\ WF_vars(RunThread)

-----------------------------------------------------------------------------
(* Properties                                                              *)

TypeOK ==
  /\ store \subseteq Instances
  /\ gen \in [Instances -> Nat]
  /\ enabled \subseteq Objects
  /\ openTopics \subseteq Objects \X Topics
  /\ live \subseteq Objects \X Topics
  /\ topicKeys \subseteq Topics /\ topicOn \subseteq Topics /\ subKeys \subseteq Topics
  /\ subs \subseteq Topics \X Subscribers
  /\ scheduleQueue \in Seq(Entries)
  /\ recvQueue \in Seq(Msgs)
  /\ recvData \in Seq(SdkFds \X Topics)
  /\ pc \in {"handle", "schedule", "sleep", "quit", "crashed"}
  /\ ticket \in {"idle", "waiting", "done"} /\ result \in Codes
  /\ sent \in Nat /\ service \in {"up", "exiting"} /\ exited \subseteq Instances

\* topicState and subscibers agree after every message: a topic is marked open
\* exactly while somebody subscribes to it.
SubscriptionsMatchTopics ==
  \A t \in Topics : t \in topicOn <=> SubscribersOf(t) # {}

\* A plugin holds a topic open only while its instance is enabled, and every
\* topic it holds open is in openTopics, so that Disable will close it.
LiveTopicsClosedByDisable ==
  \A p \in live : p[1] \in enabled /\ p \in openTopics

\* An enabled instance always has an entry in the schedule queue.
EnabledIsQueued ==
  \A o \in enabled : \E k \in DOMAIN scheduleQueue : scheduleQueue[k].obj = o

\* No entry's time passes without the scheduler seeing it: an overdue entry at
\* the top would stop every instance for good.
NeverOverdue ==
  \A k \in DOMAIN scheduleQueue : scheduleQueue[k].due >= 0

\* Unless some plugin has been removed, no handler meets a name that the
\* MemoryStore does not know.
CrashNeedsRemoval ==
  pc = "crashed" => \E i \in Instances : gen[i] > 0 /\ (i \notin store \/ gen[i] > 1)

\* An enabled object of instance i uses topic t: from Enable, or from a topic
\* it has open.
Needs(i, t) ==
  \E o \in enabled : o[1] = i /\ (t \in EnableDeps[i] \/ \E u \in OpenOf(o) : t \in OpenDeps[u])
UnsubscribeAfter(k, i, t) ==
  \E j \in DOMAIN recvQueue : j > k /\ recvQueue[j] = Unsub(t, i)
\* No subscription of an instance outlives its reason: whatever an instance
\* subscribes to, now or by a message still queued, it either needs, or the
\* message that unsubscribes it is queued behind.
NoLeakedSubscription ==
  \A i \in Instances, t \in Topics :
    \/ Needs(i, t)
    \/ /\ <<t, i>> \in subs => UnsubscribeAfter(0, i, t)
       /\ \A k \in DOMAIN recvQueue : recvQueue[k] = Sub(t, i) => UnsubscribeAfter(k, i, t)

\* An unsubscription, of a topic or of a whole connection, never stops an
\* instance that still has a subscriber on one of its topics.
UnsubscribeSparesSubscribed ==
  [][(HandleUnsubscribe \/ HandleUnsubscribeSdk) =>
       \A i \in Instances : IsEnabled(i) /\ ~IsEnabled(i)' =>
         \A t \in TopicsOf(i) : SubscribersOf(t)' = {}]_vars

\* Every request the main thread waits for is answered, unless the thread that
\* should answer it is gone.
RequestAnswered ==
  ticket = "waiting" ~> (ticket # "waiting" \/ pc \in {"crashed", "quit"})

\* An instance that stays enabled keeps running, period after period.
EnabledKeepsRunning ==
  \A i \in Instances \ RunOnce :
    <>[](IsEnabled(i) /\ pc \notin {"crashed", "quit"}) =>
      []<><<\E k \in DOMAIN scheduleQueue :
              scheduleQueue[k].obj = Obj(i) /\ ScheduleRun(k)>>_vars

-----------------------------------------------------------------------------
(* What the design document says and the code does not do                  *)

\* Run is executed once each period (section 3.5.2): no instance is queued twice.
QueuedOnce ==
  \A j, k \in DOMAIN scheduleQueue :
    scheduleQueue[j].obj = scheduleQueue[k].obj => j = k

\* A successful subscription enables the instance and opens the topic (3.5.6).
SubscribeOpensTopic ==
  [][\A t \in Topics :
       (SubscribeOpens \/ SubscribeJoins) /\ Head(recvQueue).topic = t =>
         <<Obj(InstanceOf[t]), t>> \in live']_vars

\* OeSubscribe and OeUnsubscribe return 0 on success: a subscription or an
\* unsubscription that takes effect, so that the subscribers change, says so.
ReportsSuccess ==
  [][(SubscribeJoins \/ HandleUnsubscribe) /\ Head(recvQueue).from = "main" /\ subs' # subs
     => result' = "OK"]_vars
=============================================================================
