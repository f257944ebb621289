---------------------- MODULE InstanceRunHandlerProofs ----------------------
(***************************************************************************)
(* What holds of the scheduling thread for every set of instances, topics  *)
(* and connections, every dependency between plugins and every period that *)
(* is a multiple of the cycle: its types first, then each safety invariant *)
(* from TypeOK and a strengthening that makes it inductive.                *)
(***************************************************************************)
EXTENDS InstanceRunHandler, FiniteSetTheorems, SequenceTheorems, WellFoundedInduction, TLAPS

\* Every message a plugin may push from inside a handler.
PluginSubs   == {Sub(t, i) : t \in Topics, i \in Instances}
PluginUnsubs == {Unsub(t, i) : t \in Topics, i \in Instances}
PluginData   == {Data(t) : t \in Topics}
PluginMsgs   == PluginSubs \cup PluginUnsubs \cup PluginData

-----------------------------------------------------------------------------
(* Lemmas on sequences and finite sets                                     *)

\* The orderings of a finite set are sequences over it.
LEMMA SetToSeqsType ==
  ASSUME NEW S, IsFiniteSet(S), NEW s \in SetToSeqs(S)
  PROVE  s \in Seq(S)
  <1>1. Cardinality(S) \in Nat
    BY FS_CardinalityType
  <1>2. s \in [1..Cardinality(S) -> S]
    BY DEF SetToSeqs
  <1> QED  BY <1>1, <1>2

\* The plugins can push finitely many different messages.
LEMMA PluginMsgsFinite == IsFiniteSet(PluginMsgs)
  <1>1. IsFiniteSet(Topics \X Instances)
    BY FiniteAssumption, FS_Product
  <1>2. IsFiniteSet(PluginSubs)
    <2> DEFINE f == [p \in Topics \X Instances |-> Sub(p[1], p[2])]
    <2>1. f \in [Topics \X Instances -> PluginSubs]
      BY DEF PluginSubs
    <2>2. ASSUME NEW m \in PluginSubs PROVE \E p \in Topics \X Instances : f[p] = m
      <3>1. PICK t \in Topics, i \in Instances : m = Sub(t, i)
        BY DEF PluginSubs
      <3>2. f[<<t, i>>] = m
        BY <3>1
      <3> QED  BY <3>2
    <2>3. f \in Surjection(Topics \X Instances, PluginSubs)
      BY <2>1, <2>2 DEF Surjection
    <2> QED  BY <1>1, <2>3, FS_Surjection
  <1>3. IsFiniteSet(PluginUnsubs)
    <2> DEFINE f == [p \in Topics \X Instances |-> Unsub(p[1], p[2])]
    <2>1. f \in [Topics \X Instances -> PluginUnsubs]
      BY DEF PluginUnsubs
    <2>2. ASSUME NEW m \in PluginUnsubs PROVE \E p \in Topics \X Instances : f[p] = m
      <3>1. PICK t \in Topics, i \in Instances : m = Unsub(t, i)
        BY DEF PluginUnsubs
      <3>2. f[<<t, i>>] = m
        BY <3>1
      <3> QED  BY <3>2
    <2>3. f \in Surjection(Topics \X Instances, PluginUnsubs)
      BY <2>1, <2>2 DEF Surjection
    <2> QED  BY <1>1, <2>3, FS_Surjection
  <1>4. IsFiniteSet(PluginData)
    <2> DEFINE f == [t \in Topics |-> Data(t)]
    <2>1. f \in Surjection(Topics, PluginData)
      BY DEF Surjection, PluginData
    <2> QED  BY FiniteAssumption, <2>1, FS_Surjection
  <1> QED  BY <1>2, <1>3, <1>4, FS_Union DEF PluginMsgs

\* What plugins push are messages the scheduling thread knows.
LEMMA PluginMsgsType == PluginMsgs \subseteq Msgs
  <1>1. PluginSubs \subseteq TopicMsgs
    BY DEF PluginSubs, Sub, TopicMsgs, Subscribers, Senders
  <1>2. PluginUnsubs \subseteq TopicMsgs
    BY DEF PluginUnsubs, Unsub, TopicMsgs, Subscribers, Senders
  <1>3. PluginData \subseteq DataMsgs
    BY DEF PluginData, Data, DataMsgs, Senders
  <1> QED  BY <1>1, <1>2, <1>3 DEF PluginMsgs, Msgs

\* Any ordering of messages of plugins is a sequence of such messages.
LEMMA PushedType ==
  ASSUME NEW S \in SUBSET PluginMsgs, NEW s \in SetToSeqs(S)
  PROVE  s \in Seq(S) /\ s \in Seq(Msgs)
  <1>1. IsFiniteSet(S)
    BY PluginMsgsFinite, FS_Subset
  <1>2. s \in Seq(S)
    BY <1>1, SetToSeqsType
  <1>3. S \subseteq Msgs
    BY PluginMsgsType
  <1> QED  BY <1>2, <1>3, SeqMonotonic

\* What the plugins push from Enable, OpenTopic, CloseTopic and Disable.
LEMMA EmittedType ==
  /\ \A i \in Instances : EnableMsgs(i) \subseteq PluginMsgs
  /\ \A t \in Topics : OpenMsgs(t) \subseteq PluginMsgs
  /\ \A t \in Topics : CloseMsgs(t) \subseteq PluginMsgs
  /\ \A i \in Instances, T \in SUBSET Topics : DisableMsgs(i, T) \subseteq PluginMsgs
  /\ \A T \in SUBSET Topics : {Data(t) : t \in T} \subseteq PluginMsgs
  <1>1. \A i \in Instances : EnableMsgs(i) \subseteq PluginSubs
    BY ConstantsAssumption DEF EnableMsgs, PluginSubs
  <1>2. \A t \in Topics : OpenMsgs(t) \subseteq PluginSubs
    BY ConstantsAssumption DEF OpenMsgs, PluginSubs
  <1>3. \A t \in Topics : CloseMsgs(t) \subseteq PluginUnsubs
    BY ConstantsAssumption DEF CloseMsgs, PluginUnsubs
  <1>5. \A i \in Instances, T \in SUBSET Topics : DisableMsgs(i, T) \subseteq PluginUnsubs
    BY ConstantsAssumption DEF DisableMsgs, PluginUnsubs
  <1>6. \A T \in SUBSET Topics : {Data(t) : t \in T} \subseteq PluginData
    BY DEF PluginData
  <1> QED  BY <1>1, <1>2, <1>3, <1>5, <1>6 DEF PluginMsgs

\* Taking entry k out of a sequence keeps all the others.
LEMMA RemoveAtProperties ==
  ASSUME NEW S, NEW s \in Seq(S), NEW k \in 1..Len(s)
  PROVE  /\ RemoveAt(s, k) \in Seq(S)
         /\ Len(RemoveAt(s, k)) = Len(s) - 1
         /\ \A j \in 1..Len(s) - 1 : RemoveAt(s, k)[j] = IF j < k THEN s[j] ELSE s[j + 1]
  <1> DEFINE a == SubSeq(s, 1, k - 1)
             b == SubSeq(s, k + 1, Len(s))
  <1>0. /\ Len(s) \in Nat
        /\ \A j \in 1..Len(s) : s[j] \in S
    BY LenProperties
  <1>1. /\ a \in Seq(S) /\ Len(a) = k - 1
        /\ \A j \in 1..k - 1 : a[j] = s[j]
    BY <1>0, SubSeqProperties
  <1>2. /\ b \in Seq(S) /\ Len(b) = Len(s) - k
        /\ \A j \in 1..Len(s) - k : b[j] = s[k + j]
    BY <1>0, SubSeqProperties
  <1> HIDE DEF a, b
  <1>3. /\ a \o b \in Seq(S) /\ Len(a \o b) = Len(s) - 1
        /\ \A j \in 1..Len(s) - 1 : (a \o b)[j] = IF j <= k - 1 THEN a[j] ELSE b[j - (k - 1)]
    BY <1>0, <1>1, <1>2, ConcatProperties
  <1>4. ASSUME NEW j \in 1..Len(s) - 1
        PROVE  (a \o b)[j] = IF j < k THEN s[j] ELSE s[j + 1]
    <2>1. CASE j < k
      <3>1. j \in 1..k - 1 /\ j <= k - 1
        BY <2>1, <1>0
      <3> QED  BY <3>1, <1>1, <1>3
    <2>2. CASE ~(j < k)
      <3>1. j - (k - 1) \in 1..Len(s) - k /\ ~(j <= k - 1) /\ k + (j - (k - 1)) = j + 1
        BY <2>2, <1>0
      <3>2. b[j - (k - 1)] = s[j + 1]
        BY <3>1, <1>2
      <3> QED  BY <2>2, <3>1, <3>2, <1>3
    <2> QED  BY <2>1, <2>2
  <1>5. RemoveAt(s, k) = a \o b
    BY DEF RemoveAt, a, b
  <1> QED  BY <1>3, <1>4, <1>5

\* Which fields a message of each type has.
LEMMA MessageFields ==
  ASSUME NEW m \in Msgs
  PROVE  /\ m.from \in Senders
         /\ m.type \in {"ENABLED", "DISABLED", "DISABLED_FORCE"} => m.inst \in Instances
         /\ m.type \in {"SUBSCRIBE", "UNSUBSCRIBE"} =>
              m.topic \in Topics /\ m.who \in Subscribers
         /\ m.type = "UNSUBSCRIBE_SDK" => m.who \in SdkFds
         /\ m.type = "PUBLISH" =>
              /\ m.inst \in Instances /\ m.topic \in Topics \cup {NoTopic}
              /\ m.topic # NoTopic => m.inst = InstanceOf[m.topic]
         /\ m.type = "PUBLISH_DATA" => m.topic \in Topics
  <1>1. CASE m \in InstanceMsgs
    BY <1>1 DEF InstanceMsgs
  <1>2. CASE m \in TopicMsgs
    BY <1>2 DEF TopicMsgs
  <1>3. CASE m \in SdkMsgs
    BY <1>3 DEF SdkMsgs
  <1>4. CASE m \in PublishMsgs
    BY <1>4 DEF PublishMsgs
  <1>5. CASE m \in DataMsgs
    BY <1>5 DEF DataMsgs
  <1>6. CASE m \in ShutdownMsgs
    BY <1>6 DEF ShutdownMsgs
  <1> QED  BY <1>1, <1>2, <1>3, <1>4, <1>5, <1>6 DEF Msgs

\* Handling a message leaves a queue of messages.
LEMMA ConsumeType ==
  ASSUME recvQueue \in Seq(Msgs), recvQueue # <<>>,
         NEW pushed \in Seq(Msgs), Consume(pushed)
  PROVE  recvQueue' \in Seq(Msgs)
  <1>1. Tail(recvQueue) \in Seq(Msgs)
    BY HeadTailProperties
  <1> QED  BY <1>1, ConcatProperties DEF Consume

\* A handler that pushes nothing only shortens recvQueue.
LEMMA ConsumeNothing ==
  ASSUME recvQueue \in Seq(Msgs), recvQueue # <<>>, Consume(<<>>)
  PROVE  recvQueue' \in Seq(Msgs)
  <1>1. <<>> \in Seq(Msgs)
    BY EmptySeq
  <1> QED  BY <1>1, ConsumeType

\* An entry pushed for an instance is an entry of its current object.
LEMMA ScheduledType ==
  ASSUME TypeOK, NEW i \in Instances
  PROVE  /\ Obj(i) \in Objects
         /\ FirstDue(i) \in Nat
         /\ [obj |-> Obj(i), due |-> FirstDue(i)] \in Entries
         /\ Scheduled(i) \in Seq(Entries)
  <1>1. Obj(i) \in Objects
    BY DEF TypeOK, Obj, Objects
  <1>2. FirstDue(i) \in Nat
    BY PeriodAssumption DEF FirstDue
  <1>3. [obj |-> Obj(i), due |-> FirstDue(i)] \in Entries
    BY <1>1, <1>2 DEF Entries
  <1>4. Scheduled(i) \in Seq(Entries)
    BY <1>3, AppendProperties DEF Scheduled, TypeOK
  <1> QED  BY <1>1, <1>2, <1>3, <1>4

-----------------------------------------------------------------------------
(* Type correctness                                                        *)

\* The service starts in a well-typed state.
LEMMA InitTypeOK == Init => TypeOK
  BY ConstantsAssumption DEF Init, TypeOK, Entries, Codes

\* Notify answers with a code, or leaves the main thread alone.
LEMMA NotifyType ==
  ASSUME TypeOK, NEW m, NEW codes \in SUBSET Codes, Notify(m, codes)
  PROVE  /\ ticket' \in {"idle", "waiting", "done"} /\ result' \in Codes
         /\ sent' \in Nat /\ service' \in {"up", "exiting"} /\ exited' \subseteq Instances
  BY DEF TypeOK, Notify

\* Enabling on demand pushes messages of the plugin and at most one entry.
LEMMA EnableIfNeededType ==
  ASSUME TypeOK, NEW i \in Instances, NEW pushed, EnableIfNeeded(i, pushed)
  PROVE  /\ pushed \in Seq(Msgs)
         /\ scheduleQueue' \in Seq(Entries)
  <1>1. CASE IsEnabled(i)
    BY <1>1 DEF EnableIfNeeded, TypeOK
  <1>2. CASE ~IsEnabled(i)
    <2>1. pushed \in SetToSeqs(EnableMsgs(i)) /\ scheduleQueue' = Scheduled(i)
      BY <1>2 DEF EnableIfNeeded
    <2> QED  BY <2>1, EmittedType, PushedType, ScheduledType
  <1> QED  BY <1>1, <1>2

\* ENABLED keeps the types, whether or not the plugin's Enable succeeds.
LEMMA HandleEnabledType == TypeOK /\ HandleEnabled => TypeOK'
  <1> SUFFICES ASSUME TypeOK, HandleEnabled PROVE TypeOK'
    OBVIOUS
  <1> DEFINE m == Head(recvQueue)
  <1>1. /\ recvQueue # <<>> /\ m \in Msgs /\ m.type = "ENABLED"
        /\ m.inst \in Instances
    BY MessageFields DEF HandleEnabled, Handling, TypeOK
  <1> HIDE DEF m
  <1>2. CASE /\ enabled' = enabled \cup {Obj(m.inst)}
             /\ scheduleQueue' = Scheduled(m.inst)
             /\ \E pushed \in SetToSeqs(EnableMsgs(m.inst)) : Consume(pushed)
             /\ Notify(m, {"OK"})
    <2>1. recvQueue' \in Seq(Msgs)
      BY <1>1, <1>2, EmittedType, PushedType, ConsumeType DEF TypeOK
    <2>2. /\ scheduleQueue' \in Seq(Entries)
          /\ enabled' \subseteq Objects
      BY <1>1, <1>2, ScheduledType DEF TypeOK
    <2>3. {"OK"} \in SUBSET Codes
      BY DEF Codes
    <2> QED  BY <1>2, <2>1, <2>2, <2>3, NotifyType
             DEF HandleEnabled, TypeOK, storeVars, topicVars
  <1>3. CASE /\ Consume(<<>>)
             /\ UNCHANGED <<enabled, scheduleQueue>>
             /\ Notify(m, {"FAILED"})
    <2>1. recvQueue' \in Seq(Msgs)
      BY <1>1, <1>3, ConsumeNothing DEF TypeOK
    <2>3. {"FAILED"} \in SUBSET Codes
      BY DEF Codes
    <2> QED  BY <1>3, <2>1, <2>3, NotifyType
             DEF HandleEnabled, TypeOK, storeVars, topicVars
  <1> QED  BY <1>2, <1>3 DEF HandleEnabled, m

\* DISABLED keeps the types, also for an instance that is gone.
LEMMA HandleDisabledType == TypeOK /\ HandleDisabled => TypeOK'
  <1> SUFFICES ASSUME TypeOK, HandleDisabled PROVE TypeOK'
    OBVIOUS
  <1> DEFINE m == Head(recvQueue)
  <1>1. /\ recvQueue # <<>> /\ m \in Msgs /\ m.inst \in Instances
    BY MessageFields DEF HandleDisabled, Handling, TypeOK
  <1> HIDE DEF m
  <1>2. {result} \in SUBSET Codes
    BY DEF TypeOK
  <1>3. Notify(m, {result})
    BY DEF HandleDisabled, m
  <1>4. CASE m.inst \in store
    <2>1. PICK pushed \in SetToSeqs(DisableMsgs(m.inst, OpenOf(Obj(m.inst)))) : Consume(pushed)
      BY <1>4 DEF HandleDisabled, m
    <2>2. OpenOf(Obj(m.inst)) \in SUBSET Topics
      BY DEF OpenOf
    <2>3. recvQueue' \in Seq(Msgs)
      BY <1>1, <2>1, <2>2, EmittedType, PushedType, ConsumeType DEF TypeOK
    <2>4. Disabled({Obj(m.inst)})
      BY <1>4 DEF HandleDisabled, m
    <2> QED  BY <1>2, <1>3, <2>3, <2>4, NotifyType
             DEF HandleDisabled, TypeOK, Disabled, storeVars
  <1>5. CASE m.inst \notin store
    <2>1. recvQueue' \in Seq(Msgs)
      BY <1>1, <1>5, ConsumeNothing DEF TypeOK, HandleDisabled, m
    <2>2. UNCHANGED <<enabled, live>>
      BY <1>5 DEF HandleDisabled, m
    <2> QED  BY <1>2, <1>3, <2>1, <2>2, NotifyType DEF HandleDisabled, TypeOK, storeVars
  <1> QED  BY <1>4, <1>5

\* So does a SUBSCRIBE or PUBLISH that is refused.
LEMMA RefusedType == TypeOK /\ (SubscribeRefused \/ PublishRefused) => TypeOK'
  <1> SUFFICES ASSUME TypeOK, SubscribeRefused \/ PublishRefused PROVE TypeOK'
    OBVIOUS
  <1>1. recvQueue' \in Seq(Msgs)
    BY ConsumeNothing DEF SubscribeRefused, PublishRefused, Handling, TypeOK
  <1>2. {"FAILED"} \in SUBSET Codes
    BY DEF Codes
  <1>3. Notify(Head(recvQueue), {"FAILED"})
    BY DEF SubscribeRefused, PublishRefused
  <1> QED  BY <1>1, <1>2, <1>3, NotifyType
           DEF SubscribeRefused, PublishRefused, TypeOK, storeVars, topicVars

\* Two batches pushed by one handler.
LEMMA ConsumeTwo ==
  ASSUME recvQueue \in Seq(Msgs), recvQueue # <<>>,
         NEW a \in Seq(Msgs), NEW b \in Seq(Msgs), Consume(a \o b)
  PROVE  recvQueue' \in Seq(Msgs)
  <1>1. a \o b \in Seq(Msgs)
    BY ConcatProperties
  <1> QED  BY <1>1, ConsumeType

\* So does a SUBSCRIBE whose OpenTopic fails and disables the instance.
LEMMA SubscribeOpenFailsType == TypeOK /\ SubscribeOpenFails => TypeOK'
  <1> SUFFICES ASSUME TypeOK, SubscribeOpenFails PROVE TypeOK'
    OBVIOUS
  <1> DEFINE m == Head(recvQueue)
             i == InstanceOf[m.topic]
  <1>1. /\ recvQueue # <<>> /\ m \in Msgs /\ m.topic \in Topics /\ i \in Instances
    BY MessageFields, ConstantsAssumption DEF SubscribeOpenFails, Handling, TypeOK
  <1>2. PICK up \in SetToSeqs(EnableMsgs(i)) \cup {<<>>}, down \in SetToSeqs(DisableMsgs(i, OpenOf(Obj(i)))) :
               EnableIfNeeded(i, up) /\ Consume(up \o down)
    BY DEF SubscribeOpenFails
  <1>3. /\ topicKeys' = topicKeys \cup {m.topic}
        /\ Disabled({Obj(i)}) /\ Notify(m, {"FAILED"})
    BY DEF SubscribeOpenFails
  <1> HIDE DEF m, i
  <1>4. up \in Seq(Msgs) /\ scheduleQueue' \in Seq(Entries)
    BY <1>1, <1>2, EnableIfNeededType
  <1>5. down \in Seq(Msgs)
    <2>1. OpenOf(Obj(i)) \in SUBSET Topics
      BY DEF OpenOf
    <2> QED  BY <1>1, <1>2, <2>1, EmittedType, PushedType
  <1>6. recvQueue' \in Seq(Msgs)
    BY <1>1, <1>2, <1>4, <1>5, ConsumeTwo DEF TypeOK
  <1>7. {"FAILED"} \in SUBSET Codes
    BY DEF Codes
  <1> QED  BY <1>1, <1>3, <1>4, <1>6, <1>7, NotifyType
           DEF SubscribeOpenFails, Disabled, TypeOK, storeVars

\* So does a SUBSCRIBE that opens its topic.
LEMMA SubscribeOpensType == TypeOK /\ SubscribeOpens => TypeOK'
  <1> SUFFICES ASSUME TypeOK, SubscribeOpens PROVE TypeOK'
    OBVIOUS
  <1> DEFINE m == Head(recvQueue)
             t == m.topic
             i == InstanceOf[t]
  <1>1. /\ recvQueue # <<>> /\ m \in Msgs /\ t \in Topics /\ i \in Instances
        /\ m.who \in Subscribers
    BY MessageFields, ConstantsAssumption DEF SubscribeOpens, Handling, TypeOK
  <1>2. PICK up \in SetToSeqs(EnableMsgs(i)) \cup {<<>>}, opened \in SetToSeqs(OpenMsgs(t)) :
               EnableIfNeeded(i, up) /\ Consume(up \o opened)
    BY DEF SubscribeOpens
  <1>3. /\ enabled' = enabled \cup {Obj(i)}
        /\ openTopics' = openTopics \cup {<<Obj(i), t>>}
        /\ live' = live \cup {<<Obj(i), t>>}
        /\ topicKeys' = topicKeys \cup {t} /\ topicOn' = topicOn \cup {t}
        /\ subKeys' = subKeys \cup {t} /\ subs' = subs \cup {<<t, m.who>>}
        /\ Notify(m, {"OK"})
    BY DEF SubscribeOpens
  <1> HIDE DEF m, t, i
  <1>4. up \in Seq(Msgs) /\ scheduleQueue' \in Seq(Entries)
    BY <1>1, <1>2, EnableIfNeededType
  <1>5. opened \in Seq(Msgs)
    BY <1>1, <1>2, EmittedType, PushedType
  <1>6. recvQueue' \in Seq(Msgs)
    BY <1>1, <1>2, <1>4, <1>5, ConsumeTwo DEF TypeOK
  <1>7. {"OK"} \in SUBSET Codes
    BY DEF Codes
  <1>8. Obj(i) \in Objects
    BY <1>1, ScheduledType
  <1>9. /\ enabled' \subseteq Objects
        /\ openTopics' \subseteq Objects \X Topics /\ live' \subseteq Objects \X Topics
        /\ topicKeys' \subseteq Topics /\ topicOn' \subseteq Topics
        /\ subKeys' \subseteq Topics /\ subs' \subseteq Topics \X Subscribers
    BY <1>1, <1>3, <1>8 DEF TypeOK
  <1>10. /\ ticket' \in {"idle", "waiting", "done"} /\ result' \in Codes
         /\ sent' \in Nat /\ service' \in {"up", "exiting"} /\ exited' \subseteq Instances
    BY <1>3, <1>7, NotifyType
  <1>11. UNCHANGED <<store, gen, recvData, pc>>
    BY DEF SubscribeOpens, storeVars
  <1> QED  BY <1>4, <1>6, <1>9, <1>10, <1>11 DEF TypeOK

\* So does a SUBSCRIBE of a topic marked open, whatever code it returns.
LEMMA SubscribeJoinsType == TypeOK /\ SubscribeJoins => TypeOK'
  <1> SUFFICES ASSUME TypeOK, SubscribeJoins PROVE TypeOK'
    OBVIOUS
  <1> DEFINE m == Head(recvQueue)
             t == m.topic
             i == InstanceOf[t]
             codes == IF IsEnabled(i) THEN Codes ELSE {"OK"}
  <1>1. /\ recvQueue # <<>> /\ m \in Msgs /\ t \in Topics /\ i \in Instances
        /\ m.who \in Subscribers
    BY MessageFields, ConstantsAssumption DEF SubscribeJoins, Handling, TypeOK
  <1>2. PICK up : EnableIfNeeded(i, up) /\ Consume(up)
    BY DEF SubscribeJoins
  <1>3. /\ enabled' = enabled \cup {Obj(i)}
        /\ subKeys' = subKeys \cup {t} /\ subs' = subs \cup {<<t, m.who>>}
        /\ Notify(m, codes)
    BY DEF SubscribeJoins
  <1>7. codes \in SUBSET Codes
    BY DEF Codes
  <1> HIDE DEF m, t, i, codes
  <1>4. up \in Seq(Msgs) /\ scheduleQueue' \in Seq(Entries)
    BY <1>1, <1>2, EnableIfNeededType
  <1>6. recvQueue' \in Seq(Msgs)
    BY <1>1, <1>2, <1>4, ConsumeType DEF TypeOK
  <1>8. Obj(i) \in Objects
    BY <1>1, ScheduledType
  <1>9. /\ enabled' \subseteq Objects /\ subKeys' \subseteq Topics
        /\ subs' \subseteq Topics \X Subscribers
    BY <1>1, <1>3, <1>8 DEF TypeOK
  <1>10. /\ ticket' \in {"idle", "waiting", "done"} /\ result' \in Codes
         /\ sent' \in Nat /\ service' \in {"up", "exiting"} /\ exited' \subseteq Instances
    BY <1>3, <1>7, NotifyType
  <1>11. UNCHANGED <<store, gen, openTopics, live, topicKeys, topicOn, recvData, pc>>
    BY DEF SubscribeJoins, storeVars
  <1> QED  BY <1>4, <1>6, <1>9, <1>10, <1>11 DEF TypeOK

\* What UpdateInstance makes the plugins push.
UpdateMsgs(K) ==
  UNION ({CloseMsgs(t) : t \in Closing(K)} \cup
         {DisableMsgs(i, OpenOf(Obj(i)) \ Closing(K)) : i \in Stopping(K)})

\* What plugins push while UpdateInstance closes topics and disables instances.
LEMMA UpdateMsgsType ==
  ASSUME TypeOK, NEW K
  PROVE  UpdateMsgs(K) \subseteq PluginMsgs
  <1> SUFFICES ASSUME NEW x \in UpdateMsgs(K) PROVE x \in PluginMsgs
    OBVIOUS
  <1>1. PICK X \in {CloseMsgs(t) : t \in Closing(K)} \cup
                   {DisableMsgs(i, OpenOf(Obj(i)) \ Closing(K)) : i \in Stopping(K)} : x \in X
    BY DEF UpdateMsgs
  <1>2. CASE X \in {CloseMsgs(t) : t \in Closing(K)}
    <2>1. PICK t \in Closing(K) : X = CloseMsgs(t)
      BY <1>2
    <2>2. t \in Topics
      BY <2>1 DEF Closing, TypeOK
    <2> QED  BY <1>1, <2>1, <2>2, EmittedType
  <1>3. CASE X \in {DisableMsgs(i, OpenOf(Obj(i)) \ Closing(K)) : i \in Stopping(K)}
    <2>1. PICK i \in Stopping(K) : X = DisableMsgs(i, OpenOf(Obj(i)) \ Closing(K))
      BY <1>3
    <2>2. i \in Instances
      BY <2>1, ConstantsAssumption DEF Stopping, Idle, TypeOK
    <2>3. OpenOf(Obj(i)) \ Closing(K) \in SUBSET Topics
      BY DEF OpenOf
    <2> QED  BY <1>1, <2>1, <2>2, <2>3, EmittedType
  <1> QED  BY <1>1, <1>2, <1>3

\* UpdateInstance keeps the types of what it assigns.
LEMMA UpdateInstanceType ==
  ASSUME TypeOK, recvQueue # <<>>, NEW K, UpdateInstance(K)
  PROVE  /\ topicOn' \subseteq topicOn /\ openTopics' \subseteq openTopics
         /\ enabled' \subseteq enabled /\ live' \subseteq live
         /\ topicKeys' = topicKeys
         /\ recvQueue' \in Seq(Msgs)
  <1>1. PICK pushed \in SetToSeqs(UpdateMsgs(K)) : Consume(pushed)
    BY DEF UpdateInstance, UpdateMsgs
  <1>2. recvQueue' \in Seq(Msgs)
    BY <1>1, UpdateMsgsType, PushedType, ConsumeType DEF TypeOK
  <1> QED  BY <1>2 DEF UpdateInstance

\* UNSUBSCRIBE keeps the types.
LEMMA HandleUnsubscribeType == TypeOK /\ HandleUnsubscribe => TypeOK'
  <1> SUFFICES ASSUME TypeOK, HandleUnsubscribe PROVE TypeOK'
    OBVIOUS
  <1> DEFINE m == Head(recvQueue)
             K == KeysWithout({<<m.topic, m.who>>})
  <1>1. recvQueue # <<>> /\ K \subseteq subKeys
    BY DEF HandleUnsubscribe, Handling, KeysWithout
  <1>2. /\ UpdateInstance(K) /\ subKeys' = K /\ Notify(m, Codes)
        /\ subs' = subs \ {<<m.topic, m.who>>}
    BY DEF HandleUnsubscribe
  <1> HIDE DEF m, K
  <1>3. /\ topicOn' \subseteq topicOn /\ openTopics' \subseteq openTopics
        /\ enabled' \subseteq enabled /\ live' \subseteq live
        /\ topicKeys' = topicKeys
        /\ recvQueue' \in Seq(Msgs)
    BY <1>1, <1>2, UpdateInstanceType
  <1>4. /\ ticket' \in {"idle", "waiting", "done"} /\ result' \in Codes
        /\ sent' \in Nat /\ service' \in {"up", "exiting"} /\ exited' \subseteq Instances
    BY <1>2, NotifyType
  <1>5. UNCHANGED <<store, gen, scheduleQueue, recvData, pc>>
    BY DEF HandleUnsubscribe, storeVars
  <1> QED  BY <1>1, <1>2, <1>3, <1>4, <1>5 DEF TypeOK

\* UNSUBSCRIBE_SDK keeps the types, with or without subscriptions to drop.
LEMMA HandleUnsubscribeSdkType == TypeOK /\ HandleUnsubscribeSdk => TypeOK'
  <1> SUFFICES ASSUME TypeOK, HandleUnsubscribeSdk PROVE TypeOK'
    OBVIOUS
  <1> DEFINE m == Head(recvQueue)
             gone == {p \in subs : p[2] = m.who}
             K == KeysWithout(gone)
  <1>1. recvQueue # <<>> /\ K \subseteq subKeys
    BY DEF HandleUnsubscribeSdk, Handling, KeysWithout
  <1>2. \/ Consume(<<>>) /\ UNCHANGED <<enabled, topicVars>>
        \/ UpdateInstance(K) /\ subKeys' = K /\ subs' = subs \ gone
    BY DEF HandleUnsubscribeSdk
  <1>3. Notify(m, {result})
    BY DEF HandleUnsubscribeSdk
  <1> HIDE DEF m, K, gone
  <1>4. /\ topicOn' \subseteq topicOn /\ openTopics' \subseteq openTopics
        /\ enabled' \subseteq enabled /\ live' \subseteq live
        /\ topicKeys' = topicKeys /\ subKeys' \subseteq subKeys /\ subs' \subseteq subs
        /\ recvQueue' \in Seq(Msgs)
    <2>1. CASE Consume(<<>>) /\ UNCHANGED <<enabled, topicVars>>
      <3>1. recvQueue' \in Seq(Msgs)
        BY <1>1, <2>1, ConsumeNothing DEF TypeOK
      <3> QED  BY <2>1, <3>1 DEF topicVars
    <2>2. CASE UpdateInstance(K) /\ subKeys' = K /\ subs' = subs \ gone
      BY <1>1, <2>2, UpdateInstanceType
    <2> QED  BY <1>2, <2>1, <2>2
  <1>5. /\ ticket' \in {"idle", "waiting", "done"} /\ result' \in Codes
        /\ sent' \in Nat /\ service' \in {"up", "exiting"} /\ exited' \subseteq Instances
    <2>1. {result} \in SUBSET Codes
      BY DEF TypeOK
    <2> QED  BY <1>3, <2>1, NotifyType
  <1>6. UNCHANGED <<store, gen, scheduleQueue, recvData, pc>>
    BY DEF HandleUnsubscribeSdk, storeVars
  <1> QED  BY <1>4, <1>5, <1>6 DEF TypeOK

\* A crash changes only where the thread is.
LEMMA CrashType == TypeOK /\ Crash => TypeOK'
  BY DEF Crash, TypeOK, storeVars, topicVars, mainVars

\* PUBLISH keeps the types, with and without a topic name.
LEMMA HandlePublishType == TypeOK /\ HandlePublish => TypeOK'
  <1> SUFFICES ASSUME TypeOK, HandlePublish PROVE TypeOK'
    OBVIOUS
  <1> DEFINE m == Head(recvQueue)
             i == m.inst
             t == m.topic
             code == IF t = NoTopic THEN "OK" ELSE "FAILED"
  <1>1. recvQueue # <<>> /\ m \in Msgs /\ i \in Instances /\ t \in Topics \cup {NoTopic}
    BY MessageFields DEF HandlePublish, Handling, TypeOK
  <1>2. PICK up \in SetToSeqs(EnableMsgs(i)) \cup {<<>>} :
          /\ EnableIfNeeded(i, up)
          /\ \/ /\ t # NoTopic
                /\ openTopics' = openTopics \cup {<<Obj(i), t>>}
                /\ live' = live \cup {<<Obj(i), t>>}
                /\ \E opened \in SetToSeqs(OpenMsgs(t)) : Consume(up \o opened)
                /\ Notify(m, {"OK"})
             \/ /\ Consume(up)
                /\ UNCHANGED <<openTopics, live>>
                /\ Notify(m, {code})
    BY DEF HandlePublish
  <1>3. enabled' = enabled \cup {Obj(i)}
    BY DEF HandlePublish
  <1>4. {"OK"} \in SUBSET Codes /\ {code} \in SUBSET Codes
    BY DEF Codes
  <1> HIDE DEF m, i, t, code
  <1>5. up \in Seq(Msgs) /\ scheduleQueue' \in Seq(Entries) /\ Obj(i) \in Objects
    BY <1>1, <1>2, EnableIfNeededType, ScheduledType
  <1>6. /\ openTopics' \subseteq Objects \X Topics /\ live' \subseteq Objects \X Topics
        /\ recvQueue' \in Seq(Msgs)
        /\ Notify(m, {"OK"}) \/ Notify(m, {code})
    <2>1. CASE /\ t # NoTopic
               /\ openTopics' = openTopics \cup {<<Obj(i), t>>}
               /\ live' = live \cup {<<Obj(i), t>>}
               /\ \E opened \in SetToSeqs(OpenMsgs(t)) : Consume(up \o opened)
               /\ Notify(m, {"OK"})
      <3>1. t \in Topics
        BY <1>1, <2>1
      <3>2. PICK opened \in SetToSeqs(OpenMsgs(t)) : Consume(up \o opened)
        BY <2>1
      <3>3. opened \in Seq(Msgs)
        BY <3>1, <3>2, EmittedType, PushedType
      <3>4. recvQueue' \in Seq(Msgs)
        BY <1>1, <1>5, <3>2, <3>3, ConsumeTwo DEF TypeOK
      <3> QED  BY <1>5, <2>1, <3>1, <3>4 DEF TypeOK
    <2>2. CASE Consume(up) /\ UNCHANGED <<openTopics, live>> /\ Notify(m, {code})
      <3>1. recvQueue' \in Seq(Msgs)
        BY <1>1, <1>5, <2>2, ConsumeType DEF TypeOK
      <3> QED  BY <2>2, <3>1 DEF TypeOK
    <2> QED  BY <1>2, <2>1, <2>2
  <1>7. /\ ticket' \in {"idle", "waiting", "done"} /\ result' \in Codes
        /\ sent' \in Nat /\ service' \in {"up", "exiting"} /\ exited' \subseteq Instances
    BY <1>4, <1>6, NotifyType
  <1>8. UNCHANGED <<store, gen, topicKeys, topicOn, subKeys, subs, recvData, pc>>
    BY DEF HandlePublish, storeVars
  <1> QED  BY <1>3, <1>5, <1>6, <1>7, <1>8 DEF TypeOK

\* PUBLISH_DATA keeps the types: what joins recvData is addressed to a connection.
LEMMA HandlePublishDataType == TypeOK /\ HandlePublishData => TypeOK'
  <1> SUFFICES ASSUME TypeOK, HandlePublishData PROVE TypeOK'
    OBVIOUS
  <1> DEFINE t == Head(recvQueue).topic
             S == {<<fd, t>> : fd \in SubscribersOf(t) \cap SdkFds}
  <1>1. recvQueue # <<>> /\ Head(recvQueue) \in Msgs /\ t \in Topics
    BY MessageFields DEF HandlePublishData, Handling, TypeOK
  <1>2. PICK order \in SetToSeqs(S) : recvData' = recvData \o order
    BY DEF HandlePublishData
  <1>3. subKeys' = subKeys \cup {t} /\ Consume(<<>>)
    BY DEF HandlePublishData
  <1>4. S \subseteq SdkFds \X Topics
    BY <1>1
  <1> HIDE DEF t, S
  <1>5. order \in Seq(SdkFds \X Topics)
    <2>1. IsFiniteSet(SdkFds \X Topics)
      BY FiniteAssumption, FS_Product
    <2>2. IsFiniteSet(S)
      BY <1>4, <2>1, FS_Subset
    <2>3. order \in Seq(S)
      BY <1>2, <2>2, SetToSeqsType
    <2> QED  BY <1>4, <2>3, SeqMonotonic
  <1>6. recvData' \in Seq(SdkFds \X Topics)
    BY <1>2, <1>5, ConcatProperties DEF TypeOK
  <1>7. recvQueue' \in Seq(Msgs)
    BY <1>1, <1>3, ConsumeNothing DEF TypeOK
  <1> QED  BY <1>1, <1>3, <1>6, <1>7 DEF HandlePublishData, TypeOK, storeVars, mainVars

\* SHUTDOWN keeps the types.
LEMMA HandleShutdownType == TypeOK /\ HandleShutdown => TypeOK'
  <1> SUFFICES ASSUME TypeOK, HandleShutdown PROVE TypeOK'
    OBVIOUS
  <1>1. recvQueue' \in Seq(Msgs)
    BY ConsumeNothing DEF HandleShutdown, Handling, TypeOK
  <1>2. {result} \in SUBSET Codes /\ Notify(Head(recvQueue), {result})
    BY DEF TypeOK, HandleShutdown
  <1> QED  BY <1>1, <1>2, NotifyType DEF HandleShutdown, TypeOK, storeVars, topicVars

\* Every message is handled by a step that keeps the types.
LEMMA HandleMessageType == TypeOK /\ HandleMessage => TypeOK'
  <1>1. TypeOK /\ (UpdateCrashes \/ PublishDataCrashes) => TypeOK'
    BY CrashType DEF UpdateCrashes, PublishDataCrashes
  <1>2. TypeOK /\ QueueDrained => TypeOK'
    BY DEF QueueDrained, TypeOK, storeVars, topicVars, mainVars
  <1> QED  BY <1>1, <1>2, HandleEnabledType, HandleDisabledType, RefusedType,
              SubscribeOpenFailsType, SubscribeOpensType, SubscribeJoinsType,
              HandleUnsubscribeType, HandleUnsubscribeSdkType, HandlePublishType,
              HandlePublishDataType, HandleShutdownType
           DEF HandleMessage

\* Data a plugin publishes from Run.
LEMMA RunPushes ==
  ASSUME TypeOK, NEW T \in SUBSET Topics, NEW pushed \in SetToSeqs({Data(t) : t \in T})
  PROVE  pushed \in Seq(Msgs) /\ recvQueue \o pushed \in Seq(Msgs)
  <1>1. pushed \in Seq(Msgs)
    BY EmittedType, PushedType
  <1> QED  BY <1>1, ConcatProperties DEF TypeOK

\* The parts of an entry of the schedule queue.
LEMMA EntryType ==
  ASSUME TypeOK, NEW k \in DOMAIN scheduleQueue
  PROVE  /\ k \in 1..Len(scheduleQueue) /\ scheduleQueue[k] \in Entries
         /\ scheduleQueue[k].obj \in Objects /\ scheduleQueue[k].obj[1] \in Instances
         /\ scheduleQueue[k].due \in Int
         /\ scheduleQueue[k] = [obj |-> scheduleQueue[k].obj, due |-> scheduleQueue[k].due]
  <1>1. k \in 1..Len(scheduleQueue)
    BY LenProperties DEF TypeOK
  <1>2. scheduleQueue[k] \in Entries
    BY <1>1, ElementOfSeq DEF TypeOK
  <1>3. scheduleQueue[k].obj \in Objects /\ scheduleQueue[k].due \in Int
    BY <1>2 DEF Entries
  <1>4. scheduleQueue[k].obj[1] \in Instances
    BY <1>3 DEF Objects
  <1>5. scheduleQueue[k] = [obj |-> scheduleQueue[k].obj, due |-> scheduleQueue[k].due]
    BY <1>2 DEF Entries
  <1> QED  BY <1>1, <1>2, <1>3, <1>4, <1>5

\* Running a due instance and queueing it again keeps the types.
LEMMA ScheduleRunType ==
  ASSUME TypeOK, NEW k \in DOMAIN scheduleQueue, ScheduleRun(k)
  PROVE  TypeOK'
  <1> DEFINE o == scheduleQueue[k].obj
  <1>1. o \in Objects /\ scheduleQueue[k].due \in Int /\ Period[o[1]] \in Nat
    BY EntryType, PeriodAssumption
  <1>2. scheduleQueue' = [scheduleQueue EXCEPT ![k].due = @ + Period[o[1]]]
    BY DEF ScheduleRun
  <1>3. PICK T \in SUBSET LiveOf(o) :
          \E pushed \in SetToSeqs({Data(t) : t \in T}) : recvQueue' = recvQueue \o pushed
    BY DEF ScheduleRun
  <1>4. LiveOf(o) \subseteq Topics
    BY DEF LiveOf
  <1> HIDE DEF o
  <1>5. recvQueue' \in Seq(Msgs)
    BY <1>3, <1>4, RunPushes
  <1>6. scheduleQueue' \in Seq(Entries)
    <2>1. [scheduleQueue[k] EXCEPT !.due = @ + Period[o[1]]] \in Entries
      BY <1>1, EntryType DEF Entries
    <2>2. k \in 1..Len(scheduleQueue)
      BY LenProperties DEF TypeOK
    <2> QED  BY <1>2, <2>1, <2>2, ExceptSeq DEF TypeOK
  <1> QED  BY <1>5, <1>6 DEF ScheduleRun, TypeOK, storeVars, topicVars, mainVars

\* Running and closing a run-once instance keeps the types.
LEMMA ScheduleRunOnceType ==
  ASSUME TypeOK, NEW k \in DOMAIN scheduleQueue, ScheduleRunOnce(k)
  PROVE  TypeOK'
  <1> DEFINE o == scheduleQueue[k].obj
  <1>1. o \in Objects /\ o[1] \in Instances
    BY EntryType
  <1>2. PICK T \in SUBSET LiveOf(o) :
        \E pushed \in SetToSeqs({Data(t) : t \in T}) :
        \E down \in SetToSeqs(DisableMsgs(o[1], OpenOf(o))) :
          recvQueue' = recvQueue \o pushed \o down
    BY DEF ScheduleRunOnce
  <1>3. LiveOf(o) \subseteq Topics /\ OpenOf(o) \in SUBSET Topics
    BY DEF LiveOf, OpenOf
  <1>4. scheduleQueue' = RemoveAt(scheduleQueue, k) /\ Disabled({o})
    BY DEF ScheduleRunOnce
  <1> HIDE DEF o
  <1>5. PICK pushed \in SetToSeqs({Data(t) : t \in T}),
             down \in SetToSeqs(DisableMsgs(o[1], OpenOf(o))) :
               recvQueue' = recvQueue \o pushed \o down
    BY <1>2
  <1>6. recvQueue \o pushed \in Seq(Msgs)
    BY <1>3, <1>5, RunPushes
  <1>7. down \in Seq(Msgs)
    BY <1>1, <1>3, <1>5, EmittedType, PushedType
  <1>8. recvQueue' \in Seq(Msgs)
    BY <1>5, <1>6, <1>7, ConcatProperties
  <1>9. scheduleQueue' \in Seq(Entries)
    BY <1>4, RemoveAtProperties, LenProperties DEF TypeOK
  <1> QED  BY <1>4, <1>8, <1>9 DEF ScheduleRunOnce, Disabled, TypeOK, storeVars, mainVars

\* Every step of Schedule keeps the types.
LEMMA ScheduleType == TypeOK /\ Schedule => TypeOK'
  <1> SUFFICES ASSUME TypeOK, Schedule PROVE TypeOK'
    OBVIOUS
  <1>1. CASE ScheduleDone
    BY <1>1 DEF ScheduleDone, TypeOK, storeVars, topicVars, mainVars
  <1>2. CASE \E k \in DOMAIN scheduleQueue :
               ScheduleSkip(k) \/ ScheduleRun(k) \/ ScheduleRunOnce(k) \/ ScheduleCrashes(k)
    <2>1. PICK k \in DOMAIN scheduleQueue :
               ScheduleSkip(k) \/ ScheduleRun(k) \/ ScheduleRunOnce(k) \/ ScheduleCrashes(k)
      BY <1>2
    <2>2. CASE ScheduleSkip(k)
      <3>1. RemoveAt(scheduleQueue, k) \in Seq(Entries)
        BY RemoveAtProperties, LenProperties DEF TypeOK
      <3> QED  BY <2>2, <3>1 DEF ScheduleSkip, TypeOK, storeVars, topicVars, mainVars
    <2>3. CASE ScheduleCrashes(k)
      BY <2>3, CrashType DEF ScheduleCrashes
    <2> QED  BY <2>1, <2>2, <2>3, ScheduleRunType, ScheduleRunOnceType
  <1> QED  BY <1>1, <1>2 DEF Schedule

\* The clock's advance keeps the types.
LEMMA TickType == TypeOK /\ Tick => TypeOK'
  <1> SUFFICES ASSUME TypeOK, Tick PROVE TypeOK'
    OBVIOUS
  <1>1. scheduleQueue' \in Seq(Entries)
    <2>1. DOMAIN scheduleQueue = 1..Len(scheduleQueue) /\ Len(scheduleQueue) \in Nat
      BY LenProperties DEF TypeOK
    <2>2. \A k \in DOMAIN scheduleQueue :
            [scheduleQueue[k] EXCEPT !.due = IF @ >= Cycle THEN @ - Cycle ELSE -1] \in Entries
      BY CycleAssumption, EntryType DEF Entries
    <2>3. scheduleQueue' = [k \in 1..Len(scheduleQueue) |->
            [scheduleQueue[k] EXCEPT !.due = IF @ >= Cycle THEN @ - Cycle ELSE -1]]
      BY <2>1 DEF Tick
    <2>4. scheduleQueue' \in [1..Len(scheduleQueue) -> Entries]
      BY <2>1, <2>2, <2>3
    <2> QED  BY <2>1, <2>4, IsASeq
  <1> QED  BY <1>1 DEF Tick, TypeOK, storeVars, topicVars, mainVars

\* The main thread and the data thread keep the types.
LEMMA EnvironmentType == TypeOK /\ Environment => TypeOK'
  <1> SUFFICES ASSUME TypeOK, Environment PROVE TypeOK'
    OBVIOUS
  <1>1. CASE \E m \in Requests : Post(m)
    <2>1. PICK m \in Requests : Post(m)
      BY <1>1
    <2>2. recvQueue' \in Seq(Msgs)
      BY <2>1, AppendProperties DEF Post, Requests, TypeOK
    <2>3. /\ ticket' \in {"waiting", "done"} /\ sent' \in Nat /\ service' \in {"up", "exiting"}
      BY <2>1 DEF Post, TypeOK
    <2> QED  BY <2>1, <2>2, <2>3 DEF Post, TypeOK, storeVars, topicVars
  <1>2. CASE Awake
    BY <1>2 DEF Awake, TypeOK, storeVars, topicVars
  <1>3. ASSUME NEW i \in Instances, AddInstance(i) PROVE TypeOK'
    BY <1>3 DEF AddInstance, TypeOK, topicVars
  <1>4. ASSUME NEW i \in Instances, DeleteInstance(i) PROVE TypeOK'
    BY <1>4 DEF DeleteInstance, TypeOK, topicVars
  <1>5. ASSUME NEW i \in Instances, ExitDisable(i) PROVE TypeOK'
    <2>1. OpenOf(Obj(i)) \in SUBSET Topics
      BY DEF OpenOf
    <2>2. PICK pushed \in SetToSeqs(DisableMsgs(i, OpenOf(Obj(i)))) :
                 recvQueue' = recvQueue \o pushed
      BY <1>5 DEF ExitDisable
    <2>3. pushed \in Seq(Msgs)
      BY <2>1, <2>2, EmittedType, PushedType
    <2>4. recvQueue' \in Seq(Msgs)
      BY <2>2, <2>3, ConcatProperties DEF TypeOK
    <2> QED  BY <1>5, <2>4 DEF ExitDisable, TypeOK, storeVars
  <1>6. CASE TakeData
    <2>1. recvData' \in Seq(SdkFds \X Topics)
      BY <1>6, HeadTailProperties DEF TakeData, TypeOK
    <2> QED  BY <1>6, <2>1 DEF TakeData, TypeOK, storeVars, topicVars, mainVars
  <1> QED  BY <1>1, <1>2, <1>3, <1>4, <1>5, <1>6 DEF Environment

\* Every step keeps the types.
LEMMA StepTypeOK == TypeOK /\ [Next]_vars => TypeOK'
  <1>1. TypeOK /\ UNCHANGED vars => TypeOK'
    BY DEF TypeOK, vars
  <1> QED  BY <1>1, HandleMessageType, ScheduleType, TickType, EnvironmentType
           DEF Next, RunThread

\* The state of the scheduling thread stays well typed, whatever the plugins
\* push and whatever the main thread asks for.
THEOREM TypeCorrect == Spec => []TypeOK
  BY InitTypeOK, StepTypeOK, PTL DEF Spec

-----------------------------------------------------------------------------
(* topicState and subscibers agree                                         *)

\* A list of subscribers that is not empty has its key in subscibers.
SubscribedHasKey == \A t \in Topics : SubscribersOf(t) # {} => t \in subKeys
SubscriptionInv == SubscriptionsMatchTopics /\ SubscribedHasKey

\* Taking pairs out of subscibers and closing what lost its last subscriber
\* keeps the two maps in agreement, and stops no subscribed instance.
LEMMA UpdateKeepsSubscriptions ==
  ASSUME TypeOK, SubscriptionInv, NEW gone, gone \subseteq Topics \X Subscribers,
         subs' = subs \ gone, subKeys' = KeysWithout(gone),
         topicOn' = topicOn \ Closing(KeysWithout(gone))
  PROVE  /\ SubscriptionInv'
         /\ \A t \in Topics : SubscribersOf(t)' # {} => t \in topicOn \cap KeysWithout(gone)
  <1> DEFINE K == KeysWithout(gone)
  <1>1. ASSUME NEW t \in Topics
        PROVE  SubscribersOf(t)' = {s \in SubscribersOf(t) : <<t, s>> \notin gone}
    BY DEF SubscribersOf
  <1>2. ASSUME NEW t \in Topics, SubscribersOf(t)' # {}
        PROVE  t \in K /\ t \in topicOn
    <2>1. PICK s \in SubscribersOf(t) : <<t, s>> \notin gone
      BY <1>1, <1>2
    <2>2. t \in subKeys /\ t \in topicOn
      BY <2>1 DEF SubscriptionInv, SubscribedHasKey, SubscriptionsMatchTopics
    <2> QED  BY <2>1, <2>2 DEF KeysWithout
  <1>3. ASSUME NEW t \in Topics, t \in topicOn, t \in K
        PROVE  SubscribersOf(t)' # {}
    <2>1. PICK s \in SubscribersOf(t) : TRUE
      BY <1>3 DEF SubscriptionInv, SubscriptionsMatchTopics
    <2>2. CASE <<t, s>> \in gone
      <3>1. t \in {p[1] : p \in gone}
        BY <2>2
      <3>2. \E r \in SubscribersOf(t) : <<t, r>> \notin gone
        BY <1>3, <3>1 DEF KeysWithout
      <3> QED  BY <1>1, <3>2
    <2>3. CASE <<t, s>> \notin gone
      BY <1>1, <2>1, <2>3
    <2> QED  BY <2>2, <2>3
  <1>4. topicOn' = topicOn \cap K
    BY DEF Closing
  <1> HIDE DEF K
  <1>5. SubscriptionsMatchTopics'
    BY <1>2, <1>3, <1>4 DEF SubscriptionsMatchTopics
  <1>6. SubscribedHasKey'
    BY <1>2 DEF SubscribedHasKey, K
  <1> QED  BY <1>2, <1>5, <1>6 DEF SubscriptionInv, K

\* The pairs that an UNSUBSCRIBE or UNSUBSCRIBE_SDK takes out.
Gone(m) == IF m.type = "UNSUBSCRIBE" THEN {<<m.topic, m.who>>}
                                     ELSE {p \in subs : p[2] = m.who}

\* Both unsubscriptions either change nothing or do what UpdateKeepsSubscriptions
\* assumes.
LEMMA UnsubscribeSteps ==
  ASSUME TypeOK, HandleUnsubscribe \/ HandleUnsubscribeSdk
  PROVE  \/ UNCHANGED <<enabled, subs, subKeys, topicOn, openTopics, live, gen>>
         \/ \E gone \in SUBSET (Topics \X Subscribers) :
              /\ subs' = subs \ gone /\ subKeys' = KeysWithout(gone)
              /\ UpdateInstance(KeysWithout(gone)) /\ gen' = gen
  <1> DEFINE m == Head(recvQueue)
  <1>1. CASE HandleUnsubscribe
    <2>1. m \in Msgs /\ m.type = "UNSUBSCRIBE"
      BY <1>1 DEF HandleUnsubscribe, Handling, TypeOK
    <2>2. {<<m.topic, m.who>>} \in SUBSET (Topics \X Subscribers)
      BY <2>1, MessageFields
    <2> QED  BY <1>1, <2>2 DEF HandleUnsubscribe, storeVars
  <1>2. CASE HandleUnsubscribeSdk
    <2> DEFINE gone == {p \in subs : p[2] = m.who}
    <2>1. gone \in SUBSET (Topics \X Subscribers)
      BY DEF TypeOK
    <2>2. gen' = gen
      BY <1>2 DEF HandleUnsubscribeSdk, storeVars
    <2>3. CASE gone = {}
      BY <1>2, <2>2, <2>3 DEF HandleUnsubscribeSdk, topicVars
    <2>4. CASE gone # {}
      BY <1>2, <2>1, <2>2, <2>4 DEF HandleUnsubscribeSdk
    <2> QED  BY <2>3, <2>4
  <1> QED  BY <1>1, <1>2

\* SubscriptionInv only looks at three variables.
LEMMA SubscriptionStutter ==
  ASSUME SubscriptionInv, UNCHANGED <<subs, subKeys, topicOn>>
  PROVE  SubscriptionInv'
  BY DEF SubscriptionInv, SubscriptionsMatchTopics, SubscribedHasKey, SubscribersOf

\* Every step keeps topicState and subscibers in agreement.
LEMMA StepSubscriptions == TypeOK /\ SubscriptionInv /\ [Next]_vars => SubscriptionInv'
  <1> SUFFICES ASSUME TypeOK, SubscriptionInv, [Next]_vars PROVE SubscriptionInv'
    OBVIOUS
  <1> DEFINE m == Head(recvQueue)
  <1>1. CASE SubscribeOpens \/ SubscribeJoins
    <2>1. m \in Msgs /\ m.type = "SUBSCRIBE"
      BY <1>1 DEF SubscribeOpens, SubscribeJoins, Handling, TypeOK
    <2>2. m.topic \in Topics /\ m.who \in Subscribers
      BY <2>1, MessageFields
    <2>3. /\ subs' = subs \cup {<<m.topic, m.who>>} /\ subKeys' = subKeys \cup {m.topic}
          /\ topicOn' = topicOn \cup {m.topic}
      BY <1>1 DEF SubscribeOpens, SubscribeJoins
    <2> HIDE DEF m
    <2>4. ASSUME NEW t \in Topics
          PROVE  SubscribersOf(t)' = SubscribersOf(t) \cup (IF t = m.topic THEN {m.who} ELSE {})
      BY <2>2, <2>3 DEF SubscribersOf
    <2> QED  BY <2>2, <2>3, <2>4
             DEF SubscriptionInv, SubscriptionsMatchTopics, SubscribedHasKey
  <1>2. CASE HandleUnsubscribe \/ HandleUnsubscribeSdk
    <2>1. CASE \E gone \in SUBSET (Topics \X Subscribers) :
                 /\ subs' = subs \ gone /\ subKeys' = KeysWithout(gone)
                 /\ UpdateInstance(KeysWithout(gone)) /\ gen' = gen
      BY <2>1, UpdateKeepsSubscriptions DEF UpdateInstance
    <2>2. CASE UNCHANGED <<enabled, subs, subKeys, topicOn, openTopics, live, gen>>
      BY <2>2, SubscriptionStutter
    <2> QED  BY <1>2, <2>1, <2>2, UnsubscribeSteps
  <1>3. CASE HandlePublishData
    <2>1. m \in Msgs /\ m.type = "PUBLISH_DATA"
      BY <1>3 DEF HandlePublishData, Handling, TypeOK
    <2> QED  BY <1>3, <2>1, MessageFields
             DEF HandlePublishData, SubscriptionInv, SubscriptionsMatchTopics,
                 SubscribedHasKey, SubscribersOf
  <1>4. CASE \/ HandleEnabled \/ HandleDisabled \/ SubscribeRefused \/ SubscribeOpenFails
             \/ UpdateCrashes \/ PublishRefused \/ HandlePublish \/ PublishDataCrashes
             \/ HandleShutdown \/ QueueDrained
    BY <1>4, SubscriptionStutter
       DEF HandleEnabled, HandleDisabled, SubscribeRefused, SubscribeOpenFails,
           UpdateCrashes, PublishRefused, HandlePublish, PublishDataCrashes,
           HandleShutdown, QueueDrained, Crash, topicVars
  <1>5. CASE Schedule \/ Tick
    BY <1>5, SubscriptionStutter
       DEF Schedule, ScheduleSkip, ScheduleRun, ScheduleRunOnce, ScheduleCrashes,
           ScheduleDone, Tick, Crash, topicVars
  <1>6. CASE Environment
    BY <1>6, SubscriptionStutter
       DEF Environment, Post, Awake, AddInstance, DeleteInstance, ExitDisable, TakeData,
           topicVars
  <1>7. CASE UNCHANGED vars
    BY <1>7, SubscriptionStutter DEF vars
  <1> QED  BY <1>1, <1>2, <1>3, <1>4, <1>5, <1>6, <1>7 DEF Next, RunThread, HandleMessage

\* topicState marks a topic open exactly while somebody subscribes to it.
THEOREM SubscriptionsAgree == Spec => []SubscriptionsMatchTopics
  <1>1. Init => SubscriptionInv
    BY DEF Init, SubscriptionInv, SubscriptionsMatchTopics, SubscribedHasKey, SubscribersOf
  <1>2. SubscriptionInv => SubscriptionsMatchTopics
    BY DEF SubscriptionInv
  <1> QED  BY <1>1, <1>2, StepSubscriptions, TypeCorrect, PTL DEF Spec

-----------------------------------------------------------------------------
(* Unsubscriptions stop only what nobody uses                              *)

\* What an unsubscription disables has no open topic left.
LEMMA UnsubscribeStopsIdle ==
  ASSUME TypeOK, SubscriptionInv, HandleUnsubscribe \/ HandleUnsubscribeSdk,
         NEW i \in Instances, IsEnabled(i), ~IsEnabled(i)',
         NEW t \in TopicsOf(i)
  PROVE  SubscribersOf(t)' = {}
  <1> SUFFICES ASSUME SubscribersOf(t)' # {} PROVE FALSE
    OBVIOUS
  <1>1. CASE UNCHANGED <<enabled, subs, subKeys, topicOn, openTopics, live, gen>>
    BY <1>1 DEF IsEnabled, Obj
  <1>2. CASE \E gone \in SUBSET (Topics \X Subscribers) :
               /\ subs' = subs \ gone /\ subKeys' = KeysWithout(gone)
               /\ UpdateInstance(KeysWithout(gone)) /\ gen' = gen
    <2>1. PICK gone \in SUBSET (Topics \X Subscribers) :
               /\ subs' = subs \ gone /\ subKeys' = KeysWithout(gone)
               /\ UpdateInstance(KeysWithout(gone)) /\ gen' = gen
      BY <1>2
    <2> DEFINE K == KeysWithout(gone)
    <2>2. topicOn' = topicOn \ Closing(K) /\ enabled' = enabled \ {Obj(j) : j \in Stopping(K)}
      BY <2>1 DEF UpdateInstance
    <2>3. t \in Topics /\ InstanceOf[t] = i
      BY DEF TopicsOf
    <2>4. t \in topicOn \cap K
      BY <2>1, <2>2, <2>3, UpdateKeepsSubscriptions
    <2> HIDE DEF K
    <2>5. i \in Stopping(K)
      BY <2>1, <2>2 DEF IsEnabled, Obj
    <2>6. i \notin {InstanceOf[u] : u \in topicOn \cap K}
      BY <2>5 DEF Stopping, Idle
    <2> QED  BY <2>3, <2>4, <2>6
  <1> QED  BY <1>1, <1>2, UnsubscribeSteps

\* Whatever is unsubscribed, by a plugin, by an SDK client or by a connection
\* that closes, an instance with a subscriber left is not disabled by it.
THEOREM SubscribedIsSpared == Spec => UnsubscribeSparesSubscribed
  <1>1. Init => SubscriptionInv
    BY DEF Init, SubscriptionInv, SubscriptionsMatchTopics, SubscribedHasKey, SubscribersOf
  <1>2. TypeOK /\ SubscriptionInv =>
          ((HandleUnsubscribe \/ HandleUnsubscribeSdk) =>
             \A i \in Instances : IsEnabled(i) /\ ~IsEnabled(i)' =>
               \A t \in TopicsOf(i) : SubscribersOf(t)' = {})
    BY UnsubscribeStopsIdle
  <1> QED  BY <1>1, <1>2, StepSubscriptions, TypeCorrect, PTL
           DEF Spec, UnsubscribeSparesSubscribed

-----------------------------------------------------------------------------
(* What a plugin holds open, Disable will close                            *)

\* Disabling objects closes all they hold.
LEMMA DisabledKeepsLive ==
  ASSUME LiveTopicsClosedByDisable, NEW objs, Disabled(objs), openTopics' = openTopics
  PROVE  LiveTopicsClosedByDisable'
  BY DEF LiveTopicsClosedByDisable, Disabled

\* Every step keeps a plugin's open topics within those Disable will close.
LEMMA StepLive ==
  TypeOK /\ LiveTopicsClosedByDisable /\ [Next]_vars => LiveTopicsClosedByDisable'
  <1> SUFFICES ASSUME TypeOK, LiveTopicsClosedByDisable, [Next]_vars
               PROVE  LiveTopicsClosedByDisable'
    OBVIOUS
  <1> DEFINE m == Head(recvQueue)
  <1>1. CASE HandleEnabled \/ SubscribeJoins
    BY <1>1 DEF HandleEnabled, SubscribeJoins, LiveTopicsClosedByDisable, topicVars
  <1>2. CASE HandleDisabled
    <2>1. openTopics' = openTopics
      BY <1>2 DEF HandleDisabled
    <2>2. Disabled({Obj(m.inst)}) \/ UNCHANGED <<enabled, live>>
      BY <1>2 DEF HandleDisabled
    <2> QED  BY <2>1, <2>2, DisabledKeepsLive DEF LiveTopicsClosedByDisable
  <1>3. CASE SubscribeOpenFails
    BY <1>3, DisabledKeepsLive DEF SubscribeOpenFails
  <1>4. CASE SubscribeOpens
    BY <1>4 DEF SubscribeOpens, LiveTopicsClosedByDisable
  <1>5. CASE HandleUnsubscribe \/ HandleUnsubscribeSdk
    <2>1. ASSUME NEW K, UpdateInstance(K) PROVE LiveTopicsClosedByDisable'
      BY <2>1 DEF UpdateInstance, LiveTopicsClosedByDisable
    <2> QED  BY <1>5, <2>1, UnsubscribeSteps DEF LiveTopicsClosedByDisable
  <1>6. CASE HandlePublish
    <2> DEFINE p == <<Obj(m.inst), m.topic>>
    <2>1. /\ enabled' = enabled \cup {Obj(m.inst)}
          /\ \/ openTopics' = openTopics \cup {p} /\ live' = live \cup {p}
             \/ UNCHANGED <<openTopics, live>>
      BY <1>6 DEF HandlePublish
    <2> QED  BY <2>1 DEF LiveTopicsClosedByDisable
  <1>7. CASE Schedule
    <2>1. CASE \E k \in DOMAIN scheduleQueue : ScheduleRunOnce(k)
      BY <2>1, DisabledKeepsLive DEF ScheduleRunOnce
    <2>2. CASE ~\E k \in DOMAIN scheduleQueue : ScheduleRunOnce(k)
      BY <1>7, <2>2 DEF Schedule, ScheduleSkip, ScheduleRun, ScheduleCrashes, ScheduleDone,
                        Crash, topicVars, LiveTopicsClosedByDisable
    <2> QED  BY <2>1, <2>2
  <1>8. CASE \/ SubscribeRefused \/ UpdateCrashes \/ PublishRefused \/ HandlePublishData
             \/ PublishDataCrashes \/ HandleShutdown \/ QueueDrained \/ Tick
    BY <1>8 DEF SubscribeRefused, UpdateCrashes, PublishRefused, HandlePublishData,
                PublishDataCrashes, HandleShutdown, QueueDrained, Tick, Crash, topicVars,
                LiveTopicsClosedByDisable
  <1>9. CASE Environment
    BY <1>9 DEF Environment, Post, Awake, AddInstance, DeleteInstance, ExitDisable,
                TakeData, topicVars, LiveTopicsClosedByDisable
  <1>10. CASE UNCHANGED vars
    BY <1>10 DEF vars, LiveTopicsClosedByDisable
  <1> QED  BY <1>1, <1>2, <1>3, <1>4, <1>5, <1>6, <1>7, <1>8, <1>9, <1>10
           DEF Next, RunThread, HandleMessage

\* A plugin never works for a topic after its instance was disabled.
THEOREM DisableClosesTopics == Spec => []LiveTopicsClosedByDisable
  <1>1. Init => LiveTopicsClosedByDisable
    BY DEF Init, LiveTopicsClosedByDisable
  <1> QED  BY <1>1, StepLive, TypeCorrect, PTL DEF Spec

-----------------------------------------------------------------------------
(* Every enabled instance is scheduled                                     *)

\* Whoever has an entry in a queue, and keeps it in the next.
HasEntry(o) == \E k \in DOMAIN scheduleQueue : scheduleQueue[k].obj = o

\* Queueing an instance loses no entry of another.
LEMMA PushKeepsEntries ==
  ASSUME TypeOK, NEW i \in Instances, scheduleQueue' = Scheduled(i)
  PROVE  \A o : o = Obj(i) \/ HasEntry(o) => HasEntry(o)'
  <1> DEFINE n == Len(scheduleQueue)
             e == [obj |-> Obj(i), due |-> FirstDue(i)]
  <1>1. e \in Entries
    BY ScheduledType
  <1>2. n \in Nat /\ DOMAIN scheduleQueue = 1..n
    BY LenProperties DEF TypeOK
  <1>3. scheduleQueue' = Append(scheduleQueue, e)
    BY DEF Scheduled
  <1>4. /\ DOMAIN scheduleQueue' = 1..n + 1
        /\ \A k \in 1..n : scheduleQueue'[k] = scheduleQueue[k]
        /\ scheduleQueue'[n + 1] = e
    BY <1>1, <1>2, <1>3, AppendProperties DEF TypeOK
  <1>5. e.obj = Obj(i)
    OBVIOUS
  <1> HIDE DEF n, e
  <1>6. \E k \in DOMAIN scheduleQueue' : scheduleQueue'[k].obj = Obj(i)
    BY <1>2, <1>4, <1>5
  <1>7. ASSUME NEW o, HasEntry(o) PROVE HasEntry(o)'
    BY <1>2, <1>4, <1>7 DEF HasEntry
  <1>8. ASSUME NEW o, o = Obj(i) PROVE HasEntry(o)'
    BY <1>6, <1>8 DEF HasEntry
  <1> QED  BY <1>7, <1>8

\* Taking entry k out loses at most the object of that entry.
LEMMA RemoveKeepsEntries ==
  ASSUME TypeOK, NEW k \in DOMAIN scheduleQueue, scheduleQueue' = RemoveAt(scheduleQueue, k)
  PROVE  \A o : HasEntry(o) /\ o # scheduleQueue[k].obj => HasEntry(o)'
  <1> SUFFICES ASSUME NEW o, NEW j \in DOMAIN scheduleQueue, scheduleQueue[j].obj = o,
                      o # scheduleQueue[k].obj
               PROVE  HasEntry(o)'
    BY DEF HasEntry
  <1> DEFINE n == Len(scheduleQueue)
  <1>1. n \in Nat /\ DOMAIN scheduleQueue = 1..n /\ j \in 1..n /\ k \in 1..n /\ j # k
    BY LenProperties DEF TypeOK
  <1>2. /\ scheduleQueue' \in Seq(Entries) /\ Len(scheduleQueue') = n - 1
        /\ \A l \in 1..n - 1 :
             scheduleQueue'[l] = IF l < k THEN scheduleQueue[l] ELSE scheduleQueue[l + 1]
    BY <1>1, RemoveAtProperties DEF TypeOK
  <1>3. DOMAIN scheduleQueue' = 1..n - 1
    BY <1>2, LenProperties
  <1> HIDE DEF n
  <1>4. CASE j < k
    <2>1. j \in 1..n - 1 /\ scheduleQueue'[j] = scheduleQueue[j]
      BY <1>1, <1>2, <1>4
    <2> QED  BY <1>3, <2>1 DEF HasEntry
  <1>5. CASE ~(j < k)
    <2>1. j - 1 \in 1..n - 1 /\ ~(j - 1 < k) /\ (j - 1) + 1 = j
      BY <1>1, <1>5
    <2>2. scheduleQueue'[j - 1] = scheduleQueue[j]
      BY <1>2, <2>1
    <2> QED  BY <1>3, <2>1, <2>2 DEF HasEntry
  <1> QED  BY <1>4, <1>5

\* Changing the time of entries keeps their objects.
LEMMA RetimeKeepsEntries ==
  ASSUME DOMAIN scheduleQueue' = DOMAIN scheduleQueue,
         \A k \in DOMAIN scheduleQueue : scheduleQueue'[k].obj = scheduleQueue[k].obj
  PROVE  \A o : HasEntry(o) => HasEntry(o)'
  BY DEF HasEntry

\* Enabling on demand: the instance is queued afterwards if it was when enabled.
LEMMA EnableIfNeededQueues ==
  ASSUME TypeOK, EnabledIsQueued, NEW i \in Instances, NEW up, EnableIfNeeded(i, up)
  PROVE  \A o \in enabled \cup {Obj(i)} : HasEntry(o)'
  <1>1. \A o \in enabled : HasEntry(o)
    BY DEF EnabledIsQueued, HasEntry
  <1>2. CASE IsEnabled(i)
    BY <1>1, <1>2 DEF EnableIfNeeded, HasEntry, IsEnabled
  <1>3. CASE ~IsEnabled(i)
    BY <1>1, <1>3, PushKeepsEntries DEF EnableIfNeeded
  <1> QED  BY <1>2, <1>3

\* Every step keeps an entry for every enabled object.
LEMMA StepQueued == TypeOK /\ EnabledIsQueued /\ [Next]_vars => EnabledIsQueued'
  <1> SUFFICES ASSUME TypeOK, EnabledIsQueued, [Next]_vars PROVE EnabledIsQueued'
    OBVIOUS
  <1> DEFINE m == Head(recvQueue)
  <1>0. \A o \in enabled : HasEntry(o)
    BY DEF EnabledIsQueued, HasEntry
  <1>00. (\A o \in enabled' : HasEntry(o)') => EnabledIsQueued'
    BY DEF EnabledIsQueued, HasEntry
  <1>1. CASE HandleEnabled
    <2>1. m.inst \in Instances
      BY <1>1, MessageFields DEF HandleEnabled, Handling, TypeOK
    <2>2. \/ UNCHANGED <<enabled, scheduleQueue>>
          \/ enabled' = enabled \cup {Obj(m.inst)} /\ scheduleQueue' = Scheduled(m.inst)
      BY <1>1 DEF HandleEnabled
    <2> HIDE DEF m
    <2>3. CASE UNCHANGED <<enabled, scheduleQueue>>
      BY <2>3 DEF EnabledIsQueued
    <2>4. CASE enabled' = enabled \cup {Obj(m.inst)} /\ scheduleQueue' = Scheduled(m.inst)
      BY <1>0, <1>00, <2>1, <2>4, PushKeepsEntries
    <2> QED  BY <2>2, <2>3, <2>4
  <1>2. CASE SubscribeOpenFails \/ SubscribeOpens \/ SubscribeJoins
    <2> DEFINE i == InstanceOf[m.topic]
    <2>1. i \in Instances
      BY <1>2, MessageFields, ConstantsAssumption
         DEF SubscribeOpenFails, SubscribeOpens, SubscribeJoins, Handling, TypeOK
    <2>2. \E up : EnableIfNeeded(i, up)
      BY <1>2 DEF SubscribeOpenFails, SubscribeOpens, SubscribeJoins
    <2>3. enabled' \subseteq enabled \cup {Obj(i)}
      BY <1>2 DEF SubscribeOpenFails, SubscribeOpens, SubscribeJoins, Disabled
    <2> HIDE DEF m, i
    <2> QED  BY <1>00, <2>1, <2>2, <2>3, EnableIfNeededQueues
  <1>3. CASE HandlePublish
    <2>1. m.inst \in Instances
      BY <1>3, MessageFields DEF HandlePublish, Handling, TypeOK
    <2>2. /\ \E up : EnableIfNeeded(m.inst, up)
          /\ enabled' = enabled \cup {Obj(m.inst)}
      BY <1>3 DEF HandlePublish
    <2> HIDE DEF m
    <2> QED  BY <1>00, <2>1, <2>2, EnableIfNeededQueues
  <1>4. CASE \/ HandleDisabled \/ SubscribeRefused \/ HandleUnsubscribe
             \/ HandleUnsubscribeSdk \/ UpdateCrashes \/ PublishRefused
             \/ HandlePublishData \/ PublishDataCrashes \/ HandleShutdown \/ QueueDrained
    <2>1. scheduleQueue' = scheduleQueue
      BY <1>4 DEF HandleDisabled, SubscribeRefused, HandleUnsubscribe, HandleUnsubscribeSdk,
                  UpdateCrashes, PublishRefused, HandlePublishData, PublishDataCrashes,
                  HandleShutdown, QueueDrained, Crash
    <2>2. enabled' \subseteq enabled
      BY <1>4 DEF HandleDisabled, SubscribeRefused, HandleUnsubscribe, HandleUnsubscribeSdk,
                  UpdateCrashes, PublishRefused, HandlePublishData, PublishDataCrashes,
                  HandleShutdown, QueueDrained, Crash, Disabled, UpdateInstance
    <2> QED  BY <2>1, <2>2 DEF EnabledIsQueued
  <1>5. ASSUME NEW k \in DOMAIN scheduleQueue, ScheduleSkip(k) \/ ScheduleRunOnce(k)
        PROVE  EnabledIsQueued'
    <2>1. scheduleQueue' = RemoveAt(scheduleQueue, k)
      BY <1>5 DEF ScheduleSkip, ScheduleRunOnce
    <2>2. enabled' \subseteq enabled \ {scheduleQueue[k].obj}
      BY <1>5 DEF ScheduleSkip, ScheduleRunOnce, Disabled
    <2> QED  BY <1>0, <1>00, <2>1, <2>2, RemoveKeepsEntries
  <1>6. ASSUME NEW k \in DOMAIN scheduleQueue, ScheduleRun(k) PROVE EnabledIsQueued'
    <2>1. /\ DOMAIN scheduleQueue' = DOMAIN scheduleQueue
          /\ \A j \in DOMAIN scheduleQueue : scheduleQueue'[j].obj = scheduleQueue[j].obj
      BY <1>6, EntryType DEF ScheduleRun
    <2>2. enabled' = enabled
      BY <1>6 DEF ScheduleRun
    <2> QED  BY <1>0, <1>00, <2>1, <2>2, RetimeKeepsEntries
  <1>7. CASE Tick
    <2>1. /\ DOMAIN scheduleQueue' = DOMAIN scheduleQueue
          /\ \A j \in DOMAIN scheduleQueue : scheduleQueue'[j].obj = scheduleQueue[j].obj
      BY <1>7, EntryType DEF Tick
    <2>2. enabled' = enabled
      BY <1>7 DEF Tick
    <2> QED  BY <1>0, <1>00, <2>1, <2>2, RetimeKeepsEntries
  <1>8. CASE ScheduleDone \/ (\E k \in DOMAIN scheduleQueue : ScheduleCrashes(k))
    BY <1>8 DEF ScheduleDone, ScheduleCrashes, Crash, EnabledIsQueued
  <1>9. CASE Environment
    BY <1>9 DEF Environment, Post, Awake, AddInstance, DeleteInstance, ExitDisable,
                TakeData, EnabledIsQueued
  <1>10. CASE UNCHANGED vars
    BY <1>10 DEF vars, EnabledIsQueued
  <1> QED  BY <1>1, <1>2, <1>3, <1>4, <1>5, <1>6, <1>7, <1>8, <1>9, <1>10
           DEF Next, RunThread, HandleMessage, Schedule

\* However instances are enabled, disabled and run, no enabled instance is
\* forgotten by the scheduler.
THEOREM EnabledStaysQueued == Spec => []EnabledIsQueued
  <1>1. Init => EnabledIsQueued
    BY DEF Init, EnabledIsQueued
  <1> QED  BY <1>1, StepQueued, TypeCorrect, PTL DEF Spec

-----------------------------------------------------------------------------
(* No entry's time passes unseen                                           *)

\* A nonempty set of natural numbers has a least element.
LEMMA LeastNat ==
  ASSUME NEW T \in SUBSET Nat, T # {}
  PROVE  \E x \in T : \A y \in T : x <= y
  <1>1. PICK x \in T : \A y \in T : ~(<<y, x>> \in OpToRel(<, Nat))
    BY NatLessThanWellFounded, WFMin, Zenon
  <1>2. \A y \in T : ~(y < x)
    BY <1>1 DEF OpToRel
  <1> QED  BY <1>2

\* A priority queue that is not empty has a top: the operator< of its entries
\* is a total preorder.
LEMMA TopExists ==
  ASSUME TypeOK, scheduleQueue # <<>>
  PROVE  \E k \in DOMAIN scheduleQueue : IsTop(k)
  <1> DEFINE D == DOMAIN scheduleQueue
             e(k) == scheduleQueue[k]
             Earlier(k) == {j \in D : ~Before(e(k), e(j))}
             Rank(k) == Cardinality(Earlier(k))
  <1>0. Len(scheduleQueue) \in Nat \ {0}
    BY EmptySeq DEF TypeOK
  <1>1. Len(scheduleQueue) \in Nat /\ D = 1..Len(scheduleQueue) /\ D # {}
    <2>1. scheduleQueue \in Seq(Entries)
      BY DEF TypeOK
    <2>2. D = 1..Len(scheduleQueue)
      BY <2>1, LenProperties
    <2>3. 1 \in 1..Len(scheduleQueue)
      BY <1>0
    <2> QED  BY <1>0, <2>2, <2>3
  <1>2. IsFiniteSet(D)
    BY <1>1, FS_Interval
  <1>3. \A k \in D : IsFiniteSet(Earlier(k)) /\ Rank(k) \in Nat
    BY <1>2, FS_Subset, FS_CardinalityType
  <1>4. \A k \in D : e(k).due \in Int /\ Priority[e(k).obj[1]] \in Int
    BY EntryType, ConstantsAssumption
  <1>5. PICK k \in D : \A j \in D : Rank(k) <= Rank(j)
    <2> DEFINE T == {Rank(k) : k \in D}
    <2>1. T \in SUBSET Nat /\ T # {}
      BY <1>1, <1>3
    <2>2. PICK x \in T : \A y \in T : x <= y
      BY <2>1, LeastNat
    <2> QED  BY <2>2
  <1> HIDE DEF e, D
  <1>6. ASSUME NEW j \in D, ~Before(e(k), e(j)) PROVE FALSE
    <2>1. Earlier(j) \subseteq Earlier(k) /\ j \in Earlier(k) /\ j \notin Earlier(j)
      BY <1>4, <1>6 DEF Before
    <2>2. Rank(j) <= Rank(k) /\ Rank(j) # Rank(k)
      BY <1>3, <2>1, FS_Subset
    <2> HIDE DEF Rank, Earlier
    <2>3. Rank(j) \in Nat /\ Rank(k) \in Nat /\ Rank(k) <= Rank(j)
      BY <1>3, <1>5
    <2> QED  BY <2>2, <2>3
  <1>7. IsTop(k)
    BY <1>6 DEF IsTop, D, e
  <1> QED  BY <1>7 DEF D

\* Times are whole numbers of cycles, and when the thread sleeps nothing is due.
Aligned(d) == \E n \in Nat : d = Cycle * n
DueInv ==
  /\ \A k \in DOMAIN scheduleQueue : Aligned(scheduleQueue[k].due)
  /\ pc = "sleep" => \A k \in DOMAIN scheduleQueue : scheduleQueue[k].due # 0

\* Arithmetic on multiples of the cycle.
LEMMA AlignedFacts ==
  /\ Aligned(0)
  /\ \A d : Aligned(d) => d \in Nat
  /\ \A i \in Instances : Aligned(Period[i]) /\ Aligned(2 * Period[i]) /\ Aligned(0 + Period[i])
  /\ \A d : Aligned(d) /\ d # 0 => d >= Cycle /\ Aligned(d - Cycle)
  <1>1. Aligned(0)
    BY CycleAssumption DEF Aligned
  <1>2. ASSUME NEW d, Aligned(d) PROVE d \in Nat
    BY <1>2, CycleAssumption DEF Aligned
  <1>3. ASSUME NEW i \in Instances PROVE Aligned(Period[i])
    BY PeriodAssumption DEF Aligned
  <1>4. ASSUME NEW i \in Instances PROVE Aligned(2 * Period[i]) /\ Aligned(0 + Period[i])
    <2>1. PICK n \in Nat : Period[i] = Cycle * n
      BY <1>3 DEF Aligned
    <2>2. 2 * Period[i] = Cycle * (2 * n) /\ 2 * n \in Nat /\ 0 + Period[i] = Cycle * n
      BY <2>1, CycleAssumption
    <2> QED  BY <2>2 DEF Aligned
  <1>5. ASSUME NEW d, Aligned(d), d # 0 PROVE d >= Cycle /\ Aligned(d - Cycle)
    <2>1. PICK n \in Nat : d = Cycle * n
      BY <1>5 DEF Aligned
    <2>2. n # 0
      BY <1>5, <2>1, CycleAssumption
    <2>3. n - 1 \in Nat /\ d - Cycle = Cycle * (n - 1)
      BY <2>1, <2>2, CycleAssumption
    <2>4. Cycle * (n - 1) >= 0
      BY <2>3, CycleAssumption
    <2>5. d \in Nat
      BY <1>2, <1>5
    <2> QED  BY <2>3, <2>4, <2>5, CycleAssumption DEF Aligned
  <1> QED  BY <1>1, <1>2, <1>3, <1>4, <1>5

\* EnableInstance queues an instance for a multiple of the cycle.
LEMMA FirstDueAligned == \A i \in Instances : Aligned(FirstDue(i))
  BY AlignedFacts DEF FirstDue

\* Queueing such an entry keeps all entries aligned.
LEMMA PushKeepsAligned ==
  ASSUME TypeOK, DueInv, NEW i \in Instances, scheduleQueue' = Scheduled(i)
  PROVE  \A k \in DOMAIN scheduleQueue' : Aligned(scheduleQueue'[k].due)
  <1> DEFINE n == Len(scheduleQueue)
             e == [obj |-> Obj(i), due |-> FirstDue(i)]
  <1>1. e \in Entries
    BY ScheduledType
  <1>2. n \in Nat /\ DOMAIN scheduleQueue = 1..n
    BY LenProperties DEF TypeOK
  <1>3. scheduleQueue' = Append(scheduleQueue, e)
    BY DEF Scheduled
  <1>4. /\ DOMAIN scheduleQueue' = 1..n + 1
        /\ \A k \in 1..n : scheduleQueue'[k] = scheduleQueue[k]
        /\ scheduleQueue'[n + 1] = e
    BY <1>1, <1>2, <1>3, AppendProperties DEF TypeOK
  <1>5. Aligned(e.due)
    BY FirstDueAligned
  <1> HIDE DEF n, e
  <1>6. \A k \in 1..n + 1 : k \in 1..n \/ k = n + 1
    BY <1>2
  <1> QED  BY <1>2, <1>4, <1>5, <1>6 DEF DueInv

\* So does enabling an instance on demand.
LEMMA EnableIfNeededAligned ==
  ASSUME TypeOK, DueInv, NEW i \in Instances, NEW up, EnableIfNeeded(i, up)
  PROVE  \A k \in DOMAIN scheduleQueue' : Aligned(scheduleQueue'[k].due)
  <1>1. CASE IsEnabled(i)
    BY <1>1 DEF EnableIfNeeded, DueInv
  <1>2. CASE ~IsEnabled(i)
    BY <1>2, PushKeepsAligned DEF EnableIfNeeded
  <1> QED  BY <1>1, <1>2

\* So does popping an entry.
LEMMA RemoveKeepsAligned ==
  ASSUME TypeOK, DueInv, NEW k \in DOMAIN scheduleQueue,
         scheduleQueue' = RemoveAt(scheduleQueue, k)
  PROVE  \A j \in DOMAIN scheduleQueue' : Aligned(scheduleQueue'[j].due)
  <1> DEFINE n == Len(scheduleQueue)
  <1>1. n \in Nat /\ DOMAIN scheduleQueue = 1..n /\ k \in 1..n
    BY LenProperties DEF TypeOK
  <1>2. /\ scheduleQueue' \in Seq(Entries) /\ Len(scheduleQueue') = n - 1
        /\ \A l \in 1..n - 1 :
             scheduleQueue'[l] = IF l < k THEN scheduleQueue[l] ELSE scheduleQueue[l + 1]
    BY <1>1, RemoveAtProperties DEF TypeOK
  <1>3. DOMAIN scheduleQueue' = 1..n - 1
    BY <1>2, LenProperties
  <1> HIDE DEF n
  <1>4. \A j \in 1..n - 1 : j \in 1..n /\ j + 1 \in 1..n
    BY <1>1
  <1> QED  BY <1>1, <1>2, <1>3, <1>4 DEF DueInv

\* When Schedule finds nothing due at the top, nothing is due at all.
LEMMA NothingDue ==
  ASSUME TypeOK, DueInv, pc = "schedule", ~\E k \in DOMAIN scheduleQueue : DueNow(k)
  PROVE  \A k \in DOMAIN scheduleQueue : scheduleQueue[k].due # 0
  <1> SUFFICES ASSUME NEW j \in DOMAIN scheduleQueue, scheduleQueue[j].due = 0 PROVE FALSE
    OBVIOUS
  <1>1. scheduleQueue # <<>>
    OBVIOUS
  <1>2. PICK k \in DOMAIN scheduleQueue : IsTop(k)
    BY <1>1, TopExists
  <1>3. scheduleQueue[k].due \in Nat
    BY AlignedFacts DEF DueInv
  <1>4. scheduleQueue[k].due <= 0
    BY <1>2, <1>3 DEF IsTop, Before
  <1>5. DueNow(k)
    BY <1>2, <1>3, <1>4 DEF DueNow
  <1> QED  BY <1>5

\* Every step keeps the due times aligned, and none is 0 when the clock advances.
LEMMA StepDue == TypeOK /\ DueInv /\ [Next]_vars => DueInv'
  <1> SUFFICES ASSUME TypeOK, DueInv, [Next]_vars PROVE DueInv'
    OBVIOUS
  <1> DEFINE m == Head(recvQueue)
  <1>0. ASSUME pc' # "sleep",
               \A k \in DOMAIN scheduleQueue' : Aligned(scheduleQueue'[k].due)
        PROVE  DueInv'
    BY <1>0 DEF DueInv
  <1>1. CASE HandleEnabled
    <2>1. m.inst \in Instances /\ pc' # "sleep"
      BY <1>1, MessageFields DEF HandleEnabled, Handling, TypeOK
    <2>2. scheduleQueue' = scheduleQueue \/ scheduleQueue' = Scheduled(m.inst)
      BY <1>1 DEF HandleEnabled
    <2> HIDE DEF m
    <2>3. \A k \in DOMAIN scheduleQueue' : Aligned(scheduleQueue'[k].due)
      BY <2>1, <2>2, PushKeepsAligned DEF DueInv
    <2> QED  BY <1>0, <2>1, <2>3
  <1>2. CASE SubscribeOpenFails \/ SubscribeOpens \/ SubscribeJoins
    <2> DEFINE i == InstanceOf[m.topic]
    <2>1. i \in Instances /\ pc' # "sleep"
      BY <1>2, MessageFields, ConstantsAssumption
         DEF SubscribeOpenFails, SubscribeOpens, SubscribeJoins, Handling, TypeOK
    <2>2. \E up : EnableIfNeeded(i, up)
      BY <1>2 DEF SubscribeOpenFails, SubscribeOpens, SubscribeJoins
    <2> HIDE DEF m, i
    <2> QED  BY <1>0, <2>1, <2>2, EnableIfNeededAligned
  <1>3. CASE HandlePublish
    <2>1. m.inst \in Instances /\ pc' # "sleep"
      BY <1>3, MessageFields DEF HandlePublish, Handling, TypeOK
    <2>2. \E up : EnableIfNeeded(m.inst, up)
      BY <1>3 DEF HandlePublish
    <2> HIDE DEF m
    <2> QED  BY <1>0, <2>1, <2>2, EnableIfNeededAligned
  <1>4. CASE \/ HandleDisabled \/ SubscribeRefused \/ HandleUnsubscribe
             \/ HandleUnsubscribeSdk \/ UpdateCrashes \/ PublishRefused
             \/ HandlePublishData \/ PublishDataCrashes \/ HandleShutdown \/ QueueDrained
    <2>1. scheduleQueue' = scheduleQueue /\ pc' # "sleep"
      BY <1>4 DEF HandleDisabled, SubscribeRefused, HandleUnsubscribe, HandleUnsubscribeSdk,
                  UpdateCrashes, PublishRefused, HandlePublishData, PublishDataCrashes,
                  HandleShutdown, QueueDrained, Crash, Handling
    <2> QED  BY <2>1 DEF DueInv
  <1>5. ASSUME NEW k \in DOMAIN scheduleQueue, ScheduleSkip(k) \/ ScheduleRunOnce(k)
        PROVE  DueInv'
    BY <1>0, <1>5, RemoveKeepsAligned DEF ScheduleSkip, ScheduleRunOnce, DueNow
  <1>6. ASSUME NEW k \in DOMAIN scheduleQueue, ScheduleRun(k) PROVE DueInv'
    <2> DEFINE o == scheduleQueue[k].obj
    <2>1. pc' # "sleep" /\ scheduleQueue[k].due = 0
      BY <1>6 DEF ScheduleRun, DueNow
    <2>2. scheduleQueue' = [scheduleQueue EXCEPT ![k].due = @ + Period[o[1]]]
      BY <1>6 DEF ScheduleRun
    <2>3. /\ DOMAIN scheduleQueue' = DOMAIN scheduleQueue
          /\ \A j \in DOMAIN scheduleQueue : j # k => scheduleQueue'[j] = scheduleQueue[j]
          /\ scheduleQueue'[k].due = 0 + Period[o[1]]
      BY <2>1, <2>2, EntryType
    <2>4. Aligned(0 + Period[o[1]])
      BY EntryType, AlignedFacts
    <2> QED  BY <1>0, <2>1, <2>3, <2>4 DEF DueInv
  <1>7. CASE Tick
    <2>1. /\ DOMAIN scheduleQueue' = DOMAIN scheduleQueue /\ pc' # "sleep" /\ pc = "sleep"
          /\ \A j \in DOMAIN scheduleQueue :
               scheduleQueue'[j].due = IF scheduleQueue[j].due >= Cycle
                                       THEN scheduleQueue[j].due - Cycle ELSE -1
      BY <1>7, EntryType DEF Tick
    <2>2. ASSUME NEW j \in DOMAIN scheduleQueue PROVE Aligned(scheduleQueue'[j].due)
      <3>1. Aligned(scheduleQueue[j].due) /\ scheduleQueue[j].due # 0
        BY <2>1 DEF DueInv
      <3>2. scheduleQueue[j].due >= Cycle /\ Aligned(scheduleQueue[j].due - Cycle)
        BY <3>1, AlignedFacts
      <3> QED  BY <2>1, <3>2
    <2> QED  BY <1>0, <2>1, <2>2
  <1>8. CASE ScheduleDone
    BY <1>8, NothingDue DEF ScheduleDone, DueInv
  <1>9. CASE \E k \in DOMAIN scheduleQueue : ScheduleCrashes(k)
    BY <1>9 DEF ScheduleCrashes, Crash, DueInv
  <1>10. CASE Environment
    BY <1>10 DEF Environment, Post, Awake, AddInstance, DeleteInstance, ExitDisable,
                 TakeData, DueInv
  <1>11. CASE UNCHANGED vars
    BY <1>11 DEF vars, DueInv
  <1> QED  BY <1>1, <1>2, <1>3, <1>4, <1>5, <1>6, <1>7, <1>8, <1>9, <1>10, <1>11
           DEF Next, RunThread, HandleMessage, Schedule

\* With periods that are multiples of the cycle the equality test of Schedule
\* never misses an entry, so the queue is never blocked by an overdue one.
THEOREM EntriesSeenInTime == Spec => []NeverOverdue
  <1>1. Init => DueInv
    BY DEF Init, DueInv
  <1>2. DueInv => NeverOverdue
    BY AlignedFacts DEF DueInv, NeverOverdue
  <1> QED  BY <1>1, <1>2, StepDue, TypeCorrect, PTL DEF Spec

-----------------------------------------------------------------------------
(* Without a removal nothing crashes                                       *)

\* Messages and entries that name only instances which have been loaded.
GoodMsgs == {m \in Msgs : m.type = "SUBSCRIBE" /\ m.who \in Instances => gen[m.who] > 0}
GoodEntries == {e \in Entries : e.obj[2] >= 1 /\ e.obj[2] <= gen[e.obj[1]]}
\* Every name the scheduling thread keeps belongs to an instance once loaded.
KnownNames ==
  /\ \A i \in store : gen[i] > 0
  /\ topicOn \subseteq topicKeys
  /\ \A t \in topicKeys : gen[InstanceOf[t]] > 0
  /\ \A p \in subs : p[2] \in Instances => gen[p[2]] > 0
  /\ recvQueue \in Seq(GoodMsgs)
  /\ scheduleQueue \in Seq(GoodEntries)
Removed == \E i \in Instances : gen[i] > 0 /\ (i \notin store \/ gen[i] > 1)

\* Queues of good messages stay queues of good messages.
LEMMA ConsumeGood ==
  ASSUME NEW G, recvQueue \in Seq(G), recvQueue # <<>>, NEW s \in Seq(G), Consume(s)
  PROVE  recvQueue' \in Seq(G)
  <1>1. Tail(recvQueue) \in Seq(G)
    BY HeadTailProperties
  <1> QED  BY <1>1, ConcatProperties DEF Consume

\* What plugins push names the instance that pushes it.
LEMMA GoodPushes ==
  ASSUME TypeOK, KnownNames
  PROVE  /\ \A i \in store : \A s \in SetToSeqs(EnableMsgs(i)) : s \in Seq(GoodMsgs)
         /\ \A t \in Topics : InstanceOf[t] \in store =>
              \A s \in SetToSeqs(OpenMsgs(t)) : s \in Seq(GoodMsgs)
         /\ \A i \in Instances, T \in SUBSET Topics :
              \A s \in SetToSeqs(DisableMsgs(i, T)) : s \in Seq(GoodMsgs)
         /\ \A T \in SUBSET Topics : \A s \in SetToSeqs({Data(t) : t \in T}) : s \in Seq(GoodMsgs)
         /\ \A K : \A s \in SetToSeqs(UpdateMsgs(K)) : s \in Seq(GoodMsgs)
  <1>0. ASSUME NEW S \in SUBSET PluginMsgs, S \subseteq GoodMsgs
        PROVE  \A s \in SetToSeqs(S) : s \in Seq(GoodMsgs)
    BY <1>0, PushedType, SeqMonotonic
  <1>1. \A t \in Topics, i \in Instances : Unsub(t, i) \in GoodMsgs
    <2>1. \A t \in Topics, i \in Instances : Unsub(t, i) \in Msgs
      BY PluginMsgsType DEF PluginMsgs, PluginUnsubs
    <2> QED  BY <2>1 DEF GoodMsgs, Unsub
  <1>2. \A t \in Topics : Data(t) \in GoodMsgs
    <2>1. \A t \in Topics : Data(t) \in Msgs
      BY PluginMsgsType DEF PluginMsgs, PluginData
    <2> QED  BY <2>1 DEF GoodMsgs, Data
  <1>3. \A t \in Topics, i \in store : Sub(t, i) \in GoodMsgs
    <2>1. \A t \in Topics, i \in store : Sub(t, i) \in Msgs
      BY PluginMsgsType DEF PluginMsgs, PluginSubs, TypeOK
    <2> QED  BY <2>1 DEF GoodMsgs, Sub, KnownNames
  <1>4. \A i \in store : EnableMsgs(i) \subseteq GoodMsgs
    BY <1>3, ConstantsAssumption DEF EnableMsgs, TypeOK
  <1>5. \A t \in Topics : InstanceOf[t] \in store => OpenMsgs(t) \subseteq GoodMsgs
    BY <1>3, ConstantsAssumption DEF OpenMsgs
  <1>6. \A i \in Instances, T \in SUBSET Topics : DisableMsgs(i, T) \subseteq GoodMsgs
    BY <1>1, ConstantsAssumption DEF DisableMsgs
  <1>7. \A T \in SUBSET Topics : {Data(t) : t \in T} \subseteq GoodMsgs
    BY <1>2
  <1>8. ASSUME NEW K PROVE UpdateMsgs(K) \subseteq GoodMsgs
    <2> SUFFICES ASSUME NEW x \in UpdateMsgs(K) PROVE x \in GoodMsgs
      OBVIOUS
    <2>1. PICK X \in {CloseMsgs(t) : t \in Closing(K)} \cup
                     {DisableMsgs(i, OpenOf(Obj(i)) \ Closing(K)) : i \in Stopping(K)} : x \in X
      BY DEF UpdateMsgs
    <2>2. CASE X \in {CloseMsgs(t) : t \in Closing(K)}
      <3>1. PICK t \in Closing(K) : X = CloseMsgs(t)
        BY <2>2
      <3>2. t \in Topics /\ InstanceOf[t] \in Instances /\ OpenDeps[t] \subseteq Topics
        BY <3>1, ConstantsAssumption DEF Closing, TypeOK
      <3> QED  BY <1>1, <2>1, <3>1, <3>2 DEF CloseMsgs
    <2>3. CASE X \in {DisableMsgs(i, OpenOf(Obj(i)) \ Closing(K)) : i \in Stopping(K)}
      <3>1. PICK i \in Stopping(K) : X = DisableMsgs(i, OpenOf(Obj(i)) \ Closing(K))
        BY <2>3
      <3>2. i \in Instances
        BY <3>1, ConstantsAssumption DEF Stopping, Idle, TypeOK
      <3>3. OpenOf(Obj(i)) \ Closing(K) \in SUBSET Topics
        BY DEF OpenOf
      <3> QED  BY <1>6, <2>1, <3>1, <3>2, <3>3
    <2> QED  BY <2>1, <2>2, <2>3
  <1>9. \A i \in store : \A s \in SetToSeqs(EnableMsgs(i)) : s \in Seq(GoodMsgs)
    BY <1>0, <1>4, EmittedType DEF TypeOK
  <1>10. \A t \in Topics : InstanceOf[t] \in store =>
           \A s \in SetToSeqs(OpenMsgs(t)) : s \in Seq(GoodMsgs)
    BY <1>0, <1>5, EmittedType
  <1>11. \A i \in Instances, T \in SUBSET Topics :
           \A s \in SetToSeqs(DisableMsgs(i, T)) : s \in Seq(GoodMsgs)
    BY <1>0, <1>6, EmittedType
  <1>12. \A T \in SUBSET Topics :
           \A s \in SetToSeqs({Data(t) : t \in T}) : s \in Seq(GoodMsgs)
    BY <1>0, <1>7, EmittedType
  <1>13. \A K : \A s \in SetToSeqs(UpdateMsgs(K)) : s \in Seq(GoodMsgs)
    BY <1>0, <1>8, UpdateMsgsType
  <1> QED  BY <1>9, <1>10, <1>11, <1>12, <1>13

\* Enabling on demand a stored instance.
LEMMA GoodEnable ==
  ASSUME TypeOK, KnownNames, NEW i \in store
  PROVE  /\ Scheduled(i) \in Seq(GoodEntries)
         /\ \A up : EnableIfNeeded(i, up) =>
              up \in Seq(GoodMsgs) /\ scheduleQueue' \in Seq(GoodEntries)
  <1>1. i \in Instances /\ gen[i] \in Nat /\ gen[i] > 0
    BY DEF TypeOK, KnownNames
  <1>2. [obj |-> Obj(i), due |-> FirstDue(i)] \in GoodEntries
    <2>1. [obj |-> Obj(i), due |-> FirstDue(i)] \in Entries
      BY <1>1, ScheduledType
    <2> QED  BY <1>1, <2>1 DEF GoodEntries, Obj
  <1>3. Scheduled(i) \in Seq(GoodEntries)
    BY <1>2, AppendProperties DEF Scheduled, KnownNames
  <1>4. ASSUME NEW up, EnableIfNeeded(i, up)
        PROVE  up \in Seq(GoodMsgs) /\ scheduleQueue' \in Seq(GoodEntries)
    <2>1. CASE IsEnabled(i)
      <3>1. <<>> \in Seq(GoodMsgs)
        BY EmptySeq
      <3> QED  BY <1>4, <2>1, <3>1 DEF EnableIfNeeded, KnownNames
    <2>2. CASE ~IsEnabled(i)
      BY <1>3, <1>4, <2>2, GoodPushes DEF EnableIfNeeded
    <2> QED  BY <2>1, <2>2
  <1> QED  BY <1>3, <1>4

\* The form every step but AddInstance has.
LEMMA KnownStep ==
  ASSUME TypeOK, KnownNames, gen' = gen, store' \subseteq store,
         topicOn' \subseteq topicKeys',
         \A t \in topicKeys' : t \in topicKeys \/ gen[InstanceOf[t]] > 0,
         \A p \in subs' : p \in subs \/ (p[2] \in Instances => gen[p[2]] > 0),
         recvQueue' \in Seq(GoodMsgs), scheduleQueue' \in Seq(GoodEntries)
  PROVE  KnownNames'
  <1>1. GoodMsgs' = GoodMsgs
    BY DEF GoodMsgs
  <1>2. GoodEntries' = GoodEntries
    BY DEF GoodEntries
  <1> QED  BY <1>1, <1>2 DEF KnownNames

\* Dropping the handled message keeps a queue of good messages.
LEMMA ConsumeNothingGood ==
  ASSUME KnownNames, recvQueue # <<>>, Consume(<<>>)
  PROVE  recvQueue' \in Seq(GoodMsgs)
  <1>1. <<>> \in Seq(GoodMsgs)
    BY EmptySeq
  <1> QED  BY <1>1, ConsumeGood DEF KnownNames

\* So does appending two batches of good ones.
LEMMA ConsumeTwoGood ==
  ASSUME KnownNames, recvQueue # <<>>, NEW a \in Seq(GoodMsgs), NEW b \in Seq(GoodMsgs),
         Consume(a \o b)
  PROVE  recvQueue' \in Seq(GoodMsgs)
  <1>1. a \o b \in Seq(GoodMsgs)
    BY ConcatProperties
  <1> QED  BY <1>1, ConsumeGood DEF KnownNames

\* The message a SUBSCRIBE handler works on names a loaded subscriber.
LEMMA GoodHead ==
  ASSUME TypeOK, KnownNames, Handling("SUBSCRIBE")
  PROVE  /\ Head(recvQueue).topic \in Topics
         /\ InstanceOf[Head(recvQueue).topic] \in Instances
         /\ Head(recvQueue).who \in Instances => gen[Head(recvQueue).who] > 0
  <1>1. recvQueue # <<>> /\ Head(recvQueue).type = "SUBSCRIBE"
    BY DEF Handling
  <1>2. Head(recvQueue) \in GoodMsgs
    BY <1>1, HeadTailProperties DEF KnownNames
  <1>3. Head(recvQueue) \in Msgs
    BY <1>2 DEF GoodMsgs
  <1> QED  BY <1>1, <1>2, <1>3, MessageFields, ConstantsAssumption DEF GoodMsgs

\* Handling a message introduces no name that was never loaded.
LEMMA KnownAfterMessage ==
  ASSUME TypeOK, KnownNames, HandleMessage PROVE KnownNames'
  <1> DEFINE m == Head(recvQueue)
  <1>0. /\ recvQueue \in Seq(GoodMsgs) /\ scheduleQueue \in Seq(GoodEntries)
        /\ topicOn \subseteq topicKeys /\ store \subseteq Instances
    BY DEF KnownNames, TypeOK
  <1>1. CASE HandleEnabled
    <2>1. recvQueue # <<>> /\ UNCHANGED <<store, gen, topicOn, topicKeys, subs>>
      BY <1>1 DEF HandleEnabled, Handling, storeVars, topicVars
    <2>2. \/ /\ m.inst \in store /\ scheduleQueue' = Scheduled(m.inst)
             /\ \E s \in SetToSeqs(EnableMsgs(m.inst)) : Consume(s)
          \/ Consume(<<>>) /\ scheduleQueue' = scheduleQueue
      BY <1>1 DEF HandleEnabled
    <2> HIDE DEF m
    <2>3. scheduleQueue' \in Seq(GoodEntries)
      BY <1>0, <2>2, GoodEnable
    <2>4. recvQueue' \in Seq(GoodMsgs)
      BY <1>0, <2>1, <2>2, GoodPushes, ConsumeGood, ConsumeNothingGood
    <2> QED  BY <1>0, <2>1, <2>3, <2>4, KnownStep
  <1>2. CASE HandleDisabled
    <2>1. /\ recvQueue # <<>>
          /\ UNCHANGED <<store, gen, topicOn, topicKeys, subs, scheduleQueue>>
      BY <1>2 DEF HandleDisabled, Handling, storeVars
    <2>2. \/ /\ m.inst \in store
             /\ \E s \in SetToSeqs(DisableMsgs(m.inst, OpenOf(Obj(m.inst)))) : Consume(s)
          \/ Consume(<<>>)
      BY <1>2 DEF HandleDisabled
    <2>3. OpenOf(Obj(m.inst)) \in SUBSET Topics
      BY DEF OpenOf
    <2> HIDE DEF m
    <2>4. recvQueue' \in Seq(GoodMsgs)
      BY <1>0, <2>1, <2>2, <2>3, GoodPushes, ConsumeGood, ConsumeNothingGood
    <2> QED  BY <1>0, <2>1, <2>4, KnownStep
  <1>3. CASE SubscribeOpenFails
    <2> DEFINE t == m.topic
               i == InstanceOf[t]
    <2>1. /\ recvQueue # <<>> /\ i \in store /\ t \in Topics
          /\ UNCHANGED <<store, gen, topicOn, subs>> /\ topicKeys' = topicKeys \cup {t}
      BY <1>3, GoodHead DEF SubscribeOpenFails, Handling, storeVars
    <2>2. PICK up \in SetToSeqs(EnableMsgs(i)) \cup {<<>>},
               down \in SetToSeqs(DisableMsgs(i, OpenOf(Obj(i)))) :
                 EnableIfNeeded(i, up) /\ Consume(up \o down)
      BY <1>3 DEF SubscribeOpenFails
    <2>3. OpenOf(Obj(i)) \in SUBSET Topics
      BY DEF OpenOf
    <2> HIDE DEF m, t, i
    <2>4. /\ up \in Seq(GoodMsgs) /\ down \in Seq(GoodMsgs)
          /\ scheduleQueue' \in Seq(GoodEntries)
      BY <1>0, <2>1, <2>2, <2>3, GoodEnable, GoodPushes
    <2>5. recvQueue' \in Seq(GoodMsgs)
      BY <2>1, <2>2, <2>4, ConsumeTwoGood
    <2>6. gen[i] > 0
      BY <2>1 DEF KnownNames
    <2> QED  BY <1>0, <2>1, <2>4, <2>5, <2>6, KnownStep DEF i
  <1>4. CASE SubscribeOpens
    <2> DEFINE t == m.topic
               i == InstanceOf[t]
    <2>1. /\ recvQueue # <<>> /\ i \in store /\ t \in Topics
          /\ m.who \in Instances => gen[m.who] > 0
          /\ UNCHANGED <<store, gen>> /\ topicKeys' = topicKeys \cup {t}
          /\ topicOn' = topicOn \cup {t} /\ subs' = subs \cup {<<t, m.who>>}
      BY <1>4, GoodHead DEF SubscribeOpens, Handling, storeVars
    <2>2. PICK up \in SetToSeqs(EnableMsgs(i)) \cup {<<>>},
               opened \in SetToSeqs(OpenMsgs(t)) :
                 EnableIfNeeded(i, up) /\ Consume(up \o opened)
      BY <1>4 DEF SubscribeOpens
    <2> HIDE DEF m, t
    <2>4. /\ up \in Seq(GoodMsgs) /\ opened \in Seq(GoodMsgs)
          /\ scheduleQueue' \in Seq(GoodEntries)
      BY <1>0, <2>1, <2>2, GoodEnable, GoodPushes
    <2>5. recvQueue' \in Seq(GoodMsgs)
      BY <2>1, <2>2, <2>4, ConsumeTwoGood
    <2>6. gen[i] > 0
      BY <2>1 DEF KnownNames
    <2> QED  BY <1>0, <2>1, <2>4, <2>5, <2>6, KnownStep
  <1>5. CASE SubscribeJoins
    <2> DEFINE i == InstanceOf[m.topic]
    <2>1. /\ recvQueue # <<>> /\ i \in store
          /\ m.who \in Instances => gen[m.who] > 0
          /\ UNCHANGED <<store, gen, topicKeys, topicOn>>
          /\ subs' = subs \cup {<<m.topic, m.who>>}
      BY <1>5, GoodHead DEF SubscribeJoins, Handling, storeVars
    <2>2. PICK up : EnableIfNeeded(i, up) /\ Consume(up)
      BY <1>5 DEF SubscribeJoins
    <2> HIDE DEF m, i
    <2>3. up \in Seq(GoodMsgs) /\ scheduleQueue' \in Seq(GoodEntries)
      BY <2>1, <2>2, GoodEnable
    <2>4. recvQueue' \in Seq(GoodMsgs)
      BY <1>0, <2>1, <2>2, <2>3, ConsumeGood
    <2> QED  BY <1>0, <2>1, <2>3, <2>4, KnownStep
  <1>6. CASE HandleUnsubscribe \/ HandleUnsubscribeSdk
    <2>1. recvQueue # <<>> /\ UNCHANGED <<store, gen, scheduleQueue>>
      BY <1>6 DEF HandleUnsubscribe, HandleUnsubscribeSdk, Handling, storeVars
    <2>2. \/ Consume(<<>>) /\ UNCHANGED <<topicKeys, topicOn, subs>>
          \/ /\ \E K : UpdateInstance(K)
             /\ subs' \subseteq subs
      BY <1>6 DEF HandleUnsubscribe, HandleUnsubscribeSdk, topicVars
    <2>3. CASE Consume(<<>>) /\ UNCHANGED <<topicKeys, topicOn, subs>>
      BY <1>0, <2>1, <2>3, ConsumeNothingGood, KnownStep
    <2>4. CASE (\E K : UpdateInstance(K)) /\ subs' \subseteq subs
      <3>1. PICK K : UpdateInstance(K)
        BY <2>4
      <3>2. PICK s \in SetToSeqs(UpdateMsgs(K)) : Consume(s)
        BY <3>1 DEF UpdateInstance, UpdateMsgs
      <3>3. recvQueue' \in Seq(GoodMsgs)
        BY <1>0, <2>1, <3>2, GoodPushes, ConsumeGood
      <3>4. topicKeys' = topicKeys /\ topicOn' \subseteq topicOn
        BY <3>1 DEF UpdateInstance
      <3> QED  BY <1>0, <2>1, <2>4, <3>3, <3>4, KnownStep
    <2> QED  BY <2>2, <2>3, <2>4
  <1>7. CASE HandlePublish
    <2> DEFINE i == m.inst
               t == m.topic
    <2>1. /\ recvQueue # <<>> /\ i \in store /\ t \in Topics \cup {NoTopic}
          /\ t # NoTopic => i = InstanceOf[t]
          /\ UNCHANGED <<store, gen, topicKeys, topicOn, subs>>
      BY <1>7, MessageFields DEF HandlePublish, Handling, TypeOK, storeVars
    <2>2. PICK up \in SetToSeqs(EnableMsgs(i)) \cup {<<>>} :
            /\ EnableIfNeeded(i, up)
            /\ \/ t # NoTopic /\ \E s \in SetToSeqs(OpenMsgs(t)) : Consume(up \o s)
               \/ Consume(up)
      BY <1>7 DEF HandlePublish
    <2>3. up \in Seq(GoodMsgs) /\ scheduleQueue' \in Seq(GoodEntries)
      BY <2>1, <2>2, GoodEnable
    <2>4. ASSUME t # NoTopic, NEW s \in SetToSeqs(OpenMsgs(t)), Consume(up \o s)
          PROVE  recvQueue' \in Seq(GoodMsgs)
      <3>1. t \in Topics /\ InstanceOf[t] \in store
        BY <2>1, <2>4
      <3>2. s \in Seq(GoodMsgs)
        BY <2>4, <3>1, GoodPushes
      <3> QED  BY <2>1, <2>3, <2>4, <3>2, ConsumeTwoGood
    <2>5. recvQueue' \in Seq(GoodMsgs)
      BY <1>0, <2>1, <2>2, <2>3, <2>4, ConsumeGood
    <2> QED  BY <1>0, <2>1, <2>3, <2>5, KnownStep
  <1>8. CASE SubscribeRefused \/ PublishRefused \/ HandlePublishData \/ HandleShutdown
    <2>1. /\ recvQueue # <<>> /\ Consume(<<>>)
          /\ UNCHANGED <<store, gen, topicKeys, topicOn, subs, scheduleQueue>>
      BY <1>8 DEF SubscribeRefused, PublishRefused, HandlePublishData, HandleShutdown,
                  Handling, storeVars, topicVars
    <2> QED  BY <1>0, <2>1, ConsumeNothingGood, KnownStep
  <1>9. CASE UpdateCrashes \/ PublishDataCrashes \/ QueueDrained
    <2>1. UNCHANGED <<store, gen, topicKeys, topicOn, subs, scheduleQueue, recvQueue>>
      BY <1>9 DEF UpdateCrashes, PublishDataCrashes, QueueDrained, Crash, storeVars, topicVars
    <2> QED  BY <1>0, <2>1, KnownStep
  <1> QED  BY <1>1, <1>2, <1>3, <1>4, <1>5, <1>6, <1>7, <1>8, <1>9 DEF HandleMessage

\* Neither does running an instance.
LEMMA KnownAfterSchedule ==
  ASSUME TypeOK, KnownNames, Schedule \/ Tick PROVE KnownNames'
  <1>0. /\ recvQueue \in Seq(GoodMsgs) /\ scheduleQueue \in Seq(GoodEntries)
        /\ topicOn \subseteq topicKeys /\ GoodEntries \subseteq Entries
    BY DEF KnownNames, GoodEntries
  <1>1. UNCHANGED <<store, gen, topicKeys, topicOn, subs>>
    BY DEF Schedule, Tick, ScheduleSkip, ScheduleRun, ScheduleRunOnce, ScheduleCrashes,
           ScheduleDone, Crash, storeVars, topicVars
  <1>2. ASSUME NEW k \in DOMAIN scheduleQueue
        PROVE  /\ scheduleQueue[k] \in GoodEntries
               /\ \A d \in Int : [scheduleQueue[k] EXCEPT !.due = d] \in GoodEntries
    <2>1. k \in 1..Len(scheduleQueue)
      BY EntryType
    <2>2. scheduleQueue[k] \in GoodEntries
      BY <1>0, <2>1, ElementOfSeq
    <2> QED  BY <2>2 DEF GoodEntries, Entries
  <1>3. ASSUME NEW k \in DOMAIN scheduleQueue
        PROVE  RemoveAt(scheduleQueue, k) \in Seq(GoodEntries)
    BY <1>0, EntryType, RemoveAtProperties
  <1>4. ASSUME NEW k \in DOMAIN scheduleQueue, ScheduleSkip(k) PROVE KnownNames'
    BY <1>0, <1>1, <1>3, <1>4, KnownStep DEF ScheduleSkip
  <1>5. ASSUME NEW k \in DOMAIN scheduleQueue, ScheduleRun(k) PROVE KnownNames'
    <2> DEFINE o == scheduleQueue[k].obj
               d == scheduleQueue[k].due + Period[o[1]]
    <2>1. scheduleQueue' = [scheduleQueue EXCEPT ![k] = [scheduleQueue[k] EXCEPT !.due = d]]
      BY <1>5 DEF ScheduleRun
    <2>2. d \in Int
      BY EntryType, PeriodAssumption
    <2>3. scheduleQueue' \in Seq(GoodEntries)
      BY <1>0, <1>2, <2>1, <2>2, EntryType, ExceptSeq
    <2>4. PICK T \in SUBSET LiveOf(o) :
            \E s \in SetToSeqs({Data(t) : t \in T}) : recvQueue' = recvQueue \o s
      BY <1>5 DEF ScheduleRun
    <2>5. T \in SUBSET Topics
      BY <2>4 DEF LiveOf
    <2>6. recvQueue' \in Seq(GoodMsgs)
      BY <1>0, <2>4, <2>5, GoodPushes, ConcatProperties
    <2> QED  BY <1>0, <1>1, <2>3, <2>6, KnownStep
  <1>6. ASSUME NEW k \in DOMAIN scheduleQueue, ScheduleRunOnce(k) PROVE KnownNames'
    <2> DEFINE o == scheduleQueue[k].obj
    <2>1. scheduleQueue' = RemoveAt(scheduleQueue, k)
      BY <1>6 DEF ScheduleRunOnce
    <2>2. PICK T \in SUBSET LiveOf(o) :
          \E s \in SetToSeqs({Data(t) : t \in T}) :
          \E down \in SetToSeqs(DisableMsgs(o[1], OpenOf(o))) :
            recvQueue' = recvQueue \o s \o down
      BY <1>6 DEF ScheduleRunOnce
    <2>3. T \in SUBSET Topics /\ OpenOf(o) \in SUBSET Topics /\ o[1] \in Instances
      BY <2>2, EntryType DEF LiveOf, OpenOf
    <2> HIDE DEF o
    <2>4. PICK s \in SetToSeqs({Data(t) : t \in T}),
               down \in SetToSeqs(DisableMsgs(o[1], OpenOf(o))) :
                 recvQueue' = recvQueue \o s \o down
      BY <2>2
    <2>5. s \in Seq(GoodMsgs) /\ down \in Seq(GoodMsgs)
      BY <2>3, <2>4, GoodPushes
    <2>6. recvQueue \o s \in Seq(GoodMsgs)
      BY <1>0, <2>5, ConcatProperties
    <2>7. recvQueue' \in Seq(GoodMsgs)
      BY <2>4, <2>5, <2>6, ConcatProperties
    <2> QED  BY <1>0, <1>1, <1>3, <2>1, <2>7, KnownStep
  <1>7. CASE ScheduleDone \/ (\E k \in DOMAIN scheduleQueue : ScheduleCrashes(k))
    <2>1. UNCHANGED <<recvQueue, scheduleQueue>>
      BY <1>7 DEF ScheduleDone, ScheduleCrashes, Crash
    <2> QED  BY <1>0, <1>1, <2>1, KnownStep
  <1>8. CASE Tick
    <2> DEFINE d(k) == IF scheduleQueue[k].due >= Cycle
                       THEN scheduleQueue[k].due - Cycle ELSE -1
    <2>1. scheduleQueue' = [k \in DOMAIN scheduleQueue |-> [scheduleQueue[k] EXCEPT !.due = d(k)]]
      BY <1>8 DEF Tick
    <2>2. \A k \in DOMAIN scheduleQueue : d(k) \in Int
      BY EntryType, CycleAssumption
    <2>3. Len(scheduleQueue) \in Nat /\ DOMAIN scheduleQueue = 1..Len(scheduleQueue)
      BY LenProperties DEF TypeOK
    <2>4. scheduleQueue' \in [1..Len(scheduleQueue) -> GoodEntries]
      BY <1>2, <2>1, <2>2, <2>3
    <2>5. scheduleQueue' \in Seq(GoodEntries)
      BY <2>3, <2>4
    <2>6. recvQueue' = recvQueue
      BY <1>8 DEF Tick
    <2> QED  BY <1>0, <1>1, <2>5, <2>6, KnownStep
  <1> QED  BY <1>4, <1>5, <1>6, <1>7, <1>8 DEF Schedule

\* Neither do the main thread and the data thread.
LEMMA KnownAfterEnvironment ==
  ASSUME TypeOK, KnownNames, Environment PROVE KnownNames'
  <1>0. /\ recvQueue \in Seq(GoodMsgs) /\ scheduleQueue \in Seq(GoodEntries)
        /\ topicOn \subseteq topicKeys
    BY DEF KnownNames
  <1>1. ASSUME NEW m \in Requests, Post(m) PROVE KnownNames'
    <2>1. m \in GoodMsgs
      BY NamesAssumption DEF Requests, GoodMsgs
    <2>2. recvQueue' \in Seq(GoodMsgs)
      BY <1>0, <1>1, <2>1, AppendProperties DEF Post
    <2> QED  BY <1>0, <1>1, <2>2, KnownStep DEF Post, storeVars, topicVars
  <1>2. CASE Awake \/ TakeData
    <2>1. UNCHANGED <<store, gen, topicKeys, topicOn, subs, scheduleQueue, recvQueue>>
      BY <1>2 DEF Awake, TakeData, storeVars, topicVars
    <2> QED  BY <1>0, <2>1, KnownStep
  <1>3. ASSUME NEW i \in Instances, AddInstance(i) PROVE KnownNames'
    <2>1. /\ store' = store \cup {i} /\ gen' = [gen EXCEPT ![i] = @ + 1]
          /\ UNCHANGED <<topicKeys, topicOn, subs, scheduleQueue, recvQueue>>
      BY <1>3 DEF AddInstance, topicVars
    <2>2. gen'[i] > 0 /\ \A j \in Instances : gen[j] \in Nat /\ gen'[j] \in Nat /\ gen'[j] >= gen[j]
      BY <2>1 DEF TypeOK
    <2>3. GoodMsgs \subseteq GoodMsgs'
      BY <2>2 DEF GoodMsgs
    <2>4. GoodEntries \subseteq GoodEntries'
      <3> SUFFICES ASSUME NEW e \in GoodEntries PROVE e \in GoodEntries'
        OBVIOUS
      <3>1. e \in Entries /\ e.obj[2] >= 1 /\ e.obj[2] <= gen[e.obj[1]]
        BY DEF GoodEntries
      <3>2. e.obj[1] \in Instances /\ e.obj[2] \in Nat
        BY <3>1 DEF Entries, Objects
      <3>3. e.obj[2] <= gen'[e.obj[1]]
        BY <2>2, <3>1, <3>2
      <3> QED  BY <3>1, <3>3 DEF GoodEntries
    <2>5. recvQueue' \in Seq(GoodMsgs')
      BY <1>0, <2>1, <2>3, SeqMonotonic
    <2>6. scheduleQueue' \in Seq(GoodEntries')
      BY <1>0, <2>1, <2>4, SeqMonotonic
    <2>7. \A t \in topicKeys' : gen'[InstanceOf[t]] > 0
      BY <2>1, <2>2, ConstantsAssumption DEF KnownNames, TypeOK
    <2>8. \A p \in subs' : p[2] \in Instances => gen'[p[2]] > 0
      BY <2>1, <2>2 DEF KnownNames
    <2>9. \A j \in store' : gen'[j] > 0
      BY <2>1, <2>2 DEF KnownNames, TypeOK
    <2> QED  BY <1>0, <2>1, <2>5, <2>6, <2>7, <2>8, <2>9 DEF KnownNames
  <1>4. ASSUME NEW i \in Instances, DeleteInstance(i) PROVE KnownNames'
    BY <1>0, <1>4, KnownStep DEF DeleteInstance, topicVars
  <1>5. ASSUME NEW i \in Instances, ExitDisable(i) PROVE KnownNames'
    <2>1. UNCHANGED <<store, gen, topicKeys, topicOn, subs, scheduleQueue>>
      BY <1>5 DEF ExitDisable, storeVars
    <2>2. PICK s \in SetToSeqs(DisableMsgs(i, OpenOf(Obj(i)))) : recvQueue' = recvQueue \o s
      BY <1>5 DEF ExitDisable
    <2>3. OpenOf(Obj(i)) \in SUBSET Topics
      BY DEF OpenOf
    <2>4. recvQueue' \in Seq(GoodMsgs)
      BY <1>0, <2>2, <2>3, GoodPushes, ConcatProperties
    <2> QED  BY <1>0, <2>1, <2>4, KnownStep
  <1> QED  BY <1>1, <1>2, <1>3, <1>4, <1>5 DEF Environment

\* Every step keeps the names known.
LEMMA StepKnown == TypeOK /\ KnownNames /\ [Next]_vars => KnownNames'
  <1>1. TypeOK /\ KnownNames /\ UNCHANGED vars => KnownNames'
    BY DEF vars, KnownNames, GoodMsgs, GoodEntries
  <1> QED  BY <1>1, KnownAfterMessage, KnownAfterSchedule, KnownAfterEnvironment
           DEF Next, RunThread

\* A crash is a name that is known and not in the store, or an old object.
LEMMA StepCrash ==
  TypeOK /\ KnownNames /\ CrashNeedsRemoval /\ [Next]_vars => CrashNeedsRemoval'
  <1> SUFFICES ASSUME TypeOK, KnownNames, CrashNeedsRemoval, [Next]_vars, pc' = "crashed"
               PROVE  Removed'
    BY DEF CrashNeedsRemoval, Removed
  <1>0. ASSUME Removed, UNCHANGED <<store, gen>> PROVE Removed'
    BY <1>0 DEF Removed
  <1>1. CASE UpdateCrashes
    <2>1. PICK K : ~(Touched(K) \subseteq store)
      BY <1>1 DEF UpdateCrashes
    <2>2. PICK i \in Touched(K) : i \notin store
      BY <2>1
    <2>3. \E t \in topicKeys : i = InstanceOf[t]
      BY <2>2 DEF Touched, Idle, Closing, KnownNames
    <2>4. i \in Instances /\ gen[i] > 0
      BY <2>3, ConstantsAssumption DEF KnownNames, TypeOK
    <2> QED  BY <1>0, <1>1, <2>2, <2>4 DEF UpdateCrashes, Crash, storeVars, Removed
  <1>2. CASE PublishDataCrashes
    <2> DEFINE t == Head(recvQueue).topic
    <2>1. PICK s \in SubscribersOf(t) \cap Instances : s \notin store
      BY <1>2 DEF PublishDataCrashes
    <2>2. gen[s] > 0
      <3>1. <<t, s>> \in subs
        BY <2>1 DEF SubscribersOf
      <3> QED  BY <2>1, <3>1 DEF KnownNames
    <2> QED  BY <1>0, <1>2, <2>1, <2>2 DEF PublishDataCrashes, Crash, storeVars, Removed
  <1>3. ASSUME NEW k \in DOMAIN scheduleQueue, ScheduleCrashes(k) PROVE Removed'
    <2> DEFINE o == scheduleQueue[k].obj
    <2>1. k \in 1..Len(scheduleQueue) /\ o[1] \in Instances /\ o \in Objects
      BY EntryType
    <2>2. scheduleQueue[k] \in GoodEntries
      BY <2>1, ElementOfSeq DEF KnownNames
    <2>3. o[2] >= 1 /\ o[2] <= gen[o[1]]
      BY <2>2 DEF GoodEntries
    <2>4. o[1] \notin store \/ o # <<o[1], gen[o[1]]>>
      BY <1>3 DEF ScheduleCrashes, IsCurrent, Obj
    <2> HIDE DEF o
    <2>5. o[2] \in Nat /\ gen[o[1]] \in Nat /\ o = <<o[1], o[2]>>
      BY <2>1 DEF Objects, TypeOK
    <2>6. gen[o[1]] > 0 /\ (o[1] \notin store \/ gen[o[1]] > 1)
      BY <2>3, <2>4, <2>5
    <2> QED  BY <1>0, <1>3, <2>1, <2>6 DEF ScheduleCrashes, Crash, storeVars, Removed
  <1>4. CASE UNCHANGED vars
    BY <1>0, <1>4 DEF vars, CrashNeedsRemoval, Removed
  <1>5. CASE \/ HandleEnabled \/ HandleDisabled \/ SubscribeRefused \/ SubscribeOpenFails
             \/ SubscribeOpens \/ SubscribeJoins \/ HandleUnsubscribe \/ HandleUnsubscribeSdk
             \/ PublishRefused \/ HandlePublish \/ HandlePublishData \/ HandleShutdown
             \/ QueueDrained
    BY <1>5 DEF HandleEnabled, HandleDisabled, SubscribeRefused, SubscribeOpenFails,
                SubscribeOpens, SubscribeJoins, HandleUnsubscribe, HandleUnsubscribeSdk,
                PublishRefused, HandlePublish, HandlePublishData, HandleShutdown,
                QueueDrained, Handling
  <1>6. CASE \/ \E k \in DOMAIN scheduleQueue :
                  ScheduleSkip(k) \/ ScheduleRun(k) \/ ScheduleRunOnce(k)
             \/ ScheduleDone \/ Tick
    BY <1>6 DEF ScheduleSkip, ScheduleRun, ScheduleRunOnce, ScheduleDone, Tick, DueNow
  <1>7. CASE Environment
    BY <1>7 DEF Environment, Post, Awake, AddInstance, DeleteInstance, ExitDisable,
                TakeData, Alive
  <1> QED  BY <1>1, <1>2, <1>3, <1>4, <1>5, <1>6, <1>7
           DEF Next, RunThread, HandleMessage, Schedule

\* At first no name is known.
LEMMA InitKnown == Init => KnownNames /\ CrashNeedsRemoval
  <1> SUFFICES ASSUME Init PROVE KnownNames /\ CrashNeedsRemoval
    OBVIOUS
  <1>1. recvQueue \in Seq(GoodMsgs) /\ scheduleQueue \in Seq(GoodEntries)
    BY EmptySeq DEF Init
  <1> QED  BY <1>1, ConstantsAssumption DEF Init, KnownNames, CrashNeedsRemoval

\* As long as no plugin is removed, no handler dereferences a null pointer and
\* the scheduler runs no object of an unloaded library.
THEOREM OnlyRemovalCrashes == Spec => []CrashNeedsRemoval
  BY InitKnown, StepKnown, StepCrash, TypeCorrect, PTL DEF Spec

-----------------------------------------------------------------------------
(* No subscription of an instance outlives its reason                      *)

\* In queue q, instance i's use of topic t ends: a subscription it holds, and
\* every subscription it still asks for, has its UNSUBSCRIBE behind it.
Ends(q, i, t) == \E j \in 1..Len(q) : q[j] = Unsub(t, i)
EndsAfter(q, k, i, t) == \E j \in 1..Len(q) : j > k /\ q[j] = Unsub(t, i)
Closes(q, i, t) == \A k \in 1..Len(q) : q[k] = Sub(t, i) => EndsAfter(q, k, i, t)
Balanced(q, held, i, t) == (held => Ends(q, i, t)) /\ Closes(q, i, t)

\* Only a plugin subscribes an instance, a topic is open in an object of the
\* instance that provides it, and no subscription leaks.
FairMsgs == {m \in Msgs : m.type = "SUBSCRIBE" /\ m.who \in Instances => m.from = "plugin"}
OpenOwn == \A p \in openTopics : InstanceOf[p[2]] = p[1][1]
NothingLeaks ==
  \A i \in Instances, t \in Topics : Needs(i, t) \/ Balanced(recvQueue, <<t, i>> \in subs, i, t)
LeakInv == NothingLeaks /\ OpenOwn /\ recvQueue \in Seq(FairMsgs)

\* An ordering of a finite set holds each of its elements.
LEMMA OrderingCovers ==
  ASSUME NEW S \in SUBSET PluginMsgs, NEW s \in SetToSeqs(S)
  PROVE  /\ s \in Seq(S)
         /\ \A k \in 1..Len(s) : s[k] \in S
         /\ \A x \in S : \E k \in 1..Len(s) : s[k] = x
  <1> DEFINE n == Cardinality(S)
  <1>1. IsFiniteSet(S) /\ n \in Nat
    BY PluginMsgsFinite, FS_Subset, FS_CardinalityType
  <1>2. s \in [1..n -> S] /\ \A i, j \in 1..n : i # j => s[i] # s[j]
    BY DEF SetToSeqs
  <1>3. Cardinality(1..n) = n
    <2>1. Cardinality(1..n) = IF 1 > n THEN 0 ELSE n - 1 + 1
      BY <1>1, FS_Interval
    <2> HIDE DEF n
    <2> QED  BY <1>1, <2>1
  <1>4. s \in Injection(1..n, S)
    BY <1>2 DEF Injection, IsInjective
  <1>5. s \in Surjection(1..n, S)
    BY <1>1, <1>3, <1>4, FS_Injection
  <1>6. s \in Seq(S) /\ Len(s) = n
    <2>1. s \in Seq(S)
      BY PushedType
    <2>2. DOMAIN s = 1..Len(s) /\ Len(s) \in Nat
      BY <2>1, LenProperties
    <2> HIDE DEF n
    <2>3. DOMAIN s = 1..n
      BY <1>2
    <2> DEFINE l == Len(s)
    <2>4. l \in Nat /\ 1..l = 1..n
      BY <2>2, <2>3
    <2> HIDE DEF l
    <2>5. ~(l < n)
      <3>1. l < n => n \in 1..n /\ n \notin 1..l
        BY <1>1, <2>4
      <3> QED  BY <2>4, <3>1
    <2>6. ~(n < l)
      <3>1. n < l => l \in 1..l /\ l \notin 1..n
        BY <1>1, <2>4
      <3> QED  BY <2>4, <3>1
    <2>7. l = n
      BY <1>1, <2>4, <2>5, <2>6
    <2> QED  BY <2>1, <2>7 DEF l
  <1> HIDE DEF n
  <1> QED  BY <1>2, <1>5, <1>6 DEF Surjection

\* Pushing p keeps a queue balanced, or p ends the use itself.
LEMMA BalancedConcat ==
  ASSUME NEW S, NEW q \in Seq(S), NEW p \in Seq(S), NEW held \in BOOLEAN, NEW i, NEW t,
         Balanced(q, held, i, t) \/ Ends(p, i, t), Closes(p, i, t)
  PROVE  Balanced(q \o p, held, i, t)
  <1> DEFINE r == q \o p
             a == Len(q)
             b == Len(p)
  <1>1. /\ a \in Nat /\ b \in Nat /\ Len(r) = a + b
        /\ \A k \in 1..a + b : r[k] = IF k <= a THEN q[k] ELSE p[k - a]
    BY LenProperties, ConcatProperties
  <1> HIDE DEF r, a, b
  <1>2. ASSUME NEW j \in 1..b PROVE a + j \in 1..a + b /\ r[a + j] = p[j]
    <2>1. a + j \in 1..a + b /\ ~(a + j <= a) /\ (a + j) - a = j
      BY <1>1
    <2> QED  BY <1>1, <2>1
  <1>3. ASSUME NEW j \in 1..a PROVE j \in 1..a + b /\ r[j] = q[j]
    BY <1>1
  <1>4. ASSUME Ends(p, i, t)
        PROVE  Ends(r, i, t) /\ \A k \in 1..a : EndsAfter(r, k, i, t)
    <2>1. PICK j \in 1..b : p[j] = Unsub(t, i)
      BY <1>4 DEF Ends, b
    <2>2. a + j \in 1..Len(r) /\ r[a + j] = Unsub(t, i) /\ \A k \in 1..a : a + j > k
      BY <1>1, <1>2, <2>1
    <2> QED  BY <2>2 DEF Ends, EndsAfter
  <1>5. ASSUME Ends(q, i, t) PROVE Ends(r, i, t)
    <2>1. PICK j \in 1..a : q[j] = Unsub(t, i)
      BY <1>5 DEF Ends, a
    <2> QED  BY <1>1, <1>3, <2>1 DEF Ends
  <1>6. held => Ends(r, i, t)
    BY <1>4, <1>5 DEF Balanced
  <1>7. ASSUME NEW k \in 1..a, q[k] = Sub(t, i) PROVE EndsAfter(r, k, i, t)
    <2>1. CASE Ends(p, i, t)
      BY <1>4, <2>1
    <2>2. CASE Balanced(q, held, i, t)
      <3>1. EndsAfter(q, k, i, t)
        BY <1>7, <2>2 DEF Balanced, Closes, a
      <3>2. PICK j \in 1..a : j > k /\ q[j] = Unsub(t, i)
        BY <3>1 DEF EndsAfter, a
      <3> QED  BY <1>1, <1>3, <3>2 DEF EndsAfter
    <2> QED  BY <2>1, <2>2
  <1>8. ASSUME NEW k \in 1..b, p[k] = Sub(t, i) PROVE EndsAfter(r, a + k, i, t)
    <2>1. PICK j \in 1..b : j > k /\ p[j] = Unsub(t, i)
      BY <1>8 DEF Closes, EndsAfter, b
    <2>2. a + j \in 1..Len(r) /\ r[a + j] = Unsub(t, i) /\ a + j > a + k
      BY <1>1, <1>2, <2>1
    <2> QED  BY <2>2 DEF EndsAfter
  <1>9. Closes(r, i, t)
    <2> SUFFICES ASSUME NEW k \in 1..Len(r), r[k] = Sub(t, i) PROVE EndsAfter(r, k, i, t)
      BY DEF Closes
    <2>1. CASE k <= a
      <3>1. k \in 1..a /\ q[k] = Sub(t, i)
        BY <1>1, <2>1
      <3> QED  BY <1>7, <3>1
    <2>2. CASE ~(k <= a)
      <3>1. k - a \in 1..b /\ a + (k - a) = k /\ p[k - a] = Sub(t, i)
        BY <1>1, <2>2
      <3> QED  BY <1>8, <3>1
    <2> QED  BY <2>1, <2>2
  <1> QED  BY <1>6, <1>9 DEF Balanced, r

\* Handling the first message keeps the rest balanced, if a use that is held
\* afterwards was held before or has just been asked for.
LEMMA BalancedTail ==
  ASSUME NEW S, NEW q \in Seq(S), q # <<>>, NEW held \in BOOLEAN, NEW held2 \in BOOLEAN,
         NEW i, NEW t, Balanced(q, held, i, t),
         held2 => \/ Head(q) = Sub(t, i)
                  \/ held /\ Head(q) # Unsub(t, i)
  PROVE  Balanced(Tail(q), held2, i, t)
  <1> DEFINE r == Tail(q)
             n == Len(q)
  <1>1. /\ n \in Nat /\ n > 0 /\ Len(r) = n - 1 /\ Head(q) = q[1]
        /\ \A k \in 1..n - 1 : r[k] = q[k + 1]
    BY LenProperties, EmptySeq, HeadTailProperties
  <1> HIDE DEF r, n
  <1>2. ASSUME NEW k \in 1..n, EndsAfter(q, k, i, t)
        PROVE  EndsAfter(r, k - 1, i, t) /\ Ends(r, i, t)
    <2>1. PICK j \in 1..n : j > k /\ q[j] = Unsub(t, i)
      BY <1>2 DEF EndsAfter, n
    <2>2. j - 1 \in 1..n - 1 /\ j - 1 > k - 1 /\ (j - 1) + 1 = j
      BY <1>1, <2>1
    <2>3. r[j - 1] = Unsub(t, i)
      BY <1>1, <2>1, <2>2
    <2> QED  BY <1>1, <2>2, <2>3 DEF EndsAfter, Ends
  <1>3. ASSUME held2 PROVE Ends(r, i, t)
    <2>1. CASE Head(q) = Sub(t, i)
      <3>1. 1 \in 1..n /\ q[1] = Sub(t, i)
        BY <1>1, <2>1
      <3>2. EndsAfter(q, 1, i, t)
        BY <3>1 DEF Balanced, Closes, n
      <3> QED  BY <1>2, <3>1, <3>2
    <2>2. CASE held /\ Head(q) # Unsub(t, i)
      <3>1. PICK j \in 1..n : q[j] = Unsub(t, i)
        BY <2>2 DEF Balanced, Ends, n
      <3>2. j # 1
        BY <1>1, <2>2, <3>1
      <3>3. j - 1 \in 1..n - 1 /\ (j - 1) + 1 = j
        BY <1>1, <3>2
      <3>4. r[j - 1] = Unsub(t, i)
        BY <1>1, <3>1, <3>3
      <3> QED  BY <1>1, <3>3, <3>4 DEF Ends
    <2> QED  BY <1>3, <2>1, <2>2
  <1>4. ASSUME NEW k \in 1..Len(r), r[k] = Sub(t, i) PROVE EndsAfter(r, k, i, t)
    <2>1. k + 1 \in 1..n /\ q[k + 1] = Sub(t, i) /\ (k + 1) - 1 = k
      BY <1>1, <1>4
    <2>2. EndsAfter(q, k + 1, i, t)
      BY <2>1 DEF Balanced, Closes, n
    <2>3. EndsAfter(r, (k + 1) - 1, i, t)
      BY <1>2, <2>1, <2>2
    <2> QED  BY <2>1, <2>3
  <1> QED  BY <1>3, <1>4 DEF Balanced, Closes, r

\* The messages of two plugins, or of two kinds, differ.
LEMMA MessagesDiffer ==
  ASSUME NEW i, NEW t, NEW j, NEW u
  PROVE  /\ Sub(t, i) = Sub(u, j) => t = u /\ i = j
         /\ Unsub(t, i) = Unsub(u, j) => t = u /\ i = j
         /\ Sub(t, i) # Unsub(u, j) /\ Sub(t, i) # Data(u)
         /\ Unsub(t, i).type = "UNSUBSCRIBE"
  <1>1. /\ Sub(t, i).topic = t /\ Sub(t, i).who = i /\ Sub(t, i).type = "SUBSCRIBE"
        /\ Sub(u, j).topic = u /\ Sub(u, j).who = j
    BY DEF Sub
  <1>2. /\ Unsub(t, i).topic = t /\ Unsub(t, i).who = i /\ Unsub(t, i).type = "UNSUBSCRIBE"
        /\ Unsub(u, j).topic = u /\ Unsub(u, j).who = j /\ Unsub(u, j).type = "UNSUBSCRIBE"
    BY DEF Unsub
  <1>3. Data(u).type = "PUBLISH_DATA"
    BY DEF Data
  <1> QED  BY <1>1, <1>2, <1>3

\* Plugins subscribe only for themselves.
LEMMA PluginMsgsFair == PluginMsgs \subseteq FairMsgs
  <1>1. \A m \in PluginSubs : m.from = "plugin"
    BY DEF PluginSubs, Sub
  <1>2. \A m \in PluginUnsubs : m.from = "plugin"
    BY DEF PluginUnsubs, Unsub
  <1>3. \A m \in PluginData : m.from = "plugin"
    BY DEF PluginData, Data
  <1> QED  BY <1>1, <1>2, <1>3, PluginMsgsType DEF PluginMsgs, FairMsgs

\* What an ordering of the messages S does to the balance.
LEMMA PushedEffect ==
  ASSUME NEW S \in SUBSET PluginMsgs, NEW p \in SetToSeqs(S)
  PROVE  /\ p \in Seq(FairMsgs)
         /\ \A i, t : Unsub(t, i) \in S => Ends(p, i, t)
         /\ \A i, t : Sub(t, i) \notin S => Closes(p, i, t)
  <1>1. S \subseteq FairMsgs
    BY PluginMsgsFair
  <1>2. p \in Seq(FairMsgs)
    BY <1>1, OrderingCovers, SeqMonotonic
  <1> QED  BY <1>2, OrderingCovers DEF Ends, Closes

\* A handler that pushes nothing.
LEMMA EmptyEffect == <<>> \in Seq(FairMsgs) /\ \A i, t : Closes(<<>>, i, t)
  <1>1. <<>> \in Seq(FairMsgs) /\ Len(<<>>) = 0
    BY EmptySeq
  <1>2. 1..Len(<<>>) = {}
    BY <1>1
  <1> QED  BY <1>1, <1>2 DEF Closes

\* Two batches, the second of which may end what the first began.
LEMMA TwoEffects ==
  ASSUME NEW a \in Seq(FairMsgs), NEW b \in Seq(FairMsgs)
  PROVE  /\ a \o b \in Seq(FairMsgs)
         /\ \A i, t : Ends(b, i, t) => Ends(a \o b, i, t)
         /\ \A i, t : (Closes(a, i, t) \/ Ends(b, i, t)) /\ Closes(b, i, t)
                        => Closes(a \o b, i, t)
  <1>1. a \o b \in Seq(FairMsgs)
    BY ConcatProperties
  <1>2. ASSUME NEW i, NEW t, Ends(b, i, t) PROVE Ends(a \o b, i, t)
    <2>1. PICK j \in 1..Len(b) : b[j] = Unsub(t, i)
      BY <1>2 DEF Ends
    <2>2. /\ Len(a) \in Nat /\ Len(b) \in Nat /\ Len(a \o b) = Len(a) + Len(b)
          /\ \A k \in 1..Len(a) + Len(b) :
               (a \o b)[k] = IF k <= Len(a) THEN a[k] ELSE b[k - Len(a)]
      BY LenProperties, ConcatProperties
    <2>3. /\ Len(a) + j \in 1..Len(a) + Len(b) /\ ~(Len(a) + j <= Len(a))
          /\ (Len(a) + j) - Len(a) = j
      BY <2>1, <2>2
    <2>4. (a \o b)[Len(a) + j] = Unsub(t, i)
      BY <2>1, <2>2, <2>3
    <2> QED  BY <2>2, <2>3, <2>4 DEF Ends
  <1>3. ASSUME NEW i, NEW t, Closes(a, i, t) \/ Ends(b, i, t), Closes(b, i, t)
        PROVE  Closes(a \o b, i, t)
    <2>1. Balanced(a, FALSE, i, t) \/ Ends(b, i, t)
      BY <1>3 DEF Balanced
    <2>2. Balanced(a \o b, FALSE, i, t)
      BY <1>3, <2>1, BalancedConcat
    <2> QED  BY <2>2 DEF Balanced
  <1> QED  BY <1>1, <1>2, <1>3

\* A step that handles the first message and pushes p.
LEMMA LeakConsumed ==
  ASSUME LeakInv, recvQueue # <<>>, NEW p \in Seq(FairMsgs), Consume(p), OpenOwn',
         \A i \in Instances, t \in Topics : ~Needs(i, t)' =>
           /\ Needs(i, t) => Ends(p, i, t)
           /\ Closes(p, i, t)
           /\ <<t, i>> \in subs' =>
                \/ Head(recvQueue) = Sub(t, i)
                \/ <<t, i>> \in subs /\ Head(recvQueue) # Unsub(t, i)
  PROVE  LeakInv'
  <1>1. recvQueue \in Seq(FairMsgs) /\ Tail(recvQueue) \in Seq(FairMsgs)
    BY HeadTailProperties DEF LeakInv
  <1>2. recvQueue' = Tail(recvQueue) \o p
    BY DEF Consume
  <1>3. recvQueue' \in Seq(FairMsgs)
    BY <1>1, <1>2, ConcatProperties
  <1>4. ASSUME NEW i \in Instances, NEW t \in Topics, ~Needs(i, t)'
        PROVE  Balanced(recvQueue', <<t, i>> \in subs', i, t)
    <2> DEFINE held == <<t, i>> \in subs
               held2 == <<t, i>> \in subs'
    <2>1. Closes(p, i, t) /\ (Ends(p, i, t) \/ ~Needs(i, t))
      BY <1>4
    <2>2. ASSUME ~Needs(i, t) PROVE Balanced(Tail(recvQueue), held2, i, t)
      <3>1. Balanced(recvQueue, held, i, t)
        BY <2>2 DEF LeakInv, NothingLeaks
      <3>2. held2 => Head(recvQueue) = Sub(t, i) \/ (held /\ Head(recvQueue) # Unsub(t, i))
        BY <1>4
      <3>3. held \in BOOLEAN /\ held2 \in BOOLEAN
        OBVIOUS
      <3> HIDE DEF held, held2
      <3> QED  BY <1>1, <3>1, <3>2, <3>3, BalancedTail
    <2>3. held2 \in BOOLEAN
      OBVIOUS
    <2> HIDE DEF held2
    <2>4. Balanced(Tail(recvQueue) \o p, held2, i, t)
      BY <1>1, <2>1, <2>2, <2>3, BalancedConcat
    <2> QED  BY <1>2, <2>4 DEF held2
  <1>5. NothingLeaks'
    BY <1>4 DEF NothingLeaks
  <1>6. FairMsgs' = FairMsgs
    BY DEF FairMsgs
  <1> QED  BY <1>3, <1>5, <1>6 DEF LeakInv

\* A step that pushes p without handling a message.
LEMMA LeakPushed ==
  ASSUME LeakInv, NEW p \in Seq(FairMsgs), recvQueue' = recvQueue \o p, OpenOwn', subs' = subs,
         \A i \in Instances, t \in Topics : ~Needs(i, t)' =>
           (Needs(i, t) => Ends(p, i, t)) /\ Closes(p, i, t)
  PROVE  LeakInv'
  <1>1. recvQueue \in Seq(FairMsgs) /\ recvQueue' \in Seq(FairMsgs)
    BY ConcatProperties DEF LeakInv
  <1>2. ASSUME NEW i \in Instances, NEW t \in Topics, ~Needs(i, t)'
        PROVE  Balanced(recvQueue', <<t, i>> \in subs', i, t)
    <2> DEFINE held == <<t, i>> \in subs
    <2>1. Closes(p, i, t) /\ (Ends(p, i, t) \/ Balanced(recvQueue, held, i, t))
      BY <1>2 DEF LeakInv, NothingLeaks
    <2>2. held \in BOOLEAN
      OBVIOUS
    <2> HIDE DEF held
    <2>3. Balanced(recvQueue \o p, held, i, t)
      BY <1>1, <2>1, <2>2, BalancedConcat
    <2> QED  BY <2>3 DEF held
  <1>3. NothingLeaks'
    BY <1>2 DEF NothingLeaks
  <1>4. FairMsgs' = FairMsgs
    BY DEF FairMsgs
  <1> QED  BY <1>1, <1>3, <1>4 DEF LeakInv

\* A step that leaves all of it alone.
LEMMA LeakStutter ==
  ASSUME LeakInv, UNCHANGED <<recvQueue, subs, enabled, openTopics>>
  PROVE  LeakInv'
  <1>1. \A i, t : Needs(i, t)' = Needs(i, t)
    BY DEF Needs, OpenOf
  <1>2. FairMsgs' = FairMsgs
    BY DEF FairMsgs
  <1> QED  BY <1>1, <1>2 DEF LeakInv, NothingLeaks, OpenOwn

\* What an instance needs while it is enabled and its topics are open.
LEMMA NeedsFacts ==
  /\ enabled \subseteq enabled' /\ openTopics \subseteq openTopics' =>
       \A i, t : Needs(i, t) => Needs(i, t)'
  /\ \A o \in enabled' : \A t \in EnableDeps[o[1]] : Needs(o[1], t)'
  /\ \A o \in enabled', u \in Topics :
       <<o, u>> \in openTopics' => \A t \in OpenDeps[u] : Needs(o[1], t)'
  <1>1. ASSUME enabled \subseteq enabled', openTopics \subseteq openTopics',
               NEW i, NEW t, Needs(i, t)
        PROVE  Needs(i, t)'
    <2>1. \A o : OpenOf(o) \subseteq OpenOf(o)'
      BY <1>1 DEF OpenOf
    <2> QED  BY <1>1, <2>1 DEF Needs
  <1>2. \A o \in enabled' : \A t \in EnableDeps[o[1]] : Needs(o[1], t)'
    BY DEF Needs
  <1>3. \A o \in enabled', u \in Topics :
          <<o, u>> \in openTopics' => \A t \in OpenDeps[u] : Needs(o[1], t)'
    BY DEF Needs, OpenOf
  <1> QED  BY <1>1, <1>2, <1>3

\* Disabling an object ends every use that only it had.
LEMMA DisableEnds ==
  ASSUME NEW o, enabled' = enabled \ {o}, openTopics' = openTopics,
         NEW i, NEW t, Needs(i, t), ~Needs(i, t)'
  PROVE  o[1] = i /\ Unsub(t, i) \in DisableMsgs(o[1], OpenOf(o))
  <1>1. PICK x \in enabled :
          x[1] = i /\ (t \in EnableDeps[i] \/ \E u \in OpenOf(x) : t \in OpenDeps[u])
    BY DEF Needs
  <1>2. OpenOf(x)' = OpenOf(x)
    BY DEF OpenOf
  <1>3. x = o
    BY <1>1, <1>2 DEF Needs
  <1> QED  BY <1>1, <1>3 DEF DisableMsgs

\* Enabling on demand asks only for what the instance then needs.
LEMMA UpEffect ==
  ASSUME NEW i \in Instances, NEW up, EnableIfNeeded(i, up)
  PROVE  /\ up \in Seq(FairMsgs)
         /\ \A j, t : j # i \/ t \notin EnableDeps[i] => Closes(up, j, t)
  <1>1. CASE IsEnabled(i)
    BY <1>1, EmptyEffect DEF EnableIfNeeded
  <1>2. CASE ~IsEnabled(i)
    <2>1. up \in SetToSeqs(EnableMsgs(i)) /\ EnableMsgs(i) \in SUBSET PluginMsgs
      BY <1>2, EmittedType DEF EnableIfNeeded
    <2>2. ASSUME NEW j, NEW t, j # i \/ t \notin EnableDeps[i]
          PROVE  Sub(t, j) \notin EnableMsgs(i)
      BY <2>2, MessagesDiffer DEF EnableMsgs
    <2> QED  BY <2>1, <2>2, PushedEffect
  <1> QED  BY <1>1, <1>2

\* What Disable pushes ends uses and begins none; what OpenTopic pushes begins
\* only uses of the provider of the topic.
LEMMA DownEffect ==
  /\ \A i \in Instances, T \in SUBSET Topics : \A p \in SetToSeqs(DisableMsgs(i, T)) :
       /\ p \in Seq(FairMsgs)
       /\ \A j, t : Closes(p, j, t)
       /\ \A j, t : Unsub(t, j) \in DisableMsgs(i, T) => Ends(p, j, t)
  /\ \A u \in Topics : \A p \in SetToSeqs(OpenMsgs(u)) :
       /\ p \in Seq(FairMsgs)
       /\ \A j, t : j # InstanceOf[u] \/ t \notin OpenDeps[u] => Closes(p, j, t)
  /\ \A T \in SUBSET Topics : \A p \in SetToSeqs({Data(t) : t \in T}) :
       p \in Seq(FairMsgs) /\ \A j, t : Closes(p, j, t)
  <1>1. ASSUME NEW i, NEW T, NEW j, NEW t PROVE Sub(t, j) \notin DisableMsgs(i, T)
    BY MessagesDiffer DEF DisableMsgs
  <1>2. ASSUME NEW u, NEW j, NEW t, j # InstanceOf[u] \/ t \notin OpenDeps[u]
        PROVE  Sub(t, j) \notin OpenMsgs(u)
    BY <1>2, MessagesDiffer DEF OpenMsgs
  <1>3. ASSUME NEW T, NEW j, NEW t PROVE Sub(t, j) \notin {Data(u) : u \in T}
    BY MessagesDiffer
  <1> QED  BY <1>1, <1>2, <1>3, EmittedType, PushedEffect

\* The message at the head: a SUBSCRIBE for an instance is that plugin's own.
LEMMA HeadFair ==
  ASSUME TypeOK, LeakInv, recvQueue # <<>>
  PROVE  /\ Head(recvQueue) \in Msgs
         /\ \A i, t : Head(recvQueue) = Unsub(t, i) => Head(recvQueue).type = "UNSUBSCRIBE"
         /\ Head(recvQueue).type = "SUBSCRIBE" =>
              /\ Head(recvQueue).topic \in Topics
              /\ InstanceOf[Head(recvQueue).topic] \in Instances
              /\ Head(recvQueue).who \in Instances =>
                   Head(recvQueue) = Sub(Head(recvQueue).topic, Head(recvQueue).who)
  <1> DEFINE m == Head(recvQueue)
  <1>1. m \in FairMsgs
    BY HeadTailProperties DEF LeakInv
  <1>2. m \in Msgs
    BY <1>1 DEF FairMsgs
  <1>3. \A i, t : m = Unsub(t, i) => m.type = "UNSUBSCRIBE"
    BY MessagesDiffer
  <1> HIDE DEF m
  <1>4. ASSUME m.type = "SUBSCRIBE"
        PROVE  /\ m.topic \in Topics /\ InstanceOf[m.topic] \in Instances
               /\ m.who \in Instances => m = Sub(m.topic, m.who)
    <2>1. m \in TopicMsgs
      BY <1>2, <1>4 DEF Msgs, InstanceMsgs, SdkMsgs, PublishMsgs, DataMsgs, ShutdownMsgs
    <2>2. m = [type |-> m.type, topic |-> m.topic, who |-> m.who, from |-> m.from]
      BY <2>1 DEF TopicMsgs
    <2>3. m.topic \in Topics
      BY <2>1 DEF TopicMsgs
    <2>4. m.who \in Instances => m.from = "plugin"
      BY <1>1, <1>4 DEF FairMsgs
    <2> QED  BY <1>4, <2>2, <2>3, <2>4, ConstantsAssumption DEF Sub
  <1> QED  BY <1>2, <1>3, <1>4 DEF m

\* A SUBSCRIBE that succeeds and enables its provider.
LEMMA LeakSubscribed ==
  ASSUME TypeOK, LeakInv, recvQueue # <<>>, Head(recvQueue).type = "SUBSCRIBE",
         subs' = subs \cup {<<Head(recvQueue).topic, Head(recvQueue).who>>},
         NEW i \in Instances, NEW t \in Topics, <<t, i>> \in subs'
  PROVE  \/ Head(recvQueue) = Sub(t, i)
         \/ <<t, i>> \in subs /\ Head(recvQueue) # Unsub(t, i)
  <1> DEFINE m == Head(recvQueue)
  <1>1. m # Unsub(t, i)
    BY HeadFair
  <1>2. CASE <<t, i>> \in subs
    BY <1>1, <1>2
  <1>3. CASE t = m.topic /\ i = m.who
    BY <1>3, HeadFair
  <1> QED  BY <1>2, <1>3

\* Handling ENABLED, SUBSCRIBE or PUBLISH: an instance is enabled, and may open
\* a topic; it asks only for what it then needs.
LEMMA LeakEnables ==
  ASSUME TypeOK, LeakInv, recvQueue # <<>>, NEW i \in Instances,
         Head(recvQueue).type # "UNSUBSCRIBE", enabled' = enabled \cup {Obj(i)},
         NEW T \in SUBSET Topics, \A u \in T : InstanceOf[u] = i,
         openTopics' = openTopics \cup {<<Obj(i), u>> : u \in T},
         \/ subs' = subs
         \/ /\ Head(recvQueue).type = "SUBSCRIBE"
            /\ subs' = subs \cup {<<Head(recvQueue).topic, Head(recvQueue).who>>},
         NEW p \in Seq(FairMsgs), Consume(p),
         \A j, t : \/ j # i
                   \/ t \notin EnableDeps[i] /\ \A u \in T : t \notin OpenDeps[u]
                   => Closes(p, j, t)
  PROVE  LeakInv'
  <1>1. OpenOwn'
    <2>1. OpenOwn
      BY DEF LeakInv
    <2>2. Obj(i)[1] = i
      BY DEF Obj
    <2> QED  BY <2>1, <2>2 DEF OpenOwn
  <1>2. ASSUME NEW j \in Instances, NEW t \in Topics, ~Needs(j, t)'
        PROVE  ~Needs(j, t) /\ Closes(p, j, t)
    <2>1. ~Needs(j, t)
      BY <1>2, NeedsFacts
    <2>2. Obj(i) \in enabled' /\ Obj(i)[1] = i
      BY DEF Obj
    <2>3. j = i => t \notin EnableDeps[i]
      BY <1>2, <2>2, NeedsFacts
    <2>4. ASSUME j = i, NEW u \in T PROVE t \notin OpenDeps[u]
      <3>1. <<Obj(i), u>> \in openTopics' /\ u \in Topics
        BY <2>4
      <3> QED  BY <1>2, <2>2, <2>4, <3>1, NeedsFacts
    <2> QED  BY <2>1, <2>3, <2>4
  <1>3. ASSUME NEW j \in Instances, NEW t \in Topics, <<t, j>> \in subs'
        PROVE  \/ Head(recvQueue) = Sub(t, j)
               \/ <<t, j>> \in subs /\ Head(recvQueue) # Unsub(t, j)
    BY <1>3, HeadFair, LeakSubscribed
  <1> QED  BY <1>1, <1>2, <1>3, LeakConsumed

\* Handling a message that changes neither who is enabled nor what is open.
LEMMA LeakDropped ==
  ASSUME TypeOK, LeakInv, recvQueue # <<>>, Head(recvQueue).type # "UNSUBSCRIBE",
         Consume(<<>>), UNCHANGED <<enabled, openTopics, subs>>
  PROVE  LeakInv'
  <1>1. OpenOwn'
    BY DEF LeakInv, OpenOwn
  <1>2. \A i, t : Needs(i, t)' = Needs(i, t)
    BY DEF Needs, OpenOf
  <1> QED  BY <1>1, <1>2, EmptyEffect, HeadFair, LeakConsumed

\* Handling a message by which an object is disabled; up is what it pushed
\* when it was enabled just before.
LEMMA LeakDisables ==
  ASSUME TypeOK, LeakInv, recvQueue # <<>>, NEW i \in Instances,
         Head(recvQueue).type # "UNSUBSCRIBE", enabled' = enabled \ {Obj(i)},
         UNCHANGED <<openTopics, subs>>,
         NEW up \in Seq(FairMsgs), NEW down \in SetToSeqs(DisableMsgs(i, OpenOf(Obj(i)))),
         \A j, t : j # i \/ t \notin EnableDeps[i] => Closes(up, j, t),
         Consume(up \o down)
  PROVE  LeakInv'
  <1>1. OpenOwn'
    BY DEF LeakInv, OpenOwn
  <1>2. OpenOf(Obj(i)) \in SUBSET Topics /\ Obj(i)[1] = i
    BY DEF OpenOf, Obj
  <1>3. /\ down \in Seq(FairMsgs)
        /\ \A j, t : Closes(down, j, t)
        /\ \A j, t : Unsub(t, j) \in DisableMsgs(i, OpenOf(Obj(i))) => Ends(down, j, t)
    BY <1>2, DownEffect
  <1>4. \A t \in EnableDeps[i] : Ends(down, i, t)
    BY <1>3 DEF DisableMsgs
  <1>5. /\ up \o down \in Seq(FairMsgs)
        /\ \A j, t : Closes(up \o down, j, t)
    BY <1>3, <1>4, TwoEffects
  <1>6. ASSUME NEW j \in Instances, NEW t \in Topics, Needs(j, t), ~Needs(j, t)'
        PROVE  Ends(up \o down, j, t)
    BY <1>2, <1>3, <1>6, DisableEnds, TwoEffects
  <1> QED  BY <1>1, <1>5, <1>6, HeadFair, LeakConsumed

\* What UpdateInstance pushes: an UNSUBSCRIBE for every use it ends.
LEMMA LeakUpdates ==
  ASSUME TypeOK, LeakInv, recvQueue # <<>>, NEW K, UpdateInstance(K),
         \A i \in Instances, t \in Topics : <<t, i>> \in subs' =>
           <<t, i>> \in subs /\ Head(recvQueue) # Unsub(t, i)
  PROVE  LeakInv'
  <1> DEFINE S == UpdateMsgs(K)
             closed == {<<Obj(InstanceOf[t]), t>> : t \in Closing(K)}
  <1>1. /\ openTopics' = openTopics \ closed
        /\ enabled' = enabled \ {Obj(i) : i \in Stopping(K)}
    BY DEF UpdateInstance
  <1>2. PICK p \in SetToSeqs(S) : Consume(p)
    BY DEF UpdateInstance, UpdateMsgs
  <1>3. OpenOwn /\ OpenOwn'
    BY <1>1 DEF LeakInv, OpenOwn
  <1>4. S \in SUBSET PluginMsgs
    BY UpdateMsgsType
  <1>5. ASSUME NEW i, NEW t PROVE Sub(t, i) \notin S
    <2> SUFFICES ASSUME Sub(t, i) \in S PROVE FALSE
      OBVIOUS
    <2>1. \/ \E u \in Closing(K) : Sub(t, i) \in CloseMsgs(u)
          \/ \E j \in Stopping(K) : Sub(t, i) \in DisableMsgs(j, OpenOf(Obj(j)) \ Closing(K))
      BY DEF UpdateMsgs
    <2>2. \A u : Sub(t, i) \notin CloseMsgs(u)
      BY MessagesDiffer DEF CloseMsgs
    <2>3. \A j, T : Sub(t, i) \notin DisableMsgs(j, T)
      BY MessagesDiffer DEF DisableMsgs
    <2> QED  BY <2>1, <2>2, <2>3
  <1>6. ASSUME NEW u \in Closing(K), NEW t \in OpenDeps[u] PROVE Unsub(t, InstanceOf[u]) \in S
    <2>1. Unsub(t, InstanceOf[u]) \in CloseMsgs(u)
      BY DEF CloseMsgs
    <2> QED  BY <2>1 DEF UpdateMsgs
  <1>7. ASSUME NEW i \in Stopping(K), NEW t,
               \/ t \in EnableDeps[i]
               \/ \E u \in OpenOf(Obj(i)) \ Closing(K) : t \in OpenDeps[u]
        PROVE  Unsub(t, i) \in S
    <2>1. Unsub(t, i) \in DisableMsgs(i, OpenOf(Obj(i)) \ Closing(K))
      BY <1>7 DEF DisableMsgs
    <2> QED  BY <2>1 DEF UpdateMsgs
  <1>8. ASSUME NEW i \in Instances, NEW t \in Topics, Needs(i, t), ~Needs(i, t)'
        PROVE  Unsub(t, i) \in S
    <2>1. PICK o \in enabled :
            o[1] = i /\ (t \in EnableDeps[i] \/ \E u \in OpenOf(o) : t \in OpenDeps[u])
      BY <1>8 DEF Needs
    <2>2. ASSUME NEW u \in OpenOf(o), t \in OpenDeps[u], u \in Closing(K)
          PROVE  Unsub(t, i) \in S
      <3>1. <<o, u>> \in openTopics
        BY <2>2 DEF OpenOf
      <3>2. InstanceOf[u] = i
        BY <1>3, <2>1, <3>1 DEF OpenOwn
      <3> QED  BY <1>6, <2>2, <3>2
    <2>3. CASE o \in enabled'
      <3>1. t \notin EnableDeps[i]
        BY <1>8, <2>1, <2>3 DEF Needs
      <3>2. PICK u \in OpenOf(o) : t \in OpenDeps[u]
        BY <2>1, <3>1
      <3>3. <<o, u>> \in closed
        <4>1. <<o, u>> \notin openTopics'
          BY <1>8, <2>1, <2>3, <3>2 DEF Needs, OpenOf
        <4> QED  BY <1>1, <3>2, <4>1 DEF OpenOf
      <3> QED  BY <2>2, <3>2, <3>3
    <2>4. CASE o \notin enabled'
      <3>1. PICK j \in Stopping(K) : o = Obj(j)
        BY <1>1, <2>4
      <3>2. j = i
        BY <2>1, <3>1 DEF Obj
      <3>3. CASE t \in EnableDeps[i]
        BY <1>7, <3>1, <3>2, <3>3
      <3>4. CASE \E u \in OpenOf(o) : t \in OpenDeps[u]
        <4>1. PICK u \in OpenOf(o) : t \in OpenDeps[u]
          BY <3>4
        <4>2. CASE u \in Closing(K)
          BY <2>2, <4>1, <4>2
        <4>3. CASE u \notin Closing(K)
          BY <1>7, <3>1, <3>2, <4>1, <4>3
        <4> QED  BY <4>2, <4>3
      <3> QED  BY <2>1, <3>3, <3>4
    <2> QED  BY <2>3, <2>4
  <1> HIDE DEF S, closed
  <1>9. /\ p \in Seq(FairMsgs)
        /\ \A i, t : Unsub(t, i) \in S => Ends(p, i, t)
        /\ \A i, t : Closes(p, i, t)
    BY <1>2, <1>4, <1>5, PushedEffect
  <1> QED  BY <1>2, <1>3, <1>8, <1>9, LeakConsumed

\* Handling a message leaks no subscription.
LEMMA LeakAfterMessage ==
  ASSUME TypeOK, LeakInv, HandleMessage PROVE LeakInv'
  <1> DEFINE m == Head(recvQueue)
  <1>1. CASE HandleEnabled
    <2>1. /\ recvQueue # <<>> /\ m.type = "ENABLED" /\ m.inst \in Instances
          /\ UNCHANGED <<subs, openTopics>>
      BY <1>1, MessageFields DEF HandleEnabled, Handling, TypeOK, topicVars
    <2>2. \/ /\ enabled' = enabled \cup {Obj(m.inst)}
             /\ \E p \in SetToSeqs(EnableMsgs(m.inst)) : Consume(p)
          \/ Consume(<<>>) /\ enabled' = enabled
      BY <1>1 DEF HandleEnabled
    <2>3. CASE Consume(<<>>) /\ enabled' = enabled
      BY <2>1, <2>3, LeakDropped
    <2>4. CASE /\ enabled' = enabled \cup {Obj(m.inst)}
               /\ \E p \in SetToSeqs(EnableMsgs(m.inst)) : Consume(p)
      <3> DEFINE i == m.inst
      <3>1. PICK p \in SetToSeqs(EnableMsgs(i)) : Consume(p)
        BY <2>4
      <3>2. ASSUME NEW j, NEW t, j # i \/ t \notin EnableDeps[i]
            PROVE  Sub(t, j) \notin EnableMsgs(i)
        BY <3>2, MessagesDiffer DEF EnableMsgs
      <3>3. i \in Instances /\ EnableMsgs(i) \in SUBSET PluginMsgs
        BY <2>1, EmittedType
      <3>4. p \in Seq(FairMsgs) /\ \A j, t : j # i \/ t \notin EnableDeps[i] => Closes(p, j, t)
        BY <3>1, <3>2, <3>3, PushedEffect
      <3>5. /\ openTopics' = openTopics \cup {<<Obj(i), u>> : u \in {}}
            /\ enabled' = enabled \cup {Obj(i)}
        BY <2>1, <2>4
      <3>6. m.type # "UNSUBSCRIBE"
        BY <2>1
      <3> HIDE DEF i
      <3>7. {} \in SUBSET Topics /\ \A u \in {} : InstanceOf[u] = i
        OBVIOUS
      <3> QED  BY <2>1, <3>1, <3>3, <3>4, <3>5, <3>6, <3>7, LeakEnables
    <2> QED  BY <2>2, <2>3, <2>4
  <1>2. CASE HandleDisabled
    <2>1. /\ recvQueue # <<>> /\ m.type # "UNSUBSCRIBE" /\ m.inst \in Instances
          /\ UNCHANGED <<subs, openTopics>>
      BY <1>2, MessageFields DEF HandleDisabled, Handling, TypeOK
    <2>2. \/ /\ enabled' = enabled \ {Obj(m.inst)}
             /\ \E p \in SetToSeqs(DisableMsgs(m.inst, OpenOf(Obj(m.inst)))) : Consume(p)
          \/ Consume(<<>>) /\ enabled' = enabled
      BY <1>2 DEF HandleDisabled, Disabled
    <2>3. CASE Consume(<<>>) /\ enabled' = enabled
      BY <2>1, <2>3, LeakDropped
    <2>4. CASE /\ enabled' = enabled \ {Obj(m.inst)}
               /\ \E p \in SetToSeqs(DisableMsgs(m.inst, OpenOf(Obj(m.inst)))) : Consume(p)
      <3> DEFINE i == m.inst
      <3>1. PICK p \in SetToSeqs(DisableMsgs(i, OpenOf(Obj(i)))) : Consume(p)
        BY <2>4
      <3>2. OpenOf(Obj(i)) \in SUBSET Topics
        BY DEF OpenOf
      <3>3. p \in Seq(FairMsgs)
        BY <2>1, <3>1, <3>2, DownEffect
      <3>4. Consume(<<>> \o p)
        <4>1. <<>> \o p = p
          BY <3>3, ConcatEmptySeq
        <4> QED  BY <3>1, <4>1
      <3> HIDE DEF i
      <3>5. i \in Instances /\ enabled' = enabled \ {Obj(i)}
        BY <2>1, <2>4 DEF i
      <3> QED  BY <2>1, <3>1, <3>4, <3>5, EmptyEffect, LeakDisables
    <2> QED  BY <2>2, <2>3, <2>4
  <1>3. CASE SubscribeOpenFails
    <2> DEFINE i == InstanceOf[m.topic]
    <2>1. /\ recvQueue # <<>> /\ m.type = "SUBSCRIBE" /\ enabled' = enabled \ {Obj(i)}
          /\ UNCHANGED <<subs, openTopics>>
      BY <1>3 DEF SubscribeOpenFails, Handling, Disabled
    <2>2. i \in Instances
      BY <2>1, HeadFair
    <2>3. PICK up \in SetToSeqs(EnableMsgs(i)) \cup {<<>>},
               down \in SetToSeqs(DisableMsgs(i, OpenOf(Obj(i)))) :
                 EnableIfNeeded(i, up) /\ Consume(up \o down)
      BY <1>3 DEF SubscribeOpenFails
    <2> HIDE DEF i
    <2>4. up \in Seq(FairMsgs) /\ \A j, t : j # i \/ t \notin EnableDeps[i] => Closes(up, j, t)
      BY <2>2, <2>3, UpEffect
    <2>5. m.type # "UNSUBSCRIBE"
      BY <2>1
    <2> QED  BY <2>1, <2>2, <2>3, <2>4, <2>5, LeakDisables
  <1>4. CASE SubscribeOpens
    <2> DEFINE u == m.topic
               i == InstanceOf[u]
    <2>1. /\ recvQueue # <<>> /\ m.type = "SUBSCRIBE" /\ enabled' = enabled \cup {Obj(i)}
          /\ openTopics' = openTopics \cup {<<Obj(i), u>>} /\ subs' = subs \cup {<<m.topic, m.who>>}
      BY <1>4 DEF SubscribeOpens, Handling
    <2>2. u \in Topics /\ i \in Instances
      BY <2>1, HeadFair
    <2>3. PICK up \in SetToSeqs(EnableMsgs(i)) \cup {<<>>}, opened \in SetToSeqs(OpenMsgs(u)) :
            EnableIfNeeded(i, up) /\ Consume(up \o opened)
      BY <1>4 DEF SubscribeOpens
    <2>4. {u} \in SUBSET Topics /\ \A x \in {u} : InstanceOf[x] = i
      BY <2>2
    <2> HIDE DEF u, i
    <2>5. /\ up \o opened \in Seq(FairMsgs)
          /\ \A j, t : j # i \/ (t \notin EnableDeps[i] /\ \A x \in {u} : t \notin OpenDeps[x])
                         => Closes(up \o opened, j, t)
      BY <2>2, <2>3, <2>4, UpEffect, DownEffect, TwoEffects
    <2>6. openTopics' = openTopics \cup {<<Obj(i), x>> : x \in {u}}
      BY <2>1
    <2>7. m.type # "UNSUBSCRIBE"
      BY <2>1
    <2> QED  BY <2>1, <2>2, <2>3, <2>4, <2>5, <2>6, <2>7, LeakEnables
  <1>5. CASE SubscribeJoins
    <2> DEFINE i == InstanceOf[m.topic]
    <2>1. /\ recvQueue # <<>> /\ m.type = "SUBSCRIBE" /\ enabled' = enabled \cup {Obj(i)}
          /\ openTopics' = openTopics /\ subs' = subs \cup {<<m.topic, m.who>>}
      BY <1>5 DEF SubscribeJoins, Handling
    <2>2. i \in Instances
      BY <2>1, HeadFair
    <2>3. PICK up : EnableIfNeeded(i, up) /\ Consume(up)
      BY <1>5 DEF SubscribeJoins
    <2> HIDE DEF i
    <2>4. up \in Seq(FairMsgs) /\ \A j, t : j # i \/ t \notin EnableDeps[i] => Closes(up, j, t)
      BY <2>2, <2>3, UpEffect
    <2>5. openTopics' = openTopics \cup {<<Obj(i), x>> : x \in {}} /\ m.type # "UNSUBSCRIBE"
      BY <2>1
    <2>6. {} \in SUBSET Topics /\ \A u \in {} : InstanceOf[u] = i
      OBVIOUS
    <2> QED  BY <2>1, <2>2, <2>3, <2>4, <2>5, <2>6, LeakEnables
  <1>6. CASE HandleUnsubscribe
    <2>1. recvQueue # <<>> /\ subs' = subs \ {<<m.topic, m.who>>}
      BY <1>6 DEF HandleUnsubscribe, Handling
    <2>2. PICK K : UpdateInstance(K)
      BY <1>6 DEF HandleUnsubscribe
    <2>3. ASSUME NEW i \in Instances, NEW t \in Topics, <<t, i>> \in subs'
          PROVE  <<t, i>> \in subs /\ m # Unsub(t, i)
      <3>1. Unsub(t, i).topic = t /\ Unsub(t, i).who = i
        BY DEF Unsub
      <3> QED  BY <2>1, <2>3, <3>1
    <2> QED  BY <2>1, <2>2, <2>3, LeakUpdates
  <1>7. CASE HandleUnsubscribeSdk
    <2>1. recvQueue # <<>> /\ m.type = "UNSUBSCRIBE_SDK"
      BY <1>7 DEF HandleUnsubscribeSdk, Handling
    <2>2. \/ Consume(<<>>) /\ UNCHANGED <<enabled, openTopics, subs>>
          \/ subs' \subseteq subs /\ \E K : UpdateInstance(K)
      BY <1>7 DEF HandleUnsubscribeSdk, topicVars
    <2>3. \A i, t : m # Unsub(t, i)
      BY <2>1, MessagesDiffer
    <2>4. m.type # "UNSUBSCRIBE"
      BY <2>1
    <2> QED  BY <2>1, <2>2, <2>3, <2>4, LeakDropped, LeakUpdates
  <1>8. CASE HandlePublish
    <2> DEFINE i == m.inst
               u == m.topic
    <2>1. /\ recvQueue # <<>> /\ m.type = "PUBLISH" /\ enabled' = enabled \cup {Obj(i)}
          /\ subs' = subs
      BY <1>8 DEF HandlePublish, Handling
    <2>2. i \in Instances /\ u \in Topics \cup {NoTopic} /\ (u # NoTopic => i = InstanceOf[u])
      BY <2>1, HeadFair, MessageFields
    <2>3. PICK up :
            /\ EnableIfNeeded(i, up)
            /\ \/ /\ u # NoTopic /\ openTopics' = openTopics \cup {<<Obj(i), u>>}
                  /\ \E p \in SetToSeqs(OpenMsgs(u)) : Consume(up \o p)
               \/ Consume(up) /\ openTopics' = openTopics
      BY <1>8 DEF HandlePublish
    <2>4. m.type # "UNSUBSCRIBE"
      BY <2>1
    <2> HIDE DEF i, u
    <2>5. up \in Seq(FairMsgs) /\ \A j, t : j # i \/ t \notin EnableDeps[i] => Closes(up, j, t)
      BY <2>2, <2>3, UpEffect
    <2>6. CASE Consume(up) /\ openTopics' = openTopics
      <3>1. openTopics' = openTopics \cup {<<Obj(i), x>> : x \in {}}
        BY <2>6
      <3>2. {} \in SUBSET Topics /\ \A x \in {} : InstanceOf[x] = i
        OBVIOUS
      <3> QED  BY <2>1, <2>2, <2>4, <2>5, <2>6, <3>1, <3>2, LeakEnables
    <2>7. CASE /\ u # NoTopic /\ openTopics' = openTopics \cup {<<Obj(i), u>>}
               /\ \E p \in SetToSeqs(OpenMsgs(u)) : Consume(up \o p)
      <3>1. PICK p \in SetToSeqs(OpenMsgs(u)) : Consume(up \o p)
        BY <2>7
      <3>2. u \in Topics /\ {u} \in SUBSET Topics /\ \A x \in {u} : InstanceOf[x] = i
        BY <2>2, <2>7
      <3>3. /\ up \o p \in Seq(FairMsgs)
            /\ \A j, t : j # i \/ (t \notin EnableDeps[i] /\ \A x \in {u} : t \notin OpenDeps[x])
                           => Closes(up \o p, j, t)
        BY <2>5, <3>1, <3>2, DownEffect, TwoEffects
      <3>4. openTopics' = openTopics \cup {<<Obj(i), x>> : x \in {u}}
        BY <2>7
      <3> QED  BY <2>1, <2>2, <2>4, <3>1, <3>2, <3>3, <3>4, LeakEnables
    <2> QED  BY <2>3, <2>6, <2>7
  <1>9. CASE SubscribeRefused \/ PublishRefused \/ HandlePublishData \/ HandleShutdown
    <2>1. /\ recvQueue # <<>> /\ Consume(<<>>) /\ UNCHANGED <<enabled, openTopics, subs>>
          /\ m.type # "UNSUBSCRIBE"
      BY <1>9 DEF SubscribeRefused, PublishRefused, HandlePublishData, HandleShutdown,
                  Handling, topicVars
    <2> QED  BY <2>1, LeakDropped
  <1>10. CASE UpdateCrashes \/ PublishDataCrashes \/ QueueDrained
    BY <1>10, LeakStutter DEF UpdateCrashes, PublishDataCrashes, QueueDrained, Crash, topicVars
  <1> QED  BY <1>1, <1>2, <1>3, <1>4, <1>5, <1>6, <1>7, <1>8, <1>9, <1>10 DEF HandleMessage

\* Neither does running an instance, once or again and again.
LEMMA LeakAfterSchedule ==
  ASSUME TypeOK, LeakInv, Schedule PROVE LeakInv'
  <1>1. ASSUME NEW k \in DOMAIN scheduleQueue, ScheduleRun(k) PROVE LeakInv'
    <2> DEFINE o == scheduleQueue[k].obj
    <2>1. PICK T \in SUBSET LiveOf(o) :
            \E s \in SetToSeqs({Data(t) : t \in T}) : recvQueue' = recvQueue \o s
      BY <1>1 DEF ScheduleRun
    <2>2. PICK s \in SetToSeqs({Data(t) : t \in T}) : recvQueue' = recvQueue \o s
      BY <2>1
    <2>3. T \in SUBSET Topics
      BY DEF LiveOf
    <2>4. s \in Seq(FairMsgs) /\ \A i, t : Closes(s, i, t)
      BY <2>2, <2>3, DownEffect
    <2>5. UNCHANGED <<enabled, openTopics, subs>>
      BY <1>1 DEF ScheduleRun, topicVars
    <2>6. OpenOwn' /\ \A i, t : Needs(i, t)' = Needs(i, t)
      BY <2>5 DEF LeakInv, OpenOwn, Needs, OpenOf
    <2> QED  BY <2>2, <2>4, <2>5, <2>6, LeakPushed
  <1>2. ASSUME NEW k \in DOMAIN scheduleQueue, ScheduleRunOnce(k) PROVE LeakInv'
    <2> DEFINE o == scheduleQueue[k].obj
    <2>1. /\ enabled' = enabled \ {o} /\ UNCHANGED <<openTopics, subs>>
          /\ \E T \in SUBSET LiveOf(o) :
             \E s \in SetToSeqs({Data(t) : t \in T}) :
             \E down \in SetToSeqs(DisableMsgs(o[1], OpenOf(o))) :
               recvQueue' = recvQueue \o s \o down
      BY <1>2 DEF ScheduleRunOnce, Disabled
    <2>2. OpenOf(o) \in SUBSET Topics /\ o[1] \in Instances
      BY EntryType DEF OpenOf
    <2> HIDE DEF o
    <2>0. PICK T \in SUBSET LiveOf(o) :
            \E s \in SetToSeqs({Data(t) : t \in T}) :
            \E down \in SetToSeqs(DisableMsgs(o[1], OpenOf(o))) :
              recvQueue' = recvQueue \o s \o down
      BY <2>1
    <2>3. PICK s \in SetToSeqs({Data(t) : t \in T}),
               down \in SetToSeqs(DisableMsgs(o[1], OpenOf(o))) :
                 recvQueue' = recvQueue \o s \o down
      BY <2>0
    <2>4. T \in SUBSET Topics
      BY DEF LiveOf
    <2>5. /\ s \in Seq(FairMsgs) /\ \A i, t : Closes(s, i, t)
          /\ down \in Seq(FairMsgs) /\ \A i, t : Closes(down, i, t)
          /\ \A i, t : Unsub(t, i) \in DisableMsgs(o[1], OpenOf(o)) => Ends(down, i, t)
      BY <2>2, <2>3, <2>4, DownEffect
    <2>6. /\ s \o down \in Seq(FairMsgs) /\ \A i, t : Closes(s \o down, i, t)
          /\ \A i, t : Ends(down, i, t) => Ends(s \o down, i, t)
      BY <2>5, TwoEffects
    <2>7. recvQueue' = recvQueue \o (s \o down)
      BY <2>3, <2>5, ConcatAssociative DEF LeakInv
    <2>8. ASSUME NEW i \in Instances, NEW t \in Topics, Needs(i, t), ~Needs(i, t)'
          PROVE  Ends(s \o down, i, t)
      BY <2>1, <2>5, <2>6, <2>8, DisableEnds
    <2>9. OpenOwn'
      BY <2>1 DEF LeakInv, OpenOwn
    <2> QED  BY <2>1, <2>6, <2>7, <2>8, <2>9, LeakPushed
  <1>3. CASE \/ ScheduleDone
             \/ \E k \in DOMAIN scheduleQueue : ScheduleSkip(k) \/ ScheduleCrashes(k)
    <2>1. UNCHANGED <<recvQueue, subs, enabled, openTopics>>
      BY <1>3 DEF ScheduleDone, ScheduleSkip, ScheduleCrashes, Crash, topicVars
    <2> QED  BY <2>1, LeakStutter
  <1> QED  BY <1>1, <1>2, <1>3 DEF Schedule

\* Neither do the main thread and the data thread.
LEMMA LeakAfterEnvironment ==
  ASSUME TypeOK, LeakInv, Environment PROVE LeakInv'
  <1>1. ASSUME NEW m \in Requests, Post(m) PROVE LeakInv'
    <2>1. m \in FairMsgs
      BY NamesAssumption DEF Requests, FairMsgs
    <2>2. <<m>> \in Seq(FairMsgs) /\ Len(<<m>>) = 1 /\ <<m>>[1] = m
      BY <2>1
    <2>3. recvQueue' = recvQueue \o <<m>>
      BY <1>1, <2>1, AppendIsConcat DEF Post, LeakInv
    <2>4. \A i, t : m # Sub(t, i)
      <3>1. m.from = "main"
        BY DEF Requests
      <3>2. \A i, t : Sub(t, i).from = "plugin"
        BY DEF Sub
      <3> QED  BY <3>1, <3>2
    <2>5. \A i, t : Closes(<<m>>, i, t)
      <3>1. \A k \in 1..Len(<<m>>) : <<m>>[k] = m
        BY <2>2
      <3> QED  BY <2>4, <3>1 DEF Closes
    <2>6. UNCHANGED <<enabled, openTopics, subs>>
      BY <1>1 DEF Post, topicVars
    <2>7. OpenOwn' /\ \A i, t : Needs(i, t)' = Needs(i, t)
      BY <2>6 DEF LeakInv, OpenOwn, Needs, OpenOf
    <2> QED  BY <2>2, <2>3, <2>5, <2>6, <2>7, LeakPushed
  <1>2. ASSUME NEW i \in Instances, ExitDisable(i) PROVE LeakInv'
    <2>1. PICK p \in SetToSeqs(DisableMsgs(i, OpenOf(Obj(i)))) : recvQueue' = recvQueue \o p
      BY <1>2 DEF ExitDisable
    <2>2. OpenOf(Obj(i)) \in SUBSET Topics
      BY DEF OpenOf
    <2>3. p \in Seq(FairMsgs) /\ \A j, t : Closes(p, j, t)
      BY <2>1, <2>2, DownEffect
    <2>4. UNCHANGED <<enabled, openTopics, subs>>
      BY <1>2 DEF ExitDisable
    <2>5. OpenOwn' /\ \A j, t : Needs(j, t)' = Needs(j, t)
      BY <2>4 DEF LeakInv, OpenOwn, Needs, OpenOf
    <2> QED  BY <2>1, <2>3, <2>4, <2>5, LeakPushed
  <1>3. CASE Awake \/ TakeData \/ \E i \in Instances : AddInstance(i) \/ DeleteInstance(i)
    <2>1. UNCHANGED <<recvQueue, subs, enabled, openTopics>>
      BY <1>3 DEF Awake, TakeData, AddInstance, DeleteInstance, topicVars
    <2> QED  BY <2>1, LeakStutter
  <1> QED  BY <1>1, <1>2, <1>3 DEF Environment

\* Every step keeps subscriptions from leaking.
LEMMA StepLeak == TypeOK /\ LeakInv /\ [Next]_vars => LeakInv'
  <1>1. ASSUME LeakInv, Tick \/ UNCHANGED vars PROVE LeakInv'
    <2>1. UNCHANGED <<recvQueue, subs, enabled, openTopics>>
      BY <1>1 DEF Tick, vars, topicVars
    <2> QED  BY <1>1, <2>1, LeakStutter
  <1> QED  BY <1>1, LeakAfterMessage, LeakAfterSchedule, LeakAfterEnvironment
           DEF Next, RunThread

\* Nothing is subscribed or asked for at first.
LEMMA InitLeak == Init => LeakInv
  <1> SUFFICES ASSUME Init PROVE LeakInv
    OBVIOUS
  <1>1. recvQueue = <<>> /\ subs = {} /\ openTopics = {}
    BY DEF Init
  <1> QED  BY <1>1, EmptyEffect DEF LeakInv, NothingLeaks, Balanced, OpenOwn

\* LeakInv says of the queue what NoLeakedSubscription says.
LEMMA LeakImplies == TypeOK /\ LeakInv => NoLeakedSubscription
  <1> SUFFICES ASSUME TypeOK, LeakInv, NEW i \in Instances, NEW t \in Topics, ~Needs(i, t)
               PROVE  /\ <<t, i>> \in subs => UnsubscribeAfter(0, i, t)
                      /\ \A k \in DOMAIN recvQueue :
                           recvQueue[k] = Sub(t, i) => UnsubscribeAfter(k, i, t)
    BY DEF NoLeakedSubscription
  <1>1. DOMAIN recvQueue = 1..Len(recvQueue) /\ Len(recvQueue) \in Nat
    BY LenProperties DEF TypeOK
  <1>2. Balanced(recvQueue, <<t, i>> \in subs, i, t)
    BY DEF LeakInv, NothingLeaks
  <1>3. ASSUME <<t, i>> \in subs PROVE UnsubscribeAfter(0, i, t)
    <2>1. PICK j \in 1..Len(recvQueue) : recvQueue[j] = Unsub(t, i)
      BY <1>2, <1>3 DEF Balanced, Ends
    <2>2. j > 0
      BY <1>1, <2>1
    <2> QED  BY <1>1, <2>1, <2>2 DEF UnsubscribeAfter
  <1>4. \A k \in DOMAIN recvQueue : recvQueue[k] = Sub(t, i) => UnsubscribeAfter(k, i, t)
    BY <1>1, <1>2 DEF Balanced, Closes, EndsAfter, UnsubscribeAfter
  <1> QED  BY <1>3, <1>4

\* Whatever a plugin subscribes to, it unsubscribes when it is disabled or the
\* topic it did so for is closed, and the UNSUBSCRIBE is handled after it.
THEOREM SubscriptionsEnd == Spec => []NoLeakedSubscription
  BY InitLeak, StepLeak, LeakImplies, TypeCorrect, PTL DEF Spec
=============================================================================
