----------------------- MODULE CommandCollectorProofs -----------------------
(***************************************************************************)
(* The command collector, for any number of OpenTopic calls and any number *)
(* of lines: type correctness, and the four safety properties that the run *)
(* command_collector checks.                                               *)
(***************************************************************************)
EXTENDS CommandCollector, TLAPS

\* A topic was opened once for every closing thread that waits, once more when
\* it is open, and once more when OpenTopic waits for topicMutex.
OpenedBefore ==
  /\ waiting + (IF open \/ sched = "opening" THEN 1 ELSE 0) <= opens
  /\ sched = "opening" => ~open

\* isRunning and topicMutex say which threads there can be.
ThreadsInv ==
  /\ fault # "terminate"
  /\ isRunning => holder = "free"
  /\ isRunning => open \/ waiting > 0
  /\ ~isRunning /\ holder = "free" => collect = "none" /\ publish = "none"
  /\ holder = "publish" => collect = "none"
  /\ isRunning => publish \in {"check", "fill", "sleep"}
  /\ isRunning => collect \in {"start", "loop", "fgets"} \/ gone

\* What the collecting thread leaves behind when it ends.
LeavesNothing ==
  Alive =>
    /\ collect \in {"none", "start", "close", "ended"} => child = "none"
    /\ collect \in {"none", "start", "ended"} => datas = 0
    /\ child = "ended" => gone
    /\ strays > 0 => failed

\* An open topic that overtook no one has no closing thread to fear.
UndisturbedInv == open /\ ~overtaken => isRunning /\ waiting = 0

CollectorInv ==
  OpenedBefore /\ ThreadsInv /\ LeavesNothing /\ UndisturbedInv /\ NewsIsSeen

\* The parts of TypeOK.
CountersTyped == waiting \in 0..MaxOpens /\ datas \in 0..MaxLines /\ opens \in 0..MaxOpens /\ strays \in Nat
FlagsTyped ==
  /\ open \in BOOLEAN /\ isRunning \in BOOLEAN /\ hasNewData \in BOOLEAN
  /\ overtaken \in BOOLEAN /\ failed \in BOOLEAN /\ gone \in BOOLEAN /\ dropped \in BOOLEAN
ThreadsTyped ==
  /\ sched \in {"idle", "opening"} /\ holder \in {"free", "collect", "publish"}
  /\ collect \in {"none", "start", "loop", "fgets", "sleep", "close", "ended"}
  /\ publish \in {"none", "check", "fill", "sleep", "ended"}
  /\ child \in {"none", "alive", "ended"}
  /\ fault \in {"none", "terminate", "undefined"}

\* Every reachable state is well typed and in the invariant: no more closing
\* threads wait than there were OpenTopics, and the threads, the command and the
\* lines of a topic are those that isRunning and topicMutex allow.
THEOREM CollectorInvariant == Spec => [](TypeOK /\ CollectorInv)
<1>1. Init => TypeOK /\ CollectorInv
<2> SUFFICES ASSUME Init PROVE TypeOK /\ CollectorInv
  OBVIOUS
<2>1. CountersTyped
  BY CollectorBoundsAssumption DEF Init, CountersTyped
<2>2. FlagsTyped /\ ThreadsTyped
  BY DEF Init, FlagsTyped, ThreadsTyped
<2>3. OpenedBefore /\ ThreadsInv
  BY DEF Init, OpenedBefore, ThreadsInv
<2>4. LeavesNothing /\ UndisturbedInv /\ NewsIsSeen
  BY DEF Init, LeavesNothing, UndisturbedInv, NewsIsSeen
<2> QED
  BY <2>1, <2>2, <2>3, <2>4 DEF TypeOK, CountersTyped, FlagsTyped, ThreadsTyped, CollectorInv
<1>2. TypeOK /\ CollectorInv /\ [Next]_vars => TypeOK' /\ CollectorInv'
<2> SUFFICES ASSUME TypeOK, CollectorInv, [Next]_vars PROVE TypeOK' /\ CollectorInv'
  OBVIOUS
<2> USE CollectorBoundsAssumption DEF CollectorInv
<2>1. CASE OpenTopic
  <3>1. CountersTyped'
    BY <2>1 DEF OpenTopic, notes, CountersTyped, TypeOK, OpenedBefore
  <3>2. FlagsTyped'
    BY <2>1 DEF OpenTopic, notes, FlagsTyped, TypeOK
  <3>3. ThreadsTyped'
    BY <2>1 DEF OpenTopic, notes, ThreadsTyped, TypeOK
  <3>4. OpenedBefore'
    BY <2>1 DEF OpenTopic, notes, OpenedBefore, TypeOK
  <3>5. ThreadsInv'
    BY <2>1 DEF OpenTopic, notes, ThreadsInv, TypeOK, UndisturbedInv, LeavesNothing, Alive
  <3>6. LeavesNothing'
    BY <2>1 DEF OpenTopic, notes, LeavesNothing, TypeOK, ThreadsInv, Alive
  <3>7. UndisturbedInv'
    BY <2>1 DEF OpenTopic, notes, UndisturbedInv, TypeOK, ThreadsInv
  <3>8. NewsIsSeen'
    BY <2>1 DEF OpenTopic, notes, NewsIsSeen, TypeOK, ThreadsInv, LeavesNothing, Alive
  <3> QED
    BY <3>1, <3>2, <3>3, <3>4, <3>5, <3>6, <3>7, <3>8
         DEF TypeOK, CountersTyped, FlagsTyped, ThreadsTyped
<2>2. CASE OpenTopicLocked
  <3>1. CountersTyped'
    BY <2>2 DEF OpenTopicLocked, AlreadyRuns, CountersTyped, TypeOK, OpenedBefore
  <3>2. FlagsTyped'
    <4>1. overtaken' \in BOOLEAN
      <5>1. overtaken' = (waiting > 0)
        BY <2>2 DEF OpenTopicLocked
      <5>2. (waiting > 0) \in BOOLEAN
        BY DEF TypeOK
      <5> QED
        BY <5>1, <5>2, Zenon
    <4>2. open' \in BOOLEAN /\ isRunning' \in BOOLEAN /\ hasNewData' \in BOOLEAN
      BY <2>2 DEF OpenTopicLocked, TypeOK
    <4>3. failed' \in BOOLEAN /\ gone' \in BOOLEAN /\ dropped' \in BOOLEAN
      BY <2>2 DEF OpenTopicLocked, TypeOK
    <4> QED
      BY <4>1, <4>2, <4>3 DEF FlagsTyped
  <3>3. ThreadsTyped'
    BY <2>2 DEF OpenTopicLocked, AlreadyRuns, ThreadsTyped, TypeOK
  <3>4. OpenedBefore'
    BY <2>2 DEF OpenTopicLocked, AlreadyRuns, OpenedBefore, TypeOK
  <3>5. ThreadsInv'
    BY <2>2 DEF OpenTopicLocked, AlreadyRuns, ThreadsInv, TypeOK, UndisturbedInv, LeavesNothing,
       Alive
  <3>6. LeavesNothing'
    BY <2>2 DEF OpenTopicLocked, AlreadyRuns, LeavesNothing, TypeOK, ThreadsInv, Alive
  <3>7. UndisturbedInv'
    <4>1. CASE waiting > 0
      <5>1. overtaken'
        BY <2>2, <4>1, Zenon DEF OpenTopicLocked
      <5> QED
        BY <5>1 DEF UndisturbedInv
    <4>2. CASE ~(waiting > 0)
      BY <2>2, <4>2 DEF OpenTopicLocked, UndisturbedInv, TypeOK
    <4> QED
      BY <4>1, <4>2
  <3>8. NewsIsSeen'
    BY <2>2 DEF OpenTopicLocked, AlreadyRuns, NewsIsSeen, TypeOK, ThreadsInv, LeavesNothing,
       Alive
  <3> QED
    BY <3>1, <3>2, <3>3, <3>4, <3>5, <3>6, <3>7, <3>8
         DEF TypeOK, CountersTyped, FlagsTyped, ThreadsTyped
<2>3. CASE CloseTopic
  <3>1. CountersTyped'
    BY <2>3 DEF CloseTopic, notes, CountersTyped, TypeOK, OpenedBefore
  <3>2. FlagsTyped'
    BY <2>3 DEF CloseTopic, notes, FlagsTyped, TypeOK
  <3>3. ThreadsTyped'
    BY <2>3 DEF CloseTopic, notes, ThreadsTyped, TypeOK
  <3>4. OpenedBefore'
    BY <2>3 DEF CloseTopic, notes, OpenedBefore, TypeOK
  <3>5. ThreadsInv'
    BY <2>3 DEF CloseTopic, notes, ThreadsInv, TypeOK, UndisturbedInv, LeavesNothing, Alive
  <3>6. LeavesNothing'
    BY <2>3 DEF CloseTopic, notes, LeavesNothing, TypeOK, ThreadsInv, Alive
  <3>7. UndisturbedInv'
    BY <2>3 DEF CloseTopic, notes, UndisturbedInv, TypeOK, ThreadsInv
  <3>8. NewsIsSeen'
    BY <2>3 DEF CloseTopic, notes, NewsIsSeen, TypeOK, ThreadsInv, LeavesNothing, Alive
  <3> QED
    BY <3>1, <3>2, <3>3, <3>4, <3>5, <3>6, <3>7, <3>8
         DEF TypeOK, CountersTyped, FlagsTyped, ThreadsTyped
<2>4. CASE CloserLocks
  <3>1. CountersTyped'
    BY <2>4 DEF CloserLocks, notes, CountersTyped, TypeOK, OpenedBefore
  <3>2. FlagsTyped'
    BY <2>4 DEF CloserLocks, notes, FlagsTyped, TypeOK
  <3>3. ThreadsTyped'
    BY <2>4 DEF CloserLocks, notes, ThreadsTyped, TypeOK
  <3>4. OpenedBefore'
    BY <2>4 DEF CloserLocks, notes, OpenedBefore, TypeOK
  <3>5. ThreadsInv'
    BY <2>4 DEF CloserLocks, notes, ThreadsInv, TypeOK, UndisturbedInv, LeavesNothing, Alive
  <3>6. LeavesNothing'
    BY <2>4 DEF CloserLocks, notes, LeavesNothing, TypeOK, ThreadsInv, Alive
  <3>7. UndisturbedInv'
    BY <2>4 DEF CloserLocks, notes, UndisturbedInv, TypeOK, ThreadsInv
  <3>8. NewsIsSeen'
    BY <2>4 DEF CloserLocks, notes, NewsIsSeen, TypeOK, ThreadsInv, LeavesNothing, Alive
  <3> QED
    BY <3>1, <3>2, <3>3, <3>4, <3>5, <3>6, <3>7, <3>8
         DEF TypeOK, CountersTyped, FlagsTyped, ThreadsTyped
<2>5. CASE JoinsCollect
  <3>1. CountersTyped'
    BY <2>5 DEF JoinsCollect, notes, CountersTyped, TypeOK, OpenedBefore
  <3>2. FlagsTyped'
    BY <2>5 DEF JoinsCollect, notes, FlagsTyped, TypeOK
  <3>3. ThreadsTyped'
    BY <2>5 DEF JoinsCollect, notes, ThreadsTyped, TypeOK
  <3>4. OpenedBefore'
    BY <2>5 DEF JoinsCollect, notes, OpenedBefore, TypeOK
  <3>5. ThreadsInv'
    BY <2>5 DEF JoinsCollect, notes, ThreadsInv, TypeOK, UndisturbedInv, LeavesNothing, Alive
  <3>6. LeavesNothing'
    BY <2>5 DEF JoinsCollect, notes, LeavesNothing, TypeOK, ThreadsInv, Alive
  <3>7. UndisturbedInv'
    BY <2>5 DEF JoinsCollect, notes, UndisturbedInv, TypeOK, ThreadsInv
  <3>8. NewsIsSeen'
    BY <2>5 DEF JoinsCollect, notes, NewsIsSeen, TypeOK, ThreadsInv, LeavesNothing, Alive
  <3> QED
    BY <3>1, <3>2, <3>3, <3>4, <3>5, <3>6, <3>7, <3>8
         DEF TypeOK, CountersTyped, FlagsTyped, ThreadsTyped
<2>6. CASE JoinsPublish
  <3>1. CountersTyped'
    BY <2>6 DEF JoinsPublish, notes, CountersTyped, TypeOK, OpenedBefore
  <3>2. FlagsTyped'
    BY <2>6 DEF JoinsPublish, notes, FlagsTyped, TypeOK
  <3>3. ThreadsTyped'
    BY <2>6 DEF JoinsPublish, notes, ThreadsTyped, TypeOK
  <3>4. OpenedBefore'
    BY <2>6 DEF JoinsPublish, notes, OpenedBefore, TypeOK
  <3>5. ThreadsInv'
    BY <2>6 DEF JoinsPublish, notes, ThreadsInv, TypeOK, UndisturbedInv, LeavesNothing, Alive
  <3>6. LeavesNothing'
    BY <2>6 DEF JoinsPublish, notes, LeavesNothing, TypeOK, ThreadsInv, Alive
  <3>7. UndisturbedInv'
    BY <2>6 DEF JoinsPublish, notes, UndisturbedInv, TypeOK, ThreadsInv
  <3>8. NewsIsSeen'
    BY <2>6 DEF JoinsPublish, notes, NewsIsSeen, TypeOK, ThreadsInv, LeavesNothing, Alive
  <3> QED
    BY <3>1, <3>2, <3>3, <3>4, <3>5, <3>6, <3>7, <3>8
         DEF TypeOK, CountersTyped, FlagsTyped, ThreadsTyped
<2>7. CASE Popen
  <3>1. CountersTyped'
    BY <2>7 DEF Popen, notes, CountersTyped, TypeOK, OpenedBefore
  <3>2. FlagsTyped'
    BY <2>7 DEF Popen, notes, FlagsTyped, TypeOK
  <3>3. ThreadsTyped'
    BY <2>7 DEF Popen, notes, ThreadsTyped, TypeOK
  <3>4. OpenedBefore'
    BY <2>7 DEF Popen, notes, OpenedBefore, TypeOK
  <3>5. ThreadsInv'
    BY <2>7 DEF Popen, notes, ThreadsInv, TypeOK, UndisturbedInv, LeavesNothing, Alive
  <3>6. LeavesNothing'
    BY <2>7 DEF Popen, notes, LeavesNothing, TypeOK, ThreadsInv, Alive
  <3>7. UndisturbedInv'
    BY <2>7 DEF Popen, notes, UndisturbedInv, TypeOK, ThreadsInv
  <3>8. NewsIsSeen'
    BY <2>7 DEF Popen, notes, NewsIsSeen, TypeOK, ThreadsInv, LeavesNothing, Alive
  <3> QED
    BY <3>1, <3>2, <3>3, <3>4, <3>5, <3>6, <3>7, <3>8
         DEF TypeOK, CountersTyped, FlagsTyped, ThreadsTyped
<2>8. CASE CollectLoop
  <3>1. CountersTyped'
    BY <2>8 DEF CollectLoop, notes, Collects, CountersTyped, TypeOK, OpenedBefore
  <3>2. FlagsTyped'
    BY <2>8 DEF CollectLoop, notes, Collects, FlagsTyped, TypeOK
  <3>3. ThreadsTyped'
    BY <2>8 DEF CollectLoop, notes, Collects, ThreadsTyped, TypeOK
  <3>4. OpenedBefore'
    BY <2>8 DEF CollectLoop, notes, Collects, OpenedBefore, TypeOK
  <3>5. ThreadsInv'
    BY <2>8 DEF CollectLoop, notes, Collects, ThreadsInv, TypeOK, UndisturbedInv, LeavesNothing, Alive
  <3>6. LeavesNothing'
    BY <2>8 DEF CollectLoop, notes, Collects, LeavesNothing, TypeOK, ThreadsInv, Alive
  <3>7. UndisturbedInv'
    BY <2>8 DEF CollectLoop, notes, Collects, UndisturbedInv, TypeOK, ThreadsInv
  <3>8. NewsIsSeen'
    BY <2>8 DEF CollectLoop, notes, Collects, NewsIsSeen, TypeOK, ThreadsInv, LeavesNothing, Alive
  <3> QED
    BY <3>1, <3>2, <3>3, <3>4, <3>5, <3>6, <3>7, <3>8
         DEF TypeOK, CountersTyped, FlagsTyped, ThreadsTyped
<2>9. CASE ParseLine
  <3>1. CountersTyped'
    BY <2>9 DEF ParseLine, notes, CountersTyped, TypeOK, OpenedBefore
  <3>2. FlagsTyped'
    BY <2>9 DEF ParseLine, notes, FlagsTyped, TypeOK
  <3>3. ThreadsTyped'
    BY <2>9 DEF ParseLine, notes, ThreadsTyped, TypeOK
  <3>4. OpenedBefore'
    BY <2>9 DEF ParseLine, notes, OpenedBefore, TypeOK
  <3>5. ThreadsInv'
    BY <2>9 DEF ParseLine, notes, ThreadsInv, TypeOK, UndisturbedInv, LeavesNothing, Alive
  <3>6. LeavesNothing'
    BY <2>9 DEF ParseLine, notes, LeavesNothing, TypeOK, ThreadsInv, Alive
  <3>7. UndisturbedInv'
    BY <2>9 DEF ParseLine, notes, UndisturbedInv, TypeOK, ThreadsInv
  <3>8. NewsIsSeen'
    BY <2>9 DEF ParseLine, notes, NewsIsSeen, TypeOK, ThreadsInv, LeavesNothing, Alive
  <3> QED
    BY <3>1, <3>2, <3>3, <3>4, <3>5, <3>6, <3>7, <3>8
         DEF TypeOK, CountersTyped, FlagsTyped, ThreadsTyped
<2>10. CASE ReadsEnd
  <3>1. CountersTyped'
    BY <2>10 DEF ReadsEnd, notes, StaysOpen, CountersTyped, TypeOK, OpenedBefore
  <3>2. FlagsTyped'
    BY <2>10 DEF ReadsEnd, notes, StaysOpen, FlagsTyped, TypeOK
  <3>3. ThreadsTyped'
    BY <2>10 DEF ReadsEnd, notes, StaysOpen, ThreadsTyped, TypeOK
  <3>4. OpenedBefore'
    BY <2>10 DEF ReadsEnd, notes, StaysOpen, OpenedBefore, TypeOK
  <3>5. ThreadsInv'
    BY <2>10 DEF ReadsEnd, notes, StaysOpen, ThreadsInv, TypeOK, UndisturbedInv, LeavesNothing, Alive
  <3>6. LeavesNothing'
    BY <2>10 DEF ReadsEnd, notes, StaysOpen, LeavesNothing, TypeOK, ThreadsInv, Alive
  <3>7. UndisturbedInv'
    BY <2>10 DEF ReadsEnd, notes, StaysOpen, UndisturbedInv, TypeOK, ThreadsInv
  <3>8. NewsIsSeen'
    BY <2>10 DEF ReadsEnd, notes, StaysOpen, NewsIsSeen, TypeOK, ThreadsInv, LeavesNothing, Alive
  <3> QED
    BY <3>1, <3>2, <3>3, <3>4, <3>5, <3>6, <3>7, <3>8
         DEF TypeOK, CountersTyped, FlagsTyped, ThreadsTyped
<2>11. CASE Pclose
  <3>1. CountersTyped'
    BY <2>11 DEF Pclose, KillsChild, CountersTyped, TypeOK, OpenedBefore
  <3>2. FlagsTyped'
    BY <2>11 DEF Pclose, KillsChild, FlagsTyped, TypeOK
  <3>3. ThreadsTyped'
    BY <2>11 DEF Pclose, KillsChild, ThreadsTyped, TypeOK
  <3>4. OpenedBefore'
    BY <2>11 DEF Pclose, KillsChild, OpenedBefore, TypeOK
  <3>5. ThreadsInv'
    BY <2>11 DEF Pclose, KillsChild, ThreadsInv, TypeOK, UndisturbedInv, LeavesNothing, Alive
  <3>6. LeavesNothing'
    BY <2>11 DEF Pclose, KillsChild, LeavesNothing, TypeOK, ThreadsInv, Alive
  <3>7. UndisturbedInv'
    BY <2>11 DEF Pclose, KillsChild, UndisturbedInv, TypeOK, ThreadsInv
  <3>8. NewsIsSeen'
    BY <2>11 DEF Pclose, KillsChild, NewsIsSeen, TypeOK, ThreadsInv, LeavesNothing, Alive
  <3> QED
    BY <3>1, <3>2, <3>3, <3>4, <3>5, <3>6, <3>7, <3>8
         DEF TypeOK, CountersTyped, FlagsTyped, ThreadsTyped
<2>12. CASE Close
  <3>1. CountersTyped'
    BY <2>12 DEF Close, CountersTyped, TypeOK, OpenedBefore
  <3>2. FlagsTyped'
    BY <2>12 DEF Close, FlagsTyped, TypeOK
  <3>3. ThreadsTyped'
    BY <2>12 DEF Close, ThreadsTyped, TypeOK
  <3>4. OpenedBefore'
    BY <2>12 DEF Close, OpenedBefore, TypeOK
  <3>5. ThreadsInv'
    BY <2>12 DEF Close, ThreadsInv, TypeOK, UndisturbedInv, LeavesNothing, Alive
  <3>6. LeavesNothing'
    BY <2>12 DEF Close, LeavesNothing, TypeOK, ThreadsInv, Alive
  <3>7. UndisturbedInv'
    BY <2>12 DEF Close, UndisturbedInv, TypeOK, ThreadsInv
  <3>8. NewsIsSeen'
    BY <2>12 DEF Close, NewsIsSeen, TypeOK, ThreadsInv, LeavesNothing, Alive
  <3> QED
    BY <3>1, <3>2, <3>3, <3>4, <3>5, <3>6, <3>7, <3>8
         DEF TypeOK, CountersTyped, FlagsTyped, ThreadsTyped
<2>13. CASE ChildEnds
  <3>1. CountersTyped'
    BY <2>13 DEF ChildEnds, CountersTyped, TypeOK, OpenedBefore
  <3>2. FlagsTyped'
    BY <2>13 DEF ChildEnds, FlagsTyped, TypeOK
  <3>3. ThreadsTyped'
    BY <2>13 DEF ChildEnds, ThreadsTyped, TypeOK
  <3>4. OpenedBefore'
    BY <2>13 DEF ChildEnds, OpenedBefore, TypeOK
  <3>5. ThreadsInv'
    BY <2>13 DEF ChildEnds, ThreadsInv, TypeOK, UndisturbedInv, LeavesNothing, Alive
  <3>6. LeavesNothing'
    BY <2>13 DEF ChildEnds, LeavesNothing, TypeOK, ThreadsInv, Alive
  <3>7. UndisturbedInv'
    BY <2>13 DEF ChildEnds, UndisturbedInv, TypeOK, ThreadsInv
  <3>8. NewsIsSeen'
    BY <2>13 DEF ChildEnds, NewsIsSeen, TypeOK, ThreadsInv, LeavesNothing, Alive
  <3> QED
    BY <3>1, <3>2, <3>3, <3>4, <3>5, <3>6, <3>7, <3>8
         DEF TypeOK, CountersTyped, FlagsTyped, ThreadsTyped
<2>14. CASE PublishLoop
  <3>1. CountersTyped'
    BY <2>14 DEF PublishLoop, notes, CountersTyped, TypeOK, OpenedBefore
  <3>2. FlagsTyped'
    BY <2>14 DEF PublishLoop, notes, FlagsTyped, TypeOK
  <3>3. ThreadsTyped'
    BY <2>14 DEF PublishLoop, notes, ThreadsTyped, TypeOK
  <3>4. OpenedBefore'
    BY <2>14 DEF PublishLoop, notes, OpenedBefore, TypeOK
  <3>5. ThreadsInv'
    BY <2>14 DEF PublishLoop, notes, ThreadsInv, TypeOK, UndisturbedInv, LeavesNothing, Alive
  <3>6. LeavesNothing'
    BY <2>14 DEF PublishLoop, notes, LeavesNothing, TypeOK, ThreadsInv, Alive
  <3>7. UndisturbedInv'
    BY <2>14 DEF PublishLoop, notes, UndisturbedInv, TypeOK, ThreadsInv
  <3>8. NewsIsSeen'
    BY <2>14 DEF PublishLoop, notes, NewsIsSeen, TypeOK, ThreadsInv, LeavesNothing, Alive
  <3> QED
    BY <3>1, <3>2, <3>3, <3>4, <3>5, <3>6, <3>7, <3>8
         DEF TypeOK, CountersTyped, FlagsTyped, ThreadsTyped
<2>15. CASE FillDataStruct
  <3>1. CountersTyped'
    BY <2>15 DEF FillDataStruct, notes, TakesLines, CountersTyped, TypeOK, OpenedBefore
  <3>2. FlagsTyped'
    BY <2>15 DEF FillDataStruct, notes, TakesLines, FlagsTyped, TypeOK
  <3>3. ThreadsTyped'
    BY <2>15 DEF FillDataStruct, notes, TakesLines, ThreadsTyped, TypeOK
  <3>4. OpenedBefore'
    BY <2>15 DEF FillDataStruct, notes, TakesLines, OpenedBefore, TypeOK
  <3>5. ThreadsInv'
    BY <2>15 DEF FillDataStruct, notes, TakesLines, ThreadsInv, TypeOK, UndisturbedInv, LeavesNothing, Alive
  <3>6. LeavesNothing'
    BY <2>15 DEF FillDataStruct, notes, TakesLines, LeavesNothing, TypeOK, ThreadsInv, Alive
  <3>7. UndisturbedInv'
    BY <2>15 DEF FillDataStruct, notes, TakesLines, UndisturbedInv, TypeOK, ThreadsInv
  <3>8. NewsIsSeen'
    BY <2>15 DEF FillDataStruct, notes, TakesLines, NewsIsSeen, TypeOK, ThreadsInv, LeavesNothing,
       Alive
  <3> QED
    BY <3>1, <3>2, <3>3, <3>4, <3>5, <3>6, <3>7, <3>8
         DEF TypeOK, CountersTyped, FlagsTyped, ThreadsTyped
<2>16. CASE PublishWakes
  <3>1. CountersTyped'
    BY <2>16 DEF PublishWakes, notes, CountersTyped, TypeOK, OpenedBefore
  <3>2. FlagsTyped'
    BY <2>16 DEF PublishWakes, notes, FlagsTyped, TypeOK
  <3>3. ThreadsTyped'
    BY <2>16 DEF PublishWakes, notes, ThreadsTyped, TypeOK
  <3>4. OpenedBefore'
    BY <2>16 DEF PublishWakes, notes, OpenedBefore, TypeOK
  <3>5. ThreadsInv'
    BY <2>16 DEF PublishWakes, notes, ThreadsInv, TypeOK, UndisturbedInv, LeavesNothing, Alive
  <3>6. LeavesNothing'
    BY <2>16 DEF PublishWakes, notes, LeavesNothing, TypeOK, ThreadsInv, Alive
  <3>7. UndisturbedInv'
    BY <2>16 DEF PublishWakes, notes, UndisturbedInv, TypeOK, ThreadsInv
  <3>8. NewsIsSeen'
    BY <2>16 DEF PublishWakes, notes, NewsIsSeen, TypeOK, ThreadsInv, LeavesNothing, Alive
  <3> QED
    BY <3>1, <3>2, <3>3, <3>4, <3>5, <3>6, <3>7, <3>8
         DEF TypeOK, CountersTyped, FlagsTyped, ThreadsTyped
<2>17. CASE UNCHANGED vars
  BY <2>17 DEF vars, notes, TypeOK, OpenedBefore, ThreadsInv, LeavesNothing, UndisturbedInv,
     NewsIsSeen, Alive
<2>18. CASE StrayEnds
  <3>1. CountersTyped'
    BY <2>18 DEF StrayEnds, CountersTyped, TypeOK, OpenedBefore
  <3>2. FlagsTyped'
    BY <2>18 DEF StrayEnds, FlagsTyped, TypeOK
  <3>3. ThreadsTyped'
    BY <2>18 DEF StrayEnds, ThreadsTyped, TypeOK
  <3>4. OpenedBefore'
    BY <2>18 DEF StrayEnds, OpenedBefore, TypeOK
  <3>5. ThreadsInv'
    BY <2>18 DEF StrayEnds, ThreadsInv, TypeOK, UndisturbedInv, LeavesNothing, Alive
  <3>6. LeavesNothing'
    BY <2>18 DEF StrayEnds, LeavesNothing, TypeOK, ThreadsInv, Alive
  <3>7. UndisturbedInv'
    BY <2>18 DEF StrayEnds, UndisturbedInv, TypeOK, ThreadsInv
  <3>8. NewsIsSeen'
    BY <2>18 DEF StrayEnds, NewsIsSeen, TypeOK, ThreadsInv, LeavesNothing, Alive
  <3> QED
    BY <3>1, <3>2, <3>3, <3>4, <3>5, <3>6, <3>7, <3>8
         DEF TypeOK, CountersTyped, FlagsTyped, ThreadsTyped
<2> QED
  BY <2>1, <2>2, <2>3, <2>4, <2>5, <2>6, <2>7, <2>8, <2>9, <2>10, <2>11, <2>12, <2>13, <2>14,
     <2>15, <2>16, <2>17, <2>18
     DEF Next, Closer, Collector, Publisher
<1> QED
  BY <1>1, <1>2, PTL DEF Spec

\* Whatever OpenTopic and the closing threads do, OpenTopic never assigns to a
\* std::thread that is joinable.
THEOREM ThreadsAreJoined == Spec => []NoTerminate
<1>1. TypeOK /\ CollectorInv => NoTerminate
  BY DEF CollectorInv, ThreadsInv, NoTerminate
<1> QED
  BY <1>1, CollectorInvariant, PTL

\* Once its closing threads are done, no thread of the collector and no line is
\* left of a closed topic, and no command but one that a failing fdopen or fclose
\* left running.
THEOREM NothingIsLeft == Spec => []ClosedIsQuiet
<1>1. TypeOK /\ CollectorInv => ClosedIsQuiet
  BY DEF CollectorInv, TypeOK, ThreadsInv, LeavesNothing, ClosedIsQuiet, Alive
<1> QED
  BY <1>1, CollectorInvariant, PTL

\* An open topic has a publishing thread that runs and a collecting thread that
\* reads, unless its command could not be started or ended by itself, or its
\* OpenTopic ran before the closing thread of an earlier CloseTopic.
THEOREM OpenTopicIsCollected == Spec => []OpenRuns
<1>1. TypeOK /\ CollectorInv => OpenRuns
  BY DEF CollectorInv, ThreadsInv, UndisturbedInv, OpenRuns
<1> QED
  BY <1>1, CollectorInvariant, PTL

\* While a topic runs every stored line is flagged for the publishing thread, or
\* about to be taken by it, and Close throws stored lines away only when the
\* command ended by itself.
THEOREM NoLineIsForgotten == Spec => []NewsIsSeen
<1>1. TypeOK /\ CollectorInv => NewsIsSeen
  BY DEF CollectorInv
<1> QED
  BY <1>1, CollectorInvariant, PTL
=============================================================================
