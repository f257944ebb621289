-------------------------- MODULE CommandCollector --------------------------
(***************************************************************************)
(* The command collector, for one topic: a collecting thread that reads    *)
(* the output of a command (sar, iostat...) line by line and a publishing  *)
(* thread that hands the lines on.  OpenTopic runs on the scheduling       *)
(* thread; CloseTopic only starts a detached thread, which takes           *)
(* topicMutex, clears isRunning and joins the two threads.                 *)
(***************************************************************************)
EXTENDS Integers

CONSTANTS
  MaxOpens,   \* bound: calls of OpenTopic
  MaxLines    \* bound: lines in datas

ASSUME CollectorBoundsAssumption == MaxOpens \in Nat /\ MaxLines \in Nat \ {0}

VARIABLES
  sched,      \* the scheduling thread: "idle" or in OpenTopic
  open,       \* the topic is open for the scheduling thread
  waiting,    \* closing threads that have not had topicMutex
  holder,     \* "free", or what the closing thread that holds topicMutex joins
  isRunning, hasNewData,
  datas,      \* lines read and not published
  collect, publish, \* the threads; "none": not joinable
  child,      \* the command whose output is read: "none", "alive", "ended"
  strays,     \* commands that run on and that no one will signal
  fault,      \* how the process died: "none", "terminate", "undefined"
  opens,
  overtaken,  \* history: the last OpenTopic ran before the closing of an earlier one
  failed,     \* history: fdopen or fclose failed and left a command behind
  gone,       \* history: the command was not started, or ended by itself, since the last start
  dropped     \* history: lines of a running topic were thrown away since the last start

notes == <<strays, failed, gone, dropped>>
vars == <<sched, open, waiting, holder, isRunning, hasNewData, datas, collect, publish, child, fault,
          opens, overtaken, notes>>

Init ==
  /\ sched = "idle" /\ open = FALSE /\ waiting = 0 /\ holder = "free"
  /\ isRunning = FALSE /\ hasNewData = FALSE /\ datas = 0
  /\ collect = "none" /\ publish = "none" /\ child = "none"
  /\ fault = "none" /\ opens = 0 /\ overtaken = FALSE
  /\ strays = 0 /\ failed = FALSE /\ gone = FALSE /\ dropped = FALSE

Alive == fault = "none"

-----------------------------------------------------------------------------
(* The scheduling thread.  A topic whose arguments are refused by          *)
(* ValidateArgs changes nothing.                                           *)

OpenTopic ==
  /\ Alive /\ sched = "idle" /\ ~open /\ opens < MaxOpens
  /\ sched' = "opening" /\ opens' = opens + 1
  /\ UNCHANGED <<open, waiting, holder, isRunning, hasNewData, datas, collect, publish, child, fault,
                 overtaken, notes>>

\* Mutant: a collector that runs is started again.
NeverRuns == FALSE
AlreadyRuns == isRunning

\* To assign to a std::thread that is joinable ends the process.
OpenTopicLocked ==
  /\ Alive /\ sched = "opening" /\ holder = "free"
  /\ sched' = "idle" /\ open' = TRUE /\ isRunning' = TRUE
  /\ overtaken' = (waiting > 0)
  /\ \/ AlreadyRuns /\ UNCHANGED <<collect, publish, fault, gone, dropped>>
     \/ /\ ~AlreadyRuns
        /\ fault' = IF collect # "none" \/ publish # "none" THEN "terminate" ELSE fault
        /\ collect' = "start" /\ publish' = "check"
        /\ gone' = FALSE /\ dropped' = FALSE
  /\ UNCHANGED <<waiting, holder, hasNewData, datas, child, opens, strays, failed>>

CloseTopic ==
  /\ Alive /\ sched = "idle" /\ open
  /\ open' = FALSE /\ waiting' = waiting + 1
  /\ UNCHANGED <<sched, holder, isRunning, hasNewData, datas, collect, publish, child, fault, opens,
                 overtaken, notes>>

-----------------------------------------------------------------------------
(* A closing thread                                                        *)

CloserLocks ==
  /\ Alive /\ waiting > 0 /\ holder = "free"
  /\ waiting' = waiting - 1
  /\ isRunning' = FALSE
  /\ holder' = IF isRunning THEN "collect" ELSE "free"
  /\ UNCHANGED <<sched, open, hasNewData, datas, collect, publish, child, fault, opens, overtaken, notes>>

JoinsCollect ==
  /\ Alive /\ holder = "collect" /\ collect \in {"none", "ended"}
  /\ collect' = "none" /\ holder' = "publish"
  /\ UNCHANGED <<sched, open, waiting, isRunning, hasNewData, datas, publish, child, fault, opens,
                 overtaken, notes>>

JoinsPublish ==
  /\ Alive /\ holder = "publish" /\ publish \in {"none", "ended"}
  /\ publish' = "none" /\ holder' = "free"
  /\ UNCHANGED <<sched, open, waiting, isRunning, hasNewData, datas, collect, child, fault, opens,
                 overtaken, notes>>

-----------------------------------------------------------------------------
(* The collecting thread                                                   *)

\* Without a stream the thread returns and isRunning stays.  A fork that fails has
\* closed the descriptor that fdopen gets, so there is no stream either.  An fdopen
\* that fails after the fork leaves the command running: the thread returns before
\* Pclose.  A pipe that fails leaves stream uninitialised.
Popen ==
  /\ Alive /\ collect = "start"
  /\ \/ collect' = "loop" /\ child' = "alive" /\ UNCHANGED <<fault, notes>>
     \/ /\ collect' = "ended" /\ gone' = TRUE
        /\ \/ UNCHANGED <<strays, failed>>
           \/ strays' = strays + 1 /\ failed' = TRUE
        /\ UNCHANGED <<child, fault, dropped>>
     \/ collect' = "fgets" /\ fault' = "undefined" /\ UNCHANGED <<child, notes>>
  /\ UNCHANGED <<sched, open, waiting, holder, isRunning, hasNewData, datas, publish, opens,
                 overtaken>>

\* Mutant: the loop does not look at isRunning.
CollectsOn == TRUE
Collects == isRunning

CollectLoop ==
  /\ Alive /\ collect = "loop"
  /\ collect' = IF Collects THEN "fgets" ELSE "sleep"
  /\ UNCHANGED <<sched, open, waiting, holder, isRunning, hasNewData, datas, publish, child, fault,
                 opens, overtaken, notes>>

\* A line of values is stored; a line of attributes, or one to skip, is not.
ParseLine ==
  /\ Alive /\ collect = "fgets" /\ child = "alive"
  /\ collect' = "loop"
  /\ \/ datas < MaxLines /\ datas' = datas + 1 /\ hasNewData' = TRUE
     \/ UNCHANGED <<datas, hasNewData>>
  /\ UNCHANGED <<sched, open, waiting, holder, isRunning, publish, child, fault, opens, overtaken, notes>>

\* Mutant: the end of the command clears isRunning.
StopsAtEnd == isRunning' = FALSE
StaysOpen == UNCHANGED isRunning

ReadsEnd ==
  /\ Alive /\ collect = "fgets" /\ child = "ended"
  /\ collect' = "sleep" /\ StaysOpen
  /\ UNCHANGED <<sched, open, waiting, holder, hasNewData, datas, publish, child, fault,
                 opens, overtaken, notes>>

\* Mutant: the command is left to end by itself.
LeavesChild == child
KillsChild == "none"

\* An fclose that fails keeps Pclose from signalling the command.
Pclose ==
  /\ Alive /\ collect = "sleep" /\ collect' = "close"
  /\ \/ child' = KillsChild /\ UNCHANGED <<strays, failed>>
     \/ /\ child' = "none" /\ failed' = TRUE
        /\ strays' = IF child = "alive" THEN strays + 1 ELSE strays
  /\ UNCHANGED <<sched, open, waiting, holder, isRunning, hasNewData, datas, publish, fault, opens,
                 overtaken, gone, dropped>>

\* datas is cleared without dataMutex: while it is being published, anything may
\* happen, the end of the process too.
Close ==
  /\ Alive /\ collect = "close"
  /\ collect' = "ended" /\ datas' = 0
  /\ dropped' = (dropped \/ (isRunning /\ datas > 0))
  /\ \/ UNCHANGED fault
     \/ publish = "fill" /\ fault' = "undefined"
  /\ UNCHANGED <<sched, open, waiting, holder, isRunning, hasNewData, publish, child, opens, overtaken,
                 strays, failed, gone>>

\* External: the command ends by itself.
ChildEnds ==
  /\ Alive /\ child = "alive" /\ child' = "ended" /\ gone' = TRUE
  /\ UNCHANGED <<sched, open, waiting, holder, isRunning, hasNewData, datas, collect, publish, fault,
                 opens, overtaken, strays, failed, dropped>>

\* External: a command whose output no one reads ends when it prints.
StrayEnds ==
  /\ Alive /\ strays > 0 /\ strays' = strays - 1
  /\ UNCHANGED <<sched, open, waiting, holder, isRunning, hasNewData, datas, collect, publish, child,
                 fault, opens, overtaken, failed, gone, dropped>>

-----------------------------------------------------------------------------
(* The publishing thread                                                   *)

PublishLoop ==
  /\ Alive /\ publish = "check"
  /\ \/ ~isRunning /\ publish' = "ended" /\ UNCHANGED hasNewData
     \/ /\ isRunning /\ hasNewData' = FALSE
        /\ publish' = IF hasNewData THEN "fill" ELSE "sleep"
  /\ UNCHANGED <<sched, open, waiting, holder, isRunning, datas, collect, child, fault, opens, overtaken,
                 notes>>

\* Mutant: the flag is cleared last, after a line that came too late was read.
FlagClearedLast == datas' \in {0, 1} /\ hasNewData' = FALSE
TakesLines == datas' = 0 /\ UNCHANGED hasNewData

FillDataStruct ==
  /\ Alive /\ publish = "fill"
  /\ publish' = "sleep" /\ TakesLines
  /\ UNCHANGED <<sched, open, waiting, holder, isRunning, collect, child, fault, opens, overtaken, notes>>

PublishWakes ==
  /\ Alive /\ publish = "sleep" /\ publish' = "check"
  /\ UNCHANGED <<sched, open, waiting, holder, isRunning, hasNewData, datas, collect, child, fault,
                 opens, overtaken, notes>>

-----------------------------------------------------------------------------
Closer == CloserLocks \/ JoinsCollect \/ JoinsPublish
Collector == Popen \/ CollectLoop \/ ParseLine \/ ReadsEnd \/ Pclose \/ Close
Publisher == PublishLoop \/ FillDataStruct \/ PublishWakes

Next ==
  \/ OpenTopic \/ OpenTopicLocked \/ CloseTopic
  \/ Closer \/ Collector \/ Publisher \/ ChildEnds \/ StrayEnds

Spec == Init /\ [][Next]_vars
\* The threads run, and the commands that are admitted print again and again.
FairSpec ==
  Spec /\ WF_vars(OpenTopicLocked) /\ WF_vars(Closer) /\ WF_vars(Collector) /\ WF_vars(Publisher)

-----------------------------------------------------------------------------
(* Properties                                                              *)

TypeOK ==
  /\ sched \in {"idle", "opening"} /\ open \in BOOLEAN /\ waiting \in 0..MaxOpens
  /\ holder \in {"free", "collect", "publish"}
  /\ isRunning \in BOOLEAN /\ hasNewData \in BOOLEAN /\ datas \in 0..MaxLines
  /\ collect \in {"none", "start", "loop", "fgets", "sleep", "close", "ended"}
  /\ publish \in {"none", "check", "fill", "sleep", "ended"}
  /\ child \in {"none", "alive", "ended"} /\ fault \in {"none", "terminate", "undefined"}
  /\ opens \in 0..MaxOpens /\ overtaken \in BOOLEAN
  /\ strays \in Nat /\ failed \in BOOLEAN /\ gone \in BOOLEAN /\ dropped \in BOOLEAN

\* However OpenTopic and the closing threads follow each other, a thread that
\* was not joined is never replaced, which would end the process.
NoTerminate == fault # "terminate"

\* When all the closing threads of a closed topic are done nothing is left of
\* it: no thread, no line for the next subscriber, and no command, but for those
\* that a failing fdopen or fclose left behind with no one to signal them.
ClosedIsQuiet ==
  Alive /\ ~open /\ sched = "idle" /\ waiting = 0 /\ holder = "free" =>
    /\ ~isRunning /\ collect = "none" /\ publish = "none" /\ child = "none" /\ datas = 0
    /\ strays > 0 => failed

\* An open topic is marked running, its publishing thread runs, and its collecting
\* thread still reads unless the command could not be started or ended by itself:
\* nothing starts it again then.  The exception is an OpenTopic that overtook the
\* closing thread of the CloseTopic before it: that thread then stops the topic it
\* was to leave open.
OpenRuns ==
  open /\ ~overtaken =>
    /\ isRunning /\ publish \in {"check", "fill", "sleep"}
    /\ collect \in {"start", "loop", "fgets"} \/ gone

\* While the topic runs, a line that is stored is seen: the flag is up, or the
\* publishing thread is about to take it.  Only the end of the command lets Close
\* throw away lines of a topic that still runs.
NewsIsSeen ==
  /\ isRunning /\ datas > 0 => hasNewData \/ publish = "fill"
  /\ dropped => gone

\* OpenTopic, which holds up the whole scheduling thread, returns, and the
\* closing threads end: the one that has topicMutex gets its joins once the
\* command prints one more line.
NoneHangs ==
  /\ (sched = "opening") ~> (sched = "idle" \/ ~Alive)
  /\ (waiting > 0) ~> ((waiting = 0 /\ holder = "free") \/ ~Alive)
=============================================================================
