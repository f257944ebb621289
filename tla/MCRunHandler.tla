---------------------------- MODULE MCRunHandler ----------------------------
(* A collector, an analysis that subscribes to it from OpenTopic, and a tuning *)
(* instance that subscribes to it from Enable, with small periods.             *)
EXTENDS InstanceRunHandler

CONSTANTS coll, anal, tune, tc, ta, fd1

MCInstances == {coll, anal, tune}
MCTopics == {tc, ta}
MCSdkFds == {fd1}
MCInstanceOf == [t \in MCTopics |-> IF t = tc THEN coll ELSE anal]
MCEnableDeps == [i \in MCInstances |-> IF i = tune THEN {tc} ELSE {}]
MCOpenDeps == [t \in MCTopics |-> IF t = ta THEN {tc} ELSE {}]
MCKind == [i \in MCInstances |->
             IF i = coll THEN "collect" ELSE IF i = anal THEN "scenario" ELSE "tune"]
MCPeriod == [i \in MCInstances |-> 10]
MCPriority == [i \in MCInstances |-> IF i = coll THEN 0 ELSE IF i = anal THEN 1 ELSE 2]
=============================================================================
