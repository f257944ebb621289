-------------------------- MODULE MCPluginManager ---------------------------
(* A collector and a tuning instance that subscribes to it from Enable, in two *)
(* plugins, with one SDK connection.                                           *)
EXTENDS PluginManager

CONSTANTS coll, tune, tc, fd1, pcoll, ptune

MCInstances == {coll, tune}
MCTopics == {tc}
MCInstanceOf == [t \in MCTopics |-> coll]
MCEnableDeps == [i \in MCInstances |-> IF i = tune THEN {tc} ELSE {}]
MCOpenDeps == [t \in MCTopics |-> {}]
MCKind == [i \in MCInstances |-> IF i = coll THEN "collect" ELSE "tune"]
MCPeriod == [i \in MCInstances |-> 10]
MCPriority == [i \in MCInstances |-> IF i = coll THEN 0 ELSE 2]
MCPluginOf == [i \in MCInstances |-> IF i = coll THEN pcoll ELSE ptune]
MCNone == <<>>
MCEnableTune == <<tune>>
=============================================================================
