----------------------------- MODULE MCRunOnce ------------------------------
(* The kernel_config collector (run once, period 0) with two topics, and a   *)
(* tuning instance that uses one of them, with plugins removed and reloaded. *)
EXTENDS InstanceRunHandler

CONSTANTS kern, tune, get, cmd, fd1

MCInstances == {kern, tune}
MCTopics == {get, cmd}
MCInstanceOf == [t \in MCTopics |-> kern]
MCEnableDeps == [i \in MCInstances |-> IF i = tune THEN {get} ELSE {}]
MCOpenDeps == [t \in MCTopics |-> {}]
MCKind == [i \in MCInstances |-> IF i = kern THEN "collect" ELSE "tune"]
MCPeriod == [i \in MCInstances |-> IF i = kern THEN 0 ELSE 10]
MCPriority == [i \in MCInstances |-> IF i = kern THEN 0 ELSE 2]
=============================================================================
