-------------------------- MODULE MCTuneSettings ----------------------------
(* The tuners of the repository, on a system as it is installed, on one that *)
(* already has what some of the tuners set, and on one where oeAware has     *)
(* left its modules and its entry in the enable list.                        *)
EXTENDS TuneSettings

Fresh ==
  [irqbalance |-> "active", oenetcls |-> "absent", smp_affinity |-> "all", thp |-> "madvise",
   cluster |-> "off", governor0 |-> "ondemand", governor1 |-> "ondemand", numa_balancing |-> "1",
   swap |-> "on", cpufreq_seep |-> "absent", sched_util_ratio |-> "default", KEEP_ON_CORE |-> "off",
   NUMA_SCHED |-> "off", sched_util_low_pct |-> "85", soft_runtime_ratio |-> "default",
   soft_quota0 |-> "0", soft_quota1 |-> "0", STEAL |-> "off",
   enable_list |-> "unlisted"]
Tuned ==
  [Fresh EXCEPT !.irqbalance = "inactive", !.thp = "always", !.governor0 = "performance",
                !.KEEP_ON_CORE = "on", !.NUMA_SCHED = "on", !.STEAL = "on", !.swap = "off"]
Used == [Tuned EXCEPT !.oenetcls = "loaded", !.cpufreq_seep = "loaded", !.enable_list = "listed"]
MCOriginals == {Fresh, Tuned, Used}
MCTuners == DOMAIN Code
IrqTuners == {"multi_net_path", "hardirq_tune"}
=============================================================================
