---------------------------- MODULE TuneSettings ----------------------------
(***************************************************************************)
(* What the tuning plugins do to the system.  A tuner reads settings (a    *)
(* sysfs file, a service, a kernel module), writes its own values when it  *)
(* is enabled, and writes back what it read when it is disabled; several   *)
(* tuners use the same settings and know nothing of each other.  Enable,   *)
(* Disable and Run are called by the one scheduling thread                 *)
(* (InstanceRunHandler.tla), and at the end by Exit, which disables the    *)
(* instances in the order of a hash table.  Any write may fail.            *)
(***************************************************************************)
EXTENDS Integers, Sequences

CONSTANTS
  Tuners,      \* names of the tuners below that are loaded
  Originals,   \* states the system may be found in
  NoValue,
  MaxJobs,     \* bound: calls of Enable, Disable and Run
  MaxFaults    \* bound: writes that fail

-----------------------------------------------------------------------------
(* The tuners.  A write of Enable: the setting, the value, what Disable    *)
(* does about it ("saved": writes what was read; "changed": does so if it  *)
(* was not the tuner's own value; "never"; or a fixed value), and whether  *)
(* Enable fails with it.                                                   *)

Write(set, to, back, must) == [set |-> set, to |-> to, back |-> back, must |-> must]

Upto(n) == [k \in 1..n |-> k]

\* enables, runs: the writes that Enable and Run do; backs: the order in which
\* Disable writes back; halts: those without which it returns; undo: a failed
\* Enable takes back what it wrote; already: with the first setting as wanted,
\* Enable and Disable do nothing; checks: Disable does nothing in an environment
\* that fails its check.
Tuner(writes, backs, undo) ==
  [writes |-> writes, enables |-> Upto(Len(writes)), runs |-> <<>>, backs |-> backs,
   halts |-> {}, undo |-> undo, already |-> FALSE, checks |-> FALSE]

multi_net_path ==
  Tuner(<<Write("irqbalance", "inactive", "changed", FALSE),
          Write("oenetcls", "loaded", "absent", TRUE)>>, <<2, 1>>, TRUE)
hardirq_tune ==
  [Tuner(<<Write("irqbalance", "inactive", "changed", FALSE),
           Write("smp_affinity", "bound", "changed", FALSE)>>, <<1, 2>>, FALSE)
     EXCEPT !.enables = <<1>>, !.runs = <<2>>]
transparent_hugepage_tune == Tuner(<<Write("thp", "always", "saved", TRUE)>>, <<1>>, FALSE)
cluster_cpu_tune == Tuner(<<Write("cluster", "on", "saved", TRUE)>>, <<1>>, FALSE)
\* Without cpu_isolation, which RealtimeTune.tla models; numa_balancing stands for
\* the four integers that are treated alike.
realtime_tune ==
  Tuner(<<Write("enable_list", "listed", "unlisted", TRUE),
          Write("governor0", "performance", "changed", FALSE),
          Write("governor1", "performance", "changed", FALSE),
          Write("thp", "never", "saved", FALSE),
          Write("numa_balancing", "0", "saved", FALSE),
          Write("swap", "off", "on", FALSE),
          Write("enable_list", "listed", "unlisted", TRUE)>>, <<6, 5, 4, 2, 3, 1>>, FALSE)
seep_tune ==
  Tuner(<<Write("cpufreq_seep", "loaded", "never", TRUE),
          Write("governor0", "seep", "saved", TRUE),
          Write("governor1", "seep", "saved", TRUE)>>, <<2, 3>>, TRUE)
dynamic_smt_tune ==
  Tuner(<<Write("sched_util_ratio", "threshold", "saved", TRUE),
          Write("KEEP_ON_CORE", "on", "changed", TRUE)>>, <<2, 1>>, FALSE)
numa_sched_tune ==
  [Tuner(<<Write("NUMA_SCHED", "on", "off", TRUE),
           Write("sched_util_low_pct", "100", "saved", TRUE)>>, <<1, 2>>, TRUE)
     EXCEPT !.halts = {1}, !.already = TRUE]
coordination_burst ==
  [Tuner(<<Write("soft_runtime_ratio", "ratio", "saved", TRUE),
           Write("soft_quota0", "1", "saved", TRUE),
           Write("soft_quota1", "1", "saved", TRUE)>>, <<1, 2, 3>>, TRUE)
     EXCEPT !.checks = TRUE]
stealtask_tune == Tuner(<<Write("STEAL", "on", "off", TRUE)>>, <<1>>, FALSE)

Code ==
  [multi_net_path |-> multi_net_path, hardirq_tune |-> hardirq_tune,
   transparent_hugepage_tune |-> transparent_hugepage_tune, cluster_cpu_tune |-> cluster_cpu_tune,
   realtime_tune |-> realtime_tune, seep_tune |-> seep_tune, dynamic_smt_tune |-> dynamic_smt_tune,
   numa_sched_tune |-> numa_sched_tune, coordination_burst |-> coordination_burst,
   stealtask_tune |-> stealtask_tune]

\* Kernel modules are inserted, which fails for one that is loaded.
Modules == {"oenetcls", "cpufreq_seep"}

SettingsOf(t) == {w.set : w \in {Code[t].writes[k] : k \in DOMAIN Code[t].writes}}
Settings == UNION {SettingsOf(t) : t \in Tuners}
AllWrites == UNION {{Code[t].writes[k] : k \in DOMAIN Code[t].writes} : t \in Tuners}
Values ==
  [s \in Settings |->
     {o[s] : o \in Originals} \cup UNION {{w.to, w.back} : w \in {x \in AllWrites : x.set = s}}]

ASSUME TunersAssumption == Tuners \subseteq DOMAIN Code
\* A feature that a tuner may find as wanted is on or off.
ASSUME OriginalsAssumption ==
  \A o \in Originals :
    /\ Settings \subseteq DOMAIN o
    /\ \A t \in Tuners : Code[t].already =>
         o[Code[t].writes[1].set] \in {Code[t].writes[1].to, Code[t].writes[1].back}
ASSUME TuneBoundsAssumption == MaxJobs \in Nat /\ MaxFaults \in Nat

-----------------------------------------------------------------------------
VARIABLES
  sys,       \* the settings
  original,  \* what they were before any tuner
  order,     \* the enabled tuners, in the order of enabling
  saved,     \* what each tuner read
  idle,      \* tuners that found their setting as wanted (isOriginalEnabled)
  job,       \* the call in progress: its tuner, what it does, the writes ahead
  entry,     \* sys when the call began
  missed,    \* <<tuner, setting>> that the tuner has not written
  spoilt,    \* settings that a failed write or the order of calls left wrong
  jobs, faults

vars == <<sys, original, order, saved, idle, job, entry, missed, spoilt, jobs, faults>>

NoJob == [tuner |-> "none", doing |-> "nothing", ahead |-> <<>>]
Enabled == {order[i] : i \in DOMAIN order}

Init ==
  /\ original \in {[s \in Settings |-> o[s]] : o \in Originals} /\ sys = original
  /\ order = <<>> /\ saved = [t \in Tuners |-> [s \in SettingsOf(t) |-> NoValue]]
  /\ idle = {} /\ job = NoJob /\ entry = original /\ missed = {} /\ spoilt = {}
  /\ jobs = 0 /\ faults = 0

Begin(t, doing, ahead) ==
  /\ job = NoJob /\ jobs < MaxJobs
  /\ job' = [tuner |-> t, doing |-> doing, ahead |-> ahead]
  /\ entry' = sys /\ jobs' = jobs + 1
  /\ UNCHANGED <<sys, original, missed, faults>>

Continue(ahead) == job' = [job EXCEPT !.ahead = ahead]

-----------------------------------------------------------------------------
(* Enable                                                                  *)

Already(t) == Code[t].already /\ sys[Code[t].writes[1].set] = Code[t].writes[1].to

\* What the tuner finds is what it will restore.
EnableBegins(t) ==
  /\ t \notin Enabled
  /\ Begin(t, "enable", IF Already(t) THEN <<>> ELSE Code[t].enables)
  /\ saved' = [saved EXCEPT ![t] = [s \in SettingsOf(t) |-> sys[s]]]
  /\ idle' = IF Already(t) THEN idle \cup {t} ELSE idle
  /\ UNCHANGED <<order, spoilt>>

\* The parameters, the configuration or the environment are refused.
EnableRefused(t) ==
  /\ t \notin Enabled
  /\ Begin(t, "undo", <<>>)
  /\ UNCHANGED <<order, saved, idle, spoilt>>

Now == Code[job.tuner].writes[Head(job.ahead)]

EnableWrites ==
  /\ job.doing \in {"enable", "run"} /\ job.ahead # <<>>
  /\ ~(Now.set \in Modules /\ sys[Now.set] = "loaded")
  /\ sys' = [sys EXCEPT ![Now.set] = Now.to]
  /\ missed' = missed \ {<<job.tuner, Now.set>>}
  /\ Continue(Tail(job.ahead))
  /\ UNCHANGED <<original, order, saved, idle, entry, spoilt, jobs, faults>>

\* Mutant: the loop that takes back stops one short.
TakenBackShort(t, k) == Upto(k - 2)
\* The writes a failed Enable takes back.
TakenBack(t, k) == Upto(k - 1)

\* A write fails: it is skipped, or Enable fails with it.
EnableFails ==
  /\ job.doing \in {"enable", "run"} /\ job.ahead # <<>>
  /\ LET inserted == Now.set \in Modules /\ sys[Now.set] = "loaded"
         k == Head(job.ahead)
         t == job.tuner
     IN /\ inserted \/ faults < MaxFaults
        /\ faults' = IF inserted THEN faults ELSE faults + 1
        /\ \/ /\ ~Now.must /\ sys[Now.set] # Now.to
              /\ missed' = missed \cup {<<t, Now.set>>}
              /\ Continue(Tail(job.ahead)) /\ UNCHANGED spoilt
           \/ /\ Now.must
              /\ job' = [job EXCEPT !.doing = "undo",
                                    !.ahead = IF Code[t].undo THEN TakenBack(t, k) ELSE <<>>]
              /\ spoilt' = IF Code[t].undo THEN spoilt
                           ELSE spoilt \cup {Code[t].writes[j].set : j \in 1..(k - 1)}
              /\ UNCHANGED missed
  /\ UNCHANGED <<sys, original, order, saved, idle, entry, jobs>>

Enables ==
  /\ job.doing = "enable" /\ job.ahead = <<>>
  /\ order' = Append(order, job.tuner)
  /\ LET t == job.tuner
     IN missed' = missed \cup {<<t, Code[t].writes[Code[t].runs[i]].set>> : i \in DOMAIN Code[t].runs}
  /\ job' = NoJob
  /\ UNCHANGED <<sys, original, saved, idle, entry, spoilt, jobs, faults>>

RunBegins(t) ==
  /\ t \in Enabled /\ Code[t].runs # <<>>
  /\ Begin(t, "run", Code[t].runs)
  /\ UNCHANGED <<order, saved, idle, spoilt>>

-----------------------------------------------------------------------------
(* Disable, and what a failed Enable takes back                            *)

\* The settings of t that a tuner enabled after it uses too.
Overlaid(t) ==
  {s \in SettingsOf(t) :
     \E i, j \in DOMAIN order : i < j /\ order[i] = t /\ s \in SettingsOf(order[j])}

Without(seq, i) == [k \in 1..(Len(seq) - 1) |-> IF k < i THEN seq[k] ELSE seq[k + 1]]

DisableBegins(t) ==
  /\ \/ /\ Begin(t, "disable", IF t \in idle THEN <<>> ELSE Code[t].backs)
        /\ spoilt' = spoilt \cup Overlaid(t)
     \/ /\ Code[t].checks /\ Begin(t, "disable", <<>>)
        /\ spoilt' = spoilt \cup SettingsOf(t)
  /\ \E i \in DOMAIN order : order[i] = t /\ order' = Without(order, i)
  /\ idle' = idle \ {t}
  /\ UNCHANGED saved

\* Mutants: Disable tests for what was there the wrong way round; it writes the
\* default of the system.
WritesBackSame(w, was) ==
  /\ w.back # "never"
  /\ w.back = "changed" => IF job.doing = "disable" THEN was = w.to ELSE was # w.to
DefaultBack(w, was) ==
  IF w.back \notin {"saved", "changed"} THEN w.back
  ELSE IF job.doing = "disable" THEN original[w.set] ELSE was

WritesBack(w, was) == w.back # "never" /\ (w.back = "changed" => was # w.to)
ValueBack(w, was) == IF w.back \in {"saved", "changed"} THEN was ELSE w.back

GoesBack ==
  /\ job.doing \in {"undo", "disable"} /\ job.ahead # <<>>
  /\ LET was == saved[job.tuner][Now.set]
     IN sys' = IF WritesBack(Now, was) THEN [sys EXCEPT ![Now.set] = ValueBack(Now, was)] ELSE sys
  /\ Continue(Tail(job.ahead))
  /\ UNCHANGED <<original, order, saved, idle, entry, missed, spoilt, jobs, faults>>

\* A failure is logged and passed over, except where Disable returns.
GoesBackFails ==
  /\ job.doing \in {"undo", "disable"} /\ job.ahead # <<>> /\ faults < MaxFaults
  /\ WritesBack(Now, saved[job.tuner][Now.set])
  /\ faults' = faults + 1
  /\ LET halts == job.doing = "disable" /\ Head(job.ahead) \in Code[job.tuner].halts
         left == IF halts THEN {job.ahead[i] : i \in DOMAIN job.ahead} ELSE {Head(job.ahead)}
     IN /\ spoilt' = spoilt \cup {Code[job.tuner].writes[k].set : k \in left}
        /\ Continue(IF halts THEN <<>> ELSE Tail(job.ahead))
  /\ UNCHANGED <<sys, original, order, saved, idle, entry, missed, jobs>>

\* The call ends: Run, Disable, or an Enable that failed.
Ends ==
  /\ job.doing \in {"run", "undo", "disable"} /\ job.ahead = <<>>
  /\ missed' = IF job.doing = "run" THEN missed ELSE {m \in missed : m[1] # job.tuner}
  /\ job' = NoJob
  /\ UNCHANGED <<sys, original, order, saved, idle, entry, spoilt, jobs, faults>>

Next ==
  \/ \E t \in Tuners : EnableBegins(t) \/ EnableRefused(t) \/ RunBegins(t) \/ DisableBegins(t)
  \/ EnableWrites \/ EnableFails \/ Enables
  \/ GoesBack \/ GoesBackFails \/ Ends

Spec == Init /\ [][Next]_vars

-----------------------------------------------------------------------------
(* Properties                                                              *)

TypeOK ==
  /\ {sys, original, entry} \subseteq [Settings -> UNION {Values[s] : s \in Settings}]
  /\ \A s \in Settings : {sys[s], original[s], entry[s]} \subseteq Values[s]
  /\ order \in Seq(Tuners) /\ \A i, j \in DOMAIN order : order[i] = order[j] => i = j
  /\ DOMAIN saved = Tuners
  /\ \A t \in Tuners : \A s \in SettingsOf(t) : saved[t][s] \in Values[s] \cup {NoValue}
  /\ idle \subseteq Tuners
  /\ \/ job = NoJob
     \/ /\ job \in [tuner : Tuners, doing : {"enable", "run", "undo", "disable"}, ahead : Seq(Nat)]
        /\ \A i \in DOMAIN job.ahead : job.ahead[i] \in DOMAIN Code[job.tuner].writes
  /\ missed \subseteq Tuners \X Settings /\ spoilt \subseteq Settings
  /\ jobs \in 0..MaxJobs /\ faults \in 0..MaxFaults

\* Where Disable writes a fixed value, the setting comes back only if it had
\* that value: the module of seep stays, STEAL is off, swap is on.
NotRestored ==
  {s \in Settings : \E t \in Tuners : \E k \in DOMAIN Code[t].writes :
     /\ Code[t].writes[k].set = s /\ ~Code[t].already
     /\ Code[t].writes[k].back \notin {"saved", "changed", original[s]} \ {"never"}}

\* When no tuner is enabled the system is what it was, however the tuners that
\* share a setting followed each other, as long as each was disabled before
\* those it was enabled after, and the write that restores a setting worked.
RestoredInOrder ==
  job = NoJob /\ order = <<>> =>
    \A s \in Settings \ (spoilt \cup NotRestored) : sys[s] = original[s]

\* An Enable that returns FAILED has changed nothing: the tuners that write
\* several settings roll back.  dynamic_smt_tune and realtime_tune do not, and
\* what a failing Enable of theirs leaves changed is spoilt.
FailedEnableLeavesNoTrace ==
  job.doing = "undo" /\ job.ahead = <<>> =>
    \A s \in Settings \ (spoilt \cup NotRestored) : sys[s] = entry[s]

\* A setting has the value of the tuner that was enabled last of those that use
\* it, also after a later one came and went, unless that tuner's write failed.
TunedWhileEnabled ==
  job = NoJob =>
    \A i \in DOMAIN order : \A k \in DOMAIN Code[order[i]].writes :
      LET w == Code[order[i]].writes[k]
      IN \/ w.set \in spoilt \/ <<order[i], w.set>> \in missed
         \/ \E j \in DOMAIN order : j > i /\ w.set \in SettingsOf(order[j])
         \/ sys[w.set] = w.to
         \/ order[i] \in idle /\ k > 1

\* irqbalance does not run while a tuner that conflicts with it is enabled.
\* Fails: each tuner restores what it found, and starts it under the other.
IrqbalanceStopped ==
  \A t \in Enabled :
    job = NoJob /\ "irqbalance" \in SettingsOf(t) /\ <<t, "irqbalance">> \notin missed =>
      sys["irqbalance"] = "inactive"
=============================================================================
